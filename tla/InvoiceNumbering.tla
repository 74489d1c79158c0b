--------------------------- MODULE InvoiceNumbering ---------------------------
(***************************************************************************)
(* How InvoiceService.createWithNumber draws the numbers of a year's       *)
(* invoices (apps/web/src/server/service/invoice-service.ts).  There is no *)
(* counter: a caller counts the year's rows, tries the number that many    *)
(* plus one plus its attempt, and leaves it to the unique index to refuse  *)
(* a number that is taken; it then counts again, five times in all.        *)
(*                                                                         *)
(* The numbers of one year are 1, 2, ...; the prefix and the padding are   *)
(* left out.  No code deletes an invoice.                                  *)
(***************************************************************************)
EXTENDS Naturals, FiniteSets

CONSTANTS
  Callers,      \* approvals, renewals and reminders that need an invoice
  Attempts,     \* the bound of the loop, 5 in the code
  MaxInvoices   \* the exploration's bound on a year's invoices

ASSUME AttemptsAssumption == Attempts \in Nat \ {0}
ASSUME MaxInvoicesAssumption == MaxInvoices \in Nat

VARIABLES
  issued,    \* the numbers of the year's rows
  pc,        \* where each caller stands
  attempt,   \* its loop variable
  seen,      \* the rows it counted in this attempt
  alone      \* history: nobody else has created a row since its call began

vars == <<issued, pc, attempt, seen, alone>>

PCs == {"idle", "count", "create", "failed"}

Init ==
  /\ issued = {}
  /\ pc = [c \in Callers |-> "idle"]
  /\ attempt = [c \in Callers |-> 0]
  /\ seen = [c \in Callers |-> 0]
  /\ alone = [c \in Callers |-> TRUE]

(***************************************************************************)
(* The steps of a call                                                     *)
(***************************************************************************)

Begin(c) ==
  /\ pc[c] = "idle"
  /\ Cardinality(issued) < MaxInvoices
  /\ pc' = [pc EXCEPT ![c] = "count"]
  /\ attempt' = [attempt EXCEPT ![c] = 0]
  /\ alone' = [alone EXCEPT ![c] = TRUE]
  /\ UNCHANGED <<issued, seen>>

\* planInvoice.count
Count(c) ==
  /\ pc[c] = "count"
  /\ seen' = [seen EXCEPT ![c] = Cardinality(issued)]
  /\ pc' = [pc EXCEPT ![c] = "create"]
  /\ UNCHANGED <<issued, attempt, alone>>

Number(c) == seen[c] + 1 + attempt[c]

\* planInvoice.create, where the number is free
Create(c) ==
  /\ pc[c] = "create"
  /\ Number(c) \notin issued
  /\ issued' = issued \union {Number(c)}
  /\ pc' = [pc EXCEPT ![c] = "idle"]
  /\ alone' = [d \in Callers |-> d = c /\ alone[d]]
  /\ UNCHANGED <<attempt, seen>>

\* Mutant: the loop runs once too often.
CollideOneMore(c) ==
  /\ pc[c] = "create"
  /\ Number(c) \in issued
  /\ attempt' = [attempt EXCEPT ![c] = @ + 1]
  /\ pc' = [pc EXCEPT ![c] = IF attempt[c] < Attempts THEN "count" ELSE "failed"]
  /\ UNCHANGED <<issued, seen, alone>>

\* planInvoice.create, where the unique index refuses it (P2002)
Collide(c) ==
  /\ pc[c] = "create"
  /\ Number(c) \in issued
  /\ attempt' = [attempt EXCEPT ![c] = @ + 1]
  /\ pc' = [pc EXCEPT ![c] = IF attempt[c] + 1 < Attempts THEN "count" ELSE "failed"]
  /\ UNCHANGED <<issued, seen, alone>>

\* the caller is told that no number could be allocated, and may ask again
Report(c) ==
  /\ pc[c] = "failed"
  /\ pc' = [pc EXCEPT ![c] = "idle"]
  /\ UNCHANGED <<issued, attempt, seen, alone>>

Next ==
  \E c \in Callers :
    Begin(c) \/ Count(c) \/ Create(c) \/ Collide(c) \/ Report(c)

Spec == Init /\ [][Next]_vars

-------------------------------------------------------------------------------
(* Properties *)

NumTypeOK ==
  /\ issued \subseteq Nat \ {0}
  /\ IsFiniteSet(issued)
  /\ pc \in [Callers -> PCs]
  /\ attempt \in [Callers -> 0..Attempts]
  /\ seen \in [Callers -> Nat]
  /\ alone \in [Callers -> BOOLEAN]

(***************************************************************************)
(* However callers race, the year's numbers run ahead of the rows by less  *)
(* than the attempts a call has.  Were they to run further ahead, every    *)
(* number a call may try could be taken, for the rest of the year.         *)
(***************************************************************************)
HolesAreFew == \A n \in issued : n < Cardinality(issued) + Attempts

(***************************************************************************)
(* A call runs out of attempts only where another caller has created a row *)
(* since it began: one that has the table to itself always gets a number,  *)
(* whatever holes earlier races have left.                                 *)
(***************************************************************************)
FailedWasContended == \A c \in Callers : pc[c] = "failed" => ~alone[c]

NumbersHold == HolesAreFew /\ FailedWasContended
===============================================================================
