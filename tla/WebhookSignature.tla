-------------------------- MODULE WebhookSignature --------------------------
(***************************************************************************)
(* A webhook's posts and their receiver: the server signs each try with    *)
(* the time of the post and the secret its run read; the receiver checks   *)
(* what it gets with the TypeScript or the Python SDK, a secret it was     *)
(* given by hand, and its own clock.  Posts come late, twice and out of    *)
(* order, and a framework or proxy may change how body and headers look.   *)
(* What happens to calls and their runs is in WebhookDispatch.             *)
(*                                                                         *)
(* A signature is the three things it is made of, which it matches only if *)
(* all are the same.  Times are in units the tolerance is a multiple of.   *)
(***************************************************************************)
EXTENDS Integers

CONSTANTS
  Skews,       \* what the receiver's clock may be ahead of the server's
  Tolerances,  \* tolerances it may verify with; a negative one is none
  MaxTime,     \* bound: the server's clock
  MaxTries,    \* bound: runs of the call
  MaxRotations \* bound: secrets after the first

ASSUME SignatureAssumption ==
  /\ Skews \subseteq Int /\ Tolerances \subseteq Int
  /\ MaxTime \in Nat /\ MaxTries \in Nat /\ MaxRotations \in Nat

VARIABLES
  clock, skew, tolerance,
  secret,   \* the webhook's; secrets are numbered
  known,    \* the receiver's
  reading,  \* the call's run: [pc, secret]; the secret it read
  tries,    \* runs begun
  posts,    \* posts that may still arrive, or arrive again
  verdict   \* of the post just checked: [post, body, head, at, known, ts, py]
signatureVars == << clock, skew, tolerance, secret, known, reading, tries, posts, verdict >>

\* body: the try whose it is; made: the server's time, which is history.
Posts == [stamp: 0 .. MaxTime, by: 0 .. MaxRotations, body: 1 .. MaxTries, made: 0 .. MaxTime]
NoReading == [pc |-> "idle", secret |-> 0]
NoVerdict == [post |-> [stamp |-> 0, by |-> 0, body |-> 1, made |-> 0], body |-> "text",
              head |-> [signature |-> "v1", stamp |-> "digits"],
              at |-> 0, known |-> 0, ts |-> "none", py |-> "none"]

SignatureTypeOK ==
  /\ clock \in 0 .. MaxTime /\ tries \in 0 .. MaxTries
  /\ known \in 0 .. secret /\ secret \in 0 .. MaxRotations
  /\ posts \subseteq Posts /\ reading.pc \in {"idle", "read"}

SignatureInit ==
  /\ clock = 0 /\ skew \in Skews /\ tolerance \in Tolerances
  /\ secret = 0 /\ known = 0 /\ reading = NoReading /\ tries = 0 /\ posts = {}
  /\ verdict = NoVerdict

-----------------------------------------------------------------------------
(* The server. *)

\* A run reads the webhook with its secret.
ReadSecret ==
  /\ reading.pc = "idle" /\ tries < MaxTries
  /\ reading' = [pc |-> "read", secret |-> secret] /\ tries' = tries + 1
  /\ UNCHANGED << clock, skew, tolerance, secret, known, posts >> /\ verdict' = NoVerdict

\* Mutant of signBody: signed with the time of the call.
SignedAsCall == [stamp |-> 0, by |-> reading.secret, body |-> tries, made |-> clock]

\* The body tells the attempt, so that no two are the same.
signBody == [stamp |-> clock, by |-> reading.secret, body |-> tries, made |-> clock]

postWebhook ==
  /\ reading.pc = "read" /\ reading' = NoReading
  /\ posts' = posts \cup {signBody}
  /\ UNCHANGED << clock, skew, tolerance, secret, known, tries >> /\ verdict' = NoVerdict

RotateSecret ==
  /\ secret < MaxRotations /\ secret' = secret + 1
  /\ UNCHANGED << clock, skew, tolerance, known, reading, tries, posts >> /\ verdict' = NoVerdict

-----------------------------------------------------------------------------
(* The receiver. *)

\* The body as it was sent, as text or bytes; taken apart; written anew; or in
\* bytes that are not UTF-8.
Bodies == {"text", "bytes", "object", "rewritten", "latin1"}
\* A header that got lost, or is of no version known, or is a number as only
\* Number, "1.5e9", or only int, "1_500", reads it.
Heads == [signature: {"v1"}, stamp: {"lost", "digits", "fraction", "grouped", "word"}]
         \cup [signature: {"lost", "other"}, stamp: {"digits"}]

Genuine(p, body) == p.by = known /\ body \in {"text", "bytes"}
Reads(sdk, form) == form = "digits" \/ (sdk = "ts" /\ form = "fraction") \/ (sdk = "py" /\ form = "grouped")
Distance(a, b) == IF a < b THEN b - a ELSE a - b

OutOfRange(stamp) == tolerance >= 0 /\ Distance(clock + skew, stamp) > tolerance

\* The text the body is read as: the TypeScript SDK puts marks for bytes that
\* are not UTF-8.
Readable(sdk, body) == body # "object" /\ (sdk = "py" => body # "latin1")

verify(sdk, p, body, head) ==
  CASE head.signature = "lost" -> "MISSING_SIGNATURE"
    [] head.signature # "lost" /\ head.stamp = "lost" -> "MISSING_TIMESTAMP"
    [] head.signature = "other" /\ head.stamp # "lost" -> "INVALID_SIGNATURE_FORMAT"
    [] OTHER ->
         IF ~ Reads(sdk, head.stamp) THEN "INVALID_TIMESTAMP"
         ELSE IF OutOfRange(p.stamp) THEN "TIMESTAMP_OUT_OF_RANGE"
         ELSE IF ~ Readable(sdk, body) THEN "INVALID_BODY"
         ELSE IF ~ Genuine(p, body) \/ head.stamp # "digits" THEN "SIGNATURE_MISMATCH"
         ELSE "OK"

Receive(p) ==
  /\ verdict = NoVerdict
  /\ \E body \in Bodies, head \in Heads :
       verdict' = [post |-> p, body |-> body, head |-> head, at |-> clock, known |-> known,
                   ts |-> verify("ts", p, body, head), py |-> verify("py", p, body, head)]
  /\ UNCHANGED << clock, skew, tolerance, secret, known, reading, tries, posts >>

\* The new secret is copied from the dashboard.
Learn ==
  /\ known < secret /\ known' = secret
  /\ UNCHANGED << clock, skew, tolerance, secret, reading, tries, posts >> /\ verdict' = NoVerdict

Advance ==
  /\ clock < MaxTime /\ clock' = clock + 1
  /\ UNCHANGED << skew, tolerance, secret, known, reading, tries, posts >> /\ verdict' = NoVerdict

SignatureNext ==
  \/ ReadSecret \/ postWebhook \/ RotateSecret \/ Learn \/ Advance
  \/ \E p \in posts : Receive(p)

-----------------------------------------------------------------------------
(* Properties. *)

\* The two SDKs take the same posts, and refuse them for the same cause but
\* for bytes that are not UTF-8 and numbers only one of them reads.
SdksAgree ==
  /\ verdict.ts = "OK" <=> verdict.py = "OK"
  /\ verdict.body # "latin1" /\ verdict.head.stamp \in {"lost", "digits", "word"}
       => verdict.ts = verdict.py

\* A post that arrives as it was sent, at most the tolerance from its try by
\* the receiver's clock, however long after the call was made, is refused only
\* if the receiver knew another secret than the run had read.
RefusedForCause ==
  LET v == verdict
      late == Distance(v.at + skew, v.post.made) IN
  v.ts # "none" /\ v.body \in {"text", "bytes"} /\ v.head.signature = "v1" /\ v.head.stamp = "digits" =>
    v.ts = IF tolerance >= 0 /\ late > tolerance THEN "TIMESTAMP_OUT_OF_RANGE"
           ELSE IF v.post.by # v.known THEN "SIGNATURE_MISMATCH"
           ELSE "OK"

ReceiverHolds == SignatureTypeOK /\ SdksAgree /\ RefusedForCause
=============================================================================
