---------------------------- MODULE SendingLimits ----------------------------
(***************************************************************************)
(* What a worker asks before it hands a mail to SES: checkEmailLimit, for   *)
(* a team in cloud mode, or for the CLIENT whose domain the mail is from.   *)
(* The team's row, the plan and the usage are read through Redis caches;    *)
(* the usage is counted by the handler of SES's Send notifications, after   *)
(* the mail.  Operators block and assign plans next to it.                  *)
(*                                                                         *)
(* Workers take one mail after another.  sent, tried and lagged are         *)
(* history: the mails accepted in this day and month, the notices mailed or *)
(* failed to be, whether a check has overlapped with another check, with a report    *)
(* still due or cached away, with a request or with a day's end.            *)
(***************************************************************************)
EXTENDS Integers

CONSTANTS
  Workers,     \* workers of the email queue
  Plans,       \* the catalogue: [free, day, month]
  FirstPlans,  \* what the plan may be at the start
  TeamRows,    \* what a team's row may say: [blocked, cap]
  FirstUsage,  \* [day, month]: what was sent before
  MaxSent,     \* counters stop there, above every limit
  MaxUnreported, \* bound on the mails whose notification is still due
  MaxOps       \* bound on operators' requests, and days and months that begin, together

Unlimited == -1
FirstRow == [blocked |-> FALSE, cap |-> 0]
Notices == { "reachedDay", "reachedMonth", "warnMonth", "warnDay" }
Keys == { "team", "plan", "usage" }

ASSUME LimitAssumption ==
  /\ Plans \subseteq [free : BOOLEAN, day : Int, month : Int] /\ FirstPlans \subseteq Plans
  /\ TeamRows \subseteq [blocked : BOOLEAN, cap : Nat] /\ FirstRow \in TeamRows
  /\ FirstUsage \in [day : 0 .. MaxSent, month : 0 .. MaxSent]
  /\ MaxSent \in Nat /\ MaxUnreported \in Nat /\ MaxOps \in Nat

VARIABLES
  clientPath, \* whether the mails are of a CLIENT's domain, for good
  truth,      \* the database: team's row, plan and usage
  suspended,  \* the CLIENT's isBlocked
  cache,      \* of the keys that have not expired
  check,      \* what each worker holds between two calls
  op,         \* the operator's request under way
  unreported, \* mails accepted whose notification is not yet handled
  claimed,    \* the notices whose 24-hour key is set
  ops, sent, tried, lagged

limitVars == << clientPath, truth, suspended, cache, check, op, unreported, claimed, ops,
                sent, tried, lagged >>
steady == << clientPath, lagged >>
limitStores == << truth, suspended, cache, unreported, claimed, sent, tried >>

Usages == [day : 0..MaxSent, month : 0..MaxSent]
Value(k) == CASE k = "team" -> TeamRows [] k = "plan" -> Plans [] k = "usage" -> Usages
Partial(f) == DOMAIN f \subseteq Keys /\ \A k \in DOMAIN f : f[k] \in Value(k)
With(f, k, v) == [x \in DOMAIN f \cup {k} |-> IF x = k THEN v ELSE f[x]]
Without(f, k) == [x \in DOMAIN f \ {k} |-> f[x]]

IdleCheck == [pc |-> "idle", key |-> "none", seen |-> << >>, notice |-> "none"]
IdleOp == [pc |-> "idle", drop |-> FALSE, row |-> FirstRow]
Steps == { "idle", "readUser", "get", "fetch", "store", "decide", "claim", "mail",
           "refuse", "error", "send" }

LimitTypeOK ==
  /\ DOMAIN truth = Keys /\ Partial(truth) /\ Partial(cache)
  /\ clientPath \in BOOLEAN /\ suspended \in BOOLEAN /\ lagged \in BOOLEAN
  /\ \A w \in Workers :
       /\ check[w].pc \in Steps /\ check[w].key \in Keys \cup {"none"}
       /\ check[w].notice \in Notices \cup {"none"} /\ Partial(check[w].seen)
  /\ op \in [pc : {"idle", "reread", "set", "drop"}, drop : BOOLEAN, row : TeamRows]
  /\ unreported \in 0..MaxUnreported /\ sent \in Usages
  /\ claimed \subseteq Notices /\ tried \subseteq Notices
  /\ ops \in 0..MaxOps

LimitInit ==
  /\ \E p \in FirstPlans :
       truth = [k \in Keys |-> CASE k = "team" -> FirstRow [] k = "plan" -> p
                                 [] k = "usage" -> FirstUsage]
  /\ clientPath \in BOOLEAN
  /\ suspended = FALSE /\ cache = << >>
  /\ check = [w \in Workers |-> IdleCheck] /\ op = IdleOp
  /\ unreported = 0 /\ claimed = {} /\ ops = 0
  /\ sent = FirstUsage /\ tried = {} /\ lagged = FALSE

Capped(n) == IF n > MaxSent THEN MaxSent ELSE n
OneMore(u) == [day |-> Capped(u.day + 1), month |-> Capped(u.month + 1)]
NothingOpen == (\A w \in Workers : check[w].pc = "idle") /\ op.pc = "idle"
Together(apart) == lagged' = (lagged \/ ~apart)

-----------------------------------------------------------------------------
\* isLimitExceeded, the daily limit a plan and a team's row give together, and
\* the plans whose month counts: all of a CLIENT's, the free one of a team.
Exceeded(n, limit) == limit # Unlimited /\ n >= limit
DayLimit(team, plan) ==
  IF ~clientPath /\ plan.day = Unlimited /\ team.cap > 0 THEN team.cap ELSE plan.day
MonthLimit(plan) == IF clientPath \/ plan.free THEN plan.month ELSE Unlimited
Nearing(n, limit) == limit > 0 /\ n < limit /\ 10 * n > 8 * limit
OverDay(u, s) == Exceeded(u.day, DayLimit(s["team"], s["plan"]))
OverMonth(u, s) == Exceeded(u.month, MonthLimit(s["plan"]))

CheckAt(w, step) == check[w].pc = step
Ends(j, pc) == [IdleCheck EXCEPT !.pc = pc, !.notice = j.notice]
Ask(w, k) == [check[w] EXCEPT !.pc = "get", !.key = k]

Begin(w) ==
  /\ CheckAt(w, "idle")
  /\ Together(NothingOpen /\ unreported = 0 /\ "usage" \notin DOMAIN cache)
  /\ check' = [check EXCEPT ![w] = IF clientPath THEN [IdleCheck EXCEPT !.pc = "readUser"]
                                                 ELSE Ask(w, "team")]
  /\ UNCHANGED << clientPath, limitStores, op, ops >>

\* Mutant: the CLIENT's own block is not looked at.
ReadUserNever(w) ==
  /\ CheckAt(w, "readUser")
  /\ check' = [check EXCEPT ![w] = Ask(w, "team")]
  /\ UNCHANGED << steady, limitStores, op, ops >>

ReadUser(w) ==
  /\ CheckAt(w, "readUser")
  /\ check' = [check EXCEPT ![w] = IF suspended THEN Ends(@, "refuse")
                                                ELSE Ask(w, "team")]
  /\ UNCHANGED << steady, limitStores, op, ops >>

\* A worker that has the value of a key: the next it asks for.
Learns(w, v) ==
  LET k == check[w].key
      j == [check[w] EXCEPT !.seen = With(@, k, v)]
  IN  CASE k = "team" -> IF v.blocked THEN Ends(j, "refuse")
                         ELSE [j EXCEPT !.pc = "get", !.key = "plan"]
        [] k = "plan" -> [j EXCEPT !.pc = "get", !.key = "usage"]
        [] k = "usage" -> [j EXCEPT !.pc = "decide", !.key = "none"]

\* withCache and getTeamCached.
Get(w) ==
  /\ CheckAt(w, "get")
  /\ check' = [check EXCEPT ![w] = IF check[w].key \in DOMAIN cache
                                   THEN Learns(w, cache[check[w].key])
                                   ELSE [@ EXCEPT !.pc = "fetch"]]
  /\ UNCHANGED << steady, limitStores, op, ops >>

Fetch(w) ==
  LET k == check[w].key IN
  /\ CheckAt(w, "fetch")
  /\ check' = [check EXCEPT ![w] = [@ EXCEPT !.pc = "store", !.seen = With(check[w].seen, k, truth[k])]]
  /\ UNCHANGED << steady, limitStores, op, ops >>

Store(w) ==
  LET k == check[w].key IN
  /\ CheckAt(w, "store")
  /\ cache' = With(cache, k, check[w].seen[k])
  /\ check' = [check EXCEPT ![w] = Learns(w, check[w].seen[k])]
  /\ UNCHANGED << steady, truth, suspended, unreported, claimed, sent, tried, op, ops >>

-----------------------------------------------------------------------------
Notify(j, n) == [j EXCEPT !.pc = "claim", !.notice = n]
WarnOfDay(j) ==
  IF ~clientPath /\ Nearing(j.seen["usage"].day, DayLimit(j.seen["team"], j.seen["plan"]))
  THEN Notify(j, "warnDay") ELSE Ends(j, "send")

\* The limits in the order the code looks at them; notices are the team's only.
Verdict(j) ==
  LET u == j.seen["usage"] IN
  CASE OverDay(u, j.seen) -> IF clientPath THEN Ends(j, "refuse")
                             ELSE Notify(j, "reachedDay")
    [] ~OverDay(u, j.seen) /\ OverMonth(u, j.seen) ->
         IF clientPath THEN Ends(j, "refuse") ELSE Notify(j, "reachedMonth")
    [] ~OverDay(u, j.seen) /\ ~OverMonth(u, j.seen) ->
         IF ~clientPath /\ Nearing(u.month, MonthLimit(j.seen["plan"]))
         THEN Notify(j, "warnMonth") ELSE WarnOfDay(j)

Judge(w) ==
  /\ CheckAt(w, "decide")
  /\ check' = [check EXCEPT ![w] = Verdict(@)]
  /\ UNCHANGED << steady, limitStores, op, ops >>

Afterwards(j) ==
  CASE j.notice \in {"reachedDay", "reachedMonth"} -> Ends(j, "refuse")
    [] j.notice = "warnMonth" -> WarnOfDay(j)
    [] j.notice = "warnDay" -> Ends(j, "send")

\* Mutant: the answer of SET NX is read the wrong way round.
ClaimedNow(w) ==
  LET n == check[w].notice IN
  /\ CheckAt(w, "claim")
  /\ check' = [check EXCEPT ![w] = IF n \in claimed THEN [@ EXCEPT !.pc = "mail"] ELSE Afterwards(@)]
  /\ claimed' = claimed \cup {n}
  /\ UNCHANGED << steady, truth, suspended, cache, unreported, sent, tried, op, ops >>

\* SET NX for 24 hours, before the mail.
Claim(w) ==
  LET n == check[w].notice IN
  /\ CheckAt(w, "claim")
  /\ check' = [check EXCEPT ![w] = IF n \in claimed THEN Afterwards(@) ELSE [@ EXCEPT !.pc = "mail"]]
  /\ claimed' = claimed \cup {n}
  /\ UNCHANGED << steady, truth, suspended, cache, unreported, sent, tried, op, ops >>

MailNotice(w) ==
  /\ CheckAt(w, "mail")
  /\ tried' = tried \cup {check[w].notice}
  /\ check' = [check EXCEPT ![w] = Afterwards(@)]
  /\ UNCHANGED << steady, truth, suspended, cache, unreported, claimed, sent, op, ops >>

\* The warning of the month has no catch of its own: its failure ends the check.
NoticeFails(w) ==
  /\ CheckAt(w, "mail")
  /\ tried' = tried \cup {check[w].notice}
  /\ check' = [check EXCEPT ![w] = IF @.notice = "warnMonth" THEN Ends(@, "error") ELSE Afterwards(@)]
  /\ UNCHANGED << steady, truth, suspended, cache, unreported, claimed, sent, op, ops >>

\* The mail is FAILED, or SES has it.
Refuse(w) ==
  /\ CheckAt(w, "refuse") \/ CheckAt(w, "error")
  /\ check' = [check EXCEPT ![w] = IdleCheck]
  /\ UNCHANGED << steady, limitStores, op, ops >>

Send(w) ==
  /\ CheckAt(w, "send")
  /\ unreported < MaxUnreported
  /\ sent' = OneMore(sent)
  /\ unreported' = unreported + 1
  /\ check' = [check EXCEPT ![w] = IdleCheck]
  /\ UNCHANGED << steady, truth, suspended, cache, claimed, tried, op, ops >>

-----------------------------------------------------------------------------
\* The handler of a Send notification counts it, on the day it handles it.
Report ==
  /\ unreported > 0 /\ unreported' = unreported - 1
  /\ truth' = [truth EXCEPT !["usage"] = OneMore(@)]
  /\ UNCHANGED << steady, suspended, cache, check, op, claimed, ops, sent, tried >>

\* Mutants: the team's row, or the usage, is cached without an expiry.
ExpireNoTeam(k) ==
  /\ k \in DOMAIN cache \ {"team"} /\ cache' = Without(cache, k)
  /\ UNCHANGED << steady, truth, suspended, check, op, unreported, claimed, ops, sent, tried >>
ExpireNoUsage(k) ==
  /\ k \in DOMAIN cache \ {"usage"} /\ cache' = Without(cache, k)
  /\ UNCHANGED << steady, truth, suspended, check, op, unreported, claimed, ops, sent, tried >>

Expire(k) ==
  /\ k \in DOMAIN cache /\ cache' = Without(cache, k)
  /\ UNCHANGED << steady, truth, suspended, check, op, unreported, claimed, ops, sent, tried >>

\* A day or a month begins; a notice's key outlasts neither.
NewPeriod(months) ==
  LET Reset(u) == [day |-> 0, month |-> IF months THEN 0 ELSE u.month] IN
  /\ ops < MaxOps /\ ops' = ops + 1
  /\ Together(NothingOpen)
  /\ truth' = [truth EXCEPT !["usage"] = Reset(@)] /\ sent' = Reset(sent)
  /\ UNCHANGED << clientPath, suspended, cache, check, op, unreported, claimed, tried >>

CooldownEnds(n) ==
  /\ n \in claimed /\ \A w \in Workers : check[w].notice # n
  /\ claimed' = claimed \ {n} /\ tried' = tried \ {n}
  /\ UNCHANGED << steady, truth, suspended, cache, check, op, unreported, ops, sent >>

\* An operator's request: the row, then the caches.
OperatorAsks ==
  /\ op.pc = "idle" /\ Together(NothingOpen)
  /\ ops < MaxOps /\ ops' = ops + 1

SetTeam ==
  /\ OperatorAsks
  /\ \E row \in TeamRows : row # truth["team"] /\ truth' = [truth EXCEPT !["team"] = row]
  /\ op' = [op EXCEPT !.pc = "reread", !.drop = FALSE]
  /\ UNCHANGED << clientPath, suspended, cache, check, unreported, claimed, sent, tried >>

\* Mutant: the plan's key is left to expire.
AssignPlanLater ==
  /\ OperatorAsks
  /\ \E p \in Plans : p # truth["plan"] /\ truth' = [truth EXCEPT !["plan"] = p]
  /\ op' = [op EXCEPT !.pc = "reread"]
  /\ UNCHANGED << clientPath, suspended, cache, check, unreported, claimed, sent, tried >>

AssignPlan ==
  /\ OperatorAsks
  /\ \E p \in Plans : p # truth["plan"] /\ truth' = [truth EXCEPT !["plan"] = p]
  /\ op' = [op EXCEPT !.pc = "reread", !.drop = TRUE]
  /\ UNCHANGED << clientPath, suspended, cache, check, unreported, claimed, sent, tried >>

SetUserBlocked ==
  /\ clientPath
  /\ OperatorAsks
  /\ suspended' = ~suspended
  /\ op' = [op EXCEPT !.pc = "drop"]
  /\ UNCHANGED << clientPath, truth, cache, check, unreported, claimed, sent, tried >>

\* refreshTeamCache, two calls; then the plan's key where a plan was assigned.
Reread ==
  /\ op.pc = "reread"
  /\ op' = [op EXCEPT !.pc = "set", !.row = truth["team"]]
  /\ UNCHANGED << steady, limitStores, check, ops >>

\* Mutant: the cache keeps the block alone.
SetCachedBlock ==
  /\ op.pc = "set"
  /\ cache' = With(cache, "team", [blocked |-> op.row.blocked])
  /\ op' = IF op.drop THEN [op EXCEPT !.pc = "drop"] ELSE IdleOp
  /\ UNCHANGED << steady, truth, suspended, check, unreported, claimed, ops, sent, tried >>

SetCached ==
  /\ op.pc = "set"
  /\ cache' = With(cache, "team", op.row)
  /\ op' = IF op.drop THEN [op EXCEPT !.pc = "drop"] ELSE IdleOp
  /\ UNCHANGED << steady, truth, suspended, check, unreported, claimed, ops, sent, tried >>

InvalidatePlan ==
  /\ op.pc = "drop"
  /\ cache' = Without(cache, "plan")
  /\ op' = IdleOp
  /\ UNCHANGED << steady, truth, suspended, check, unreported, claimed, ops, sent, tried >>

-----------------------------------------------------------------------------
WorkerStep(w) ==
  \/ ReadUser(w) \/ Get(w) \/ Fetch(w) \/ Store(w) \/ Judge(w) \/ Claim(w)
  \/ MailNotice(w) \/ NoticeFails(w) \/ Refuse(w) \/ Send(w)
OperatorStep == Reread \/ SetCached \/ InvalidatePlan
LimitNext ==
  \/ \E w \in Workers : Begin(w) \/ WorkerStep(w)
  \/ Report \/ SetTeam \/ AssignPlan \/ SetUserBlocked \/ OperatorStep
  \/ \E k \in Keys : Expire(k)
  \/ \E months \in BOOLEAN : NewPeriod(months)
  \/ \E n \in Notices : CooldownEnds(n)
LimitSpec == LimitInit /\ [][LimitNext]_limitVars

\* Workers and requests get on, notifications are handled, keys expire.
LimitFairSpec ==
  /\ LimitSpec
  /\ \A w \in Workers : WF_limitVars(WorkerStep(w))
  /\ WF_limitVars(OperatorStep) /\ WF_limitVars(Report)
  /\ \A k \in Keys : WF_limitVars(Expire(k))

-----------------------------------------------------------------------------
Over(u) == OverDay(u, truth) \/ OverMonth(u, truth)
Blocked == truth["team"].blocked \/ (clientPath /\ suspended)

(* Until checks, reports or requests overlap a mail is sent within the      *)
(* limits that the rows give, whatever the caches of the team and of the    *)
(* plan still hold: checkEmailLimit and the operators' invalidations.       *)
KeepsToPlan == [][\A w \in Workers : Send(w) => lagged \/ ~Over(sent)]_limitVars

(* Until then, too, nothing is sent while the team or the CLIENT is blocked,*)
(* and what is refused is refused for a block or a limit that is so.        *)
RefusedForCause ==
  [][\A w \in Workers :
       /\ Send(w) => lagged \/ ~Blocked
       /\ Refuse(w) /\ CheckAt(w, "refuse") => lagged \/ Blocked \/ Over(truth["usage"])]_limitVars

(* A block of the team that stays stops its mails in the end, although a    *)
(* check may put the row it read before back into the cache.                *)
BlockTakesEffect ==
  <>[](truth["team"].blocked) => <>[](\A w \in Workers : ~CheckAt(w, "send"))

(* So does a limit, although the usage is counted after the mails.          *)
LimitTakesEffect ==
  <>[](Over(truth["usage"])) => <>[](\A w \in Workers : ~CheckAt(w, "send"))

(* Who is refused for the team's limit leaves the team told of it, or about *)
(* to be, unless that mail fails: maybeNotifyEmailLimitReached under its    *)
(* 24-hour key.                                                             *)
RefusedIsTold ==
  \A n \in {"reachedDay", "reachedMonth"} :
    (\E w \in Workers : CheckAt(w, "refuse") /\ check[w].notice = n) ~> (n \in tried)

(* Until things overlap, limits are exact on either side.                   *)
LimitsAreExact == []LimitTypeOK /\ KeepsToPlan /\ RefusedForCause

(* Whatever overlaps, blocks and limits stop the mails in the end, and the  *)
(* team is told.                                                           *)
LimitsTakeEffect == BlockTakesEffect /\ LimitTakesEffect /\ RefusedIsTold
=============================================================================
