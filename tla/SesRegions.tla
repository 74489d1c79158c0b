----------------------------- MODULE SesRegions -----------------------------
(***************************************************************************)
(* The platform's SES regions: createSesSetting with its SNS topic, its    *)
(* row, its subscription and its configuration sets, the clean-up of one   *)
(* that failed, and the confirmation SNS posts to the callback endpoint.   *)
(* There are several processes of the application, and each answers from   *)
(* its own copy of the rows (known) and sends over its own queues: what    *)
(* one of them reloads the others do not see.                              *)
(*                                                                         *)
(* A reload reads the rows and puts them in the copy later, so reloads of  *)
(* one process can cross; the one after a confirmation is not awaited.     *)
(* A job is one call of createSesSetting or one confirmation, named by its *)
(* topic.  crossed, missed and left are history.                           *)
(***************************************************************************)
EXTENDS Naturals, FiniteSets

CONSTANTS
  Processes,  \* processes of the application behind one address
  SesRegionNames, \* the regions of SES
  Creations,  \* requests to add a region, each made once
  Places,     \* Places[c]: the processes and regions of request c, of which it has one
  MaxTroubles \* bound: calls that fail, and restarts

ASSUME CreationsAssumption == IsFiniteSet(Creations) /\ Creations \cap Nat = {}
ASSUME PlacesAssumption == Places \in [Creations -> SUBSET (Processes \X SesRegionNames)]
ASSUME TroublesAssumption == MaxTroubles \in Nat

VARIABLES
  setting,  \* setting[r]: the row of region r
  topics,   \* the topics there are at SNS
  created,  \* topics made so far
  known,    \* known[p]: the topic of each region in p's copy, 0: none
  loaded,   \* loaded[p]: initialized
  queues,   \* queues[p]: the regions p has queues of
  job,      \* job[j]: [pc, next, at, region, topic, seen]
  troubles,
  crossed,  \* processes with two reloads under way at once
  missed,   \* topics whose confirmation found no such topic
  left      \* topics whose creation was cut off, or could not clean up

regionVars == << setting, topics, created, known, loaded, queues, job, troubles,
                 crossed, missed, left >>

Topics == 1 .. Cardinality(Creations)
RegionJobs == Creations \cup Topics
NoSetting == [topic |-> 0, configured |-> FALSE, confirmed |-> FALSE]
NewSetting(t) == [NoSetting EXCEPT !.topic = t]
NothingKnown == [r \in SesRegionNames |-> 0]
NoJob == [pc |-> "none", next |-> "none", at |-> "none", region |-> "none",
          topic |-> 0, seen |-> NothingKnown]
\* What invalidateCache keeps of the rows.
Rows == [r \in SesRegionNames |-> setting[r].topic]

Creating == { "topic", "row", "subscribe", "configure" }
CleaningUp == { "dropTopic", "dropSetting" }
Ended == { "none", "done", "failed", "refused", "dead" }
JobSteps == Creating \cup CleaningUp \cup Ended \cup { "arrived", "confirm" }

RegionTypeOK ==
  /\ setting \in [SesRegionNames ->
       [topic : Topics \cup {0}, configured : BOOLEAN, confirmed : BOOLEAN]]
  /\ topics \subseteq Topics /\ created \in 0 .. Cardinality(Creations)
  /\ known \in [Processes -> [SesRegionNames -> Topics \cup {0}]]
  /\ loaded \in [Processes -> BOOLEAN] /\ queues \in [Processes -> SUBSET SesRegionNames]
  /\ job \in [RegionJobs -> [pc : JobSteps \cup {"reload", "assign", "sent"}, next : JobSteps,
                       at : Processes \cup {"none"}, region : SesRegionNames \cup {"none"},
                       topic : Topics \cup {0}, seen : [SesRegionNames -> Topics \cup {0}]]]
  /\ troubles \in 0 .. MaxTroubles
  /\ crossed \subseteq Processes /\ missed \subseteq Topics /\ left \subseteq Topics

RegionInit ==
  /\ setting = [r \in SesRegionNames |-> NoSetting]
  /\ topics = {} /\ created = 0
  /\ known = [p \in Processes |-> NothingKnown]
  /\ loaded = [p \in Processes |-> FALSE]
  /\ queues = [p \in Processes |-> {}]
  /\ job = [j \in RegionJobs |-> NoJob]
  /\ troubles = 0 /\ crossed = {} /\ missed = {} /\ left = {}

Trouble == troubles < MaxTroubles /\ troubles' = troubles + 1
Goes(j, pc) == job' = [job EXCEPT ![j].pc = pc]
Reloading(j, next) == job' = [job EXCEPT ![j] = [@ EXCEPT !.pc = "reload", !.next = next]]
\* A job's first question to the settings loads them.
First(p, next, j) ==
  IF loaded[p] THEN [j EXCEPT !.pc = next] ELSE [j EXCEPT !.pc = "reload", !.next = next]

-----------------------------------------------------------------------------
\* invalidateCache: the rows are read ...
ReadRows(j) ==
  /\ job[j].pc = "reload"
  /\ job' = [job EXCEPT ![j] = [@ EXCEPT !.pc = "assign", !.seen = Rows]]
  /\ crossed' = IF \E k \in RegionJobs : job[k].pc = "assign" /\ job[k].at = job[j].at
                  THEN crossed \cup {job[j].at} ELSE crossed
  /\ UNCHANGED << setting, topics, created, known, loaded, queues, troubles, missed, left >>

\* ... and become the process's copy.
AssignRows(j) ==
  LET p == job[j].at IN
  /\ job[j].pc = "assign"
  /\ known' = [known EXCEPT ![p] = job[j].seen]
  /\ loaded' = [loaded EXCEPT ![p] = TRUE]
  /\ job' = [job EXCEPT ![j] = [@ EXCEPT !.pc = job[j].next, !.next = "none",
                                         !.seen = NothingKnown]]
  /\ UNCHANGED << setting, topics, created, queues, troubles, crossed, missed, left >>

-----------------------------------------------------------------------------
\* createSesSetting, at a process and for a region of the caller's choice.
CreateSesSetting(c) ==
  /\ job[c].pc = "none"
  /\ \E place \in Places[c] :
       job' = [job EXCEPT ![c] =
         First(place[1], "topic", [NoJob EXCEPT !.at = place[1], !.region = place[2]])]
  /\ UNCHANGED << setting, topics, created, known, loaded, queues, troubles, crossed,
                  missed, left >>

\* The copy has the region, or the callback address does not answer; otherwise
\* the topic is made.
RefuseRegion(c) ==
  /\ job[c].pc = "topic"
  /\ Goes(c, "refused")
  /\ UNCHANGED << setting, topics, created, known, loaded, queues, troubles, crossed,
                  missed, left >>

CreateTopic(c) ==
  /\ job[c].pc = "topic" /\ known[job[c].at][job[c].region] = 0
  /\ created' = created + 1 /\ topics' = topics \cup {created'}
  /\ job' = [job EXCEPT ![c] = [@ EXCEPT !.pc = "row", !.topic = created']]
  /\ UNCHANGED << setting, known, loaded, queues, troubles, crossed, missed, left >>

\* Mutant of CreateRow: the endpoint is subscribed before the copy has the row.
CreateRowSubscribing(c) ==
  /\ job[c].pc = "row"
  /\ IF setting[job[c].region] # NoSetting
       THEN Goes(c, "dropTopic") /\ UNCHANGED setting
       ELSE /\ setting' = [setting EXCEPT ![job[c].region] = NewSetting(job[c].topic)]
            /\ Goes(c, "subscribe")
  /\ UNCHANGED << topics, created, known, loaded, queues, troubles, crossed, missed, left >>

\* A region has one row: the second is refused by the database.
CreateRow(c) ==
  /\ job[c].pc = "row"
  /\ IF setting[job[c].region] # NoSetting
       THEN Goes(c, "dropTopic") /\ UNCHANGED setting
       ELSE /\ setting' = [setting EXCEPT ![job[c].region] = NewSetting(job[c].topic)]
            /\ Reloading(c, "subscribe")
  /\ UNCHANGED << topics, created, known, loaded, queues, troubles, crossed, missed, left >>

\* SNS has a confirmation to post, the job of the topic's number.
SubscribeEndpoint(c) ==
  /\ job[c].pc = "subscribe"
  /\ job' = [job EXCEPT ![c].pc = "configure", ![job[c].topic].pc = "sent"]
  /\ UNCHANGED << setting, topics, created, known, loaded, queues, troubles, crossed,
                  missed, left >>

\* Four configuration sets at SES, their names in the row, and the process's
\* queues of the region.
RegisterConfigurationSet(c) ==
  /\ job[c].pc = "configure"
  /\ setting' = [setting EXCEPT ![job[c].region].configured = TRUE]
  /\ queues' = [queues EXCEPT ![job[c].at] = @ \cup {job[c].region}]
  /\ Reloading(c, "done")
  /\ UNCHANGED << topics, created, known, loaded, troubles, crossed, missed, left >>

\* A call throws: the clean-up begins with the topic, if there is one.
CallFails(c) ==
  /\ \/ job[c].pc \in {"topic", "row", "subscribe", "configure"}
     \/ job[c].pc = "reload" /\ job[c].next \in {"subscribe", "done"}
  /\ Trouble
  /\ IF job[c].topic = 0 THEN Reloading(c, "failed") ELSE Goes(c, "dropTopic")
  /\ UNCHANGED << setting, topics, created, known, loaded, queues, crossed, missed, left >>

Own(c) == setting[job[c].region].topic = job[c].topic

\* Mutant of AfterTopic: whose row the region's is is not asked.
AfterTopicAny(c) ==
  IF setting[job[c].region] # NoSetting THEN Goes(c, "dropSetting") ELSE Reloading(c, "failed")

AfterTopic(c) == IF Own(c) THEN Goes(c, "dropSetting") ELSE Reloading(c, "failed")

DropTopic(c) ==
  /\ job[c].pc = "dropTopic"
  /\ topics' = topics \ {job[c].topic}
  /\ AfterTopic(c)
  /\ UNCHANGED << setting, created, known, loaded, queues, troubles, crossed, missed, left >>

\* It is logged that the topic stays.
DropTopicFails(c) ==
  /\ job[c].pc = "dropTopic"
  /\ Trouble
  /\ left' = left \cup {job[c].topic}
  /\ AfterTopic(c)
  /\ UNCHANGED << setting, topics, created, known, loaded, queues, crossed, missed >>

DropSetting(c) ==
  /\ job[c].pc = "dropSetting"
  /\ setting' = [setting EXCEPT ![job[c].region] = NoSetting]
  /\ Reloading(c, "failed")
  /\ UNCHANGED << topics, created, known, loaded, queues, troubles, crossed, missed, left >>

\* A failing database ends the clean-up.
CleanUpFails(c) ==
  /\ \/ job[c].pc = "dropSetting"
     \/ job[c].pc = "reload" /\ job[c].next = "failed"
  /\ Trouble
  /\ left' = left \cup ({job[c].topic} \ {0})
  /\ Goes(c, "failed")
  /\ UNCHANGED << setting, topics, created, known, loaded, queues, crossed, missed >>

-----------------------------------------------------------------------------
\* The callback endpoint.  SNS posts a confirmation to some process ...
Confirmation(t) ==
  /\ job[t].pc = "sent"
  /\ \E p \in Processes : job' = [job EXCEPT ![t] = First(p, "arrived", [@ EXCEPT !.at = p])]
  /\ UNCHANGED << setting, topics, created, known, loaded, queues, troubles, crossed,
                  missed, left >>

\* ... which answers 200 also when its copy does not have the topic.
CheckEventValidity(t) ==
  /\ job[t].pc = "arrived"
  /\ IF \E r \in SesRegionNames : known[job[t].at][r] = t
       THEN Goes(t, "confirm") /\ UNCHANGED missed
       ELSE Goes(t, "refused") /\ missed' = missed \cup {t}
  /\ UNCHANGED << setting, topics, created, known, loaded, queues, troubles, crossed, left >>

\* handleSubscription: the row is looked for anew.
ConfirmSubscription(t) ==
  /\ job[t].pc = "confirm"
  /\ IF \E r \in SesRegionNames : setting[r].topic = t
       THEN /\ setting' = [r \in SesRegionNames |-> IF setting[r].topic = t
                             THEN [setting[r] EXCEPT !.confirmed = TRUE] ELSE setting[r]]
            /\ Reloading(t, "done")
       ELSE Goes(t, "refused") /\ UNCHANGED setting
  /\ UNCHANGED << topics, created, known, loaded, queues, troubles, crossed, missed, left >>

\* Mutant of ConfirmationFails: the error is caught and answered 200.
ConfirmationFailsQuietly(t) ==
  /\ job[t].pc = "confirm"
  /\ Trouble /\ Goes(t, "refused")
  /\ UNCHANGED << setting, topics, created, known, loaded, queues, crossed, missed, left >>

\* A call of the handler throws and is answered 500: SNS posts again.
ConfirmationFails(t) ==
  /\ job[t].pc = "confirm"
  /\ Trouble /\ Goes(t, "sent")
  /\ UNCHANGED << setting, topics, created, known, loaded, queues, crossed, missed, left >>

-----------------------------------------------------------------------------
\* A process dies, with its jobs, and starts again: EmailQueueService.init
\* makes the queues of every row there is.
Restart(p) ==
  LET cut == { c \in Creations : job[c].at = p /\ job[c].pc \notin Ended } IN
  /\ Trouble
  /\ job' = [j \in RegionJobs |->
       CASE j \in cut -> [job[j] EXCEPT !.pc = "dead", !.next = "none", !.seen = NothingKnown]
         [] j \in Topics /\ job[j].at = p /\ job[j].pc \notin Ended \cup {"sent"} ->
              [NoJob EXCEPT !.pc = IF job[j].next = "done" THEN "done" ELSE "sent"]
         [] OTHER -> job[j]]
  /\ left' = left \cup ({ job[c].topic : c \in cut } \ {0})
  /\ known' = [known EXCEPT ![p] = NothingKnown]
  /\ loaded' = [loaded EXCEPT ![p] = FALSE]
  /\ queues' = [queues EXCEPT ![p] = { r \in SesRegionNames : setting[r] # NoSetting }]
  /\ UNCHANGED << setting, topics, created, crossed, missed >>

Create(c) ==
  \/ CreateSesSetting(c) \/ RefuseRegion(c) \/ CreateTopic(c) \/ CreateRow(c)
  \/ SubscribeEndpoint(c) \/ RegisterConfigurationSet(c)
  \/ DropTopic(c) \/ DropSetting(c)
CreateFails(c) == CallFails(c) \/ DropTopicFails(c) \/ CleanUpFails(c)
Confirm(t) == Confirmation(t) \/ CheckEventValidity(t) \/ ConfirmSubscription(t)

RegionNext ==
  \/ \E c \in Creations : Create(c) \/ CreateFails(c)
  \/ \E t \in Topics : Confirm(t) \/ ConfirmationFails(t)
  \/ \E j \in RegionJobs : ReadRows(j) \/ AssignRows(j)
  \/ \E p \in Processes : Restart(p)

RegionSpec == RegionInit /\ [][RegionNext]_regionVars

-----------------------------------------------------------------------------
(* Properties. *)

\* When the endpoint is subscribed the process that made the region has its
\* topic, and a confirmation that comes there is taken: unless an older reload
\* of the process, or a restart, has taken the topic away again.
CreatorKnowsTopic ==
  \A c \in Creations :
    job[c].pc \in {"subscribe", "configure"}
      => known[job[c].at][job[c].region] = job[c].topic \/ job[c].at \in crossed

\* A row has its topic at SNS and a topic its row: a creation that failed, or
\* lost a race for the region, has taken away its own and nothing else.
TopicsHaveRows ==
  /\ \A r \in SesRegionNames : setting[r] # NoSetting =>
       \/ setting[r].topic \in topics \cup left
       \/ \E c \in Creations : job[c].topic = setting[r].topic /\ job[c].pc = "dropSetting"
  /\ \A t \in topics :
       \/ t \in left \/ \E r \in SesRegionNames : setting[r].topic = t
       \/ \E c \in Creations : job[c].topic = t /\ job[c].pc \in {"row", "dropTopic"}

\* A region whose creation ended well stays: its row has its configuration
\* sets, and the process that made it, started again or not, its queue.
DoneIsServed ==
  \A c \in Creations : job[c].pc = "done" =>
    /\ Own(c) /\ setting[job[c].region].configured
    /\ job[c].region \in queues[job[c].at]

\* SES's reports are let in: once its confirmation is answered the region that
\* was made is confirmed, unless the confirmation came to a process whose copy
\* was older than the row.
ConfirmationCounts ==
  \A c \in Creations :
    job[c].pc = "done" /\ job[job[c].topic].pc \in Ended
      => setting[job[c].region].confirmed \/ job[c].topic \in missed

RegionsAreWhole == CreatorKnowsTopic /\ TopicsHaveRows /\ DoneIsServed /\ ConfirmationCounts
=============================================================================
