---------------------------- MODULE MCPublicApi ----------------------------
(* Instances of PublicApi: requests, and bodies, are interchangeable, at   *)
(* most MaxApiTroubles happen besides the requests, and where there is a   *)
(* limiter nothing but its own mishaps does: it shares no state with what  *)
(* is behind it.  Beside it an instance of SesRegions: two requests to add *)
(* a region, at one process or at two.  The two share no state and a       *)
(* behaviour follows one of them.                                          *)
EXTENDS PublicApi, SesRegions, TLC

CONSTANTS MaxApiTroubles, c1, p1, p2, e1, e2

ApiSymmetry == Permutations(Requests) \cup Permutations(Bodies)

Troubles ==
  Cardinality(suffered) + losses + reports.made + requests
  + IF apiKey THEN 0 ELSE 1

FewTroubles ==
  IF selfHosted THEN Troubles + mishaps <= MaxApiTroubles ELSE Troubles = 0

\* The second meets the first in its process, or in the database.
PlacesFew ==
  [c \in Creations |-> IF c = c1 THEN {<< p1, e1 >>} ELSE {<< p1, e2 >>, << p2, e1 >>}]

NoRegionStep ==
  /\ troubles = 0 /\ job = [j \in RegionJobs |-> NoJob]
  /\ UNCHANGED regionVars
NoApiStep ==
  /\ selfHosted /\ apiKey /\ reports.made = 0 /\ requests = 0
  /\ gate = [r \in Calls |-> "out"]
  /\ \A r, q \in Requests : request[r].body = request[q].body
  /\ UNCHANGED apiVars

PlatformInit == ApiInit /\ RegionInit
PlatformNext ==
  \/ NoRegionStep /\ ApiNext
  \/ NoApiStep /\ RegionNext
PlatformSpec == PlatformInit /\ [][PlatformNext]_<< apiVars, regionVars >>
============================================================================
