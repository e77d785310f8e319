-------------------------------- MODULE MCTapRescue --------------------------------
(***************************************************************************)
(* Two nets for TLC: a has two pads to tap, b is in the way of one of them *)
(* and can move to where the other would be tapped.                        *)
(***************************************************************************)
EXTENDS TapRescue

PairPhase1 == [n \in Nets |-> IF n = "a" THEN {1} ELSE {2}]
PairRoutes == [n \in Nets |-> IF n = "a" THEN {{1}} ELSE {{2}, {3}}]
PairTaps   ==
  [n \in Nets |-> IF n = "a" THEN {[cells |-> {}, failed |-> 2],
                                   [cells |-> {2}, failed |-> 1],
                                   [cells |-> {3}, failed |-> 0]} ELSE {}]
PairStubs  == [n \in Nets |-> IF n = "a" THEN {4} ELSE {}]
PairSites  == [n \in Nets |-> IF n = "a" THEN {{4}, {5}} ELSE {}]
NoCells    == [n \in Nets |-> {}]
OrderA     == <<"a">>
=================================================================================
