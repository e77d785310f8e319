---------------------------------- MODULE TapRescue ----------------------------------
(***************************************************************************)
(* The last rung of a net's turn in Phase 3: pads still without a tap have *)
(* the stub of the net moved to another layer and are searched once more   *)
(* (_phase3_stub_switch_retry).  The search runs on the map that was       *)
(* cloned for the net before its rip-ups.                                  *)
(***************************************************************************)
EXTENDS TapCascade

VARIABLE clone \* obstacles: the map of the net at work

rescueVars == <<vars, clone>>

RescueInit == Init /\ clone = work

(* build_incremental_obstacles: a map of its own for the net's turn.       *)
Clone == clone' = IF In("net", "taps") THEN PreparedMap(Top.net) ELSE clone

(* The stub fits where it goes; the pads gained are kept with it.          *)
SwitchStub(t) ==
  /\ In("net", "commit") /\ Top.taps.failed > 0
  /\ LET n == Top.net
     IN /\ t \in TapOptions[n] /\ t.failed < Top.taps.failed
        /\ \E kept \in SwitchedCopper(n) \ {copper[n]} :
             /\ t.cells \cap (copper[n] \cup kept \cup BlockedRows(clone)) = {}
             /\ copper' = [copper EXCEPT ![n] = kept]
        /\ Become([Top EXCEPT !.taps = [cells |-> @.cells \cup t.cells,
                                        failed |-> t.failed]])
  /\ UNCHANGED <<cache, work, routed, routedIds, paths, results, remaining,
                 ripSaved, refused, pending, at, cancelled, clone>>

RescueNext ==
  \/ Next /\ Clone
  \/ \E t \in AllTaps : SwitchStub(t)

RescueSpec == RescueInit /\ [][RescueNext]_rescueVars
=================================================================================
