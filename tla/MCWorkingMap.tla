------------------------------ MODULE MCWorkingMap ------------------------------
(***************************************************************************)
(* Two nets whose clearances overlap on a track row and on via rows, with  *)
(* overlapping keep-out discs of their vias, and base copper on one row of *)
(* each family; the tied row is also taken by the full route of b.  With   *)
(* all nets at their stub the small map is empty and falls back.           *)
(***************************************************************************)
EXTENDS WorkingMap, TLC

CONSTANTS a, b

MCCoppers == {"stub", "main", "full"}
MCTrackStamp == (a :> [stub |-> {1}, main |-> {1, 2}, full |-> {1, 2, 3}]) @@
                (b :> [stub |-> {3}, main |-> {2, 3}, full |-> {2, 3, 4}])
MCViaStamp   == (a :> [stub |-> {1}, main |-> {1, 2}, full |-> {1, 2, 4}]) @@
                (b :> [stub |-> {}, main |-> {2, 3}, full |-> {2, 3, 4}])
MCSmallStamp == (a :> [stub |-> {}, main |-> {1}, full |-> {1, 2}]) @@
                (b :> [stub |-> {}, main |-> {3}, full |-> {2, 3}])
MCKeepOut    == (a :> [stub |-> <<>>, main |-> <<{1, 2}>>, full |-> <<{1, 2}, {2, 3}>>]) @@
                (b :> [stub |-> <<{3}>>, main |-> <<{3}, {2}>>, full |-> <<{3}, {2, 3}>>])
MCRing       == (a :> {{1, 3}, {2, 3, 4}}) @@ (b :> {{2, 4}, {1, 2}})
Mode(base, rung, tie) == [staticBase |-> base, smallRung |-> rung, tieNet |-> tie]
MCModes  == {Mode(TRUE, TRUE, None), Mode(TRUE, FALSE, None), Mode(FALSE, FALSE, a)}
TieModes == {Mode(TRUE, TRUE, a)}
=================================================================================
