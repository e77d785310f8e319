-------------------------------- MODULE MCPairLoop --------------------------------
(***************************************************************************)
(* Boards for TLC.  On the first, b can be in the way of a and of c, which *)
(* are never in each other's way; c has more than two terminals.  On the   *)
(* second three pairs share two corridors, so each can touch each.         *)
(***************************************************************************)
EXTENDS PairLoop

Route(p, n) == [s \in Sides |-> IF s = "p" THEN p ELSE n]

ChainCells   == 1..6
ChainOptions == [x \in Pairs |->
  CASE x = "a" -> {Route({1}, {2})}
    [] x = "b" -> {Route({2}, {3}), Route({3}, {4})}
    [] x = "c" -> {Route({4}, {5}), Route({5}, {6})}]
ChainEscape  == [x \in Pairs |-> IF x = "b" THEN {3} ELSE {}]
NoStub       == [h \in Halves |-> {}]

CorridorCells   == 1..4
CorridorOptions == [x \in Pairs |-> {Route({1}, {2}), Route({3}, {4})}]
NoEscape        == [x \in Pairs |-> {}]
OrderABC        == <<"a", "b", "c">>
OrderACB        == <<"a", "c", "b">>
=================================================================================
