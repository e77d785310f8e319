--------------------------- MODULE MCCasualtyReconcile ---------------------------
(***************************************************************************)
(* Small boards for the end of the run.  Most routes are two cells long,   *)
(* so that a landing net can take one half of a saved route and leave the  *)
(* other clear; each net has one cell at its pads.                         *)
(***************************************************************************)
EXTENDS CasualtyReconcile

HalfCells  == 1..8
HalfRoutes ==
  [n \in Nets |-> CASE n = "a" -> {{1, 2}, {5}}
                    [] n = "b" -> {{1, 4}}
                    [] n = "c" -> {{4, 5}}
                    [] n = "e" -> {{3}, {2, 3}}]
HalfEscape ==
  [n \in Nets |-> CASE n = "a" -> {2} [] n = "b" -> {4} [] n = "c" -> {5} [] n = "e" -> {3}]
HalfFile   == [n \in Nets |-> IF n = "e" THEN {2, 3} ELSE {}]
HalfStubs  ==
  [n \in Nets |-> CASE n = "a" -> {6} [] n = "b" -> {7} [] OTHER -> {}]
NoStubs    == [n \in Nets |-> {}]
NoSites    == [n \in Nets |-> {}]
OrderABC   == <<"a", "b", "c">>
IdsCABE    ==
  [n \in Nets |-> CASE n = "c" -> 1 [] n = "a" -> 2 [] n = "b" -> 3 [] n = "e" -> 4]
OrderAB    == <<"a", "b">>
IdsABE     == [n \in Nets |-> CASE n = "a" -> 1 [] n = "b" -> 2 [] n = "e" -> 3]
=================================================================================
