------------------------------- MODULE MCTapCascade -------------------------------
(***************************************************************************)
(* A small board for TLC: a and b have taps to route, c has been length    *)
(* matched and needs none, d is a simple net; each can be in the way of    *)
(* another.  a has a stub, so that its main route can be exhausted, and    *)
(* another layer to move it to, where a route of d may lie; no tap of      *)
(* another net crosses it.                                                 *)
(***************************************************************************)
EXTENDS TapCascade

TapCells  == 1..8
TapPhase1 ==
  [n \in Nets |-> CASE n = "a" -> {1} [] n = "b" -> {2} [] n = "c" -> {3} [] n = "d" -> {4}]
TapBefore == [n \in Nets |-> IF n = "c" THEN {5} ELSE {}]
TapRoutes ==
  [n \in Nets |-> CASE n = "a" -> {{1}}
                    [] n = "b" -> {{2}, {4}}
                    [] n = "c" -> {{3}, {5}}
                    [] n = "d" -> {{4}, {6}}]
TapTaps ==
  [n \in Nets |-> CASE n = "a" -> {[cells |-> {}, failed |-> 1],
                                   [cells |-> {5}, failed |-> 1],
                                   [cells |-> {2}, failed |-> 0]}
                    [] n = "b" -> {[cells |-> {}, failed |-> 1],
                                   [cells |-> {3}, failed |-> 0]}
                    [] n = "c" -> {[cells |-> {7}, failed |-> 0]}
                    [] OTHER -> {}]
TapStubs   == [n \in Nets |-> IF n = "a" THEN {8} ELSE {}]
BothStubs  == [n \in Nets |-> CASE n = "a" -> {8} [] n = "b" -> {6} [] OTHER -> {}]
TapSites   == [n \in Nets |-> IF n = "a" THEN {{6}, {8}} ELSE {}]
NoSites    == [n \in Nets |-> {}]
NoCells    == [n \in Nets |-> {}]
OrderCAB   == <<"c", "a", "b">>
=================================================================================
