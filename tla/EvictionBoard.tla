------------------------------- MODULE EvictionBoard -------------------------------
(***************************************************************************)
(* What ripping and rerouting promises, seen from outside: a board that    *)
(* changes only when a net lands, and then in one step, together with the  *)
(* eviction of the nets ripped for it; a net in the way of a net that does *)
(* not land never moves.  An evicted net may come back, in whole or with   *)
(* pieces of its copper.                                                   *)
(***************************************************************************)
CONSTANTS Nets, Cells, InitBoard

VARIABLES
  board,  \* the cells each net holds
  evicted \* the nets ripped for another net that have not come back

Disjoint(b) == \A m, n \in Nets : m # n => b[m] \cap b[n] = {}

Init == board = InitBoard /\ evicted = {}

(* Net n lands, on cells it did not hold before, and the victims leave;    *)
(* nobody else is touched.                                                 *)
Land(n, victims) ==
  /\ board'[n] \ board[n] # {}
  /\ n \notin victims /\ victims \cap evicted = {}
  /\ \A m \in victims : board'[m] \subseteq board[m] /\ board'[m] # board[m]
  /\ \A m \in Nets \ (victims \cup {n}) : board'[m] = board[m]
  /\ evicted' = (evicted \ {n}) \cup victims

(* An evicted net gets copper back: all of it, or some of its pieces.      *)
TakeBack(n) ==
  /\ n \in evicted
  /\ board[n] \subseteq board'[n]
  /\ \A m \in Nets \ {n} : board'[m] = board[m]
  /\ evicted' \in {evicted, evicted \ {n}}

Next ==
  /\ \/ \E n \in Nets, victims \in SUBSET Nets : Land(n, victims)
     \/ \E n \in Nets : TakeBack(n)
  /\ board' \in [Nets -> SUBSET Cells]
  /\ Disjoint(board')

Spec == Init /\ [][Next]_<<board, evicted>>
=================================================================================
