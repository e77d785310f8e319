------------------------------ MODULE MCObstacleMap ------------------------------
(***************************************************************************)
(* One layer and three cells.  With a margin of two and a cap of 49, while *)
(* <<0, 0>> is blocked the cell <<5, 0>> is too far for the window and     *)
(* overflows, until <<3, 1>> pulls the window over it.  The windows are    *)
(* five to eight cells wide, so words of four bits straddle their rows.    *)
(***************************************************************************)
EXTENDS ObstacleMap

MCCells == {<<0, 0>>, <<3, 1>>, <<5, 0>>}
MoreCells == MCCells \cup {<<1, 0>>}
OneEnd  == {<<3, 1>>}
MCZones == {{<<3, 1>>}}

(* Segments of the rows with cells and of a row that may lie outside the   *)
(* window, from columns on either side of it.                              *)
MCRows    == {-3, 0, 1}
MCColumns == -3..7
=================================================================================
