------------------------------- MODULE StampCounts -------------------------------
(***************************************************************************)
(* The reference counts of the obstacle map (rust_router/obstacle_map.rs): *)
(* every net that has copper stamps the rows it occupies, a row is blocked *)
(* while its count is positive, and a batch is removed with the very rows  *)
(* it was added with.  A count is a function from rows to Nat; a row that  *)
(* the hash map does not hold has count 0.                                 *)
(***************************************************************************)
EXTENDS Naturals

AddRows(count, rows) ==
  [c \in DOMAIN count |-> IF c \in rows THEN count[c] + 1 ELSE count[c]]

(* A row that is not in the map is left alone: the removal saturates.      *)
RemoveRows(count, rows) ==
  [c \in DOMAIN count |->
     IF c \in rows /\ count[c] > 0 THEN count[c] - 1 ELSE count[c]]

BlockedRows(count) == {c \in DOMAIN count : count[c] > 0}
=================================================================================
