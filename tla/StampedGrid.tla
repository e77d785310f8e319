------------------------------- MODULE StampedGrid -------------------------------
(***************************************************************************)
(* What the obstacle map promises its callers: a row is hard-blocked       *)
(* exactly while it is permanent or somebody's stamp on it has not been    *)
(* taken back.  Stamps are counted, so what one net takes back never       *)
(* uncovers another net, and a removal nobody stamped for is ignored.      *)
(***************************************************************************)
EXTENDS Naturals

CONSTANTS Rows,      \* a row is a cell on a layer
          MaxStamps  \* the most stamps a row takes

VARIABLES stamps,    \* stamps[r]: how many stamps row r carries
          permanent, \* the rows that stay blocked for the run
          hard       \* the rows a query finds blocked

gridVars == <<stamps, permanent, hard>>

Hard(s, p) == p \cup {r \in Rows : s[r] > 0}

Init ==
  /\ stamps = [r \in Rows |-> 0]
  /\ permanent = {}
  /\ hard = {}

Stamp(r) ==
  /\ stamps[r] < MaxStamps
  /\ stamps' = [stamps EXCEPT ![r] = @ + 1]
  /\ UNCHANGED permanent
  /\ hard' = Hard(stamps', permanent')

TakeBack(r) ==
  /\ stamps' = IF stamps[r] > 0 THEN [stamps EXCEPT ![r] = @ - 1] ELSE stamps
  /\ UNCHANGED permanent
  /\ hard' = Hard(stamps', permanent')

MakePermanent(r) ==
  /\ permanent' = permanent \cup {r}
  /\ UNCHANGED stamps
  /\ hard' = Hard(stamps', permanent')

Next == \E r \in Rows : Stamp(r) \/ TakeBack(r) \/ MakePermanent(r)

Spec == Init /\ [][Next]_gridVars
=================================================================================
