------------------------------ MODULE MCRipReroute ------------------------------
(***************************************************************************)
(* Small boards for TLC.  Cells are numbers, nets are strings; the routes  *)
(* of the nets overlap so that every net can be in the way of another.     *)
(***************************************************************************)
EXTENDS RipReroute

(* Three new nets contend for three cells; e is routed in the input file.  *)
ContendedCells  == 1..4
ContendedRoutes ==
  [n \in Nets |-> CASE n = "a" -> {{1}, {2}}
                    [] n = "b" -> {{2}, {4}}
                    [] n = "c" -> {{1, 2}}
                    [] n = "e" -> {{3}, {4}}]
ContendedFile   == [n \in Nets |-> IF n = "e" THEN {3} ELSE {}]
ContendedEscape == [n \in Nets |-> IF n = "c" THEN {1} ELSE {}]
NoStubs         == [n \in Nets |-> {}]
OrderABC        == <<"a", "b", "c">>
NoSites         == [n \in Nets |-> {}]
OneSite         == [n \in Nets |-> IF n = "c" THEN {{3}} ELSE {}]
=================================================================================
