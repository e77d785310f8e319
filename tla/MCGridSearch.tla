------------------------------ MODULE MCGridSearch ------------------------------
(***************************************************************************)
(* Two layers of a few cells.  In each request every subset of a group of  *)
(* cells may be blocked, so that the routes, the detours and the dead ends *)
(* of the grid all occur.                                                  *)
(***************************************************************************)
EXTENDS GridSearch, TLC

MCLayers == {0, 1}

(* Five by three with walls and pockets between the ends.                  *)
Field      == (1..5) \X (1..3) \X MCLayers
FieldVias  == {{}, (2..5) \X (1..3), {<<1, 1>>, <<1, 2>>, <<2, 2>>, <<2, 1>>}, (1..5) \X (1..3)}
WestShut   == {<<1, 1, 1>>, <<1, 2, 1>>, <<1, 3, 1>>}
FarWalls   == {<<2, 1, 0>>, <<2, 2, 0>>, <<3, 1, 0>>, <<3, 2, 0>>, <<3, 3, 0>>,
               <<4, 1, 0>>, <<4, 2, 0>>, <<4, 3, 0>>}

Plain == [nodes |-> Field, sources |-> {<<1, 2, 0>>}, targets |-> {<<5, 2, 0>>},
          obstacles |-> {{}}, viaObstacles |-> FieldVias, freeVias |-> {},
          turnCost |-> 1000, viaCost |-> 1500,
          layerCost |-> (0 :> 1000) @@ (1 :> 1000), hWeight |-> 100,
          collinear |-> FALSE, radius |-> 0, startDir |-> None, endDir |-> None,
          tranche |-> 2000, ceiling |-> 0]

(* Dead ends, with a greedy heuristic and a hole of the net.               *)
Walls == [Plain EXCEPT
  !.obstacles = {w \cup p : w \in SUBSET {<<3, 1, 0>>, <<3, 2, 0>>, <<3, 3, 0>>, <<2, 3, 0>>,
                                          <<4, 1, 0>>, <<4, 2, 0>>},
                            p \in {{}, WestShut,
                                   WestShut \cup {<<2, 1, 1>>, <<2, 2, 1>>, <<2, 3, 1>>},
                                   {<<3, 2, 1>>, <<4, 3, 1>>}}},
  !.freeVias = {<<2, 3>>},
  !.layerCost = (0 :> 2000) @@ (1 :> 1000), !.hWeight = 230]

(* Two targets, no turn cost: the cheapest route is known.                 *)
Cheap == [Plain EXCEPT
  !.sources = {<<1, 3, 0>>}, !.targets = {<<5, 1, 1>>, <<5, 2, 0>>},
  !.obstacles = SUBSET FarWalls, !.turnCost = 0]

(* The same with a heuristic that is trusted too much.                     *)
Hurried == [Cheap EXCEPT !.hWeight = 200]

(* Tranches of three pops.                                                 *)
Tranches == [Plain EXCEPT
  !.obstacles = SUBSET {<<3, 1, 0>>, <<3, 2, 0>>, <<3, 3, 0>>, <<2, 3, 0>>,
                        <<4, 1, 0>>, <<4, 2, 0>>, <<3, 2, 1>>, <<4, 3, 1>>},
  !.viaCost = 3000, !.tranche = 3, !.ceiling = 20]

(* A strip that is long enough for the runs before and after a via.        *)
Strip == [Plain EXCEPT
  !.nodes = (1..7) \X (1..3) \X MCLayers,
  !.viaObstacles = {{}, {<<3, 1>>, <<3, 2>>}, {<<4, 1>>, <<4, 2>>, <<4, 3>>}},
  !.hWeight = 190, !.radius = 1]

(* The halves of a pair: all constraints at once.                          *)
Pair == [Strip EXCEPT
  !.targets = {<<7, 2, 1>>},
  !.obstacles = SUBSET {<<3, 2, 0>>, <<4, 2, 0>>, <<5, 2, 1>>, <<6, 2, 1>>, <<4, 1, 0>>, <<6, 1, 1>>},
  !.collinear = TRUE, !.startDir = <<1, 0>>, !.endDir = <<1, 0>>]

(* Vias down and up again that must keep apart.                            *)
Apart == [Strip EXCEPT
  !.targets = {<<7, 2, 0>>},
  !.obstacles = {w \cup p : w \in SUBSET {<<3, 2, 0>>, <<4, 2, 0>>, <<2, 2, 1>>, <<6, 1, 1>>, <<6, 3, 1>>},
                            p \in {{}, {<<4, 1, 0>>, <<4, 2, 0>>, <<4, 3, 0>>},
                                   {<<5, 1, 0>>, <<5, 2, 0>>, <<5, 3, 0>>, <<3, 3, 0>>}}},
  !.viaCost = 500, !.layerCost = (0 :> 1000) @@ (1 :> 1500)]

Searches == {Walls, Cheap, Hurried, Tranches, Pair, Apart}
================================================================================
