-------------------------------- MODULE GridSearch --------------------------------
(***************************************************************************)
(* The grid search of the router (rust_router/src/router.rs, GridSearch):  *)
(* best-first search over <<x, y, layer>>, with moves in eight directions, *)
(* vias, a budget that a search which approaches its target may extend,    *)
(* and constraints that depend on the way a node was reached: a start and  *)
(* an end direction, straight runs around a via (differential pairs), and  *)
(* a distance between the vias of one path.                                *)
(*                                                                         *)
(* A search is deterministic once its arguments and the obstacles are      *)
(* given; they are chosen in the initial state.  Costs are those of the    *)
(* code in whatever unit the constants use; proximity, attraction and      *)
(* direction preference only add to the cost of a step and are left out,   *)
(* as is the extra margin of wide tracks, and the two budget gates that    *)
(* are off unless the environment sets them.  The board's edge keep-out    *)
(* blocks everything outside Nodes.                                        *)
(***************************************************************************)
EXTENDS Integers, Sequences, FiniteSets

CONSTANTS
  LayerIds,           \* the copper layers, numbers
  None,               \* no parent, no node
  OrthoCost, DiagCost,
  BBoxMinTargets,     \* above this many targets the bounding box is used
  DirectionSteps,     \* how many moves the start direction constrains
  Quantum, QuantumPct, \* progress a tranche must make: at least, and in percent
  Grace,              \* tranches without it that are tolerated in a row
  NoRef,              \* the reference before the first snapshot: i32::MAX
  KeyHalf,            \* a coordinate has 20 bits of a key: 2^19
  MaxBlockedCells,    \* MAX_BLOCKED_CELLS: how much of the frontier is returned
  Requests            \* the searches: a router's settings and a call's arguments

(* A request has                                                           *)
(*   nodes          the grid: triples <<x, y, layer>>                      *)
(*   sources, targets  sets of nodes                                       *)
(*   obstacles      the sets of nodes that may be blocked together         *)
(*   viaObstacles   the sets of cells <<x, y>> that may be closed to vias  *)
(*   freeVias       cells with a hole of the net itself                    *)
(*   turnCost, viaCost                                                     *)
(*   layerCost      layer_costs in permille; negative: forbidden           *)
(*   hWeight        the heuristic's weight in percent                      *)
(*   collinear      collinear_vias: straight runs around vias              *)
(*   radius         via_exclusion_radius                                   *)
(*   startDir, endDir  directions or None                                  *)
(*   tranche, ceiling  max_iterations, the first tranche, and the cap of all *)
Directions == <<<<1, 0>>, <<1, -1>>, <<0, -1>>, <<-1, -1>>,
                <<-1, 0>>, <<-1, 1>>, <<0, 1>>, <<1, 1>>>>

(* A coordinate fits its bits of a key, and so does a neighbour's.         *)
Coordinates == (1 - KeyHalf)..(KeyHalf - 2)

RequestOK(q) ==
  /\ q.nodes \subseteq Coordinates \X Coordinates \X LayerIds /\ IsFiniteSet(q.nodes)
  /\ q.sources \subseteq q.nodes /\ q.targets \subseteq q.nodes
  /\ q.sources # {} /\ IsFiniteSet(q.sources)
  /\ q.targets # {} /\ IsFiniteSet(q.targets)
  /\ q.obstacles \subseteq SUBSET (q.nodes \ (q.sources \cup q.targets))
  /\ q.turnCost \in Nat /\ q.viaCost \in Nat /\ q.hWeight \in Nat
  /\ q.layerCost \in [LayerIds -> Int] /\ \E l \in LayerIds : q.layerCost[l] >= 0
  /\ q.collinear \in BOOLEAN /\ q.radius \in Nat
  /\ {q.startDir, q.endDir} \subseteq {None} \cup {Directions[i] : i \in 1..8}
  /\ q.tranche \in Nat \ {0} /\ q.ceiling \in Nat
  /\ None \notin q.nodes

ASSUME LayersAssumption == LayerIds \subseteq 0..255 /\ IsFiniteSet(LayerIds)
ASSUME ReportAssumption == MaxBlockedCells \in Nat \ {0} /\ KeyHalf \in Nat \ {0}
ASSUME RequestAssumption == \A q \in Requests : RequestOK(q)
ASSUME CostAssumption ==
  OrthoCost \in Nat /\ DiagCost \in Nat /\ DirectionSteps \in Nat
ASSUME NoneAssumption == None \notin Int \cup {Directions[i] : i \in 1..8}
ASSUME BudgetAssumption ==
  Quantum \in Nat \ {0} /\ QuantumPct \in Nat /\ Grace \in Nat /\ NoRef \in Nat

VARIABLES
  request,             \* what is asked
  blocked, viaBlocked, \* the obstacles of this search
  node,       \* the node store: g, parent and steps of a visited node
  closed,     \* the nodes that were expanded
  pathVias,   \* path_vias: the cells of the vias on the way to a node
  open,       \* the open set: entries with f, g, node and push order
  counter,
  frontier,   \* the blocked nodes expansions ran into
  iterations,
  budget,     \* the cap now, and how it was earned
  outcome,    \* "searching", "found", "capped" or "exhausted"
  goal        \* the target found, or None

vars == <<request, blocked, viaBlocked, node, closed, pathVias, open, counter, frontier,
          iterations, budget, outcome, goal>>
board == <<request, blocked, viaBlocked>>

Nodes   == request.nodes
Sources == request.sources
Targets == request.targets

----------------------------------------------------------------------------
(* The angle between two directions in units of 45 degrees; Directions is  *)
(* the order they are tried in.                                            *)
DirIndex(d) == CHOOSE i \in 1..8 : Directions[i] = d

Angle(d, e) ==
  LET delta == (DirIndex(d) - DirIndex(e)) % 8
  IN IF delta > 4 THEN 8 - delta ELSE delta

Within45(d, e) == Angle(d, e) <= 1

Abs(i) == IF i < 0 THEN -i ELSE i
Lesser(i, j)  == IF i < j THEN i ELSE j
Greater(i, j) == IF i > j THEN i ELSE j
Least(S) == CHOOSE i \in S : \A j \in S : i <= j

Cell(n)  == <<n[1], n[2]>>
Step(n, d) == <<n[1] + d[1], n[2] + d[2], n[3]>>
Delta(m, n) == <<n[1] - m[1], n[2] - m[2]>>
Distance(c, d) == Greater(Abs(c[1] - d[1]), Abs(c[2] - d[2]))

(* layer_forbidden, layer_cost_or_default, min_valid_layer_cost.           *)
Forbidden(l) == request.layerCost[l] < 0
Multiplier(l) == IF Forbidden(l) THEN 1000 ELSE request.layerCost[l]
MinLayerCost == Least({request.layerCost[l] : l \in {k \in LayerIds : ~Forbidden(k)}})

(* heuristic_to_targets, to each target or to the box around them.         *)
(* Mutant: a diagonal counted as two straight moves.                       *)
Manhattan(dx, dy) == ((dx + dy) * OrthoCost * MinLayerCost) \div 1000

Octile(dx, dy) ==
  ((Lesser(dx, dy) * DiagCost + Abs(dx - dy) * OrthoCost) * MinLayerCost) \div 1000

ToTarget(n, t) ==
  Octile(Abs(n[1] - t[1]), Abs(n[2] - t[2])) + (IF n[3] # t[3] THEN request.viaCost ELSE 0)

ToRange(i, S) ==
  IF (\E j \in S : i <= j) /\ \E j \in S : j <= i THEN 0 ELSE Least({Abs(i - j) : j \in S})

ToBox(n) ==
  Octile(ToRange(n[1], {t[1] : t \in Targets}), ToRange(n[2], {t[2] : t \in Targets}))
    + (IF \E t \in Targets : t[3] = n[3] THEN 0 ELSE request.viaCost)

Heuristic(n) ==
  IF Targets = {} THEN 0
  ELSE ((IF Cardinality(Targets) > BBoxMinTargets THEN ToBox(n)
         ELSE Least({ToTarget(n, t) : t \in Targets})) * request.hWeight) \div 100

----------------------------------------------------------------------------
(* segment_blocked without a margin, is_via_blocked.                       *)
Blocked(n) == n \notin Nodes \/ n \in blocked

Parent(n) == node[n].parent

IsVia(m, n) == m # None /\ n # None /\ Cell(m) = Cell(n) /\ m[3] # n[3]

(* The direction a via was approached in, None when the path began there.  *)
Approach(n) ==
  IF Parent(n) = None \/ Cell(Parent(n)) = Cell(n) THEN None ELSE Delta(Parent(n), n)

(* get_via_direction_constraints: the two moves after a via keep the       *)
(* direction before it, the third stays within 45 degrees of it.  The      *)
(* comments at its caller (router.rs:798-800, 839) have the second move    *)
(* loosened already; the function's own (1587-1588) say why it is not.     *)
ViaDirections(n) ==
  LET p == Parent(n)
      All == {Directions[i] : i \in 1..8}
      Exactly(d) == IF d = None THEN All ELSE {d}
      Around(d) == IF d = None THEN All ELSE {e \in All : Within45(e, d)}
  IN IF ~request.collinear \/ p = None THEN All
     ELSE IF IsVia(p, n) THEN Exactly(Approach(p))
     ELSE LET gp == Parent(p)
          IN IF gp = None THEN All
             ELSE IF IsVia(gp, p) THEN Exactly(Approach(gp))
             ELSE LET ggp == Parent(gp)
                  IN IF ggp # None /\ IsVia(ggp, gp) THEN Around(Approach(ggp)) ELSE All

(* check_via_exclusion: a path does not come back to its own vias.         *)
Excluded(n, m) ==
  request.radius > 0 /\ \E v \in pathVias[n] :
    LET here == Distance(Cell(n), v)
        next == Distance(Cell(m), v)
        dx == Abs(m[1] - v[1]) - Abs(n[1] - v[1])
        dy == Abs(m[2] - v[2]) - Abs(n[2] - v[2])
    IN \/ next <= request.radius /\ here > request.radius
       \/ here <= request.radius /\ next < here
       \/ /\ 0 < here /\ here <= request.radius \div 2 /\ next = here
          /\ dx * dy < 0

(* The moves an expansion of n tries.                                      *)
Moves(n) ==
  IF Forbidden(n[3]) THEN {}
  ELSE {Step(n, d) : d \in {e \in ViaDirections(n) :
          request.startDir # None /\ node[n].steps < DirectionSteps =>
            Within45(e, request.startDir)}}

(* can_place_via: two aligned moves lead to a via.  Mutant: one is enough. *)
RunsOnce(n) == Parent(n) # None /\ Approach(n) # None

RunsStraight(n) ==
  LET p == Parent(n)
      gp == IF p = None THEN None ELSE Parent(p)
  IN /\ p # None /\ gp # None /\ Parent(gp) # None
     /\ Approach(n) # None /\ Approach(p) # None
     /\ Within45(Approach(n), Approach(p))

ViaLegal(n) ==
  /\ request.collinear => RunsStraight(n)
  /\ \/ Cell(n) \in request.freeVias
     \/ /\ Cell(n) \notin viaBlocked
        /\ request.radius > 0 =>
             \A v \in pathVias[n] : Distance(Cell(n), v) > 2 * request.radius

Vias(n) ==
  IF ViaLegal(n)
  THEN {<<n[1], n[2], l>> : l \in {k \in LayerIds \ {n[3]} : ~Forbidden(k)}}
  ELSE {}

(* What an expansion runs into when it is blocked is on the frontier.      *)
(* Mutant: the far side of a via is not reported.                          *)
TriedMoves(n) == Moves(n)

Tried(n) == Moves(n) \cup Vias(n)

Reached(n) ==
  {m \in Moves(n) : ~Blocked(m) /\ ~Excluded(n, m)} \cup {m \in Vias(n) : ~Blocked(m)}

(* get_blocked: what a failed search returns.  A frontier above the limit  *)
(* is sampled, evenly in the order of the keys: x, then y, then layer, a   *)
(* negative coordinate after the others.  (The code computes the places in *)
(* floats; one that is a whole number may come out as the place before.)   *)
Unsigned(i) == IF i < 0 THEN i + 2 * KeyHalf ELSE i

KeyBefore(c, d) ==
  \/ Unsigned(c[1]) < Unsigned(d[1])
  \/ c[1] = d[1] /\ Unsigned(c[2]) < Unsigned(d[2])
  \/ Cell(c) = Cell(d) /\ c[3] < d[3]

KeyRank(c) == Cardinality({d \in frontier : KeyBefore(d, c)})

SampledRanks ==
  {(i * Cardinality(frontier)) \div MaxBlockedCells : i \in 0..(MaxBlockedCells - 1)}

Reported ==
  IF Cardinality(frontier) <= MaxBlockedCells THEN frontier
  ELSE {c \in frontier : KeyRank(c) \in SampledRanks}

(* The cost of a step; a turn costs in proportion to its angle.            *)
MoveCost(n, m) ==
  ((IF n[1] # m[1] /\ n[2] # m[2] THEN DiagCost ELSE OrthoCost) * Multiplier(n[3])) \div 1000

Turn(n, m) ==
  IF Approach(n) = None THEN 0 ELSE (request.turnCost * Angle(Delta(n, m), Approach(n))) \div 2

ViaStep(n, m) ==
  Greater(0, (IF Cell(n) \in request.freeVias THEN 0 ELSE request.viaCost)
               + Multiplier(m[3]) - Multiplier(n[3]))

StepCost(n, m) ==
  IF Cell(n) = Cell(m) THEN ViaStep(n, m) ELSE MoveCost(n, m) + Turn(n, m)

----------------------------------------------------------------------------
Unvisited == [g |-> None, parent |-> None, steps |-> 0]
Visited(n) == node[n].g # None

SourceG(s) == Multiplier(s[3]) - MinLayerCost

Entry(n, g, i) == [f |-> g + Heuristic(n), g |-> g, at |-> n, order |-> i]

(* GridSearch::new.  The sources are pushed in some order.                 *)
Init ==
  /\ request \in Requests
  /\ blocked \in request.obstacles /\ viaBlocked \in request.viaObstacles
  /\ node = [n \in Nodes |-> IF n \in Sources
                             THEN [g |-> SourceG(n), parent |-> None, steps |-> 0]
                             ELSE Unvisited]
  /\ closed = {}
  /\ pathVias = [n \in Nodes |-> {}]
  /\ \E order \in {p \in [Sources -> 0..(Cardinality(Sources) - 1)] :
                     \A s, t \in Sources : p[s] = p[t] => s = t} :
       open = {Entry(s, SourceG(s), order[s]) : s \in Sources}
  /\ counter = Cardinality(Sources)
  /\ frontier = {}
  /\ iterations = 0
  /\ budget = [cap |-> request.tranche, ref |-> NoRef, grace |-> 0, granted |-> 0,
               best |-> Least({Heuristic(s) : s \in Sources}),
               initial |-> Least({Heuristic(s) : s \in Sources}),
               snapped |-> FALSE]
  /\ outcome = "searching"
  /\ goal = None

(* OpenEntry's order: least f, then first pushed.                          *)
IsTop(e) == e \in open /\ \A o \in open : e.f < o.f \/ (e.f = o.f /\ e.order <= o.order)

QuantumOf(b) == Greater(Quantum, (b.ref * QuantumPct) \div 100)

(* extend_budget: a tranche is granted for progress of at least a quantum, *)
(* or while the grace for a plateau lasts.  Mutant: grace is never used up. *)
ExtendedForFree(b) ==
  IF b.cap >= request.ceiling \/ b.ref = NoRef THEN b
  ELSE [b EXCEPT !.cap = Lesser(b.cap + request.tranche, request.ceiling),
                 !.granted = @ + 1, !.grace = 0,
                 !.ref = IF b.ref - b.best < QuantumOf(b) THEN @ ELSE b.best]

Extended(b) ==
  LET plateau == b.ref - b.best < QuantumOf(b)
  IN IF b.cap >= request.ceiling \/ b.ref = NoRef \/ (plateau /\ b.grace >= Grace) THEN b
     ELSE [b EXCEPT !.cap = Lesser(b.cap + request.tranche, request.ceiling),
                    !.granted = @ + 1,
                    !.grace = IF plateau THEN @ + 1 ELSE 0,
                    !.ref = IF plateau THEN @ ELSE b.best]

(* The reference is taken once, half way through the first tranche.        *)
Snapped(b, i) ==
  IF ~b.snapped /\ i >= request.tranche \div 2
  THEN [b EXCEPT !.ref = b.best, !.snapped = TRUE] ELSE b

(* A pop counts when the cap, or its extension, allows it.                 *)
Budgeted == IF iterations >= budget.cap THEN Extended(budget) ELSE budget

(* Mutant: one pop too many.                                               *)
MayPopOnceMore == iterations <= Budgeted.cap

MayPop == iterations < Budgeted.cap

Exhausted ==
  /\ open = {}
  /\ outcome' = "exhausted"
  /\ UNCHANGED <<board, node, closed, pathVias, open, counter, frontier, iterations, budget, goal>>

Capped ==
  /\ ~MayPop
  /\ \E e \in open : IsTop(e) /\ open' = open \ {e}
  /\ outcome' = "capped"
  /\ UNCHANGED <<board, node, closed, pathVias, counter, frontier, iterations, budget, goal>>

(* What every counted pop does: the budget, and the closest approach.      *)
Pop(e, live) ==
  /\ IsTop(e) /\ MayPop
  /\ iterations' = iterations + 1
  /\ budget' = LET b == Snapped(Budgeted, iterations')
               IN IF live THEN [b EXCEPT !.best = Lesser(@, e.f - e.g)] ELSE b

DuplicateSkip ==
  /\ \E e \in open : e.at \in closed /\ Pop(e, FALSE) /\ open' = open \ {e}
  /\ UNCHANGED <<board, node, closed, pathVias, counter, frontier, outcome, goal>>

(* Arrival within 120 degrees of the end direction, as the code computes   *)
(* it; the description of route_multi (router.rs:1263) says 60.            *)
ArrivalOK(n) ==
  request.endDir = None \/ Approach(n) = None \/ Angle(Approach(n), request.endDir) <= 2

Arrive ==
  /\ \E e \in open :
       /\ e.at \in Targets \ closed
       /\ Pop(e, TRUE)
       /\ open' = open \ {e}
       /\ IF ArrivalOK(e.at)
          THEN outcome' = "found" /\ goal' = e.at
          ELSE UNCHANGED <<outcome, goal>>
  /\ UNCHANGED <<board, node, closed, pathVias, counter, frontier>>

(* The neighbours that get better, in the order they are pushed.  Mutant:  *)
(* an expanded node may be relaxed again.                                  *)
Better(n, g, m) == Visited(m) => g + StepCost(n, m) < node[m].g

ImprovedEvenClosed(n, g) == {m \in Reached(n) \ {n} : Better(n, g, m)}

Improved(n, g) == {m \in Reached(n) \ (closed \cup {n}) : Better(n, g, m)}

PushRank(n, m) ==
  IF Cell(n) = Cell(m) THEN 9 + m[3] ELSE DirIndex(Delta(n, m))

(* The vias on the way to m when it is reached from n.  Mutant: a via is   *)
(* forgotten.                                                              *)
ViasForgotten(n, m) == pathVias[n]

ViasOnWay(n, m) ==
  IF request.radius > 0 /\ Cell(n) = Cell(m) /\ Cell(n) \notin request.freeVias
  THEN pathVias[n] \cup {Cell(n)} ELSE pathVias[n]

Relaxed(n, g, m) ==
  [g |-> g + StepCost(n, m), parent |-> n,
   steps |-> node[n].steps + (IF Cell(n) = Cell(m) THEN 0 ELSE 1)]

ExpandNode(e, better) ==
  LET n == e.at
      Order(m) == counter + Cardinality({k \in better : PushRank(n, k) < PushRank(n, m)})
  IN /\ closed' = closed \cup {n}
     /\ frontier' = frontier \cup {m \in Tried(n) : Blocked(m)}
     /\ node' = [m \in Nodes |-> IF m \in better THEN Relaxed(n, e.g, m) ELSE node[m]]
     /\ pathVias' = [m \in Nodes |-> IF m \in better THEN ViasOnWay(n, m) ELSE pathVias[m]]
     /\ open' = (open \ {e}) \cup {Entry(m, e.g + StepCost(n, m), Order(m)) : m \in better}
     /\ counter' = counter + Cardinality(better)

Expand ==
  /\ \E e \in open :
       /\ e.at \notin closed \cup Targets
       /\ Pop(e, TRUE)
       /\ ExpandNode(e, Improved(e.at, e.g))
  /\ UNCHANGED <<board, outcome, goal>>

Next ==
  /\ outcome = "searching"
  /\ Exhausted \/ Capped \/ DuplicateSkip \/ Arrive \/ Expand

Spec == Init /\ [][Next]_vars

----------------------------------------------------------------------------
(* reconstruct_path: from the goal along the parents.                      *)
PathTo(t) ==
  LET path[n \in Nodes] ==
        IF Parent(n) = None THEN <<n>> ELSE Append(path[Parent(n)], n)
  IN path[t]

(* References: what the board allows, whatever the search does.            *)
LegalStep(m, n, b) ==
  /\ n \in Nodes \ b
  /\ \/ m[3] = n[3] /\ Distance(Cell(m), Cell(n)) = 1 /\ ~Forbidden(m[3])
     \/ /\ Cell(m) = Cell(n) /\ m[3] # n[3] /\ ~Forbidden(n[3])
        /\ Cell(m) \in request.freeVias \/ Cell(m) \notin viaBlocked

(* The cheapest costs of walks that begin with a pair of start, a set of   *)
(* pairs <<node, cost>>; turn costs are left out.                          *)
Cheapest(S) == {p \in S : \A q \in S : q[1] = p[1] => p[2] <= q[2]}

CheapestFrom(start) ==
  LET walks[k \in 0..Cardinality(Nodes)] ==
        IF k = 0 THEN start
        ELSE LET w == walks[k - 1]
             IN Cheapest(w \cup UNION {{<<n, p[2] + StepCost(p[1], n)>> :
                  n \in {m \in Nodes : LegalStep(p[1], m, blocked)}} : p \in w})
  IN walks[Cardinality(Nodes)]

(* The directions along a path; a via has none.                            *)
Heading(p, i) == IF Cell(p[i]) = Cell(p[i + 1]) THEN None ELSE Delta(p[i], p[i + 1])

HasVia(p, i) == i \in 1..(Len(p) - 1) /\ Heading(p, i) = None
NewVias(p) == {i \in 1..(Len(p) - 1) : HasVia(p, i) /\ Cell(p[i]) \notin request.freeVias}

(* Around a via: two aligned moves before it; after it two moves in the    *)
(* same direction and then one within 45 degrees, as far as the path goes. *)
StraightAround(p, i) ==
  /\ i >= 3 /\ Heading(p, i - 1) # None /\ Heading(p, i - 2) # None
  /\ Within45(Heading(p, i - 1), Heading(p, i - 2))
  /\ \A j \in {i + 1, i + 2} : j < Len(p) => Heading(p, j) = Heading(p, i - 1)
  /\ i + 3 >= Len(p) \/ HasVia(p, i + 3) \/ Within45(Heading(p, i + 3), Heading(p, i - 1))

Unconstrained ==
  ~request.collinear /\ request.radius = 0 /\ request.startDir = None /\ request.endDir = None

----------------------------------------------------------------------------
(* The shape of the state.  A visited node has a cost and a parent in the  *)
(* grid, what is closed was visited, and every entry is for a visited node *)
(* and never cheaper than what the node store knows.                       *)
TypeOK ==
  /\ request \in Requests
  /\ blocked \subseteq Nodes
  /\ node \in [Nodes -> [g : Int \cup {None}, parent : Nodes \cup {None}, steps : Nat]]
  /\ closed \subseteq {n \in Nodes : Visited(n)}
  /\ pathVias \in [Nodes -> SUBSET (Int \X Int)]
  /\ \A e \in open : /\ e.at \in Nodes /\ Visited(e.at)
                     /\ node[e.at].g <= e.g /\ e.order \in 0..(counter - 1)
  /\ iterations \in 0..budget.cap
  /\ outcome \in {"searching", "found", "capped", "exhausted"}

(* NodeStore: "Never called on a closed node", "the closed bit is [...]    *)
(* never relaxed away": the way to a node is final once it was expanded.   *)
ExpandedIsFinal ==
  [][/\ closed \subseteq closed'
     /\ \A n \in closed : node'[n] = node[n] /\ pathVias'[n] = pathVias[n]]_vars

(* Every visited node hangs from an expanded one by a step that was legal  *)
(* for the way there - obstacles, forbidden layers, via rules and all -    *)
(* and still is: no later relaxation changed the way it depended on.  The  *)
(* vias remembered for a node are those of its way, whatever order ways to *)
(* it were found in.                                                       *)
TreeIsLegal ==
  \A n \in Nodes : Parent(n) # None =>
    /\ Parent(n) \in closed
    /\ n \in Reached(Parent(n))
    /\ node[n].g = node[Parent(n)].g + StepCost(Parent(n), n)
    /\ pathVias[n] = pathVias[Parent(n)] \cup
         (IF request.radius > 0 /\ IsVia(Parent(n), n) THEN {Cell(n)} \ request.freeVias ELSE {})

(* The node store as a whole, in shape and in what its tree means.         *)
NodeStoreIsSound == TypeOK /\ TreeIsLegal

(* A returned route obeys the rules, read off the route itself: it runs    *)
(* from a source to a target over free cells and legal vias, starts within *)
(* 45 and ends within 120 degrees of the directions asked for, is straight *)
(* around vias (see StraightAround) and keeps its own new vias apart.      *)
(* Where comments of the source disagree - arrival within 60 degrees, one  *)
(* straight move after a via - the rules are those the code enforces.      *)
RoutesObeyTheRules ==
  outcome = "found" =>
    LET p == PathTo(goal)
    IN /\ p[1] \in Sources /\ p[Len(p)] \in Targets
       /\ \A i \in 1..(Len(p) - 1) : LegalStep(p[i], p[i + 1], blocked)
       /\ request.collinear => \A i \in 1..(Len(p) - 1) : HasVia(p, i) => StraightAround(p, i)
       /\ request.startDir # None =>
            \A i \in 1..(Len(p) - 1) :
              HasVia(p, i) \/ Within45(Heading(p, i), request.startDir)
                \/ Cardinality({j \in 1..(i - 1) : ~HasVia(p, j)}) >= DirectionSteps
       /\ request.endDir # None /\ Len(p) > 1 =>
            HasVia(p, Len(p) - 1) \/ Angle(Heading(p, Len(p) - 1), request.endDir) <= 2
       /\ request.radius > 0 =>
            \A i, j \in NewVias(p) :
              i < j => Distance(Cell(p[i]), Cell(p[j])) > 2 * request.radius

(* What a failed search reports is what rip-up blames.  When the search    *)
(* ran dry, it reports blocked cells only, and a report below the limit    *)
(* separates the sources from the targets on its own: whatever else is     *)
(* freed, no step leaves the explored part of the board but onto a         *)
(* reported cell or through a closed via site.  A full report is a sample  *)
(* and promises no such thing; get_blocked does not say which it is, but   *)
(* its length does.                                                        *)
FrontierSeparates ==
  outcome = "exhausted" /\ Unconstrained =>
    /\ Reported \cap Nodes \subseteq blocked
    /\ Sources \subseteq closed /\ closed \cap Targets = {}
    /\ Cardinality(Reported) < MaxBlockedCells =>
         \A m \in closed, n \in Nodes : LegalStep(m, n, Reported) => n \in closed

(* The route found costs at most hWeight percent of the cheapest one (with *)
(* a weight of 100, it is cheapest), where the heuristic is a lower bound  *)
(* and a step costs the same whatever the way to it.                       *)
FoundIsNearCheapest ==
  [][goal' # None /\ Unconstrained /\ request.turnCost = 0 /\ request.freeVias = {} =>
       \A p \in CheapestFrom({<<s, SourceG(s)>> : s \in Sources}) :
         p[1] = goal' => node[goal'].g * 100 <= Greater(100, request.hWeight) * p[2]]_vars

(* Every tranche beyond the first was paid for: with G tolerated tranches  *)
(* per plateau, each G + 1 of them brought the search a quantum closer.    *)
BudgetIsEarned ==
  /\ iterations <= Greater(request.tranche, request.ceiling)
  /\ budget.granted <= Grace + (Grace + 1) * ((budget.initial - budget.best) \div Quantum)
==================================================================================
