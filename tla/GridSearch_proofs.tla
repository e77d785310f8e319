----------------------------- MODULE GridSearch_proofs -----------------------------
(***************************************************************************)
(* For every grid, obstacles and settings: the way to an expanded node is  *)
(* final, the tree of the node store is legal, the frontier of a search    *)
(* that ran dry separates, the budget is earned, a route obeys its rules,  *)
(* and where costs are even it is cheapest up to the heuristic's weight.   *)
(* What makes this inductive is what the open set is good for: every node  *)
(* that was reached and not expanded has an entry with the cost the store  *)
(* knows, so that an entry that is popped for a node that is not closed    *)
(* has just that cost; the way along the parents, which is a function of   *)
(* the node store; and the walks, the least set that has the sources and   *)
(* every legal step, which leave what was expanded through an open entry.  *)
(***************************************************************************)
EXTENDS GridSearch, FiniteSetTheorems, WellFoundedInduction, TLAPS

Dirs == {Directions[i] : i \in 1..8}

(* Entries are priced by the heuristic.                                    *)
EntriesPriced ==
  \A e \in open : /\ e \in [f : Int, g : Int, at : Nodes, order : Int]
                  /\ e.f = e.g + Heuristic(e.at)

(* A node is entered in one of the eight directions, or by a via.          *)
HeadingsKnown == \A n \in Nodes : Approach(n) \in Dirs \cup {None}

(* A target that was popped from a wrong side is not expected any more.    *)
Awaited(n) == n \notin closed /\ Visited(n) /\ (n \in Targets => request.endDir = None)

AwaitedAreOpen ==
  outcome \in {"searching", "exhausted"} =>
    \A n \in Nodes : Awaited(n) => \E e \in open : e.at = n /\ e.g = node[n].g

(* What has a key: a node, or a neighbour of one.                          *)
KeyCells == (-KeyHalf..(KeyHalf - 1)) \X (-KeyHalf..(KeyHalf - 1)) \X LayerIds

EndsKept ==
  /\ closed \cap Targets = {}
  /\ \A s \in Sources : Visited(s)
  /\ frontier \cap Nodes \subseteq blocked
  /\ frontier \subseteq KeyCells /\ IsFiniteSet(frontier)
  /\ outcome = "exhausted" => open = {}

Explored ==
  Unconstrained => \A m \in closed, n \in Nodes : LegalStep(m, n, frontier) => Visited(n)

TreeInv == TypeOK /\ counter \in Nat /\ EntriesPriced /\ TreeIsLegal /\ HeadingsKnown

Budgets == [cap : Nat, ref : Int, grace : 0..Grace, granted : Nat, best : Int,
            initial : Int, snapped : BOOLEAN]

(* What was granted beyond the first tranche, against the progress between *)
(* the first distance and the reference.                                   *)
BudgetOK(b) ==
  /\ b \in Budgets
  /\ b.cap <= Greater(request.tranche, request.ceiling)
  /\ b.best <= b.initial
  /\ ~b.snapped => b.granted = 0 /\ b.ref = NoRef /\ b.grace = 0
  /\ b.snapped =>
       /\ b.best <= b.ref /\ b.ref <= b.initial
       /\ b.granted <= b.grace + (Grace + 1) * ((b.initial - b.ref) \div Quantum)

BudgetInv == BudgetOK(budget)

GridInv == TreeInv /\ AwaitedAreOpen /\ EndsKept /\ Explored /\ BudgetInv
----------------------------------------------------------------------------
(* Numbers, costs and directions.                                          *)
LEMMA HasLeast ==
  ASSUME NEW S \in SUBSET Nat, S # {}
  PROVE  Least(S) \in S /\ \A j \in S : Least(S) <= j
<1>1. PICK R : R = OpToRel(<, Nat)
  OBVIOUS
<1>2. IsWellFoundedOn(R, Nat)
  BY <1>1, NatLessThanWellFounded
<1>3. PICK x \in S : \A y \in S : ~(<<y, x>> \in R)
  BY <1>2, WFMin
<1>4. \A y \in S : y < x => <<y, x>> \in R
  BY <1>1 DEF OpToRel
<1>5. x \in Nat /\ \A j \in S : j \in Nat /\ ~(j < x)
  BY <1>3, <1>4
<1>6. \A j \in S : x <= j
  BY <1>5
<1> QED
  BY <1>6 DEF Least

LEMMA RequestFacts ==
  ASSUME request \in Requests
  PROVE  /\ Nodes \subseteq Int \X Int \X LayerIds /\ None \notin Nodes
         /\ IsFiniteSet(Nodes)
         /\ Sources \subseteq Nodes /\ Targets \subseteq Nodes
         /\ Sources # {} /\ IsFiniteSet(Sources) /\ Targets # {}
         /\ request.turnCost \in Nat /\ request.viaCost \in Nat /\ request.hWeight \in Nat
         /\ request.layerCost \in [LayerIds -> Int]
         /\ \E l \in LayerIds : request.layerCost[l] >= 0
         /\ request.startDir \in Dirs \cup {None} /\ request.endDir \in Dirs \cup {None}
         /\ request.tranche \in Nat /\ request.ceiling \in Nat
         /\ request.collinear \in BOOLEAN /\ request.radius \in Nat
<1>1. RequestOK(request)
  BY RequestAssumption
<1>2. Nodes \subseteq Int \X Int \X LayerIds
  <2>1. Nodes \subseteq Coordinates \X Coordinates \X LayerIds
    BY <1>1 DEF RequestOK, Nodes
  <2>2. Coordinates \subseteq Int
    BY ReportAssumption DEF Coordinates
  <2> QED
    BY <2>1, <2>2
<1> QED
  BY <1>1, <1>2 DEF RequestOK, Nodes, Sources, Targets, Dirs

LEMMA NodeParts ==
  ASSUME request \in Requests, NEW n \in Nodes
  PROVE  /\ n = <<n[1], n[2], n[3]>> /\ n[1] \in Int /\ n[2] \in Int
         /\ n[3] \in LayerIds /\ n[3] \in Nat
  BY RequestFacts, LayersAssumption

LEMMA DirectionParts ==
  /\ \A d \in Dirs : /\ d = <<d[1], d[2]>> /\ d[1] \in -1..1 /\ d[2] \in -1..1
                     /\ d[1] # 0 \/ d[2] # 0
  /\ \A a, b \in -1..1 : a # 0 \/ b # 0 => <<a, b>> \in Dirs
<1>1. Dirs = {<<1, 0>>, <<1, -1>>, <<0, -1>>, <<-1, -1>>, <<-1, 0>>, <<-1, 1>>, <<0, 1>>, <<1, 1>>}
  <2>1. /\ Directions[1] = <<1, 0>> /\ Directions[2] = <<1, -1>> /\ Directions[3] = <<0, -1>>
        /\ Directions[4] = <<-1, -1>> /\ Directions[5] = <<-1, 0>> /\ Directions[6] = <<-1, 1>>
        /\ Directions[7] = <<0, 1>> /\ Directions[8] = <<1, 1>>
    BY DEF Directions
  <2>2. 1..8 = {1, 2, 3, 4, 5, 6, 7, 8}
    OBVIOUS
  <2> QED
    BY <2>1, <2>2 DEF Dirs
<1>2. \A d \in Dirs : /\ d = <<d[1], d[2]>> /\ d[1] \in -1..1 /\ d[2] \in -1..1
                      /\ d[1] # 0 \/ d[2] # 0
  BY <1>1
<1>3. \A a, b \in -1..1 : a # 0 \/ b # 0 => <<a, b>> \in Dirs
  <2> TAKE a, b \in -1..1
  <2>1. (a = -1 \/ a = 0 \/ a = 1) /\ (b = -1 \/ b = 0 \/ b = 1)
    OBVIOUS
  <2> QED
    BY <1>1, <2>1
<1> QED
  BY <1>2, <1>3

LEMMA AngleIsNat ==
  ASSUME NEW d \in Dirs, NEW e \in Dirs
  PROVE  Angle(d, e) \in Nat /\ DirIndex(d) \in 1..8
<1>1. DirIndex(d) \in 1..8 /\ DirIndex(e) \in 1..8
  BY DEF Dirs, DirIndex
<1>2. PICK delta : delta = (DirIndex(d) - DirIndex(e)) % 8
  OBVIOUS
<1>3. delta \in 0..7
  BY <1>1, <1>2
<1>4. Angle(d, e) = IF delta > 4 THEN 8 - delta ELSE delta
  BY <1>2 DEF Angle
<1> QED
  BY <1>1, <1>3, <1>4

LEMMA LayerCosts ==
  ASSUME request \in Requests
  PROVE  /\ \A l \in LayerIds : Multiplier(l) \in Nat
         /\ MinLayerCost \in Nat
         /\ \A n \in Nodes : SourceG(n) \in Int
<1>1. request.layerCost \in [LayerIds -> Int] /\ \E l \in LayerIds : request.layerCost[l] >= 0
  BY RequestFacts
<1>2. \A l \in LayerIds : Multiplier(l) \in Nat
  BY <1>1 DEF Multiplier, Forbidden
<1>3. MinLayerCost \in Nat
  <2>1. PICK S : S = {request.layerCost[l] : l \in {k \in LayerIds : ~Forbidden(k)}}
    OBVIOUS
  <2>a. PICK c : c = request.layerCost
    OBVIOUS
  <2>b. S = {c[l] : l \in {k \in LayerIds : ~(c[k] < 0)}} /\ c \in [LayerIds -> Int]
    BY <1>1, <2>1, <2>a DEF Forbidden
  <2>c. \A x \in S : x \in Nat
    BY <2>b
  <2>d. PICK l \in LayerIds : c[l] >= 0
    BY <1>1, <2>a
  <2>e. ~(c[l] < 0)
    BY <2>b, <2>d
  <2>2. S \in SUBSET Nat /\ S # {}
    BY <2>b, <2>c, <2>d, <2>e
  <2>3. Least(S) \in S
    BY <2>2, HasLeast
  <2> QED
    BY <2>1, <2>2, <2>3 DEF MinLayerCost
<1> QED
  BY <1>2, <1>3, NodeParts DEF SourceG

LEMMA Products == \A a, b \in Nat : a * b \in Nat
  OBVIOUS

LEMMA OctileIsNat ==
  ASSUME request \in Requests, NEW dx \in Nat, NEW dy \in Nat
  PROVE  Octile(dx, dy) \in Nat
<1>1. Lesser(dx, dy) \in Nat /\ Abs(dx - dy) \in Nat
  BY DEF Lesser, Abs
<1>2. MinLayerCost \in Nat /\ DiagCost \in Nat /\ OrthoCost \in Nat
  BY LayerCosts, CostAssumption
<1>3. PICK a, b : a = Lesser(dx, dy) * DiagCost /\ b = Abs(dx - dy) * OrthoCost
  OBVIOUS
<1>4. a \in Nat /\ b \in Nat
  BY <1>1, <1>2, <1>3, Products
<1>5. PICK c : c = (a + b) * MinLayerCost
  OBVIOUS
<1>6. a + b \in Nat
  BY <1>4
<1>7. c \in Nat
  BY <1>2, <1>5, <1>6, Products
<1>8. c \div 1000 \in Nat
  BY <1>7
<1> QED
  BY <1>3, <1>5, <1>8 DEF Octile

LEMMA ToRangeIsNat ==
  ASSUME NEW i \in Int, NEW S \in SUBSET Int, S # {}
  PROVE  ToRange(i, S) \in Nat
<1>1. PICK T : T = {Abs(i - j) : j \in S}
  OBVIOUS
<1>a. \A j \in S : Abs(i - j) \in Nat
  BY DEF Abs
<1>2. T \in SUBSET Nat /\ T # {}
  BY <1>1, <1>a
<1>3. Least(T) \in Nat
  BY <1>2, HasLeast
<1> QED
  BY <1>1, <1>3 DEF ToRange

LEMMA HeuristicIsNat ==
  ASSUME request \in Requests, NEW n \in Nodes
  PROVE  Heuristic(n) \in Nat
<1>1. /\ n[1] \in Int /\ n[2] \in Int /\ Targets # {} /\ request.viaCost \in Nat
      /\ request.hWeight \in Nat
      /\ \A t \in Targets : t[1] \in Int /\ t[2] \in Int
  BY RequestFacts, NodeParts
<1>2. \A t \in Targets : ToTarget(n, t) \in Nat
  <2> TAKE t \in Targets
  <2>1. Abs(n[1] - t[1]) \in Nat /\ Abs(n[2] - t[2]) \in Nat
    BY <1>1 DEF Abs
  <2>2. Octile(Abs(n[1] - t[1]), Abs(n[2] - t[2])) \in Nat
    BY <2>1, OctileIsNat
  <2> QED
    BY <1>1, <2>2 DEF ToTarget
<1>3. ToBox(n) \in Nat
  <2>1. ToRange(n[1], {t[1] : t \in Targets}) \in Nat /\ ToRange(n[2], {t[2] : t \in Targets}) \in Nat
    BY <1>1, ToRangeIsNat
  <2>2. Octile(ToRange(n[1], {t[1] : t \in Targets}), ToRange(n[2], {t[2] : t \in Targets})) \in Nat
    BY <2>1, OctileIsNat
  <2> QED
    BY <1>1, <2>2 DEF ToBox
<1>4. PICK S : S = {ToTarget(n, t) : t \in Targets}
  OBVIOUS
<1>5. Least(S) \in Nat
  BY <1>1, <1>2, <1>4, HasLeast
<1>6. PICK h : h = IF Cardinality(Targets) > BBoxMinTargets THEN ToBox(n) ELSE Least(S)
  OBVIOUS
<1>7. h \in Nat
  BY <1>3, <1>5, <1>6
<1>8. h * request.hWeight \in Nat
  BY <1>1, <1>7, Products
<1>9. (h * request.hWeight) \div 100 \in Nat
  BY <1>8
<1> QED
  BY <1>1, <1>4, <1>6, <1>9 DEF Heuristic

LEMMA EntryShape ==
  ASSUME request \in Requests, NEW n \in Nodes, NEW g \in Int, NEW i \in Int
  PROVE  /\ Entry(n, g, i) \in [f : Int, g : Int, at : Nodes, order : Int]
         /\ Entry(n, g, i).f = Entry(n, g, i).g + Heuristic(Entry(n, g, i).at)
         /\ Entry(n, g, i).g = g /\ Entry(n, g, i).at = n /\ Entry(n, g, i).order = i
  BY HeuristicIsNat DEF Entry
----------------------------------------------------------------------------
(* What an expansion tries, and what it costs.                             *)
LEMMA StoreTypes ==
  ASSUME TreeInv
  PROVE  /\ request \in Requests /\ None \notin Nodes /\ closed \subseteq Nodes
         /\ \A n \in Nodes : /\ node[n].g \in Int \cup {None} /\ node[n].steps \in Nat
                             /\ Parent(n) \in Nodes \cup {None}
                             /\ Visited(n) <=> node[n].g \in Int
                             /\ pathVias[n] \in SUBSET (Int \X Int)
                             /\ Approach(n) \in Dirs \cup {None}
         /\ \A n \in closed : Visited(n)
<1>1. TypeOK /\ HeadingsKnown
  BY DEF TreeInv
<1>2. request \in Requests /\ None \notin Nodes /\ closed \subseteq Nodes
  BY <1>1, RequestFacts DEF TypeOK
<1>3. \A n \in Nodes : node[n] \in [g : Int \cup {None}, parent : Nodes \cup {None}, steps : Nat]
  BY <1>1 DEF TypeOK
<1>4. \A n \in Nodes : /\ node[n].g \in Int \cup {None} /\ node[n].steps \in Nat
                       /\ Parent(n) \in Nodes \cup {None}
  BY <1>3 DEF Parent
<1>5. \A n \in Nodes : Visited(n) <=> node[n].g \in Int
  BY <1>4, NoneAssumption DEF Visited
<1>6. \A n \in Nodes : pathVias[n] \in SUBSET (Int \X Int)
  BY <1>1 DEF TypeOK
<1>7. \A n \in closed : Visited(n)
  BY <1>1 DEF TypeOK
<1> QED
  BY <1>1, <1>2, <1>4, <1>5, <1>6, <1>7 DEF HeadingsKnown

LEMMA StepsOfADirection ==
  ASSUME request \in Requests, NEW n \in Nodes, NEW d \in Dirs
  PROVE  /\ Cell(Step(n, d)) # Cell(n) /\ Delta(n, Step(n, d)) = d /\ Step(n, d)[3] = n[3]
         /\ Distance(Cell(n), Cell(Step(n, d))) = 1
<1>1. /\ n[1] \in Int /\ n[2] \in Int /\ d = <<d[1], d[2]>> /\ d[1] \in -1..1 /\ d[2] \in -1..1
      /\ d[1] # 0 \/ d[2] # 0
  BY NodeParts, DirectionParts
<1>2. PICK m : m = Step(n, d)
  OBVIOUS
<1>3. m[1] = n[1] + d[1] /\ m[2] = n[2] + d[2] /\ m[3] = n[3]
  BY <1>2 DEF Step
<1>4. Delta(n, m) = d
  <2>1. m[1] - n[1] = d[1] /\ m[2] - n[2] = d[2]
    BY <1>1, <1>3
  <2> QED
    BY <1>1, <2>1 DEF Delta
<1>5. Cell(m) # Cell(n)
  <2>1. m[1] # n[1] \/ m[2] # n[2]
    BY <1>1, <1>3
  <2> QED
    BY <2>1 DEF Cell
<1>6. Distance(Cell(n), Cell(m)) = 1
  <2>1. Distance(Cell(n), Cell(m)) = Greater(Abs(n[1] - m[1]), Abs(n[2] - m[2]))
    BY DEF Distance, Cell
  <2>2. n[1] - m[1] = -d[1] /\ n[2] - m[2] = -d[2]
    BY <1>1, <1>3
  <2>3. Greater(Abs(-d[1]), Abs(-d[2])) = 1
    BY <1>1 DEF Greater, Abs
  <2> QED
    BY <2>1, <2>2, <2>3
<1> QED
  BY <1>2, <1>3, <1>4, <1>5, <1>6

LEMMA ViaDirectionsAreDirections ==
  ASSUME TreeInv, NEW n \in Nodes
  PROVE  ViaDirections(n) \subseteq Dirs
<1>1. \A k \in Nodes : Parent(k) \in Nodes \cup {None} /\ Approach(k) \in Dirs \cup {None}
  BY StoreTypes
<1>2. PICK p : p = Parent(n)
  OBVIOUS
<1>3. CASE ~request.collinear \/ p = None
  BY <1>2, <1>3 DEF ViaDirections, Dirs
<1>4. CASE request.collinear /\ p # None
  <2>1. p \in Nodes /\ p # None /\ request.collinear
    BY <1>1, <1>2, <1>4
  <2>2. PICK gp : gp = Parent(p)
    OBVIOUS
  <2>3. gp \in Nodes \cup {None}
    BY <1>1, <2>1, <2>2
  <2>4. PICK ggp : ggp = Parent(gp)
    OBVIOUS
  <2>5. gp # None => ggp \in Nodes \cup {None}
    BY <1>1, <2>3, <2>4
  <2>6. Approach(p) \in Dirs \cup {None}
    BY <1>1, <2>1
  <2>7. gp # None => Approach(gp) \in Dirs \cup {None}
    BY <1>1, <2>3
  <2>8. ViaDirections(n) = IF IsVia(p, n) THEN (IF Approach(p) = None THEN Dirs ELSE {Approach(p)})
          ELSE IF gp = None THEN Dirs
          ELSE IF IsVia(gp, p) THEN (IF Approach(gp) = None THEN Dirs ELSE {Approach(gp)})
          ELSE IF ggp # None /\ IsVia(ggp, gp)
               THEN (IF Approach(ggp) = None THEN Dirs ELSE {e \in Dirs : Within45(e, Approach(ggp))})
               ELSE Dirs
    BY <1>2, <2>1, <2>2, <2>4 DEF ViaDirections, Dirs
  <2>9. \A e : {e} \subseteq Dirs <=> e \in Dirs
    OBVIOUS
  <2> QED
    BY <2>6, <2>7, <2>8, <2>9
<1> QED
  BY <1>2, <1>3, <1>4

LEMMA MovesAreSteps ==
  ASSUME TreeInv, NEW n \in Nodes, NEW m \in Moves(n)
  PROVE  \E d \in Dirs : m = Step(n, d)
  BY ViaDirectionsAreDirections DEF Moves

LEMMA ReachedParts ==
  ASSUME TreeInv, NEW n \in Nodes, NEW m \in Reached(n)
  PROVE  /\ m \in Nodes /\ m \notin blocked /\ m # n
         /\ \/ Cell(m) # Cell(n) /\ m \in Moves(n) /\ Delta(n, m) \in Dirs
            \/ Cell(m) = Cell(n) /\ m \in Vias(n) /\ m[3] # n[3]
<1>0. request \in Requests
  BY StoreTypes
<1>1. m \in Nodes /\ m \notin blocked
  BY DEF Reached, Blocked
<1>2. CASE m \in Moves(n)
  <2>1. PICK d \in Dirs : m = Step(n, d)
    BY <1>2, MovesAreSteps
  <2>2. Cell(m) # Cell(n) /\ Delta(n, m) = d
    BY <1>0, <2>1, StepsOfADirection
  <2> QED
    BY <1>1, <1>2, <2>2
<1>3. CASE m \in Vias(n)
  <2>1. PICK l \in LayerIds \ {n[3]} : m = <<n[1], n[2], l>>
    BY <1>3 DEF Vias
  <2>2. Cell(m) = Cell(n) /\ m[3] # n[3]
    BY <2>1 DEF Cell
  <2> QED
    BY <1>1, <1>3, <2>2
<1> QED
  BY <1>2, <1>3 DEF Reached

LEMMA StepCostIsInt ==
  ASSUME TreeInv, NEW n \in Nodes, NEW m \in Reached(n)
  PROVE  StepCost(n, m) \in Int
<1>1. request \in Requests /\ Approach(n) \in Dirs \cup {None}
  BY StoreTypes
<1>2. /\ m \in Nodes
      /\ Cell(m) # Cell(n) => Delta(n, m) \in Dirs
  BY ReachedParts
<1>3. Multiplier(n[3]) \in Nat /\ Multiplier(m[3]) \in Nat
  BY <1>1, <1>2, LayerCosts, NodeParts
<1>4. request.viaCost \in Nat /\ request.turnCost \in Nat
  BY <1>1, RequestFacts
<1>5. ViaStep(n, m) \in Int
  BY <1>3, <1>4 DEF ViaStep, Greater
<1>6. MoveCost(n, m) \in Int
  <2>1. PICK c : c = (IF n[1] # m[1] /\ n[2] # m[2] THEN DiagCost ELSE OrthoCost) * Multiplier(n[3])
    OBVIOUS
  <2>2. c \in Nat
    BY <1>3, <2>1, CostAssumption, Products
  <2>3. c \div 1000 \in Int
    BY <2>2
  <2> QED
    BY <2>1, <2>3 DEF MoveCost
<1>7. ASSUME Cell(m) # Cell(n) PROVE Turn(n, m) \in Int
  <2>1. CASE Approach(n) = None
    BY <2>1 DEF Turn
  <2>2. CASE Approach(n) # None
    <3>1. Angle(Delta(n, m), Approach(n)) \in Nat
      BY <1>1, <1>2, <1>7, <2>2, AngleIsNat
    <3>2. PICK c : c = request.turnCost * Angle(Delta(n, m), Approach(n))
      OBVIOUS
    <3>3. c \in Nat
      BY <1>4, <3>1, <3>2, Products
    <3>4. c \div 2 \in Int
      BY <3>3
    <3> QED
      BY <2>2, <3>2, <3>4 DEF Turn
  <2> QED
    BY <2>1, <2>2
<1> QED
  BY <1>5, <1>6, <1>7 DEF StepCost

LEMMA FewAreTried ==
  ASSUME TreeInv, NEW n \in Nodes
  PROVE  IsFiniteSet(Tried(n)) /\ IsFiniteSet(Reached(n))
<1>1. PICK Near, Stack : Near = {Step(n, Directions[i]) : i \in 1..8} /\ Stack = {<<n[1], n[2], l>> : l \in LayerIds}
  OBVIOUS
<1>2. IsFiniteSet(Near)
  <2>1. PICK I : I = 1..8
    OBVIOUS
  <2>2. PICK f : f = [i \in I |-> Step(n, Directions[i])]
    OBVIOUS
  <2>3. Near = {f[i] : i \in I}
    BY <1>1, <2>1, <2>2
  <2>4. f \in Surjection(I, Near)
    BY <2>2, <2>3 DEF Surjection
  <2>5. IsFiniteSet(I)
    <3>1. 1 \in Int /\ 8 \in Int
      OBVIOUS
    <3>2. IsFiniteSet(1..8)
      BY ONLY <3>1, FS_Interval, Zenon
    <3> QED
      BY <2>1, <3>2
  <2> QED
    BY <2>4, <2>5, FS_Surjection
<1>3. IsFiniteSet(Stack)
  <2>1. [l \in LayerIds |-> <<n[1], n[2], l>>] \in Surjection(LayerIds, Stack)
    BY <1>1 DEF Surjection
  <2> QED
    BY <2>1, LayersAssumption, FS_Surjection
<1>4. IsFiniteSet(Near \cup Stack)
  BY <1>2, <1>3, FS_Union
<1>5. Tried(n) \subseteq Near \cup Stack
  <2>1. \A m \in Moves(n) : m \in Near
    BY <1>1, MovesAreSteps DEF Dirs
  <2>2. \A m \in Vias(n) : m \in Stack
    BY <1>1 DEF Vias
  <2> QED
    BY <2>1, <2>2 DEF Tried
<1>6. Reached(n) \subseteq Tried(n)
  BY DEF Reached, Tried
<1> QED
  BY <1>4, <1>5, <1>6, FS_Subset

LEMMA TriedHaveKeys ==
  ASSUME TreeInv, NEW n \in Nodes
  PROVE  Tried(n) \subseteq KeyCells
<1>1. request \in Requests
  BY DEF TreeInv, TypeOK
<1>2. n[1] \in Coordinates /\ n[2] \in Coordinates /\ n[3] \in LayerIds
  BY <1>1, RequestAssumption DEF RequestOK, Nodes
<1>0. KeyHalf \in Nat \ {0}
  BY ReportAssumption
<1>3. ASSUME NEW m \in Moves(n) PROVE m \in KeyCells
  <2>1. PICK d \in Dirs : m = Step(n, d)
    BY MovesAreSteps
  <2>2. d[1] \in -1..1 /\ d[2] \in -1..1
    BY DirectionParts
  <2>3. n[1] + d[1] \in -KeyHalf..(KeyHalf - 1) /\ n[2] + d[2] \in -KeyHalf..(KeyHalf - 1)
    BY <1>0, <1>2, <2>2 DEF Coordinates
  <2> QED
    BY <1>2, <2>1, <2>3 DEF Step, KeyCells
<1>4. ASSUME NEW m \in Vias(n) PROVE m \in KeyCells
  <2>1. PICK l \in LayerIds : m = <<n[1], n[2], l>>
    BY DEF Vias
  <2>2. n[1] \in -KeyHalf..(KeyHalf - 1) /\ n[2] \in -KeyHalf..(KeyHalf - 1)
    BY <1>0, <1>2 DEF Coordinates
  <2> QED
    BY <2>1, <2>2 DEF KeyCells
<1> QED
  BY <1>3, <1>4 DEF Tried
----------------------------------------------------------------------------
(* The rule behind ViaDirections, of the way back from n: its parents and   *)
(* the directions they were entered in.                                    *)
Freely(a) == IF a = None THEN Dirs ELSE {a}
Loosely(a) == IF a = None THEN Dirs ELSE {e \in Dirs : Within45(e, a)}

WayRule(collinear, n, p, gp, ggp, ap, agp, aggp) ==
  IF ~collinear \/ p = None THEN Dirs
  ELSE IF IsVia(p, n) THEN Freely(ap)
  ELSE IF gp = None THEN Dirs
  ELSE IF IsVia(gp, p) THEN Freely(agp)
  ELSE IF ggp # None /\ IsVia(ggp, gp) THEN Loosely(aggp) ELSE Dirs

LEMMA DirectionsByRule ==
  ASSUME NEW n, NEW p, NEW gp, NEW ggp, NEW ap, NEW agp, NEW aggp,
         p = Parent(n), gp = Parent(p), ggp = Parent(gp),
         ap = Approach(p), agp = Approach(gp), aggp = Approach(ggp)
  PROVE  ViaDirections(n) = WayRule(request.collinear, n, p, gp, ggp, ap, agp, aggp)
  BY DEF ViaDirections, WayRule, Freely, Loosely, Dirs

LEMMA DirectionsByRuleNext ==
  ASSUME NEW n, NEW p, NEW gp, NEW ggp, NEW ap, NEW agp, NEW aggp,
         p = Parent(n)', gp = Parent(p)', ggp = Parent(gp)',
         ap = Approach(p)', agp = Approach(gp)', aggp = Approach(ggp)'
  PROVE  ViaDirections(n)' = WayRule(request'.collinear, n, p, gp, ggp, ap, agp, aggp)
  BY DEF ViaDirections, WayRule, Freely, Loosely, Dirs, Parent

(* What was legal for the way to a node stays so while nothing on that way *)
(* changes: the rules look at the parents of a node, up to the fourth.     *)
LEMMA FrozenWay ==
  ASSUME TreeInv, UNCHANGED board, NEW K \in SUBSET Nodes,
         \A k \in K : /\ node'[k] = node[k] /\ pathVias'[k] = pathVias[k]
                      /\ Parent(k) # None => Parent(k) \in K,
         NEW k \in K
  PROVE  /\ Parent(k)' = Parent(k) /\ Approach(k)' = Approach(k)
         /\ Moves(k)' = Moves(k) /\ Vias(k)' = Vias(k) /\ Tried(k)' = Tried(k)
         /\ Reached(k)' = Reached(k)
         /\ \A m : StepCost(k, m)' = StepCost(k, m)
<1>1. request' = request /\ blocked' = blocked /\ viaBlocked' = viaBlocked
  BY DEF board
<1>2. PICK p, gp, ggp : p = node[k].parent /\ gp = node[p].parent /\ ggp = node[gp].parent
  OBVIOUS
<1>3. node'[k] = node[k] /\ pathVias'[k] = pathVias[k] /\ (p # None => p \in K)
  BY <1>2 DEF Parent
<1>4. p # None => node'[p] = node[p] /\ (gp # None => gp \in K)
  BY <1>2, <1>3 DEF Parent
<1>5. p # None /\ gp # None => node'[gp] = node[gp] /\ (ggp # None => ggp \in K)
  BY <1>2, <1>3, <1>4 DEF Parent
<1>6. p # None /\ gp # None /\ ggp # None => node'[ggp] = node[ggp]
  BY <1>4, <1>5, <1>3
<1>7. Parent(k)' = Parent(k) /\ Parent(k) = p
  BY <1>2, <1>3 DEF Parent
<1>8. Approach(k)' = Approach(k)
  BY <1>3 DEF Approach, Parent
<1>9. ViaDirections(k)' = ViaDirections(k)
  <2>1. PICK ap, agp, aggp : ap = Approach(p) /\ agp = Approach(gp) /\ aggp = Approach(ggp)
    OBVIOUS
  <2>2. ViaDirections(k) = WayRule(request.collinear, k, p, gp, ggp, ap, agp, aggp)
    <3>1. p = Parent(k) /\ gp = Parent(p) /\ ggp = Parent(gp)
      BY <1>2 DEF Parent
    <3> QED
      BY <2>1, <3>1, DirectionsByRule
  <2>3. PICK q, gq, ggq : q = Parent(k)' /\ gq = Parent(q)' /\ ggq = Parent(gq)'
    OBVIOUS
  <2>4. PICK aq, agq, aggq : aq = Approach(q)' /\ agq = Approach(gq)' /\ aggq = Approach(ggq)'
    OBVIOUS
  <2>5. ViaDirections(k)' = WayRule(request'.collinear, k, q, gq, ggq, aq, agq, aggq)
    BY <2>3, <2>4, DirectionsByRuleNext
  <2>6. q = p
    BY <1>7, <2>3
  <2>7. p # None => gq = gp /\ aq = ap
    BY <1>2, <1>4, <2>1, <2>3, <2>4, <2>6 DEF Parent, Approach
  <2>8. p # None /\ gp # None => ggq = ggp /\ agq = agp
    <3>1. ASSUME p # None, gp # None PROVE ggq = ggp /\ agq = agp
      <4>1. gq = gp /\ node'[gp] = node[gp]
        BY <1>5, <2>7, <3>1
      <4>2. ggq = Parent(gp)' /\ agq = Approach(gp)'
        BY <2>3, <2>4, <4>1
      <4> QED
        BY <1>2, <2>1, <4>1, <4>2 DEF Parent, Approach
    <3> QED
      BY <3>1
  <2>9. p # None /\ gp # None /\ ggp # None => aggq = aggp
    BY <1>6, <2>1, <2>4, <2>8 DEF Parent, Approach
  <2> QED
    BY <1>1, <2>2, <2>5, <2>6, <2>7, <2>8, <2>9 DEF WayRule
<1>10. Moves(k)' = Moves(k)
  BY <1>1, <1>3, <1>9 DEF Moves, Forbidden
<1>11. RunsStraight(k)' = RunsStraight(k)
  <2>1. CASE p = None
    BY <1>2, <1>3, <2>1 DEF RunsStraight, Parent
  <2>2. CASE p # None /\ gp = None
    BY <1>2, <1>3, <1>4, <2>2 DEF RunsStraight, Parent
  <2>3. CASE p # None /\ gp # None
    BY <1>2, <1>3, <1>4, <1>5, <2>3 DEF RunsStraight, Parent, Approach
  <2> QED
    BY <2>1, <2>2, <2>3
<1>12. Vias(k)' = Vias(k)
  BY <1>1, <1>3, <1>11 DEF Vias, ViaLegal, Forbidden
<1>13. \A m : Excluded(k, m)' = Excluded(k, m) /\ Blocked(m)' = Blocked(m)
  BY <1>1, <1>3 DEF Excluded, Blocked, Nodes
<1>14. Tried(k)' = Tried(k) /\ Reached(k)' = Reached(k)
  BY <1>10, <1>12, <1>13 DEF Tried, Reached
<1>15. \A m : StepCost(k, m)' = StepCost(k, m)
  BY <1>1, <1>8 DEF StepCost, ViaStep, MoveCost, Turn, Multiplier, Forbidden
<1> QED
  BY <1>7, <1>8, <1>10, <1>12, <1>14, <1>15
----------------------------------------------------------------------------
(* The budget.                                                             *)
LEMMA QuotientOf ==
  ASSUME NEW q \in Nat \ {0}, NEW a \in Nat
  PROVE  a \div q \in Nat /\ q * (a \div q) <= a /\ a < q * (a \div q) + q
  OBVIOUS

LEMMA QuotientGrows ==
  ASSUME NEW q \in Nat \ {0}, NEW a \in Nat, NEW b \in Nat, a <= b
  PROVE  a \div q <= b \div q
<1>1. PICK x, y : x = a \div q /\ y = b \div q
  OBVIOUS
<1>2. x \in Nat /\ y \in Nat /\ q * x <= a /\ b < q * y + q
  BY <1>1, QuotientOf
<1>3. ASSUME x > y PROVE FALSE
  <2>1. PICK z \in Nat : x = y + 1 + z
    <3>1. x - y - 1 \in Nat /\ x = y + 1 + (x - y - 1)
      BY <1>2, <1>3
    <3> QED
      BY <3>1
  <2>2. q * x = q * y + q + q * z /\ q * z \in Nat /\ q * y \in Nat
    BY <1>2, <2>1
  <2> QED
    BY <1>2, <2>2
<1> QED
  BY <1>1, <1>2, <1>3

LEMMA QuotientOfMore ==
  ASSUME NEW q \in Nat \ {0}, NEW a \in Nat, NEW b \in Nat, a + q <= b
  PROVE  (a \div q) + 1 <= b \div q
<1>1. (a + q) \div q = (a \div q) + 1
  OBVIOUS
<1>2. (a + q) \div q <= b \div q
  BY QuotientGrows
<1> QED
  BY <1>1, <1>2
LEMMA ExtensionIsEarned ==
  ASSUME request \in Requests, NEW b, BudgetOK(b)
  PROVE  BudgetOK(Extended(b))
<1>1. /\ b \in Budgets /\ Grace \in Nat /\ Quantum \in Nat \ {0} /\ QuantumPct \in Nat
      /\ request.tranche \in Nat /\ request.ceiling \in Nat
  BY RequestFacts, BudgetAssumption DEF BudgetOK
<1>2. PICK c, plateau :
        c = Lesser(b.cap + request.tranche, request.ceiling)
        /\ plateau = (b.ref - b.best < QuantumOf(b))
  OBVIOUS
<1>3. QuantumOf(b) \in Int /\ QuantumOf(b) >= Quantum
  <2>1. b.ref \in Int
    BY <1>1 DEF Budgets
  <2>2. b.ref * QuantumPct \in Int
    BY <1>1, <2>1
  <2>3. (b.ref * QuantumPct) \div 100 \in Int
    BY <2>2
  <2> QED
    BY <1>1, <2>3 DEF QuantumOf, Greater
<1>4. CASE b.cap >= request.ceiling \/ b.ref = NoRef \/ (plateau /\ b.grace >= Grace)
  BY <1>2, <1>4 DEF Extended
<1>5. CASE ~(b.cap >= request.ceiling \/ b.ref = NoRef \/ (plateau /\ b.grace >= Grace))
  <2>0. b.snapped /\ b.cap \in Nat /\ b.cap < request.ceiling
    BY <1>1, <1>5 DEF BudgetOK, Budgets
  <2>1. c \in Nat /\ c <= Greater(request.tranche, request.ceiling)
    BY <1>1, <1>2, <2>0 DEF Lesser, Greater
  <2>2. Extended(b) = [b EXCEPT !.cap = c, !.granted = b.granted + 1,
                                !.grace = IF plateau THEN b.grace + 1 ELSE 0,
                                !.ref = IF plateau THEN b.ref ELSE b.best]
    BY <1>2, <1>5 DEF Extended
  <2>3. PICK x : x = (b.initial - b.ref) \div Quantum
    OBVIOUS
  <2>4. /\ b.initial \in Int /\ b.ref \in Int /\ b.best \in Int /\ b.grace \in 0..Grace
        /\ b.granted \in Nat /\ b.best <= b.ref /\ b.ref <= b.initial /\ b.best <= b.initial
        /\ b.granted <= b.grace + (Grace + 1) * x
    BY <1>1, <2>0, <2>3 DEF BudgetOK, Budgets
  <2>5. x \in Nat
    BY <1>1, <2>3, <2>4, QuotientOf, b.initial - b.ref \in Nat
  <2>6. CASE plateau
    <3>1. Extended(b) = [b EXCEPT !.cap = c, !.granted = b.granted + 1, !.grace = b.grace + 1,
                                  !.ref = b.ref]
      BY <2>2, <2>6
    <3>2. b.grace + 1 \in 0..Grace
      BY <1>1, <1>5, <2>4, <2>6
    <3>3. PICK e : e = Extended(b)
      OBVIOUS
    <3>4. /\ e \in Budgets /\ e.cap = c /\ e.granted = b.granted + 1 /\ e.grace = b.grace + 1
          /\ e.ref = b.ref /\ e.best = b.best /\ e.initial = b.initial /\ e.snapped
      <4>1. e = [cap |-> c, ref |-> b.ref, grace |-> b.grace + 1, granted |-> b.granted + 1,
                 best |-> b.best, initial |-> b.initial, snapped |-> b.snapped]
        BY <1>1, <3>1, <3>3 DEF Budgets
      <4>2. b.granted + 1 \in Nat /\ b.snapped \in BOOLEAN
        BY <1>1, <2>4 DEF Budgets
      <4> QED
        BY <2>0, <2>1, <2>4, <3>2, <4>1, <4>2 DEF Budgets
    <3>5. (Grace + 1) * x \in Nat
      BY <1>1, <2>5, Products
    <3>6. e.granted <= e.grace + (Grace + 1) * x
      BY <2>4, <3>4, <3>5
    <3> QED
      BY <2>1, <2>3, <2>4, <3>3, <3>4, <3>6 DEF BudgetOK
  <2>7. CASE ~plateau
    <3>1. Extended(b) = [b EXCEPT !.cap = c, !.granted = b.granted + 1, !.grace = 0, !.ref = b.best]
      BY <2>2, <2>7
    <3>2. b.ref - b.best >= Quantum
      <4>1. ~(b.ref - b.best < QuantumOf(b))
        BY <1>2, <2>7
      <4> QED
        BY <1>1, <1>3, <2>4, <4>1
    <3>3. PICK y : y = (b.initial - b.best) \div Quantum
      OBVIOUS
    <3>4. y \in Nat /\ x + 1 <= y
      <4>1. PICK m, k : m = b.initial - b.ref /\ k = b.initial - b.best
        OBVIOUS
      <4>2. m \in Nat /\ k \in Nat /\ m + Quantum <= k
        BY <1>1, <2>4, <3>2, <4>1
      <4>3. (m \div Quantum) + 1 <= k \div Quantum /\ k \div Quantum \in Nat
        BY <1>1, <4>2, QuotientOfMore, QuotientOf
      <4> QED
        BY <2>3, <3>3, <4>1, <4>3
    <3>5. PICK e : e = Extended(b)
      OBVIOUS
    <3>6. /\ e \in Budgets /\ e.cap = c /\ e.granted = b.granted + 1 /\ e.grace = 0
          /\ e.ref = b.best /\ e.best = b.best /\ e.initial = b.initial /\ e.snapped
      <4>1. e = [cap |-> c, ref |-> b.best, grace |-> 0, granted |-> b.granted + 1,
                 best |-> b.best, initial |-> b.initial, snapped |-> b.snapped]
        BY <1>1, <3>1, <3>5 DEF Budgets
      <4>2. b.granted + 1 \in Nat /\ b.snapped \in BOOLEAN /\ 0 \in 0..Grace
        BY <1>1, <2>4 DEF Budgets
      <4> QED
        BY <2>0, <2>1, <2>4, <4>1, <4>2 DEF Budgets
    <3>7. b.granted + 1 <= (Grace + 1) * y
      <4>1. b.granted + 1 <= (Grace + 1) * x + (Grace + 1)
        <5>1. (Grace + 1) * x \in Nat
          BY <1>1, <2>5, Products
        <5> QED
          BY <1>1, <2>4, <5>1
      <4>2. PICK z \in Nat : y = x + 1 + z
        <5>1. y - x - 1 \in Nat /\ y = x + 1 + (y - x - 1)
          BY <2>5, <3>4
        <5> QED
          BY <5>1
      <4>3. (Grace + 1) * y = (Grace + 1) * x + (Grace + 1) + (Grace + 1) * z
        BY <1>1, <2>5, <4>2
      <4>4. (Grace + 1) * z \in Nat /\ (Grace + 1) * x \in Nat
        BY <1>1, <2>5, <4>2, Products
      <4> QED
        BY <1>1, <2>4, <4>1, <4>3, <4>4
    <3>8. e.granted <= e.grace + (Grace + 1) * ((e.initial - e.ref) \div Quantum)
      <4>1. (Grace + 1) * y \in Nat
        BY <1>1, <3>4, Products
      <4> QED
        BY <3>3, <3>6, <3>7, <4>1
    <3> QED
      BY <2>1, <2>4, <3>5, <3>6, <3>8 DEF BudgetOK
  <2> QED
    BY <1>2, <2>6, <2>7
<1> QED
  BY <1>4, <1>5

LEMMA SnapshotIsSound ==
  ASSUME request \in Requests, NEW b, BudgetOK(b), NEW i
  PROVE  BudgetOK(Snapped(b, i)) /\ Snapped(b, i).cap = b.cap
<1>1. CASE ~(~b.snapped /\ i >= request.tranche \div 2)
  BY <1>1 DEF Snapped
<1>2. CASE ~b.snapped /\ i >= request.tranche \div 2
  <2>1. PICK e : e = [b EXCEPT !.ref = b.best, !.snapped = TRUE]
    OBVIOUS
  <2>2. Snapped(b, i) = e
    BY <1>2, <2>1 DEF Snapped
  <2>3. b \in Budgets /\ b.granted = 0 /\ b.grace = 0 /\ b.best <= b.initial
        /\ b.cap <= Greater(request.tranche, request.ceiling)
    BY <1>2 DEF BudgetOK
  <2>4. /\ e \in Budgets /\ e.cap = b.cap /\ e.granted = 0 /\ e.grace = 0 /\ e.ref = b.best
        /\ e.best = b.best /\ e.initial = b.initial /\ e.snapped
        /\ b.best \in Int /\ b.initial \in Int
    BY <2>1, <2>3 DEF Budgets
  <2>5. (e.initial - e.ref) \div Quantum \in Nat
    BY <2>3, <2>4, BudgetAssumption, QuotientOf, e.initial - e.ref \in Nat
  <2>6. (Grace + 1) * ((e.initial - e.ref) \div Quantum) \in Nat
    BY <2>5, BudgetAssumption, Products
  <2> QED
    BY <2>2, <2>3, <2>4, <2>6 DEF BudgetOK
<1> QED
  BY <1>1, <1>2

LEMMA ApproachIsSound ==
  ASSUME NEW b, BudgetOK(b), NEW h \in Int
  PROVE  BudgetOK([b EXCEPT !.best = Lesser(@, h)]) /\ [b EXCEPT !.best = Lesser(@, h)].cap = b.cap
<1>1. PICK e, l : l = Lesser(b.best, h) /\ e = [b EXCEPT !.best = l]
  OBVIOUS
<1>2. b \in Budgets
  BY DEF BudgetOK
<1>3. l \in Int /\ l <= b.best /\ b.best \in Int /\ b.initial \in Int /\ b.ref \in Int
  BY <1>1, <1>2 DEF Lesser, Budgets
<1>4. /\ e \in Budgets /\ e.cap = b.cap /\ e.granted = b.granted /\ e.grace = b.grace
      /\ e.ref = b.ref /\ e.best = l /\ e.initial = b.initial /\ e.snapped = b.snapped
  BY <1>1, <1>2, <1>3 DEF Budgets
<1>5. BudgetOK(e)
  <2>1. e.best <= e.initial /\ (b.best <= b.ref => e.best <= e.ref)
    BY <1>3, <1>4 DEF BudgetOK
  <2> QED
    BY <1>4, <2>1 DEF BudgetOK
<1> QED
  BY <1>1, <1>4, <1>5

LEMMA PopKeepsBudget ==
  ASSUME TreeInv, BudgetInv, NEW e, NEW live \in BOOLEAN, Pop(e, live), UNCHANGED request,
         e \in [f : Int, g : Int, at : Nodes, order : Int]
  PROVE  BudgetInv' /\ iterations' \in 0..budget'.cap
<1>1. request \in Requests /\ iterations \in 0..budget.cap /\ request' = request
  BY StoreTypes DEF TreeInv, TypeOK
<1>2. PICK b : b = Budgeted
  OBVIOUS
<1>3. BudgetOK(b)
  BY <1>1, <1>2, ExtensionIsEarned DEF BudgetInv, Budgeted
<1>4. PICK c : c = Snapped(b, iterations')
  OBVIOUS
<1>5. BudgetOK(c) /\ c.cap = b.cap
  BY <1>1, <1>3, <1>4, SnapshotIsSound
<1>6. iterations < b.cap /\ iterations' = iterations + 1
      /\ budget' = (IF live THEN [c EXCEPT !.best = Lesser(@, e.f - e.g)] ELSE c)
  BY <1>2, <1>4 DEF Pop, MayPop
<1>7. e.f - e.g \in Int
  OBVIOUS
<1>8. BudgetOK(budget') /\ budget'.cap = b.cap
  BY <1>5, <1>6, <1>7, ApproachIsSound
<1>9. BudgetInv'
  BY <1>1, <1>8 DEF BudgetInv, BudgetOK
<1>10. b.cap \in Nat /\ iterations \in Nat
  BY <1>1, <1>3 DEF BudgetOK, Budgets, BudgetInv
<1> QED
  BY <1>6, <1>8, <1>9, <1>10
----------------------------------------------------------------------------
LEMMA GridInit ==
  ASSUME Init
  PROVE  GridInv
<1>1. /\ request \in Requests /\ blocked \in request.obstacles /\ closed = {} /\ frontier = {}
      /\ node = [n \in Nodes |-> IF n \in Sources
                                 THEN [g |-> SourceG(n), parent |-> None, steps |-> 0]
                                 ELSE Unvisited]
      /\ pathVias = [n \in Nodes |-> {}] /\ counter = Cardinality(Sources) /\ iterations = 0
      /\ outcome = "searching"
  BY DEF Init
<1>2. PICK order \in [Sources -> 0..(Cardinality(Sources) - 1)] :
        open = {Entry(s, SourceG(s), order[s]) : s \in Sources}
  BY DEF Init
<1>3. /\ Sources \subseteq Nodes /\ Sources # {} /\ None \notin Nodes /\ IsFiniteSet(Sources)
      /\ blocked \subseteq Nodes /\ request.tranche \in Nat /\ request.ceiling \in Nat
      /\ \A n \in Nodes : SourceG(n) \in Int
  <2>1. RequestOK(request)
    BY <1>1, RequestAssumption
  <2>2. blocked \subseteq Nodes
    BY <1>1, <2>1 DEF RequestOK, Nodes, Sources, Targets
  <2> QED
    BY <1>1, <2>2, RequestFacts, LayerCosts
<1>4. counter \in Nat
  BY <1>1, <1>3, FS_CardinalityType
<1>5. \A n \in Nodes : /\ node[n].parent = None /\ node[n].steps = 0
                       /\ node[n].g = IF n \in Sources THEN SourceG(n) ELSE None
                       /\ node[n] \in [g : Int \cup {None}, parent : Nodes \cup {None}, steps : Nat]
  BY <1>1, <1>3 DEF Unvisited
<1>6. \A n \in Nodes : Visited(n) <=> n \in Sources
  BY <1>3, <1>5, NoneAssumption DEF Visited
<1>7. \A e \in open : \E s \in Sources :
        /\ e \in [f : Int, g : Int, at : Nodes, order : Int] /\ e.f = e.g + Heuristic(e.at)
        /\ e.at = s /\ e.g = SourceG(s) /\ e.order = order[s]
  <2> TAKE e \in open
  <2>1. PICK s \in Sources : e = Entry(s, SourceG(s), order[s])
    BY <1>2
  <2>2. order[s] \in Int /\ s \in Nodes /\ SourceG(s) \in Int
    BY <1>1, <1>3, <1>4
  <2> QED
    BY <1>1, <2>1, <2>2, EntryShape
<1>8. TypeOK
  <2>1. \A e \in open : /\ e.at \in Nodes /\ Visited(e.at)
                        /\ node[e.at].g <= e.g /\ e.order \in 0..(counter - 1)
    <3> TAKE e \in open
    <3>1. PICK s \in Sources : e.at = s /\ e.g = SourceG(s) /\ e.order = order[s]
      BY <1>7
    <3> QED
      BY <1>1, <1>3, <1>5, <1>6, <3>1
  <2>2. /\ node \in [Nodes -> [g : Int \cup {None}, parent : Nodes \cup {None}, steps : Nat]]
        /\ pathVias \in [Nodes -> SUBSET (Int \X Int)]
    BY <1>1, <1>5
  <2>3. iterations \in 0..budget.cap
    BY <1>1, <1>3 DEF Init
  <2> QED
    BY <1>1, <1>3, <2>1, <2>2, <2>3 DEF TypeOK
<1>9. TreeInv
  <2>1. \A n \in Nodes : Parent(n) = None /\ Approach(n) = None
    BY <1>5 DEF Parent, Approach
  <2> QED
    BY <1>4, <1>7, <1>8, <2>1 DEF TreeInv, EntriesPriced, TreeIsLegal, HeadingsKnown
<1>10. AwaitedAreOpen
  <2> SUFFICES ASSUME NEW n \in Nodes, Visited(n) PROVE \E e \in open : e.at = n /\ e.g = node[n].g
    BY DEF AwaitedAreOpen, Awaited
  <2>1. n \in Sources /\ node[n].g = SourceG(n)
    BY <1>5, <1>6
  <2>2. Entry(n, SourceG(n), order[n]) \in open
    BY <1>2, <2>1
  <2>3. Entry(n, SourceG(n), order[n]).at = n /\ Entry(n, SourceG(n), order[n]).g = SourceG(n)
    BY DEF Entry
  <2> QED
    BY <2>1, <2>2, <2>3
<1>11. EndsKept
  BY <1>1, <1>3, <1>6, FS_EmptySet DEF EndsKept
<1>12. Explored
  BY <1>1 DEF Explored
<1>13. BudgetInv
  <2>1. PICK S : S = {Heuristic(s) : s \in Sources}
    OBVIOUS
  <2>2. S \in SUBSET Nat /\ S # {}
    BY <1>1, <1>3, <2>1, HeuristicIsNat
  <2>3. Least(S) \in Nat
    BY <2>2, HasLeast
  <2>4. budget = [cap |-> request.tranche, ref |-> NoRef, grace |-> 0, granted |-> 0,
                  best |-> Least(S), initial |-> Least(S), snapped |-> FALSE]
    BY <2>1 DEF Init
  <2>5. budget \in Budgets
    BY <1>3, <2>3, <2>4, BudgetAssumption DEF Budgets
  <2> QED
    BY <1>3, <2>3, <2>4, <2>5 DEF BudgetInv, BudgetOK, Greater
<1> QED
  BY <1>9, <1>10, <1>11, <1>12, <1>13 DEF GridInv

(* A popped entry for a node that is not closed has the cost the store has *)
(* for it, unless the node is a target that was turned away before.        *)
LEMMA TopIsCurrent ==
  ASSUME TreeInv, AwaitedAreOpen, outcome = "searching",
         NEW e, IsTop(e), e.at \notin closed \cup Targets
  PROVE  e.g = node[e.at].g /\ node[e.at].g \in Int
<1>1. e \in open /\ e \in [f : Int, g : Int, at : Nodes, order : Int] /\ e.f = e.g + Heuristic(e.at)
  BY DEF IsTop, TreeInv, EntriesPriced
<1>2. e.at \in Nodes /\ Visited(e.at) /\ node[e.at].g <= e.g
  BY <1>1 DEF TreeInv, TypeOK
<1>3. PICK c \in open : c.at = e.at /\ c.g = node[e.at].g
  BY <1>2 DEF AwaitedAreOpen, Awaited
<1>4. c \in [f : Int, g : Int, at : Nodes, order : Int] /\ c.f = c.g + Heuristic(e.at)
  BY <1>3 DEF TreeInv, EntriesPriced
<1>5. e.f <= c.f
  BY <1>1, <1>3, <1>4 DEF IsTop
<1>6. Heuristic(e.at) \in Nat
  BY <1>1, StoreTypes, HeuristicIsNat
<1> QED
  BY <1>1, <1>2, <1>3, <1>4, <1>5, <1>6
----------------------------------------------------------------------------
(* The steps.                                                              *)
LEMMA SameRequest ==
  ASSUME request' = request
  PROVE  /\ Nodes' = Nodes /\ Sources' = Sources /\ Targets' = Targets
         /\ \A n : Heuristic(n)' = Heuristic(n)
  BY DEF Nodes, Sources, Targets, Heuristic, ToBox, ToTarget, Octile, MinLayerCost, Forbidden

(* A step that leaves the node store as it is.                             *)
LEMMA QuietStep ==
  ASSUME GridInv, UNCHANGED <<board, node, closed, pathVias, counter, frontier>>,
         open' \subseteq open, BudgetInv', iterations' \in 0..budget'.cap,
         outcome' \in {"searching", "found", "capped", "exhausted"},
         AwaitedAreOpen', outcome' = "exhausted" => open' = {}
  PROVE  GridInv'
<1>1. /\ request' = request /\ blocked' = blocked /\ viaBlocked' = viaBlocked /\ node' = node
      /\ closed' = closed /\ pathVias' = pathVias /\ counter' = counter /\ frontier' = frontier
  BY DEF board
<1>2. /\ Nodes' = Nodes /\ Sources' = Sources /\ Targets' = Targets
      /\ \A n : Heuristic(n)' = Heuristic(n)
  BY <1>1, SameRequest
<1>3. \A n : /\ Parent(n)' = Parent(n) /\ Visited(n)' = Visited(n) /\ Approach(n)' = Approach(n)
  BY <1>1 DEF Parent, Visited, Approach
<1>4. TypeOK'
  BY <1>1, <1>2, <1>3 DEF GridInv, TreeInv, TypeOK, Visited
<1>5. EntriesPriced'
  <2>1. \A e \in open' : /\ e \in [f : Int, g : Int, at : Nodes, order : Int]
                         /\ e.f = e.g + Heuristic(e.at)
    BY DEF GridInv, TreeInv, EntriesPriced
  <2>2. \A e : Heuristic(e.at)' = Heuristic(e.at)
    BY <1>2
  <2> QED
    BY <1>2, <2>1, <2>2 DEF EntriesPriced
<1>6. TreeIsLegal'
  <2>1. \A n \in Nodes : Parent(n) \in Nodes \cup {None}
    BY StoreTypes DEF GridInv
  <2>2. ASSUME NEW k \in Nodes
        PROVE  Reached(k)' = Reached(k) /\ \A m : StepCost(k, m)' = StepCost(k, m)
    <3>1. \A j \in Nodes : /\ node'[j] = node[j] /\ pathVias'[j] = pathVias[j]
                           /\ Parent(j) # None => Parent(j) \in Nodes
      BY <1>1, <2>1
    <3>2. TreeInv /\ UNCHANGED board /\ Nodes \in SUBSET Nodes
      BY <1>1 DEF GridInv
    <3> QED
      BY <3>1, <3>2, FrozenWay
  <2>3. TreeIsLegal
    BY DEF GridInv, TreeInv
  <2>4. ASSUME NEW n \in Nodes, Parent(n)' # None
        PROVE  /\ Parent(n) \in closed /\ n \in Reached(Parent(n))'
               /\ node[n].g = node[Parent(n)].g + StepCost(Parent(n), n)'
               /\ pathVias[n] = pathVias[Parent(n)] \cup
                    (IF request.radius > 0 /\ IsVia(Parent(n), n) THEN {Cell(n)} \ request.freeVias ELSE {})
    <3>1. PICK p : p = Parent(n)
      OBVIOUS
    <3>2. p \in Nodes /\ p # None /\ Parent(n)' = p
      BY <1>3, <2>1, <2>4, <3>1
    <3>3. /\ p \in closed /\ n \in Reached(p) /\ node[n].g = node[p].g + StepCost(p, n)
          /\ pathVias[n] = pathVias[p] \cup
               (IF request.radius > 0 /\ IsVia(p, n) THEN {Cell(n)} \ request.freeVias ELSE {})
      BY <2>3, <3>1, <3>2 DEF TreeIsLegal
    <3>4. Reached(p)' = Reached(p) /\ StepCost(p, n)' = StepCost(p, n)
      BY <2>2, <3>2
    <3>5. Reached(Parent(n))' = Reached(p)' /\ StepCost(Parent(n), n)' = StepCost(p, n)'
      BY <3>2
    <3> QED
      BY <3>1, <3>3, <3>4, <3>5
  <2> QED
    BY <1>1, <1>2, <1>3, <2>4 DEF TreeIsLegal
<1>7. HeadingsKnown' /\ Explored' /\ EndsKept'
  BY <1>1, <1>2, <1>3 DEF GridInv, TreeInv, HeadingsKnown, Explored, EndsKept, LegalStep,
    Unconstrained, Forbidden
<1> QED
  BY <1>1, <1>4, <1>5, <1>6, <1>7 DEF GridInv, TreeInv
LEMMA ExhaustedKeepsGrid ==
  ASSUME GridInv, outcome = "searching", Exhausted
  PROVE  GridInv'
<1>1. /\ open = {} /\ outcome' = "exhausted" /\ open' = open /\ iterations' = iterations
      /\ budget' = budget /\ UNCHANGED <<board, node, closed, pathVias, counter, frontier>>
  BY DEF Exhausted
<1>2. request' = request
  BY <1>1 DEF board
<1>3. BudgetInv' /\ iterations' \in 0..budget'.cap
  BY <1>1, <1>2 DEF GridInv, BudgetInv, BudgetOK, TreeInv, TypeOK
<1>4. AwaitedAreOpen'
  BY <1>1, <1>2 DEF GridInv, AwaitedAreOpen, Awaited, Visited, Nodes, Targets
<1> QED
  BY <1>1, <1>3, <1>4, QuietStep

LEMMA CappedKeepsGrid ==
  ASSUME GridInv, outcome = "searching", Capped
  PROVE  GridInv'
<1>1. /\ outcome' = "capped" /\ open' \subseteq open /\ iterations' = iterations
      /\ budget' = budget /\ UNCHANGED <<board, node, closed, pathVias, counter, frontier>>
  BY DEF Capped
<1>2. request' = request
  BY <1>1 DEF board
<1>3. BudgetInv' /\ iterations' \in 0..budget'.cap
  BY <1>1, <1>2 DEF GridInv, BudgetInv, BudgetOK, TreeInv, TypeOK
<1>4. AwaitedAreOpen'
  BY <1>1 DEF AwaitedAreOpen
<1> QED
  BY <1>1, <1>3, <1>4, QuietStep

(* An entry that is dropped is awaited by nobody.                          *)
LEMMA DroppedEntry ==
  ASSUME GridInv, outcome = "searching", NEW e \in open, ~Awaited(e.at), open' = open \ {e},
         UNCHANGED <<board, node, closed>>
  PROVE  AwaitedAreOpen'
<1>1. request' = request /\ node' = node /\ closed' = closed
  BY DEF board
<1>2. Nodes' = Nodes /\ \A n : Awaited(n)' = Awaited(n)
  BY <1>1 DEF Awaited, Visited, Nodes, Targets
<1>3. ASSUME NEW n \in Nodes, Awaited(n) PROVE \E o \in open' : o.at = n /\ o.g = node[n].g
  <2>1. PICK o \in open : o.at = n /\ o.g = node[n].g
    BY <1>3 DEF GridInv, AwaitedAreOpen
  <2>2. o # e
    BY <1>3, <2>1
  <2> QED
    BY <2>1, <2>2
<1> QED
  BY <1>1, <1>2, <1>3 DEF AwaitedAreOpen

LEMMA DuplicateSkipKeepsGrid ==
  ASSUME GridInv, outcome = "searching", DuplicateSkip
  PROVE  GridInv'
<1>1. PICK e \in open : e.at \in closed /\ Pop(e, FALSE) /\ open' = open \ {e}
  BY DEF DuplicateSkip
<1>2. outcome' = outcome /\ UNCHANGED <<board, node, closed, pathVias, counter, frontier>>
  BY DEF DuplicateSkip
<1>3. request' = request
  BY <1>2 DEF board
<1>4. BudgetInv' /\ iterations' \in 0..budget'.cap
  BY <1>1, <1>3, PopKeepsBudget DEF GridInv, TreeInv, EntriesPriced
<1>5. AwaitedAreOpen'
  <2>1. ~Awaited(e.at)
    BY <1>1 DEF Awaited
  <2> QED
    BY <1>1, <1>2, <2>1, DroppedEntry
<1> QED
  BY <1>1, <1>2, <1>4, <1>5, QuietStep

LEMMA ArriveKeepsGrid ==
  ASSUME GridInv, outcome = "searching", Arrive
  PROVE  GridInv'
<1>1. PICK e \in open : /\ e.at \in Targets \ closed /\ Pop(e, TRUE) /\ open' = open \ {e}
                        /\ IF ArrivalOK(e.at) THEN outcome' = "found" /\ goal' = e.at
                           ELSE UNCHANGED <<outcome, goal>>
  BY DEF Arrive
<1>2. UNCHANGED <<board, node, closed, pathVias, counter, frontier>>
  BY DEF Arrive
<1>3. request' = request
  BY <1>2 DEF board
<1>4. BudgetInv' /\ iterations' \in 0..budget'.cap
  BY <1>1, <1>3, PopKeepsBudget DEF GridInv, TreeInv, EntriesPriced
<1>5. outcome' \in {"searching", "found"}
  BY <1>1
<1>6. AwaitedAreOpen'
  <2>1. CASE outcome' = "found"
    BY <2>1 DEF AwaitedAreOpen
  <2>2. CASE outcome' # "found"
    <3>1. request.endDir # None
      BY <1>1, <2>2 DEF ArrivalOK
    <3>2. ~Awaited(e.at)
      BY <1>1, <3>1 DEF Awaited
    <3> QED
      BY <1>1, <1>2, <3>2, DroppedEntry
  <2> QED
    BY <2>1, <2>2
<1> QED
  BY <1>1, <1>2, <1>4, <1>5, <1>6, QuietStep
(* An expansion of n, for the entry e.                                     *)
Expansion(e, n, better) ==
  /\ e \in open /\ n = e.at /\ n \in Nodes /\ n \notin closed /\ n \notin Targets
  /\ e.g = node[n].g /\ node[n].g \in Int
  /\ better = Improved(n, e.g)
  /\ ExpandNode(e, better)
  /\ UNCHANGED <<board, outcome>>

LEMMA ExpansionStores ==
  ASSUME TreeInv, NEW e, NEW n, NEW better, Expansion(e, n, better)
  PROVE  /\ request' = request /\ blocked' = blocked /\ viaBlocked' = viaBlocked
         /\ Nodes' = Nodes /\ n \in Nodes /\ n \notin closed /\ closed' = closed \cup {n}
         /\ better \subseteq Reached(n) /\ better \subseteq Nodes /\ IsFiniteSet(better)
         /\ \A m \in better : m \notin closed /\ m # n
         /\ \A m \in Nodes \ better : node'[m] = node[m] /\ pathVias'[m] = pathVias[m]
         /\ \A m \in better :
              /\ StepCost(n, m) \in Int /\ node'[m].g = node[n].g + StepCost(n, m)
              /\ node'[m].parent = n /\ node'[m].steps \in Nat
              /\ node'[m] \in [g : Int, parent : Nodes, steps : Nat]
              /\ pathVias'[m] = ViasOnWay(n, m)
              /\ Visited(m) => node'[m].g < node[m].g
         /\ \A k \in Nodes : Visited(k) => Visited(k)'
         /\ \A m \in better : Visited(m)'
<1>1. request' = request /\ blocked' = blocked /\ viaBlocked' = viaBlocked /\ Nodes' = Nodes
  BY DEF Expansion, board, Nodes
<1>2. /\ n \in Nodes /\ n \notin closed /\ e.g = node[n].g /\ node[n].g \in Int
      /\ better = Improved(n, e.g) /\ closed' = closed \cup {n}
      /\ node' = [m \in Nodes |-> IF m \in better THEN Relaxed(n, e.g, m) ELSE node[m]]
      /\ pathVias' = [m \in Nodes |-> IF m \in better THEN ViasOnWay(n, m) ELSE pathVias[m]]
  BY DEF Expansion, ExpandNode
<1>3. /\ better \subseteq Reached(n)
      /\ \A m \in better : m \notin closed /\ m # n /\ Better(n, e.g, m)
  BY <1>2 DEF Improved
<1>4. better \subseteq Nodes
  BY <1>2, <1>3, ReachedParts
<1>5. IsFiniteSet(better)
  <2>1. IsFiniteSet(Reached(n))
    BY <1>2, FewAreTried
  <2> QED
    BY <1>3, <2>1, FS_Subset
<1>6. \A m \in Nodes \ better : node'[m] = node[m] /\ pathVias'[m] = pathVias[m]
  BY <1>2
<1>7. ASSUME NEW m \in better
      PROVE  /\ StepCost(n, m) \in Int /\ node'[m].g = node[n].g + StepCost(n, m)
             /\ node'[m].parent = n /\ node'[m].steps \in Nat
             /\ node'[m] \in [g : Int, parent : Nodes, steps : Nat]
             /\ pathVias'[m] = ViasOnWay(n, m)
             /\ Visited(m) => node'[m].g < node[m].g
  <2>1. StepCost(n, m) \in Int
    BY <1>2, <1>3, StepCostIsInt
  <2>2. m \in Nodes
    BY <1>4
  <2>3. node'[m] = Relaxed(n, e.g, m) /\ pathVias'[m] = ViasOnWay(n, m)
    BY <1>2, <2>2
  <2>4. node[n].steps \in Nat
    BY <1>2, StoreTypes
  <2>5. /\ node'[m].g = e.g + StepCost(n, m) /\ node'[m].parent = n /\ node'[m].steps \in Nat
        /\ node'[m] \in [g : Int, parent : Nodes, steps : Nat]
    BY <1>2, <2>1, <2>3, <2>4 DEF Relaxed
  <2>6. Visited(m) => e.g + StepCost(n, m) < node[m].g
    BY <1>3 DEF Better
  <2> QED
    BY <1>2, <2>1, <2>3, <2>5, <2>6
<1>8. \A m \in better : Visited(m)'
  BY <1>2, <1>7, NoneAssumption DEF Visited
<1>9. \A k \in Nodes : Visited(k) => Visited(k)'
  BY <1>6, <1>8 DEF Visited
<1> QED
  BY <1>1, <1>2, <1>3, <1>4, <1>5, <1>6, <1>7, <1>8, <1>9

(* The way to the nodes that were expanded, n among them, is as it was.    *)
LEMMA ExpansionFreezes ==
  ASSUME TreeInv, NEW e, NEW n, NEW better, Expansion(e, n, better), NEW k \in closed \cup {n}
  PROVE  /\ k \in Nodes /\ node'[k] = node[k] /\ pathVias'[k] = pathVias[k]
         /\ Parent(k)' = Parent(k) /\ Approach(k)' = Approach(k)
         /\ Tried(k)' = Tried(k) /\ Reached(k)' = Reached(k)
         /\ Moves(k)' = Moves(k) /\ Vias(k)' = Vias(k)
         /\ \A m : StepCost(k, m)' = StepCost(k, m)
<1>1. PICK K : K = closed \cup {n}
  OBVIOUS
<1>2. K \in SUBSET Nodes /\ k \in K
  BY <1>1, StoreTypes, ExpansionStores
<1>3. UNCHANGED board
  BY DEF Expansion
<1>4. \A j \in K : node'[j] = node[j] /\ pathVias'[j] = pathVias[j]
  <2>1. \A j \in K : j \in Nodes \ better
    BY <1>1, <1>2, ExpansionStores
  <2> QED
    BY <2>1, ExpansionStores
<1>5. \A j \in K : Parent(j) # None => Parent(j) \in K
  BY <1>1, <1>2 DEF TreeInv, TreeIsLegal
<1> QED
  BY <1>2, <1>3, <1>4, <1>5, FrozenWay
(* The entries an expansion pushes, and the ones that stay.                *)
LEMMA ExpansionPushes ==
  ASSUME TreeInv, NEW e, NEW n, NEW better, Expansion(e, n, better)
  PROVE  /\ counter' \in Nat
         /\ \A o \in open' : /\ o \in [f : Int, g : Int, at : Nodes, order : Int]
                             /\ o.f = o.g + Heuristic(o.at)
                             /\ Visited(o.at)' /\ node'[o.at].g <= o.g
                             /\ o.order \in 0..(counter' - 1)
         /\ \A m \in better : \E o \in open' : o.at = m /\ o.g = node'[m].g
         /\ open \ {e} \subseteq open'
<1>0. PICK Order : Order = [m \in better |->
        counter + Cardinality({k \in better : PushRank(n, k) < PushRank(n, m)})]
  OBVIOUS
<1>1. /\ open' = (open \ {e}) \cup {Entry(m, e.g + StepCost(n, m), Order[m]) : m \in better}
      /\ counter' = counter + Cardinality(better) /\ e.g = node[n].g /\ node[n].g \in Int
  BY <1>0 DEF Expansion, ExpandNode
<1>2. /\ request \in Requests /\ n \in Nodes /\ better \subseteq Nodes /\ better \subseteq Reached(n)
      /\ IsFiniteSet(better) /\ counter \in Nat
  BY StoreTypes, ExpansionStores DEF TreeInv
<1>3. Cardinality(better) \in Nat /\ counter' \in Nat
  BY <1>1, <1>2, FS_CardinalityType
<1>4. ASSUME NEW m \in better PROVE Order[m] \in 0..(counter' - 1)
  <2>1. PICK S : S = {k \in better : PushRank(n, k) < PushRank(n, m)}
    OBVIOUS
  <2>2. PushRank(n, m) \in Int
    <3>1. m \in Nodes /\ (Cell(n) # Cell(m) => Delta(n, m) \in Dirs)
      BY <1>2, ReachedParts
    <3>2. m[3] \in Nat
      BY <1>2, <3>1, NodeParts
    <3>3. Cell(n) # Cell(m) => DirIndex(Delta(n, m)) \in 1..8
      BY <3>1, AngleIsNat
    <3> QED
      BY <3>2, <3>3 DEF PushRank
  <2>3. m \notin S
    BY <2>1, <2>2
  <2>4. S \in SUBSET (better \ {m})
    BY <2>1, <2>3
  <2>5. IsFiniteSet(better \ {m}) /\ Cardinality(better \ {m}) = Cardinality(better) - 1
    BY <1>2, FS_RemoveElement
  <2>6. IsFiniteSet(S) /\ Cardinality(S) <= Cardinality(better \ {m})
    BY <2>4, <2>5, FS_Subset
  <2>7. Cardinality(S) \in Nat
    BY <2>6, FS_CardinalityType
  <2>8. Order[m] = counter + Cardinality(S)
    BY <1>0, <2>1
  <2> QED
    BY <1>1, <1>2, <1>3, <2>5, <2>6, <2>7, <2>8
<1>5. ASSUME NEW m \in better, NEW o, o = Entry(m, e.g + StepCost(n, m), Order[m])
      PROVE  /\ o \in [f : Int, g : Int, at : Nodes, order : Int]
             /\ o.f = o.g + Heuristic(o.at)
             /\ Visited(o.at)' /\ o.g = node'[m].g /\ o.at = m /\ node'[o.at].g <= o.g
             /\ o.order \in 0..(counter' - 1)
  <2>1. /\ StepCost(n, m) \in Int /\ node'[m].g = node[n].g + StepCost(n, m) /\ m \in Nodes
        /\ Visited(m)'
    BY <1>2, ExpansionStores
  <2>2. e.g + StepCost(n, m) \in Int /\ Order[m] \in Int
    BY <1>1, <1>3, <1>4, <2>1
  <2>3. /\ o \in [f : Int, g : Int, at : Nodes, order : Int] /\ o.f = o.g + Heuristic(o.at)
        /\ o.g = e.g + StepCost(n, m) /\ o.at = m /\ o.order = Order[m]
    BY <1>2, <1>5, <2>1, <2>2, EntryShape
  <2> QED
    BY <1>1, <1>4, <2>1, <2>2, <2>3
<1>6. ASSUME NEW o \in open \ {e}
      PROVE  /\ o \in [f : Int, g : Int, at : Nodes, order : Int]
             /\ o.f = o.g + Heuristic(o.at)
             /\ Visited(o.at)' /\ node'[o.at].g <= o.g
             /\ o.order \in 0..(counter' - 1)
  <2>1. /\ o \in [f : Int, g : Int, at : Nodes, order : Int] /\ o.f = o.g + Heuristic(o.at)
        /\ Visited(o.at) /\ node[o.at].g <= o.g /\ o.order \in 0..(counter - 1) /\ o.at \in Nodes
    BY DEF TreeInv, TypeOK, EntriesPriced
  <2>2. Visited(o.at)'
    BY <2>1, ExpansionStores
  <2>3. node'[o.at].g <= o.g
    <3>1. CASE o.at \in better
      <4>1. node'[o.at].g < node[o.at].g /\ node'[o.at].g \in Int
        BY <2>1, <3>1, ExpansionStores
      <4>2. node[o.at].g \in Int
        BY <2>1, StoreTypes
      <4> QED
        BY <2>1, <4>1, <4>2
    <3>2. CASE o.at \notin better
      BY <2>1, <3>2, ExpansionStores
    <3> QED
      BY <3>1, <3>2
  <2> QED
    BY <1>1, <1>2, <1>3, <2>1, <2>2, <2>3
<1>7. \A m \in better : \E o \in open' : o.at = m /\ o.g = node'[m].g
  <2> TAKE m \in better
  <2>1. PICK o : o = Entry(m, e.g + StepCost(n, m), Order[m])
    OBVIOUS
  <2> QED
    BY <1>1, <1>5, <2>1
<1>8. \A o \in open' : \/ o \in open \ {e}
                       \/ \E m \in better : o = Entry(m, e.g + StepCost(n, m), Order[m])
  BY <1>1
<1> QED
  BY <1>1, <1>3, <1>5, <1>6, <1>7, <1>8

LEMMA ExpansionKeepsTree ==
  ASSUME TreeInv, NEW e, NEW n, NEW better, Expansion(e, n, better),
         iterations' \in 0..budget'.cap
  PROVE  TreeInv'
<1>1. /\ request' = request /\ blocked' = blocked /\ Nodes' = Nodes /\ outcome' = outcome
      /\ n \in Nodes /\ closed' = closed \cup {n} /\ better \subseteq Nodes
  BY ExpansionStores DEF Expansion
<1>2. \A m : Heuristic(m)' = Heuristic(m)
  BY <1>1, SameRequest
<1>3. TypeOK'
  <2>1. node' \in [Nodes -> [g : Int \cup {None}, parent : Nodes \cup {None}, steps : Nat]]
    <3>1. node' = [m \in Nodes |-> node'[m]]
      BY DEF Expansion, ExpandNode
    <3>2. \A m \in Nodes : node'[m] \in [g : Int \cup {None}, parent : Nodes \cup {None}, steps : Nat]
      <4> TAKE m \in Nodes
      <4>1. CASE m \in better
        <5>1. node'[m] \in [g : Int, parent : Nodes, steps : Nat]
          BY <4>1, ExpansionStores
        <5> QED
          BY <5>1
      <4>2. CASE m \notin better
        BY <4>2, ExpansionStores DEF TreeInv, TypeOK
      <4> QED
        BY <4>1, <4>2
    <3> QED
      BY <3>1, <3>2
  <2>2. \A m \in closed' : m \in Nodes /\ Visited(m)'
    <3>1. Visited(n)
      BY StoreTypes, <1>1 DEF Expansion
    <3> QED
      BY <1>1, <3>1, StoreTypes, ExpansionStores
  <2>3. pathVias' \in [Nodes -> SUBSET (Int \X Int)]
    <3>1. pathVias' = [m \in Nodes |-> pathVias'[m]]
      BY DEF Expansion, ExpandNode
    <3>2. \A m \in Nodes : pathVias'[m] \in SUBSET (Int \X Int)
      <4> TAKE m \in Nodes
      <4>1. Cell(n) \in Int \X Int /\ pathVias[n] \in SUBSET (Int \X Int)
        BY <1>1, StoreTypes, NodeParts DEF Cell
      <4>2. CASE m \in better
        <5>1. pathVias'[m] = ViasOnWay(n, m)
          BY <4>2, ExpansionStores
        <5>2. \A v \in ViasOnWay(n, m) : v \in pathVias[n] \/ v = Cell(n)
          BY DEF ViasOnWay
        <5> QED
          BY <4>1, <5>1, <5>2
      <4>3. CASE m \notin better
        BY <4>3, StoreTypes, ExpansionStores
      <4> QED
        BY <4>2, <4>3
    <3> QED
      BY <3>1, <3>2
  <2>4. \A o \in open' : /\ o.at \in Nodes /\ Visited(o.at)'
                         /\ node'[o.at].g <= o.g /\ o.order \in 0..(counter' - 1)
    BY ExpansionPushes
  <2>5. \A m : Visited(m)' <=> node'[m].g # None
    BY DEF Visited
  <2> QED
    BY <1>1, <2>1, <2>2, <2>3, <2>4, <2>5 DEF TypeOK, TreeInv, Visited
<1>4. EntriesPriced'
  <2>1. \A o \in open' : /\ o \in [f : Int, g : Int, at : Nodes, order : Int]
                         /\ o.f = o.g + Heuristic(o.at)
    BY ExpansionPushes
  <2>2. \A o : Heuristic(o.at)' = Heuristic(o.at)
    BY <1>2
  <2> QED
    BY <1>1, <2>1, <2>2 DEF EntriesPriced
<1>5. ASSUME NEW m \in Nodes, NEW p, p = node'[m].parent, p # None
      PROVE  /\ p \in closed' /\ m \in Reached(p)' /\ p \in closed \cup {n}
             /\ node'[m].g = node'[p].g + StepCost(p, m)'
             /\ pathVias'[m] = pathVias'[p] \cup
                  (IF request.radius > 0 /\ IsVia(p, m) THEN {Cell(m)} \ request.freeVias ELSE {})
  <2>1. CASE m \in better
    <3>1. /\ p = n /\ m \in Reached(n) /\ node'[m].g = node[n].g + StepCost(n, m)
          /\ pathVias'[m] = ViasOnWay(n, m)
      BY <1>5, <2>1, ExpansionStores
    <3>2. /\ node'[n] = node[n] /\ pathVias'[n] = pathVias[n] /\ Reached(n)' = Reached(n)
          /\ StepCost(n, m)' = StepCost(n, m)
      BY ExpansionFreezes
    <3>3. IsVia(n, m) <=> Cell(n) = Cell(m)
      <4>1. m # None /\ n # None
        BY <1>1, StoreTypes
      <4>2. Cell(n) = Cell(m) => m[3] # n[3]
        BY <1>1, <3>1, ReachedParts
      <4> QED
        BY <4>1, <4>2 DEF IsVia
    <3>4. pathVias'[m] = pathVias'[n] \cup
            (IF request.radius > 0 /\ IsVia(n, m) THEN {Cell(m)} \ request.freeVias ELSE {})
      BY <3>1, <3>2, <3>3 DEF ViasOnWay
    <3>5. Reached(p)' = Reached(n) /\ StepCost(p, m)' = StepCost(n, m)
      BY <3>1, <3>2
    <3> QED
      BY <1>1, <3>1, <3>2, <3>4, <3>5
  <2>2. CASE m \notin better
    <3>1. node'[m] = node[m] /\ pathVias'[m] = pathVias[m]
      BY <2>2, ExpansionStores
    <3>2. Parent(m) = p
      BY <1>5, <3>1 DEF Parent
    <3>3. /\ p \in closed /\ m \in Reached(p) /\ node[m].g = node[p].g + StepCost(p, m)
          /\ pathVias[m] = pathVias[p] \cup
               (IF request.radius > 0 /\ IsVia(p, m) THEN {Cell(m)} \ request.freeVias ELSE {})
      BY <1>5, <3>2 DEF TreeInv, TreeIsLegal
    <3>4. /\ node'[p] = node[p] /\ pathVias'[p] = pathVias[p] /\ Reached(p)' = Reached(p)
          /\ StepCost(p, m)' = StepCost(p, m)
      BY <3>3, ExpansionFreezes
    <3> QED
      BY <1>1, <3>1, <3>3, <3>4
  <2> QED
    BY <2>1, <2>2
<1>6. TreeIsLegal'
  <2>1. ASSUME NEW m \in Nodes, Parent(m)' # None
        PROVE  /\ Parent(m)' \in closed' /\ m \in Reached(Parent(m))'
               /\ node'[m].g = node'[Parent(m)'].g + StepCost(Parent(m), m)'
               /\ pathVias'[m] = pathVias'[Parent(m)'] \cup
                    (IF request.radius > 0 /\ IsVia(Parent(m)', m) THEN {Cell(m)} \ request.freeVias ELSE {})
    <3>1. PICK p : p = Parent(m)'
      OBVIOUS
    <3>2. p = node'[m].parent /\ p # None
      BY <2>1, <3>1 DEF Parent
    <3>3. Reached(Parent(m))' = Reached(p)' /\ StepCost(Parent(m), m)' = StepCost(p, m)'
      BY <3>1
    <3> QED
      BY <1>5, <3>1, <3>2, <3>3
  <2> QED
    BY <1>1, <2>1 DEF TreeIsLegal
<1>7. HeadingsKnown'
  <2>1. ASSUME NEW m \in Nodes PROVE Approach(m)' \in Dirs \cup {None}
    <3>1. CASE m \in better
      <4>1. node'[m].parent = n /\ m \in Reached(n)
        BY <3>1, ExpansionStores
      <4>2. Cell(m) # Cell(n) => Delta(n, m) \in Dirs
        BY <1>1, <4>1, ReachedParts
      <4> QED
        BY <4>1, <4>2 DEF Approach, Parent
    <3>2. CASE m \notin better
      <4>1. node'[m] = node[m]
        BY <3>2, ExpansionStores
      <4>2. Approach(m)' = Approach(m)
        BY <4>1 DEF Approach, Parent
      <4> QED
        BY <4>2, StoreTypes
    <3> QED
      BY <3>1, <3>2
  <2> QED
    BY <1>1, <2>1 DEF HeadingsKnown
<1> QED
  BY <1>3, <1>4, <1>6, <1>7, ExpansionPushes DEF TreeInv
(* Without constraints an expansion tries every step the board allows.     *)
LEMMA LegalStepsAreTried ==
  ASSUME request \in Requests, Unconstrained, NEW n \in Nodes, NEW k \in Nodes, NEW b,
         LegalStep(n, k, b)
  PROVE  k \in Tried(n) /\ k # n /\ ~Excluded(n, k)
<1>1. /\ ~request.collinear /\ request.radius = 0 /\ request.startDir = None
  BY DEF Unconstrained
<1>2. /\ n = <<n[1], n[2], n[3]>> /\ n[1] \in Int /\ n[2] \in Int /\ n[3] \in LayerIds
      /\ k = <<k[1], k[2], k[3]>> /\ k[1] \in Int /\ k[2] \in Int /\ k[3] \in LayerIds
  BY NodeParts
<1>3. ~Excluded(n, k)
  BY <1>1 DEF Excluded
<1>4. CASE n[3] = k[3] /\ Distance(Cell(n), Cell(k)) = 1 /\ ~Forbidden(n[3])
  <2>1. PICK a, c : a = k[1] - n[1] /\ c = k[2] - n[2]
    OBVIOUS
  <2>2. Greater(Abs(n[1] - k[1]), Abs(n[2] - k[2])) = 1
    BY <1>4 DEF Distance, Cell
  <2>3. a \in Int /\ c \in Int /\ n[1] - k[1] = -a /\ n[2] - k[2] = -c
        /\ k[1] = n[1] + a /\ k[2] = n[2] + c
    BY <1>2, <2>1
  <2>4. a \in -1..1 /\ c \in -1..1 /\ (a # 0 \/ c # 0)
    BY <2>2, <2>3 DEF Greater, Abs
  <2>5. PICK d : d = <<a, c>>
    OBVIOUS
  <2>6. d \in Dirs /\ d[1] = a /\ d[2] = c
    BY <2>4, <2>5, DirectionParts
  <2>7. k = Step(n, d)
    BY <1>2, <1>4, <2>3, <2>6 DEF Step
  <2>8. ViaDirections(n) = Dirs
    BY <1>1 DEF ViaDirections, Dirs
  <2>9. k \in Moves(n)
    BY <1>1, <1>4, <2>6, <2>7, <2>8 DEF Moves
  <2>10. k # n
    BY <2>3, <2>4, <1>2
  <2> QED
    BY <1>3, <2>9, <2>10 DEF Tried
<1>5. CASE /\ Cell(n) = Cell(k) /\ n[3] # k[3] /\ ~Forbidden(k[3])
           /\ Cell(n) \in request.freeVias \/ Cell(n) \notin viaBlocked
  <2>1. ViaLegal(n)
    BY <1>1, <1>5 DEF ViaLegal
  <2>2. k = <<n[1], n[2], k[3]>>
    BY <1>2, <1>5 DEF Cell
  <2>3. k \in Vias(n)
    BY <1>2, <1>5, <2>1, <2>2 DEF Vias
  <2> QED
    BY <1>3, <1>5, <2>3 DEF Tried
<1> QED
  BY <1>4, <1>5 DEF LegalStep

LEMMA ExpansionExplores ==
  ASSUME TreeInv, Explored, NEW e, NEW n, NEW better, Expansion(e, n, better)
  PROVE  Explored'
<1>1. /\ request' = request /\ blocked' = blocked /\ viaBlocked' = viaBlocked /\ Nodes' = Nodes
      /\ n \in Nodes /\ closed' = closed \cup {n} /\ request \in Requests
  BY ExpansionStores, StoreTypes
<1>2. frontier' = frontier \cup {m \in Tried(n) : Blocked(m)} /\ better = Improved(n, e.g)
  BY DEF Expansion, ExpandNode
<1>3. SUFFICES ASSUME Unconstrained, NEW m \in closed \cup {n}, NEW k \in Nodes,
                      LegalStep(m, k, frontier')
               PROVE  Visited(k)'
  <2>1. Unconstrained' = Unconstrained
    BY <1>1 DEF Unconstrained
  <2>2. \A m, k : LegalStep(m, k, frontier)' <=> LegalStep(m, k, frontier')
    BY <1>1 DEF LegalStep, Forbidden
  <2> QED
    BY <1>1, <1>3, <2>1, <2>2 DEF Explored
<1>4. CASE m \in closed
  <2>1. LegalStep(m, k, frontier)
    BY <1>2, <1>3 DEF LegalStep
  <2>2. Visited(k)
    BY <1>3, <1>4, <2>1 DEF Explored
  <2> QED
    BY <2>2, ExpansionStores
<1>5. CASE m = n
  <2>1. k \in Tried(n) /\ k # n /\ ~Excluded(n, k)
    BY <1>1, <1>3, <1>5, LegalStepsAreTried
  <2>2. k \notin frontier'
    BY <1>3 DEF LegalStep
  <2>3. ~Blocked(k)
    BY <1>2, <2>1, <2>2
  <2>4. k \in Reached(n)
    BY <2>1, <2>3 DEF Reached, Tried
  <2>5. CASE Visited(k)
    BY <2>5, ExpansionStores
  <2>6. CASE ~Visited(k)
    <3>1. k \notin closed
      BY <2>6, StoreTypes
    <3>2. k \in better
      BY <1>2, <2>1, <2>4, <2>6, <3>1 DEF Improved, Better
    <3> QED
      BY <3>2, ExpansionStores
  <2> QED
    BY <2>5, <2>6
<1> QED
  BY <1>3, <1>4, <1>5

LEMMA ExpansionAwaits ==
  ASSUME TreeInv, AwaitedAreOpen, outcome = "searching",
         NEW e, NEW n, NEW better, Expansion(e, n, better)
  PROVE  AwaitedAreOpen'
<1>1. /\ request' = request /\ Nodes' = Nodes /\ closed' = closed \cup {n} /\ n = e.at
  BY ExpansionStores DEF Expansion
<1>2. ASSUME NEW k \in Nodes, Awaited(k)'
      PROVE  \E o \in open' : o.at = k /\ o.g = node'[k].g
  <2>1. CASE k \in better
    BY <2>1, ExpansionPushes
  <2>2. CASE k \notin better
    <3>1. node'[k] = node[k]
      BY <2>2, ExpansionStores
    <3>2. Awaited(k) /\ k # n
      BY <1>1, <1>2, <3>1 DEF Awaited, Visited, Targets
    <3>3. PICK o \in open : o.at = k /\ o.g = node[k].g
      BY <3>2 DEF AwaitedAreOpen
    <3>4. o \in open'
      BY <1>1, <3>2, <3>3, ExpansionPushes
    <3> QED
      BY <3>1, <3>3, <3>4
  <2> QED
    BY <2>1, <2>2
<1> QED
  BY <1>1, <1>2 DEF AwaitedAreOpen

LEMMA ExpandKeepsGrid ==
  ASSUME GridInv, outcome = "searching", Expand
  PROVE  GridInv'
<1>a. TreeInv /\ AwaitedAreOpen /\ EndsKept /\ Explored /\ BudgetInv
  BY DEF GridInv
<1>1. PICK e \in open : /\ e.at \notin closed \cup Targets /\ Pop(e, TRUE)
                        /\ ExpandNode(e, Improved(e.at, e.g))
  BY DEF Expand
<1>2. UNCHANGED <<board, outcome>>
  BY DEF Expand
<1>3. e \in [f : Int, g : Int, at : Nodes, order : Int]
  BY <1>a DEF TreeInv, EntriesPriced
<1>4. e.g = node[e.at].g /\ node[e.at].g \in Int
  BY <1>a, <1>1, TopIsCurrent DEF Pop
<1>5. PICK n, better : n = e.at /\ better = Improved(e.at, e.g)
  OBVIOUS
<1>6. Expansion(e, n, better)
  BY <1>1, <1>2, <1>3, <1>4, <1>5 DEF Expansion
<1>7. request' = request
  BY <1>2 DEF board
<1>8. BudgetInv' /\ iterations' \in 0..budget'.cap
  BY <1>a, <1>1, <1>3, <1>7, PopKeepsBudget
<1>9. TreeInv'
  BY <1>a, <1>6, <1>8, ExpansionKeepsTree
<1>10. AwaitedAreOpen' /\ Explored'
  BY <1>a, <1>6, ExpansionAwaits, ExpansionExplores
<1>11. EndsKept'
  <2>1. /\ closed' = closed \cup {n} /\ n \notin Targets /\ Targets' = Targets /\ Sources' = Sources
        /\ blocked' = blocked /\ Nodes' = Nodes /\ outcome' = "searching"
        /\ frontier' = frontier \cup {m \in Tried(n) : Blocked(m)}
    BY <1>1, <1>2, <1>5, <1>7 DEF ExpandNode, board, Targets, Sources, Nodes
  <2>2. \A s \in Sources : s \in Nodes /\ Visited(s)
    BY <1>a, StoreTypes, RequestFacts DEF EndsKept
  <2>3. \A s \in Sources : Visited(s)'
    BY <1>a, <1>6, <2>2, ExpansionStores
  <2>4. frontier' \cap Nodes \subseteq blocked
    BY <1>a, <2>1 DEF EndsKept, Blocked
  <2>5. frontier' \subseteq KeyCells /\ IsFiniteSet(frontier')
    <3>1. PICK run : run = {m \in Tried(n) : Blocked(m)}
      OBVIOUS
    <3>2. IsFiniteSet(run) /\ run \subseteq KeyCells
      BY <1>a, <1>3, <1>5, <3>1, FewAreTried, TriedHaveKeys, FS_Subset
    <3> QED
      BY <1>a, <2>1, <3>1, <3>2, FS_Union DEF EndsKept
  <2> QED
    BY <1>a, <2>1, <2>3, <2>4, <2>5 DEF EndsKept, KeyCells
<1> QED
  BY <1>8, <1>9, <1>10, <1>11 DEF GridInv

LEMMA GridNext ==
  ASSUME GridInv, [Next]_vars
  PROVE  GridInv'
<1>1. CASE Next
  BY <1>1, ExhaustedKeepsGrid, CappedKeepsGrid, DuplicateSkipKeepsGrid, ArriveKeepsGrid,
    ExpandKeepsGrid DEF Next
<1>2. CASE UNCHANGED vars
  <2>1. /\ UNCHANGED <<board, node, closed, pathVias, counter, frontier>> /\ open' = open
        /\ iterations' = iterations /\ budget' = budget /\ outcome' = outcome /\ request' = request
    BY <1>2 DEF vars, board
  <2>2. BudgetInv' /\ iterations' \in 0..budget'.cap
        /\ outcome' \in {"searching", "found", "capped", "exhausted"}
    BY <2>1 DEF GridInv, BudgetInv, BudgetOK, TreeInv, TypeOK
  <2>3. AwaitedAreOpen' /\ (outcome' = "exhausted" => open' = {})
    BY <2>1 DEF GridInv, AwaitedAreOpen, Awaited, Visited, Nodes, Targets, EndsKept
  <2> QED
    BY <2>1, <2>2, <2>3, QuietStep
<1> QED
  BY <1>1, <1>2

LEMMA GridInvariant == Spec => []GridInv
<1>1. Init => GridInv
  BY GridInit
<1>2. GridInv /\ [Next]_vars => GridInv'
  BY GridNext
<1> QED
  BY <1>1, <1>2, PTL DEF Spec

----------------------------------------------------------------------------
(* The node store is sound on every grid: each visited node hangs from an  *)
(* expanded one by a step that was legal for the way there and still is,   *)
(* and its cost and its vias are those of that way.                        *)
THEOREM StoreIsSound == Spec => []NodeStoreIsSound
<1>1. GridInv => NodeStoreIsSound
  BY DEF GridInv, TreeInv, NodeStoreIsSound
<1> QED
  BY <1>1, GridInvariant, PTL

(* A node that was expanded is never relaxed again ("the closed bit is ... *)
(* never relaxed away"): its cost, parent and vias are final.              *)
THEOREM ExpandedStaysFinal == Spec => ExpandedIsFinal
<1>1. GridInv /\ [Next]_vars =>
        /\ closed \subseteq closed'
        /\ \A n \in closed : node'[n] = node[n] /\ pathVias'[n] = pathVias[n]
  <2> SUFFICES ASSUME GridInv, [Next]_vars
               PROVE  /\ closed \subseteq closed'
                      /\ \A n \in closed : node'[n] = node[n] /\ pathVias'[n] = pathVias[n]
    OBVIOUS
  <2>1. CASE UNCHANGED <<node, closed, pathVias>>
    BY <2>1
  <2>2. CASE Expand
    <3>1. PICK e : ExpandNode(e, Improved(e.at, e.g))
      BY <2>2 DEF Expand
    <3>2. \A m \in Improved(e.at, e.g) : m \notin closed
      BY DEF Improved
    <3>3. closed \subseteq Nodes
      BY StoreTypes DEF GridInv
    <3> QED
      BY <3>1, <3>2, <3>3 DEF ExpandNode
  <2> QED
    BY <2>1, <2>2 DEF Next, Exhausted, Capped, DuplicateSkip, Arrive, vars
<1> QED
  BY <1>1, GridInvariant, PTL DEF Spec, ExpandedIsFinal

----------------------------------------------------------------------------
(* What is reported of the frontier: the keys are in a strict order, so a  *)
(* cell's rank is its place, and a sample has a cell for every place.      *)
LEMMA KeysAreOrdered ==
  /\ \A c \in KeyCells : ~KeyBefore(c, c)
  /\ \A c, d \in KeyCells : c # d => KeyBefore(c, d) \/ KeyBefore(d, c)
  /\ \A b, c, d \in KeyCells : KeyBefore(b, c) /\ KeyBefore(c, d) => KeyBefore(b, d)
<1>1. \A i \in -KeyHalf..(KeyHalf - 1) : Unsigned(i) \in Nat
  BY ReportAssumption DEF Unsigned
<1>2. \A i, j \in -KeyHalf..(KeyHalf - 1) : Unsigned(i) = Unsigned(j) => i = j
  BY ReportAssumption DEF Unsigned
<1>3. \A c \in KeyCells : /\ c = <<c[1], c[2], c[3]>> /\ c[1] \in -KeyHalf..(KeyHalf - 1)
                         /\ c[2] \in -KeyHalf..(KeyHalf - 1) /\ c[3] \in Nat
  <2>1. LayerIds \subseteq Nat
    BY LayersAssumption
  <2>2. PICK I : I = -KeyHalf..(KeyHalf - 1)
    OBVIOUS
  <2>3. KeyCells = I \X I \X LayerIds
    BY <2>2 DEF KeyCells
  <2>4. \A c \in KeyCells : c = <<c[1], c[2], c[3]>> /\ c[1] \in I /\ c[2] \in I /\ c[3] \in LayerIds
    BY ONLY <2>3
  <2> QED
    BY <2>1, <2>2, <2>4
<1>4. \A c, d : Cell(c) = Cell(d) <=> c[1] = d[1] /\ c[2] = d[2]
  BY DEF Cell
<1>5. \A c \in KeyCells : ~KeyBefore(c, c)
  BY <1>1, <1>3 DEF KeyBefore
<1>6. ASSUME NEW c \in KeyCells, NEW d \in KeyCells, c # d
      PROVE  KeyBefore(c, d) \/ KeyBefore(d, c)
  <2>1. c[1] # d[1] \/ c[2] # d[2] \/ c[3] # d[3]
    BY <1>3, <1>6
  <2>2. CASE c[1] # d[1]
    <3>1. Unsigned(c[1]) < Unsigned(d[1]) \/ Unsigned(d[1]) < Unsigned(c[1])
      BY <1>1, <1>2, <1>3, <2>2
    <3> QED
      BY <3>1 DEF KeyBefore
  <2>3. CASE c[1] = d[1] /\ c[2] # d[2]
    <3>1. Unsigned(c[2]) < Unsigned(d[2]) \/ Unsigned(d[2]) < Unsigned(c[2])
      BY <1>1, <1>2, <1>3, <2>3
    <3> QED
      BY <2>3, <3>1 DEF KeyBefore
  <2>4. CASE c[1] = d[1] /\ c[2] = d[2]
    BY <1>3, <1>4, <2>1, <2>4 DEF KeyBefore
  <2> QED
    BY <2>2, <2>3, <2>4
<1>7. ASSUME NEW b \in KeyCells, NEW c \in KeyCells, NEW d \in KeyCells,
             KeyBefore(b, c), KeyBefore(c, d)
      PROVE  KeyBefore(b, d)
  <2>1. /\ Unsigned(b[1]) \in Nat /\ Unsigned(c[1]) \in Nat /\ Unsigned(d[1]) \in Nat
        /\ Unsigned(b[2]) \in Nat /\ Unsigned(c[2]) \in Nat /\ Unsigned(d[2]) \in Nat
        /\ b[3] \in Nat /\ c[3] \in Nat /\ d[3] \in Nat
    BY <1>1, <1>3
  <2>2. \/ Unsigned(b[1]) < Unsigned(c[1])
        \/ b[1] = c[1] /\ Unsigned(b[2]) < Unsigned(c[2])
        \/ b[1] = c[1] /\ b[2] = c[2] /\ b[3] < c[3]
    BY <1>4, <1>7 DEF KeyBefore
  <2>3. \/ Unsigned(c[1]) < Unsigned(d[1])
        \/ c[1] = d[1] /\ Unsigned(c[2]) < Unsigned(d[2])
        \/ c[1] = d[1] /\ c[2] = d[2] /\ c[3] < d[3]
    BY <1>4, <1>7 DEF KeyBefore
  <2>4. \/ Unsigned(b[1]) < Unsigned(d[1])
        \/ b[1] = d[1] /\ Unsigned(b[2]) < Unsigned(d[2])
        \/ b[1] = d[1] /\ b[2] = d[2] /\ b[3] < d[3]
    BY <2>1, <2>2, <2>3
  <2> QED
    BY <1>4, <2>4 DEF KeyBefore
<1> QED
  BY <1>5, <1>6, <1>7

RankOf == [c \in frontier |-> KeyRank(c)]

LEMMA RanksArePlaces ==
  ASSUME frontier \subseteq KeyCells, IsFiniteSet(frontier)
  PROVE  \A i \in 0..(Cardinality(frontier) - 1) : \E c \in frontier : KeyRank(c) = i
<1>1. PICK N : N = Cardinality(frontier)
  OBVIOUS
<1>2. N \in Nat
  BY <1>1, FS_CardinalityType
<1>3. PICK below : below = [c \in frontier |-> {d \in frontier : KeyBefore(d, c)}]
  OBVIOUS
<1>4. ASSUME NEW c \in frontier
      PROVE  /\ KeyRank(c) = Cardinality(below[c]) /\ IsFiniteSet(below[c])
             /\ KeyRank(c) \in Nat /\ c \notin below[c]
             /\ below[c] \cup {c} \in SUBSET frontier
             /\ Cardinality(below[c] \cup {c}) = KeyRank(c) + 1
  <2>1. below[c] \in SUBSET frontier /\ below[c] \cup {c} \in SUBSET frontier
    BY <1>3
  <2>2. IsFiniteSet(below[c])
    BY <2>1, FS_Subset
  <2>3. Cardinality(below[c]) \in Nat
    BY <2>2, FS_CardinalityType
  <2>4. c \notin below[c]
    BY <1>3, KeysAreOrdered
  <2>5. KeyRank(c) = Cardinality(below[c])
    BY <1>3 DEF KeyRank
  <2>6. Cardinality(below[c] \cup {c}) = Cardinality(below[c]) + 1
    BY <2>2, <2>4, FS_AddElement
  <2> QED
    BY <2>1, <2>2, <2>3, <2>4, <2>5, <2>6
<1>5. ASSUME NEW c \in frontier PROVE KeyRank(c) \in 0..(N - 1)
  <2>1. Cardinality(below[c] \cup {c}) <= N
    BY <1>1, <1>4, FS_Subset
  <2>2. KeyRank(c) \in Nat /\ Cardinality(below[c] \cup {c}) = KeyRank(c) + 1
    BY <1>4
  <2> QED
    BY ONLY <1>2, <2>1, <2>2
<1>6. ASSUME NEW c \in frontier, NEW d \in frontier, KeyBefore(c, d)
      PROVE  KeyRank(c) < KeyRank(d)
  <2>1. below[c] \cup {c} \in SUBSET below[d]
    BY <1>3, <1>6, KeysAreOrdered
  <2>2. IsFiniteSet(below[d]) /\ KeyRank(d) = Cardinality(below[d]) /\ KeyRank(d) \in Nat
    BY <1>4
  <2>3. Cardinality(below[c] \cup {c}) <= Cardinality(below[d])
    BY <2>1, <2>2, FS_Subset
  <2>4. KeyRank(c) \in Nat /\ Cardinality(below[c] \cup {c}) = KeyRank(c) + 1
    BY <1>4
  <2> QED
    BY ONLY <2>2, <2>3, <2>4
<1>7. ASSUME NEW c \in frontier, NEW d \in frontier, KeyRank(c) = KeyRank(d) PROVE c = d
  <2>1. KeyRank(c) \in Nat /\ KeyRank(d) \in Nat
    BY <1>4
  <2>2. ~KeyBefore(c, d) /\ ~KeyBefore(d, c)
    BY <1>6, <1>7, <2>1
  <2> QED
    BY <2>2, KeysAreOrdered
<1>8. RankOf \in Injection(frontier, 0..(N - 1))
  <2>1. \A c \in frontier : RankOf[c] = KeyRank(c) /\ KeyRank(c) \in 0..(N - 1)
    BY <1>5 DEF RankOf
  <2>2. RankOf \in [frontier -> 0..(N - 1)]
    BY <2>1 DEF RankOf
  <2> QED
    BY <1>7, <2>1, <2>2 DEF Injection, IsInjective
<1>9. IsFiniteSet(0..(N - 1)) /\ Cardinality(0..(N - 1)) = N
  BY <1>2, FS_Interval
<1>10. RankOf \in Surjection(frontier, 0..(N - 1))
  BY <1>1, <1>8, <1>9, FS_Injection
<1> QED
  BY <1>1, <1>10 DEF Surjection, RankOf

LEMMA SampleIsFull ==
  ASSUME frontier \subseteq KeyCells, IsFiniteSet(frontier)
  PROVE  Reported = frontier \/ Cardinality(Reported) >= MaxBlockedCells
<1>1. PICK N, M : N = Cardinality(frontier) /\ M = MaxBlockedCells
  OBVIOUS
<1>2. N \in Nat /\ M \in Nat \ {0}
  BY <1>1, FS_CardinalityType, ReportAssumption
<1>3. CASE N <= M
  BY <1>1, <1>3 DEF Reported
<1>4. CASE N > M
  <2>1. PICK place : place = [i \in 0..(M - 1) |-> (i * N) \div M]
    OBVIOUS
  <2>2. ASSUME NEW i \in 0..(M - 1) PROVE place[i] \in 0..(N - 1)
    <3>1. i * N \in Nat /\ i * N < M * N
      <4>1. PICK z \in Nat : M = i + 1 + z
        <5>1. M - i - 1 \in Nat /\ M = i + 1 + (M - i - 1)
          BY <1>2
        <5> QED
          BY <5>1
      <4>2. M * N = i * N + N + z * N /\ i * N \in Nat /\ z * N \in Nat
        BY <1>2, <4>1
      <4> QED
        BY <1>2, <1>4, <4>2
    <3>2. PICK a, q : a = i * N /\ q = a \div M
      OBVIOUS
    <3>3. q \in Nat /\ M * q <= a
      BY <1>2, <3>1, <3>2, QuotientOf
    <3>4. ASSUME q >= N PROVE FALSE
      <4>1. PICK z \in Nat : q = N + z
        <5>1. q - N \in Nat /\ q = N + (q - N)
          BY <1>2, <3>3, <3>4
        <5> QED
          BY <5>1
      <4>2. M * q = M * N + M * z /\ M * z \in Nat /\ M * N \in Nat
        BY <1>2, <4>1
      <4> QED
        BY <3>1, <3>2, <3>3, <4>2
    <3> QED
      BY <1>2, <2>1, <3>2, <3>3, <3>4
  <2>3. ASSUME NEW i \in 0..(M - 1), NEW j \in 0..(M - 1), i < j
        PROVE  place[i] # place[j]
    <3>1. PICK z \in Nat : j = i + 1 + z
      <4>1. j - i - 1 \in Nat /\ j = i + 1 + (j - i - 1)
        BY <1>2, <2>3
      <4> QED
        BY <4>1
    <3>2. j * N = i * N + N + z * N /\ i * N \in Nat /\ z * N \in Nat /\ j * N \in Nat
      BY <1>2, <3>1
    <3>3. i * N + M <= j * N
      BY <1>2, <1>4, <3>2
    <3>4. (i * N) \div M + 1 <= (j * N) \div M
      BY <1>2, <3>2, <3>3, QuotientOfMore
    <3>5. (i * N) \div M \in Nat
      BY <1>2, <3>2, QuotientOf
    <3>6. place[i] = (i * N) \div M /\ place[j] = (j * N) \div M
      BY <2>1
    <3>7. place[j] \in Nat
      BY <1>2, <3>2, <3>6, QuotientOf
    <3> QED
      BY <3>4, <3>5, <3>6, <3>7
  <2>4. \A i \in 0..(M - 1) : place[i] \in SampledRanks
    BY <1>1, <2>1 DEF SampledRanks
  <2>5. Reported = {c \in frontier : KeyRank(c) \in SampledRanks}
    <3>1. ~(Cardinality(frontier) <= MaxBlockedCells)
      BY <1>1, <1>2, <1>4
    <3> QED
      BY <3>1 DEF Reported
  <2>6. \A i \in 0..(M - 1) : \E c \in Reported : KeyRank(c) = place[i]
    BY <1>1, <2>2, <2>4, <2>5, RanksArePlaces
  <2>7. PICK chosen : chosen = [i \in 0..(M - 1) |-> CHOOSE c \in Reported : KeyRank(c) = place[i]]
    OBVIOUS
  <2>8. \A i \in 0..(M - 1) : chosen[i] \in Reported /\ KeyRank(chosen[i]) = place[i]
    BY <2>6, <2>7
  <2>9. \A i, j \in 0..(M - 1) : chosen[i] = chosen[j] => i = j
    <3>1. \A i, j \in 0..(M - 1) : place[i] = place[j] => i = j
      BY <1>2, <2>3
    <3> QED
      BY <2>8, <3>1
  <2>10. chosen \in Injection(0..(M - 1), Reported)
    <3>1. chosen \in [0..(M - 1) -> Reported]
      BY <2>7, <2>8
    <3> QED
      BY <2>9, <3>1 DEF Injection, IsInjective
  <2>11. IsFiniteSet(Reported)
    BY <2>5, FS_Subset
  <2>12. Cardinality(0..(M - 1)) = M
    BY <1>2, FS_Interval
  <2>13. Cardinality(0..(M - 1)) <= Cardinality(Reported)
    BY <2>10, <2>11, FS_Injection
  <2>14. Cardinality(Reported) \in Nat
    BY <2>11, FS_CardinalityType
  <2> QED
    BY <1>1, <1>2, <2>12, <2>13, <2>14
<1> QED
  BY <1>2, <1>3, <1>4

(* What a search that ran dry reports is enough to blame, if the report is *)
(* below the limit of get_blocked: the reported cells alone separate the   *)
(* explored part, with every source in it, from the rest of the board and  *)
(* from every target.  Such a report is the whole frontier, whatever the   *)
(* limit: a sample fills it.                                               *)
THEOREM FrontierDoesSeparate == Spec => []FrontierSeparates
<1>1. GridInv => FrontierSeparates
  <2> SUFFICES ASSUME GridInv, outcome = "exhausted", Unconstrained
               PROVE  /\ Reported \cap Nodes \subseteq blocked
                      /\ Sources \subseteq closed /\ closed \cap Targets = {}
                      /\ Cardinality(Reported) < MaxBlockedCells =>
                           \A m \in closed, n \in Nodes :
                             LegalStep(m, n, Reported) => n \in closed
    BY DEF FrontierSeparates
  <2>1. open = {} /\ request.endDir = None
    BY DEF GridInv, EndsKept, Unconstrained
  <2>2. \A n \in Nodes : Visited(n) => n \in closed
    BY <2>1 DEF GridInv, AwaitedAreOpen, Awaited
  <2>3. \A s \in Sources : s \in Nodes /\ Visited(s)
    BY StoreTypes, RequestFacts DEF GridInv, EndsKept
  <2>4. \A m \in closed, n \in Nodes : LegalStep(m, n, frontier) => Visited(n)
    BY DEF GridInv, Explored
  <2>5. frontier \subseteq KeyCells /\ IsFiniteSet(frontier) /\ frontier \cap Nodes \subseteq blocked
    BY DEF GridInv, EndsKept
  <2>6. Reported \subseteq frontier
    BY DEF Reported
  <2>7. Cardinality(Reported) \in Nat
    BY <2>5, <2>6, FS_Subset, FS_CardinalityType
  <2>8. Cardinality(Reported) < MaxBlockedCells => Reported = frontier
    BY <2>5, <2>7, SampleIsFull, ReportAssumption
  <2> QED
    BY <2>2, <2>3, <2>4, <2>5, <2>6, <2>8 DEF GridInv, EndsKept
<1> QED
  BY <1>1, GridInvariant, PTL

(* The extensions of the budget are earned, whatever the quantum and the   *)
(* grace: the search stops at the ceiling, and each Grace + 1 tranches     *)
(* beyond the first brought it a quantum closer to its target.             *)
THEOREM BudgetIsAlwaysEarned == Spec => []BudgetIsEarned
<1>1. GridInv => BudgetIsEarned
  <2> SUFFICES ASSUME GridInv PROVE BudgetIsEarned
    OBVIOUS
  <2>1. /\ BudgetOK(budget) /\ iterations \in 0..budget.cap /\ request \in Requests
        /\ Grace \in Nat /\ Quantum \in Nat \ {0}
    BY BudgetAssumption DEF GridInv, BudgetInv, TreeInv, TypeOK
  <2>2. /\ budget \in Budgets /\ budget.cap <= Greater(request.tranche, request.ceiling)
        /\ budget.best <= budget.initial
    BY <2>1 DEF BudgetOK
  <2>3. /\ budget.cap \in Nat /\ budget.best \in Int /\ budget.initial \in Int /\ budget.ref \in Int
        /\ budget.granted \in Nat /\ budget.grace \in 0..Grace /\ budget.snapped \in BOOLEAN
    BY <2>2 DEF Budgets
  <2>4. iterations <= Greater(request.tranche, request.ceiling)
    BY <2>1, <2>2, <2>3, RequestFacts DEF Greater
  <2>5. PICK a, q : a = budget.initial - budget.best /\ q = a \div Quantum
    OBVIOUS
  <2>6. a \in Nat /\ q \in Nat
    BY <2>1, <2>2, <2>3, <2>5, QuotientOf
  <2>7. (Grace + 1) * q \in Nat
    BY <2>1, <2>6, Products
  <2>8. CASE ~budget.snapped
    BY <2>1, <2>3, <2>5, <2>7, <2>4, <2>8 DEF BudgetOK, BudgetIsEarned
  <2>9. CASE budget.snapped
    <3>1. PICK b, x : b = budget.initial - budget.ref /\ x = b \div Quantum
      OBVIOUS
    <3>2. /\ budget.best <= budget.ref /\ budget.ref <= budget.initial
          /\ budget.granted <= budget.grace + (Grace + 1) * x
      BY <2>1, <2>9, <3>1 DEF BudgetOK
    <3>3. b \in Nat /\ b <= a
      BY <2>3, <2>5, <3>1, <3>2
    <3>4. x \in Nat /\ x <= q
      BY <2>1, <2>5, <2>6, <3>1, <3>3, QuotientOf, QuotientGrows
    <3>5. (Grace + 1) * x <= (Grace + 1) * q /\ (Grace + 1) * x \in Nat
      <4>1. PICK z \in Nat : q = x + z
        <5>1. q - x \in Nat /\ q = x + (q - x)
          BY <2>6, <3>4
        <5> QED
          BY <5>1
      <4>2. (Grace + 1) * q = (Grace + 1) * x + (Grace + 1) * z
        BY <2>1, <3>4, <4>1
      <4>3. (Grace + 1) * x \in Nat /\ (Grace + 1) * z \in Nat
        BY <2>1, <3>4, <4>1, Products
      <4> QED
        BY <4>2, <4>3
    <3>6. budget.granted <= Grace + (Grace + 1) * q
      BY <2>1, <2>3, <2>7, <3>2, <3>5
    <3> QED
      BY <2>4, <2>5, <3>6 DEF BudgetIsEarned
  <2> QED
    BY <2>3, <2>8, <2>9
<1> QED
  BY <1>1, GridInvariant, PTL
----------------------------------------------------------------------------
(* Routes.  A function that gives every node the way to it is unique, and  *)
(* the ways to visited nodes are what the node store says step by step.    *)
Paths(f) ==
  f = [n \in Nodes |-> IF Parent(n) = None THEN <<n>> ELSE Append(f[Parent(n)], n)]

(* The moves among the steps of p that come before its k-th node.          *)
MovesBefore(p, k) == {j \in 1..(k - 1) : ~HasVia(p, j)}

Way(p, n) ==
  /\ p \in Seq(Nodes) /\ Len(p) >= 1 /\ p[Len(p)] = n
  /\ p[1] \in Sources /\ Parent(p[1]) = None
  /\ \A i \in 1..(Len(p) - 1) : p[i] \in closed /\ Parent(p[i + 1]) = p[i]
  /\ \A k \in 1..Len(p) : node[p[k]].steps = Cardinality(MovesBefore(p, k))
  /\ request.radius > 0 =>
       \A k \in 1..Len(p) : \A i \in 1..(k - 1) :
         HasVia(p, i) /\ Cell(p[i]) \notin request.freeVias => Cell(p[i]) \in pathVias[p[k]]

Ways(f) == \A n \in Nodes : Visited(n) => Way(f[n], n)

WaysKnown == \E f : Paths(f) /\ (\A h : Paths(h) => h = f) /\ Ways(f)

GoalReached ==
  outcome = "found" => goal \in Targets /\ Visited(goal) /\ ArrivalOK(goal)

LEMMA PathIsThatWay ==
  ASSUME NEW f, Paths(f), \A h : Paths(h) => h = f, NEW t
  PROVE  PathTo(t) = f[t]
<1> DEFINE F == CHOOSE g : g = [n \in Nodes |->
                  IF Parent(n) = None THEN <<n>> ELSE Append(g[Parent(n)], n)]
<1>1. Paths(F)
  BY DEF Paths
<1>2. F = f
  BY <1>1
<1>3. PathTo(t) = F[t]
  BY DEF PathTo
<1> QED
  BY <1>2, <1>3

LEMMA Appended ==
  ASSUME NEW S, NEW p \in Seq(S), NEW m \in S
  PROVE  /\ Append(p, m) \in Seq(S) /\ Len(Append(p, m)) = Len(p) + 1 /\ Len(p) \in Nat
         /\ \A i \in 1..Len(p) : Append(p, m)[i] = p[i]
         /\ Append(p, m)[Len(p) + 1] = m
  OBVIOUS

LEMMA NodesOfAWay ==
  ASSUME NEW p \in Seq(Nodes)
  PROVE  Len(p) \in Nat /\ \A i \in 1..Len(p) : p[i] \in Nodes
  OBVIOUS

(* A step to a reached node is a via when it stays in its cell.            *)
LEMMA ReachedHeading ==
  ASSUME TreeInv, NEW n \in Nodes, NEW m \in Reached(n)
  PROVE  Cell(n) # Cell(m) => Delta(n, m) \in Dirs /\ Delta(n, m) # None
<1>1. None \notin Dirs
  BY NoneAssumption DEF Dirs
<1> QED
  BY <1>1, ReachedParts

LEMMA ViasOfALongerWay ==
  ASSUME TreeInv, NEW p \in Seq(Nodes), Len(p) >= 1, NEW m \in Reached(p[Len(p)])
  PROVE  /\ \A i \in 1..(Len(p) - 1) : HasVia(Append(p, m), i) <=> HasVia(p, i)
         /\ HasVia(Append(p, m), Len(p)) <=> Cell(p[Len(p)]) = Cell(m)
<1>1. PICK q, k : q = Append(p, m) /\ k = Len(p)
  OBVIOUS
<1>2. k \in Nat /\ k >= 1 /\ p[k] \in Nodes
  BY <1>1, NodesOfAWay
<1>3. m \in Nodes
  BY <1>1, <1>2, ReachedParts
<1>4. Len(q) = k + 1 /\ (\A i \in 1..k : q[i] = p[i]) /\ q[k + 1] = m
  BY <1>1, <1>3, Appended
<1>5. \A i \in 1..(k - 1) : HasVia(q, i) <=> HasVia(p, i)
  <2> TAKE i \in 1..(k - 1)
  <2>1. i \in 1..k /\ i + 1 \in 1..k /\ i \in 1..(Len(q) - 1)
    BY <1>2, <1>4
  <2>2. q[i] = p[i] /\ q[i + 1] = p[i + 1]
    BY <1>4, <2>1
  <2>3. Heading(q, i) = Heading(p, i)
    BY <2>2 DEF Heading
  <2> QED
    BY <1>1, <2>1, <2>3 DEF HasVia
<1>6. HasVia(q, k) <=> Cell(p[k]) = Cell(m)
  <2>1. k \in 1..(Len(q) - 1) /\ q[k] = p[k] /\ q[k + 1] = m
    BY <1>2, <1>4
  <2>2. Heading(q, k) = IF Cell(p[k]) = Cell(m) THEN None ELSE Delta(p[k], m)
    BY <2>1 DEF Heading
  <2>3. Cell(p[k]) # Cell(m) => Delta(p[k], m) # None
    BY <1>1, <1>2, ReachedHeading
  <2> QED
    BY <2>1, <2>2, <2>3 DEF HasVia
<1> QED
  BY <1>1, <1>5, <1>6

LEMMA MovesOfALongerWay ==
  ASSUME TreeInv, NEW p \in Seq(Nodes), Len(p) >= 1, NEW m \in Reached(p[Len(p)])
  PROVE  /\ \A k \in 1..Len(p) : MovesBefore(Append(p, m), k) = MovesBefore(p, k)
         /\ Cardinality(MovesBefore(Append(p, m), Len(p) + 1)) =
              Cardinality(MovesBefore(p, Len(p))) + (IF Cell(p[Len(p)]) = Cell(m) THEN 0 ELSE 1)
<1>1. PICK q, k : q = Append(p, m) /\ k = Len(p)
  OBVIOUS
<1>2. k \in Nat /\ k >= 1
  BY <1>1, NodesOfAWay
<1>3. /\ \A i \in 1..(k - 1) : HasVia(q, i) <=> HasVia(p, i)
      /\ HasVia(q, k) <=> Cell(p[k]) = Cell(m)
  BY <1>1, ViasOfALongerWay
<1>4. \A i \in 1..k : MovesBefore(q, i) = MovesBefore(p, i)
  <2> TAKE i \in 1..k
  <2>1. \A j \in 1..(i - 1) : j \in 1..(k - 1)
    BY <1>2
  <2> QED
    BY <1>3, <2>1 DEF MovesBefore
<1>5. PICK S : S = MovesBefore(p, k)
  OBVIOUS
<1>6. IsFiniteSet(S) /\ Cardinality(S) \in Nat
  <2>1. IsFiniteSet(1..(k - 1))
    <3>1. 1 \in Int /\ k - 1 \in Int
      BY <1>2
    <3> QED
      BY ONLY <3>1, FS_Interval
  <2>2. S \subseteq 1..(k - 1)
    BY <1>5 DEF MovesBefore
  <2> QED
    BY <2>1, <2>2, FS_Subset, FS_CardinalityType
<1>7. MovesBefore(q, k + 1) = IF Cell(p[k]) = Cell(m) THEN S ELSE S \cup {k}
  <2>1. \A j : j \in 1..((k + 1) - 1) <=> j \in 1..(k - 1) \/ j = k
    BY <1>2
  <2> QED
    BY <1>3, <1>5, <2>1 DEF MovesBefore
<1>8. k \notin S
  BY <1>2, <1>5 DEF MovesBefore
<1>9. Cardinality(S \cup {k}) = Cardinality(S) + 1
  BY <1>6, <1>8, FS_AddElement
<1>10. Cardinality(MovesBefore(q, k + 1)) = Cardinality(S) + (IF Cell(p[k]) = Cell(m) THEN 0 ELSE 1)
  BY <1>6, <1>7, <1>9
<1> QED
  BY <1>1, <1>4, <1>5, <1>10

(* What an expansion leaves alone leaves the way to it alone.              *)
LEMMA WayIsKept ==
  ASSUME TreeInv, NEW e, NEW n, NEW better, Expansion(e, n, better),
         NEW k \in Nodes \ better, NEW p, Way(p, k)
  PROVE  Way(p, k)'
<1>1. /\ request' = request /\ Nodes' = Nodes /\ Sources' = Sources /\ closed' = closed \cup {n}
      /\ \A m \in better : m \notin closed
      /\ \A m \in Nodes \ better : node'[m] = node[m] /\ pathVias'[m] = pathVias[m]
  BY ExpansionStores DEF Sources
<1>2. /\ p \in Seq(Nodes) /\ Len(p) >= 1 /\ p[Len(p)] = k /\ p[1] \in Sources /\ Parent(p[1]) = None
      /\ \A i \in 1..(Len(p) - 1) : p[i] \in closed /\ Parent(p[i + 1]) = p[i]
      /\ \A j \in 1..Len(p) : node[p[j]].steps = Cardinality(MovesBefore(p, j))
      /\ request.radius > 0 =>
           \A j \in 1..Len(p) : \A i \in 1..(j - 1) :
             HasVia(p, i) /\ Cell(p[i]) \notin request.freeVias => Cell(p[i]) \in pathVias[p[j]]
  BY DEF Way
<1>3. Len(p) \in Nat /\ \A i \in 1..Len(p) : p[i] \in Nodes
  BY <1>2, NodesOfAWay
<1>4. \A i \in 1..Len(p) : p[i] \in Nodes \ better
  <2> TAKE i \in 1..Len(p)
  <2>1. i = Len(p) \/ i \in 1..(Len(p) - 1)
    BY <1>3
  <2> QED
    BY <1>1, <1>2, <1>3, <2>1
<1>5. \A i \in 1..Len(p) : /\ node'[p[i]] = node[p[i]] /\ pathVias'[p[i]] = pathVias[p[i]]
                           /\ node'[p[i]].parent = node[p[i]].parent
  BY <1>1, <1>4
<1>6. node'[p[1]].parent = None
  BY <1>2, <1>3, <1>5 DEF Parent
<1>7. ASSUME NEW i \in 1..(Len(p) - 1)
      PROVE  p[i] \in closed' /\ node'[p[i + 1]].parent = p[i]
  <2>1. i + 1 \in 1..Len(p)
    BY <1>3
  <2> QED
    BY <1>1, <1>2, <1>5, <2>1 DEF Parent
<1>8. \A j \in 1..Len(p) : node'[p[j]].steps = Cardinality(MovesBefore(p, j))
  BY <1>2, <1>5
<1>9. request'.radius > 0 =>
        \A j \in 1..Len(p) : \A i \in 1..(j - 1) :
          HasVia(p, i) /\ Cell(p[i]) \notin request'.freeVias => Cell(p[i]) \in pathVias'[p[j]]
  BY <1>1, <1>2, <1>5
<1> QED
  BY <1>1, <1>2, <1>6, <1>7, <1>8, <1>9 DEF Way, Parent

(* The way to a node that gets better leads through the expanded one.      *)
LEMMA WayIsExtended ==
  ASSUME TreeInv, NEW e, NEW n, NEW better, Expansion(e, n, better),
         NEW m \in better, NEW p, Way(p, n)
  PROVE  Way(Append(p, m), m)'
<1>1. /\ request' = request /\ Nodes' = Nodes /\ Sources' = Sources /\ closed' = closed \cup {n}
      /\ n \in Nodes \ better /\ m \in Nodes /\ m \in Reached(n)
      /\ node'[m].parent = n /\ pathVias'[m] = ViasOnWay(n, m)
      /\ node'[n] = node[n] /\ pathVias'[n] = pathVias[n]
  BY ExpansionStores DEF Sources
<1>2. node'[m].steps = node[n].steps + (IF Cell(n) = Cell(m) THEN 0 ELSE 1)
  <2>1. node'[m] = Relaxed(n, e.g, m)
    BY <1>1 DEF Expansion, ExpandNode
  <2> QED
    BY <2>1 DEF Relaxed
<1>3. Way(p, n)'
  BY <1>1, WayIsKept
<1>4. /\ p \in Seq(Nodes) /\ Len(p) >= 1 /\ p[Len(p)] = n /\ p[1] \in Sources
      /\ node'[p[1]].parent = None
      /\ \A i \in 1..(Len(p) - 1) : p[i] \in closed' /\ node'[p[i + 1]].parent = p[i]
      /\ \A j \in 1..Len(p) : node'[p[j]].steps = Cardinality(MovesBefore(p, j))
      /\ request.radius > 0 =>
           \A j \in 1..Len(p) : \A i \in 1..(j - 1) :
             HasVia(p, i) /\ Cell(p[i]) \notin request.freeVias => Cell(p[i]) \in pathVias'[p[j]]
  BY <1>1, <1>3 DEF Way, Parent
<1>5. PICK q, l : q = Append(p, m) /\ l = Len(p)
  OBVIOUS
<1>6. /\ q \in Seq(Nodes) /\ Len(q) = l + 1 /\ l \in Nat /\ l >= 1 /\ q[l + 1] = m
      /\ \A i \in 1..l : q[i] = p[i]
      /\ p[l] = n
  BY <1>1, <1>4, <1>5, Appended
<1>7. /\ \A i \in 1..(l - 1) : HasVia(q, i) <=> HasVia(p, i)
      /\ HasVia(q, l) <=> Cell(n) = Cell(m)
  BY <1>1, <1>4, <1>5, ViasOfALongerWay
<1>8. q[1] \in Sources /\ node'[q[1]].parent = None
  BY <1>4, <1>6
<1>9. ASSUME NEW i \in 1..l
      PROVE  q[i] \in closed' /\ node'[q[i + 1]].parent = q[i]
  <2>1. CASE i = l
    BY <1>1, <1>6, <2>1
  <2>2. CASE i # l
    <3>1. i \in 1..(l - 1) /\ i + 1 \in 1..l
      BY <1>6, <2>2
    <3> QED
      BY <1>4, <1>5, <1>6, <3>1
  <2> QED
    BY <2>1, <2>2
<1>10. ASSUME NEW k \in 1..(l + 1)
       PROVE  node'[q[k]].steps = Cardinality(MovesBefore(q, k))
  <2>1. CASE k = l + 1
    <3>1. node[n].steps = Cardinality(MovesBefore(p, l))
      BY <1>1, <1>4, <1>5, <1>6
    <3>2. Cardinality(MovesBefore(q, l + 1)) =
            Cardinality(MovesBefore(p, l)) + (IF Cell(n) = Cell(m) THEN 0 ELSE 1)
      BY <1>1, <1>4, <1>5, MovesOfALongerWay
    <3> QED
      BY <1>2, <1>6, <2>1, <3>1, <3>2
  <2>2. CASE k # l + 1
    <3>1. k \in 1..l
      BY <1>6, <2>2
    <3>2. MovesBefore(q, k) = MovesBefore(p, k)
      BY <1>1, <1>4, <1>5, <3>1, MovesOfALongerWay
    <3> QED
      BY <1>4, <1>5, <1>6, <3>1, <3>2
  <2> QED
    BY <2>1, <2>2
<1>11. ASSUME request.radius > 0, NEW k \in 1..(l + 1), NEW i \in 1..(k - 1),
              HasVia(q, i), Cell(q[i]) \notin request.freeVias
       PROVE  Cell(q[i]) \in pathVias'[q[k]]
  <2>0. i \in 1..l
    BY <1>6
  <2>1. CASE k = l + 1
    <3>1. q[k] = m /\ pathVias[n] \subseteq ViasOnWay(n, m)
      BY <1>6, <2>1 DEF ViasOnWay
    <3>2. CASE i = l
      <4>1. q[i] = n /\ Cell(n) = Cell(m)
        BY <1>6, <1>7, <1>11, <3>2
      <4> QED
        BY <1>1, <1>11, <3>1, <4>1 DEF ViasOnWay
    <3>3. CASE i # l
      <4>1. i \in 1..(l - 1) /\ l \in 1..l
        BY <1>6, <2>0, <3>3
      <4>2. Cell(p[i]) \in pathVias'[p[l]]
        BY <1>4, <1>5, <1>6, <1>7, <1>11, <2>0, <4>1
      <4> QED
        BY <1>1, <1>6, <2>0, <3>1, <4>2
    <3> QED
      BY <3>2, <3>3
  <2>2. CASE k # l + 1
    <3>1. k \in 1..l /\ i \in 1..(l - 1)
      BY <1>6, <2>2
    <3> QED
      BY <1>4, <1>5, <1>6, <1>7, <1>11, <2>0, <3>1
  <2> QED
    BY <2>1, <2>2
<1>12. Way(q, m)'
  <2>1. Len(q) - 1 = l /\ Len(q) >= 1 /\ q[Len(q)] = m
    BY <1>6
  <2> QED
    BY <1>1, <1>6, <1>8, <1>9, <1>10, <1>11, <2>1 DEF Way, Parent
<1> QED
  BY <1>5, <1>12

(* An expansion changes the function of ways only where a way got better,  *)
(* and leaves it unique.                                                   *)
LEMMA ExpansionKeepsWays ==
  ASSUME TreeInv, NEW e, NEW n, NEW better, Expansion(e, n, better), WaysKnown
  PROVE  WaysKnown'
<1>1. /\ Nodes' = Nodes /\ n \in Nodes \ better /\ better \subseteq Nodes
      /\ \A m \in better : node'[m].parent = n /\ m \notin closed
      /\ \A m \in Nodes \ better : node'[m] = node[m]
      /\ None \notin Nodes
  BY ExpansionStores, StoreTypes
<1>2. PICK f : Paths(f) /\ (\A h : Paths(h) => h = f) /\ Ways(f)
  BY DEF WaysKnown
<1>3. DOMAIN f = Nodes
      /\ \A m \in Nodes : f[m] = IF node[m].parent = None THEN <<m>>
                                 ELSE Append(f[node[m].parent], m)
  BY <1>2 DEF Paths, Parent
<1>4. \A m \in Nodes : node[m].parent # None => node[m].parent \in Nodes \ better
  BY <1>1, StoreTypes DEF TreeInv, TreeIsLegal, Parent
<1>5. PICK g : g = [m \in Nodes |-> IF m \in better THEN Append(f[n], m) ELSE f[m]]
  OBVIOUS
<1>6. Paths(g)'
  <2>1. \A m \in Nodes : g[m] = IF node'[m].parent = None THEN <<m>>
                                ELSE Append(g[node'[m].parent], m)
    <3> TAKE m \in Nodes
    <3>1. CASE m \in better
      <4>1. g[m] = Append(f[n], m) /\ g[n] = f[n] /\ node'[m].parent = n
        BY <1>1, <1>5, <3>1
      <4> QED
        BY <1>1, <4>1
    <3>2. CASE m \notin better
      <4>1. g[m] = f[m] /\ node'[m] = node[m]
        BY <1>1, <1>5, <3>2
      <4>2. node[m].parent # None => g[node[m].parent] = f[node[m].parent]
        BY <1>4, <1>5
      <4> QED
        BY <1>3, <4>1, <4>2
    <3> QED
      BY <3>1, <3>2
  <2>2. g = [m \in Nodes |-> IF node'[m].parent = None THEN <<m>>
                             ELSE Append(g[node'[m].parent], m)]
    <3>1. g = [m \in Nodes |-> g[m]]
      BY <1>5
    <3> QED
      BY <2>1, <3>1
  <2> QED
    BY <1>1, <2>2 DEF Paths, Parent
<1>7. ASSUME NEW h, Paths(h)' PROVE h = g
  <2>1. h = [m \in Nodes |-> IF node'[m].parent = None THEN <<m>>
                             ELSE Append(h[node'[m].parent], m)]
    BY <1>1, <1>7 DEF Paths, Parent
  <2>2. \A m \in Nodes : h[m] = IF node'[m].parent = None THEN <<m>>
                                ELSE Append(h[node'[m].parent], m)
    BY <2>1
  <2>3. PICK i : i = [m \in Nodes |-> IF m \in better THEN f[m] ELSE h[m]]
    OBVIOUS
  <2>4. PICK j : j = [m \in Nodes |-> IF node[m].parent = None THEN <<m>>
                                      ELSE Append(i[node[m].parent], m)]
    OBVIOUS
  <2>5. PICK o : o = [m \in Nodes |-> IF m \in better THEN j[m] ELSE h[m]]
    OBVIOUS
  <2>6. \A m \in Nodes : node[m].parent # None =>
          i[node[m].parent] = h[node[m].parent] /\ o[node[m].parent] = h[node[m].parent]
    BY <1>4, <2>3, <2>5
  <2>7. \A m \in Nodes : o[m] = IF node[m].parent = None THEN <<m>>
                                ELSE Append(o[node[m].parent], m)
    <3> TAKE m \in Nodes
    <3>1. CASE m \in better
      <4>1. o[m] = j[m]
        BY <2>5, <3>1
      <4> QED
        BY <2>4, <2>6, <4>1
    <3>2. CASE m \notin better
      <4>1. o[m] = h[m] /\ node'[m] = node[m]
        BY <1>1, <2>5, <3>2
      <4> QED
        BY <2>2, <2>6, <4>1
    <3> QED
      BY <3>1, <3>2
  <2>8. Paths(o)
    <3>1. o = [m \in Nodes |-> o[m]]
      BY <2>5
    <3> QED
      BY <2>7, <3>1 DEF Paths, Parent
  <2>9. o = f
    BY <1>2, <2>8
  <2>10. \A m \in Nodes \ better : h[m] = f[m]
    BY <2>5, <2>9
  <2>11. \A m \in Nodes : h[m] = g[m]
    <3> TAKE m \in Nodes
    <3>1. CASE m \in better
      <4>1. h[m] = Append(h[n], m)
        BY <1>1, <2>2, <3>1
      <4> QED
        BY <1>1, <1>5, <2>10, <3>1, <4>1
    <3>2. CASE m \notin better
      BY <1>5, <2>10, <3>2
    <3> QED
      BY <3>1, <3>2
  <2>12. h = [m \in Nodes |-> h[m]] /\ g = [m \in Nodes |-> g[m]]
    BY <1>5, <2>1
  <2> QED
    BY <2>11, <2>12
<1>8. ASSUME NEW m \in Nodes, Visited(m)' PROVE Way(g[m], m)'
  <2>1. CASE m \in better
    <3>1. Visited(n)
      BY StoreTypes DEF Expansion
    <3>2. Way(f[n], n)
      BY <1>1, <1>2, <3>1 DEF Ways
    <3>3. Way(Append(f[n], m), m)'
      BY <2>1, <3>2, WayIsExtended
    <3>4. g[m] = Append(f[n], m)
      BY <1>5, <2>1
    <3> QED
      BY <3>3, <3>4
  <2>2. CASE m \notin better
    <3>1. Visited(m)
      BY <1>1, <1>8, <2>2 DEF Visited
    <3>2. Way(f[m], m)
      BY <1>2, <3>1 DEF Ways
    <3>3. Way(f[m], m)'
      BY <2>2, <3>2, WayIsKept
    <3>4. g[m] = f[m]
      BY <1>5, <2>2
    <3> QED
      BY <3>3, <3>4
  <2> QED
    BY <2>1, <2>2
<1>9. Ways(g)'
  BY <1>1, <1>8 DEF Ways
<1> QED
  BY <1>6, <1>7, <1>9 DEF WaysKnown

RouteInv == WaysKnown /\ GoalReached

LEMMA RouteInit ==
  ASSUME Init, GridInv
  PROVE  RouteInv
<1>1. /\ node = [n \in Nodes |-> IF n \in Sources
                                 THEN [g |-> SourceG(n), parent |-> None, steps |-> 0]
                                 ELSE Unvisited]
      /\ outcome = "searching"
  BY DEF Init
<1>2. \A n \in Nodes : node[n].parent = None /\ node[n].steps = 0 /\ (Visited(n) => n \in Sources)
  BY <1>1 DEF Unvisited, Visited
<1>3. PICK f : f = [n \in Nodes |-> <<n>>]
  OBVIOUS
<1>4. \A h : Paths(h) <=> h = f
  <2> TAKE h
  <2>1. Paths(h) <=> h = [n \in Nodes |-> IF node[n].parent = None THEN <<n>>
                                          ELSE Append(h[node[n].parent], n)]
    BY DEF Paths, Parent
  <2>2. [n \in Nodes |-> IF node[n].parent = None THEN <<n>>
                         ELSE Append(h[node[n].parent], n)] = [n \in Nodes |-> <<n>>]
    BY <1>2
  <2> QED
    BY <1>3, <2>1, <2>2
<1>5. ASSUME NEW n \in Nodes, Visited(n) PROVE Way(f[n], n)
  <2>1. PICK p : p = <<n>>
    OBVIOUS
  <2>2. p \in Seq(Nodes) /\ Len(p) = 1 /\ p[1] = n
    BY <2>1
  <2>3. p[1] \in Sources /\ node[p[1]].parent = None
    BY <1>2, <1>5, <2>2
  <2>4. \A i \in 1..0 : FALSE
    OBVIOUS
  <2>5. \A k \in 1..1 : k = 1
    OBVIOUS
  <2>6. \A i \in 1..(1 - 1) : FALSE
    OBVIOUS
  <2>7. MovesBefore(p, 1) = {}
    BY <2>6 DEF MovesBefore
  <2>8. \A k \in 1..1 : node[p[k]].steps = Cardinality(MovesBefore(p, k))
    BY <1>2, <2>2, <2>5, <2>7, FS_EmptySet
  <2>9. Way(p, n)
    BY <2>2, <2>3, <2>5, <2>6, <2>8 DEF Way, Parent
  <2> QED
    BY <1>3, <2>1, <2>9
<1>6. Ways(f)
  BY <1>5 DEF Ways
<1> QED
  BY <1>1, <1>4, <1>6 DEF RouteInv, WaysKnown, GoalReached

(* A step that leaves the node store as it is leaves the ways as they are. *)
LEMMA QuietKeepsWays ==
  ASSUME WaysKnown, UNCHANGED <<request, node, closed, pathVias>>
  PROVE  WaysKnown'
<1>1. Nodes' = Nodes /\ Sources' = Sources
  BY DEF Nodes, Sources
<1>2. \A p, n : Way(p, n)' <=> Way(p, n)
  BY <1>1 DEF Way, Parent
<1>3. \A f : Paths(f)' <=> Paths(f)
  BY <1>1 DEF Paths, Parent
<1>4. \A f : Ways(f)' <=> Ways(f)
  BY <1>1, <1>2 DEF Ways, Visited
<1> QED
  BY <1>3, <1>4 DEF WaysKnown

LEMMA ExpandExpands ==
  ASSUME GridInv, outcome = "searching", Expand
  PROVE  \E e, n, better : Expansion(e, n, better) /\ IsTop(e)
<1>a. TreeInv /\ AwaitedAreOpen
  BY DEF GridInv
<1>1. PICK e \in open : /\ e.at \notin closed \cup Targets /\ Pop(e, TRUE)
                        /\ ExpandNode(e, Improved(e.at, e.g))
  BY DEF Expand
<1>2. UNCHANGED <<board, outcome>>
  BY DEF Expand
<1>3. e \in [f : Int, g : Int, at : Nodes, order : Int]
  BY <1>a DEF TreeInv, EntriesPriced
<1>4. e.g = node[e.at].g /\ node[e.at].g \in Int
  BY <1>a, <1>1, TopIsCurrent DEF Pop
<1>5. Expansion(e, e.at, Improved(e.at, e.g)) /\ IsTop(e)
  BY <1>1, <1>2, <1>3, <1>4 DEF Expansion, Pop
<1> QED
  BY <1>5

LEMMA RouteNext ==
  ASSUME GridInv, RouteInv, [Next]_vars
  PROVE  RouteInv'
<1>1. CASE Expand /\ outcome = "searching"
  <2>1. PICK e, n, better : Expansion(e, n, better)
    BY <1>1, ExpandExpands
  <2>2. WaysKnown'
    BY <2>1, ExpansionKeepsWays DEF GridInv, RouteInv
  <2>3. outcome' = "searching"
    BY <1>1 DEF Expand
  <2> QED
    BY <2>2, <2>3 DEF RouteInv, GoalReached
<1>2. CASE Arrive /\ outcome = "searching"
  <2>1. UNCHANGED <<request, node, closed, pathVias>>
    BY <1>2 DEF Arrive, board
  <2>2. PICK e \in open : /\ e.at \in Targets
                          /\ IF ArrivalOK(e.at) THEN outcome' = "found" /\ goal' = e.at
                             ELSE UNCHANGED <<outcome, goal>>
    BY <1>2 DEF Arrive
  <2>3. Visited(e.at)
    BY <2>2 DEF GridInv, TreeInv, TypeOK
  <2>4. GoalReached'
    <3>1. Targets' = Targets /\ \A n : Visited(n)' = Visited(n) /\ ArrivalOK(n)' = ArrivalOK(n)
      BY <2>1 DEF Targets, Visited, ArrivalOK, Approach, Parent
    <3>2. CASE ArrivalOK(e.at)
      <4>1. goal' = e.at
        BY <2>2, <3>2
      <4>2. \A n : n = goal' => (Visited(n)' <=> Visited(goal)') /\ (ArrivalOK(n)' <=> ArrivalOK(goal)')
        BY DEF Visited, ArrivalOK, Approach, Parent
      <4> QED
        BY <2>2, <2>3, <3>1, <3>2, <4>1, <4>2 DEF GoalReached
    <3>3. CASE ~ArrivalOK(e.at)
      BY <1>2, <2>2, <3>3 DEF GoalReached
    <3> QED
      BY <3>2, <3>3
  <2> QED
    BY <2>1, <2>4, QuietKeepsWays DEF RouteInv
<1>3. CASE \/ (Exhausted \/ Capped \/ DuplicateSkip) /\ outcome = "searching"
           \/ UNCHANGED vars
  <2>1. UNCHANGED <<request, node, closed, pathVias, goal>>
    BY <1>3 DEF Exhausted, Capped, DuplicateSkip, board, vars
  <2>2. outcome' = "found" => outcome = "found"
    BY <1>3 DEF Exhausted, Capped, DuplicateSkip, vars
  <2>3. GoalReached'
    BY <2>1, <2>2 DEF RouteInv, GoalReached, Targets, Visited, ArrivalOK, Approach, Parent
  <2> QED
    BY <2>1, <2>3, QuietKeepsWays DEF RouteInv
<1> QED
  BY <1>1, <1>2, <1>3 DEF Next

LEMMA RouteInvariant == Spec => [](GridInv /\ RouteInv)
<1>1. Init => GridInv /\ RouteInv
  BY GridInit, RouteInit
<1>2. GridInv /\ RouteInv /\ [Next]_vars => (GridInv /\ RouteInv)'
  BY GridNext, RouteNext
<1> QED
  BY <1>1, <1>2, PTL DEF Spec
----------------------------------------------------------------------------
(* The rules, read off a way.                                              *)

(* What the k-th step of a way is, when it is known for the node it leaves. *)
LEMMA StepOfAWay ==
  ASSUME TreeInv, NEW p, NEW n, Way(p, n), NEW i \in 1..(Len(p) - 1)
  PROVE  /\ i \in Nat /\ i \in 1..Len(p) /\ i + 1 \in 1..Len(p)
         /\ p[i] \in Nodes /\ p[i + 1] \in Nodes /\ p[i] # None
         /\ Parent(p[i + 1]) = p[i] /\ Approach(p[i + 1]) = Heading(p, i)
         /\ p[i + 1] \in Reached(p[i])
         /\ HasVia(p, i) <=> Cell(p[i]) = Cell(p[i + 1])
         /\ HasVia(p, i) <=> IsVia(p[i], p[i + 1])
         /\ HasVia(p, i) <=> Heading(p, i) = None
<1>1. /\ p \in Seq(Nodes) /\ Parent(p[i + 1]) = p[i]
  BY DEF Way
<1>2. Len(p) \in Nat /\ \A j \in 1..Len(p) : p[j] \in Nodes
  BY <1>1, NodesOfAWay
<1>3. i \in Nat /\ i \in 1..Len(p) /\ i + 1 \in 1..Len(p)
  BY <1>2
<1>4. p[i] \in Nodes /\ p[i + 1] \in Nodes /\ p[i] # None /\ p[i + 1] # None
  BY <1>2, <1>3, StoreTypes
<1>5. p[i + 1] \in Reached(p[i])
  BY <1>1, <1>4 DEF TreeInv, TreeIsLegal
<1>6. Approach(p[i + 1]) = Heading(p, i)
  BY <1>1, <1>4 DEF Approach, Heading
<1>7. HasVia(p, i) <=> Heading(p, i) = None
  BY DEF HasVia
<1>8. Heading(p, i) = None <=> Cell(p[i]) = Cell(p[i + 1])
  BY <1>4, <1>5, ReachedHeading DEF Heading
<1>9. IsVia(p[i], p[i + 1]) <=> Cell(p[i]) = Cell(p[i + 1])
  BY <1>4, <1>5, ReachedParts DEF IsVia
<1> QED
  BY <1>1, <1>3, <1>4, <1>5, <1>6, <1>7, <1>8, <1>9

(* A step in the plane took an allowed direction; a step between layers is *)
(* a legal via.                                                            *)
LEMMA ReachedByRule ==
  ASSUME TreeInv, NEW n \in Nodes, NEW m \in Reached(n)
  PROVE  /\ LegalStep(n, m, blocked)
         /\ Cell(n) # Cell(m) =>
              /\ Delta(n, m) \in ViaDirections(n)
              /\ request.startDir # None /\ node[n].steps < DirectionSteps =>
                   Within45(Delta(n, m), request.startDir)
         /\ Cell(n) = Cell(m) => ViaLegal(n)
<1>0. request \in Requests
  BY StoreTypes
<1>1. m \in Nodes \ blocked
  BY ReachedParts
<1>2. CASE m \in Moves(n) /\ Cell(m) # Cell(n)
  <2>1. PICK d \in ViaDirections(n) :
          /\ m = Step(n, d) /\ ~Forbidden(n[3])
          /\ request.startDir # None /\ node[n].steps < DirectionSteps =>
               Within45(d, request.startDir)
    BY <1>2 DEF Moves
  <2>2. d \in Dirs
    BY <2>1, ViaDirectionsAreDirections
  <2>3. Delta(n, m) = d /\ m[3] = n[3] /\ Distance(Cell(n), Cell(m)) = 1
    BY <1>0, <2>1, <2>2, StepsOfADirection
  <2> QED
    BY <1>1, <1>2, <2>1, <2>3 DEF LegalStep
<1>3. CASE m \in Vias(n) /\ Cell(m) = Cell(n)
  <2>1. ViaLegal(n) /\ \E l \in LayerIds \ {n[3]} : m = <<n[1], n[2], l>> /\ ~Forbidden(l)
    BY <1>3 DEF Vias
  <2>2. m[3] # n[3] /\ ~Forbidden(m[3])
    BY <2>1
  <2> QED
    BY <1>1, <1>3, <2>1, <2>2 DEF LegalStep, ViaLegal
<1> QED
  BY <1>2, <1>3, ReachedParts

(* The moves a via on the way leaves open: the two after it keep the       *)
(* direction before it, the third stays within 45 degrees of it.           *)
LEMMA ViaKeepsDirection ==
  ASSUME TreeInv, request.collinear, NEW p, NEW n, Way(p, n), NEW i \in 1..(Len(p) - 1),
         HasVia(p, i)
  PROVE  StraightAround(p, i)
<1>1. /\ i \in Nat /\ i \in 1..Len(p) /\ p[i] \in Nodes /\ p[i] # None
      /\ p[i + 1] \in Nodes /\ p[i + 1] # None
      /\ p[i + 1] \in Reached(p[i]) /\ Cell(p[i]) = Cell(p[i + 1])
      /\ Parent(p[i + 1]) = p[i] /\ Approach(p[i + 1]) = None /\ IsVia(p[i], p[i + 1])
  <2>1. p[i + 1] # None
    BY StepOfAWay, StoreTypes
  <2> QED
    BY <2>1, StepOfAWay
<1>2. Len(p) \in Nat /\ Parent(p[1]) = None
  BY NodesOfAWay DEF Way
<1>3. RunsStraight(p[i])
  BY <1>1, ReachedByRule DEF ViaLegal
<1>4. i # 1
  BY <1>2, <1>3 DEF RunsStraight
<1>5. PICK a : a = Approach(p[i])
  OBVIOUS
<1>6. i - 1 \in 1..(Len(p) - 1) /\ (i - 1) + 1 = i
  BY <1>1, <1>2, <1>4
<1>7. Parent(p[i]) = p[i - 1] /\ Heading(p, i - 1) = a
  BY <1>5, <1>6, StepOfAWay
<1>8. Parent(p[i - 1]) # None /\ a # None /\ Approach(p[i - 1]) # None /\ Within45(a, Approach(p[i - 1]))
  BY <1>3, <1>5, <1>7 DEF RunsStraight
<1>9. i - 1 # 1
  BY <1>2, <1>8
<1>10. i >= 3 /\ i - 2 \in 1..(Len(p) - 1) /\ (i - 2) + 1 = i - 1
  BY <1>1, <1>2, <1>4, <1>9
<1>11. Approach(p[i - 1]) = Heading(p, i - 2)
  BY <1>10, StepOfAWay
<1>12. ASSUME i + 1 < Len(p)
       PROVE  /\ Heading(p, i + 1) = a /\ p[i + 2] \in Nodes /\ p[i + 2] # None
              /\ Parent(p[i + 2]) = p[i + 1] /\ Approach(p[i + 2]) = a
              /\ ~IsVia(p[i + 1], p[i + 2])
  <2>1. i + 1 \in 1..(Len(p) - 1) /\ (i + 1) + 1 = i + 2
    BY <1>1, <1>2, <1>12
  <2>2. /\ p[i + 2] \in Nodes /\ Parent(p[i + 2]) = p[i + 1]
        /\ Approach(p[i + 2]) = Heading(p, i + 1) /\ p[i + 2] \in Reached(p[i + 1])
        /\ HasVia(p, i + 1) <=> Cell(p[i + 1]) = Cell(p[i + 2])
        /\ HasVia(p, i + 1) <=> IsVia(p[i + 1], p[i + 2])
    BY <2>1, StepOfAWay
  <2>3. ViaDirections(p[i + 1]) = {a}
    BY <1>1, <1>5, <1>8 DEF ViaDirections
  <2>4. Cell(p[i + 1]) # Cell(p[i + 2])
    <3> SUFFICES ASSUME Cell(p[i + 1]) = Cell(p[i + 2]) PROVE FALSE
      OBVIOUS
    <3>1. RunsStraight(p[i + 1])
      BY <1>1, <2>2, ReachedByRule DEF ViaLegal
    <3> QED
      BY <1>1, <3>1 DEF RunsStraight
  <2>5. Delta(p[i + 1], p[i + 2]) = a
    BY <1>1, <2>2, <2>3, <2>4, ReachedByRule
  <2>6. Heading(p, i + 1) = a
    BY <2>1, <2>4, <2>5 DEF Heading
  <2> QED
    BY <2>2, <2>4, <2>6, StoreTypes
<1>13. ASSUME i + 2 < Len(p)
       PROVE  /\ Heading(p, i + 2) = a /\ p[i + 3] \in Nodes
              /\ Parent(p[i + 3]) = p[i + 2]
              /\ ~IsVia(p[i + 2], p[i + 3])
  <2>0. /\ p[i + 2] \in Nodes /\ p[i + 2] # None /\ Parent(p[i + 2]) = p[i + 1]
        /\ ~IsVia(p[i + 1], p[i + 2])
    BY <1>1, <1>2, <1>12, <1>13
  <2>1. i + 2 \in 1..(Len(p) - 1) /\ (i + 2) + 1 = i + 3
    BY <1>1, <1>2, <1>13
  <2>2. /\ p[i + 3] \in Nodes /\ Parent(p[i + 3]) = p[i + 2]
        /\ p[i + 3] \in Reached(p[i + 2])
        /\ HasVia(p, i + 2) <=> Cell(p[i + 2]) = Cell(p[i + 3])
        /\ HasVia(p, i + 2) <=> IsVia(p[i + 2], p[i + 3])
    BY <2>1, StepOfAWay
  <2>3. ViaDirections(p[i + 2]) = {a}
    BY <1>1, <1>5, <1>8, <2>0 DEF ViaDirections
  <2>4. Cell(p[i + 2]) # Cell(p[i + 3])
    <3> SUFFICES ASSUME Cell(p[i + 2]) = Cell(p[i + 3]) PROVE FALSE
      OBVIOUS
    <3>1. RunsStraight(p[i + 2])
      BY <2>0, <2>2, ReachedByRule DEF ViaLegal
    <3> QED
      BY <1>1, <2>0, <3>1 DEF RunsStraight
  <2>5. Delta(p[i + 2], p[i + 3]) = a
    BY <2>0, <2>2, <2>3, <2>4, ReachedByRule
  <2>6. Heading(p, i + 2) = a
    BY <2>1, <2>4, <2>5 DEF Heading
  <2> QED
    BY <2>2, <2>4, <2>6
<1>14. ASSUME i + 3 < Len(p), ~HasVia(p, i + 3)
       PROVE  Within45(Heading(p, i + 3), a)
  <2>0. /\ p[i + 2] \in Nodes /\ p[i + 2] # None /\ Parent(p[i + 2]) = p[i + 1]
        /\ ~IsVia(p[i + 1], p[i + 2])
        /\ p[i + 3] \in Nodes /\ Parent(p[i + 3]) = p[i + 2] /\ ~IsVia(p[i + 2], p[i + 3])
    BY <1>1, <1>2, <1>12, <1>13, <1>14
  <2>1. i + 3 \in 1..(Len(p) - 1) /\ (i + 3) + 1 = i + 4
    BY <1>1, <1>2, <1>14
  <2>2. /\ p[i + 4] \in Reached(p[i + 3])
        /\ Cell(p[i + 3]) # Cell(p[i + 4])
    BY <1>14, <2>1, StepOfAWay
  <2>3. ViaDirections(p[i + 3]) = {e \in Dirs : Within45(e, a)}
    BY <1>1, <1>5, <1>8, <2>0 DEF ViaDirections, Dirs
  <2>4. Within45(Delta(p[i + 3], p[i + 4]), a)
    BY <2>0, <2>2, <2>3, ReachedByRule
  <2>5. Heading(p, i + 3) = Delta(p[i + 3], p[i + 4])
    BY <2>1, <2>2 DEF Heading
  <2> QED
    BY <2>4, <2>5
<1>15. \A j \in {i + 1, i + 2} : j < Len(p) => Heading(p, j) = a
  BY <1>12, <1>13
<1>16. i + 3 >= Len(p) \/ HasVia(p, i + 3) \/ Within45(Heading(p, i + 3), a)
  BY <1>1, <1>2, <1>14
<1> QED
  BY <1>7, <1>8, <1>10, <1>11, <1>15, <1>16 DEF StraightAround

LEMMA WayStartsAligned ==
  ASSUME TreeInv, request.startDir # None, NEW p, NEW n, Way(p, n), NEW i \in 1..(Len(p) - 1)
  PROVE  HasVia(p, i) \/ Within45(Heading(p, i), request.startDir)
           \/ Cardinality({j \in 1..(i - 1) : ~HasVia(p, j)}) >= DirectionSteps
<1>1. /\ i \in 1..Len(p) /\ p[i] \in Nodes /\ p[i + 1] \in Reached(p[i])
      /\ HasVia(p, i) <=> Cell(p[i]) = Cell(p[i + 1])
  BY StepOfAWay
<1>2. PICK k : k = node[p[i]].steps
  OBVIOUS
<1>3. k = Cardinality({j \in 1..(i - 1) : ~HasVia(p, j)})
  BY <1>1, <1>2 DEF Way, MovesBefore
<1>4. k \in Nat /\ DirectionSteps \in Nat
  BY <1>1, <1>2, StoreTypes, CostAssumption
<1>5. ~HasVia(p, i) => Heading(p, i) = Delta(p[i], p[i + 1])
  BY <1>1 DEF Heading
<1>6. Cell(p[i]) # Cell(p[i + 1]) /\ k < DirectionSteps =>
        Within45(Delta(p[i], p[i + 1]), request.startDir)
  BY <1>1, <1>2, ReachedByRule
<1> QED
  BY <1>1, <1>3, <1>4, <1>5, <1>6

LEMMA OwnViasKeepApart ==
  ASSUME TreeInv, request.radius > 0, NEW p, NEW n, Way(p, n),
         NEW i \in NewVias(p), NEW j \in NewVias(p), i < j
  PROVE  Distance(Cell(p[i]), Cell(p[j])) > 2 * request.radius
<1>1. /\ i \in 1..(Len(p) - 1) /\ HasVia(p, i) /\ Cell(p[i]) \notin request.freeVias
      /\ j \in 1..(Len(p) - 1) /\ HasVia(p, j) /\ Cell(p[j]) \notin request.freeVias
  BY DEF NewVias
<1>2. /\ p[i] \in Nodes /\ p[j] \in Nodes /\ p[j + 1] \in Reached(p[j])
      /\ Cell(p[j]) = Cell(p[j + 1]) /\ j \in 1..Len(p) /\ j \in Nat /\ i \in Nat
  BY <1>1, StepOfAWay
<1>3. ViaLegal(p[j])
  BY <1>2, ReachedByRule
<1>4. \A v \in pathVias[p[j]] : Distance(Cell(p[j]), v) > 2 * request.radius
  BY <1>1, <1>3 DEF ViaLegal
<1>5. i \in 1..(j - 1)
  BY <1>1, <1>2
<1>6. Cell(p[i]) \in pathVias[p[j]]
  BY <1>1, <1>2, <1>5 DEF Way
<1>7. Distance(Cell(p[i]), Cell(p[j])) = Distance(Cell(p[j]), Cell(p[i]))
  <2>1. /\ p[i][1] \in Int /\ p[i][2] \in Int /\ p[j][1] \in Int /\ p[j][2] \in Int
    BY <1>2, StoreTypes, NodeParts
  <2>2. \A a, b \in Int : Abs(a - b) = Abs(b - a)
    BY DEF Abs
  <2> QED
    BY <2>1, <2>2 DEF Distance, Cell
<1> QED
  BY <1>4, <1>6, <1>7

(* RoutesObeyTheRules: the path that is read off the parents of a found    *)
(* goal runs from a source to a target over legal steps, and keeps to the  *)
(* start and end directions, to the straight runs around vias and to the   *)
(* distance between its vias, on every grid and for every request.         *)
THEOREM RoutesDoObeyTheRules == Spec => []RoutesObeyTheRules
<1>1. GridInv /\ RouteInv => RoutesObeyTheRules
  <2> SUFFICES ASSUME GridInv, RouteInv, outcome = "found", NEW p, p = PathTo(goal)
               PROVE  /\ p[1] \in Sources /\ p[Len(p)] \in Targets
                      /\ \A i \in 1..(Len(p) - 1) : LegalStep(p[i], p[i + 1], blocked)
                      /\ request.collinear =>
                           \A i \in 1..(Len(p) - 1) : HasVia(p, i) => StraightAround(p, i)
                      /\ request.startDir # None =>
                           \A i \in 1..(Len(p) - 1) :
                             HasVia(p, i) \/ Within45(Heading(p, i), request.startDir)
                               \/ Cardinality({j \in 1..(i - 1) : ~HasVia(p, j)}) >= DirectionSteps
                      /\ request.endDir # None /\ Len(p) > 1 =>
                           HasVia(p, Len(p) - 1) \/ Angle(Heading(p, Len(p) - 1), request.endDir) <= 2
                      /\ request.radius > 0 =>
                           \A i, j \in NewVias(p) :
                             i < j => Distance(Cell(p[i]), Cell(p[j])) > 2 * request.radius
    BY DEF RoutesObeyTheRules
  <2>1. TreeInv /\ goal \in Targets /\ goal \in Nodes /\ Visited(goal) /\ ArrivalOK(goal)
    <3>1. TreeInv /\ goal \in Targets /\ Visited(goal) /\ ArrivalOK(goal)
      BY DEF GridInv, RouteInv, GoalReached
    <3> QED
      BY <3>1, StoreTypes, RequestFacts
  <2>2. Way(p, goal)
    <3>1. PICK f : Paths(f) /\ (\A h : Paths(h) => h = f) /\ Ways(f)
      BY DEF RouteInv, WaysKnown
    <3>2. p = f[goal]
      BY <3>1, PathIsThatWay
    <3> QED
      BY <2>1, <3>1, <3>2 DEF Ways
  <2>3. Len(p) \in Nat /\ Len(p) >= 1 /\ p[Len(p)] = goal /\ p[1] \in Sources
    BY <2>2, NodesOfAWay DEF Way
  <2>4. \A i \in 1..(Len(p) - 1) : LegalStep(p[i], p[i + 1], blocked)
    BY <2>1, <2>2, StepOfAWay, ReachedByRule
  <2>5. request.collinear => \A i \in 1..(Len(p) - 1) : HasVia(p, i) => StraightAround(p, i)
    BY <2>1, <2>2, ViaKeepsDirection
  <2>6. request.startDir # None =>
          \A i \in 1..(Len(p) - 1) :
            HasVia(p, i) \/ Within45(Heading(p, i), request.startDir)
              \/ Cardinality({j \in 1..(i - 1) : ~HasVia(p, j)}) >= DirectionSteps
    BY <2>1, <2>2, WayStartsAligned
  <2>7. ASSUME request.endDir # None, Len(p) > 1
        PROVE  HasVia(p, Len(p) - 1) \/ Angle(Heading(p, Len(p) - 1), request.endDir) <= 2
    <3>1. PICK k : k = Len(p) - 1
      OBVIOUS
    <3>2. k \in 1..(Len(p) - 1) /\ k + 1 = Len(p)
      BY <2>3, <2>7, <3>1
    <3>3. Approach(goal) = Heading(p, k) /\ (HasVia(p, k) <=> Heading(p, k) = None)
      BY <2>1, <2>2, <2>3, <3>2, StepOfAWay
    <3> QED
      BY <2>1, <2>7, <3>1, <3>3 DEF ArrivalOK
  <2>8. request.radius > 0 =>
          \A i, j \in NewVias(p) : i < j => Distance(Cell(p[i]), Cell(p[j])) > 2 * request.radius
    BY <2>1, <2>2, OwnViasKeepApart
  <2> QED
    BY <2>1, <2>3, <2>4, <2>5, <2>6, <2>7, <2>8
<1> QED
  BY <1>1, RouteInvariant, PTL
----------------------------------------------------------------------------
(* The cost of what is found.  Without turns a step costs the same         *)
(* whatever the way to it.                                                 *)
Base(m, n) == IF Cell(m) = Cell(n) THEN ViaStep(m, n) ELSE MoveCost(m, n)

Comparable == Unconstrained /\ request.turnCost = 0 /\ request.freeVias = {}

(* The heuristic, in percent of F, is consistent: it falls along a legal   *)
(* step by no more than F percent of what the step costs.                  *)
ConsistentBy(F) ==
  /\ \A s \in Sources : SourceG(s) >= 0
  /\ \A m, n \in Nodes : LegalStep(m, n, blocked) =>
       Heuristic(m) * 100 <= F * Base(m, n) + Heuristic(n) * 100

(* The walks from the sources, as pairs of a node and a cost: the least    *)
(* set that has the sources and every legal step from its pairs.           *)
Pairs == Nodes \X Int
Starts == {<<s, SourceG(s)>> : s \in Sources}
Extends(S) ==
  /\ Starts \subseteq S
  /\ \A p \in S, n \in Nodes :
       LegalStep(p[1], n, blocked) => <<n, p[2] + Base(p[1], n)>> \in S
Walks == {p \in Pairs : \A S \in SUBSET Pairs : Extends(S) => p \in S}

LEMMA BaseCosts ==
  ASSUME request \in Requests, NEW m \in Nodes, NEW n \in Nodes
  PROVE  Base(m, n) \in Nat
<1>1. Multiplier(m[3]) \in Nat /\ Multiplier(n[3]) \in Nat /\ request.viaCost \in Nat
  BY LayerCosts, NodeParts, RequestFacts
<1>2. ViaStep(m, n) \in Nat
  BY <1>1 DEF ViaStep, Greater
<1>3. MoveCost(m, n) \in Nat
  <2>1. PICK c : c = (IF m[1] # n[1] /\ m[2] # n[2] THEN DiagCost ELSE OrthoCost) * Multiplier(m[3])
    OBVIOUS
  <2>2. c \in Nat
    BY <1>1, <2>1, CostAssumption, Products
  <2>3. c \div 1000 \in Nat
    BY <2>2
  <2> QED
    BY <2>1, <2>3 DEF MoveCost
<1> QED
  BY <1>2, <1>3 DEF Base

(* The neighbours of a node lie in the eight directions or above it.       *)
LEMMA LegalStepDirection ==
  ASSUME request \in Requests, NEW m \in Nodes, NEW n \in Nodes, NEW b, LegalStep(m, n, b)
  PROVE  Cell(m) # Cell(n) => Delta(m, n) \in Dirs
<1>1. SUFFICES ASSUME Cell(m) # Cell(n) PROVE Delta(m, n) \in Dirs
  OBVIOUS
<1>2. Greater(Abs(m[1] - n[1]), Abs(m[2] - n[2])) = 1
  BY <1>1 DEF LegalStep, Distance, Cell
<1>3. m[1] \in Int /\ m[2] \in Int /\ n[1] \in Int /\ n[2] \in Int
  BY NodeParts
<1>4. PICK a, c : a = n[1] - m[1] /\ c = n[2] - m[2]
  OBVIOUS
<1>5. m[1] - n[1] = -a /\ m[2] - n[2] = -c /\ a \in Int /\ c \in Int
  BY <1>3, <1>4
<1>6. a \in -1..1 /\ c \in -1..1 /\ (a # 0 \/ c # 0)
  BY <1>2, <1>5 DEF Greater, Abs
<1> QED
  BY <1>4, <1>6, DirectionParts DEF Delta

LEMMA StepsCostBase ==
  ASSUME TreeInv, request.turnCost = 0, NEW m \in Nodes, NEW n \in Nodes, NEW b, LegalStep(m, n, b)
  PROVE  StepCost(m, n) = Base(m, n) /\ Base(m, n) \in Nat
<1>1. request \in Requests /\ Approach(m) \in Dirs \cup {None}
  BY StoreTypes
<1>2. Base(m, n) \in Nat
  BY <1>1, BaseCosts
<1>3. CASE Cell(m) = Cell(n)
  BY <1>2, <1>3 DEF StepCost, Base
<1>4. CASE Cell(m) # Cell(n)
  <2>1. Turn(m, n) = 0
    <3>1. CASE Approach(m) = None
      BY <3>1 DEF Turn
    <3>2. CASE Approach(m) # None
      <4>1. Angle(Delta(m, n), Approach(m)) \in Nat
        BY <1>1, <1>4, <3>2, LegalStepDirection, AngleIsNat
      <4>2. \A k \in Nat : 0 * k = 0 /\ 0 \div 2 = 0
        OBVIOUS
      <4> QED
        BY <3>2, <4>1, <4>2 DEF Turn
    <3> QED
      BY <3>1, <3>2
  <2>2. MoveCost(m, n) \in Nat
    BY <1>2, <1>4 DEF Base
  <2> QED
    BY <1>2, <1>4, <2>1, <2>2 DEF StepCost, Base
<1> QED
  BY <1>3, <1>4

LEMMA WalksExtend ==
  ASSUME request \in Requests
  PROVE  Walks \subseteq Pairs /\ Extends(Walks) /\ Extends(Pairs)
<1>1. Extends(Pairs)
  <2>1. Starts \subseteq Pairs
    BY RequestFacts, LayerCosts DEF Starts, Pairs
  <2>2. ASSUME NEW p \in Pairs, NEW n \in Nodes PROVE <<n, p[2] + Base(p[1], n)>> \in Pairs
    <3>1. p[1] \in Nodes /\ p[2] \in Int
      BY DEF Pairs
    <3>2. Base(p[1], n) \in Nat
      BY <3>1, BaseCosts
    <3>3. p[2] + Base(p[1], n) \in Int
      BY <3>1, <3>2
    <3> QED
      BY <3>3 DEF Pairs
  <2> QED
    BY <2>1, <2>2 DEF Extends
<1>2. Walks \subseteq Pairs
  BY DEF Walks
<1>3. Starts \subseteq Walks
  BY <1>1 DEF Walks, Extends
<1>4. ASSUME NEW p \in Walks, NEW n \in Nodes, LegalStep(p[1], n, blocked)
      PROVE  <<n, p[2] + Base(p[1], n)>> \in Walks
  <2>1. <<n, p[2] + Base(p[1], n)>> \in Pairs
    BY <1>1, <1>2, <1>4 DEF Extends
  <2>2. \A S \in SUBSET Pairs : Extends(S) => <<n, p[2] + Base(p[1], n)>> \in S
    BY <1>4 DEF Walks, Extends
  <2> QED
    BY <2>1, <2>2 DEF Walks
<1> QED
  BY <1>1, <1>2, <1>3, <1>4 DEF Extends

(* What holds of the starts and is kept by a legal step holds of a walk.   *)
LEMMA WalkInduction ==
  ASSUME request \in Requests, NEW S \in SUBSET Pairs, Extends(S)
  PROVE  Walks \subseteq S
  BY DEF Walks

LEMMA WalkTypes ==
  ASSUME request \in Requests, NEW p \in Walks
  PROVE  p[1] \in Nodes /\ p[2] \in Int /\ p = <<p[1], p[2]>>
<1>1. p \in Pairs
  BY WalksExtend
<1> QED
  BY <1>1 DEF Pairs

LEMMA SameWalks ==
  ASSUME request' = request, blocked' = blocked, viaBlocked' = viaBlocked
  PROVE  /\ Walks' = Walks /\ Comparable' = Comparable
         /\ \A s : SourceG(s)' = SourceG(s)
         /\ \A m, n : Base(m, n)' = Base(m, n)
         /\ \A m, n : LegalStep(m, n, blocked)' <=> LegalStep(m, n, blocked)
<1>1. Nodes' = Nodes /\ Sources' = Sources /\ Pairs' = Pairs
  BY DEF Nodes, Sources, Pairs
<1>2. \A s : SourceG(s)' = SourceG(s)
  BY DEF SourceG, Multiplier, Forbidden, MinLayerCost
<1>3. \A m, n : Base(m, n)' = Base(m, n)
  BY DEF Base, ViaStep, MoveCost, Multiplier, Forbidden
<1>4. \A m, n : LegalStep(m, n, blocked)' <=> LegalStep(m, n, blocked)
  BY <1>1 DEF LegalStep, Forbidden
<1>5. Starts' = Starts
  BY <1>1, <1>2 DEF Starts
<1>6. \A S : Extends(S)' <=> Extends(S)
  BY <1>1, <1>3, <1>4, <1>5 DEF Extends
<1>7. Walks' = Walks
  BY <1>1, <1>6 DEF Walks
<1>8. Comparable' = Comparable
  BY DEF Comparable, Unconstrained
<1> QED
  BY <1>2, <1>3, <1>4, <1>7, <1>8

(* What was expanded has offered its cost to every neighbour; a source is  *)
(* never dearer than at the start; and what was expanded costs no more     *)
(* than F percent of any walk to it.                                       *)
SourcesCheap == \A s \in Sources : node[s].g <= SourceG(s)

OffersMade ==
  Comparable => \A m \in closed, k \in Nodes \ closed : LegalStep(m, k, blocked) =>
    Visited(k) /\ node[k].g <= node[m].g + Base(m, k)

ClosedNear(F) ==
  Comparable => \A p \in Walks : p[1] \in closed => node[p[1]].g * 100 <= F * p[2]

CostInv(F) == SourcesCheap /\ OffersMade /\ ClosedNear(F)

(* A walk that leaves what was expanded passes a node that is open and     *)
(* priced no higher than the walk is.                                      *)
PassesOpen(F, n, c) ==
  \E m \in Nodes \ closed :
    /\ Visited(m)
    /\ (node[m].g + Heuristic(m)) * 100 <= F * c + Heuristic(n) * 100

LEMMA PercentOfSum ==
  ASSUME NEW F \in Nat, F >= 100, NEW c \in Int, NEW s \in Nat
  PROVE  F * (c + s) = F * c + F * s /\ F * s >= s * 100 /\ F * s \in Nat /\ F * c \in Int
<1>1. F * (c + s) = F * c + F * s /\ F * c \in Int
  OBVIOUS
<1>2. PICK r \in Nat : F = r + 100
  <2>1. F - 100 \in Nat /\ F = (F - 100) + 100
    OBVIOUS
  <2> QED
    BY <2>1
<1>3. F * s = r * s + 100 * s /\ r * s \in Nat
  BY <1>2, Products
<1> QED
  BY <1>1, <1>3

LEMMA WalksPassOpen ==
  ASSUME TreeInv, EndsKept, Comparable, NEW F \in Nat, F >= 100, ConsistentBy(F), CostInv(F),
         NEW p \in Walks, p[1] \notin closed
  PROVE  PassesOpen(F, p[1], p[2])
<1>0. /\ request \in Requests /\ request.turnCost = 0 /\ closed \subseteq Nodes
      /\ \A n \in Nodes : Visited(n) <=> node[n].g \in Int
      /\ \A n \in closed : Visited(n)
  BY StoreTypes DEF Comparable
<1>1. \A n \in Nodes : Heuristic(n) \in Nat
  BY <1>0, HeuristicIsNat
<1>2. PICK S : S = {q \in Walks : \/ q[1] \in closed /\ node[q[1]].g * 100 <= F * q[2]
                                  \/ PassesOpen(F, q[1], q[2])}
  OBVIOUS
<1>3. S \subseteq Walks /\ S \in SUBSET Pairs
  BY <1>0, <1>2, WalksExtend
<1>4. \A q \in Walks : q[1] \in closed => q \in S
  BY <1>2 DEF CostInv, ClosedNear
<1>5. Starts \subseteq S
  <2> SUFFICES ASSUME NEW s \in Sources PROVE <<s, SourceG(s)>> \in S
    BY DEF Starts
  <2>1. PICK q : q = <<s, SourceG(s)>>
    OBVIOUS
  <2>2. q \in Walks /\ q[1] = s /\ q[2] = SourceG(s)
    BY <1>0, <2>1, WalksExtend DEF Extends, Starts
  <2>3. CASE s \in closed
    BY <1>4, <2>1, <2>2, <2>3
  <2>4. CASE s \notin closed
    <3>1. s \in Nodes /\ Visited(s) /\ node[s].g <= SourceG(s) /\ SourceG(s) >= 0 /\ SourceG(s) \in Int
      BY <1>0, RequestFacts, LayerCosts DEF EndsKept, CostInv, SourcesCheap, ConsistentBy
    <3>2. PICK x : x = SourceG(s)
      OBVIOUS
    <3>3. x \in Nat
      BY <3>1, <3>2
    <3>4. F * x >= x * 100 /\ F * x \in Nat
      <4>1. 0 \in Int
        OBVIOUS
      <4> QED
        BY <3>3, <4>1, PercentOfSum
    <3>5. node[s].g \in Int /\ Heuristic(s) \in Nat /\ node[s].g <= x
      BY <1>0, <1>1, <3>1, <3>2
    <3>6. (node[s].g + Heuristic(s)) * 100 <= F * x + Heuristic(s) * 100
      BY <3>3, <3>4, <3>5
    <3>7. PassesOpen(F, q[1], q[2])
      BY <2>2, <2>4, <3>1, <3>2, <3>6 DEF PassesOpen
    <3> QED
      BY <1>2, <2>1, <2>2, <3>7
  <2> QED
    BY <2>3, <2>4
<1>6. ASSUME NEW q \in S, NEW n \in Nodes, LegalStep(q[1], n, blocked)
      PROVE  <<n, q[2] + Base(q[1], n)>> \in S
  <2>1. PICK m, c, s, r : m = q[1] /\ c = q[2] /\ s = Base(q[1], n) /\ r = <<n, q[2] + Base(q[1], n)>>
    OBVIOUS
  <2>2. q \in Walks /\ m \in Nodes /\ c \in Int
    BY <1>0, <1>3, <2>1, WalkTypes
  <2>3. r \in Walks /\ r[1] = n /\ r[2] = c + s
    BY <1>0, <1>6, <2>1, <2>2, WalksExtend DEF Extends
  <2>4. s \in Nat
    BY <1>0, <2>1, <2>2, BaseCosts
  <2>5. CASE n \in closed
    BY <1>4, <2>1, <2>3, <2>5
  <2>6. CASE n \notin closed
    <3>1. F * (c + s) = F * c + F * s /\ F * s >= s * 100 /\ F * s \in Nat /\ F * c \in Int
      BY <2>2, <2>4, PercentOfSum
    <3>2. CASE m \in closed /\ node[m].g * 100 <= F * c
      <4>1. Visited(n) /\ node[n].g <= node[m].g + s
        BY <1>6, <2>1, <2>6, <3>2 DEF CostInv, OffersMade
      <4>2. node[n].g \in Int /\ node[m].g \in Int /\ Heuristic(n) \in Nat
        BY <1>0, <1>1, <2>2, <3>2, <4>1
      <4>3. (node[n].g + Heuristic(n)) * 100 <= F * (c + s) + Heuristic(n) * 100
        BY <2>4, <3>1, <3>2, <4>1, <4>2
      <4>4. PassesOpen(F, r[1], r[2])
        BY <2>3, <2>6, <4>1, <4>3 DEF PassesOpen
      <4> QED
        BY <1>2, <2>1, <2>3, <4>4
    <3>3. CASE PassesOpen(F, m, c)
      <4>1. PICK o \in Nodes \ closed :
              Visited(o) /\ (node[o].g + Heuristic(o)) * 100 <= F * c + Heuristic(m) * 100
        BY <3>3 DEF PassesOpen
      <4>2. Heuristic(m) * 100 <= F * s + Heuristic(n) * 100
        BY <1>6, <2>1, <2>2 DEF ConsistentBy
      <4>3. node[o].g \in Int /\ Heuristic(o) \in Nat /\ Heuristic(m) \in Nat /\ Heuristic(n) \in Nat
        BY <1>0, <1>1, <2>2, <4>1
      <4>4. (node[o].g + Heuristic(o)) * 100 <= F * (c + s) + Heuristic(n) * 100
        BY <3>1, <4>1, <4>2, <4>3
      <4>5. PassesOpen(F, r[1], r[2])
        BY <2>3, <4>1, <4>4 DEF PassesOpen
      <4> QED
        BY <1>2, <2>1, <2>3, <4>5
    <3> QED
      BY <1>2, <2>1, <3>2, <3>3
  <2> QED
    BY <2>5, <2>6
<1>7. Extends(S)
  BY <1>5, <1>6 DEF Extends
<1>8. p \in S
  BY <1>0, <1>3, <1>7, WalkInduction
<1> QED
  BY <1>2, <1>8

(* An entry that is popped for a node that is not expanded prices the node *)
(* at no more than F percent of any walk to it.                            *)
LEMMA PoppedIsNear ==
  ASSUME GridInv, outcome = "searching", Comparable, NEW F \in Nat, F >= 100, ConsistentBy(F),
         CostInv(F), NEW e, IsTop(e), e.at \notin closed, NEW p \in Walks, p[1] = e.at
  PROVE  node[e.at].g * 100 <= F * p[2]
<1>0. TreeInv /\ EndsKept /\ AwaitedAreOpen /\ request \in Requests
  BY StoreTypes DEF GridInv
<1>1. /\ e \in open /\ e \in [f : Int, g : Int, at : Nodes, order : Int]
      /\ e.f = e.g + Heuristic(e.at) /\ Visited(e.at) /\ node[e.at].g <= e.g
  BY <1>0 DEF IsTop, TreeInv, EntriesPriced, TypeOK
<1>2. PassesOpen(F, p[1], p[2])
  BY <1>0, WalksPassOpen
<1>3. PICK m \in Nodes \ closed :
        Visited(m) /\ (node[m].g + Heuristic(m)) * 100 <= F * p[2] + Heuristic(e.at) * 100
  BY <1>2 DEF PassesOpen
<1>4. Awaited(m)
  BY <1>3 DEF Awaited, Comparable, Unconstrained
<1>5. PICK o \in open : o.at = m /\ o.g = node[m].g
  BY <1>0, <1>3, <1>4 DEF AwaitedAreOpen
<1>6. o \in [f : Int, g : Int, at : Nodes, order : Int] /\ o.f = o.g + Heuristic(m)
  BY <1>0, <1>5 DEF TreeInv, EntriesPriced
<1>7. e.f <= o.f
  BY <1>1, <1>5, <1>6 DEF IsTop
<1>8. p[2] \in Int /\ F * p[2] \in Int
  <2>1. p[2] \in Int
    BY <1>0, WalkTypes
  <2> QED
    BY <2>1
<1>9. Heuristic(e.at) \in Nat /\ Heuristic(m) \in Nat /\ node[e.at].g \in Int
  BY <1>0, <1>1, HeuristicIsNat, StoreTypes
<1>10. PICK x, h : x = F * p[2] /\ h = Heuristic(e.at)
  OBVIOUS
<1>11. (node[m].g + Heuristic(m)) * 100 <= x + h * 100 /\ x \in Int /\ h \in Nat
  BY <1>3, <1>8, <1>9, <1>10
<1>12. e.g * 100 <= x
  BY <1>1, <1>5, <1>6, <1>7, <1>9, <1>10, <1>11
<1> QED
  BY <1>1, <1>9, <1>10, <1>11, <1>12

LEMMA CostInit ==
  ASSUME Init, NEW F
  PROVE  CostInv(F)
<1>1. /\ node = [n \in Nodes |-> IF n \in Sources
                                 THEN [g |-> SourceG(n), parent |-> None, steps |-> 0]
                                 ELSE Unvisited]
      /\ closed = {} /\ request \in Requests
  BY DEF Init
<1>2. \A s \in Sources : s \in Nodes /\ node[s].g = SourceG(s) /\ SourceG(s) \in Int
  BY <1>1, RequestFacts, LayerCosts
<1>3. SourcesCheap
  BY <1>2 DEF SourcesCheap
<1> QED
  BY <1>1, <1>3 DEF CostInv, OffersMade, ClosedNear

LEMMA QuietKeepsCosts ==
  ASSUME NEW F, CostInv(F), UNCHANGED <<board, node, closed>>
  PROVE  CostInv(F)'
<1>1. request' = request /\ blocked' = blocked /\ viaBlocked' = viaBlocked
  BY DEF board
<1>2. Nodes' = Nodes /\ Sources' = Sources
  BY <1>1 DEF Nodes, Sources
<1>3. \A n : Visited(n)' <=> Visited(n)
  BY DEF Visited
<1>4. /\ Walks' = Walks /\ Comparable' = Comparable
      /\ \A s : SourceG(s)' = SourceG(s)
      /\ \A m, n : Base(m, n)' = Base(m, n)
      /\ \A m, n : LegalStep(m, n, blocked)' <=> LegalStep(m, n, blocked)
  BY <1>1, SameWalks
<1>5. SourcesCheap'
  BY <1>2, <1>4 DEF CostInv, SourcesCheap
<1>6. OffersMade'
  BY <1>2, <1>3, <1>4 DEF CostInv, OffersMade
<1>7. ClosedNear(F)'
  BY <1>4 DEF CostInv, ClosedNear
<1> QED
  BY <1>5, <1>6, <1>7 DEF CostInv

LEMMA ExpansionKeepsCosts ==
  ASSUME GridInv, outcome = "searching", NEW F \in Nat, F >= 100, CostInv(F), ConsistentBy(F),
         NEW e, NEW n, NEW better, Expansion(e, n, better), IsTop(e)
  PROVE  CostInv(F)'
<1>0. TreeInv /\ request \in Requests /\ EndsKept
  BY StoreTypes DEF GridInv
<1>1. /\ request' = request /\ blocked' = blocked /\ viaBlocked' = viaBlocked
      /\ Nodes' = Nodes /\ n \in Nodes /\ n \notin closed /\ closed' = closed \cup {n}
      /\ better \subseteq Reached(n) /\ better \subseteq Nodes
      /\ \A m \in better : m \notin closed /\ m # n
      /\ \A m \in Nodes \ better : node'[m] = node[m]
      /\ \A m \in better : /\ node'[m].g = node[n].g + StepCost(n, m) /\ StepCost(n, m) \in Int
                           /\ Visited(m) => node'[m].g < node[m].g
      /\ \A k \in Nodes : Visited(k) => Visited(k)'
      /\ \A m \in better : Visited(m)'
  BY <1>0, ExpansionStores
<1>2. /\ Walks' = Walks /\ Comparable' = Comparable /\ Sources' = Sources
      /\ \A s : SourceG(s)' = SourceG(s)
      /\ \A k, m : Base(k, m)' = Base(k, m)
      /\ \A k, m : LegalStep(k, m, blocked)' <=> LegalStep(k, m, blocked)
  BY <1>1, SameWalks DEF Sources
<1>3. \A m \in closed \cup {n} : m \in Nodes \ better /\ node'[m] = node[m]
  BY <1>0, <1>1, StoreTypes
<1>4. \A k \in Nodes : Visited(k) <=> node[k].g \in Int
  BY <1>0, StoreTypes
<1>5. n = e.at /\ node[n].g \in Int /\ e.g = node[n].g /\ better = Improved(n, e.g)
  BY DEF Expansion
<1>6. ASSUME NEW k \in Nodes, Visited(k)
      PROVE  Visited(k)' /\ node'[k].g \in Int /\ node'[k].g <= node[k].g
  <2>1. CASE k \in better
    BY <1>1, <1>4, <1>5, <1>6, <2>1
  <2>2. CASE k \notin better
    BY <1>1, <1>4, <1>6, <2>2
  <2> QED
    BY <2>1, <2>2
<1>7. SourcesCheap'
  <2>1. ASSUME NEW s \in Sources PROVE node'[s].g <= SourceG(s)
    <3>1. s \in Nodes /\ Visited(s) /\ node[s].g <= SourceG(s) /\ SourceG(s) \in Int /\ node[s].g \in Int
      BY <1>0, <1>4, RequestFacts, LayerCosts DEF EndsKept, CostInv, SourcesCheap
    <3> QED
      BY <1>6, <3>1
  <2> QED
    BY <1>2, <2>1 DEF SourcesCheap
<1>8. ASSUME Comparable, NEW m \in closed \cup {n}, NEW k \in Nodes \ (closed \cup {n}),
             LegalStep(m, k, blocked)
      PROVE  Visited(k)' /\ node'[k].g <= node'[m].g + Base(m, k)
  <2>1. m \in Nodes /\ node'[m] = node[m] /\ node[m].g \in Int /\ Base(m, k) \in Nat
    BY <1>0, <1>3, <1>4, <1>5, BaseCosts, StoreTypes
  <2>2. CASE m \in closed
    <3>1. Visited(k) /\ node[k].g <= node[m].g + Base(m, k)
      BY <1>8, <2>2 DEF CostInv, OffersMade
    <3> QED
      BY <1>4, <1>6, <2>1, <3>1
  <2>3. CASE m = n
    <3>1. k \in Tried(n) /\ k # n /\ ~Excluded(n, k)
      BY <1>0, <1>1, <1>8, <2>3, LegalStepsAreTried DEF Comparable
    <3>2. k \in Reached(n)
      BY <1>8, <3>1 DEF Reached, Tried, Blocked, LegalStep
    <3>3. StepCost(n, k) = Base(n, k)
      BY <1>0, <1>1, <1>8, <2>3, StepsCostBase DEF Comparable
    <3>4. CASE k \in better
      BY <1>1, <2>1, <2>3, <3>3, <3>4
    <3>5. CASE k \notin better
      <4>1. ~Better(n, e.g, k)
        BY <1>5, <1>8, <3>1, <3>2, <3>5 DEF Improved
      <4>2. Visited(k) /\ ~(node[n].g + Base(n, k) < node[k].g)
        BY <1>5, <3>3, <4>1 DEF Better
      <4> QED
        BY <1>1, <1>4, <1>6, <2>1, <2>3, <3>5, <4>2
    <3> QED
      BY <3>4, <3>5
  <2> QED
    BY <2>2, <2>3
<1>9. OffersMade'
  BY <1>1, <1>2, <1>8 DEF OffersMade, Visited
<1>10. ASSUME Comparable, NEW p \in Walks, p[1] \in closed \cup {n}
       PROVE  node'[p[1]].g * 100 <= F * p[2]
  <2>1. CASE p[1] \in closed
    BY <1>3, <1>10, <2>1 DEF CostInv, ClosedNear
  <2>2. CASE p[1] = n
    <3>1. node[n].g * 100 <= F * p[2]
      BY <1>1, <1>5, <1>10, <2>2, PoppedIsNear
    <3> QED
      BY <1>3, <2>2, <3>1
  <2> QED
    BY <1>10, <2>1, <2>2
<1>11. ClosedNear(F)'
  BY <1>1, <1>2, <1>10 DEF ClosedNear
<1> QED
  BY <1>7, <1>9, <1>11 DEF CostInv

LEMMA CostNext ==
  ASSUME GridInv, NEW F \in Nat, F >= 100, CostInv(F), ConsistentBy(F), [Next]_vars
  PROVE  CostInv(F)'
<1>1. CASE Expand /\ outcome = "searching"
  <2>1. PICK e, n, better : Expansion(e, n, better) /\ IsTop(e)
    BY <1>1, ExpandExpands
  <2> QED
    BY <1>1, <2>1, ExpansionKeepsCosts
<1>2. CASE Arrive \/ Exhausted \/ Capped \/ DuplicateSkip \/ UNCHANGED vars
  <2>1. UNCHANGED <<board, node, closed>>
    BY <1>2 DEF Arrive, Exhausted, Capped, DuplicateSkip, board, vars
  <2> QED
    BY <2>1, QuietKeepsCosts
<1> QED
  BY <1>1, <1>2 DEF Next
----------------------------------------------------------------------------
(* What the reference computes are walks.                                  *)
Longer(w) ==
  Cheapest(w \cup UNION {{<<n, p[2] + StepCost(p[1], n)>> :
    n \in {m \in Nodes : LegalStep(p[1], m, blocked)}} : p \in w})

Series(f, start, K) == f = [k \in 0..K |-> IF k = 0 THEN start ELSE Longer(f[k - 1])]

LEMMA SeriesExist ==
  ASSUME NEW start, NEW K \in Nat
  PROVE  \E f : Series(f, start, K)
<1> SUFFICES ASSUME ~\E f : Series(f, start, K) PROVE FALSE
  OBVIOUS
<1>1. PICK S : S = {k \in Nat : ~\E f : Series(f, start, k)}
  OBVIOUS
<1>2. S \in SUBSET Nat /\ S # {}
  BY <1>1
<1>3. PICK k \in S : \A j \in S : k <= j
  BY <1>2, HasLeast
<1>4. k \in Nat /\ ~\E f : Series(f, start, k)
  BY <1>1, <1>3
<1>5. CASE k = 0
  <2>1. PICK f : f = [i \in 0..0 |-> start]
    OBVIOUS
  <2>2. f = [i \in 0..0 |-> IF i = 0 THEN start ELSE Longer(f[i - 1])]
    BY <2>1
  <2> QED
    BY <1>4, <1>5, <2>2 DEF Series
<1>6. CASE k # 0
  <2>1. k - 1 \in Nat /\ k - 1 \notin S
    BY <1>3, <1>4, <1>6
  <2>2. PICK f : Series(f, start, k - 1)
    BY <1>1, <2>1
  <2>3. \A i \in 0..(k - 1) : f[i] = IF i = 0 THEN start ELSE Longer(f[i - 1])
    BY <2>2 DEF Series
  <2>4. PICK h : h = [i \in 0..k |-> IF i = k THEN Longer(f[k - 1]) ELSE f[i]]
    OBVIOUS
  <2>5. \A i \in 0..k : h[i] = IF i = 0 THEN start ELSE Longer(h[i - 1])
    <3> TAKE i \in 0..k
    <3>1. CASE i = k
      <4>1. k - 1 \in 0..k /\ k - 1 # k /\ k \in 0..k
        BY <1>4, <2>1
      <4>2. h[k - 1] = f[k - 1] /\ h[k] = Longer(f[k - 1])
        BY <2>4, <4>1
      <4> QED
        BY <1>6, <3>1, <4>2
    <3>2. CASE i # k
      <4>1. i \in 0..(k - 1) /\ h[i] = f[i]
        BY <1>4, <2>4, <3>2
      <4>2. i # 0 => i - 1 \in 0..k /\ i - 1 # k
        BY <1>4, <4>1
      <4>3. i # 0 => h[i - 1] = f[i - 1]
        BY <2>4, <4>2
      <4> QED
        BY <2>3, <4>1, <4>3
    <3> QED
      BY <3>1, <3>2
  <2>6. h = [i \in 0..k |-> h[i]]
    BY <2>4
  <2>7. h = [i \in 0..k |-> IF i = 0 THEN start ELSE Longer(h[i - 1])]
    BY <2>5, <2>6
  <2> QED
    BY <1>4, <2>7 DEF Series
<1> QED
  BY <1>5, <1>6

LEMMA LongerWalks ==
  ASSUME TreeInv, request.turnCost = 0, NEW w \in SUBSET Walks
  PROVE  Longer(w) \subseteq Walks
<1>0. request \in Requests
  BY StoreTypes
<1> SUFFICES ASSUME NEW q \in Longer(w) PROVE q \in Walks
  OBVIOUS
<1>1. PICK all : all = w \cup UNION {{<<n, p[2] + StepCost(p[1], n)>> :
        n \in {m \in Nodes : LegalStep(p[1], m, blocked)}} : p \in w}
  OBVIOUS
<1>2. q \in all
  BY <1>1 DEF Longer, Cheapest
<1>3. CASE q \in w
  BY <1>3
<1>4. CASE q \notin w
  <2>1. PICK p \in w, n \in Nodes : LegalStep(p[1], n, blocked) /\ q = <<n, p[2] + StepCost(p[1], n)>>
    BY <1>1, <1>2, <1>4
  <2>2. p \in Walks /\ p[1] \in Nodes
    BY <1>0, <2>1, WalkTypes
  <2>3. StepCost(p[1], n) = Base(p[1], n)
    BY <2>1, <2>2, StepsCostBase
  <2> QED
    BY <1>0, <2>1, <2>2, <2>3, WalksExtend DEF Extends
<1> QED
  BY <1>3, <1>4

LEMMA CheapestAreWalks ==
  ASSUME TreeInv, request.turnCost = 0
  PROVE  CheapestFrom(Starts) \subseteq Walks
<1>0. request \in Requests /\ IsFiniteSet(Nodes) /\ Starts \subseteq Walks
  BY StoreTypes, RequestFacts, WalksExtend DEF Extends
<1>1. PICK K : K = Cardinality(Nodes)
  OBVIOUS
<1>2. K \in Nat
  BY <1>0, <1>1, FS_CardinalityType
<1> DEFINE f == CHOOSE h : Series(h, Starts, K)
<1>3. Series(f, Starts, K)
  BY <1>2, SeriesExist
<1>4. CheapestFrom(Starts) = f[K]
  BY <1>1 DEF CheapestFrom, Series, Longer
<1> HIDE DEF f
<1>5. ASSUME NEW k \in 0..K, \A j \in 0..K : j < k => f[j] \subseteq Walks
      PROVE  f[k] \subseteq Walks
  <2>1. f[k] = IF k = 0 THEN Starts ELSE Longer(f[k - 1])
    BY <1>3 DEF Series
  <2>2. CASE k = 0
    BY <1>0, <2>1, <2>2
  <2>3. CASE k # 0
    <3>1. k - 1 \in 0..K /\ k - 1 < k
      BY <1>2, <2>3
    <3>2. f[k - 1] \in SUBSET Walks
      BY <1>5, <3>1
    <3> QED
      BY <2>1, <2>3, <3>2, LongerWalks
  <2> QED
    BY <2>2, <2>3
<1>6. f[K] \subseteq Walks
  <2> SUFFICES ASSUME ~(f[K] \subseteq Walks) PROVE FALSE
    OBVIOUS
  <2>1. PICK S : S = {k \in 0..K : ~(f[k] \subseteq Walks)}
    OBVIOUS
  <2>2. S \in SUBSET Nat /\ S # {}
    BY <1>2, <2>1
  <2>3. PICK k \in S : \A j \in S : k <= j
    BY <2>2, HasLeast
  <2>4. k \in 0..K /\ \A j \in 0..K : j < k => f[j] \subseteq Walks
    BY <1>2, <2>1, <2>3
  <2> QED
    BY <1>5, <2>1, <2>3, <2>4
<1> QED
  BY <1>4, <1>6
----------------------------------------------------------------------------
(* The cost of a route that is found, against the walks to its target.     *)
NoGoalYet == outcome = "searching" => goal = None

(* FoundIsNearCheapest for a factor F, in percent.                         *)
NearCheapestBy(F) ==
  [][goal' # None /\ Comparable =>
       \A p \in CheapestFrom(Starts) : p[1] = goal' => node[goal'].g * 100 <= F * p[2]]_vars

LEMMA FoundIsNear ==
  ASSUME GridInv, NoGoalYet, NEW F \in Nat, F >= 100, CostInv(F), ConsistentBy(F),
         Next, goal' # None, Comparable,
         NEW p \in CheapestFrom(Starts), p[1] = goal'
  PROVE  node[goal'].g * 100 <= F * p[2]
<1>0. outcome = "searching" /\ goal = None
  BY DEF Next, NoGoalYet
<1>1. Arrive
  BY <1>0 DEF Next, Exhausted, Capped, DuplicateSkip, Expand
<1>2. PICK e \in open : e.at \in Targets \ closed /\ IsTop(e) /\ (goal' = e.at \/ goal' = goal)
  BY <1>1 DEF Arrive, Pop
<1>3. goal' = e.at
  BY <1>0, <1>2
<1>4. p \in Walks
  BY CheapestAreWalks DEF GridInv, Comparable
<1> QED
  BY <1>0, <1>2, <1>3, <1>4, PoppedIsNear

LEMMA NoGoalInit == Init => NoGoalYet
  BY DEF Init, NoGoalYet

LEMMA NoGoalNext == NoGoalYet /\ [Next]_vars => NoGoalYet'
<1> SUFFICES ASSUME NoGoalYet, [Next]_vars PROVE NoGoalYet'
  OBVIOUS
<1>1. CASE UNCHANGED vars
  BY <1>1 DEF NoGoalYet, vars
<1>2. CASE Arrive /\ outcome = "searching"
  <2>1. outcome' = "found" \/ (outcome' = outcome /\ goal' = goal)
    BY <1>2 DEF Arrive
  <2> QED
    BY <2>1 DEF NoGoalYet
<1>3. CASE (Exhausted \/ Capped \/ DuplicateSkip \/ Expand) /\ outcome = "searching"
  BY <1>3 DEF NoGoalYet, Exhausted, Capped, DuplicateSkip, Expand
<1> QED
  BY <1>1, <1>2, <1>3 DEF Next

(* FoundIsNearCheapest, for any factor by which the weighted heuristic is  *)
(* consistent: nothing that was expanded is ever relaxed again, and yet    *)
(* the route found costs at most F percent of the cheapest walk.           *)
THEOREM ConsistentIsNearCheapest ==
  ASSUME NEW F \in Nat, F >= 100
  PROVE  Spec /\ [](Comparable => ConsistentBy(F)) => NearCheapestBy(F)
<1> DEFINE Near == Comparable => CostInv(F)
<1>1. Init => Near /\ NoGoalYet
  BY CostInit, NoGoalInit
<1>2. GridInv /\ Near /\ NoGoalYet /\ (Comparable => ConsistentBy(F)) /\ [Next]_vars
        => (Near /\ NoGoalYet)'
  <2> SUFFICES ASSUME GridInv, Near, NoGoalYet, Comparable => ConsistentBy(F), [Next]_vars
               PROVE  Near' /\ NoGoalYet'
    OBVIOUS
  <2>1. NoGoalYet'
    BY NoGoalNext
  <2>2. UNCHANGED board
    BY DEF Next, Exhausted, Capped, DuplicateSkip, Arrive, Expand, vars, board
  <2>3. Comparable' = Comparable
    BY <2>2, SameWalks DEF board
  <2>4. Comparable => CostInv(F)'
    BY CostNext
  <2> QED
    BY <2>1, <2>3, <2>4
<1>3. GridInv /\ Near /\ NoGoalYet /\ (Comparable => ConsistentBy(F)) /\ [Next]_vars =>
        [goal' # None /\ Comparable =>
           \A p \in CheapestFrom(Starts) : p[1] = goal' => node[goal'].g * 100 <= F * p[2]]_vars
  BY FoundIsNear
<1> QED
  BY <1>1, <1>2, <1>3, GridInvariant, PTL DEF Spec, NearCheapestBy
----------------------------------------------------------------------------
(* Where the heuristic is consistent.  The layers cost the same, and the   *)
(* costs of the moves are those of a metric.                               *)
EvenCosts ==
  /\ \A l \in LayerIds : ~Forbidden(l) => request.layerCost[l] = 1000
  /\ OrthoCost <= DiagCost /\ DiagCost <= 2 * OrthoCost

(* The distance without the weight.                                        *)
Ahead(n) ==
  IF Cardinality(Targets) > BBoxMinTargets THEN ToBox(n)
  ELSE Least({ToTarget(n, t) : t \in Targets})

Beside(i, j) == i <= j + 1 /\ j <= i + 1

LEMMA EvenMultipliers ==
  ASSUME request \in Requests, EvenCosts
  PROVE  /\ \A l \in LayerIds : Multiplier(l) = 1000
         /\ MinLayerCost = 1000
         /\ \A n \in Nodes : SourceG(n) = 0
<1>1. \A l \in LayerIds : Multiplier(l) = 1000
  BY DEF EvenCosts, Multiplier
<1>2. MinLayerCost = 1000
  <2>1. PICK S : S = {request.layerCost[l] : l \in {k \in LayerIds : ~Forbidden(k)}}
    OBVIOUS
  <2>2. PICK l \in LayerIds : request.layerCost[l] >= 0
    BY RequestFacts
  <2>3. ~Forbidden(l)
    <3>1. request.layerCost[l] \in Int
      BY RequestFacts
    <3> QED
      BY <2>2, <3>1 DEF Forbidden
  <2>4. S = {1000}
    <3>1. \A k \in LayerIds : ~Forbidden(k) => request.layerCost[k] = 1000
      BY DEF EvenCosts
    <3> QED
      BY <2>1, <2>3, <3>1
  <2>5. S \in SUBSET Nat /\ S # {}
    BY <2>4
  <2>6. Least(S) \in S
    BY <2>5, HasLeast
  <2> QED
    BY <2>1, <2>4, <2>6 DEF MinLayerCost
<1>3. \A n \in Nodes : SourceG(n) = 0
  BY <1>1, <1>2, NodeParts DEF SourceG
<1> QED
  BY <1>1, <1>2, <1>3

LEMMA Distributes ==
  \A a, b, c \in Nat : /\ (a + b) * c = a * c + b * c
                       /\ a <= b => a * c <= b * c
<1> TAKE a, b, c \in Nat
<1>1. (a + b) * c = a * c + b * c
  OBVIOUS
<1>2. ASSUME a <= b PROVE a * c <= b * c
  <2>1. PICK d \in Nat : b = a + d
    <3>1. b - a \in Nat /\ b = a + (b - a)
      BY <1>2
    <3> QED
      BY <3>1
  <2>2. b * c = a * c + d * c /\ d * c \in Nat /\ a * c \in Nat
    BY <2>1, Products
  <2> QED
    BY <2>2
<1> QED
  BY <1>1, <1>2

(* The octile distance grows with the larger and the smaller offset.       *)
LEMMA OctileSplit ==
  ASSUME request \in Requests, EvenCosts, NEW a \in Nat, NEW b \in Nat
  PROVE  Octile(a, b) = Greater(a, b) * OrthoCost + Lesser(a, b) * (DiagCost - OrthoCost)
<1>1. PICK l, r, g : l = Lesser(a, b) /\ r = Abs(a - b) /\ g = Greater(a, b)
  OBVIOUS
<1>2. l \in Nat /\ r \in Nat /\ g = l + r
  BY <1>1 DEF Lesser, Abs, Greater
<1>3. PICK o, d : o = OrthoCost /\ d = DiagCost - OrthoCost
  OBVIOUS
<1>4. o \in Nat /\ d \in Nat /\ DiagCost = o + d
  BY <1>3, CostAssumption DEF EvenCosts
<1>5. l * DiagCost = l * o + l * d /\ g * o = l * o + r * o
  BY <1>2, <1>4
<1>6. l * o \in Nat /\ l * d \in Nat /\ r * o \in Nat
  BY <1>2, <1>4, Products
<1>7. l * DiagCost + r * o = g * o + l * d
  BY <1>5, <1>6
<1>8. PICK x : x = l * DiagCost + r * o
  OBVIOUS
<1>9. x \in Nat
  BY <1>5, <1>6, <1>8
<1>10. (x * 1000) \div 1000 = x
  BY <1>9
<1>11. Octile(a, b) = (x * 1000) \div 1000
  BY <1>1, <1>3, <1>8, EvenMultipliers DEF Octile
<1> QED
  BY <1>1, <1>3, <1>7, <1>8, <1>10, <1>11

LEMMA OctileFallsSlowly ==
  ASSUME request \in Requests, EvenCosts,
         NEW a \in Nat, NEW b \in Nat, NEW c \in Nat, NEW d \in Nat, a <= c + 1, b <= d + 1
  PROVE  /\ Octile(a, b) <= Octile(c, d) + DiagCost
         /\ a <= c \/ b <= d => Octile(a, b) <= Octile(c, d) + OrthoCost
         /\ a <= c /\ b <= d => Octile(a, b) <= Octile(c, d)
<1>1. PICK g, l, G, L : /\ g = Greater(a, b) /\ l = Lesser(a, b)
                        /\ G = Greater(c, d) /\ L = Lesser(c, d)
  OBVIOUS
<1>2. g \in Nat /\ l \in Nat /\ G \in Nat /\ L \in Nat
  BY <1>1 DEF Greater, Lesser
<1>3. PICK o, e : o = OrthoCost /\ e = DiagCost - OrthoCost
  OBVIOUS
<1>4. o \in Nat /\ e \in Nat /\ DiagCost = o + e /\ e <= o
  BY <1>3, CostAssumption DEF EvenCosts
<1>5. Octile(a, b) = g * o + l * e /\ Octile(c, d) = G * o + L * e
  BY <1>1, <1>3, OctileSplit
<1>6. /\ g <= G + 1 /\ l <= L + 1
      /\ a <= c \/ b <= d => g <= G \/ l <= L
      /\ a <= c /\ b <= d => g <= G /\ l <= L
  BY <1>1 DEF Greater, Lesser
<1>7. /\ g <= G => g * o <= G * o
      /\ l <= L => l * e <= L * e
      /\ g * o <= G * o + o /\ l * e <= L * e + e
  <2>1. G + 1 \in Nat /\ L + 1 \in Nat
    BY <1>2
  <2>2. /\ g <= G => g * o <= G * o
        /\ l <= L => l * e <= L * e
        /\ g * o <= (G + 1) * o /\ l * e <= (L + 1) * e
    BY <1>2, <1>4, <1>6, <2>1, Distributes
  <2>3. (G + 1) * o = G * o + o /\ (L + 1) * e = L * e + e
    BY <1>2, <1>4
  <2> QED
    BY <2>2, <2>3
<1>8. g * o \in Nat /\ l * e \in Nat /\ G * o \in Nat /\ L * e \in Nat
  BY <1>2, <1>4, Products
<1>9. PICK x, y, X, Y : x = g * o /\ y = l * e /\ X = G * o /\ Y = L * e
  OBVIOUS
<1>10. /\ x \in Nat /\ y \in Nat /\ X \in Nat /\ Y \in Nat
       /\ Octile(a, b) = x + y /\ Octile(c, d) = X + Y
       /\ g <= G => x <= X
       /\ l <= L => y <= Y
       /\ x <= X + o /\ y <= Y + e
  BY <1>5, <1>7, <1>8, <1>9
<1>11. x + y <= X + Y + (o + e)
  BY <1>4, <1>10
<1>12. g <= G \/ l <= L => x + y <= X + Y + o
  BY <1>4, <1>10
<1>13. g <= G /\ l <= L => x + y <= X + Y
  BY <1>10
<1> QED
  BY <1>3, <1>4, <1>6, <1>10, <1>11, <1>12, <1>13

LEMMA RangeFallsSlowly ==
  ASSUME NEW S \in SUBSET Int, S # {}, NEW i \in Int, NEW j \in Int, Beside(i, j)
  PROVE  /\ ToRange(i, S) \in Nat /\ ToRange(j, S) \in Nat
         /\ ToRange(i, S) <= ToRange(j, S) + 1
<1>1. ToRange(i, S) \in Nat /\ ToRange(j, S) \in Nat
  BY ToRangeIsNat
<1>2. \A k \in Int : /\ {Abs(k - s) : s \in S} \in SUBSET Nat
                     /\ {Abs(k - s) : s \in S} # {}
  <2>1. \A k \in Int, s \in S : Abs(k - s) \in Nat
    BY DEF Abs
  <2> QED
    BY <2>1
<1>3. CASE (\E s \in S : i <= s) /\ \E s \in S : s <= i
  <2>1. ToRange(i, S) = 0
    BY <1>3 DEF ToRange
  <2> QED
    BY <1>1, <2>1
<1>4. CASE ~((\E s \in S : i <= s) /\ \E s \in S : s <= i)
  <2>1. PICK T : T = {Abs(i - s) : s \in S}
    OBVIOUS
  <2>2. ToRange(i, S) = Least(T) /\ \A s \in S : Least(T) <= Abs(i - s)
    <3>1. \A x \in T : Least(T) <= x
      BY <1>2, <2>1, HasLeast
    <3> QED
      BY <1>4, <2>1, <3>1 DEF ToRange
  <2>3. CASE (\E s \in S : j <= s) /\ \E s \in S : s <= j
    <3>1. PICK s \in S : Abs(i - s) <= 1
      <4>1. PICK u, v \in S : j <= u /\ v <= j
        BY <2>3
      <4>2. u \in Int /\ v \in Int
        OBVIOUS
      <4>3. CASE \A s \in S : s < i
        <5>1. u < i /\ Abs(i - u) <= 1
          BY <4>1, <4>2, <4>3 DEF Beside, Abs
        <5> QED
          BY <5>1
      <4>4. CASE \A s \in S : i < s
        <5>1. i < v /\ Abs(i - v) <= 1
          BY <4>1, <4>2, <4>4 DEF Beside, Abs
        <5> QED
          BY <5>1
      <4>5. (\A s \in S : s < i) \/ \A s \in S : i < s
        BY <1>4
      <4> QED
        BY <4>3, <4>4, <4>5
    <3>2. Abs(i - s) \in Nat
      BY DEF Abs
    <3> QED
      BY <1>1, <2>2, <3>1, <3>2
  <2>4. CASE ~((\E s \in S : j <= s) /\ \E s \in S : s <= j)
    <3>1. PICK U : U = {Abs(j - s) : s \in S}
      OBVIOUS
    <3>2. ToRange(j, S) = Least(U) /\ Least(U) \in U
      BY <1>2, <2>4, <3>1, HasLeast DEF ToRange
    <3>3. PICK s \in S : Least(U) = Abs(j - s)
      BY <3>1, <3>2
    <3>4. Abs(i - s) <= Abs(j - s) + 1 /\ Abs(i - s) \in Nat /\ Abs(j - s) \in Nat
      BY DEF Beside, Abs
    <3> QED
      BY <1>1, <2>2, <3>2, <3>3, <3>4
  <2> QED
    BY <2>3, <2>4
<1> QED
  BY <1>3, <1>4

LEMMA EvenSteps ==
  ASSUME request \in Requests, EvenCosts, request.freeVias = {},
         NEW m \in Nodes, NEW n \in Nodes, NEW b, LegalStep(m, n, b)
  PROVE  /\ Cell(m) = Cell(n) => m[1] = n[1] /\ m[2] = n[2] /\ Base(m, n) = request.viaCost
         /\ Cell(m) # Cell(n) =>
              /\ m[3] = n[3] /\ Beside(m[1], n[1]) /\ Beside(m[2], n[2])
              /\ Base(m, n) = IF m[1] # n[1] /\ m[2] # n[2] THEN DiagCost ELSE OrthoCost
<1>1. /\ m[1] \in Int /\ m[2] \in Int /\ n[1] \in Int /\ n[2] \in Int
      /\ Multiplier(m[3]) = 1000 /\ Multiplier(n[3]) = 1000
      /\ request.viaCost \in Nat
  BY NodeParts, RequestFacts, EvenMultipliers
<1>2. ASSUME Cell(m) = Cell(n)
      PROVE  m[1] = n[1] /\ m[2] = n[2] /\ Base(m, n) = request.viaCost
  <2>1. Greater(0, request.viaCost + 1000 - 1000) = request.viaCost
    BY <1>1 DEF Greater
  <2>2. ViaStep(m, n) = request.viaCost
    BY <1>1, <2>1 DEF ViaStep
  <2> QED
    BY <1>2, <2>2 DEF Base, Cell
<1>3. ASSUME Cell(m) # Cell(n)
      PROVE  /\ m[3] = n[3] /\ Beside(m[1], n[1]) /\ Beside(m[2], n[2])
             /\ Base(m, n) = IF m[1] # n[1] /\ m[2] # n[2] THEN DiagCost ELSE OrthoCost
  <2>1. m[3] = n[3] /\ Greater(Abs(m[1] - n[1]), Abs(m[2] - n[2])) = 1
    BY <1>3 DEF LegalStep, Distance, Cell
  <2>2. Beside(m[1], n[1]) /\ Beside(m[2], n[2])
    BY <1>1, <2>1 DEF Greater, Abs, Beside
  <2>3. PICK c : c = IF m[1] # n[1] /\ m[2] # n[2] THEN DiagCost ELSE OrthoCost
    OBVIOUS
  <2>4. c \in Nat
    BY <2>3, CostAssumption
  <2>5. (c * 1000) \div 1000 = c
    BY <2>4
  <2>6. MoveCost(m, n) = c
    BY <1>1, <2>3, <2>5 DEF MoveCost
  <2> QED
    BY <1>3, <2>1, <2>2, <2>3, <2>6 DEF Base
<1> QED
  BY <1>2, <1>3

(* The octile distance of the offsets of m and of n to the same place.     *)
LEMMA OctileAlong ==
  ASSUME request \in Requests, EvenCosts, NEW m \in Nodes, NEW n \in Nodes,
         NEW a \in Nat, NEW b \in Nat, NEW c \in Nat, NEW d \in Nat, a <= c + 1, b <= d + 1,
         m[1] = n[1] => a <= c, m[2] = n[2] => b <= d
  PROVE  /\ Octile(a, b) \in Nat /\ Octile(c, d) \in Nat
         /\ Octile(a, b) <= Octile(c, d) + IF m[1] # n[1] /\ m[2] # n[2] THEN DiagCost ELSE OrthoCost
<1>1. Octile(a, b) \in Nat /\ Octile(c, d) \in Nat
  BY OctileIsNat
<1>2. /\ Octile(a, b) <= Octile(c, d) + DiagCost
      /\ a <= c \/ b <= d => Octile(a, b) <= Octile(c, d) + OrthoCost
  BY OctileFallsSlowly
<1> QED
  BY <1>1, <1>2

LEMMA TargetFallsSlowly ==
  ASSUME request \in Requests, EvenCosts, request.freeVias = {},
         NEW m \in Nodes, NEW n \in Nodes, NEW b, LegalStep(m, n, b), NEW t \in Targets
  PROVE  /\ ToTarget(m, t) \in Nat /\ ToTarget(n, t) \in Nat
         /\ ToTarget(m, t) <= ToTarget(n, t) + Base(m, n)
<1>1. /\ m[1] \in Int /\ m[2] \in Int /\ n[1] \in Int /\ n[2] \in Int
      /\ t[1] \in Int /\ t[2] \in Int /\ request.viaCost \in Nat
  BY NodeParts, RequestFacts
<1>2. PICK x, y, X, Y : /\ x = Abs(m[1] - t[1]) /\ y = Abs(m[2] - t[2])
                        /\ X = Abs(n[1] - t[1]) /\ Y = Abs(n[2] - t[2])
  OBVIOUS
<1>3. x \in Nat /\ y \in Nat /\ X \in Nat /\ Y \in Nat
  BY <1>1, <1>2 DEF Abs
<1>4. Octile(x, y) \in Nat /\ Octile(X, Y) \in Nat
  BY <1>3, OctileIsNat
<1>5. /\ ToTarget(m, t) = Octile(x, y) + (IF m[3] # t[3] THEN request.viaCost ELSE 0)
      /\ ToTarget(n, t) = Octile(X, Y) + (IF n[3] # t[3] THEN request.viaCost ELSE 0)
  BY <1>2 DEF ToTarget
<1>6. CASE Cell(m) = Cell(n)
  <2>1. m[1] = n[1] /\ m[2] = n[2] /\ Base(m, n) = request.viaCost
    BY <1>6, EvenSteps
  <2>2. x = X /\ y = Y
    BY <1>2, <2>1
  <2> QED
    BY <1>1, <1>4, <1>5, <2>1, <2>2
<1>7. CASE Cell(m) # Cell(n)
  <2>1. /\ m[3] = n[3] /\ Beside(m[1], n[1]) /\ Beside(m[2], n[2])
        /\ Base(m, n) = IF m[1] # n[1] /\ m[2] # n[2] THEN DiagCost ELSE OrthoCost
    BY <1>7, EvenSteps
  <2>2. /\ x <= X + 1 /\ y <= Y + 1
        /\ m[1] = n[1] => x <= X
        /\ m[2] = n[2] => y <= Y
    BY <1>1, <1>2, <2>1 DEF Beside, Abs
  <2>3. Octile(x, y) <= Octile(X, Y) + Base(m, n)
    BY <1>3, <2>1, <2>2, OctileAlong
  <2>4. Base(m, n) \in Nat
    BY BaseCosts
  <2> QED
    BY <1>1, <1>4, <1>5, <2>1, <2>3, <2>4
<1> QED
  BY <1>6, <1>7

LEMMA BoxFallsSlowly ==
  ASSUME request \in Requests, EvenCosts, request.freeVias = {},
         NEW m \in Nodes, NEW n \in Nodes, NEW b, LegalStep(m, n, b)
  PROVE  ToBox(m) \in Nat /\ ToBox(n) \in Nat /\ ToBox(m) <= ToBox(n) + Base(m, n)
<1>1. /\ m[1] \in Int /\ m[2] \in Int /\ n[1] \in Int /\ n[2] \in Int
      /\ request.viaCost \in Nat /\ Targets # {}
      /\ \A t \in Targets : t[1] \in Int /\ t[2] \in Int
  BY NodeParts, RequestFacts
<1>2. PICK S, R : S = {t[1] : t \in Targets} /\ R = {t[2] : t \in Targets}
  OBVIOUS
<1>3. S \in SUBSET Int /\ S # {} /\ R \in SUBSET Int /\ R # {}
  BY <1>1, <1>2
<1>4. PICK x, y, X, Y : /\ x = ToRange(m[1], S) /\ y = ToRange(m[2], R)
                        /\ X = ToRange(n[1], S) /\ Y = ToRange(n[2], R)
  OBVIOUS
<1>5. x \in Nat /\ y \in Nat /\ X \in Nat /\ Y \in Nat
  BY <1>1, <1>3, <1>4, ToRangeIsNat
<1>6. Octile(x, y) \in Nat /\ Octile(X, Y) \in Nat
  BY <1>5, OctileIsNat
<1>7. /\ ToBox(m) = Octile(x, y) + (IF \E t \in Targets : t[3] = m[3] THEN 0 ELSE request.viaCost)
      /\ ToBox(n) = Octile(X, Y) + (IF \E t \in Targets : t[3] = n[3] THEN 0 ELSE request.viaCost)
  BY <1>2, <1>4 DEF ToBox
<1>8. CASE Cell(m) = Cell(n)
  <2>1. m[1] = n[1] /\ m[2] = n[2] /\ Base(m, n) = request.viaCost
    BY <1>8, EvenSteps
  <2>2. x = X /\ y = Y
    BY <1>4, <2>1
  <2> QED
    BY <1>1, <1>6, <1>7, <2>1, <2>2
<1>9. CASE Cell(m) # Cell(n)
  <2>1. /\ m[3] = n[3] /\ Beside(m[1], n[1]) /\ Beside(m[2], n[2])
        /\ Base(m, n) = IF m[1] # n[1] /\ m[2] # n[2] THEN DiagCost ELSE OrthoCost
    BY <1>9, EvenSteps
  <2>2. x <= X + 1 /\ y <= Y + 1
    BY <1>1, <1>3, <1>4, <2>1, RangeFallsSlowly
  <2>3. (m[1] = n[1] => x <= X) /\ (m[2] = n[2] => y <= Y)
    BY <1>4, <1>5
  <2>4. Octile(x, y) <= Octile(X, Y) + Base(m, n)
    BY <1>5, <2>1, <2>2, <2>3, OctileAlong
  <2>5. Base(m, n) \in Nat
    BY BaseCosts
  <2>6. PICK v : v = IF \E t \in Targets : t[3] = m[3] THEN 0 ELSE request.viaCost
    OBVIOUS
  <2>7. ToBox(m) = Octile(x, y) + v /\ ToBox(n) = Octile(X, Y) + v /\ v \in Nat
    BY <1>1, <1>7, <2>1, <2>6
  <2> QED
    BY <1>6, <2>4, <2>5, <2>7
<1> QED
  BY <1>8, <1>9

LEMMA AheadFallsSlowly ==
  ASSUME request \in Requests, EvenCosts, request.freeVias = {},
         NEW m \in Nodes, NEW n \in Nodes, NEW b, LegalStep(m, n, b)
  PROVE  Ahead(m) \in Nat /\ Ahead(n) \in Nat /\ Ahead(m) <= Ahead(n) + Base(m, n)
<1>1. CASE Cardinality(Targets) > BBoxMinTargets
  BY <1>1, BoxFallsSlowly DEF Ahead
<1>2. CASE ~(Cardinality(Targets) > BBoxMinTargets)
  <2>1. PICK S, R : S = {ToTarget(m, t) : t \in Targets} /\ R = {ToTarget(n, t) : t \in Targets}
    OBVIOUS
  <2>2. \A t \in Targets : /\ ToTarget(m, t) \in Nat /\ ToTarget(n, t) \in Nat
                           /\ ToTarget(m, t) <= ToTarget(n, t) + Base(m, n)
    BY TargetFallsSlowly
  <2>3. S \in SUBSET Nat /\ S # {} /\ R \in SUBSET Nat /\ R # {}
    BY <2>1, <2>2, RequestFacts
  <2>4. Least(S) \in S /\ (\A j \in S : Least(S) <= j) /\ Least(R) \in R
    BY <2>3, HasLeast
  <2>5. PICK t \in Targets : Least(R) = ToTarget(n, t)
    BY <2>1, <2>4
  <2>6. ToTarget(m, t) \in S
    BY <2>1
  <2>7. Base(m, n) \in Nat
    BY BaseCosts
  <2>8. Least(S) \in Nat /\ Least(R) \in Nat /\ Least(S) <= ToTarget(m, t)
    BY <2>3, <2>4, <2>6
  <2>9. Least(S) <= Least(R) + Base(m, n)
    BY <2>2, <2>5, <2>7, <2>8
  <2> QED
    BY <1>2, <2>1, <2>8, <2>9 DEF Ahead
<1> QED
  BY <1>1, <1>2

LEMMA HeuristicIsWeighted ==
  ASSUME request \in Requests, NEW n \in Nodes
  PROVE  Heuristic(n) = (Ahead(n) * request.hWeight) \div 100
<1>1. Targets # {}
  BY RequestFacts
<1> QED
  BY <1>1 DEF Heuristic, Ahead

(* What the weight, and its rounding, do to a distance that falls by at    *)
(* most s.                                                                 *)
WholePart(a, w) == ((a * w) \div 100) * 100
Times(F, s) == F * s

LEMMA WeightedFalls ==
  \A a, c, s, w, F \in Nat :
     a <= c + s /\ w <= F /\ (w % 100 = 0 \/ (w < F /\ (s = 0 \/ s >= 100)))
        => WholePart(a, w) <= Times(F, s) + WholePart(c, w)
<1> SUFFICES ASSUME NEW a \in Nat, NEW c \in Nat, NEW s \in Nat, NEW w \in Nat, NEW F \in Nat,
                    a <= c + s, w <= F, w % 100 = 0 \/ (w < F /\ (s = 0 \/ s >= 100))
             PROVE  WholePart(a, w) <= Times(F, s) + WholePart(c, w)
  OBVIOUS
<1> SUFFICES ((a * w) \div 100) * 100 <= F * s + ((c * w) \div 100) * 100
  BY DEF WholePart, Times
<1>1. PICK x, y, z : x = a * w /\ y = c * w /\ z = s * w
  OBVIOUS
<1>2. x \in Nat /\ y \in Nat /\ z \in Nat
  BY <1>1, Products
<1>3. x <= y + z
  <2>1. c + s \in Nat /\ (c + s) * w = y + z
    BY <1>1
  <2> QED
    BY <1>1, <2>1, Distributes
<1>4. PICK v : v = F * s
  OBVIOUS
<1>5. z <= v /\ v \in Nat
  <2>1. w * s <= F * s
    BY Distributes
  <2>2. w * s = s * w /\ F * s \in Nat
    BY Products
  <2> QED
    BY <1>1, <1>4, <2>1, <2>2
<1>6. CASE w % 100 = 0
  <2>1. PICK k \in Nat : w = k * 100
    <3>1. w \div 100 \in Nat /\ w = (w \div 100) * 100
      BY <1>6
    <3> QED
      BY <3>1
  <2>2. PICK p, q : p = a * k /\ q = c * k
    OBVIOUS
  <2>3. p \in Nat /\ q \in Nat /\ x = p * 100 /\ y = q * 100
    BY <1>1, <2>1, <2>2, Products
  <2>4. (x \div 100) * 100 = x /\ (y \div 100) * 100 = y
    BY <2>3
  <2> QED
    BY <1>1, <1>2, <1>3, <1>4, <1>5, <2>4
<1>7. CASE s = 0
  <2>1. x <= y
    <3>1. a <= c
      BY <1>7
    <3> QED
      BY <1>1, <3>1, Distributes
  <2>2. x \div 100 <= y \div 100
    BY <1>2, <2>1
  <2>3. x \div 100 \in Nat /\ y \div 100 \in Nat
    BY <1>2
  <2> QED
    BY <1>1, <1>4, <1>5, <2>2, <2>3
<1>8. CASE w < F /\ s >= 100
  <2>1. z + 100 <= v
    <3>1. w + 1 \in Nat /\ w + 1 <= F
      BY <1>8
    <3>2. (w + 1) * s <= F * s
      BY <3>1, Distributes
    <3>3. (w + 1) * s = s * w + s
      OBVIOUS
    <3> QED
      BY <1>1, <1>2, <1>4, <1>5, <1>8, <3>2, <3>3
  <2>2. (x \div 100) * 100 <= x /\ y <= (y \div 100) * 100 + 99
    BY <1>2
  <2>3. x \div 100 \in Nat /\ y \div 100 \in Nat
    BY <1>2
  <2> QED
    BY <1>1, <1>2, <1>3, <1>4, <1>5, <2>1, <2>2, <2>3
<1> QED
  BY <1>6, <1>7, <1>8

(* A factor that makes up for the weight, and for its rounding where the   *)
(* weight is not a whole number.                                           *)
Covers(F) ==
  /\ request.hWeight <= F
  /\ \/ request.hWeight % 100 = 0
     \/ /\ request.hWeight < F
        /\ OrthoCost >= 100 /\ (request.viaCost = 0 \/ request.viaCost >= 100)

LEMMA EvenIsConsistent ==
  ASSUME request \in Requests, EvenCosts, request.freeVias = {}, NEW F \in Nat, Covers(F)
  PROVE  ConsistentBy(F)
<1>1. \A s \in Sources : SourceG(s) >= 0
  BY EvenMultipliers, RequestFacts
<1>2. ASSUME NEW m \in Nodes, NEW n \in Nodes, LegalStep(m, n, blocked)
      PROVE  Heuristic(m) * 100 <= F * Base(m, n) + Heuristic(n) * 100
  <2>1. PICK a, c, s, w : a = Ahead(m) /\ c = Ahead(n) /\ s = Base(m, n) /\ w = request.hWeight
    OBVIOUS
  <2>2. a \in Nat /\ c \in Nat /\ a <= c + s
    BY <1>2, <2>1, AheadFallsSlowly
  <2>3. s \in Nat /\ w \in Nat /\ w <= F
    BY <2>1, BaseCosts, RequestFacts DEF Covers
  <2>4. w % 100 = 0 \/ (w < F /\ (s = 0 \/ s >= 100))
    <3>1. CASE Cell(m) = Cell(n)
      <4>1. s = request.viaCost
        BY <1>2, <2>1, <3>1, EvenSteps
      <4> QED
        BY <2>1, <4>1 DEF Covers
    <3>2. CASE Cell(m) # Cell(n)
      <4>1. s = DiagCost \/ s = OrthoCost
        BY <1>2, <2>1, <3>2, EvenSteps
      <4>2. OrthoCost >= 100 => s >= 100
        BY <4>1, CostAssumption DEF EvenCosts
      <4> QED
        BY <2>1, <4>2 DEF Covers
    <3> QED
      BY <3>1, <3>2
  <2>5. WholePart(a, w) <= Times(F, s) + WholePart(c, w)
    BY ONLY <2>2, <2>3, <2>4, F \in Nat, WeightedFalls
  <2>6. ((a * w) \div 100) * 100 <= F * s + ((c * w) \div 100) * 100
    BY ONLY <2>5 DEF WholePart, Times
  <2> QED
    BY <2>1, <2>6, HeuristicIsWeighted
<1> QED
  BY <1>1, <1>2 DEF ConsistentBy

(* FoundIsNearCheapest where the layers cost the same and the costs are    *)
(* those of a metric: by the weight itself where it is a whole number, and *)
(* by any larger factor where it is not, as with the default weight, 2.3.  *)
THEOREM EvenIsNearCheapest ==
  ASSUME NEW F \in Nat, F >= 100
  PROVE  Spec /\ [](Comparable => EvenCosts /\ Covers(F)) => NearCheapestBy(F)
<1>1. GridInv /\ (Comparable => EvenCosts /\ Covers(F)) => (Comparable => ConsistentBy(F))
  BY EvenIsConsistent, StoreTypes DEF GridInv, Comparable
<1>2. Spec /\ [](Comparable => ConsistentBy(F)) => NearCheapestBy(F)
  BY ConsistentIsNearCheapest
<1> QED
  BY <1>1, <1>2, GridInvariant, PTL

(* FoundIsNearCheapest, as it is stated: by the weight of the request.     *)
WholeWeight == request.hWeight % 100 = 0
Weight == Greater(100, request.hWeight)

LEMMA WeightFacts ==
  ASSUME request \in Requests
  PROVE  /\ Weight \in Nat /\ Weight >= 100 /\ request.hWeight <= Weight
         /\ request' = request => Weight' = Weight
<1>1. request.hWeight \in Nat
  BY RequestFacts
<1> QED
  BY <1>1 DEF Weight, Greater

THEOREM RoutesAreNearCheapest ==
  Spec /\ [](Comparable => EvenCosts /\ WholeWeight) => FoundIsNearCheapest
<1> DEFINE Near == Comparable => CostInv(Weight)
<1> DEFINE Even == Comparable => EvenCosts /\ WholeWeight
<1> DEFINE Bound == goal' # None /\ Comparable =>
      \A p \in CheapestFrom(Starts) : p[1] = goal' => node[goal'].g * 100 <= Weight * p[2]
<1>1. Init => Near /\ NoGoalYet
  BY CostInit, NoGoalInit
<1>2. ASSUME GridInv, Even, Comparable
      PROVE  /\ request \in Requests /\ Weight \in Nat /\ Weight >= 100
             /\ \A F : F = Weight => ConsistentBy(F)
  <2>1. request \in Requests
    BY <1>2, StoreTypes DEF GridInv
  <2>2. Weight \in Nat /\ Weight >= 100 /\ request.hWeight <= Weight
    BY <2>1, WeightFacts
  <2>3. ASSUME NEW F, F = Weight PROVE ConsistentBy(F)
    <3>1. F \in Nat /\ Covers(F)
      BY <1>2, <2>2, <2>3 DEF Covers, WholeWeight
    <3> QED
      BY <1>2, <2>1, <3>1, EvenIsConsistent DEF Comparable
  <2> QED
    BY <2>1, <2>2, <2>3
<1>3. GridInv /\ Near /\ NoGoalYet /\ Even /\ [Next]_vars => (Near /\ NoGoalYet)'
  <2> SUFFICES ASSUME GridInv, Near, NoGoalYet, Even, [Next]_vars PROVE Near' /\ NoGoalYet'
    OBVIOUS
  <2>1. NoGoalYet'
    BY NoGoalNext
  <2>2. UNCHANGED board
    BY DEF Next, Exhausted, Capped, DuplicateSkip, Arrive, Expand, vars, board
  <2>3. Comparable' = Comparable
    BY <2>2, SameWalks DEF board
  <2>4. ASSUME Comparable PROVE CostInv(Weight)'
    <3>1. request \in Requests /\ Weight \in Nat /\ Weight >= 100
      BY <1>2, <2>4
    <3>2. PICK F : F = Weight
      OBVIOUS
    <3>3. ConsistentBy(F) /\ F \in Nat /\ F >= 100
      BY <1>2, <2>4, <3>1, <3>2
    <3>4. CostInv(F)
      BY <2>4, <3>2 DEF CostInv, ClosedNear
    <3>5. CostInv(F)'
      BY <3>3, <3>4, CostNext
    <3>6. Weight' = F
      BY <2>2, <3>1, <3>2, WeightFacts DEF board
    <3> QED
      BY <3>5, <3>6 DEF CostInv, ClosedNear
  <2> QED
    BY <2>1, <2>3, <2>4
<1>4. GridInv /\ Near /\ NoGoalYet /\ Even /\ [Next]_vars => [Bound]_vars
  <2> SUFFICES ASSUME GridInv, Near, NoGoalYet, Even, Next, goal' # None, Comparable,
                      NEW p \in CheapestFrom(Starts), p[1] = goal'
               PROVE  node[goal'].g * 100 <= Weight * p[2]
    OBVIOUS
  <2>1. PICK F : F = Weight
    OBVIOUS
  <2>2. ConsistentBy(F) /\ F \in Nat /\ F >= 100
    BY <1>2, <2>1
  <2>3. CostInv(F)
    BY <2>1 DEF CostInv, ClosedNear
  <2> QED
    BY <2>1, <2>2, <2>3, FoundIsNear
<1>5. [Bound]_vars =>
        [goal' # None /\ Unconstrained /\ request.turnCost = 0 /\ request.freeVias = {} =>
           \A p \in CheapestFrom({<<s, SourceG(s)>> : s \in Sources}) :
             p[1] = goal' => node[goal'].g * 100 <= Greater(100, request.hWeight) * p[2]]_vars
  BY DEF Comparable, Starts, Weight
<1> HIDE DEF Near, Even, Bound
<1>6. Spec /\ []Even => [][Bound]_vars
  BY <1>1, <1>3, <1>4, GridInvariant, PTL DEF Spec
<1> QED
  BY <1>5, <1>6, PTL DEF Even, FoundIsNearCheapest
====================================================================================
