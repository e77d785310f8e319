# KiCadRoutingTools: the routing engine in TLA+

KiCadRoutingTools is a grid autorouter for KiCad boards: Python loops around an
A* search written in Rust.  The search is a pure function of a map of blocked
cells; what makes the router a *system* is the code around it, which keeps a
board, a reference-counted obstacle map, half a dozen ledgers, queues and two
custody registries consistent while nets are routed, ripped, restored, queued
and rerouted.  That code, the obstacle map below it and the search itself are what these
modules model.

The engine is one thread.  Its difficulty is not concurrency but long sequences:
what a rip does is undone or committed much later, often by another loop, on a
board that has moved on, and each of the ledgers is updated at a different place.
The choices that drive the sequences (which net the frontier analysis blames,
what a search returns, when the user cancels) are outside the engine's
control and are nondeterministic here.

1. Inventory  2. Modules  3. Runs  4. Proofs  5. What the code does besides  6. Not modelled  7. Plan

## 1. Inventory

Paths are under `src/py_router/` unless they say otherwise.

| Component | State it keeps | Operations | Correct when |
|---|---|---|---|
| Rip and restore primitives (`rip_up_reroute.py`) | `pcb_data` copper, `_rip_saved`, `_refused_saved_134` | `rip_up_net`, `restore_net`, `restore_ripped_net` | a restore undoes the rip in every ledger, or refuses and changes none |
| Routing state, bookkeeping (`routing_state.py`, `routing_context.py`) | `routed_results`, `routed_net_ids`, `routed_net_paths`, `remaining_net_ids`, `results`, `rip_ancestry` | record a success, prepare and restore the map in place | the ledgers agree on which nets are routed |
| Obstacle cache (`obstacle_cache.py`), working map | rows per net; counts per row for tracks, vias and small vias | stamp, unstamp, recompute, mirror | working = base + sum of the caches, in each family |
| Obstacle map (`src/rust_router/src/obstacle_map.rs`) | counts, permanent rows, two windowed bitmaps, overflow sets | add, remove, grow, query a cell or a row | the bitmaps answer like the counts |
| Grid search (`src/rust_router/src/router.rs`) | node store, open set, budget, frontier | pop, relax, extend, reconstruct | a route obeys the rules; a failure reports what separates the ends, up to a limit |
| Single-ended loop (`single_ended_loop.py`) | ladder locals, `rip_and_retry_history` | route once, rip ladder, stub-swap rescue | a failed ladder leaves no trace; a landing commits all its rips |
| Reroute loop (`reroute_loop.py`) | `reroute_queue`, its index, `queued_net_ids` | reroute, ladder, terminal restore | no net is lost or routed twice; the queue drains |
| Terminal restore (`rip_restore.py`) | - | full, stub, none | never a short, never less than the clear escape |
| History and blame (`polarity_swap.py`, `blocking_analysis.py`) | obstacle-cell cache | history gate, frontier analysis, filter | only rippable nets are offered |
| Custody (`diff_pair_custody.py`) | `casualty_custody` | record, reconcile | a ripped net is rerouted, restored or partly restored |
| Phase 3 (`phase3_routing.py`) | `pending_multipoint_nets`, a snapshot of it, the rip trees of nested calls | tap routing, tap rip-up, cascaded reroute, re-ask, stub switch | taps never short; a retry that loses more than it gains is undone; every net's turn ends |
| Differential pairs (`diff_pair_loop.py`, `diff_pair_routing.py`, ...) | the same ledgers, two nets per rip; `diff_pair_by_net_id`, `_graze_ancestry`, `_pair_queue` | graze, probe and ladder rips, chains of legs, hybrid, deferral | the halves move together; a pair that fails leaves no trace; the loop ends |
| Pipeline (`route.py`, `cleanup_pipeline.py`) | counters, write-list | passes in order, authoritative filter, write | the file is what the ledgers say |
| Net rescue, length matching, improvement gate, planes, fanout, swaps, planner, placer, GUI, parser, writer, tools | see section 6 and `PROJECT.json` | | |

How they interact: the loops call the search with the working map after taking
the net's own rows out (`prepare_obstacles_inplace`), record a landing in the
ledgers, recompute the net's cache entry from the board and put the rows back.
A failed search reports blocked cells; the analysis turns them into a list of
nets; the ladder rips along that list through `rip_up_net`, retries, and
commits (queue and custody) or restores.  The reroute loop consumes the queue
and may open ladders itself.  Phase 3 adds taps to nets whose main route landed, rips in
its own way and reroutes its victims at once, recursively.  A differential-pair run has a
loop of its own in front of the same reroute loop.  The reconciliation reads custody after
all loops.

What is hard: a saved route is used when the board has moved on; several ledgers must be
undone together, in reverse; queues grow while they are worked off; a cache is kept by hand
beside what it caches; a nested call rips what an outer call still holds.  The hazards
list in `PROJECT.json` has each at its line.

## 2. Modules

| Module | Models | Variables or role |
|---|---|---|
| `StampCounts` | reference counts | operators |
| `StampedGrid` | abstract: a row is blocked while it is permanent or stamped | `stamps`, `permanent` |
| `ObstacleMap` | the Rust map: counts, windowed bitmaps, growth, overflow, row sweeps | refines `StampedGrid` |
| `WorkingMap` | the bracket around a search: three families of counts, keep-outs, tap vias, net ties | the counts, the cache and the open bracket |
| `GridSearch` | the A* search as a state machine, one pop per step | node store, open set, budget, frontier |
| `RouteBoard` | board, map and ledgers of single nets; record, rip, restore, put back a stub | `copper`, `cache`, `work`, `routed`, `routedIds`, `paths`, `results`, `remaining`, `ripSaved`, `refused` |
| `RipLadder` | one rip-up ladder, in either loop | `pc`, `phase`, `frame`, `queue`, `qi`, `queued`, `ancestry`, `history`, `custody`, auxiliary `entry` |
| `RipReroute` | the two loops, the stub-swap rescue, the terminal restore, cancel | `pos`, `cancelled` |
| `CasualtyReconcile` | end of run: reconciliation, authoritative filter, write | `stage`, `todo`, `still`, `partial` |
| `TapCascade` | phase 3: the main loop, tap rip-ups and the reroutes they nest | `pending`, `stack` (the calls in progress), ... |
| `TapRescue` | the stub switch at the end of a net's turn in phase 3 | the cloned map |
| `PairBoard` | ledgers and primitives of a pair run | as `RouteBoard`, per half, with `named` and `mapped` |
| `PairLoop` | the pair loop and the pair branch of the reroute loop | `phase`, `pc`, `frame`, `todo`, `grazed`, `queue`, `queued`, `history`, `custody`, `deferred` |
| `EvictionBoard` | abstract: a board that changes only when a net lands, together with its evictions | `board`, `evicted` |
| `RouteBoard_proofs` | lemmas about the primitives of the board | |
| `RipReroute_proofs`, `CasualtyReconcile_proofs` | theorems about the single-ended loops and about the end of the run, the second extending the first | |
| `TapCascade_proofs` | theorems about the open calls of phase 3, their guards and what they hold against the board | |
| `PairLoop_proofs` | theorems about the pair loops: the board's lemmas, the loop, the refinement | |
| `ObstacleMap_proofs`, `WorkingMap_proofs`, `GridSearch_proofs` | theorems about the map, the bracket around a search, the search | |
| `MC...` | small boards, maps and requests for TLC | |

`RipLadder` extends `RouteBoard`, `RipReroute` extends `RipLadder`, `CasualtyReconcile` extends
`RipReroute`, `TapCascade` extends `RouteBoard` and `TapRescue` extends `TapCascade`, `PairLoop`
extends `PairBoard`.  `EvictionBoard` is refined by the single-ended loops and by the pair loops,
`StampedGrid` by `ObstacleMap`; `RouteBoard` uses the map the way `StampedGrid` promises.

What the variables stand for.  A *cell* is a place that the copper of at most one
net may take; the clearance around it is part of the cell, so "collides" is
set intersection.  `copper[n]` is the segments and vias of `n` in `pcb_data`,
`cache[n]` the rows of its entry in `net_obstacles_cache`, `work` the counts of
`working_obstacles`.  `routed` is the dictionary `routed_results` with `None` for a
missing key; a result is a record, and a result found in the input file
(`existing`) has no path, which several branches depend on.  `frame` holds the
locals of the ladder in progress, `pc` where it is.  `entry` is auxiliary: the ledgers as
they were when the ladder opened, read by a property and by no step.

One action is one handler between two points where the engine consults
something it does not control: taking a net and searching (`SERoutes`,
`SEOpensLadder`, `SEFails`), going up a level (`NextLevel`), ripping one
blocker (`RipOne`), the retry (`RetrySucceeds`, `RetryFails`), restoring one
victim (`UnwindOne`), the slot-0 guard, each step of the rescue, and the same
for the other loops.  Every ledger update of a handler is in its action; the primitives
(`RecordSuccess`, `RipUp`, `RestoreNet`, `RecordPair`, ...) match the shared functions of the
code.  Phase 3 calls itself: each call in progress is a frame of `stack` ("net", "tap",
"reroute") and an action works on the top frame.

What is nondeterministic, and why:

* the search returns any candidate route on rows the prepared map leaves free,
  or fails, with or without blocked cells.  A failure is allowed even when a route
  exists, because the search has an iteration limit.  (`GridSearch` opens the search up; its
  requests and walls are then chosen in the initial state, and it is deterministic except
  for the order in which sources are pushed);
* the blockers are any arrangement of any subset of the nets that the analysis
  could name (they have a path entry, are routed and are not excluded): ranking and
  the mincut probe only decide the order;
* the stub-debris trim keeps any part of the net's other copper;
* in phase 3, whether a retry is kept or abandoned is open, for every metric of
  `_phase3_abandon_retry`: they compare pads, values or probes, which the model does not carry.
  Which of a multi-point net with copper of its own fails and which comes back exhausted is open
  too (`Exhausts`): it depends on where its copper lies and on a gate at the terminals;
* a multi-point net that is rerouted may have its stub moved to one of `StubSites` for its main
  route (`route_multipoint_main` switches boxed stubs and tries again), where it is clear of the
  copper on the board;
* the user cancels between any two nets.

## 3. Runs

Seven runs pass, five show a disagreement between the code and what the
repository says of it.  State counts are of complete searches.

**ladder** (`RipReroute`, 193 637 states).  Nets a, b, c contend for four cells and e is
routed in the input file and may be ripped (`--rip-existing-nets`), with ladders of
up to three levels, a stub of c that can move to another layer, and a cancel at any
point.  Every net can be in the way of every other one, so chains a-b-c-a are possible, the
re-analysis finds both known and new nets, the slot-0 guard fires, the rescue rips for
itself, and the queue grows while it is processed.  Checked: the types, with the ladder's indices
in range (`LadderTypeOK`); every cell with copper is blocked for others (`MapCovers`);
`LedgersAgree`; `RipsAreOrderly` (what a ladder ripped is a duplicate-free prefix of its
list, which the rip loop and the history key rely on, and no net rips a net that ripped
it); `FailedLadderLeavesNoTrace`; `VictimsKeepTheirTurn` (queued nets are unrouted when
their turn comes, and no restore is ever refused); `Terminates`; and `RipsAreAtomic`,
the refinement of `EvictionBoard`: with the victims of the open ladder still counted as
present, copper only leaves the board in the step in which the net it was evicted for lands.

**settle** (`CasualtyReconcile`, 354 394 states).  Four nets with routes of two cells, so
that half of a saved route may be clear; e, from the file, may be blamed until a restore
loses its path entry.  The loops run to the end or are cancelled anywhere, then the reconciliation and
the write.  `NoShort`; `MapBalanced` (the audit of #309); `NoNetForgotten` (a ripped net is
routed, in the open ladder, or in custody with exactly its last copper);
`CustodyNeverAbandoned`; `WrittenLedgersAgree`; `EventuallyWritten`.

**taps** (`TapCascade`, 161 142 states).  Two nets with taps, a length-matched net and a simple
one; each can be in the way of another, one has a stub so that its main route can come back
exhausted, or land after the stub has moved, and calls nest as deep as `MaxRip` allows.  The other
site of the stub is one a simple net's route may take, and no other net's tap crosses it: with a
site that does, `NoShort` fails here as it does in the code (section 5).  `NoShort`; `MapAccounts`
(the map is the caches plus the guards of taps in progress, nothing else); `LedgersAgree`; `OpenCallsAreSound`
(the frames nest as the code calls them, within the depth limits, and no cascade rips a net from
under a call above it); `PendingWorkFits` (what is pending is on the board, items to reroute are
unrouted, every restore fits); `PhaseEnds`; `TurnsEndRouted` (a net leaves its turn with a route:
a re-asked tree is replaced or brought back, never lost).

**grid** (`ObstacleMap`, 54 200 states).  Four cells, one of which overflows the capped
window and later migrates into it, counts up to two, words of four bits that straddle rows.
`BitmapCachesCounts` ("a PURE CACHE of refcount > 0"); `SweepsAreExact` (the word-at-a-time
query answers like the query per cell on every segment); `PermanentRowsStay`;
`ImplementsStampedGrid`.

**brackets** (`WorkingMap`, 837 states).  Two nets, three copper states each, the small-via
family on and off, base rows permanent or counted.  `MapsBalanced`: three families of counts
balance outside the bracket, and inside it what differs is what the restore puts right;
`SmallViasAreProven`; `SearchSeesTheOthers`.

**search** (`GridSearch`, 39 665 states from 4 528 initial ones).  Six kinds of request, each with
every subset of a group of walls: dead ends with a greedy heuristic, an admissible one with two
targets and the same at twice its weight, budgets of three pops, the halves of a pair with every
direction rule, vias that must keep apart.  `NodeStoreIsSound` (every visited node hangs from an
expanded one by a step that was and still is legal, with the cost and the vias on record);
`FrontierSeparates` (what a search that ran dry reports is blocked and, below the limit of a
report, separates the ends on its own: whatever else is freed, no step leaves the explored part but
onto a reported cell); `BudgetIsEarned`;
`RoutesObeyTheRules`; `ExpandedIsFinal`; `FoundIsNearCheapest` (against an independent
shortest-path definition).

**pairs** (`PairLoop`, 55 777 states).  Pair b can be in the way of a and of c; c is a chain of
legs.  Graze rips, probe rips, ladders, hybrids, deferrals, terminal restores, cancel
anywhere.  `PairBooksAgree` (the ledgers agree with each other and across the halves,
and the write-list carries each result once, whole or as its legs, #369 A2);
`FailedPairLeavesNoTrace`; `NoPairForgotten`; `PairsAheadAreUnrouted` (the loop routes what
it takes without asking, so what it will take is unrouted, distinct and not queued
elsewhere); `PairsEnd`; `PairRipsAreAtomic` (refines `EvictionBoard`).

The disagreements, each with a trace (the quotes are in `PROJECT.json`):

* **dropped**: the reconciliation's last resort does not register its result, so the
  authoritative filter drops the pieces; the #134 last resort in `route.py` has a
  comment about exactly this trap.
* **ghost**: a pending net whose reroute came back exhausted is taken by the main loop of
  phase 3 with the route of the snapshot, whose copper a rip took off the board; the
  ripped copper enters the write-list again.
* **clone**: the stub switch of phase 3 searches the map that was cloned before the net's
  rip-ups, and may lay a tap through the new copper of a rerouted victim.
* **corridor**: the net-tie corridor is lifted with counted removals; with the default
  permanent base the partner's rows were never counted and stay blocked.
* **pingpong**: three pairs that share two corridors graze-rip each other in a ring for
  ever; `_graze_ancestry` forbids only a ring of two.

### Bounds

`MaxRip` is `max_rip_up_count` (2 or 3 in the runs, 1 in *pingpong* and *clone*; the code's
default is 3, and three levels are the first at which a re-analysis can swap an entry that is
not at the end).  `MaxSwaps` bounds the stub ends times layers the rescue tries.  Queue,
history and ancestry need no bound: they are finite because ladders are.  Three or four nets
are enough for each relation between nets the code has: ripper, victim, victim's victim,
bystander.  Routes have one or two cells because a collision needs one cell and a partial
collision two.  `CountModulus` (3) stands for the width of a count and is reached by no
sequence of stamps the callers make; `WordBits` (4) and `MaxWindow` (49) are small so that words
straddle rows and the cap is met.  `MaxBlockedCells` (16, in the code 10 000) is small enough for a
search to report a sample; `KeyHalf` is the code's 2^19.  `MaxRings`
bounds the taps in one bracket.  The search requests bound the grid (two layers of
five by three or seven by three); five columns are what a detour
around a wall of two needs, seven what a via with straight runs on both sides needs.

### Fairness

The engine is one thread in a loop: when it can take a step it does, so the disjunction
of its steps is weakly fair (`WF` of the engine's part of `Next`).  No single outcome is:
nothing says a search ever succeeds.  Cancel is not fair.  `Terminates` needs the history (a
combination that landed is not tried again) or the ancestry (a victim may not evict its
rippers); the code has both.  `PhaseEnds` needs only the depth limits and that the main loop
takes each pending net once.  `PairsEnd` holds on a board where no three pairs are pairwise in
each other's way; *pingpong* shows that it does not in general.

`CHECK_DEADLOCK FALSE` is set where the modelled code stops: at the end of a pair run, and when a
search has returned.

## 4. Proofs

The proofs hold for every value of the constants that satisfies the named assumptions; TLC
evaluates the assumptions in every run.  They are: the nets, and the layers of a search, are
finite, and so is the grid of a request; the constants have their types (rows, routes, stubs,
requests, costs, an injective order), and a cell of a search fits the bits of its key; the input
board has no short, nor has the one phase 3 starts
from (`PhaseStartsClean`: it comes from the main loop, about which `NeverShorts` says so); `None`
is none of the results, payloads, tap results, directions, nodes and numbers; no route the search
returns, and no route of the input file, is empty (`RoutesHaveCopper`); a pair's route adds copper
that was neither in the file nor an escape piece (`RoutesAreNew`); a via stamp of the small size
lies within that of the full size (`SmallIsSmaller`); words have bits, and the segments asked
about lie on integer coordinates.

**Board and map** (`RouteBoard_proofs`, first part of `RipReroute_proofs`).  Lemmas about counts,
one lemma per primitive, then `SpecInv`: `Spec => []Inv`, where `Inv` is `BoardTypeOK`,
`CacheMirrorsBoard`, `MapCovers`, `NoShort`, `LadderTypeOK` and "no swap state without stub
swaps".  From it `TypesCorrect`, `NeverShorts`, `MapNeverLosesCopper`, and `MapStaysBalanced`
(without the rescue the map is exactly balanced).  `NoShort` alone is not inductive: a landing is
safe because the search avoided the blocked rows; the blocked rows include all foreign copper only
when the counts cover every stamp (`MapCovers`) and the stamps are the copper
(`CacheMirrorsBoard`); taking the net's own rows out of the counts for the search leaves the
others covered only because each net stamps a row once.  A restore is safe because of its
collision check, and its payload is well typed because the registry and the ladder's records are.

**End of run** (`CasualtyReconcile_proofs`).  `RunNeverShorts` carries `NoShort` through the
reconciliation and the write.  `CustodyIsNeverAbandoned` needs to know, at every stage,
which casualties are still to be followed up: the invariant `Followed` says that a ripped net
that is not routed is in the list of the stage or has its clear pieces back.

**Ladders** (`RipReroute_proofs`, second part).  `LedgersAlwaysAgree`, `LadderIsOrderly`,
`FailureLeavesNoTrace`, `VictimsAreKept`, `NothingIsForgotten` and the refinement
`LoopsImplementEviction`, from one invariant `SafeInv` of four parts.

* The ledgers (`LoopInv`; `WrittenLedgersAlwaysAgree` in `CasualtyReconcile_proofs` carries it
  to the file).  A rip notes whether its result was in the write-list (`Trusted`), a result of the
  file is the net's copper in that file (`Honest`), and a restore may trust the note only while
  the net is off the board, is in one payload of the open ladder at most (`InHand`) and is none
  of the nets the first loop will still take (`AheadIsOpen`).
* The order of rips (`OrderInv`).  The list of a ladder has no repeat and what is ripped is a prefix
  of it.  That the prefix survives a re-analysis is the delicate step: `Promoted` swaps the new blocker
  with the entry at the position of the level, and neither of the two may be one that was ripped.
* Reversibility (`HandInv`).  The registry holds exactly the payloads of the ladder, nobody moved
  into the place of a victim (`Apart`), and the ledgers with the victims brought back are those the
  ladder found (`Undoes`).  So no restore collides, and when the last victim is back what is left
  is the entry state.  The map is part of this: counts are equal, not only blocked rows.
* Turns (`TurnInv`).  An item of the queue not taken yet is unrouted, is marked as queued, is in no
  ladder and is not ahead in the first loop; a ripped net that is unrouted is in the ladder or in
  custody with its last payload.

The refinement uses all four: a rip or a restore leaves `CommittedBoard` as it is because
the registry and the ladder agree; a landing is `Land` because the victims it commits are exactly those
it had in hand; a terminal restore is `TakeBack`.

**Obstacle map** (`ObstacleMap_proofs`).  `CacheIsPure`, `PermanentRowsNeverLeave` and the
refinement `MapRefinesGrid`, for every grid, margin and cap.  The invariant says on which side of
the window each marked cell is kept: a cell on the wrong side would be invisible to a query, and
growth moves cells from one side to the other.  The arithmetic of offsets under growth is isolated
in lemmas.  `SweepsAnswerExactly` (`SweepsAreExact`) says for every word width and every segment
that testing a row of the window by masked words is testing its cells: the words between the first
and the last tile the segment (`WordsCoverTheSegment`), each cell has one place in one word, and
the masks of the two end words cut off exactly what lies beyond the ends.  The query takes that
path only when nothing has overflowed, and then the invariant says that no marked cell lies
outside the window, so what a segment loses at its edges is free.

**Working map** (`WorkingMap_proofs`).  `MapStaysBalanced`, `SmallViasStayProven`,
`SearchesSeeTheOthers`.  The counts are sums over nets of stamps that overlap, so the lemmas say
how the number of stampers of a row changes when a net's rows go out, come back or are recomputed
from other copper.  Removal in the code saturates at zero: the invariant shows that it never has
to, which is what makes removal and addition inverse.  The track family needs the hypothesis
`CorridorCounts` (permanent base rows only where no net tie lifts its corridor): with a tie on a
permanent base the counted removal takes a count the base never had, which is the disagreement
*corridor* shows.  The via families need no hypothesis, so `SmallViasStayProven` has none.

**Search** (`GridSearch_proofs`).  `StoreIsSound`, `ExpandedStaysFinal`, `FrontierDoesSeparate`,
`BudgetIsAlwaysEarned`, `RoutesDoObeyTheRules` for any grid, walls, costs, heuristic weight and
request, and `RoutesAreNearCheapest` for those with even costs.  The invariant `GridInv`:

* `TreeInv`: open entries carry the heuristic's price and never a cost below the store's, and
  every visited node hangs from an expanded one by a legal step.  Legality here depends on the
  whole way back (the direction it arrived in, the straight run since the last via, the vias so
  far), so the central lemma, `FrozenWay`, says that nothing on the way back of a node changes: an
  expanded node is never relaxed, and all nodes on a way back are expanded.
* `AwaitedAreOpen`: a visited node that is not expanded has an entry with its present cost; with
  `EndsKept` and `Explored` (all legal successors of an expanded node are visited) an empty open
  set means that the explored part is closed under legal steps but for what the frontier holds.
  `FrontierSeparates` is about what of the frontier is reported: all of it up to the limit, and a
  report shorter than the limit is the whole frontier, because no two places of a sample fall
  together (`SampleIsFull`).  It holds where no direction or spacing rule applies: under such a rule
  a cell may be refused without being blocked.
* `BudgetInv`: the tranches granted are bounded by the progress from the first distance to the
  reference, in quanta; the lemma `ExtensionIsEarned` is about the two divisions.

`RoutesDoObeyTheRules` (`RoutesObeyTheRules`) is about the path that `PathTo` reads off the
parents, which recurses over the node store.  The invariant `RouteInv` therefore says that in
every state there is exactly one function that satisfies that recursion, and that what it gives
for each visited node is a `Way`: it begins at a source, each node is the parent of the next, the
steps counted for a node are the moves before it, and the vias remembered for it are those of the
way.  An expansion keeps the ways of the nodes it does not relax, since those run over expanded
nodes only, and lengthens one by a step for those it does.  The rules are then read off a way:
each is known to the search only as a test on the last three parents (`ViaDirections`), a count or
a set of cells, and the lemmas `ViaKeepsDirection`, `WayStartsAligned` and `OwnViasKeepApart` say
what the tests amount to along the whole route.

`RoutesAreNearCheapest` (`FoundIsNearCheapest`) is about a best-first search that never opens an
expanded node again.  `ConsistentIsNearCheapest` has the argument, for any factor `F` in percent:
if along every legal step the weighted heuristic falls by no more than `F` percent of the cost of
the step (`ConsistentBy`), then what is expanded costs at most `F` percent of any walk to it.  The
walks are the least set of pairs of a node and a cost that has the sources and every legal step,
so that what holds of the sources and is kept by a step holds of all (`WalkInduction`): a walk
that leaves the expanded part passes an open node that is priced no higher than the walk
(`WalksPassOpen`), hence the entry that is popped is not either (`PoppedIsNear`).  What the
reference computes in rounds over pairs are walks (`CheapestAreWalks`, by the least round that is
not).  `EvenIsConsistent` shows where the hypothesis holds: the layers that are not forbidden cost
1000 permille, a diagonal move costs between one and two straight ones (1000 and 1414 in
`types.rs`), and there is no hole of the net itself; it covers the least distance to a target and
the box around many targets, which the run is too small to reach.  The weighted heuristic is
rounded down, so with a weight that is not a whole number, as the default of 2.3, it may fall by a
unit more than the factor allows; `EvenIsNearCheapest` therefore has any factor above the weight,
for costs of 100 units and more, and `RoutesAreNearCheapest`, whose factor is the weight itself,
has whole weights.  The layers must cost the same because a via to a cheaper layer costs less than
the via cost that the heuristic charges.

**Phase 3** (`TapCascade_proofs`).  `GuardsLeaveWithTheirCalls` (`MapAccounts`) and `CascadeTypes`
(`CascadeTypeOK`), for any depth of the cascade.  The invariant `CallsInv` gives every open call
its type and what it has in hand at its stage (`Fits`), says who may have called it and where the
caller waits (`Calls`), and counts the map.  The proof of the count has two lemmas: a step that
moves copper keeps the surplus of every row over its stamps (the lemmas of `RouteBoard_proofs`)
and leaves the set of guarding calls alone (`AccountsStay`); a step that opens, swaps or drops a
guard changes that set by the one call on top (`AccountsMove`).  That a call returns to the caller
it left is what keeps the guards of the calls below in place, and a rip that is told to every open
rip-up changes no guard.

`CallersKeepTheirRoots` (`OpenCallsAreSound`), `WorkMatchesTheBoard` (`PendingWorkFits`),
`PhaseKeepsTheBoard` (`NoShort` and `LedgersAgree`) and `TurnsLeaveARoute` (`TurnsEndRouted`) relate
the calls to the board.  None of these is inductive without the others; the invariant is `PhaseInv`:

* `CascadeInv` says of every open call what its nets have on the board (`Sound`), of the innermost
  one that its victims and taps can go where they came from (`Ready`), and of each pair of calls,
  one above the other (`Beneath`), that the upper one spares what the lower one needs, takes none
  of the nets the lower has yet to route, tells it of every rip, and lays nothing in its guard.
  Only the innermost call can restore anything, and the calls above a rip-up have returned before
  it goes on; so `Ready` is asked of one call only, and what a call finds when control comes back
  is in `Sound` and `Beneath`.  That an abandoned retry may keep its first taps is the delicate
  case: they must be clear of what is *left* of every net (`Residue`), not of what lies there now,
  because every net of the rip tree is ripped once more.  That is what a stub moved in between can
  break: what is left of its net has grown.
* `OwedInv` is about the nets the loop has still to take: each has the route it came with, or an
  open call has it in hand (ripped with exactly that payload, waiting for its reroute, or being
  rerouted).

The four suppose two things of the steps (`Supposed`), neither of which the code ensures.
`ExhaustedAfterTurn`: a reroute comes back exhausted only on a net whose turn is over.  It holds in
*taps*.  On the board of *ghost*, which has the turn it excludes, each of these properties but
`NoShort` fails.  `SwitchesSpareTaps`: a stub that is moved for the main route of a victim does not
land on taps that an open call holds back, neither those that guard their cells now nor those
found first, which an abandoned retry goes back to.  The sites of *taps* ensure it; section 5 says
what happens otherwise.  `PhasesWithoutStubsAreSound` needs no hypothesis about the steps: where no
multi-point net has copper in the input (`NoStubs`), what a rip leaves of such a net is nothing, so
no reroute comes back exhausted, there is no stub to move, the state properties hold, and so does
`ResultsAreOnBoard`, which *ghost* violates on a board with a stub.

**Pairs** (`PairLoop_proofs`, in three parts).  `PairBooksAlwaysAgree`,
`FailedPairsLeaveNoTrace`, `NoPairIsForgotten`, `PairsAheadAreOpen` and `PairsNeverShort`, from
one inductive invariant `LoopSound`.  The first part says what a landing, a rip, the two restores
and the terminal escape preserve, with the victims given as a set; the second has one
lemma per action.  The heart of it is `HandSound`: the victims of the pair in hand are off the
board, the registry holds exactly the payloads it holds, nobody moved into their place
(`HeldSound`), and the ledgers with the victims brought back are the ledgers it found
(`entry = Before(Victims)`).  A rip and a restore leave `Before(Victims)` as it is, and when there are no
victims it is the ledgers themselves.  That a restore is never refused follows from
`HeldSound`, that every victim finds a place in a line from `LinesSound`, which knows that
no pair of a line is routed and that `queued_net_ids` names queued pairs only.
The third proves the refinement, `PairLoopsImplementEviction`: a rip and a restore are
steps that `EvictionBoard` does not see because `Before(Victims)` stays; a landing is its
`Land`, because what is left of a victim is fixed copper only (`CopperKnown`) and a route always has
cells beyond it (`RoutesAreNew`); the terminal restore is `TakeBack`.

Only model-checked: everything about liveness (`Terminates`, `EventuallyWritten`, `PhaseEnds`,
`PairsEnd`), which is out of the prover's reach; the four properties of phase 3 in *taps* without
their hypotheses; and `FoundIsNearCheapest` where layer costs differ.  Of the properties of the
passing runs that are not about liveness each one is stated by a theorem.

## 5. What the code does besides

Observed while reading the sources, consistent with the models where they reach, and not runs of
their own:

* a stub moved for a victim can land on a tap that is found but not committed.  `try_phase3_ripup`
  stamps the taps of its retry before it reroutes the victims: "This prevents ripped nets from
  routing through our tap area" (`phase3_routing.py:1148-1152`).  A victim with several pads is
  rerouted by `route_multipoint_main(state=state)` (1556, 1657), which by default moves its boxed
  stubs to another layer and tries again (`single_ended_routing.py:3950-3996`).  The validators of the
  move (`stub_layer_switching.py:717-775`, 990-1051) read the copper in `pcb_data`, and neither the
  working map nor the copper in flight, where the taps are (1166-1170; 1246-1249 for an abandoned
  retry).  With 3, a cell of b's taps, among the sites of a's stub
  (`TapSites` with `{{3}, {8}}`), TLC finds `NoShort` of *taps* violated: b's taps fail, it rips c and a,
  finds a tap on 3, a comes back with its stub moved from 8 to 3, b commits its tap on 3.
* a comment and a description of the search say less than its code enforces, or more
  (`RoutesObeyTheRules` states what the code enforces).  `route_multi` promises an arrival "within
  ±60°" of the end direction (`router.rs:1263`); the code allows 120 (`router.rs:775`).  At
  `router.rs:798-800` and 839 the step after a via exit "must stay within ±45° of the pre-via
  direction"; the function that decides requires the exact direction for it, loosens only the
  step after it, and says why in its own comment (1587-1588).
* above 10 000 cells the frontier that rip-up is to blame is an even sample (`types.rs:173-199`),
  which need not separate the ends.  Nothing in the answer says so but its length, which
  the analysis of blockers does not look at.
* `_stub_swap_rescue` stamps the net a second time and never removes the old rows
  (`single_ended_loop.py:366`): the map over-blocks for the rest of the run, it never
  under-blocks.  `MapBalanced` is therefore checked where the rescue is off.
* from the second level on a victim is taken from the raw re-analysis, past
  `filter_rippable_blockers` (`single_ended_loop.py:988`, `reroute_loop.py:318`,
  `diff_pair_loop.py:735` and the probe loop, against `blocking_analysis.py:919`), so protected nets may
  be ripped.
* when phase 3 abandons a retry it re-routes the nets of the rip tree that are routed at that moment;
  one that a nested call left stranded is skipped (`phase3_routing.py:1285`, against "re-route the whole
  rip tree", `docs/rip-up-reroute.md:193`).  Phase-3 victims get no custody record, and
  `phase3_ripped_nets` is never appended to.
* a net of the file that is restored by a failed ladder loses its entry in `routed_net_paths`
  and cannot be blamed again; `restore_ripped_net` loses the entries of pairs in the same way.
* after a terminal restore the net stays in `queued_net_ids`, so its next eviction does not queue
  it; custody still holds its copper.
* a target that was reached from a refused direction stays open "to allow reaching from another
  direction" (`router.rs:798`), but is offered again only when a cheaper way to it turns up; the
  caller may see a failure although a costlier way with a legal arrival exists.
* the fallback layer swap looks results up by value (`layer_swap_fallback.py:454-470`), leaves
  signal vias out of its reroute map (about 517-545) and leaves stubs moved when it fails; its success
  in the reroute loop does not clear `queued_net_ids`.
* `successful` is decremented when a routed net is ripped (`diff_pair_loop.py:818`,
  `reroute_loop.py:418` and `889`, `single_ended_loop.py:1144`) and again at the commit
  (`diff_pair_loop.py:936`, `reroute_loop.py:539` and `962`, `single_ended_loop.py:1417`):
  `route_diff.py:1562` reports a count that is too low; `route.py:3625` recomputes its own.
* the terminal stub of a pair has only the P net's pads and marks both halves; a hybrid pair has no
  path entry and cannot be blamed; a rerouted chain is routed as a pair with two ends; a graze victim that
  was deferred and then restored is still listed for the single-ended follow-up; the branch for
  `leg_results is None` in the pair loop cannot be reached, because the chain router always
  defers instead (`diff_pair_multipoint.py`).

## 6. Not modelled

* Geometry: clearances, widths, the trim's and the pruner's decisions, pads (they never move, so
  they are part of what a path may use and never of what is ripped), `obstacle_map.py`'s turning of
  copper into rows.  The models take the rows as given; continuous geometry is out of TLC's reach.
* Soft costs: proximity, attraction, congestion, history, ripped corridors, the global planner.  They
  choose among free paths and no guard reads them.
* The pose search of curved pairs (`pose_router.rs`, `dubins.rs`): continuous headings.
* Multipoint mains and bus attraction in the single-ended loop.  The stub switch of such a main is
  modelled where phase 3 reroutes victims (`SwitchedCopper`) and not in the two loops, which make the
  same call (`single_ended_loop.py:723` and 1207, `reroute_loop.py:187` and 468): there no taps are in
  flight, but the move changes copper under the net's entry in the cache until the landing recomputes
  it.  The stub switch of a chain of pair legs (`diff_pair_multipoint.py:837-857`); a queue that
  mixes pairs and single nets; phase 3's pair branches, the re-ask after the phase; the polarity
  swap, the fallback layer swap
  and the second pass over bare-pad pairs (`route_diff.py:1207`).
* Everything behind an environment switch that is off: leg rip, tap relocation, value and
  churn gates, eager frame, `rip_defer`, `DIFF_PAIR_RIP_GUARD`, the cross scan.
* The #134 recovery with its second pass of the reroute loop: the refusals that feed it come
  from phases that are not composed with it here.  `SkipRouted` in the reroute loop is for that
  reason not an action: in one pass it cannot be reached.
* The interim counters `successful` and `failed` (section 5).
* Net rescue (it starts whole sub-runs of the router), length matching, the improvement gate (a
  comparison without state), planes (polygon geometry with rip and settle code of their own), fanout,
  layer and target swaps, the placer, the GUI, parser, writer and tools.

## 7. Plan

1. The composition of phase 3 and of the pair loop with the reconciliation and the #134 recovery: who
   follows up on a refusal.
2. Proofs: phase 3 with stubs, for the orders in which no exhausted net is still to come; a factor for
   `FoundIsNearCheapest` that covers layers of different costs.
3. The plane repair's own rip and settle loop, as a second client of `RouteBoard`.
