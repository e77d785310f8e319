--------------------------------- MODULE PairLoop ---------------------------------
(***************************************************************************)
(* The two loops of a differential-pair run: the pair loop                 *)
(* (diff_pair_loop.py), which may rip routed pairs in three different      *)
(* ways, and the pair branch of the reroute loop (reroute_loop.py).        *)
(*                                                                         *)
(*   graze:  the route was found but would touch a pair; that pair is      *)
(*           ripped and, if the route then lands, routed again at once;    *)
(*   probe:  a short probe is blocked; the top blocker is ripped, one per  *)
(*           attempt, and goes to the reroute queue;                       *)
(*   ladder: the progressive ladder of the single-ended loop.              *)
(*                                                                         *)
(* Every search builds its map from the board, so there is no working map  *)
(* here.  Layer switches are off (enable_layer_switch), and so is          *)
(* DIFF_PAIR_RIP_GUARD, as it is by default.                               *)
(***************************************************************************)
EXTENDS PairBoard

CONSTANTS
  Order,  \* diff_pair_ids_to_route
  MaxRip  \* config.max_rip_up_count

ASSUME LoopAssumption ==
  Order \in Seq(Pairs) /\ IsInjective(Order) /\ MaxRip \in Nat

VARIABLES
  phase,    \* the loop in progress: "pairs", "reroute" or "end"
  pc,       \* where in the handling of one pair it is
  frame,    \* the locals of the pair in hand
  entry,    \* the ledgers when it was taken (auxiliary, read by no step)
  todo,     \* _pair_queue from _qi on
  grazed,   \* _graze_ancestry: the pairs that graze-ripped this one
  queue,    \* reroute_queue from its index on
  queued,   \* queued_net_ids
  history,  \* rip_and_retry_history
  custody,  \* casualty_custody
  deferred  \* diff_pair_single_ended_nets, as pairs

loopVars == <<phase, pc, frame, entry, todo, grazed, queue, queued, history,
              custody, deferred>>
vars == <<boardVars, loopVars>>

(* What a search that did not land says.  Only a probe or a plain failure  *)
(* may carry blocked cells; a graze names the net it would touch.          *)
Graze(h)   == [is |-> "graze", half |-> h, cells |-> FALSE]
Blocked(c) == [is |-> "probe", half |-> None, cells |-> c]
Failed(c)  == [is |-> "fail", half |-> None, cells |-> c]

(* The stages of a pair: in the pair loop graze, probe, ladder; a reroute  *)
(* goes to the ladder at once.                                             *)
Idle == [pair |-> None, stage |-> "none", says |-> Failed(FALSE), tries |-> 0,
         ripped |-> <<>>, blockers |-> <<>>, level |-> 0, cursor |-> 0]
Taken(x, stage) == [Idle EXCEPT !.pair = x, !.stage = stage]

Init ==
  /\ BoardInit
  /\ phase = "pairs" /\ pc = "loop" /\ frame = Idle /\ entry = None
  /\ todo = Order
  /\ grazed = [x \in Pairs |-> {}]
  /\ queue = <<>> /\ queued = {} /\ history = {}
  /\ custody = [h \in Halves |-> None]
  /\ deferred = {}

----------------------------------------------------------------------------
X       == frame.pair
Rerouting == phase = "reroute"
Goto(label) == pc' = label
Book    == [copper |-> copper, routed |-> routed, ids |-> ids, remaining |-> remaining,
            written |-> {part[1] : part \in results}]
Take(f, label) == frame' = f /\ entry' = Book /\ Goto(label)
LastResort == frame' = Taken(X, "hybrid") /\ Goto("hybrid")
Done    == frame' = Idle /\ entry' = None /\ Goto("loop")

(* get_canonical_net_id: the P net of a pair that has been routed.         *)
Canonical(h) == IF h \in mapped THEN P(Pair(h)) ELSE h

(* The nets whose copper takes cells a route of the pair would use.        *)
InTheWay == {h \in Halves \ HalvesOf(X) :
               \E r \in PairOptions[X], s \in Sides : r[s] \cap copper[h] # {}}

(* analyze_frontier_blocking names nets in the way that have a path entry. *)
Nameable == {h \in named \cap InTheWay : routed[h] # None}

(* filter_rippable_blockers: one net per pair, in any order.  What         *)
(* protection_map takes out is left out here.                              *)
Rippable     == {Canonical(h) : h \in Nameable}
BlockerLists == {s \in SeqOf(Rippable, Cardinality(Pairs)) : IsInjective(s)}

RipAnd(h, f) == RipUp(h) /\ frame' = [f EXCEPT !.ripped = Append(@, Payload(h))]
VictimIds    == UNION {frame.ripped[i].ids : i \in DOMAIN frame.ripped}
VictimPairs  == [i \in DOMAIN frame.ripped |-> frame.ripped[i].res.pair]

(* record_casualty for every victim of a landing.                          *)
RecordCasualties ==
  custody' = [h \in Halves |->
    IF h \in VictimIds
      THEN CHOOSE payload \in ToSet(frame.ripped) : h \in payload.ids
      ELSE custody[h]]

(* Mutants of RouteVictimsNext: only the last victim is inserted; every    *)
(* victim is inserted and queued for rerouting as well.                    *)
RouteLastVictimNext ==
  /\ RecordCasualties
  /\ todo' = (IF VictimPairs = <<>> THEN <<>> ELSE <<Last(VictimPairs)>>) \o todo
  /\ UNCHANGED <<queue, queued>>
RouteVictimsTwice ==
  /\ RecordCasualties
  /\ todo' = Reverse(VictimPairs) \o todo
  /\ queue' = queue \o VictimPairs
  /\ UNCHANGED queued

(* Commit of a graze: every victim is inserted at _qi, so the last comes   *)
(* first.                                                                  *)
RouteVictimsNext ==
  /\ RecordCasualties
  /\ todo' = Reverse(VictimPairs) \o todo
  /\ UNCHANGED <<queue, queued>>

(* Commit of a probe or a ladder: the victims go to the reroute queue      *)
(* unless they are in queued_net_ids, from which the ladder's own pair and *)
(* every rerouted pair is dropped.  (That a list with nothing to skip goes *)
(* in whole is said apart for the proofs.)                                 *)
QueueVictims(dropped) ==
  LET marked == queued \ dropped
      new    == IF \A i \in DOMAIN VictimPairs : P(VictimPairs[i]) \notin marked
                  THEN VictimPairs
                  ELSE SelectSeq(VictimPairs, LAMBDA y : P(y) \notin marked)
  IN /\ RecordCasualties
     /\ queue' = queue \o new
     /\ queued' = marked \cup {P(y) : y \in ToSet(new)}
     /\ UNCHANGED todo

----------------------------------------------------------------------------
(* The pair loop.                                                          *)
TakePair ==
  /\ phase = "pairs" /\ pc = "loop" /\ todo # <<>>
  /\ todo' = Tail(todo)
  /\ Take(Taken(Head(todo), "graze"), IF Head(todo) \in Chained THEN "chain" ELSE "search")
  /\ UNCHANGED <<boardVars, phase, grazed, queue, queued, history, custody, deferred>>

(* route_multipoint_diff_pair: some of the legs couple, or none does and   *)
(* the pair is left to the single-ended pass.  The stubs of a chain stay   *)
(* where they are: their switch to another layer (diff_pair_multipoint.py: *)
(* 837-857) is not modelled.                                               *)
ChainLands ==
  /\ pc = "chain"
  /\ \E r \in FreeRoutes(X), legs \in 1..2 :
       /\ RecordPair(Result(X, r, legs, TRUE))
       /\ deferred' = IF legs < 2 THEN deferred \cup {X} ELSE deferred
  /\ Done
  /\ UNCHANGED <<phase, todo, grazed, queue, queued, history, custody>>

ChainDefers ==
  /\ pc = "chain"
  /\ deferred' = deferred \cup {X}
  /\ Done
  /\ UNCHANGED <<boardVars, phase, todo, grazed, queue, queued, history, custody>>

(* route_diff_pair_with_obstacles, and in the pair loop the hybrid that    *)
(* may replace its result.  What a landing commits depends on the stage.   *)
LandCoupled ==
  \E r \in FreeRoutes(X), paths \in BOOLEAN :
    (Rerouting => paths) /\ RecordPair(Result(X, r, 0, paths))

GrazeLands ==
  /\ pc = "search" /\ frame.stage = "graze"
  /\ LandCoupled
  /\ RouteVictimsNext /\ Done
  /\ UNCHANGED <<phase, grazed, history, deferred>>

ProbeLands ==
  /\ pc = "search" /\ frame.stage = "probe"
  /\ LandCoupled
  /\ QueueVictims({}) /\ Done
  /\ UNCHANGED <<phase, grazed, history, deferred>>

LadderKey == <<X, ToSet(SubSeq(frame.blockers, 1, frame.level))>>

LadderLands ==
  /\ pc = "search" /\ frame.stage = "ladder"
  /\ LandCoupled
  /\ QueueVictims(HalvesOf(X))
  /\ history' = IF frame.level = 0 THEN history ELSE history \cup {LadderKey}
  /\ Done
  /\ UNCHANGED <<phase, grazed, deferred>>

SearchFails ==
  /\ pc = "search"
  /\ \E says \in {Graze(h) : h \in InTheWay}
                 \cup {Blocked(c) : c \in BOOLEAN} \cup {Failed(c) : c \in BOOLEAN} :
       frame' = [frame EXCEPT !.says = says]
  /\ Goto("says")
  /\ UNCHANGED <<boardVars, phase, entry, todo, grazed, queue, queued, history, custody,
                 deferred>>

Says(what, stage) == pc = "says" /\ frame.stage = stage /\ frame.says.is = what

(* The graze loop: rip the net that was named, unless it graze-ripped this *)
(* pair before, and search again.  Mutant: no memory of that.              *)
GrazeRipUnguarded == frame.tries < MaxRip /\ routed[frame.says.half] # None
MayGrazeRip ==
  /\ frame.tries < MaxRip
  /\ routed[frame.says.half] # None
  /\ Pair(frame.says.half) \notin grazed[X]

GrazeRips ==
  /\ Says("graze", "graze") /\ MayGrazeRip
  /\ RipAnd(frame.says.half, [frame EXCEPT !.tries = @ + 1])
  /\ grazed' = [grazed EXCEPT ![Pair(frame.says.half)] = @ \cup {X}]
  /\ Goto("search")
  /\ UNCHANGED <<phase, entry, todo, queue, queued, history, custody, deferred>>

(* Any other answer ends the graze loop: its victims are restored, and the *)
(* probe loop looks at the answer.                                         *)
GrazeEnds ==
  /\ pc = "says" /\ frame.stage = "graze"
  /\ frame.says.is = "graze" => ~MayGrazeRip
  /\ frame' = [frame EXCEPT !.stage = "probe", !.tries = 0, !.says.half = None]
  /\ Goto(IF frame.ripped = <<>> THEN "says" ELSE "putback")
  /\ UNCHANGED <<boardVars, phase, entry, todo, grazed, queue, queued, history, custody,
                 deferred>>

(* One step of the loops over reversed(...ripped_items) that restore.      *)
PutBack ==
  /\ pc = "putback"
  /\ RestoreRippedNet(Last(frame.ripped))
  /\ frame' = [frame EXCEPT !.ripped = Front(@)]
  /\ Goto(IF Len(frame.ripped) > 1 THEN "putback" ELSE "says")
  /\ UNCHANGED <<phase, entry, todo, grazed, queue, queued, history, custody, deferred>>

(* The probe loop rips the first rippable blocker and searches again.      *)
ProbeRips ==
  /\ Says("probe", "probe") /\ frame.says.cells /\ frame.tries < MaxRip
  /\ \E h \in Nameable : RipAnd(h, [frame EXCEPT !.tries = @ + 1])
  /\ Goto("search")
  /\ UNCHANGED <<phase, entry, todo, grazed, queue, queued, history, custody, deferred>>

(* Mutant of ProbeEnds: the victims of a probe that gives up stay ripped.  *)
ProbeForgets ==
  /\ pc = "says" /\ frame.stage = "probe"
  /\ frame' = [frame EXCEPT !.stage = "ladder", !.tries = 0, !.ripped = <<>>,
                            !.says = Failed(frame.says.cells)]
  /\ Goto("says")
  /\ UNCHANGED <<boardVars, phase, entry, todo, grazed, queue, queued, history, custody,
                 deferred>>

(* It ends when no cells or no blockers are left, when the attempts are    *)
(* used up or when the probe is no longer what fails; the answer becomes   *)
(* an ordinary failure with the same cells.                                *)
ProbeEnds ==
  /\ pc = "says" /\ frame.stage = "probe"
  /\ frame' = [frame EXCEPT !.stage = "ladder", !.tries = 0,
                            !.says = Failed(frame.says.cells)]
  /\ Goto(IF frame.ripped = <<>> THEN "says" ELSE "putback")
  /\ UNCHANGED <<boardVars, phase, entry, todo, grazed, queue, queued, history, custody,
                 deferred>>

----------------------------------------------------------------------------
(* The ladder, the same in both loops.  It opens when the failure left     *)
(* cells to analyse and some net has a path entry.                         *)
OpenLadder ==
  /\ pc = "says" /\ frame.stage = "ladder" /\ frame.level = 0
  /\ frame.says.cells /\ named # {}
  /\ \E list \in BlockerLists :
       IF list = <<>> \/ MaxRip = 0
         THEN LastResort
         ELSE frame' = [frame EXCEPT !.level = 1, !.blockers = list] /\ Goto("level")
  /\ UNCHANGED <<boardVars, phase, entry, todo, grazed, queue, queued, history, custody,
                 deferred>>

NoLadder ==
  /\ pc = "says" /\ frame.stage = "ladder" /\ frame.level = 0
  /\ ~frame.says.cells \/ named = {}
  /\ LastResort
  /\ UNCHANGED <<boardVars, phase, entry, todo, grazed, queue, queued, history,
                 custody, deferred>>

GiveUp == IF frame.ripped = <<>> THEN LastResort ELSE frame' = frame /\ Goto("unwind")

(* A level rips what the list holds up to its length and searches again;   *)
(* it is skipped when this set of victims has been ripped for this pair    *)
(* before.                                                                 *)
OutOfBlockers ==
  /\ pc = "level" /\ frame.level > Len(frame.blockers)
  /\ GiveUp
  /\ UNCHANGED <<boardVars, phase, entry, todo, grazed, queue, queued, history, custody,
                 deferred>>

SkipLevel ==
  /\ pc = "level" /\ frame.level <= Len(frame.blockers) /\ LadderKey \in history
  /\ frame' = frame /\ Goto("next")
  /\ UNCHANGED <<boardVars, phase, entry, todo, grazed, queue, queued, history, custody,
                 deferred>>

LadderRips ==
  /\ pc = "level" /\ frame.level <= Len(frame.blockers) /\ LadderKey \notin history
  /\ LET h == frame.blockers[frame.cursor + 1]
         f == [frame EXCEPT !.cursor = @ + 1]
     IN IF routed[h] # None THEN RipAnd(h, f)
                            ELSE frame' = f /\ UNCHANGED boardVars
  /\ Goto(IF frame.cursor + 1 = frame.level THEN "search" ELSE "level")
  /\ UNCHANGED <<phase, entry, todo, grazed, queue, queued, history, custody, deferred>>

(* The first blocker of a new analysis that the ladder has not ripped is   *)
(* appended to the list if it is not there and swapped to the place of the *)
(* new level.                                                              *)
WithNext(h, level) ==
  LET list == IF h \in ToSet(frame.blockers) THEN frame.blockers
              ELSE Append(frame.blockers, h)
      i    == CHOOSE i \in DOMAIN list : list[i] = h
  IN IF level > Len(list) THEN list
     ELSE [list EXCEPT ![i] = list[level], ![level] = list[i]]

NextLevel ==
  /\ \/ pc = "next"
     \/ pc = "says" /\ frame.stage = "ladder" /\ frame.level > 0
  /\ LET up == [frame EXCEPT !.level = @ + 1, !.cursor = Len(frame.ripped)]
     IN \/ (frame.level = MaxRip \/ frame.says.cells) /\ GiveUp
        \/ /\ frame.level < MaxRip /\ ~frame.says.cells
           /\ frame' = up /\ Goto("level")
        \/ /\ frame.level < MaxRip /\ frame.says.cells
           /\ \E h \in Rippable :
                frame' = [up EXCEPT !.blockers = WithNext(h, frame.level + 1)]
           /\ Goto("level")
  /\ UNCHANGED <<boardVars, phase, entry, todo, grazed, queue, queued, history, custody,
                 deferred>>

Unwind ==
  /\ pc = "unwind"
  /\ RestoreNet(Last(frame.ripped))
  /\ IF Len(frame.ripped) = 1 THEN LastResort
     ELSE frame' = [frame EXCEPT !.ripped = Front(@)] /\ Goto("unwind")
  /\ UNCHANGED <<phase, entry, todo, grazed, queue, queued, history, custody, deferred>>

----------------------------------------------------------------------------
(* The last resort of both loops: a coupled middle laid directly, with     *)
(* single-ended legs.                                                      *)
HybridLands ==
  /\ pc = "hybrid"
  /\ \E r \in FreeRoutes(X) : RecordPair(Result(X, r, 0, FALSE))
  /\ queued' = queued \ HalvesOf(X)
  /\ Done
  /\ UNCHANGED <<phase, todo, grazed, queue, history, custody, deferred>>

Defer ==
  /\ pc = "hybrid" /\ phase = "pairs"
  /\ deferred' = deferred \cup {X}
  /\ Done
  /\ UNCHANGED <<boardVars, phase, todo, grazed, queue, queued, history, custody>>

(* The end of the reroute loop for a pair that cannot be rerouted: all of  *)
(* its saved copper if it is still clear, else the escape pieces of the P  *)
(* net that are.                                                           *)
SafeStub(payload) == {c \in PairEscape[X] \cap payload.res.cells["p"] : c \notin Others(P(X))}

Terminal ==
  /\ pc = "hybrid" /\ Rerouting
  /\ LET payload == saved[P(X)]
     IN IF payload # None /\ ~Collides(payload)
          THEN RestoreNet(payload)
        ELSE IF payload # None /\ SafeStub(payload) # {}
          THEN /\ copper' = [copper EXCEPT ![P(X)] = @ \cup SafeStub(payload)]
               /\ UNCHANGED <<routed, ids, remaining, named, mapped, results, saved, refused>>
        ELSE UNCHANGED boardVars
  /\ Done
  /\ UNCHANGED <<phase, todo, grazed, queue, queued, history, custody, deferred>>

----------------------------------------------------------------------------
PairsDone ==
  /\ phase = "pairs" /\ pc = "loop" /\ todo = <<>>
  /\ phase' = "reroute"
  /\ UNCHANGED <<boardVars, pc, frame, entry, todo, grazed, queue, queued, history, custody,
                 deferred>>

TakeReroute ==
  /\ Rerouting /\ pc = "loop" /\ queue # <<>>
  /\ queue' = Tail(queue)
  /\ \E x \in Pairs :
       /\ x = Head(queue)
       /\ IF IsRouted(x) THEN UNCHANGED <<pc, frame, entry>>
          ELSE Take(Taken(x, "ladder"), "search")
  /\ UNCHANGED <<boardVars, phase, todo, grazed, queued, history, custody, deferred>>

ReroutesDone ==
  /\ Rerouting /\ pc = "loop" /\ queue = <<>>
  /\ phase' = "end"
  /\ UNCHANGED <<boardVars, pc, frame, entry, todo, grazed, queue, queued, history, custody,
                 deferred>>

(* Both loops look at cancel_check before they take a pair.                *)
Cancel ==
  /\ phase \in {"pairs", "reroute"} /\ pc = "loop"
  /\ phase' = "end"
  /\ UNCHANGED <<boardVars, pc, frame, entry, todo, grazed, queue, queued, history, custody,
                 deferred>>

Step ==
  \/ TakePair \/ ChainLands \/ ChainDefers
  \/ GrazeLands \/ ProbeLands \/ LadderLands \/ SearchFails
  \/ GrazeRips \/ GrazeEnds \/ PutBack \/ ProbeRips \/ ProbeEnds
  \/ OpenLadder \/ NoLadder \/ OutOfBlockers \/ SkipLevel \/ LadderRips \/ NextLevel
  \/ Unwind
  \/ HybridLands \/ Defer \/ Terminal
  \/ PairsDone \/ TakeReroute \/ ReroutesDone

Next == Step \/ Cancel

Spec == Init /\ [][Next]_vars /\ WF_vars(Step)

----------------------------------------------------------------------------
(* The ledgers of a pair agree with each other and across its halves: both *)
(* hold the same result or neither does, its copper is on the board, and   *)
(* the write-list carries it exactly once, whole or as its legs (#369 A2). *)
(* Nothing else is in the write-list.                                      *)
PairBooksAgree ==
  /\ \A h \in Halves :
       /\ routed[h] = routed[P(Pair(h))]
       /\ h \in ids <=> routed[h] # None
       /\ h \in remaining <=> routed[h] = None
       /\ h \in named => routed[h] # None
       /\ routed[h] # None => routed[h].cells[h[2]] \subseteq copper[h]
  /\ \A x \in Pairs : IsRouted(x) =>
       LET res == routed[P(x)]
       IN Members(res) \cap results \in {{Whole(res)}, Written(res)}
  /\ \A part \in results : part[1] = routed[P(part[1].pair)]

(* While the pair in hand holds no victims the ledgers are as it found     *)
(* them: whatever it ripped and gave up is back, in the write-list too.    *)
(* Only the path entries may be lost (restore_ripped_net).                 *)
FailedPairLeavesNoTrace ==
  entry # None /\ frame.ripped = <<>> => Book = entry /\ refused = {}

(* A pair that was ripped and is not routed is a victim of the pair in     *)
(* hand, or custody holds the payload of its last rip; and while the pair  *)
(* loop runs it has a turn to come or has had it.                          *)
Awaiting(x) == x \in ToSet(todo) \cup ToSet(queue) \cup deferred \cup {X}
NoPairForgotten ==
  \A h \in Halves : saved[h] # None /\ routed[h] = None =>
    \/ h \in VictimIds
    \/ /\ custody[h] = saved[h]
       /\ phase = "pairs" => Awaiting(Pair(h))

(* The pair loop routes what it takes without asking whether it is routed: *)
(* the pairs ahead of it are distinct, unrouted and not also in the        *)
(* reroute queue.                                                          *)
PairsAheadAreUnrouted ==
  phase = "pairs" =>
    /\ IsInjective(todo)
    /\ \A x \in ToSet(todo) \cup ({X} \ {None}) :
         routed[P(x)] = None /\ x \notin ToSet(queue)

(* Copper a half may have that no landing put there, in the file or at its *)
(* pads; a route joins what this copper does not.                          *)
Fixed(h) == PairStub[h] \cup IF h[2] = "p" THEN PairEscape[Pair(h)] ELSE {}
ASSUME RoutesAreNew ==
  \A x \in Pairs : \A r \in PairOptions[x] : \E s \in Sides : ~(r[s] \subseteq Fixed(<<x, s>>))

(* Evictions are all-or-nothing with the landing they were made for: with  *)
(* the victims of the pair in hand counted as present, the board moves     *)
(* only when a pair lands, and no two pairs ever share a cell.             *)
PairCopper(x, b)   == UNION {b[h] \X {h[2]} : h \in HalvesOf(x)}
HeldFor(h) == IF h \in VictimIds THEN saved[h].res.cells[h[2]] ELSE {}
CommittedBoard == [x \in Pairs |->
  PairCopper(x, [h \in Halves |-> copper[h] \cup HeldFor(h)])]
EvictedPairs == {x \in Pairs : P(x) \notin VictimIds /\ saved[P(x)] # None
                                /\ routed[P(x)] = None}

Eviction == INSTANCE EvictionBoard WITH
  Nets <- Pairs, Cells <- Cells \X Sides,
  board <- CommittedBoard, evicted <- EvictedPairs,
  InitBoard <- [x \in Pairs |-> PairCopper(x, PairStub)]
PairRipsAreAtomic == Eviction!Spec

(* Both loops come to an end, as the comment on _graze_ancestry says       *)
(* (diff_pair_loop.py:188-194).                                            *)
PairsEnd == <>(phase = "end")
==================================================================================
