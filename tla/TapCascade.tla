--------------------------------- MODULE TapCascade ---------------------------------
(***************************************************************************)
(* Phase 3 (phase3_routing.py): the taps of the multi-point nets.  The     *)
(* main loop takes every pending net once; a net whose taps fail rips the  *)
(* nets in the way and reroutes them at once, and a rerouted net may rip   *)
(* others in turn, for its main route or for its own taps.  A rip-up that  *)
(* does not pay is abandoned for the taps found first.                     *)
(*                                                                         *)
(* The calls in progress are the frames of stack: "net" is an iteration of *)
(* run_phase3_tap_routing, "tap" a call of try_phase3_ripup, "reroute" a   *)
(* call of _reroute_phase3_ripped_nets with the call of                    *)
(* _retry_victim_main_with_ripup it makes.  Taps found but not committed   *)
(* guard their cells in the working map while other nets reroute.          *)
(***************************************************************************)
EXTENDS RouteBoard, Integers, SequencesExt

CONSTANTS
  Order,       \* pending multi-point nets, most boxed in first
  Multipoint,  \* nets with more than two pads
  Phase1,      \* Phase1[n]: the cells of the route n has when the phase starts
  Matched,     \* pending nets that length matching gave a new route
  Unmatched,   \* Unmatched[n]: the cells the pending entry of such a net has
  TapOptions,  \* TapOptions[n]: what a tap search may return: cells, failed edges
  StubSites,   \* StubSites[n]: where the stub of n can be moved to
  MaxRip,      \* config.max_rip_up_count
  Protected    \* nets protection_map keeps from being ripped

Taps == [cells : SUBSET Cells, failed : Nat]

ASSUME CascadeAssumption ==
  /\ Order \in Seq(Multipoint) /\ IsInjective(Order)
  /\ Multipoint \subseteq Nets /\ Protected \subseteq Nets
  /\ Matched \subseteq ToSet(Order)
  /\ Phase1 \in [Nets -> SUBSET Cells] /\ Unmatched \in [Nets -> SUBSET Cells]
  /\ TapOptions \in [Nets -> SUBSET Taps]
  /\ StubSites \in [Nets -> SUBSET SUBSET Cells]
  /\ MaxRip \in Nat
ASSUME NoneIsNoTaps == None \notin Taps

(* The main loop hands over a board without shorts (NeverShorts).          *)
StartCopper(n) == Stub[n] \cup Phase1[n]
ASSUME PhaseStartsClean ==
  \A m, n \in Nets : m # n => StartCopper(m) \cap StartCopper(n) = {}

VARIABLES
  pending,   \* state.pending_multipoint_nets
  at,        \* the next entry of _p3_pairs
  stack,     \* the calls in progress, the innermost last
  cancelled  \* cancel_check()

callVars == <<pending, at, stack, cancelled>>
vars == <<boardVars, callVars>>

(* _p3_pairs keeps the pending results of the start of the phase.          *)
Snapshot(n) == Found(n, IF n \in Matched THEN Unmatched[n] ELSE Phase1[n])

Init ==
  /\ copper = [n \in Nets |-> StartCopper(n)]
  /\ cache = copper
  /\ work = [c \in Cells |-> Cardinality({n \in Nets : c \in StartCopper(n)})]
  /\ routed = [n \in Nets |-> Found(n, Phase1[n])]
  /\ routedIds = Nets /\ paths = Nets /\ remaining = {}
  /\ results = {Found(n, Phase1[n]) : n \in Nets}
  /\ ripSaved = [n \in Nets |-> None]
  /\ refused = [n \in Nets |-> None]
  /\ pending = [n \in Nets |-> IF n \in ToSet(Order) THEN Snapshot(n) ELSE None]
  /\ at = 1 /\ stack = <<>> /\ cancelled = FALSE

----------------------------------------------------------------------------
NetFrame(n, lm) ==
  [kind |-> "net", stage |-> "taps", net |-> n, lm |-> lm, taps |-> None,
   saved |-> None]

TapFrame(n, taps, depth, ancestors) ==
  [kind |-> "tap", stage |-> "level", net |-> n, orig |-> taps, retry |-> None,
   depth |-> depth, ancestors |-> ancestors, ripped |-> <<>>, subtree |-> {},
   again |-> <<>>]

RerouteFrame(items, depth, ancestors) ==
  [kind |-> "reroute", stage |-> "item", items |-> items, depth |-> depth,
   ancestors |-> ancestors, main |-> None, nested |-> <<>>, taps |-> None]

Top == Last(stack)
In(kind, stage) == stack # <<>> /\ Top.kind = kind /\ Top.stage = stage

Become(frame)        == stack' = Append(Front(stack), frame)
Goto(stage)          == Become([Top EXCEPT !.stage = stage])
Call(caller, callee) == stack' = Front(stack) \o <<caller, callee>>
Caller               == stack[Len(stack) - 1]
Return(caller)       == stack' = Append(Front(Front(stack)), caller)

(* _sink_record: every rip-up in progress learns of a rip below it.        *)
BecomeAfterRip(frame, m) ==
  stack' = [i \in DOMAIN stack |->
              LET f == IF i = Len(stack) THEN frame ELSE stack[i]
              IN IF f.kind = "tap" THEN [f EXCEPT !.subtree = @ \cup {m}] ELSE f]

Victim(m)     == [net |-> m, payload |-> Payload(m)]
NetsOf(items) == [i \in DOMAIN items |-> items[i].net]

(* The net an item is about, and whom its rip-ups leave alone: itself and  *)
(* the nets whose rip-ups led here.                                        *)
Item == Top.items[1]
ExcludedBy(f) == (IF f.kind = "tap" THEN {f.net} ELSE {f.items[1]}) \cup f.ancestors

(* Mutant: a rip-up spares only its own net.                               *)
NameableIgnoringAncestors(f) ==
  {m \in paths \ (IF f.kind = "tap" THEN {f.net} ELSE {f.items[1]}) : IsRouted(m)}

(* The nets the frontier analysis can name.  The first pick went through   *)
(* the protection filter, the later ones come from a fresh analysis.       *)
Nameable(f) == {m \in paths \ ExcludedBy(f) : IsRouted(m)}
Rippable(f, ripped) ==
  IF ripped = <<>> THEN Nameable(f) \ Protected ELSE Nameable(f)

TapsOn(n, map) ==
  {t \in TapOptions[n] : t.cells \cap (copper[n] \cup BlockedRows(map)) = {}}

AllTaps   == UNION {TapOptions[n] : n \in Nets}
AllRoutes == UNION {RouteOptions[n] : n \in Nets}

(* _commit_net_result: the one entry of n in the write-list; the caller    *)
(* drops the entry it knows of.  Mutant: the prior entry stays.            *)
CommitResultKeepingPrior(n, known, res) ==
  /\ routed' = [routed EXCEPT ![n] = res]
  /\ results' = (results \ {known}) \cup {res}

CommitResult(n, known, res) ==
  /\ routed' = [routed EXCEPT ![n] = res]
  /\ results' = (results \ {known, routed[n]}) \cup {res}

(* The taps of n join its copper, and the result that gets them the list.  *)
CommitTaps(n, taps, known, base) ==
  /\ Restamp(n, copper[n] \cup taps.cells)
  /\ CommitResult(n, known, Found(n, base.cells \cup taps.cells))
  /\ UNCHANGED <<routedIds, paths, remaining, ripSaved, refused>>

----------------------------------------------------------------------------
(* The main loop.                                                          *)
AtLoopHead == stack = <<>> /\ at \in DOMAIN Order /\ ~cancelled

Cancel ==
  /\ AtLoopHead
  /\ cancelled' = TRUE
  /\ UNCHANGED <<boardVars, pending, at, stack>>

(* A net that a cascade finished, or lost, is no longer pending.           *)
SkipNet ==
  /\ AtLoopHead /\ pending[Order[at]] = None
  /\ at' = at + 1
  /\ UNCHANGED <<boardVars, pending, stack, cancelled>>

(* lm_result: the route the net has now, or the one of the snapshot.       *)
TakeNet ==
  /\ AtLoopHead
  /\ LET n == Order[at]
     IN /\ pending[n] # None
        /\ stack' = <<NetFrame(n, IF IsRouted(n) THEN routed[n] ELSE Snapshot(n))>>
  /\ at' = at + 1
  /\ UNCHANGED <<boardVars, pending, cancelled>>

(* length_matching_active: the route is not the one of the snapshot.       *)
LengthMatched(f) == f.lm # Snapshot(f.net)

RouteTaps(t) ==
  /\ In("net", "taps")
  /\ t \in TapsOn(Top.net, PreparedMap(Top.net))
  /\ LET found == [Top EXCEPT !.taps = t, !.stage = "commit"]
     IN \/ Become(found)
        \/ /\ t.failed > 0 /\ MaxRip > 0 /\ ~LengthMatched(Top)
           /\ Call(found, TapFrame(Top.net, t, 0, {}))
  /\ UNCHANGED <<boardVars, pending, at, cancelled>>

CommitNet ==
  /\ In("net", "commit")
  /\ CommitTaps(Top.net, Top.taps, Snapshot(Top.net), Top.lm)
  /\ Goto("reask")
  /\ UNCHANGED <<pending, at, cancelled>>

(* A tree of main and taps with no pad missing.                            *)
WholeTree(n, res) ==
  \E r \in RouteOptions[n] \cup {Phase1[n]} : \E t \in TapOptions[n] :
    t.failed = 0 /\ t.cells # {} /\ res.cells = r \cup t.cells

(* seam_reask_one_net: a whole tree that is long for its pads is ripped    *)
(* and routed anew, with no rip-ups (its reroute is called at the depth    *)
(* where none are left).                                                   *)
Reask ==
  /\ In("net", "reask")
  /\ Top.net \notin Protected /\ ~LengthMatched(Top)
  /\ IsRouted(Top.net) /\ WholeTree(Top.net, routed[Top.net])
  /\ RipUp(Top.net)
  /\ Call([Top EXCEPT !.stage = "reasked", !.saved = Payload(Top.net)],
          RerouteFrame(<<Top.net>>, MaxRip, {}))
  /\ UNCHANGED <<pending, at, cancelled>>

(* Mutant of NetDone: a tree that was replaced is asked about again.       *)
NetDoneAsksAgain ==
  /\ \/ In("net", "reask") /\ stack' = <<>>
     \/ /\ In("net", "reasked") /\ IsRouted(Top.net)
        /\ WholeTree(Top.net, routed[Top.net])
        /\ Goto("reask")
  /\ UNCHANGED <<boardVars, pending, at, cancelled>>

NetDone ==
  /\ \/ In("net", "reask")
     \/ In("net", "reasked") /\ IsRouted(Top.net) /\ WholeTree(Top.net, routed[Top.net])
  /\ stack' = <<>>
  /\ UNCHANGED <<boardVars, pending, at, cancelled>>

(* The new tree is no better: it goes, the old one comes back.             *)
UndoReask ==
  /\ In("net", "reasked") /\ IsRouted(Top.net)
  /\ RipUp(Top.net)
  /\ Goto("undone")
  /\ UNCHANGED <<pending, at, cancelled>>

(* Mutant of RestoreTree: no route at all counts as the new tree.          *)
RestoreTreeIfUndone ==
  /\ In("net", "undone") \/ (In("net", "reasked") /\ ~IsRouted(Top.net))
  /\ IF In("net", "undone") THEN RestoreNet(Top.net, Top.saved)
     ELSE UNCHANGED boardVars
  /\ stack' = <<>>
  /\ UNCHANGED <<pending, at, cancelled>>

RestoreTree ==
  /\ In("net", "undone") \/ (In("net", "reasked") /\ ~IsRouted(Top.net))
  /\ RestoreNet(Top.net, Top.saved)
  /\ stack' = <<>>
  /\ UNCHANGED <<pending, at, cancelled>>

----------------------------------------------------------------------------
(* try_phase3_ripup: one more victim per level.                            *)
TapRips(m) ==
  /\ In("tap", "level") /\ Len(Top.ripped) < MaxRip
  /\ m \in Rippable(Top, Top.ripped)
  /\ RipUp(m)
  /\ BecomeAfterRip([Top EXCEPT !.stage = "retry", !.ripped = Append(@, Victim(m))], m)
  /\ UNCHANGED <<pending, at, cancelled>>

(* Fewer failed edges: the new taps guard their cells while the victims    *)
(* reroute.                                                                *)
RetryHelps(t) ==
  /\ In("tap", "retry")
  /\ t \in TapsOn(Top.net, PreparedMap(Top.net)) /\ t.failed < Top.orig.failed
  /\ work' = AddRows(work, t.cells)
  /\ Call([Top EXCEPT !.stage = "arbitrate", !.retry = t],
          RerouteFrame(NetsOf(Top.ripped), Top.depth + 1, ExcludedBy(Top)))
  /\ UNCHANGED <<copper, cache, routed, routedIds, paths, results, remaining,
                 ripSaved, refused, pending, at, cancelled>>

RetryDoesNotHelp ==
  /\ In("tap", "retry")
  /\ Goto("level")
  /\ UNCHANGED <<boardVars, pending, at, cancelled>>

(* No level is left, or the analysis names no net.                         *)
TapGivesUp ==
  /\ In("tap", "level")
  /\ Goto("unwind")
  /\ UNCHANGED <<boardVars, pending, at, cancelled>>

TapUnwinds ==
  /\ In("tap", "unwind") /\ Top.ripped # <<>>
  /\ RestoreNet(Last(Top.ripped).net, Last(Top.ripped).payload)
  /\ Become([Top EXCEPT !.ripped = Front(@)])
  /\ UNCHANGED <<pending, at, cancelled>>

(* The caller keeps the taps it has.                                       *)
TapFails ==
  /\ In("tap", "unwind") /\ Top.ripped = <<>>
  /\ Return(Caller)
  /\ UNCHANGED <<boardVars, pending, at, cancelled>>

(* _phase3_abandon_retry: which world is worth more, by the pads lost and  *)
(* gained or by one of the other metrics, is left open.                    *)
KeepRetry ==
  /\ In("tap", "arbitrate")
  /\ work' = RemoveRows(work, Top.retry.cells)
  /\ Return([Caller EXCEPT !.taps = Top.retry])
  /\ UNCHANGED <<copper, cache, routed, routedIds, paths, results, remaining,
                 ripSaved, refused, pending, at, cancelled>>

(* The retry does not pay: its guard goes, the taps found first guard      *)
(* theirs.  Mutant: the guard of the retry stays.                          *)
AbandonRetryKeepsGuard ==
  /\ In("tap", "arbitrate")
  /\ work' = AddRows(work, Top.orig.cells)
  /\ Become([Top EXCEPT !.stage = "rerip", !.again = NetsOf(Top.ripped)])
  /\ UNCHANGED <<copper, cache, routed, routedIds, paths, results, remaining,
                 ripSaved, refused, pending, at, cancelled>>

(* Mutant: the victims are restored from their old copper.                 *)
AbandonRetryRestores ==
  /\ In("tap", "arbitrate")
  /\ work' = RemoveRows(work, Top.retry.cells)
  /\ Goto("unwind")
  /\ UNCHANGED <<copper, cache, routed, routedIds, paths, results, remaining,
                 ripSaved, refused, pending, at, cancelled>>

AbandonRetry ==
  /\ In("tap", "arbitrate")
  /\ work' = AddRows(RemoveRows(work, Top.retry.cells), Top.orig.cells)
  /\ Become([Top EXCEPT !.stage = "rerip", !.again = NetsOf(Top.ripped)])
  /\ UNCHANGED <<copper, cache, routed, routedIds, paths, results, remaining,
                 ripSaved, refused, pending, at, cancelled>>

(* Mutant: the victims that did reroute are left where they are.           *)
ToRipAgainNested ==
  {m \in Top.subtree \ (ToSet(NetsOf(Top.ripped)) \cup ExcludedBy(Top)) : IsRouted(m)}

(* Every net of the rip tree that is routed again may lie on the taps that *)
(* are kept: the victims of this frame (#171) and those of the frames      *)
(* below it (#354).  Mutant: only the former.                              *)
ToRipAgainDirect == {m \in ToSet(NetsOf(Top.ripped)) : IsRouted(m)}

ToRipAgain ==
  {m \in ToSet(NetsOf(Top.ripped)) \cup (Top.subtree \ ExcludedBy(Top)) : IsRouted(m)}

RipsAgain(m) ==
  /\ In("tap", "rerip") /\ m \in ToRipAgain
  /\ RipUp(m)
  /\ BecomeAfterRip(
       IF m \in ToSet(Top.again) THEN Top ELSE [Top EXCEPT !.again = Append(@, m)], m)
  /\ UNCHANGED <<pending, at, cancelled>>

ReroutesAgain ==
  /\ In("tap", "rerip") /\ ToRipAgain = {}
  /\ Call([Top EXCEPT !.stage = "settled"],
          RerouteFrame(Top.again, Top.depth + 1, ExcludedBy(Top)))
  /\ UNCHANGED <<boardVars, pending, at, cancelled>>

Abandoned ==
  /\ In("tap", "settled")
  /\ work' = RemoveRows(work, Top.orig.cells)
  /\ Return(Caller)
  /\ UNCHANGED <<copper, cache, routed, routedIds, paths, results, remaining,
                 ripSaved, refused, pending, at, cancelled>>

----------------------------------------------------------------------------
(* _reroute_phase3_ripped_nets: the items one by one.  An item routed by   *)
(* now would be skipped; there is none (ItemsAreUnrouted).                 *)
NextItem ==
  Become([Top EXCEPT !.stage = "item", !.items = Tail(@), !.main = None,
                     !.nested = <<>>, !.taps = None])

ItemsDone ==
  /\ In("reroute", "item") /\ Top.items = <<>>
  /\ Return(Caller)
  /\ UNCHANGED <<boardVars, pending, at, cancelled>>

Update(n, res) == pending' = IF pending[n] = None THEN pending ELSE [pending EXCEPT ![n] = res]

(* switch_boxed_stub_near: the copper of a multi-point net with its stub   *)
(* on another layer, clear of the copper on the board.  The validators see *)
(* no taps but those on the board.                                         *)
StubPlaces(n) == {p \in {Stub[n]} \cup StubSites[n] : p # {} /\ p \subseteq copper[n]}
SwitchedCopper(n) ==
  IF n \notin Multipoint THEN {}
  ELSE {(copper[n] \ p) \cup q :
          p \in StubPlaces(n), q \in {s \in StubSites[n] : ~Collides(n, s)}}

(* A main route lands, bare or in the rip-up that follows a failed search: *)
(* its copper and books first, then the nets ripped for it, then its taps. *)
(* When the pads of a multi-point net are boxed in, its stub may have been *)
(* moved for the route.                                                    *)
MainLands(r) ==
  /\ \/ In("reroute", "item") /\ Top.items # <<>> /\ ~IsRouted(Item)
     \/ In("reroute", "retry")
  /\ r \in RouteOptions[Item]
  /\ \E kept \in {copper[Item]} \cup SwitchedCopper(Item) :
       /\ r \cap (kept \cup BlockedRows(PreparedMap(Item))) = {}
       /\ RecordSuccess(Item, r, kept)
  /\ Update(Item, Found(Item, r))
  /\ LET landed == [Top EXCEPT !.stage = "taps", !.main = Found(Item, r)]
     IN IF Top.nested = <<>> THEN Become(landed)
        ELSE Call(landed, RerouteFrame(NetsOf(Top.nested), Top.depth + 1,
                                       ExcludedBy(Top)))
  /\ UNCHANGED <<at, cancelled>>

(* _retry_victim_main_with_ripup.  Mutant: no depth limit.                 *)
MainOpensRipUpAtAnyDepth ==
  /\ In("reroute", "item") /\ Top.items # <<>> /\ ~IsRouted(Item)
  /\ Goto("level")
  /\ UNCHANGED <<boardVars, pending, at, cancelled>>

MainOpensRipUp ==
  /\ In("reroute", "item") /\ Top.items # <<>> /\ ~IsRouted(Item)
  /\ Top.depth < MaxRip
  /\ Goto("level")
  /\ UNCHANGED <<boardVars, pending, at, cancelled>>

MainRips(m) ==
  /\ In("reroute", "level") /\ Len(Top.nested) < MaxRip
  /\ m \in Rippable(Top, Top.nested)
  /\ RipUp(m)
  /\ BecomeAfterRip([Top EXCEPT !.stage = "retry", !.nested = Append(@, Victim(m))], m)
  /\ UNCHANGED <<pending, at, cancelled>>

MainRetryFails ==
  /\ In("reroute", "retry")
  /\ Goto("level")
  /\ UNCHANGED <<boardVars, pending, at, cancelled>>

MainGivesUp ==
  /\ In("reroute", "level")
  /\ Goto("unwind")
  /\ UNCHANGED <<boardVars, pending, at, cancelled>>

MainUnwinds ==
  /\ In("reroute", "unwind") /\ Top.nested # <<>>
  /\ RestoreNet(Last(Top.nested).net, Last(Top.nested).payload)
  /\ Become([Top EXCEPT !.nested = Front(@)])
  /\ UNCHANGED <<pending, at, cancelled>>

(* Mutant of ItemFails: the net stays pending.                             *)
ItemFailsStillPending ==
  /\ \/ In("reroute", "item") /\ Top.items # <<>> /\ ~IsRouted(Item)
     \/ In("reroute", "unwind") /\ Top.nested = <<>>
  /\ NextItem
  /\ UNCHANGED <<boardVars, pending, at, cancelled>>

(* The net stays out; it is no longer pending.                             *)
ItemFails ==
  /\ \/ In("reroute", "item") /\ Top.items # <<>> /\ ~IsRouted(Item)
     \/ In("reroute", "unwind") /\ Top.nested = <<>>
  /\ pending' = [pending EXCEPT ![Item] = None]
  /\ NextItem
  /\ UNCHANGED <<boardVars, at, cancelled>>

(* phase1_exhausted (#348): no main route, but copper of its own to tap    *)
(* from.  Only the pending entry learns of it.  A net fails instead when   *)
(* its copper is at none of its terminals, or a terminal has too little:   *)
(* which of the two is left open.                                          *)
Exhausts(n) == n \in Multipoint /\ copper[n] # {}

ItemExhausted ==
  /\ In("reroute", "item") /\ Top.items # <<>> /\ ~IsRouted(Item) /\ Exhausts(Item)
  /\ Update(Item, Found(Item, {}))
  /\ NextItem
  /\ UNCHANGED <<boardVars, at, cancelled>>

ItemIsSimple ==
  /\ In("reroute", "taps") /\ Item \notin Multipoint
  /\ NextItem
  /\ UNCHANGED <<boardVars, pending, at, cancelled>>

ItemTaps(t) ==
  /\ In("reroute", "taps") /\ Item \in Multipoint
  /\ t \in TapsOn(Item, PreparedMap(Item))
  /\ LET found == [Top EXCEPT !.taps = t, !.stage = "commit"]
     IN \/ Become(found)
        \/ /\ t.failed > 0 /\ Top.depth < MaxRip
           /\ Call(found, TapFrame(Item, t, Top.depth + 1, Top.ancestors))
  /\ UNCHANGED <<boardVars, pending, at, cancelled>>

ItemCommits ==
  /\ In("reroute", "commit")
  /\ CommitTaps(Item, Top.taps, Top.main, Top.main)
  /\ pending' = [pending EXCEPT ![Item] = None]
  /\ NextItem
  /\ UNCHANGED <<at, cancelled>>

----------------------------------------------------------------------------
NetStep ==
  \/ SkipNet \/ TakeNet
  \/ \E t \in AllTaps : RouteTaps(t)
  \/ CommitNet
  \/ Reask \/ NetDone \/ UndoReask \/ RestoreTree

TapStep ==
  \/ \E m \in Nets : TapRips(m)
  \/ \E t \in AllTaps : RetryHelps(t)
  \/ RetryDoesNotHelp \/ TapGivesUp \/ TapUnwinds \/ TapFails
  \/ KeepRetry \/ AbandonRetry
  \/ \E m \in Nets : RipsAgain(m)
  \/ ReroutesAgain \/ Abandoned

RerouteStep ==
  \/ ItemsDone
  \/ \E r \in AllRoutes : MainLands(r)
  \/ MainOpensRipUp
  \/ \E m \in Nets : MainRips(m)
  \/ MainRetryFails \/ MainGivesUp \/ MainUnwinds
  \/ ItemFails \/ ItemExhausted \/ ItemIsSimple
  \/ \E t \in AllTaps : ItemTaps(t)
  \/ ItemCommits

Over == stack = <<>> /\ (cancelled \/ at > Len(Order))

Next ==
  \/ Cancel
  \/ NetStep
  \/ TapStep
  \/ RerouteStep
  \/ Over /\ UNCHANGED vars

(* One thread that always takes its next step.                             *)
Spec == Init /\ [][Next]_vars /\ WF_vars(NetStep \/ TapStep \/ RerouteStep)

----------------------------------------------------------------------------
Stages ==
  [net |-> {"taps", "commit", "reask", "reasked", "undone"},
   tap |-> {"level", "retry", "unwind", "arbitrate", "rerip", "settled"},
   reroute |-> {"item", "level", "retry", "unwind", "taps", "commit"}]

(* The shape of the calls in progress: the loop's iteration is outermost,  *)
(* a tap rip-up is called for taps and a reroute for what was ripped, so   *)
(* the innermost two frames always fit, and no frame rips more nets than   *)
(* config.max_rip_up_count or nests deeper than twice that.                *)
CascadeTypeOK ==
  /\ BoardTypeOK
  /\ pending \in [Nets -> Results \cup {None}]
  /\ at \in 1..Len(Order) + 1
  /\ \A i \in DOMAIN stack :
       LET f == stack[i] IN
       /\ f.kind = "net" <=> i = 1
       /\ f.stage \in Stages[f.kind]
       /\ f.kind = "tap" => /\ Len(f.ripped) <= MaxRip
                            /\ f.depth <= MaxRip
                            /\ ToSet(NetsOf(f.ripped)) \subseteq f.subtree
       /\ f.kind = "reroute" => /\ Len(f.nested) <= MaxRip
                                /\ f.depth <= MaxRip + 1
                                /\ f.stage # "item" => f.items # <<>>
       /\ i > 1 /\ f.kind = "tap" => stack[i - 1].stage = "commit"
       /\ i > 1 /\ f.kind = "reroute" =>
            stack[i - 1].stage \in {"arbitrate", "settled", "taps", "reasked"}

(* The cells a frame guards in the working map.                            *)
Guarded(f) ==
  CASE f.kind = "tap" /\ f.stage = "arbitrate" -> f.retry.cells
    [] f.kind = "tap" /\ f.stage \in {"rerip", "settled"} -> f.orig.cells
    [] OTHER -> {}

(* run_obstacle_audit (#309) through the cascade: the working map counts   *)
(* exactly the cached rows of the nets and the guards of the frames open   *)
(* at the moment, so no guard outlives its call and none is dropped early. *)
MapAccounts ==
  \A c \in Cells :
    work[c] = Cardinality(Stampers(c))
              + Cardinality({i \in DOMAIN stack : c \in Guarded(stack[i])})

(* The cycle guard: a net whose rip-up is in progress, or whose main route *)
(* was laid in a call still open, is on the board until the call returns;  *)
(* no cascade below rips it from under its own retry.                      *)
RootsStayPut ==
  \A i \in DOMAIN stack :
    LET f == stack[i] IN
    /\ f.kind = "net" /\ f.stage \in {"taps", "commit", "reask"} =>
         f.stage = "reask" \/ routed[f.net] = f.lm
    /\ f.kind = "tap" => IsRouted(f.net)
    /\ f.kind = "reroute" /\ f.stage \in {"taps", "commit"} =>
         routed[f.items[1]] = f.main

(* What the loop will take next is on the board: the snapshot of a pending *)
(* net not taken yet is the route the net has, so no tap search starts     *)
(* from copper that a cascade took away.                                   *)
PendingIsOnBoard ==
  \A i \in at .. Len(Order) :
    stack = <<>> /\ pending[Order[i]] # None /\ Order[i] \notin Matched =>
      /\ routed[Order[i]] = Snapshot(Order[i])
      /\ Snapshot(Order[i]).cells \subseteq copper[Order[i]]

(* What a reroute still has to do: no net twice, none of them routed, and  *)
(* none in the hands of two calls, so the skip test of the loop never      *)
(* hides a net and no net is routed over its own copper.                   *)
ToDo(f) == IF f.stage = "item" THEN f.items ELSE Tail(f.items)
ItemsAreUnrouted ==
  \A i \in DOMAIN stack : stack[i].kind = "reroute" =>
    /\ IsInjective(ToDo(stack[i]))
    /\ \A n \in ToSet(ToDo(stack[i])) :
         /\ ~IsRouted(n)
         /\ \A j \in i + 1 .. Len(stack) :
              stack[j].kind = "reroute" => n \notin ToSet(stack[j].items)

(* A restore of the cascade never finds its corridor taken: a rip-up that  *)
(* fails, and a re-asked tree that comes back, met no new copper meanwhile.*)
RestoresFit == \A n \in Nets : refused[n] = None

(* The work the cascade has still to do matches the board it will find:    *)
(* the main loop's list, the items of every open reroute and the payloads  *)
(* of every open rip-up.                                                   *)
PendingWorkFits == PendingIsOnBoard /\ ItemsAreUnrouted /\ RestoresFit

(* The calls in progress fit together, in shape and in what they hold.     *)
OpenCallsAreSound == CascadeTypeOK /\ RootsStayPut

(* Phase 3 ends: a frame rips a bounded number of nets and the depth of    *)
(* the cascade is bounded too.                                             *)
PhaseEnds == <>Over

(* A net leaves its turn with a route: a re-asked tree is replaced or      *)
(* brought back, never lost.                                               *)
TurnsEndRouted ==
  [][stack # <<>> /\ stack' = <<>> => routed'[stack[1].net] # None]_vars

(* What the output is written from is on the board: no result names copper *)
(* that a rip took away.                                                   *)
ResultsAreOnBoard == \A res \in results : res.cells \subseteq copper[res.net]
=================================================================================
