-------------------------------- MODULE RipReroute --------------------------------
(***************************************************************************)
(* The two loops that drive the ladder in a single-ended run:              *)
(* route_single_ended_nets takes every net once, in order, and has the     *)
(* stub-swap rescue as its last rung; run_reroute_loop then takes the      *)
(* ripped nets off the reroute queue, which grows while it is processed,   *)
(* and has the terminal restore as its last rung.  The user may cancel     *)
(* between two nets.                                                       *)
(***************************************************************************)
EXTENDS RipLadder

CONSTANTS
  Order,         \* the nets to route, in routing order
  StubSites,     \* StubSites[n]: the cell sets a stub of n can be moved to
  StubLayerSwap, \* config.stub_layer_swap
  MaxSwaps       \* bound on the stub ends times layers the rescue tries

ASSUME OrderAssumption ==
  /\ Order \in Seq(Nets) /\ IsInjective(Order)
  /\ ToSet(Order) = Nets \ Existing
ASSUME SwapAssumption ==
  /\ StubSites \in [Nets -> SUBSET SUBSET Cells]
  /\ StubLayerSwap \in BOOLEAN /\ MaxSwaps \in Nat

VARIABLES
  pos,      \* the next net of Order
  cancelled \* cancel_check()

loopVars == <<pos, cancelled>>
vars == <<boardVars, ladderVars, loopVars>>

Init ==
  /\ BoardInit /\ LadderInit
  /\ phase = "se" /\ pos = 1 /\ cancelled = FALSE

AtLoopHead(stage) == phase = stage /\ pc = "loop"

(* cancel_check() answers yes between two nets; the answer stays yes.      *)
Cancel ==
  /\ pc = "loop" /\ ~cancelled
  /\ cancelled' = TRUE
  /\ UNCHANGED <<boardVars, ladderVars, pos>>

----------------------------------------------------------------------------
(* route_single_ended_nets.                                                *)
SETurn == AtLoopHead("se") /\ ~cancelled /\ pos \in DOMAIN Order /\ pos' = pos + 1

SERoutes(r) ==
  /\ SETurn
  /\ LET n == Order[pos]
     IN /\ r \in RoutesOn(n, PreparedMap(n))
        /\ \E kept \in Keeps(n) : RecordSuccess(n, r, kept)
  /\ UNCHANGED <<ladderVars, cancelled>>

SEOpensLadder ==
  /\ SETurn /\ paths # {}
  /\ \E bs \in FirstBlockers(Order[pos]) : OpenLadder(Order[pos], bs)
  /\ UNCHANGED <<boardVars, phase, queueVars, ancestry, history, custody, cancelled>>

SEFails ==
  /\ SETurn
  /\ SkipLadder(Order[pos])
  /\ UNCHANGED <<boardVars, phase, queueVars, ancestry, history, custody, cancelled>>

SEDone ==
  /\ AtLoopHead("se") /\ (cancelled \/ pos > Len(Order))
  /\ phase' = "reroute"
  /\ UNCHANGED <<boardVars, pc, frame, entry, queueVars, ancestry, history, custody,
                 loopVars>>

----------------------------------------------------------------------------
(* _stub_swap_rescue: move a stub of the net to another layer, ripping up  *)
(* to two nets that are in the way, and search once more.                  *)
SwapAllowed == phase = "se" /\ pc = "failed" /\ StubLayerSwap

BeginSwap(dest) ==
  /\ SwapAllowed /\ frame.tries < MaxSwaps
  /\ dest \in StubSites[Net] /\ dest # copper[Net]
  /\ frame' = [frame EXCEPT !.dest = dest, !.tries = @ + 1]
  /\ Goto("swap")
  /\ UNCHANGED <<boardVars, phase, entry, queueVars, ancestry, history, custody,
                 loopVars>>

SwapRips(m) ==
  /\ pc = "swap" /\ Len(frame.ripped) < 2
  /\ copper[m] \cap frame.dest # {}
  /\ IsRouted(m) /\ m \notin Excluded(Net)
  /\ RipUp(m)
  /\ frame' = [frame EXCEPT !.ripped = Append(@, Victim(m))]
  /\ UNCHANGED <<pc, phase, entry, queueVars, ancestry, history, custody, loopVars>>

(* Mutant of SwapSucceeds: the map does not learn of the moved stub.       *)
SwapSucceedsUnstamped(r) ==
  /\ pc = "swap" /\ ~Collides(Net, frame.dest)
  /\ r \in RouteOptions[Net] /\ r \cap (frame.dest \cup BlockedRows(work)) = {}
  /\ copper' = [copper EXCEPT ![Net] = frame.dest \cup r]
  /\ cache' = [cache EXCEPT ![Net] = frame.dest \cup r]
  /\ Books(Net, Found(Net, r))
  /\ results' = results \cup {Found(Net, r)}
  /\ CommitVictims(queued)
  /\ CloseFrame
  /\ UNCHANGED <<work, ripSaved, refused, phase, ancestry, history, loopVars>>

(* The swapped stub fits and the search lands.  The search runs on the     *)
(* working map as it stands and the new cache entry is added to it; the    *)
(* old entry of the net is not taken out.                                  *)
SwapSucceeds(r) ==
  /\ pc = "swap" /\ ~Collides(Net, frame.dest)
  /\ r \in RouteOptions[Net] /\ r \cap (frame.dest \cup BlockedRows(work)) = {}
  /\ copper' = [copper EXCEPT ![Net] = frame.dest \cup r]
  /\ cache' = [cache EXCEPT ![Net] = frame.dest \cup r]
  /\ work' = AddRows(work, frame.dest \cup r)
  /\ Books(Net, Found(Net, r))
  /\ results' = results \cup {Found(Net, r)}
  /\ CommitVictims(queued)
  /\ CloseFrame
  /\ UNCHANGED <<ripSaved, refused, phase, ancestry, history, loopVars>>

(* The swap does not fit or the search fails: the stub goes back.          *)
SwapFails ==
  /\ pc = "swap"
  /\ Goto("swapUnwind")
  /\ UNCHANGED <<boardVars, phase, frame, entry, queueVars, ancestry, history,
                 custody, loopVars>>

SwapRestores == RestoreLast("swapUnwind") /\ UNCHANGED loopVars

SwapUnwound ==
  /\ pc = "swapUnwind" /\ frame.ripped = <<>>
  /\ Goto("failed")
  /\ UNCHANGED <<boardVars, phase, frame, entry, queueVars, ancestry, history,
                 custody, loopVars>>

SEGivesUp ==
  /\ phase = "se" /\ pc = "failed"
  /\ CloseFrame
  /\ UNCHANGED <<boardVars, phase, queueVars, ancestry, history, custody, loopVars>>

----------------------------------------------------------------------------
(* run_reroute_loop.  An item that is routed by now would be skipped; in   *)
(* this run there is none (PendingItemsAreUnrouted).  Mutant: the index    *)
(* stays on the item.                                                      *)
TakeItemAgain(n) ==
  /\ AtLoopHead("reroute") /\ ~cancelled /\ qi \in DOMAIN queue
  /\ n = queue[qi] /\ ~IsRouted(n)
  /\ UNCHANGED qi

TakeItem(n) ==
  /\ AtLoopHead("reroute") /\ ~cancelled /\ qi \in DOMAIN queue
  /\ n = queue[qi] /\ ~IsRouted(n)
  /\ qi' = qi + 1

Reroutes(n, r) ==
  /\ TakeItem(n)
  /\ r \in RoutesOn(n, PreparedMap(n))
  /\ RecordSuccess(n, r, copper[n])
  /\ queued' = queued \ {n}
  /\ UNCHANGED <<pc, phase, frame, entry, queue, ancestry, history, custody, loopVars>>

RerouteOpensLadder(n) ==
  /\ TakeItem(n) /\ paths # {}
  /\ \E bs \in FirstBlockers(n) : OpenLadder(n, bs)
  /\ UNCHANGED <<boardVars, phase, queue, queued, ancestry, history, custody, loopVars>>

RerouteFails(n) ==
  /\ TakeItem(n)
  /\ SkipLadder(n)
  /\ UNCHANGED <<boardVars, phase, queue, queued, ancestry, history, custody, loopVars>>

(* try_terminal_restore, the last rung of the reroute loop: all of the     *)
(* saved route when it is clear, else its escape pieces that are clear.    *)
AtTerminalFailure == phase = "reroute" /\ pc = "failed"
TerminalStep ==
  /\ CloseFrame
  /\ UNCHANGED <<phase, queueVars, ancestry, history, custody, loopVars>>

(* Mutant of TerminalFull: the restore does not look first.                *)
TerminalFullBlind ==
  /\ AtTerminalFailure /\ ripSaved[Net] # None
  /\ RestoreNet(Net, ripSaved[Net])
  /\ TerminalStep

TerminalFull ==
  /\ AtTerminalFailure /\ ripSaved[Net] # None
  /\ ~Collides(Net, ripSaved[Net].saved.cells)
  /\ RestoreNet(Net, ripSaved[Net])
  /\ TerminalStep

TerminalStub ==
  /\ AtTerminalFailure /\ ripSaved[Net] # None
  /\ Collides(Net, ripSaved[Net].saved.cells)
  /\ RestoreStub(Net, ripSaved[Net])
  /\ TerminalStep

RerouteDone ==
  /\ AtLoopHead("reroute") /\ (cancelled \/ qi > Len(queue))
  /\ phase' = "reconcile"
  /\ UNCHANGED <<boardVars, pc, frame, entry, queueVars, ancestry, history, custody,
                 loopVars>>

----------------------------------------------------------------------------
SEStep ==
  \/ \E r \in AllRoutes : SERoutes(r)
  \/ SEOpensLadder
  \/ SEFails
  \/ \E dest \in UNION {StubSites[n] : n \in Nets} : BeginSwap(dest)
  \/ \E m \in Nets : SwapRips(m)
  \/ \E r \in AllRoutes : SwapSucceeds(r)
  \/ SwapFails \/ SwapRestores \/ SwapUnwound
  \/ SEGivesUp
  \/ SEDone

RerouteStep ==
  \/ \E n \in Nets : \E r \in AllRoutes : Reroutes(n, r)
  \/ \E n \in Nets : RerouteOpensLadder(n)
  \/ \E n \in Nets : RerouteFails(n)
  \/ TerminalFull \/ TerminalStub
  \/ RerouteDone

(* The run hands over to the passes after the two loops.                   *)
Finished == phase = "reconcile" /\ UNCHANGED vars

Next ==
  \/ Cancel
  \/ SEStep
  \/ RerouteStep
  \/ LadderStep /\ UNCHANGED loopVars
  \/ Finished

(* The engine is one thread that always takes its next step; pressing      *)
(* cancel is the user's choice.                                            *)
Fairness == WF_vars(SEStep \/ RerouteStep \/ (LadderStep /\ UNCHANGED loopVars))

Spec == Init /\ [][Next]_vars /\ Fairness

----------------------------------------------------------------------------
(* The items of the queue not taken yet: no net is pending twice and none  *)
(* is routed, so the loop's skip test never hides a lost net and no net is *)
(* routed over its own copper.                                             *)
PendingItemsAreUnrouted ==
  /\ IsInjective(SubSeq(queue, qi, Len(queue)))
  /\ \A i \in qi .. Len(queue) : ~IsRouted(queue[i])

(* A net ripped for another net is back, in the ladder that ripped it, or  *)
(* in custody with exactly the copper the last rip took: none is lost      *)
(* between the queue, the terminal restore and the reconciliation.         *)
NoNetForgotten ==
  \A n \in Nets : ripSaved[n] # None /\ ~IsRouted(n) =>
    n \in InLadder \/ custody[n] = ripSaved[n]

(* No restore of the two loops is refused: a ladder commits no copper      *)
(* while its victims are out, and the terminal restore looks first (#134   *)
(* keeps its refusal for the passes that follow).                          *)
NothingRefused == \A n \in Nets : refused[n] = None

(* Between its rip and its turn nothing happens to a victim: it is pending *)
(* once, nobody routes it meanwhile, and no restore finds its corridor     *)
(* taken.                                                                  *)
VictimsKeepTheirTurn == PendingItemsAreUnrouted /\ NothingRefused

(* Every run ends.  The queue grows while it is processed, but only by     *)
(* rips that landed; each of those enters the history as a combination     *)
(* that is never tried again, and gives its victims a larger excluded set  *)
(* than the net that ripped them.                                          *)
Terminates == <>(phase = "reconcile")

(* A route is copper: the nets that are connected as they are were taken   *)
(* out before the loops (route.py:1415), and a net that has a route in the *)
(* file has copper there.                                                  *)
ASSUME RoutesHaveCopper ==
  /\ \A n \in Nets : {} \notin RouteOptions[n]
  /\ \A n \in Existing : FileRoute[n] # {}

(* The board as an observer of committed work sees it: the victims of the  *)
(* open ladder still hold their copper.                                    *)
CommittedBoard ==
  [n \in Nets |-> copper[n] \cup IF n \in InLadder THEN CustodyOf(n).saved.cells ELSE {}]
Evicted == {n \in Nets \ InLadder : ripSaved[n] # None /\ ~IsRouted(n)}

Eviction == INSTANCE EvictionBoard WITH
  board <- CommittedBoard, evicted <- Evicted,
  InitBoard <- [n \in Nets |-> InitCopper(n)]

(* The two loops with their ladders, rescues and restores implement the    *)
(* abstract board: evictions are all-or-nothing with the landing they were *)
(* made for.                                                               *)
RipsAreAtomic == Eviction!Spec
=================================================================================
