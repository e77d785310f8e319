--------------------------------- MODULE RipLadder ---------------------------------
(***************************************************************************)
(* The progressive rip-up ladder (single_ended_loop.py, reroute_loop.py,   *)
(* polarity_swap.py, blocking_analysis.py): a net whose search failed rips *)
(* the nets blamed for it, one more per level, and searches again.  The    *)
(* first level that lands commits the rips - the victims are queued for    *)
(* rerouting and their old copper is kept in custody - and when no level   *)
(* lands every victim is restored.                                         *)
(*                                                                         *)
(* One ladder is open at a time; its locals are the record frame.  The     *)
(* loops that open ladders are in RipReroute.                              *)
(***************************************************************************)
EXTENDS RouteBoard, Integers, SequencesExt

CONSTANTS
  MaxRip,    \* config.max_rip_up_count
  Protected, \* nets protection_map keeps from being ripped
  Blamable   \* nets whose copper a declined via-in-pad can name (#331)

ASSUME LadderAssumption ==
  /\ MaxRip \in Nat /\ Protected \subseteq Nets /\ Blamable \subseteq Nets

VARIABLES
  pc,       \* where in the handling of one net the run is
  phase,    \* the stage of the run
  frame,    \* the locals of the open ladder
  entry,    \* the board when the ladder was opened (auxiliary, read by no step)
  queue,    \* reroute_queue
  qi,       \* reroute_index, one-based: the next item to take
  queued,   \* queued_net_ids
  ancestry, \* rip_ancestry
  history,  \* rip_and_retry_history
  custody   \* casualty_custody: the payload of a committed rip, or None

queueVars  == <<queue, qi, queued>>
ladderVars == <<pc, phase, frame, entry, queueVars, ancestry, history, custody>>

Idle == [net |-> None, level |-> 0, blockers |-> <<>>, ripped |-> <<>>,
         guardUsed |-> FALSE, cells |-> FALSE, dest |-> {}, tries |-> 0]

LadderInit ==
  /\ pc = "loop" /\ frame = Idle /\ entry = None
  /\ queue = <<>> /\ qi = 1 /\ queued = {}
  /\ ancestry = [n \in Nets |-> {}]
  /\ history = {}
  /\ custody = [n \in Nets |-> None]

Goto(label) == pc' = label

Net          == frame.net
RippedNets   == [i \in DOMAIN frame.ripped |-> frame.ripped[i].net]
InLadder     == ToSet(RippedNets)
Victim(m)    == [net |-> m, payload |-> Payload(m)]

(* rip_exclude_set: a net never rips itself nor the nets that ripped it.   *)
Excluded(n) == {n} \cup ancestry[n]

(* analyze_frontier_blocking names nets that still have a path entry.      *)
(* Mutant: only the net itself is excluded.                                *)
NameableIgnoringRippers(n) == {m \in paths \ {n} : IsRouted(m)}
Nameable(n) == {m \in paths \ Excluded(n) : IsRouted(m)}

Arrangements(S) == UNION {SetToSeqs(T) : T \in SUBSET S}

(* The first blocker list: the frontier analysis without the protected     *)
(* nets (filter_rippable_blockers); the SE loop puts the nets a declined   *)
(* via-in-pad names in front of it, and drops them from the rest.          *)
FirstBlockers(n) ==
  LET analysed == Nameable(n) \ Protected
      blamed   == {m \in Blamable \ Excluded(n) : IsRouted(m)}
  IN IF phase = "se"
     THEN UNION {{b \o a : a \in Arrangements(analysed \ ToSet(b))} :
                   b \in Arrangements(blamed)}
     ELSE Arrangements(analysed)

Snapshot == [copper |-> copper, work |-> work, routed |-> routed,
             results |-> results, remaining |-> remaining, paths |-> paths]

(* The search of n failed with blocked cells and something to blame.       *)
OpenLadder(n, bs) ==
  /\ frame' = [Idle EXCEPT !.net = n, !.blockers = bs, !.cells = TRUE]
  /\ entry' = Snapshot
  /\ Goto("ladder")

(* The search failed and the ladder is not entered: no net is routed, or   *)
(* the search reported no blocked cells.                                   *)
SkipLadder(n) ==
  /\ frame' = [Idle EXCEPT !.net = n]
  /\ entry' = Snapshot
  /\ Goto("failed")

CloseFrame ==
  /\ frame' = Idle /\ entry' = None
  /\ Goto("loop")

----------------------------------------------------------------------------
(* Re-analysis of the last retry's cells names the most blocking net that  *)
(* is not ripped yet.                                                      *)
Reanalyses == frame.level >= 1 /\ frame.cells
Fresh      == Nameable(Net) \ InLadder

(* The blockers with the fresh one, which joins at the end when it is new; *)
(* its position in that list.                                              *)
Known(m) ==
  IF m \in ToSet(frame.blockers) THEN frame.blockers ELSE Append(frame.blockers, m)
Position(m) == CHOOSE i \in DOMAIN Known(m) : Known(m)[i] = m

(* The fresh blocker goes to the position of this level; the net that was  *)
(* there takes its old place.                                              *)
(* Mutant: it goes one position too early, where a ripped net is.          *)
PromotedEarly(m, level) ==
  [Known(m) EXCEPT ![Position(m)] = Known(m)[level - 1], ![level - 1] = m]

Promoted(m, level) ==
  IF level \in DOMAIN Known(m)
  THEN [Known(m) EXCEPT ![Position(m)] = Known(m)[level], ![level] = m]
  ELSE Known(m)

GuardApplies(m) ==
  /\ phase = "se" /\ ~frame.guardUsed
  /\ frame.level = 1 /\ Len(frame.ripped) = 1
  /\ m # frame.blockers[1]

(* Mutants of the slot-0 guard: it restores nothing; it can fire again.    *)
SlotZeroGuardNoRestore(m) ==
  /\ pc = "ladder" /\ frame.level < MaxRip /\ Reanalyses
  /\ m \in Fresh /\ GuardApplies(m)
  /\ frame' = [frame EXCEPT
                 !.level = 0, !.ripped = <<>>, !.guardUsed = TRUE,
                 !.blockers = <<m>> \o RemoveAt(Known(m), Position(m))]
  /\ UNCHANGED <<boardVars, pc, phase, entry, queueVars, ancestry, history, custody>>

SlotZeroGuardForever(m) ==
  /\ pc = "ladder" /\ frame.level < MaxRip /\ Reanalyses
  /\ m \in Fresh /\ GuardApplies(m)
  /\ RestoreNet(frame.ripped[1].net, frame.ripped[1].payload)
  /\ frame' = [frame EXCEPT
                 !.level = 0, !.ripped = <<>>,
                 !.blockers = <<m>> \o RemoveAt(Known(m), Position(m))]
  /\ UNCHANGED <<pc, phase, entry, queueVars, ancestry, history, custody>>

(* Slot-0 guard: the singleton failed and the re-analysis blames another   *)
(* net, so the first pick is restored and the fresh one is tried alone.    *)
SlotZeroGuard(m) ==
  /\ pc = "ladder" /\ frame.level < MaxRip /\ Reanalyses
  /\ m \in Fresh /\ GuardApplies(m)
  /\ RestoreNet(frame.ripped[1].net, frame.ripped[1].payload)
  /\ frame' = [frame EXCEPT
                 !.level = 0, !.ripped = <<>>, !.guardUsed = TRUE,
                 !.blockers = <<m>> \o RemoveAt(Known(m), Position(m))]
  /\ UNCHANGED <<pc, phase, entry, queueVars, ancestry, history, custody>>

RipKey(bs, level) == <<Net, {bs[i] : i \in 1..level}>>

LevelBlockers(level) ==
  IF Reanalyses
  THEN {Promoted(m, level) : m \in {f \in Fresh : ~GuardApplies(f)}}
  ELSE {frame.blockers}

(* Mutant of NextLevel: the level may exceed the number of blockers.       *)
NextLevelUnchecked ==
  /\ pc = "ladder" /\ frame.level < MaxRip
  /\ \E bs \in LevelBlockers(frame.level + 1) :
       frame' = [frame EXCEPT !.level = @ + 1, !.blockers = bs]
  /\ Goto("rip")
  /\ UNCHANGED <<boardVars, phase, entry, queueVars, ancestry, history, custody>>

(* One level up: extend the rip set, unless this net already landed by     *)
(* ripping exactly this set (rip_combo_already_tried).                     *)
NextLevel ==
  /\ pc = "ladder" /\ frame.level < MaxRip
  /\ \E bs \in LevelBlockers(frame.level + 1) :
       /\ frame.level + 1 \in DOMAIN bs
       /\ frame' = [frame EXCEPT !.level = @ + 1, !.blockers = bs]
       /\ Goto(IF RipKey(bs, frame.level + 1) \in history THEN "ladder" ELSE "rip")
  /\ UNCHANGED <<boardVars, phase, entry, queueVars, ancestry, history, custody>>

(* The ladder ends: no level is left, the re-analysis names no net, or     *)
(* there are fewer blockers than levels.                                   *)
LadderExhausted ==
  /\ pc = "ladder"
  /\ \/ frame.level = MaxRip
     \/ Reanalyses
     \/ \E bs \in LevelBlockers(frame.level + 1) : frame.level >= Len(bs)
  /\ Goto("unwind")
  /\ UNCHANGED <<boardVars, phase, frame, entry, queueVars, ancestry, history, custody>>

(* record_rip_ancestry: at every ladder rip, kept even when rolled back.   *)
RecordAncestry(ripper, m) ==
  ancestry' = [ancestry EXCEPT ![m] = ({ripper} \cup ancestry[ripper]) \ {m}]

(* The rip loop of a level: the blockers from the first not yet ripped.    *)
RipOne ==
  /\ pc = "rip"
  /\ LET m == frame.blockers[Len(frame.ripped) + 1]
     IN /\ IsRouted(m)
        /\ RipUp(m)
        /\ RecordAncestry(Net, m)
        /\ frame' = [frame EXCEPT !.ripped = Append(@, Victim(m))]
  /\ Goto(IF Len(frame.ripped) + 1 = frame.level THEN "retry" ELSE "rip")
  /\ UNCHANGED <<phase, entry, queueVars, history, custody>>

(* trim_net_stub_debris runs in the SE loop only: branches of the net's    *)
(* own stub that the new route left unused leave the board.                *)
Keeps(n) == IF phase = "se" THEN SUBSET copper[n] ELSE {copper[n]}

CustodyOf(m) ==
  frame.ripped[CHOOSE i \in DOMAIN frame.ripped : frame.ripped[i].net = m].payload

(* The victims that are not marked as queued, in the order of the rips.    *)
NewVictims(marked) ==
  {s \in SetToSeqs(InLadder \ marked) :
     \A i, j \in DOMAIN s : i < j =>
       \E k, l \in DOMAIN RippedNets :
         k < l /\ RippedNets[k] = s[i] /\ RippedNets[l] = s[j]}

(* Mutant of CommitVictims: no custody record is written.                  *)
CommitVictimsUnrecorded(marked) ==
  /\ \E new \in NewVictims(marked) : queue' = queue \o new
  /\ queued' = marked \cup InLadder
  /\ UNCHANGED <<custody, qi>>

(* Every victim of a committed rip: custody of its old copper              *)
(* (record_casualty), and a place in the reroute queue unless it is marked *)
(* as queued.                                                              *)
CommitVictims(marked) ==
  /\ custody' = [m \in Nets |-> IF m \in InLadder THEN CustodyOf(m) ELSE custody[m]]
  /\ \E new \in NewVictims(marked) : queue' = queue \o new
  /\ queued' = marked \cup InLadder
  /\ UNCHANGED qi

(* The retry lands: record the route, commit the rips, close the ladder.   *)
RetrySucceeds(r) ==
  /\ pc = "retry"
  /\ r \in RoutesOn(Net, PreparedMap(Net))
  /\ \E kept \in Keeps(Net) : RecordSuccess(Net, r, kept)
  /\ history' = history \cup {RipKey(frame.blockers, frame.level)}
  /\ CommitVictims(queued \ {Net})
  /\ CloseFrame
  /\ UNCHANGED <<phase, ancestry>>

(* The retry fails, with or without blocked cells to analyse next.         *)
RetryFails(cells) ==
  /\ pc = "retry"
  /\ frame' = [frame EXCEPT !.cells = cells]
  /\ Goto("ladder")
  /\ UNCHANGED <<boardVars, phase, entry, queueVars, ancestry, history, custody>>

(* Restoring the victims of a rip that did not land, the last one first.   *)
RestoreLast(label) ==
  /\ pc = label /\ frame.ripped # <<>>
  /\ RestoreNet(Last(frame.ripped).net, Last(frame.ripped).payload)
  /\ frame' = [frame EXCEPT !.ripped = Front(@)]
  /\ UNCHANGED <<pc, phase, entry, queueVars, ancestry, history, custody>>

UnwindOne == RestoreLast("unwind")

Unwound ==
  /\ pc = "unwind" /\ frame.ripped = <<>>
  /\ Goto("failed")
  /\ UNCHANGED <<boardVars, phase, frame, entry, queueVars, ancestry, history, custody>>

AllRoutes == UNION {RouteOptions[n] : n \in Nets}

LadderStep ==
  \/ \E m \in Nets : SlotZeroGuard(m)
  \/ NextLevel
  \/ LadderExhausted
  \/ RipOne
  \/ \E r \in AllRoutes : RetrySucceeds(r)
  \/ \E cells \in BOOLEAN : RetryFails(cells)
  \/ UnwindOne
  \/ Unwound

----------------------------------------------------------------------------
Victims == {v \in [net : Nets, payload : Payloads] : v.payload.saved.net = v.net}

Frames ==
  [net : Nets \cup {None}, level : Nat, blockers : Seq(Nets), ripped : Seq(Victims),
   guardUsed : BOOLEAN, cells : BOOLEAN, dest : SUBSET Cells, tries : Nat]

(* The shape of the ladder's locals: outside the loop heads there is a net *)
(* at work, a level rips no more nets than it has, and the rip loop never  *)
(* runs off the end of the blockers.                                       *)
LadderTypeOK ==
  /\ pc \in {"loop", "ladder", "rip", "retry", "unwind", "failed", "swap", "swapUnwind"}
  /\ phase \in {"se", "reroute", "reconcile"}
  /\ frame \in Frames
  /\ pc # "loop" => Net \in Nets
  /\ pc \in {"ladder", "retry"} => Len(frame.ripped) <= frame.level
  /\ pc = "rip" => Len(frame.ripped) < frame.level /\ frame.level <= Len(frame.blockers)

(* What a ladder ripped is a prefix of its blocker list, with no net twice *)
(* and every other entry still routed: the level's history key names       *)
(* exactly the nets a landing retry evicts, and the membership test of the *)
(* rip loop never skips a net.                                             *)
RipsAreAPrefix ==
  /\ IsInjective(frame.blockers)
  /\ pc \in {"ladder", "rip", "retry", "unwind"} =>
       /\ RippedNets = SubSeq(frame.blockers, 1, Len(frame.ripped))
       /\ \A i \in Len(frame.ripped) + 1 .. Len(frame.blockers) :
            IsRouted(frame.blockers[i])
  /\ pc = "retry" => Len(frame.ripped) = frame.level

(* docs/rip-up-reroute.md: "If all rounds fail, every ripped net is        *)
(* restored unchanged": board, obstacle map, results and ledgers are what  *)
(* they were when the ladder was opened.                                   *)
FailedLadderLeavesNoTrace ==
  pc = "failed" =>
    /\ copper = entry.copper /\ work = entry.work
    /\ routed = entry.routed /\ results = entry.results
    /\ remaining = entry.remaining

(* A victim never evicts the net that evicted it while routed for it: the  *)
(* net at work holds none of its rippers' copper in its ladder.            *)
NeverRipsItsRipper == Net # None => InLadder \cap Excluded(Net) = {}

(* Whom a ladder holds: in the order of its list, none twice, and nobody   *)
(* who evicted the net it works for.                                       *)
RipsAreOrderly == RipsAreAPrefix /\ NeverRipsItsRipper
=================================================================================
