------------------------------ MODULE RipReroute_proofs ------------------------------
(***************************************************************************)
(* What the two loops guarantee with their ladders, rescues and restores,  *)
(* whatever the nets, the routes, the blame and the bounds are.            *)
(*                                                                         *)
(* First the board: no shorts, and the searches see it.  The inductive     *)
(* invariant ties the searches to the board: the map covers every stamp,   *)
(* and a net's stamps are its copper; neither NoShort nor the reference    *)
(* counts are inductive alone.                                             *)
(*                                                                         *)
(* Then what the loops rip.  The ledgers tell one story about which nets   *)
(* are routed (LedgersAgree); what a ladder ripped is a prefix of its list *)
(* and holds none of the net's rippers (LadderIsOrderly); a ladder that    *)
(* fails puts back what it found (FailureLeavesNoTrace); a victim keeps    *)
(* its turn (VictimsAreKept) and is never forgotten (NothingIsForgotten).  *)
(* What makes the ledgers inductive is in the payloads: a rip notes        *)
(* whether its result was in the write-list, and a restore may trust the   *)
(* note only while the net is off the board, is in one payload of the open *)
(* ladder at most, and is none of the nets a loop is about to take.  What  *)
(* makes the rest inductive is that the ledgers with the victims of the    *)
(* open ladder brought back are those it found.  That is also the          *)
(* refinement mapping under which the loops implement EvictionBoard (at    *)
(* the end).                                                               *)
(***************************************************************************)
EXTENDS RipReroute, RouteBoard_proofs

(* Only the stub-swap rescue unbalances the map, and without the option    *)
(* the rescue is never entered.                                            *)
SwapsAreOff == ~StubLayerSwap => pc # "swap" /\ MapBalanced

Inv ==
  /\ BoardInv
  /\ LadderTypeOK
  /\ SwapsAreOff

(* An arrangement of a set of nets lists some of them, none twice.         *)
LEMMA ArrangedNets ==
  ASSUME NEW S \in SUBSET Nets, NEW bs \in Arrangements(S)
  PROVE  /\ bs \in Seq(Nets) /\ \A i \in DOMAIN bs : bs[i] \in S
         /\ \A i, j \in DOMAIN bs : bs[i] = bs[j] => i = j
<1>1. PICK T \in SUBSET S : bs \in SetToSeqs(T)
  BY DEF Arrangements
<1>2. Cardinality(T) \in Nat
  BY NetsAssumption, FS_Subset, FS_CardinalityType
<1>3. bs \in [1..Cardinality(T) -> T]
      /\ \A i, j \in 1..Cardinality(T) : i # j => bs[i] # bs[j]
  BY <1>1 DEF SetToSeqs
<1> QED
  BY <1>2, <1>3

(* The blocker lists a failed search may report: nets that may be ripped   *)
(* for n, none twice.                                                      *)
LEMMA ReportedBlockers ==
  ASSUME BoardTypeOK, NEW n \in Nets, NEW bs \in FirstBlockers(n)
  PROVE  /\ bs \in Seq(Nets)
         /\ \A i \in DOMAIN bs : IsRouted(bs[i]) /\ bs[i] \notin Excluded(n)
         /\ \A i, j \in DOMAIN bs : bs[i] = bs[j] => i = j
<1> DEFINE analysed == Nameable(n) \ Protected
           blamed   == {m \in Blamable \ Excluded(n) : IsRouted(m)}
<1>1. /\ analysed \in SUBSET Nets /\ blamed \in SUBSET Nets
      /\ \A m \in analysed \cup blamed : IsRouted(m) /\ m \notin Excluded(n)
  BY LadderAssumption DEF Nameable, BoardTypeOK
<1> HIDE DEF analysed, blamed
<1>2. CASE phase = "se"
  <2>0. PICK b \in Arrangements(blamed) :
          bs \in {b \o a : a \in Arrangements(analysed \ ToSet(b))}
    BY <1>2 DEF FirstBlockers, analysed, blamed
  <2>1. PICK a \in Arrangements(analysed \ ToSet(b)) : bs = b \o a
    BY <2>0
  <2>2. /\ b \in Seq(Nets) /\ \A i \in DOMAIN b : b[i] \in blamed
        /\ \A i, j \in DOMAIN b : b[i] = b[j] => i = j
    BY <1>1, ArrangedNets
  <2>3. analysed \ ToSet(b) \in SUBSET Nets
    BY <1>1
  <2>4. /\ a \in Seq(Nets) /\ \A i \in DOMAIN a : a[i] \in analysed /\ a[i] \notin ToSet(b)
        /\ \A i, j \in DOMAIN a : a[i] = a[j] => i = j
    BY <2>3, ArrangedNets
  <2>5. \A i \in DOMAIN b, j \in DOMAIN a : b[i] # a[j]
    BY <2>4 DEF ToSet
  <2>6. PICK k, l \in Nat : k = Len(b) /\ l = Len(a)
    BY <2>2, <2>4
  <2>7. /\ DOMAIN b = 1..k /\ DOMAIN a = 1..l /\ DOMAIN bs = 1..(k + l) /\ bs \in Seq(Nets)
        /\ \A i \in 1..(k + l) : bs[i] = IF i <= k THEN b[i] ELSE a[i - k]
    BY <2>1, <2>2, <2>4, <2>6
  <2>8. \A i \in 1..(k + l) : (i <= k /\ i \in 1..k) \/ (i > k /\ i - k \in 1..l)
    BY <2>6
  <2>9. \A i \in 1..(k + l) : bs[i] \in analysed \cup blamed
    <3> TAKE i \in 1..(k + l)
    <3>1. CASE i <= k /\ i \in 1..k
      BY <2>2, <2>7, <3>1
    <3>2. CASE i > k /\ i - k \in 1..l
      <4>1. bs[i] = a[i - k]
        BY <2>6, <2>7, <3>2
      <4> QED
        BY <2>4, <2>7, <3>2, <4>1
    <3> QED
      BY <2>8, <3>1, <3>2
  <2>10. ASSUME NEW i \in 1..(k + l), NEW j \in 1..(k + l), bs[i] = bs[j] PROVE i = j
    <3>1. CASE i <= k /\ j <= k
      BY <2>2, <2>7, <2>8, <2>10, <3>1
    <3>2. CASE i > k /\ j > k
      <4>1. bs[i] = a[i - k] /\ bs[j] = a[j - k]
        BY <2>6, <2>7, <3>2
      <4>2. i - k \in DOMAIN a /\ j - k \in DOMAIN a
        BY <2>6, <2>7, <2>8, <3>2
      <4>3. i - k = j - k
        BY <2>4, <2>10, <4>1, <4>2
      <4> QED
        BY <2>6, <4>3
    <3>3. CASE i <= k /\ j > k
      <4>1. bs[i] = b[i] /\ bs[j] = a[j - k] /\ i \in DOMAIN b /\ j - k \in DOMAIN a
        BY <2>6, <2>7, <2>8, <3>3
      <4> QED
        BY <2>5, <2>10, <4>1
    <3>4. CASE i > k /\ j <= k
      <4>1. bs[j] = b[j] /\ bs[i] = a[i - k] /\ j \in DOMAIN b /\ i - k \in DOMAIN a
        BY <2>6, <2>7, <2>8, <3>4
      <4> QED
        BY <2>5, <2>10, <4>1
    <3> QED
      BY <2>6, <3>1, <3>2, <3>3, <3>4
  <2> QED
    BY <1>1, <2>7, <2>9, <2>10
<1>3. CASE phase # "se"
  <2>1. bs \in Arrangements(analysed)
    BY <1>3 DEF FirstBlockers, analysed
  <2> QED
    BY <1>1, <2>1, ArrangedNets
<1> QED
  BY <1>2, <1>3

(* A blamed net is in the list it is put into, at its position.            *)
LEMMA KnownBlockers ==
  ASSUME frame.blockers \in Seq(Nets), NEW m \in Nets
  PROVE  /\ Known(m) \in Seq(Nets) /\ Position(m) \in DOMAIN Known(m)
         /\ Known(m)[Position(m)] = m
         /\ <<m>> \o RemoveAt(Known(m), Position(m)) \in Seq(Nets)
<1>1. Known(m) \in Seq(Nets)
  BY DEF Known
<1>2. \E i \in DOMAIN Known(m) : Known(m)[i] = m
  <2>1. CASE m \in ToSet(frame.blockers)
    BY <2>1 DEF Known, ToSet
  <2>2. CASE m \notin ToSet(frame.blockers)
    <3>1. Known(m) = Append(frame.blockers, m)
      BY <2>2 DEF Known
    <3>2. Len(frame.blockers) + 1 \in DOMAIN Known(m)
          /\ Known(m)[Len(frame.blockers) + 1] = m
      BY <3>1
    <3> QED
      BY <3>2
  <2> QED
    BY <2>1, <2>2
<1>3. Position(m) \in 1 .. Len(Known(m)) /\ Known(m)[Position(m)] = m
  BY <1>1, <1>2 DEF Position
<1>4. RemoveAt(Known(m), Position(m)) \in Seq(Nets)
  BY <1>1, <1>3 DEF RemoveAt
<1> QED
  BY <1>1, <1>3, <1>4

(* Two entries of a list change places.                                    *)
LEMMA SwappedEntries ==
  ASSUME NEW S, NEW s \in Seq(S), NEW p \in DOMAIN s, NEW q \in DOMAIN s,
         NEW t, t = [s EXCEPT ![p] = s[q], ![q] = s[p]]
  PROVE  /\ t \in Seq(S) /\ DOMAIN t = DOMAIN s
         /\ \A i \in DOMAIN s : t[i] = IF i = q THEN s[p] ELSE IF i = p THEN s[q] ELSE s[i]
<1>1. PICK k \in Nat : k = Len(s)
  OBVIOUS
<1>2. DOMAIN s = 1..k /\ s \in [1..k -> S]
  BY <1>1
<1>3. t \in [1..k -> S]
  BY <1>2
<1>4. \A i \in 1..k : t[i] = IF i = q THEN s[p] ELSE IF i = p THEN s[q] ELSE s[i]
  BY <1>2
<1> QED
  BY <1>2, <1>3, <1>4

(* The blocker list of a level.                                            *)
LEMMA LevelBlockersAreLists ==
  ASSUME BoardTypeOK, frame.blockers \in Seq(Nets), NEW level \in Nat,
         NEW bs \in LevelBlockers(level)
  PROVE  bs \in Seq(Nets)
<1>1. CASE Reanalyses
  <2>1. PICK m \in Fresh : bs = Promoted(m, level)
    BY <1>1 DEF LevelBlockers
  <2>2. m \in Nets
    BY DEF Fresh, Nameable, BoardTypeOK
  <2>3. Known(m) \in Seq(Nets) /\ Position(m) \in DOMAIN Known(m)
        /\ Known(m)[Position(m)] = m
    BY <2>2, KnownBlockers
  <2>4. CASE level \in DOMAIN Known(m)
    BY <2>1, <2>3, <2>4, SwappedEntries DEF Promoted
  <2>5. CASE level \notin DOMAIN Known(m)
    BY <2>1, <2>3, <2>5 DEF Promoted
  <2> QED
    BY <2>4, <2>5
<1>2. CASE ~Reanalyses
  BY <1>2 DEF LevelBlockers
<1> QED
  BY <1>1, <1>2

(* Ripping one more net, or taking the last one back, leaves a list of     *)
(* victims.                                                                *)
LEMMA VictimLists ==
  ASSUME NEW ripped \in Seq(Victims)
  PROVE  /\ \A v \in Victims : Append(ripped, v) \in Seq(Victims)
         /\ \A v \in Victims : Len(Append(ripped, v)) = Len(ripped) + 1
         /\ ripped # <<>> => /\ Front(ripped) \in Seq(Victims)
                             /\ Last(ripped) \in Victims
                             /\ ripped[1] \in Victims
<1>1. \A v \in Victims : Append(ripped, v) \in Seq(Victims)
                         /\ Len(Append(ripped, v)) = Len(ripped) + 1
  OBVIOUS
<1>2. ASSUME ripped # <<>>
      PROVE  Front(ripped) \in Seq(Victims) /\ Last(ripped) \in Victims
             /\ ripped[1] \in Victims
  BY <1>2 DEF Front, Last
<1> QED
  BY <1>1, <1>2

(* The updates of the ladder's locals keep their shape.                    *)
LEMMA IdleFrame == Idle \in Frames /\ Len(Idle.ripped) = 0
<1>1. <<>> \in Seq(Nets) /\ <<>> \in Seq(Victims)
  OBVIOUS
<1> QED
  BY <1>1 DEF Idle, Frames

LEMMA RippedUpdate ==
  ASSUME NEW f \in Frames, NEW rs \in Seq(Victims),
         NEW g, g = [f EXCEPT !.ripped = rs]
  PROVE  /\ g \in Frames /\ g.net = f.net /\ g.ripped = rs
         /\ g.level = f.level /\ g.blockers = f.blockers
  BY DEF Frames

LEMMA CellsUpdate ==
  ASSUME NEW f \in Frames, NEW b \in BOOLEAN,
         NEW g, g = [f EXCEPT !.cells = b]
  PROVE  /\ g \in Frames /\ g.net = f.net /\ g.ripped = f.ripped
         /\ g.level = f.level
  BY DEF Frames

LEMMA GuardUpdate ==
  ASSUME NEW f \in Frames, NEW bs \in Seq(Nets),
         NEW g, g = [f EXCEPT !.level = 0, !.ripped = <<>>, !.guardUsed = TRUE,
                              !.blockers = bs]
  PROVE  g \in Frames /\ g.net = f.net /\ g.level = 0 /\ Len(g.ripped) = 0
<1>1. ASSUME NEW rs \in Seq(Victims)
      PROVE  [f EXCEPT !.level = 0, !.ripped = rs, !.guardUsed = TRUE, !.blockers = bs]
               \in Frames
  BY DEF Frames
<1>2. <<>> \in Seq(Victims)
  OBVIOUS
<1>3. g \in Frames
  BY <1>1, <1>2
<1>4. g.net = f.net /\ g.level = 0 /\ g.ripped = <<>>
  BY DEF Frames
<1> QED
  BY <1>3, <1>4

LEMMA OpenedFrame ==
  ASSUME NEW n \in Nets, NEW bs \in Seq(Nets)
  PROVE  /\ [Idle EXCEPT !.net = n, !.blockers = bs, !.cells = TRUE] \in Frames
         /\ [Idle EXCEPT !.net = n, !.blockers = bs, !.cells = TRUE].net = n
         /\ [Idle EXCEPT !.net = n, !.blockers = bs, !.cells = TRUE].ripped = <<>>
         /\ [Idle EXCEPT !.net = n] \in Frames
         /\ [Idle EXCEPT !.net = n].net = n
<1>1. Idle \in Frames
  BY IdleFrame
<1>2. /\ [Idle EXCEPT !.net = n, !.blockers = bs, !.cells = TRUE] \in Frames
      /\ [Idle EXCEPT !.net = n] \in Frames
  BY <1>1 DEF Frames
<1> QED
  BY <1>2 DEF Idle

----------------------------------------------------------------------------
(* Restoring the last victim, in a ladder or after a stub swap.            *)
LEMMA RestoreLastKeepsInv ==
  ASSUME Inv, NEW label \in {"unwind", "swapUnwind"}, RestoreLast(label)
  PROVE  Inv'
<1> USE DEF Inv
<1>1. frame \in Frames /\ frame.ripped \in Seq(Victims) /\ frame.ripped # <<>>
  BY DEF LadderTypeOK, Frames, RestoreLast
<1>2. Front(frame.ripped) \in Seq(Victims) /\ Last(frame.ripped) \in Victims
  BY <1>1, VictimLists
<1>3. RestoreNet(Last(frame.ripped).net, Last(frame.ripped).payload)
  BY DEF RestoreLast
<1>4. BoardInv' /\ (MapBalanced => MapBalanced')
  BY <1>2, <1>3, RestoreNetKeepsBoardInv DEF Victims
<1> DEFINE rs == Front(frame.ripped)
<1>5. frame' = [frame EXCEPT !.ripped = rs] /\ pc = label /\ UNCHANGED <<pc, phase>>
  BY DEF RestoreLast
<1>6. rs \in Seq(Victims)
  BY <1>2
<1> HIDE DEF rs
<1>7. frame' \in Frames /\ frame'.net = frame.net
  BY <1>1, <1>5, <1>6, RippedUpdate
<1> QED
  BY <1>4, <1>5, <1>7 DEF LadderTypeOK, SwapsAreOff, Net

----------------------------------------------------------------------------
(* A ladder step keeps the invariant: the slot-0 guard and the unwinding   *)
(* restore, a rip takes away, a landing retry was searched on the map      *)
(* without the net, and the other steps only move the frame.               *)
LEMMA LadderStepKeepsInv ==
  ASSUME Inv, LadderStep
  PROVE  Inv'
<1> USE DEF Inv
<1>a. frame \in Frames /\ frame.blockers \in Seq(Nets) /\ frame.ripped \in Seq(Victims)
      /\ frame.level \in Nat
  BY DEF LadderTypeOK, Frames
<1>1. ASSUME NEW m \in Nets, SlotZeroGuard(m) PROVE Inv'
  <2>1. frame.ripped[1] \in Victims
    BY <1>1, <1>a DEF SlotZeroGuard, GuardApplies
  <2>2. RestoreNet(frame.ripped[1].net, frame.ripped[1].payload)
    BY <1>1 DEF SlotZeroGuard
  <2>3. BoardInv' /\ (MapBalanced => MapBalanced')
    BY <2>1, <2>2, RestoreNetKeepsBoardInv DEF Victims
  <2> DEFINE bs == <<m>> \o RemoveAt(Known(m), Position(m))
  <2>4. bs \in Seq(Nets)
    BY <1>a, KnownBlockers
  <2>5. frame' = [frame EXCEPT !.level = 0, !.ripped = <<>>, !.guardUsed = TRUE,
                               !.blockers = bs]
    BY <1>1 DEF SlotZeroGuard
  <2> HIDE DEF bs
  <2>6. frame' \in Frames /\ frame'.net = frame.net /\ frame'.level = 0
        /\ Len(frame'.ripped) = 0
    BY <1>a, <2>4, <2>5, GuardUpdate
  <2>7. pc = "ladder" /\ UNCHANGED <<pc, phase>>
    BY <1>1 DEF SlotZeroGuard
  <2> QED
    BY <2>3, <2>6, <2>7 DEF LadderTypeOK, SwapsAreOff, Net
<1>2. ASSUME NextLevel PROVE Inv'
  <2>p. PICK bs \in LevelBlockers(frame.level + 1) :
          /\ frame.level + 1 \in DOMAIN bs
          /\ frame' = [frame EXCEPT !.level = @ + 1, !.blockers = bs]
          /\ Goto(IF RipKey(bs, frame.level + 1) \in history THEN "ladder" ELSE "rip")
    BY <1>2 DEF NextLevel
  <2>1. bs \in Seq(Nets)
    BY <1>a, LevelBlockersAreLists DEF BoardInv
  <2>2. BoardInv' /\ (MapBalanced => MapBalanced')
    BY <1>2, StutterKeepsBoardInv DEF NextLevel
  <2> DEFINE level == frame.level + 1
  <2>3. frame' = [frame EXCEPT !.level = level, !.blockers = bs]
    BY <2>p
  <2>l. level \in Nat
    BY <1>a
  <2> HIDE DEF level
  <2>4. frame' \in Frames /\ frame'.net = frame.net /\ frame'.ripped = frame.ripped
        /\ frame'.level = level /\ frame'.blockers = bs
    BY <1>a, <2>1, <2>3, <2>l DEF Frames
  <2>5. pc' \in {"ladder", "rip"} /\ pc = "ladder" /\ phase' = phase
    BY <1>2, <2>p DEF NextLevel, Goto
  <2>6. frame.level + 1 <= Len(bs)
    BY <1>a, <2>p, <2>1
  <2>7. Len(frame.ripped) <= frame.level
    BY <2>5 DEF LadderTypeOK
  <2>8. Len(frame'.ripped) < frame'.level /\ Len(frame'.ripped) <= frame'.level
        /\ frame'.level <= Len(frame'.blockers)
    BY <1>a, <2>4, <2>6, <2>7 DEF level
  <2> QED
    BY <2>2, <2>4, <2>5, <2>8 DEF LadderTypeOK, SwapsAreOff, Net
<1>3. ASSUME LadderExhausted PROVE Inv'
  <2>1. BoardInv' /\ (MapBalanced => MapBalanced')
    BY <1>3, StutterKeepsBoardInv DEF LadderExhausted
  <2>2. pc = "ladder" /\ pc' = "unwind" /\ UNCHANGED <<phase, frame>>
    BY <1>3 DEF LadderExhausted, Goto
  <2> QED
    BY <2>1, <2>2 DEF LadderTypeOK, SwapsAreOff, Net
<1>4. ASSUME RipOne PROVE Inv'
  <2> DEFINE m == frame.blockers[Len(frame.ripped) + 1]
  <2>1. pc = "rip" /\ Len(frame.ripped) < frame.level
        /\ frame.level <= Len(frame.blockers)
    BY <1>4 DEF RipOne, LadderTypeOK
  <2>2. m \in Nets
    BY <1>a, <2>1
  <2> DEFINE rs == Append(frame.ripped, Victim(m))
  <2>3. /\ IsRouted(m) /\ RipUp(m)
        /\ frame' = [frame EXCEPT !.ripped = rs]
        /\ pc' = IF Len(frame.ripped) + 1 = frame.level THEN "retry" ELSE "rip"
        /\ phase' = phase
    BY <1>4 DEF RipOne, Goto
  <2> HIDE DEF m
  <2>4. /\ BoardInv' /\ (MapBalanced => MapBalanced')
        /\ Payload(m) \in Payloads /\ Payload(m).saved.net = m
    BY <2>2, <2>3, RipUpKeepsBoardInv
  <2>5. Victim(m) \in Victims
    BY <2>2, <2>4 DEF Victim, Victims
  <2>6. rs \in Seq(Victims) /\ Len(rs) = Len(frame.ripped) + 1
    BY <1>a, <2>5, VictimLists
  <2> HIDE DEF rs
  <2>7. /\ frame' \in Frames /\ frame'.net = frame.net /\ frame'.level = frame.level
        /\ frame'.blockers = frame.blockers /\ frame'.ripped = rs
    BY <1>a, <2>3, <2>6, RippedUpdate
  <2>8. /\ pc' = "retry" => Len(frame'.ripped) <= frame'.level
        /\ pc' = "rip" => /\ Len(frame'.ripped) < frame'.level
                          /\ frame'.level <= Len(frame'.blockers)
    BY <1>a, <2>1, <2>3, <2>6, <2>7
  <2> QED
    BY <2>1, <2>3, <2>4, <2>7, <2>8 DEF LadderTypeOK, SwapsAreOff, Net
<1>5. ASSUME NEW r \in AllRoutes, RetrySucceeds(r) PROVE Inv'
  <2>1. pc = "retry" /\ Net \in Nets
    BY <1>5 DEF RetrySucceeds, LadderTypeOK
  <2>2. PICK kept \in Keeps(Net) : RecordSuccess(Net, r, kept)
    BY <1>5 DEF RetrySucceeds
  <2>3. kept \in SUBSET copper[Net]
    BY DEF Keeps
  <2>4. r \in RoutesOn(Net, PreparedMap(Net))
    BY <1>5 DEF RetrySucceeds
  <2>5. BoardInv' /\ (MapBalanced => MapBalanced')
    BY <2>1, <2>2, <2>3, <2>4, RecordSuccessKeepsBoardInv
  <2>6. pc' = "loop" /\ frame' = Idle /\ phase' = phase
    BY <1>5 DEF RetrySucceeds, CloseFrame, Goto
  <2> QED
    BY <2>1, <2>5, <2>6, IdleFrame DEF LadderTypeOK, SwapsAreOff
<1>6. ASSUME NEW cells \in BOOLEAN, RetryFails(cells) PROVE Inv'
  <2>1. BoardInv' /\ (MapBalanced => MapBalanced')
    BY <1>6, StutterKeepsBoardInv DEF RetryFails
  <2>2. pc = "retry" /\ pc' = "ladder" /\ phase' = phase
        /\ frame' = [frame EXCEPT !.cells = cells]
    BY <1>6 DEF RetryFails, Goto
  <2>3. frame' \in Frames /\ frame'.net = frame.net /\ frame'.ripped = frame.ripped
        /\ frame'.level = frame.level
    BY <1>a, <2>2, CellsUpdate
  <2> QED
    BY <2>1, <2>2, <2>3 DEF LadderTypeOK, SwapsAreOff, Net
<1>7. ASSUME UnwindOne PROVE Inv'
  BY <1>7, RestoreLastKeepsInv DEF UnwindOne
<1>8. ASSUME Unwound PROVE Inv'
  <2>1. BoardInv' /\ (MapBalanced => MapBalanced')
    BY <1>8, StutterKeepsBoardInv DEF Unwound
  <2>2. pc = "unwind" /\ pc' = "failed" /\ UNCHANGED <<phase, frame>>
    BY <1>8 DEF Unwound, Goto
  <2> QED
    BY <2>1, <2>2 DEF LadderTypeOK, SwapsAreOff, Net
<1> QED
  BY <1>1, <1>2, <1>3, <1>4, <1>5, <1>6, <1>7, <1>8 DEF LadderStep

(* A stub swap that lands: the moved stub touches no other net, the route  *)
(* was searched on a map that covers every stamp, and the new stamps come  *)
(* on top of the old ones.                                                 *)
LEMMA SwapSucceedsKeepsBoardInv ==
  ASSUME Inv, NEW r \in AllRoutes, SwapSucceeds(r)
  PROVE  BoardInv'
<1> USE DEF Inv, BoardInv
<1>1. Net \in Nets /\ frame.dest \in SUBSET Cells
  BY DEF SwapSucceeds, LadderTypeOK, Frames
<1>2. r \in SUBSET Cells
  BY <1>1, CopperAssumption DEF SwapSucceeds
<1> DEFINE cells == frame.dest \cup r
<1>3. cells \in SUBSET Cells
  BY <1>1, <1>2
<1>4. /\ copper' = [copper EXCEPT ![Net] = cells]
      /\ cache' = [cache EXCEPT ![Net] = cells]
      /\ work' = AddRows(work, cells)
  BY DEF SwapSucceeds
<1>5. \A m \in Nets \ {Net} : cells \cap copper[m] = {}
  <2> SUFFICES ASSUME NEW m \in Nets \ {Net} PROVE cells \cap copper[m] = {}
    OBVIOUS
  <2>1. frame.dest \cap copper[m] = {}
    BY DEF SwapSucceeds, Collides, OthersCopper
  <2>2. ASSUME NEW c \in r PROVE c \notin copper[m]
    <3>1. c \in Cells /\ work[c] \in Nat /\ ~(work[c] > 0)
      BY <1>2 DEF SwapSucceeds, BlockedRows, BoardTypeOK
    <3>2. Cardinality(Stampers(c)) = 0
      <4>1. Cardinality(Stampers(c)) \in Nat
        BY NetsAssumption, FS_Subset, FS_CardinalityType DEF Stampers
      <4> QED
        BY <3>1, <4>1 DEF MapCovers
    <3>3. Stampers(c) = {}
      BY <3>2, NetsAssumption, FS_Subset, FS_EmptySet DEF Stampers
    <3> QED
      BY <3>3 DEF Stampers, CacheMirrorsBoard
  <2> QED
    BY <2>1, <2>2
<1> HIDE DEF cells
<1>6. NoShort'
  BY <1>1, <1>3, <1>4, <1>5, DisjointCopperKeepsNoShort
<1>7. CacheMirrorsBoard'
  BY <1>4 DEF CacheMirrorsBoard
<1>8. work' \in [Cells -> Nat]
  BY <1>4, AddRemoveRows DEF BoardTypeOK
<1>9. MapCovers'
  <2> SUFFICES ASSUME NEW c \in Cells PROVE work'[c] >= Cardinality(Stampers(c)')
    BY DEF MapCovers
  <2>1. work[c] \in Nat /\ work[c] >= Cardinality(Stampers(c))
    BY DEF BoardTypeOK, MapCovers
  <2>2. /\ Cardinality(Stampers(c)) \in Nat
        /\ c \in cache[Net] => Cardinality(Stampers(c)) > 0
        /\ Cardinality(Stampers(c)') =
             Cardinality(Stampers(c)) - (IF c \in cache[Net] THEN 1 ELSE 0)
                                      + (IF c \in cells THEN 1 ELSE 0)
    BY ZenonT(40), <1>1, <1>3, <1>4, StampersAfterRestamp
  <2>3. work'[c] = IF c \in cells THEN work[c] + 1 ELSE work[c]
    BY <1>4, AddRemoveRows DEF BoardTypeOK
  <2> QED
    BY <2>1, <2>2, <2>3
<1>10. BoardTypeOK'
  <2>1. Found(Net, r) \in Results /\ Found(Net, r).net = Net
    BY <1>1, <1>2 DEF Found, Results
  <2>2. routed' \in [Nets -> Results \cup {None}]
        /\ \A m \in Nets : IsRouted(m)' => routed'[m].net = m
    BY <2>1 DEF SwapSucceeds, Books, BoardTypeOK, IsRouted
  <2>3. routedIds' \subseteq Nets /\ paths' \subseteq Nets /\ remaining' \subseteq Nets
        /\ results' \subseteq Results
    BY <1>1, <2>1 DEF SwapSucceeds, Books, BoardTypeOK
  <2>4. copper' \in [Nets -> SUBSET Cells] /\ cache' \in [Nets -> SUBSET Cells]
    BY <1>3, <1>4 DEF BoardTypeOK
  <2> QED
    BY <1>8, <2>2, <2>3, <2>4 DEF SwapSucceeds, BoardTypeOK
<1> QED
  BY <1>6, <1>7, <1>9, <1>10

(* A step of the single-ended loop keeps the invariant.                    *)
LEMMA SEStepKeepsInv ==
  ASSUME Inv, SEStep
  PROVE  Inv'
<1> USE DEF Inv
<1>a. frame \in Frames /\ frame.ripped \in Seq(Victims) /\ frame.tries \in Nat
  BY DEF LadderTypeOK, Frames
<1>b. SETurn => Order[pos] \in Nets
  BY OrderAssumption DEF SETurn
<1>1. ASSUME NEW r \in AllRoutes, SERoutes(r) PROVE Inv'
  <2> DEFINE n == Order[pos]
  <2>1. n \in Nets /\ r \in RoutesOn(n, PreparedMap(n))
    BY <1>1, <1>b DEF SERoutes
  <2>2. PICK kept \in Keeps(n) : RecordSuccess(n, r, kept)
    BY <1>1 DEF SERoutes
  <2>3. kept \in SUBSET copper[n]
    BY DEF Keeps
  <2> HIDE DEF n
  <2>4. BoardInv' /\ (MapBalanced => MapBalanced')
    BY <2>1, <2>2, <2>3, RecordSuccessKeepsBoardInv
  <2>5. UNCHANGED <<pc, phase, frame>>
    BY <1>1 DEF SERoutes, ladderVars
  <2> QED
    BY <2>4, <2>5 DEF LadderTypeOK, SwapsAreOff, Net
<1>2. ASSUME SEOpensLadder PROVE Inv'
  <2>p. PICK bs \in FirstBlockers(Order[pos]) : OpenLadder(Order[pos], bs)
    BY <1>2 DEF SEOpensLadder
  <2>1. BoardInv' /\ (MapBalanced => MapBalanced')
    BY <1>2, StutterKeepsBoardInv DEF SEOpensLadder
  <2>2. /\ Order[pos] \in Nets /\ pc' = "ladder" /\ phase' = phase
        /\ frame' = [Idle EXCEPT !.net = Order[pos], !.blockers = bs, !.cells = TRUE]
    BY <1>2, <1>b, <2>p DEF SEOpensLadder, OpenLadder, Goto
  <2>b. bs \in Seq(Nets)
    BY <2>2, <2>p, ReportedBlockers DEF BoardInv
  <2>3. frame' \in Frames /\ frame'.net \in Nets /\ frame'.ripped = <<>>
    BY <2>2, <2>b, OpenedFrame
  <2>4. Len(frame'.ripped) <= frame'.level
    BY <2>3 DEF Frames
  <2> QED
    BY <2>1, <2>2, <2>3, <2>4 DEF LadderTypeOK, SwapsAreOff, Net
<1>3. ASSUME SEFails PROVE Inv'
  <2>1. BoardInv' /\ (MapBalanced => MapBalanced')
    BY <1>3, StutterKeepsBoardInv DEF SEFails
  <2>2. /\ Order[pos] \in Nets /\ pc' = "failed" /\ phase' = phase
        /\ frame' = [Idle EXCEPT !.net = Order[pos]]
    BY <1>3, <1>b DEF SEFails, SkipLadder, Goto
  <2>3. frame' \in Frames /\ frame'.net \in Nets
    <3>1. <<>> \in Seq(Nets)
      OBVIOUS
    <3> QED
      BY <2>2, <3>1, OpenedFrame
  <2> QED
    BY <2>1, <2>2, <2>3 DEF LadderTypeOK, SwapsAreOff, Net
<1>4. ASSUME NEW dest \in UNION {StubSites[n] : n \in Nets}, BeginSwap(dest) PROVE Inv'
  <2>1. BoardInv'
    BY <1>4, StutterKeepsBoardInv DEF BeginSwap
  <2> DEFINE tries == frame.tries + 1
  <2>2. /\ pc = "failed" /\ pc' = "swap" /\ phase' = phase /\ StubLayerSwap
        /\ frame' = [frame EXCEPT !.dest = dest, !.tries = tries]
    BY <1>4 DEF BeginSwap, SwapAllowed, Goto
  <2>3. dest \in SUBSET Cells
    BY SwapAssumption
  <2>t. tries \in Nat
    BY <1>a
  <2> HIDE DEF tries
  <2>4. frame' \in Frames /\ frame'.net = frame.net
    BY <1>a, <2>2, <2>3, <2>t DEF Frames
  <2> QED
    BY <2>1, <2>2, <2>4 DEF LadderTypeOK, SwapsAreOff, Net
<1>5. ASSUME NEW m \in Nets, SwapRips(m) PROVE Inv'
  <2> DEFINE rs == Append(frame.ripped, Victim(m))
  <2>1. /\ IsRouted(m) /\ RipUp(m) /\ pc = "swap" /\ UNCHANGED <<pc, phase>>
        /\ frame' = [frame EXCEPT !.ripped = rs]
    BY <1>5 DEF SwapRips
  <2>2. /\ BoardInv' /\ (MapBalanced => MapBalanced')
        /\ Payload(m) \in Payloads /\ Payload(m).saved.net = m
    BY <2>1, RipUpKeepsBoardInv
  <2>3. Victim(m) \in Victims
    BY <2>2 DEF Victim, Victims
  <2>4. rs \in Seq(Victims)
    BY <1>a, <2>3, VictimLists
  <2> HIDE DEF rs
  <2>5. frame' \in Frames /\ frame'.net = frame.net
    BY <1>a, <2>1, <2>4, RippedUpdate
  <2> QED
    BY <2>1, <2>2, <2>5 DEF LadderTypeOK, SwapsAreOff, Net
<1>6. ASSUME NEW r \in AllRoutes, SwapSucceeds(r) PROVE Inv'
  <2>1. BoardInv'
    BY <1>6, SwapSucceedsKeepsBoardInv
  <2>2. pc = "swap" /\ pc' = "loop" /\ frame' = Idle /\ phase' = phase
    BY <1>6 DEF SwapSucceeds, CloseFrame, Goto
  <2> QED
    BY <2>1, <2>2, IdleFrame DEF LadderTypeOK, SwapsAreOff
<1>7. ASSUME SwapFails \/ SwapUnwound \/ SEGivesUp \/ SEDone PROVE Inv'
  <2>1. BoardInv' /\ (MapBalanced => MapBalanced')
    BY <1>7, StutterKeepsBoardInv DEF SwapFails, SwapUnwound, SEGivesUp, SEDone
  <2>2. \/ pc' \in {"swapUnwind", "failed"} /\ pc # "loop" /\ UNCHANGED <<phase, frame>>
        \/ pc' = "loop" /\ frame' = Idle /\ phase' = phase
        \/ pc = "loop" /\ phase' = "reroute" /\ UNCHANGED <<pc, frame>>
    BY <1>7 DEF SwapFails, SwapUnwound, SEGivesUp, SEDone, Goto, CloseFrame, AtLoopHead
  <2> QED
    BY <2>1, <2>2, IdleFrame DEF LadderTypeOK, SwapsAreOff, Net
<1>8. ASSUME SwapRestores PROVE Inv'
  BY <1>8, RestoreLastKeepsInv DEF SwapRestores
<1> QED
  BY <1>1, <1>2, <1>3, <1>4, <1>5, <1>6, <1>7, <1>8 DEF SEStep

(* A step of the reroute loop keeps the invariant.                         *)
LEMMA RerouteStepKeepsInv ==
  ASSUME Inv, RerouteStep
  PROVE  Inv'
<1> USE DEF Inv
<1>1. ASSUME NEW n \in Nets, NEW r \in AllRoutes, Reroutes(n, r) PROVE Inv'
  <2>1. r \in RoutesOn(n, PreparedMap(n)) /\ RecordSuccess(n, r, copper[n])
    BY <1>1 DEF Reroutes
  <2>2. BoardInv' /\ (MapBalanced => MapBalanced')
    BY <2>1, RecordSuccessKeepsBoardInv
  <2> QED
    BY <1>1, <2>2 DEF Reroutes, LadderTypeOK, SwapsAreOff, Net
<1>2. ASSUME NEW n \in Nets, RerouteOpensLadder(n) PROVE Inv'
  <2>p. PICK bs \in FirstBlockers(n) : OpenLadder(n, bs)
    BY <1>2 DEF RerouteOpensLadder
  <2>1. BoardInv' /\ (MapBalanced => MapBalanced')
    BY <1>2, StutterKeepsBoardInv DEF RerouteOpensLadder
  <2>2. /\ pc' = "ladder" /\ phase' = phase
        /\ frame' = [Idle EXCEPT !.net = n, !.blockers = bs, !.cells = TRUE]
    BY <1>2, <2>p DEF RerouteOpensLadder, OpenLadder, Goto
  <2>b. bs \in Seq(Nets)
    BY <2>p, ReportedBlockers DEF BoardInv
  <2>3. frame' \in Frames /\ frame'.net \in Nets /\ frame'.ripped = <<>>
    BY <2>2, <2>b, OpenedFrame
  <2>4. Len(frame'.ripped) <= frame'.level
    BY <2>3 DEF Frames
  <2> QED
    BY <2>1, <2>2, <2>3, <2>4 DEF LadderTypeOK, SwapsAreOff, Net
<1>3. ASSUME NEW n \in Nets, RerouteFails(n) PROVE Inv'
  <2>1. BoardInv' /\ (MapBalanced => MapBalanced')
    BY <1>3, StutterKeepsBoardInv DEF RerouteFails
  <2>2. pc' = "failed" /\ phase' = phase /\ frame' = [Idle EXCEPT !.net = n]
    BY <1>3 DEF RerouteFails, SkipLadder, Goto
  <2>3. frame' \in Frames /\ frame'.net \in Nets
    <3>1. <<>> \in Seq(Nets)
      OBVIOUS
    <3> QED
      BY <2>2, <3>1, OpenedFrame
  <2> QED
    BY <2>1, <2>2, <2>3 DEF LadderTypeOK, SwapsAreOff, Net
<1>4. ASSUME TerminalFull \/ TerminalStub PROVE Inv'
  <2>1. Net \in Nets /\ ripSaved[Net] \in Payloads /\ ripSaved[Net].saved.net = Net
    BY <1>4 DEF TerminalFull, TerminalStub, AtTerminalFailure, LadderTypeOK, BoardInv,
                BoardTypeOK
  <2>2. RestoreNet(Net, ripSaved[Net]) \/ RestoreStub(Net, ripSaved[Net])
    BY <1>4 DEF TerminalFull, TerminalStub
  <2>3. BoardInv' /\ (MapBalanced => MapBalanced')
    BY <2>1, <2>2, RestoreNetKeepsBoardInv, RestoreStubKeepsBoardInv
  <2>4. pc' = "loop" /\ frame' = Idle /\ phase' = phase
    BY <1>4 DEF TerminalFull, TerminalStub, TerminalStep, CloseFrame, Goto
  <2> QED
    BY <2>3, <2>4, IdleFrame DEF LadderTypeOK, SwapsAreOff
<1>5. ASSUME RerouteDone PROVE Inv'
  <2>1. BoardInv' /\ (MapBalanced => MapBalanced')
    BY <1>5, StutterKeepsBoardInv DEF RerouteDone
  <2> QED
    BY <1>5, <2>1 DEF RerouteDone, LadderTypeOK, SwapsAreOff, Net
<1> QED
  BY <1>1, <1>2, <1>3, <1>4, <1>5 DEF RerouteStep

----------------------------------------------------------------------------
(* The loops start with the invariant, and every step keeps it.            *)
LEMMA InitInv ==
  ASSUME Init
  PROVE  Inv
<1>1. BoardInv /\ MapBalanced
  BY BoardInitInv DEF Init
<1>2. frame = Idle /\ pc = "loop" /\ phase = "se"
  BY DEF Init, LadderInit
<1> QED
  BY <1>1, <1>2, IdleFrame DEF Inv, LadderTypeOK, SwapsAreOff

LEMMA NextInv ==
  ASSUME Inv, [Next]_vars
  PROVE  Inv'
<1>1. CASE SEStep
  BY <1>1, SEStepKeepsInv
<1>2. CASE RerouteStep
  BY <1>2, RerouteStepKeepsInv
<1>3. CASE LadderStep
  BY <1>3, LadderStepKeepsInv
<1>4. CASE Cancel \/ Finished \/ UNCHANGED vars
  <2>1. UNCHANGED boardVars /\ UNCHANGED <<pc, phase, frame>>
    BY <1>4 DEF Cancel, Finished, vars, ladderVars
  <2>2. BoardInv' /\ (MapBalanced => MapBalanced')
    BY <2>1, StutterKeepsBoardInv DEF Inv
  <2> QED
    BY <2>1, <2>2 DEF Inv, LadderTypeOK, SwapsAreOff, Net
<1> QED
  BY <1>1, <1>2, <1>3, <1>4 DEF Next

(* The inductive invariant of the two loops.                               *)
THEOREM SpecInv == Spec => []Inv
<1>1. Init => Inv
  BY InitInv
<1>2. Inv /\ [Next]_vars => Inv'
  BY NextInv
<1> QED
  BY <1>1, <1>2, PTL DEF Spec

(* Board, ledgers and ladder keep their shape.                             *)
THEOREM TypesCorrect == Spec => [](BoardTypeOK /\ LadderTypeOK)
<1>1. Inv => BoardTypeOK /\ LadderTypeOK
  BY DEF Inv, BoardInv
<1> QED
  BY <1>1, SpecInv, PTL

(* No sequence of routes, rips, rollbacks, stub swaps and terminal         *)
(* restores ships a short, for every board and every blame analysis.       *)
THEOREM NeverShorts == Spec => []NoShort
<1>1. Inv => NoShort
  BY DEF Inv, BoardInv
<1> QED
  BY <1>1, SpecInv, PTL

(* What the next search sees is at least the copper on the board: no cell  *)
(* that holds copper ever looks free.                                      *)
THEOREM MapNeverLosesCopper == Spec => [](CacheMirrorsBoard /\ MapCovers)
<1>1. Inv => CacheMirrorsBoard /\ MapCovers
  BY DEF Inv, BoardInv
<1> QED
  BY <1>1, SpecInv, PTL

(* The audit's equality (#309): without the stub-swap rescue the reference *)
(* counts are exact throughout.                                            *)
THEOREM MapStaysBalanced == Spec => [](~StubLayerSwap => MapBalanced)
<1>1. Inv => (~StubLayerSwap => MapBalanced)
  BY DEF Inv, SwapsAreOff
<1> QED
  BY <1>1, SpecInv, PTL

----------------------------------------------------------------------------
(* A result of the input file is the net's copper in that file.            *)
Honest(res) == res.existing => res.net \in Existing /\ res = FromFile(res.net)

(* A payload that knows where its result was.                              *)
Trusted(p) == Honest(p.saved) /\ (p.wasIn <=> ~p.saved.existing)

BookInv ==
  /\ LedgersAgree
  /\ \A n \in Nets : IsRouted(n) => Honest(routed[n])
  /\ \A n \in Nets : ripSaved[n] # None => Trusted(ripSaved[n])
  /\ \A n \in Nets : refused[n] # None => refused[n].net = n

(* The nets a ladder has in hand are off the board, each one once.         *)
InHand(f) ==
  /\ \A i \in DOMAIN f.ripped : Trusted(f.ripped[i].payload) /\ ~IsRouted(f.ripped[i].net)
  /\ \A i, j \in DOMAIN f.ripped : i # j => f.ripped[i].net # f.ripped[j].net
  /\ f.net # None =>
       ~IsRouted(f.net) /\ \A i \in DOMAIN f.ripped : f.ripped[i].net # f.net

(* The nets the first loop still has to take are not routed.               *)
Ahead == {Order[i] : i \in {k \in DOMAIN Order : k >= pos}}

AheadIsOpen ==
  phase = "se" => \A n \in Ahead :
    ~IsRouted(n) /\ n # Net /\ \A i \in DOMAIN frame.ripped : frame.ripped[i].net # n

LoopInv ==
  /\ Inv
  /\ BookInv
  /\ pc = "loop" => frame = Idle
  /\ InHand(frame)
  /\ AheadIsOpen

----------------------------------------------------------------------------
(* A result that enters the books of a net that is not routed.             *)
LEMMA BookingKeepsBooks ==
  ASSUME BoardTypeOK, BookInv, NEW n \in Nets, ~IsRouted(n),
         NEW res \in Results, res.net = n, Honest(res), Books(n, res),
         results' = IF res.existing THEN results ELSE results \cup {res},
         res.cells \subseteq copper'[n],
         \A m \in Nets : m # n => copper'[m] = copper[m]
  PROVE  /\ LedgersAgree'
         /\ \A m \in Nets : IsRouted(m)' => Honest(routed'[m])
         /\ \A m \in Nets : IsRouted(m)' <=> IsRouted(m) \/ m = n
<1>1. res # None
  BY NoneIsNoResult
<1>2. /\ \A m \in Nets : routed'[m] = IF m = n THEN res ELSE routed[m]
      /\ routedIds' = routedIds \cup {n} /\ remaining' = remaining \ {n}
  BY DEF Books, BoardTypeOK
<1>3. \A m \in Nets : IsRouted(m)' <=> IsRouted(m) \/ m = n
  BY <1>1, <1>2 DEF IsRouted
<1>4. \A m \in Nets : IsRouted(m)' => Honest(routed'[m])
  BY <1>2, <1>3 DEF BookInv
<1>5. routedIds' = {m \in Nets : IsRouted(m)'} /\ remaining' = Nets \ routedIds'
  BY <1>2, <1>3 DEF BookInv, LedgersAgree
<1>6. n \notin routedIds
  BY DEF BookInv, LedgersAgree
<1>7. results' = {routed'[k] : k \in {m \in routedIds' : ~routed'[m].existing}}
  <2>1. results = {routed[k] : k \in {m \in routedIds : ~routed[m].existing}}
    BY DEF BookInv, LedgersAgree
  <2>2. \A m \in routedIds : m \in Nets /\ m # n /\ routed'[m] = routed[m]
    BY <1>2, <1>6 DEF BoardTypeOK
  <2>3. routed'[n] = res
    BY <1>2
  <2>4. CASE res.existing
    <3>1. {m \in routedIds' : ~routed'[m].existing} = {m \in routedIds : ~routed[m].existing}
      BY <1>2, <2>2, <2>3, <2>4
    <3> QED
      BY <2>1, <2>2, <2>4, <3>1
  <2>5. CASE ~res.existing
    <3>1. {m \in routedIds' : ~routed'[m].existing}
            = {m \in routedIds : ~routed[m].existing} \cup {n}
      BY <1>2, <2>2, <2>3, <2>5
    <3> QED
      BY <2>1, <2>2, <2>3, <2>5, <3>1
  <2> QED
    BY <2>4, <2>5
<1>8. \A m \in routedIds' : routed'[m].cells \subseteq copper'[m]
  BY <1>2, <1>5 DEF BookInv, LedgersAgree
<1> QED
  BY <1>3, <1>4, <1>5, <1>7, <1>8 DEF LedgersAgree

(* A landing.                                                              *)
LEMMA SuccessKeepsBooks ==
  ASSUME BoardTypeOK, BookInv, NEW n \in Nets, ~IsRouted(n),
         NEW r \in SUBSET Cells, NEW kept \in SUBSET copper[n], RecordSuccess(n, r, kept)
  PROVE  BookInv' /\ \A m \in Nets : IsRouted(m)' <=> IsRouted(m) \/ m = n
<1>1. Found(n, r) \in Results /\ Found(n, r).net = n /\ ~Found(n, r).existing
      /\ Found(n, r).cells = r
  BY DEF Found, Results
<1>2. Honest(Found(n, r))
  BY <1>1 DEF Honest
<1>3. copper' = [copper EXCEPT ![n] = kept \cup r] /\ Books(n, Found(n, r))
      /\ results' = results \cup {Found(n, r)} /\ UNCHANGED <<ripSaved, refused>>
  BY DEF RecordSuccess, Restamp
<1>4. r \subseteq copper'[n] /\ \A m \in Nets : m # n => copper'[m] = copper[m]
  BY <1>3 DEF BoardTypeOK
<1>5. /\ LedgersAgree'
      /\ \A m \in Nets : IsRouted(m)' => Honest(routed'[m])
      /\ \A m \in Nets : IsRouted(m)' <=> IsRouted(m) \/ m = n
  BY <1>1, <1>2, <1>3, <1>4, BookingKeepsBooks
<1> QED
  BY <1>3, <1>5 DEF BookInv

(* A result is in the write-list exactly when it is of this run.           *)
LEMMA PayloadIsTrusted ==
  ASSUME BoardTypeOK, BookInv, NEW n \in Nets, IsRouted(n)
  PROVE  Trusted(Payload(n))
<1>1. n \in routedIds /\ Honest(routed[n])
  BY DEF BookInv, LedgersAgree
<1>2. ASSUME ~routed[n].existing PROVE routed[n] \in results
  BY <1>1, <1>2 DEF BookInv, LedgersAgree
<1>3. ASSUME routed[n] \in results PROVE ~routed[n].existing
  <2>1. PICK m \in routedIds : ~routed[m].existing /\ routed[m] = routed[n]
    BY <1>3 DEF BookInv, LedgersAgree
  <2> QED
    BY <2>1
<1> QED
  BY <1>1, <1>2, <1>3 DEF Trusted, Payload

LEMMA RipKeepsBooks ==
  ASSUME BoardTypeOK, BookInv, NEW n \in Nets, IsRouted(n), RipUp(n)
  PROVE  BookInv' /\ \A m \in Nets : IsRouted(m)' <=> IsRouted(m) /\ m # n
<1>1. /\ \A m \in Nets : routed'[m] = IF m = n THEN None ELSE routed[m]
      /\ routedIds' = routedIds \ {n} /\ remaining' = remaining \cup {n}
      /\ results' = results \ {routed[n]} /\ refused' = refused
      /\ \A m \in Nets : m # n => copper'[m] = copper[m]
  BY DEF RipUp, Restamp, BoardTypeOK
<1>2. \A m \in Nets : ripSaved'[m] = IF m = n THEN Payload(n) ELSE ripSaved[m]
  BY DEF RipUp, BoardTypeOK
<1>3. \A m \in Nets : IsRouted(m)' <=> IsRouted(m) /\ m # n
  BY <1>1 DEF IsRouted
<1>4. routedIds' = {m \in Nets : IsRouted(m)'} /\ remaining' = Nets \ routedIds'
  BY <1>1, <1>3 DEF BookInv, LedgersAgree, BoardTypeOK
<1>5. results' = {routed'[k] : k \in {m \in routedIds' : ~routed'[m].existing}}
  <2>1. results = {routed[k] : k \in {m \in routedIds : ~routed[m].existing}}
    BY DEF BookInv, LedgersAgree
  <2>2. \A m \in routedIds : m \in Nets /\ IsRouted(m) /\ routed[m].net = m
    BY DEF BookInv, LedgersAgree, BoardTypeOK
  <2>3. \A m \in routedIds' : m \in routedIds /\ m # n /\ routed'[m] = routed[m]
    BY <1>1, <2>2
  <2>4. \A m \in routedIds' : routed[m] # routed[n]
    BY <2>2, <2>3 DEF BoardTypeOK
  <2>5. {m \in routedIds' : ~routed'[m].existing}
          = {m \in routedIds : ~routed[m].existing} \ {n}
    BY <1>1, <2>3
  <2>6. \A res : res \in results' <=>
                 \E m \in routedIds : ~routed[m].existing /\ m # n /\ res = routed[m]
    BY <1>1, <2>1, <2>3, <2>4
  <2> QED
    BY <2>3, <2>5, <2>6
<1>6. \A m \in routedIds' : routed'[m].cells \subseteq copper'[m]
  BY <1>1, <1>4 DEF BookInv, LedgersAgree
<1>7. Trusted(Payload(n))
  BY PayloadIsTrusted
<1> QED
  BY <1>1, <1>2, <1>3, <1>4, <1>5, <1>6, <1>7 DEF BookInv, LedgersAgree

(* A restore of a net that is off the board, or its refusal.               *)
LEMMA RestoreKeepsBooks ==
  ASSUME BoardTypeOK, BookInv, NEW n \in Nets, ~IsRouted(n),
         NEW payload \in Payloads, payload.saved.net = n, Trusted(payload),
         RestoreNet(n, payload)
  PROVE  BookInv' /\ \A m \in Nets : m # n => (IsRouted(m)' <=> IsRouted(m))
<1> DEFINE res == payload.saved
<1>1. res \in Results /\ res.cells \in SUBSET Cells
  BY DEF Payloads, Results
<1>2. \A m \in Nets : ripSaved'[m] = IF m = n THEN None ELSE ripSaved[m]
  BY DEF RestoreNet, BoardTypeOK
<1>3. CASE Collides(n, res.cells)
  <2>1. /\ \A m \in Nets : refused'[m] = IF m = n THEN res ELSE refused[m]
        /\ UNCHANGED <<copper, routed, routedIds, results, remaining>>
    BY <1>3 DEF RestoreNet, BoardTypeOK
  <2> QED
    BY <1>2, <2>1 DEF BookInv, LedgersAgree, IsRouted
<1>4. CASE ~Collides(n, res.cells)
  <2>1. /\ copper' = [copper EXCEPT ![n] = copper[n] \cup res.cells]
        /\ Books(n, res) /\ refused' = refused
        /\ results' = IF payload.wasIn THEN results \cup {res} ELSE results
    BY <1>4 DEF RestoreNet, Restamp
  <2>2. res.cells \subseteq copper'[n] /\ \A m \in Nets : m # n => copper'[m] = copper[m]
    BY <1>1, <2>1 DEF BoardTypeOK
  <2>3. /\ Honest(res)
        /\ results' = IF res.existing THEN results ELSE results \cup {res}
    BY <2>1 DEF Trusted
  <2>4. /\ LedgersAgree'
        /\ \A m \in Nets : IsRouted(m)' => Honest(routed'[m])
        /\ \A m \in Nets : IsRouted(m)' <=> IsRouted(m) \/ m = n
    BY <1>1, <2>1, <2>2, <2>3, BookingKeepsBooks
  <2> QED
    BY <1>2, <2>1, <2>4 DEF BookInv
<1> QED
  BY <1>3, <1>4

LEMMA StubKeepsBooks ==
  ASSUME BoardTypeOK, BookInv, NEW n \in Nets, NEW payload, RestoreStub(n, payload)
  PROVE  BookInv' /\ UNCHANGED routed
<1>1. /\ UNCHANGED <<routed, routedIds, results, remaining, ripSaved, refused>>
      /\ \A m \in Nets : copper[m] \subseteq copper'[m]
  BY DEF RestoreStub, Restamp, BoardTypeOK
<1>2. routedIds \subseteq Nets
  BY DEF BoardTypeOK
<1> QED
  BY <1>1, <1>2 DEF BookInv, LedgersAgree, IsRouted

LEMMA StutterKeepsBooks ==
  ASSUME BookInv, UNCHANGED boardVars
  PROVE  BookInv' /\ UNCHANGED routed
  BY DEF BookInv, LedgersAgree, IsRouted, boardVars

----------------------------------------------------------------------------
(* Leaving the ladder leaves nothing in hand.                              *)
LEMMA IdleHand == Idle.net = None /\ Idle.ripped = <<>> /\ InHand(Idle) /\ InHand(Idle)'
<1>1. Idle.net = None /\ Idle.ripped = <<>>
  BY DEF Idle
<1> QED
  BY <1>1 DEF InHand

(* The ladder opens for a net that is not routed.                          *)
LEMMA OpenedHand ==
  ASSUME NEW n \in Nets, ~IsRouted(n), UNCHANGED routed,
         NEW f, f.net = n, f.ripped = <<>>
  PROVE  InHand(f)'
  BY DEF InHand, IsRouted

(* Nothing is ripped or restored.                                          *)
LEMMA SameHand ==
  ASSUME InHand(frame), UNCHANGED routed, frame'.net = frame.net,
         frame'.ripped = frame.ripped
  PROVE  InHand(frame)'
  BY DEF InHand, IsRouted

LEMMA SameAhead ==
  ASSUME AheadIsOpen, UNCHANGED <<routed, phase, pos>>, frame'.net = frame.net,
         frame'.ripped = frame.ripped
  PROVE  AheadIsOpen'
  BY DEF AheadIsOpen, Ahead, IsRouted, Net

(* The nets ahead stay open when only a net that is none of them comes     *)
(* back.                                                                   *)
LEMMA AheadAfter ==
  ASSUME AheadIsOpen, UNCHANGED <<phase, pos>>, NEW k,
         \A m \in Nets : m # k => (IsRouted(m)' => IsRouted(m)),
         phase = "se" => k \notin Ahead,
         phase = "se" => \A n \in Ahead :
            n # frame'.net /\ \A i \in DOMAIN frame'.ripped : frame'.ripped[i].net # n
  PROVE  AheadIsOpen'
<1>1. Ahead' = Ahead
  BY DEF Ahead
<1>2. Ahead \subseteq Nets
  BY OrderAssumption DEF Ahead
<1> QED
  BY <1>1, <1>2 DEF AheadIsOpen, Net

(* One of the victims comes back, or is refused and leaves the list.       *)
LEMMA PutBackOne ==
  ASSUME LoopInv, NEW k \in DOMAIN frame.ripped,
         RestoreNet(frame.ripped[k].net, frame.ripped[k].payload),
         UNCHANGED <<phase, pos>>, frame'.net = frame.net,
         DOMAIN frame'.ripped \subseteq DOMAIN frame.ripped \ {k},
         \A i \in DOMAIN frame'.ripped : frame'.ripped[i] = frame.ripped[i]
  PROVE  BookInv' /\ InHand(frame)' /\ AheadIsOpen'
<1> SUFFICES ASSUME NEW f, f = frame' PROVE BookInv' /\ InHand(f)' /\ AheadIsOpen'
  BY DEF InHand, IsRouted, Trusted, Honest
<1> DEFINE v == frame.ripped[k]
<1>1. frame.ripped \in Seq(Victims)
  BY DEF LoopInv, Inv, LadderTypeOK, Frames
<1>2. v.net \in Nets /\ v.payload \in Payloads /\ v.payload.saved.net = v.net
  BY <1>1 DEF Victims
<1>3. Trusted(v.payload) /\ ~IsRouted(v.net)
  BY DEF LoopInv, InHand
<1>4. BookInv' /\ \A m \in Nets : m # v.net => (IsRouted(m)' <=> IsRouted(m))
  BY <1>2, <1>3, RestoreKeepsBooks DEF LoopInv, Inv, BoardInv
<1>5. \A i \in DOMAIN frame.ripped : frame.ripped[i].net \in Nets
  BY <1>1 DEF Victims
<1>6. \A i \in DOMAIN f.ripped : frame.ripped[i].net # v.net
  BY DEF LoopInv, InHand
<1>n. frame.net # None => frame.net \in Nets
  BY DEF LoopInv, Inv, LadderTypeOK, Frames
<1>7. InHand(f)'
  <2>1. \A i \in DOMAIN f.ripped :
          Trusted(f.ripped[i].payload) /\ ~IsRouted(f.ripped[i].net)'
    BY <1>4, <1>5, <1>6 DEF LoopInv, InHand
  <2>2. \A i, j \in DOMAIN f.ripped :
          i # j => f.ripped[i].net # f.ripped[j].net
    BY DEF LoopInv, InHand
  <2>3. f.net # None =>
          ~IsRouted(f.net)' /\ \A i \in DOMAIN f.ripped : f.ripped[i].net # f.net
    BY <1>4, <1>n DEF LoopInv, InHand
  <2> QED
    BY <2>1, <2>2, <2>3 DEF InHand, IsRouted, Trusted, Honest
<1>8. AheadIsOpen'
  <2>1. phase = "se" => \A n \in Ahead : n # v.net /\ n # frame.net
                          /\ \A i \in DOMAIN frame.ripped : frame.ripped[i].net # n
    BY DEF LoopInv, AheadIsOpen, Net
  <2>2. phase = "se" => v.net \notin Ahead
    BY <2>1
  <2>3. phase = "se" => \A n \in Ahead :
            n # f.net /\ \A i \in DOMAIN f.ripped : f.ripped[i].net # n
    BY <2>1
  <2> HIDE DEF v
  <2> QED
    BY <1>4, <2>2, <2>3, AheadAfter DEF LoopInv
<1> QED
  BY <1>4, <1>7, <1>8

(* A routed net that is not the ladder's own goes into its hand.           *)
LEMMA TakeInHand ==
  ASSUME LoopInv, NEW m \in Nets, IsRouted(m), RipUp(m), Net \in Nets,
         UNCHANGED <<phase, pos>>, frame'.net = frame.net,
         frame'.ripped = Append(frame.ripped, Victim(m))
  PROVE  BookInv' /\ InHand(frame)' /\ AheadIsOpen'
<1> SUFFICES ASSUME NEW f, f = frame' PROVE BookInv' /\ InHand(f)' /\ AheadIsOpen'
  BY DEF InHand, IsRouted, Trusted, Honest
<1>1. frame.ripped \in Seq(Victims)
  BY DEF LoopInv, Inv, LadderTypeOK, Frames
<1>2. BookInv' /\ \A k \in Nets : IsRouted(k)' <=> IsRouted(k) /\ k # m
  BY RipKeepsBooks DEF LoopInv, Inv, BoardInv
<1>3. Trusted(Payload(m))
  BY PayloadIsTrusted DEF LoopInv, Inv, BoardInv
<1>k. PICK k : k = Len(frame.ripped)
  OBVIOUS
<1>4. /\ k \in Nat /\ DOMAIN frame.ripped = 1..k /\ DOMAIN f.ripped = 1..(k + 1)
      /\ \A i \in 1..k : f.ripped[i] = frame.ripped[i]
      /\ f.ripped[k + 1] = Victim(m)
  BY <1>1, <1>k
<1>5. /\ \A i \in 1..k : frame.ripped[i].net \in Nets /\ ~IsRouted(frame.ripped[i].net)
                         /\ frame.ripped[i].net # m /\ Trusted(frame.ripped[i].payload)
                         /\ frame.ripped[i].net # frame.net
      /\ \A i, j \in 1..k : i # j => frame.ripped[i].net # frame.ripped[j].net
  <2>1. Net # None
    BY NetsAssumption
  <2>2. \A i \in 1..k : frame.ripped[i].net \in Nets
    BY <1>1, <1>4 DEF Victims
  <2>3. \A i \in 1..k : /\ Trusted(frame.ripped[i].payload)
                         /\ ~IsRouted(frame.ripped[i].net)
                         /\ frame.ripped[i].net # frame.net
    BY <1>4, <2>1 DEF LoopInv, InHand, Net
  <2>4. \A i, j \in 1..k : i # j => frame.ripped[i].net # frame.ripped[j].net
    BY <1>4 DEF LoopInv, InHand
  <2> QED
    BY <2>2, <2>3, <2>4
<1>6. ~IsRouted(frame.net) /\ m # frame.net
  BY NetsAssumption DEF LoopInv, InHand, Net
<1>7. Victim(m).net = m /\ Victim(m).payload = Payload(m)
  BY DEF Victim
<1>v. f.ripped[k + 1].net = m /\ f.ripped[k + 1].payload = Payload(m)
  BY <1>4, <1>7
<1>8. \A i \in DOMAIN f.ripped : i \in 1..k \/ i = k + 1
  BY <1>4
<1>9. \A i \in DOMAIN f.ripped :
        Trusted(f.ripped[i].payload) /\ ~IsRouted(f.ripped[i].net)' /\ f.ripped[i].net # frame.net
  <2>1. ~IsRouted(m)' /\ \A n \in Nets : ~IsRouted(n) => ~IsRouted(n)'
    BY <1>2
  <2>2. ASSUME NEW i \in 1..k
        PROVE  Trusted(f.ripped[i].payload) /\ ~IsRouted(f.ripped[i].net)' /\ f.ripped[i].net # frame.net
    BY <1>4, <1>5, <2>1
  <2>3. Trusted(f.ripped[k + 1].payload) /\ ~IsRouted(f.ripped[k + 1].net)'
        /\ f.ripped[k + 1].net # frame.net
    BY <1>3, <1>6, <1>v, <2>1
  <2> QED
    BY <1>8, <2>2, <2>3
<1>10. \A i, j \in DOMAIN f.ripped : i # j => f.ripped[i].net # f.ripped[j].net
  <2>1. \A i \in 1..k : f.ripped[i].net = frame.ripped[i].net /\ f.ripped[i].net # m
    BY <1>4, <1>5
  <2> QED
    BY <1>5, <1>8, <1>v, <2>1
<1>11. InHand(f)'
  BY <1>2, <1>6, <1>9, <1>10 DEF InHand, IsRouted, Trusted, Honest, Net
<1>12. AheadIsOpen'
  <2>1. phase = "se" => m \notin Ahead
    BY DEF LoopInv, AheadIsOpen
  <2>2. phase = "se" => \A n \in Ahead : n # frame.net /\ n # m
                        /\ \A i \in 1..k : frame.ripped[i].net # n
    BY <1>4, <2>1 DEF LoopInv, AheadIsOpen, Net
  <2>3. phase = "se" => \A n \in Ahead : n # f.net /\ \A i \in DOMAIN f.ripped : f.ripped[i].net # n
    BY <1>4, <1>7, <1>8, <2>2
  <2> QED
    BY <1>2, <2>1, <2>3, AheadAfter DEF LoopInv
<1> QED
  BY <1>2, <1>11, <1>12

(* A landing of the net at work closes its ladder.                         *)
LEMMA LandingCloses ==
  ASSUME LoopInv, Net \in Nets, UNCHANGED <<phase, pos>>, frame' = Idle,
         \A m \in Nets : IsRouted(m)' <=> IsRouted(m) \/ m = Net
  PROVE  InHand(frame)' /\ AheadIsOpen'
<1>1. phase = "se" => Net \notin Ahead
  BY DEF LoopInv, AheadIsOpen
<1>2. Ahead \subseteq Nets
  BY OrderAssumption DEF Ahead
<1>3. None \notin Nets
  BY NetsAssumption
<1>4. AheadIsOpen'
  <2>1. \A n \in Ahead :
          n # frame'.net /\ \A i \in DOMAIN frame'.ripped : frame'.ripped[i].net # n
    BY <1>2, <1>3, IdleHand
  <2> QED
    BY <1>1, <2>1, AheadAfter DEF LoopInv
<1>5. InHand(frame)'
  BY IdleHand DEF InHand, IsRouted
<1> QED
  BY <1>4, <1>5

----------------------------------------------------------------------------
(* What a step of the loops must keep beside Inv.                          *)
Hand == (pc = "loop" => frame = Idle) /\ InHand(frame) /\ AheadIsOpen

LEMMA RestoreLastKeepsBooks ==
  ASSUME LoopInv, NEW label \in {"unwind", "swapUnwind"}, RestoreLast(label), pos' = pos
  PROVE  BookInv' /\ Hand'
<1>1. frame \in Frames /\ frame.ripped \in Seq(Victims)
  BY DEF LoopInv, Inv, LadderTypeOK, Frames
<1>2. /\ frame.ripped # <<>> /\ pc' = label /\ phase' = phase
      /\ RestoreNet(Last(frame.ripped).net, Last(frame.ripped).payload)
  BY DEF RestoreLast
<1>3. frame'.net = frame.net /\ frame'.ripped = Front(frame.ripped)
  BY <1>1 DEF RestoreLast, Frames
<1>k. PICK k : k = Len(frame.ripped)
  OBVIOUS
<1>4. k \in Nat \ {0} /\ DOMAIN frame.ripped = 1..k /\ k \in DOMAIN frame.ripped
      /\ Last(frame.ripped) = frame.ripped[k]
  BY <1>1, <1>2, <1>k DEF Last
<1>5. DOMAIN Front(frame.ripped) = 1..(k - 1)
      /\ \A i \in 1..(k - 1) : Front(frame.ripped)[i] = frame.ripped[i]
  BY <1>1, <1>k, <1>4 DEF Front
<1>6. /\ DOMAIN frame'.ripped \subseteq DOMAIN frame.ripped \ {k}
      /\ \A i \in DOMAIN frame'.ripped : frame'.ripped[i] = frame.ripped[i]
  BY <1>3, <1>4, <1>5
<1> QED
  BY <1>2, <1>3, <1>4, <1>6, PutBackOne DEF Hand

LEMMA LadderKeepsBooks ==
  ASSUME LoopInv, LadderStep, UNCHANGED loopVars
  PROVE  BookInv' /\ Hand'
<1>a. frame \in Frames /\ frame.ripped \in Seq(Victims) /\ BoardTypeOK /\ pos' = pos
      /\ (pc # "loop" => Net \in Nets)
  BY DEF LoopInv, Inv, BoardInv, LadderTypeOK, Frames, loopVars
<1>1. ASSUME NEW m \in Nets, SlotZeroGuard(m) PROVE BookInv' /\ Hand'
  <2>1. /\ Len(frame.ripped) = 1 /\ pc' = pc /\ pc = "ladder" /\ phase' = phase
        /\ RestoreNet(frame.ripped[1].net, frame.ripped[1].payload)
    BY <1>1 DEF SlotZeroGuard, GuardApplies
  <2>2. frame'.net = frame.net /\ frame'.ripped = <<>>
    BY <1>1, <1>a DEF SlotZeroGuard, Frames
  <2>3. 1 \in DOMAIN frame.ripped
    BY <1>a, <2>1
  <2>4. DOMAIN frame'.ripped = {}
    BY <2>2
  <2> QED
    BY <1>a, <2>1, <2>2, <2>3, <2>4, PutBackOne DEF Hand
<1>2. ASSUME NextLevel PROVE BookInv' /\ Hand'
  <2>1. /\ UNCHANGED boardVars /\ phase' = phase /\ pc' # "loop"
        /\ frame'.net = frame.net /\ frame'.ripped = frame.ripped
    BY <1>2, <1>a DEF NextLevel, Frames, Goto
  <2> QED
    BY <1>a, <2>1, StutterKeepsBooks, SameHand, SameAhead DEF LoopInv, Hand
<1>3. ASSUME LadderExhausted \/ Unwound PROVE BookInv' /\ Hand'
  <2>1. /\ UNCHANGED boardVars /\ phase' = phase /\ pc' # "loop" /\ frame' = frame
    BY <1>3 DEF LadderExhausted, Unwound, Goto
  <2> QED
    BY <1>a, <2>1, StutterKeepsBooks, SameHand, SameAhead DEF LoopInv, Hand
<1>4. ASSUME RipOne PROVE BookInv' /\ Hand'
  <2>1. pc = "rip" /\ pc' # "loop" /\ phase' = phase
    BY <1>4 DEF RipOne, Goto
  <2>2. frame.blockers[Len(frame.ripped) + 1] \in Nets
    BY <1>a, <2>1 DEF LoopInv, Inv, LadderTypeOK, Frames
  <2>3. PICK m \in Nets : /\ IsRouted(m) /\ RipUp(m)
                          /\ frame' = [frame EXCEPT !.ripped = Append(@, Victim(m))]
    BY <1>4, <2>2 DEF RipOne
  <2>4. frame'.net = frame.net /\ frame'.ripped = Append(frame.ripped, Victim(m))
    BY <1>a, <2>3 DEF Frames
  <2> QED
    BY <1>a, <2>1, <2>3, <2>4, TakeInHand DEF Hand
<1>5. ASSUME NEW r \in AllRoutes, RetrySucceeds(r) PROVE BookInv' /\ Hand'
  <2>1. pc = "retry" /\ Net \in Nets /\ frame' = Idle /\ phase' = phase
    BY <1>5, <1>a DEF RetrySucceeds, CloseFrame
  <2>2. PICK kept \in Keeps(Net) : RecordSuccess(Net, r, kept)
    BY <1>5 DEF RetrySucceeds
  <2>3. kept \in SUBSET copper[Net]
    BY DEF Keeps
  <2>4. r \in SUBSET Cells
    BY <1>5, <2>1, CopperAssumption DEF RetrySucceeds, RoutesOn
  <2>5. ~IsRouted(Net)
    BY <2>1, NetsAssumption DEF LoopInv, InHand, Net
  <2>6. BookInv' /\ \A m \in Nets : IsRouted(m)' <=> IsRouted(m) \/ m = Net
    <3> DEFINE n == Net
    <3>1. n \in Nets /\ ~IsRouted(n) /\ kept \in SUBSET copper[n] /\ RecordSuccess(n, r, kept)
      BY <2>1, <2>2, <2>3, <2>5
    <3> HIDE DEF n
    <3>2. BookInv' /\ \A m \in Nets : IsRouted(m)' <=> IsRouted(m) \/ m = n
      BY <1>a, <2>4, <3>1, SuccessKeepsBooks DEF LoopInv
    <3> QED
      BY <3>2 DEF n
  <2> QED
    BY <1>a, <2>1, <2>6, LandingCloses DEF Hand
<1>6. ASSUME NEW cells \in BOOLEAN, RetryFails(cells) PROVE BookInv' /\ Hand'
  <2>1. /\ UNCHANGED boardVars /\ phase' = phase /\ pc' # "loop"
        /\ frame'.net = frame.net /\ frame'.ripped = frame.ripped
    BY <1>6, <1>a DEF RetryFails, Frames, Goto
  <2> QED
    BY <1>a, <2>1, StutterKeepsBooks, SameHand, SameAhead DEF LoopInv, Hand
<1>7. ASSUME UnwindOne PROVE BookInv' /\ Hand'
  BY <1>7, <1>a, RestoreLastKeepsBooks DEF UnwindOne
<1> QED
  BY <1>1, <1>2, <1>3, <1>4, <1>5, <1>6, <1>7 DEF LadderStep

(* Taking the next net of the first loop: it is open, and none of those    *)
(* that stay ahead.                                                        *)
LEMMA TakingTheNext ==
  ASSUME LoopInv, SETurn
  PROVE  /\ Order[pos] \in Nets /\ ~IsRouted(Order[pos]) /\ phase = "se"
         /\ Ahead' \subseteq Ahead \ {Order[pos]} /\ Ahead \subseteq Nets
         /\ frame = Idle
<1>1. pos \in DOMAIN Order /\ pos' = pos + 1 /\ phase = "se" /\ pc = "loop"
  BY DEF SETurn, AtLoopHead
<1>2. Order[pos] \in Ahead
  BY <1>1, OrderAssumption DEF Ahead
<1>3. Ahead' \subseteq Ahead \ {Order[pos]}
  <2> SUFFICES ASSUME NEW k \in DOMAIN Order, k >= pos + 1
               PROVE  Order[k] \in Ahead /\ Order[k] # Order[pos]
    BY <1>1 DEF Ahead
  <2>1. k \in Nat /\ pos \in Nat /\ k >= pos /\ k # pos
    BY <1>1, OrderAssumption
  <2> QED
    BY <1>1, <2>1, OrderAssumption DEF Ahead, IsInjective
<1>4. Ahead \subseteq Nets
  BY OrderAssumption DEF Ahead
<1> QED
  BY <1>1, <1>2, <1>3, <1>4 DEF LoopInv, AheadIsOpen

LEMMA SEKeepsBooks ==
  ASSUME LoopInv, SEStep
  PROVE  BookInv' /\ Hand'
<1>a. frame \in Frames /\ frame.ripped \in Seq(Victims) /\ BoardTypeOK
      /\ (pc # "loop" => Net \in Nets)
  BY DEF LoopInv, Inv, BoardInv, LadderTypeOK, Frames
<1>1. ASSUME NEW r \in AllRoutes, SERoutes(r) PROVE BookInv' /\ Hand'
  <2>t. SETurn /\ UNCHANGED <<pc, phase, frame>>
    BY <1>1 DEF SERoutes, ladderVars
  <2>n. PICK n : n = Order[pos]
    OBVIOUS
  <2>1. /\ n \in Nets /\ ~IsRouted(n) /\ Ahead' \subseteq Ahead \ {n} /\ Ahead \subseteq Nets
        /\ frame = Idle /\ phase = "se"
    BY <2>t, <2>n, TakingTheNext
  <2>2. PICK kept \in Keeps(n) : RecordSuccess(n, r, kept)
    BY <1>1, <2>n DEF SERoutes
  <2>3. kept \in SUBSET copper[n] /\ r \in SUBSET Cells
    BY <1>1, <2>1, <2>n, CopperAssumption DEF Keeps, SERoutes, RoutesOn
  <2>4. BookInv' /\ \A m \in Nets : IsRouted(m)' <=> IsRouted(m) \/ m = n
    BY <1>a, <2>1, <2>2, <2>3, SuccessKeepsBooks DEF LoopInv
  <2>5. InHand(frame)' /\ frame' = Idle
    BY <2>1, <2>t, IdleHand DEF InHand, IsRouted
  <2>6. AheadIsOpen'
    <3>1. \A m \in Ahead' : m \in Nets /\ m # None /\ ~IsRouted(m)'
      BY <2>1, <2>4, NetsAssumption DEF LoopInv, AheadIsOpen
    <3> QED
      BY <2>5, <3>1, IdleHand DEF AheadIsOpen, Net
  <2> QED
    BY <2>4, <2>5, <2>6 DEF Hand
<1>2. ASSUME SEFails \/ SEOpensLadder PROVE BookInv' /\ Hand'
  <2>t. /\ SETurn /\ UNCHANGED boardVars /\ phase' = phase /\ pc' # "loop"
        /\ frame'.net = Order[pos] /\ frame'.ripped = <<>>
    BY <1>2, IdleFrame, OpenedFrame DEF SEOpensLadder, SEFails, OpenLadder, SkipLadder, Goto, Idle
  <2>n. PICK n : n = Order[pos]
    OBVIOUS
  <2>1. /\ n \in Nets /\ ~IsRouted(n) /\ Ahead' \subseteq Ahead \ {n} /\ phase = "se"
    BY <2>t, <2>n, TakingTheNext
  <2>2. BookInv' /\ routed' = routed
    BY <2>t, StutterKeepsBooks DEF LoopInv
  <2>3. InHand(frame)'
    <3>f. PICK f : f = frame'
      OBVIOUS
    <3>1. InHand(f)'
      BY <2>t, <2>n, <2>1, <2>2, <3>f, OpenedHand
    <3> QED
      BY <3>1, <3>f DEF InHand, IsRouted, Trusted, Honest
  <2>4. AheadIsOpen'
    BY <2>t, <2>n, <2>1, <2>2 DEF LoopInv, AheadIsOpen, IsRouted, Net
  <2> QED
    BY <2>t, <2>2, <2>3, <2>4 DEF Hand
<1>3. ASSUME NEW dest \in UNION {StubSites[n] : n \in Nets}, BeginSwap(dest)
      PROVE  BookInv' /\ Hand'
  <2>1. /\ UNCHANGED boardVars /\ phase' = phase /\ pc' # "loop" /\ pos' = pos
        /\ frame'.net = frame.net /\ frame'.ripped = frame.ripped
    BY <1>3, <1>a DEF BeginSwap, Frames, Goto, loopVars
  <2> QED
    BY <1>a, <2>1, StutterKeepsBooks, SameHand, SameAhead DEF LoopInv, Hand
<1>4. ASSUME NEW m \in Nets, SwapRips(m) PROVE BookInv' /\ Hand'
  <2>1. /\ pc = "swap" /\ pc' = pc /\ phase' = phase /\ pos' = pos
        /\ IsRouted(m) /\ RipUp(m)
        /\ frame'.net = frame.net /\ frame'.ripped = Append(frame.ripped, Victim(m))
    BY <1>4, <1>a DEF SwapRips, Frames, loopVars
  <2> QED
    BY <1>a, <2>1, TakeInHand DEF Hand
<1>5. ASSUME NEW r \in AllRoutes, SwapSucceeds(r) PROVE BookInv' /\ Hand'
  <2>n. PICK n : n = Net
    OBVIOUS
  <2>1. /\ pc = "swap" /\ n \in Nets /\ frame' = Idle /\ phase' = phase /\ pos' = pos
        /\ r \in SUBSET Cells
        /\ copper' = [copper EXCEPT ![n] = frame.dest \cup r]
        /\ Books(n, Found(n, r)) /\ results' = results \cup {Found(n, r)}
        /\ UNCHANGED <<ripSaved, refused>>
    BY <1>5, <1>a, <2>n, CopperAssumption DEF SwapSucceeds, CloseFrame, loopVars
  <2>2. ~IsRouted(n)
    BY <2>1, <2>n, NetsAssumption DEF LoopInv, InHand, Net
  <2>3. Found(n, r) \in Results /\ Found(n, r).net = n /\ ~Found(n, r).existing
        /\ Found(n, r).cells = r
    BY <2>1 DEF Found, Results
  <2>4. Honest(Found(n, r))
    BY <2>3 DEF Honest
  <2>5. r \subseteq copper'[n] /\ \A m \in Nets : m # n => copper'[m] = copper[m]
    BY <1>a, <2>1 DEF BoardTypeOK
  <2>6. /\ LedgersAgree'
        /\ \A m \in Nets : IsRouted(m)' => Honest(routed'[m])
        /\ \A m \in Nets : IsRouted(m)' <=> IsRouted(m) \/ m = n
    BY <1>a, <2>1, <2>2, <2>3, <2>4, <2>5, BookingKeepsBooks DEF LoopInv
  <2>7. BookInv'
    BY <2>1, <2>6 DEF LoopInv, BookInv
  <2> QED
    BY <2>1, <2>n, <2>6, <2>7, LandingCloses DEF Hand
<1>6. ASSUME SwapFails \/ SwapUnwound PROVE BookInv' /\ Hand'
  <2>1. UNCHANGED boardVars /\ phase' = phase /\ pc' # "loop" /\ frame' = frame /\ pos' = pos
    BY <1>6 DEF SwapFails, SwapUnwound, Goto, loopVars
  <2> QED
    BY <1>a, <2>1, StutterKeepsBooks, SameHand, SameAhead DEF LoopInv, Hand
<1>7. ASSUME SwapRestores PROVE BookInv' /\ Hand'
  BY <1>7, RestoreLastKeepsBooks DEF SwapRestores, loopVars
<1>8. ASSUME SEGivesUp PROVE BookInv' /\ Hand'
  <2>1. UNCHANGED boardVars /\ phase' = phase /\ frame' = Idle /\ pos' = pos
    BY <1>8 DEF SEGivesUp, CloseFrame, loopVars
  <2>2. BookInv' /\ routed' = routed
    BY <2>1, StutterKeepsBooks DEF LoopInv
  <2>3. InHand(frame)'
    BY <2>1, IdleHand DEF InHand, IsRouted
  <2>4. Ahead \subseteq Nets /\ None \notin Nets
    BY OrderAssumption, NetsAssumption DEF Ahead
  <2>5. AheadIsOpen'
    BY <2>1, <2>2, <2>4, IdleHand DEF LoopInv, AheadIsOpen, Ahead, IsRouted, Net
  <2> QED
    BY <2>1, <2>2, <2>3, <2>5 DEF Hand
<1>9. ASSUME SEDone PROVE BookInv' /\ Hand'
  <2>1. UNCHANGED boardVars /\ phase' = "reroute" /\ frame' = frame /\ pc' = pc
    BY <1>9 DEF SEDone
  <2>2. BookInv' /\ routed' = routed
    BY <2>1, StutterKeepsBooks DEF LoopInv
  <2>3. InHand(frame)'
    BY <2>1, <2>2, SameHand DEF LoopInv
  <2>4. AheadIsOpen'
    BY <2>1 DEF AheadIsOpen
  <2> QED
    BY <2>1, <2>2, <2>3, <2>4 DEF LoopInv, Hand
<1> QED
  BY <1>1, <1>2, <1>3, <1>4, <1>5, <1>6, <1>7, <1>8, <1>9 DEF SEStep

LEMMA RerouteKeepsBooks ==
  ASSUME LoopInv, RerouteStep
  PROVE  BookInv' /\ Hand'
<1>a. frame \in Frames /\ BoardTypeOK /\ (pc # "loop" => Net \in Nets)
  BY DEF LoopInv, Inv, BoardInv, LadderTypeOK
<1>h. AheadIsOpen'
  <2>1. ASSUME NEW n \in Nets,
               \/ \E r \in AllRoutes : Reroutes(n, r)
               \/ RerouteOpensLadder(n)
               \/ RerouteFails(n)
        PROVE  phase' # "se"
    BY <2>1 DEF Reroutes, RerouteOpensLadder, RerouteFails, TakeItem, AtLoopHead
  <2>2. ASSUME TerminalFull \/ TerminalStub PROVE phase' # "se"
    BY <2>2 DEF TerminalFull, TerminalStub, TerminalStep, AtTerminalFailure
  <2>3. ASSUME RerouteDone PROVE phase' # "se"
    BY <2>3 DEF RerouteDone
  <2>4. phase' # "se"
    BY <2>1, <2>2, <2>3 DEF RerouteStep
  <2> QED
    BY <2>4 DEF AheadIsOpen
<1>1. ASSUME NEW n \in Nets, NEW r \in AllRoutes, Reroutes(n, r) PROVE BookInv' /\ Hand'
  <2>1. /\ pc = "loop" /\ pc' = pc /\ ~IsRouted(n) /\ UNCHANGED frame
        /\ RecordSuccess(n, r, copper[n]) /\ r \in SUBSET Cells
    BY <1>1, CopperAssumption DEF Reroutes, TakeItem, AtLoopHead, RoutesOn
  <2>2. BookInv'
    BY <1>a, <2>1, SuccessKeepsBooks DEF LoopInv
  <2>3. frame' = Idle /\ InHand(frame)'
    BY <2>1, IdleHand DEF LoopInv, InHand, IsRouted
  <2> QED
    BY <1>h, <2>2, <2>3 DEF Hand
<1>2. ASSUME NEW n \in Nets,
             RerouteFails(n) \/ RerouteOpensLadder(n)
      PROVE  BookInv' /\ Hand'
  <2>1. /\ ~IsRouted(n) /\ UNCHANGED boardVars /\ pc' # "loop"
        /\ frame'.net = n /\ frame'.ripped = <<>>
    BY <1>2, IdleFrame DEF RerouteOpensLadder, RerouteFails, TakeItem, OpenLadder, SkipLadder,
                           Goto, Idle
  <2>2. BookInv' /\ routed' = routed
    BY <2>1, StutterKeepsBooks DEF LoopInv
  <2>3. InHand(frame)'
    <3>f. PICK f : f = frame'
      OBVIOUS
    <3>1. InHand(f)'
      BY <2>1, <2>2, <3>f, OpenedHand
    <3> QED
      BY <3>1, <3>f DEF InHand, IsRouted, Trusted, Honest
  <2> QED
    BY <1>h, <2>1, <2>2, <2>3 DEF Hand
<1>3. ASSUME TerminalFull \/ TerminalStub PROVE BookInv' /\ Hand'
  <2>n. PICK n : n = Net
    OBVIOUS
  <2>1. /\ n \in Nets /\ ~IsRouted(n) /\ frame' = Idle
        /\ ripSaved[n] \in Payloads /\ ripSaved[n].saved.net = n /\ Trusted(ripSaved[n])
        /\ (RestoreNet(n, ripSaved[n]) \/ RestoreStub(n, ripSaved[n]))
    <3>1. pc = "failed" /\ frame' = Idle /\ ripSaved[Net] # None
          /\ (RestoreNet(Net, ripSaved[Net]) \/ RestoreStub(Net, ripSaved[Net]))
      BY <1>3 DEF TerminalFull, TerminalStub, AtTerminalFailure, TerminalStep, CloseFrame
    <3>2. Net \in Nets
      BY <1>a, <3>1
    <3> QED
      BY <1>a, <2>n, <3>1, <3>2, NetsAssumption DEF LoopInv, BookInv, InHand, Net, BoardTypeOK
  <2>2. BookInv'
    BY <1>a, <2>1, RestoreKeepsBooks, StubKeepsBooks DEF LoopInv
  <2>3. InHand(frame)'
    BY <2>1, IdleHand DEF InHand, IsRouted
  <2> QED
    BY <1>h, <2>1, <2>2, <2>3 DEF Hand
<1>4. ASSUME RerouteDone PROVE BookInv' /\ Hand'
  <2>1. UNCHANGED <<boardVars, frame, pc>>
    BY <1>4 DEF RerouteDone
  <2>2. BookInv' /\ routed' = routed
    BY <2>1, StutterKeepsBooks DEF LoopInv
  <2>3. InHand(frame)'
    BY <2>1, <2>2, SameHand DEF LoopInv
  <2> QED
    BY <1>h, <2>1, <2>2, <2>3 DEF LoopInv, Hand
<1> QED
  BY <1>1, <1>2, <1>3, <1>4 DEF RerouteStep

----------------------------------------------------------------------------
LEMMA LoopInit ==
  ASSUME Init
  PROVE  LoopInv
<1>1. Inv
  BY InitInv
<1>2. /\ routed = [n \in Nets |-> IF n \in Existing THEN FromFile(n) ELSE None]
      /\ routedIds = Existing /\ results = {} /\ remaining = Nets \ Existing
      /\ ripSaved = [n \in Nets |-> None] /\ refused = [n \in Nets |-> None]
      /\ copper = [n \in Nets |-> InitCopper(n)]
      /\ frame = Idle
  BY DEF Init, BoardInit, LadderInit
<1>3. \A n \in Existing : /\ FromFile(n) \in Results /\ FromFile(n).net = n
                          /\ FromFile(n).existing /\ FromFile(n).cells = FileRoute[n]
  BY NetsAssumption, CopperAssumption DEF FromFile, Results
<1>4. \A n \in Nets : IsRouted(n) <=> n \in Existing
  BY <1>2, <1>3, NoneIsNoResult DEF IsRouted
<1>5. LedgersAgree
  <2>1. {m \in routedIds : ~routed[m].existing} = {}
    BY <1>2, <1>3, NetsAssumption
  <2>2. \A n \in routedIds : routed[n].cells \subseteq copper[n]
    BY <1>2, <1>3, NetsAssumption DEF InitCopper
  <2>3. routedIds = {n \in Nets : IsRouted(n)}
    BY <1>2, <1>4, NetsAssumption
  <2> QED
    BY <1>2, <2>1, <2>2, <2>3 DEF LedgersAgree
<1>6. BookInv
  BY <1>2, <1>3, <1>4, <1>5 DEF BookInv, Honest
<1>7. AheadIsOpen
  <2>1. \A n \in Ahead : n \in Nets \ Existing
    BY OrderAssumption DEF Ahead, ToSet
  <2> QED
    BY <1>2, <1>4, <2>1, NetsAssumption, IdleHand DEF AheadIsOpen, Net
<1> QED
  BY <1>1, <1>2, <1>6, <1>7, IdleHand DEF LoopInv

LEMMA LoopNext ==
  ASSUME LoopInv, [Next]_vars
  PROVE  LoopInv'
<1>1. Inv'
  BY NextInv DEF LoopInv
<1>2. BookInv' /\ Hand'
  <2>1. CASE SEStep
    BY <2>1, SEKeepsBooks
  <2>2. CASE RerouteStep
    BY <2>2, RerouteKeepsBooks
  <2>3. CASE LadderStep /\ UNCHANGED loopVars
    BY <2>3, LadderKeepsBooks
  <2>4. CASE Cancel \/ Finished \/ UNCHANGED vars
    <3>1. UNCHANGED <<boardVars, pc, phase, frame, pos>>
      BY <2>4 DEF Cancel, Finished, vars, ladderVars, loopVars
    <3> QED
      BY <3>1, StutterKeepsBooks, SameHand, SameAhead DEF LoopInv, Hand
  <2> QED
    BY <2>1, <2>2, <2>3, <2>4 DEF Next
<1> QED
  BY <1>1, <1>2 DEF LoopInv, Hand

(* In every state of the two loops the dictionary of results, the routed   *)
(* and the remaining ids, the write-list and the board agree on which nets *)
(* are routed and with which copper.                                       *)
THEOREM LedgersAlwaysAgree == Spec => []LedgersAgree
<1>1. Init => LoopInv
  BY LoopInit
<1>2. LoopInv /\ [Next]_vars => LoopInv'
  BY LoopNext
<1>3. LoopInv => LedgersAgree
  BY DEF LoopInv, BookInv
<1> QED
  BY <1>1, <1>2, <1>3, PTL DEF Spec
----------------------------------------------------------------------------
(* Second, the ladder is reversible: what it holds can always be put back, *)
(* and putting it all back gives the board it was opened on.  The nets it  *)
(* holds are a prefix of its blocker list; their copper is in the          *)
(* registry, apart from all copper on the board, because nothing else is   *)
(* routed while a ladder is open.                                          *)
Held(f) == {f.ripped[i].net : i \in DOMAIN f.ripped}

Climbing == pc \in {"ladder", "rip", "retry", "unwind"}

(* The blocker list from rung to rung: the nets in hand are its head and   *)
(* the rest of it is on the board.                                         *)
Orderly(bs) ==
  /\ \A i, j \in DOMAIN bs : bs[i] = bs[j] => i = j
  /\ \A i \in DOMAIN bs : bs[i] \notin Excluded(Net)
  /\ \A i \in DOMAIN frame.ripped : i \in DOMAIN bs /\ frame.ripped[i].net = bs[i]
  /\ \A i \in DOMAIN bs : i \notin DOMAIN frame.ripped => IsRouted(bs[i])

OrderInv ==
  /\ ancestry \in [Nets -> SUBSET Nets]
  /\ \A i, j \in DOMAIN frame.blockers : frame.blockers[i] = frame.blockers[j] => i = j
  /\ Net # None => Held(frame) \cap Excluded(Net) = {}
  /\ Climbing => Orderly(frame.blockers)
  /\ pc = "retry" => Len(frame.ripped) = frame.level

(* The copper the nets of the set L have off the board.                    *)
Taken(L) == [n \in Nets |-> IF n \in L THEN ripSaved[n].saved.cells ELSE {}]
Noted(L) == {n \in L : ripSaved[n].wasIn}

Apart(L) ==
  /\ \A n \in Nets : Taken(L)[n] \cap copper[n] = {}
  /\ \A m, n \in Nets : m # n =>
       (copper[m] \cup Taken(L)[m]) \cap (copper[n] \cup Taken(L)[n]) = {}

(* The board e is this one with the nets of L put back.                    *)
Undoes(L, e) ==
  /\ e.copper = [n \in Nets |-> copper[n] \cup Taken(L)[n]]
  /\ e.work = [c \in Cells |-> IF \E n \in L : c \in Taken(L)[n] THEN work[c] + 1 ELSE work[c]]
  /\ e.routed = [n \in Nets |-> IF n \in L THEN ripSaved[n].saved ELSE routed[n]]
  /\ e.results = results \cup {ripSaved[n].saved : n \in Noted(L)}
  /\ e.remaining = remaining \ L

HandInv ==
  /\ \A i \in DOMAIN frame.ripped : ripSaved[frame.ripped[i].net] = frame.ripped[i].payload
  /\ Apart(Held(frame))
  /\ pc # "loop" => Undoes(Held(frame), entry)
  /\ pc = "failed" => frame.ripped = <<>>

(* Third, nothing happens to a victim between its rip and its turn.        *)
Waits(n) ==
  /\ ~IsRouted(n) /\ n \in queued
  /\ n \notin Held(frame) /\ n # Net
  /\ phase = "se" => n \notin Ahead

Pending(i) == i \in DOMAIN queue /\ i >= qi

TurnInv ==
  /\ queue \in Seq(Nets) /\ qi \in Nat \ {0}
  /\ \A i \in DOMAIN queue : Pending(i) => Waits(queue[i])
  /\ \A i, j \in DOMAIN queue : Pending(i) /\ Pending(j) /\ queue[i] = queue[j] => i = j
  /\ \A n \in Nets : ripSaved[n] # None /\ ~IsRouted(n) =>
       n \in Held(frame) \/ custody[n] = ripSaved[n]
  /\ NothingRefused

SafeInv == LoopInv /\ OrderInv /\ HandInv /\ TurnInv

LEMMA HeldIsInLadder == InLadder = Held(frame) /\ (InLadder = Held(frame))'
  BY DEF InLadder, RippedNets, ToSet, Held

----------------------------------------------------------------------------
(* Sequences.                                                              *)
LEMMA Appending ==
  ASSUME NEW S, NEW s \in Seq(S), NEW e \in S
  PROVE  /\ Append(s, e) \in Seq(S) /\ Len(Append(s, e)) = Len(s) + 1
         /\ DOMAIN Append(s, e) = DOMAIN s \cup {Len(s) + 1}
         /\ \A i \in DOMAIN s : Append(s, e)[i] = s[i]
         /\ Append(s, e)[Len(s) + 1] = e /\ Len(s) + 1 \notin DOMAIN s
  OBVIOUS

LEMMA Shortening ==
  ASSUME NEW S, NEW s \in Seq(S), s # <<>>, NEW k, k = Len(s)
  PROVE  /\ Front(s) \in Seq(S) /\ k \in Nat \ {0}
         /\ DOMAIN s = 1..k /\ DOMAIN Front(s) = 1..(k - 1)
         /\ \A i \in 1..(k - 1) : Front(s)[i] = s[i]
         /\ Last(s) = s[k] /\ s[k] \in S
<1>1. k \in Nat \ {0} /\ DOMAIN s = 1..k /\ \A i \in 1..k : s[i] \in S
  OBVIOUS
<1>2. /\ Front(s) \in Seq(S) /\ Len(Front(s)) = k - 1
      /\ \A i \in 1..(k - 1) : Front(s)[i] = s[i]
  BY <1>1 DEF Front
<1>3. DOMAIN Front(s) = 1..(k - 1)
  BY <1>1, <1>2
<1>4. Last(s) = s[k] /\ s[k] \in S
  BY <1>1 DEF Last
<1> QED
  BY <1>1, <1>2, <1>3, <1>4

LEMMA Joining ==
  ASSUME NEW S, NEW s \in Seq(S), NEW t \in Seq(S)
  PROVE  /\ s \o t \in Seq(S)
         /\ DOMAIN s \subseteq DOMAIN (s \o t)
         /\ \A i \in DOMAIN s : (s \o t)[i] = s[i]
         /\ \A i \in DOMAIN (s \o t) : i \notin DOMAIN s =>
              i - Len(s) \in DOMAIN t /\ (s \o t)[i] = t[i - Len(s)]
<1> DEFINE m == Len(s)  n == Len(t)  st == s \o t
<1>1. /\ m \in Nat /\ n \in Nat /\ DOMAIN s = 1..m /\ DOMAIN t = 1..n
      /\ st \in Seq(S) /\ DOMAIN st = 1..(m + n)
      /\ \A i \in 1..(m + n) : st[i] = IF i <= m THEN s[i] ELSE t[i - m]
  OBVIOUS
<1> HIDE DEF m, n, st
<1>2. \A i \in 1..(m + n) : i \notin 1..m => i - m \in 1..n /\ ~(i <= m)
  BY <1>1
<1>3. \A i \in 1..m : i \in 1..(m + n) /\ i <= m
  BY <1>1
<1> QED
  BY <1>1, <1>2, <1>3 DEF m, st

----------------------------------------------------------------------------
(* Only the rows of n change their counts, and their counts are exact when *)
(* the new copper is part of the old one, or the old part of the new.      *)
LEMMA CountsAfterRestamp ==
  ASSUME BoardInv, NEW n \in Nets, NEW cells \in SUBSET Cells, Restamp(n, cells)
  PROVE  /\ work \in [Cells -> Nat] /\ work' \in [Cells -> Nat]
         /\ \A c \in Cells :
              /\ c \in copper[n] \cap cells => work'[c] = work[c]
              /\ c \in copper[n] \ cells => work[c] = work'[c] + 1
              /\ c \in cells \ copper[n] => work'[c] = work[c] + 1
              /\ c \notin copper[n] \cup cells => work'[c] = work[c]
<1>1. work \in [Cells -> Nat] /\ cache = copper
  BY DEF BoardInv, BoardTypeOK, CacheMirrorsBoard
<1> DEFINE taken == RemoveRows(work, copper[n])
<1>2. taken \in [Cells -> Nat]
  BY <1>1, AddRemoveRows
<1>3. work' = AddRows(taken, cells)
  BY <1>1 DEF Restamp
<1>4. ASSUME NEW c \in copper[n] PROVE c \in Cells /\ work[c] > 0
  <2>1. c \in Cells /\ n \in Stampers(c) /\ work[c] >= Cardinality(Stampers(c))
    BY <1>1 DEF BoardInv, BoardTypeOK, Stampers, MapCovers
  <2>2. IsFiniteSet(Stampers(c)) /\ Cardinality(Stampers(c)) \in Nat
    BY NetsAssumption, FS_Subset, FS_CardinalityType DEF Stampers
  <2>3. Cardinality(Stampers(c)) # 0
    BY <2>1, <2>2, FS_EmptySet
  <2> QED
    BY <1>1, <2>1, <2>2, <2>3
<1>5. ASSUME NEW c \in Cells
      PROVE  /\ c \in copper[n] => work[c] = taken[c] + 1
             /\ c \notin copper[n] => taken[c] = work[c]
             /\ c \in cells => work'[c] = taken[c] + 1
             /\ c \notin cells => work'[c] = taken[c]
  <2>1. c \in copper[n] => work[c] > 0 /\ taken[c] = work[c] - 1
    BY <1>1, <1>4, AddRemoveRows
  <2>2. c \notin copper[n] => taken[c] = work[c]
    BY <1>1, AddRemoveRows
  <2>3. /\ c \in cells => work'[c] = taken[c] + 1
        /\ c \notin cells => work'[c] = taken[c]
    BY <1>2, <1>3, AddRemoveRows
  <2> HIDE DEF taken
  <2> QED
    BY <1>1, <1>2, <2>1, <2>2, <2>3
<1>6. work' \in [Cells -> Nat]
  BY <1>2, <1>3, AddRemoveRows
<1> HIDE DEF taken
<1> QED
  BY <1>1, <1>2, <1>5, <1>6

(* The results of a set of payloads that gets one more.                    *)
LEMMA SavedOfOneMore ==
  ASSUME NEW S, NEW m, NEW f, NEW g, \A n \in S : f[n].saved = g[n].saved
  PROVE  {f[n].saved : n \in S \cup {m}} = {g[n].saved : n \in S} \cup {f[m].saved}
<1>1. {f[n].saved : n \in S \cup {m}} = {f[n].saved : n \in S} \cup {f[m].saved}
  OBVIOUS
<1>2. {f[n].saved : n \in S} = {g[n].saved : n \in S}
  OBVIOUS
<1> QED
  BY <1>1, <1>2

(* A rip moves the copper of a result from the board into the hand.        *)
LEMMA RipCanBeUndone ==
  ASSUME LoopInv, NEW L \in SUBSET Nets, Apart(L), NEW m \in Nets \ L, IsRouted(m),
         RipUp(m), NEW e
  PROVE  /\ Apart(L \cup {m})'
         /\ Undoes(L, e) => Undoes(L \cup {m}, e)'
<1>a. BoardInv /\ BoardTypeOK /\ LedgersAgree
  BY DEF LoopInv, Inv, BoardInv, BookInv
<1> DEFINE cells == routed[m].cells
           M == L \cup {m}
<1>1. /\ m \in routedIds /\ cells \subseteq copper[m] /\ cells \in SUBSET Cells
      /\ copper[m] \in SUBSET Cells
  BY <1>a DEF LedgersAgree, BoardTypeOK
<1>2. /\ Restamp(m, copper[m] \ cells)
      /\ copper' = [copper EXCEPT ![m] = copper[m] \ cells]
      /\ routed' = [routed EXCEPT ![m] = None] /\ remaining' = remaining \cup {m}
      /\ results' = results \ {routed[m]}
      /\ ripSaved' = [ripSaved EXCEPT ![m] = Payload(m)]
  BY DEF RipUp, Restamp
<1>3. /\ copper'[m] = copper[m] \ cells /\ ripSaved'[m] = Payload(m)
      /\ \A n \in Nets : n # m => copper'[n] = copper[n] /\ ripSaved'[n] = ripSaved[n]
  BY <1>a, <1>2 DEF BoardTypeOK
<1>4. /\ Taken(M)'[m] = cells /\ Taken(L)[m] = {}
      /\ \A n \in Nets : n # m => Taken(M)'[n] = Taken(L)[n]
  BY <1>3 DEF Taken, Payload
<1>5. \A n \in Nets : copper'[n] \cup Taken(M)'[n] = copper[n] \cup Taken(L)[n]
  BY <1>1, <1>3, <1>4
<1>6. Apart(M)'
  <2>1. \A n \in Nets : Taken(M)'[n] \cap copper'[n] = {}
    <3>1. \A n \in Nets : Taken(L)[n] \cap copper[n] = {}
      BY DEF Apart
    <3> QED
      BY ONLY <1>3, <1>4, <3>1
  <2> QED
    BY <1>5, <2>1 DEF Apart
<1>7. ASSUME Undoes(L, e) PROVE Undoes(M, e)'
  <2>1. e.copper = [n \in Nets |-> copper'[n] \cup Taken(M)'[n]]
    BY <1>5, <1>7 DEF Undoes
  <2>2. e.routed = [n \in Nets |-> IF n \in M THEN ripSaved'[n].saved ELSE routed'[n]]
    <3>1. \A n \in Nets : (IF n \in L THEN ripSaved[n].saved ELSE routed[n])
                            = IF n \in M THEN ripSaved'[n].saved ELSE routed'[n]
      BY <1>a, <1>2, <1>3 DEF Payload, BoardTypeOK
    <3> QED
      BY <1>7, <3>1 DEF Undoes
  <2>3. e.remaining = remaining' \ M
    <3>1. m \notin remaining
      BY <1>a, <1>1 DEF LedgersAgree
    <3> QED
      BY <1>2, <1>7, <3>1 DEF Undoes
  <2>4. e.results = results' \cup {ripSaved'[n].saved : n \in Noted(M)'}
    <3>w. Payload(m).wasIn <=> routed[m] \in results
      BY DEF Payload
    <3>1. /\ \A n \in L : n \in Noted(M)' <=> n \in Noted(L)
          /\ m \in Noted(M)' <=> routed[m] \in results
          /\ Noted(M)' \subseteq L \cup {m} /\ Noted(L) \subseteq L
      BY <1>3, <3>w DEF Noted
    <3>2. \A n \in L : ripSaved'[n].saved = ripSaved[n].saved
      BY <1>3
    <3>3. e.results = results \cup {ripSaved[n].saved : n \in Noted(L)}
      BY <1>7 DEF Undoes
    <3>4. ripSaved'[m].saved = routed[m]
      BY <1>3 DEF Payload
    <3>5. CASE routed[m] \in results
      <4>1. Noted(M)' = Noted(L) \cup {m}
        BY <3>1, <3>5
      <4>2. {ripSaved'[n].saved : n \in Noted(M)'}
              = {ripSaved[n].saved : n \in Noted(L)} \cup {routed[m]}
        <5>1. \A n \in Noted(L) : ripSaved'[n].saved = ripSaved[n].saved
          BY <3>1, <3>2
        <5>2. {ripSaved'[n].saved : n \in Noted(L) \cup {m}}
                = {ripSaved[n].saved : n \in Noted(L)} \cup {ripSaved'[m].saved}
          BY <5>1, SavedOfOneMore
        <5> QED
          BY <3>4, <4>1, <5>2
      <4> QED
        BY <1>2, <3>3, <3>5, <4>2
    <3>6. CASE routed[m] \notin results
      <4>1. Noted(M)' = Noted(L)
        BY <3>1, <3>6
      <4>2. {ripSaved'[n].saved : n \in Noted(M)'} = {ripSaved[n].saved : n \in Noted(L)}
        BY <3>1, <3>2, <4>1
      <4> QED
        BY <1>2, <3>3, <3>6, <4>2
    <3> QED
      BY <3>5, <3>6
  <2>5. e.work = [c \in Cells |-> IF \E n \in M : c \in Taken(M)'[n] THEN work'[c] + 1 ELSE work'[c]]
    <3>1. ASSUME NEW c \in Cells
          PROVE  (IF \E n \in L : c \in Taken(L)[n] THEN work[c] + 1 ELSE work[c])
                   = IF \E n \in M : c \in Taken(M)'[n] THEN work'[c] + 1 ELSE work'[c]
      <4>1. (\E n \in M : c \in Taken(M)'[n]) <=> c \in cells \/ \E n \in L : c \in Taken(L)[n]
        BY <1>4
      <4>2. c \in cells => ~\E n \in L : c \in Taken(L)[n]
        BY <1>1 DEF Apart
      <4>3. copper[m] \ cells \in SUBSET Cells
        BY <1>1
      <4>4. /\ c \in cells => work[c] = work'[c] + 1
            /\ c \notin cells => work'[c] = work[c]
        <5>1. /\ c \in copper[m] \cap (copper[m] \ cells) => work'[c] = work[c]
              /\ c \in copper[m] \ (copper[m] \ cells) => work[c] = work'[c] + 1
              /\ c \notin copper[m] \cup (copper[m] \ cells) => work'[c] = work[c]
          BY <1>a, <1>2, <4>3, CountsAfterRestamp
        <5> QED
          BY <1>1, <5>1
      <4> QED
        BY <4>1, <4>2, <4>4
    <3> QED
      BY <1>7, <3>1 DEF Undoes
  <2> QED
    BY <2>1, <2>2, <2>3, <2>4, <2>5 DEF Undoes
<1> QED
  BY <1>6, <1>7

(* A restore out of the hand is never refused, and moves the copper back.  *)
LEMMA RestoreUndoes ==
  ASSUME LoopInv, NEW L \in SUBSET Nets, Apart(L), NEW m \in L, ~IsRouted(m),
         ripSaved[m] \in Payloads, ripSaved[m].saved.net = m, Trusted(ripSaved[m]),
         RestoreNet(m, ripSaved[m]), NEW e
  PROVE  /\ IsRouted(m)' /\ UNCHANGED refused
         /\ \A n \in Nets : n # m => /\ IsRouted(n)' <=> IsRouted(n)
                                     /\ ripSaved'[n] = ripSaved[n]
         /\ ripSaved'[m] = None
         /\ Apart(L \ {m})'
         /\ Undoes(L, e) => Undoes(L \ {m}, e)'
<1>a. BoardInv /\ BoardTypeOK /\ LedgersAgree
  BY DEF LoopInv, Inv, BoardInv, BookInv
<1> DEFINE res == ripSaved[m].saved
           M == L \ {m}
<1>1. /\ res \in Results /\ res.cells \in SUBSET Cells
      /\ Taken(L)[m] = res.cells /\ copper[m] \in SUBSET Cells
  BY <1>a DEF Payloads, Results, Taken, BoardTypeOK
<1>2. ~Collides(m, res.cells)
  BY <1>1 DEF Collides, OthersCopper, Apart
<1>3. /\ Restamp(m, copper[m] \cup res.cells)
      /\ copper' = [copper EXCEPT ![m] = copper[m] \cup res.cells]
      /\ routed' = [routed EXCEPT ![m] = res] /\ remaining' = remaining \ {m}
      /\ results' = IF ripSaved[m].wasIn THEN results \cup {res} ELSE results
      /\ ripSaved' = [ripSaved EXCEPT ![m] = None] /\ refused' = refused
  BY <1>2 DEF RestoreNet, Restamp, Books
<1>4. /\ copper'[m] = copper[m] \cup res.cells /\ ripSaved'[m] = None /\ routed'[m] = res
      /\ \A n \in Nets : n # m => /\ copper'[n] = copper[n] /\ ripSaved'[n] = ripSaved[n]
                                  /\ routed'[n] = routed[n]
  BY <1>a, <1>3 DEF BoardTypeOK
<1>5. IsRouted(m)' /\ \A n \in Nets : n # m => (IsRouted(n)' <=> IsRouted(n))
  BY <1>1, <1>4, NoneIsNoResult DEF IsRouted
<1>6. /\ Taken(M)'[m] = {}
      /\ \A n \in Nets : n # m => Taken(M)'[n] = Taken(L)[n]
  BY <1>4 DEF Taken
<1>7. \A n \in Nets : copper'[n] \cup Taken(M)'[n] = copper[n] \cup Taken(L)[n]
  BY <1>1, <1>4, <1>6
<1>8. Apart(M)'
  <2>1. \A n \in Nets : Taken(M)'[n] \cap copper'[n] = {}
    BY <1>4, <1>6 DEF Apart
  <2> QED
    BY <1>7, <2>1 DEF Apart
<1>9. ASSUME Undoes(L, e) PROVE Undoes(M, e)'
  <2>1. e.copper = [n \in Nets |-> copper'[n] \cup Taken(M)'[n]]
    BY <1>7, <1>9 DEF Undoes
  <2>2. e.routed = [n \in Nets |-> IF n \in M THEN ripSaved'[n].saved ELSE routed'[n]]
    <3>1. \A n \in Nets : (IF n \in L THEN ripSaved[n].saved ELSE routed[n])
                            = IF n \in M THEN ripSaved'[n].saved ELSE routed'[n]
      BY <1>4
    <3> QED
      BY <1>9, <3>1 DEF Undoes
  <2>3. e.remaining = remaining' \ M
    BY <1>3, <1>9 DEF Undoes
  <2>4. e.results = results' \cup {ripSaved'[n].saved : n \in Noted(M)'}
    <3>1. /\ \A n \in M : n \in Noted(M)' <=> n \in Noted(L)
          /\ m \in Noted(L) <=> ripSaved[m].wasIn
          /\ Noted(M)' \subseteq M /\ Noted(L) \subseteq L
      BY <1>4 DEF Noted
    <3>2. \A n \in M : ripSaved'[n].saved = ripSaved[n].saved
      BY <1>4
    <3>3. e.results = results \cup {ripSaved[n].saved : n \in Noted(L)}
      BY <1>9 DEF Undoes
    <3>5. CASE ripSaved[m].wasIn
      <4>1. Noted(L) = Noted(M)' \cup {m}
        BY <3>1, <3>5
      <4>2. {ripSaved[n].saved : n \in Noted(L)}
              = {ripSaved'[n].saved : n \in Noted(M)'} \cup {res}
        <5>p. PICK N, g : N = Noted(M)' /\ g = ripSaved'
          OBVIOUS
        <5>1. \A n \in N : ripSaved[n].saved = g[n].saved
          BY <3>1, <3>2, <5>p
        <5>2. {ripSaved[n].saved : n \in N \cup {m}}
                = {g[n].saved : n \in N} \cup {ripSaved[m].saved}
          BY <5>1, SavedOfOneMore
        <5> QED
          BY <4>1, <5>p, <5>2
      <4> QED
        BY <1>3, <3>3, <3>5, <4>2
    <3>6. CASE ~ripSaved[m].wasIn
      <4>1. Noted(L) = Noted(M)'
        BY <3>1, <3>6
      <4>2. {ripSaved[n].saved : n \in Noted(L)} = {ripSaved'[n].saved : n \in Noted(M)'}
        BY <3>1, <3>2, <4>1
      <4> QED
        BY <1>3, <3>3, <3>6, <4>2
    <3> QED
      BY <3>5, <3>6
  <2>5. e.work = [c \in Cells |-> IF \E n \in M : c \in Taken(M)'[n] THEN work'[c] + 1 ELSE work'[c]]
    <3>1. ASSUME NEW c \in Cells
          PROVE  (IF \E n \in L : c \in Taken(L)[n] THEN work[c] + 1 ELSE work[c])
                   = IF \E n \in M : c \in Taken(M)'[n] THEN work'[c] + 1 ELSE work'[c]
      <4>1. (\E n \in L : c \in Taken(L)[n]) <=> c \in res.cells \/ \E n \in M : c \in Taken(M)'[n]
        BY <1>1, <1>6
      <4>2. c \in res.cells => c \notin copper[m] /\ ~\E n \in M : c \in Taken(M)'[n]
        BY <1>1, <1>6 DEF Apart
      <4>3. copper[m] \cup res.cells \in SUBSET Cells
        BY <1>1
      <4>4. /\ c \in res.cells => work'[c] = work[c] + 1
            /\ c \notin res.cells => work'[c] = work[c]
        <5>1. /\ c \in copper[m] \cap (copper[m] \cup res.cells) => work'[c] = work[c]
              /\ c \in (copper[m] \cup res.cells) \ copper[m] => work'[c] = work[c] + 1
              /\ c \notin copper[m] \cup (copper[m] \cup res.cells) => work'[c] = work[c]
          BY <1>a, <1>3, <4>3, CountsAfterRestamp
        <5> QED
          BY <4>2, <5>1
      <4> QED
        BY <4>1, <4>2, <4>4
    <3> QED
      BY ZenonT(40), <1>9, <3>1 DEF Undoes
  <2> QED
    BY <2>1, <2>2, <2>3, <2>4, <2>5 DEF Undoes
<1> QED
  BY <1>3, <1>4, <1>5, <1>8, <1>9
----------------------------------------------------------------------------
(* What the steps of the two loops do to the nets in hand and in the       *)
(* queue.                                                                  *)
LEMMA HandFacts ==
  ASSUME LoopInv
  PROVE  /\ frame \in Frames /\ frame.ripped \in Seq(Victims) /\ Held(frame) \in SUBSET Nets
         /\ \A n \in Held(frame) : ~IsRouted(n) /\ n # Net
         /\ pc # "loop" => Net \in Nets /\ Net # None /\ ~IsRouted(Net)
         /\ pc = "loop" => Net = None /\ frame.ripped = <<>> /\ Held(frame) = {}
         /\ BoardTypeOK /\ Net \in Nets \cup {None}
<1>1. frame \in Frames /\ frame.ripped \in Seq(Victims) /\ Net \in Nets \cup {None}
  BY DEF LoopInv, Inv, LadderTypeOK, Frames, Net
<1>2. \A i \in DOMAIN frame.ripped : frame.ripped[i].net \in Nets
  BY <1>1 DEF Victims
<1>3. Held(frame) \in SUBSET Nets /\ \A n \in Held(frame) : ~IsRouted(n) /\ n # Net
  BY <1>2, NetsAssumption DEF LoopInv, InHand, Held, Net
<1>4. pc # "loop" => Net \in Nets /\ Net # None /\ ~IsRouted(Net)
  BY NetsAssumption DEF LoopInv, Inv, LadderTypeOK, InHand, Net
<1>5. pc = "loop" => Net = None /\ frame.ripped = <<>> /\ Held(frame) = {}
  BY IdleHand DEF LoopInv, Net, Held
<1> QED
  BY <1>1, <1>3, <1>4, <1>5 DEF LoopInv, Inv, BoardInv

(* The items that stay in the queue go on waiting.                         *)
LEMMA StillWaiting ==
  ASSUME TurnInv, queue' = queue, qi' \in Nat, qi' >= qi,
         \A i \in DOMAIN queue : i >= qi' /\ Waits(queue[i]) => Waits(queue[i])'
  PROVE  /\ queue' \in Seq(Nets) /\ qi' \in Nat \ {0}
         /\ \A i \in DOMAIN queue' : Pending(i)' => Waits(queue[i])'
         /\ \A i, j \in DOMAIN queue' : Pending(i)' /\ Pending(j)' /\ queue'[i] = queue'[j]
              => i = j
<1>1. qi \in Nat \ {0} /\ queue \in Seq(Nets)
  BY DEF TurnInv
<1>2. \A i \in DOMAIN queue : i \in Nat /\ (i >= qi' => i >= qi)
  BY <1>1
<1>3. \A i \in DOMAIN queue : Pending(i)' => Pending(i) /\ i >= qi'
  BY <1>2 DEF Pending
<1>4. \A i, j \in DOMAIN queue : Pending(i)' /\ Pending(j)' /\ queue[i] = queue[j] => i = j
  BY <1>3 DEF TurnInv
<1>5. \A i \in DOMAIN queue : Pending(i)' => Waits(queue[i])'
  BY <1>3 DEF TurnInv
<1> QED
  BY <1>1, <1>4, <1>5
(* The board, the net at work and what it holds stay as they are.          *)
LEMMA QuietStep ==
  ASSUME SafeInv, UNCHANGED boardVars, frame'.net = frame.net, frame'.ripped = frame.ripped,
         pc # "loop", pc' = "failed" => frame.ripped = <<>>,
         UNCHANGED <<phase, pos, entry, queueVars, custody>>
  PROVE  HandInv' /\ TurnInv' /\ Held(frame)' = Held(frame)
<1>1. /\ Held(frame)' = Held(frame) /\ \A n : IsRouted(n)' <=> IsRouted(n)
      /\ UNCHANGED <<copper, work, routed, results, remaining, ripSaved, refused, queue, qi, queued>>
  BY DEF Held, IsRouted, boardVars, queueVars
<1> PICK L : L = Held(frame)
  OBVIOUS
<1>2. Apart(L)'
  BY <1>1 DEF SafeInv, HandInv, Apart, Taken
<1>3. Undoes(L, entry)'
  BY <1>1 DEF SafeInv, HandInv, Undoes, Taken, Noted
<1>4. HandInv'
  BY <1>1, <1>2, <1>3 DEF SafeInv, HandInv
<1>5. \A n : Waits(n) => Waits(n)'
  BY <1>1 DEF Waits, Net, Ahead
<1>6. TurnInv'
  <2>1. qi' \in Nat /\ qi' >= qi
    BY <1>1 DEF SafeInv, TurnInv
  <2>2. \A i \in DOMAIN queue : i >= qi' /\ Waits(queue[i]) => Waits(queue[i])'
    BY <1>1, <1>5
  <2>3. \A n \in Nets : ripSaved'[n] # None /\ ~IsRouted(n)' =>
          n \in Held(frame)' \/ custody'[n] = ripSaved'[n]
    BY <1>1 DEF SafeInv, TurnInv
  <2>4. NothingRefused'
    BY <1>1 DEF SafeInv, TurnInv, NothingRefused
  <2> QED
    BY <1>1, <2>1, <2>2, <2>3, <2>4, StillWaiting DEF SafeInv, TurnInv
<1> QED
  BY <1>1, <1>4, <1>6

(* The net at work takes one more net in hand.                             *)
LEMMA RipStep ==
  ASSUME SafeInv, NEW m \in Nets, IsRouted(m), RipUp(m),
         frame'.net = frame.net, frame'.ripped = Append(frame.ripped, Victim(m)),
         pc \notin {"loop", "failed"}, pc' \notin {"loop", "failed"},
         UNCHANGED <<phase, pos, entry, queueVars, custody>>
  PROVE  HandInv' /\ TurnInv' /\ Held(frame)' = Held(frame) \cup {m}
<1>a. /\ frame \in Frames /\ frame.ripped \in Seq(Victims) /\ Held(frame) \in SUBSET Nets
      /\ \A n \in Held(frame) : ~IsRouted(n) /\ n # Net
      /\ BoardTypeOK /\ LoopInv
  BY HandFacts DEF SafeInv
<1>b. Victim(m) \in Victims /\ Victim(m).net = m /\ Victim(m).payload = Payload(m)
  BY RipUpKeepsBoardInv DEF Victim, Victims, SafeInv, LoopInv, Inv
<1>1. /\ DOMAIN frame'.ripped = DOMAIN frame.ripped \cup {Len(frame.ripped) + 1}
      /\ \A i \in DOMAIN frame.ripped : frame'.ripped[i] = frame.ripped[i]
      /\ frame'.ripped[Len(frame.ripped) + 1] = Victim(m)
  BY <1>a, <1>b, Appending
<1>2. Held(frame)' = Held(frame) \cup {m}
  <2> PICK f : f = frame'
    OBVIOUS
  <2>1. Held(f) = Held(frame) \cup {m}
    BY <1>b, <1>1 DEF Held
  <2> QED
    BY <2>1 DEF Held
<1>3. /\ \A n \in Nets : IsRouted(n)' <=> IsRouted(n) /\ n # m
      /\ ripSaved'[m] = Payload(m) /\ \A n \in Nets : n # m => ripSaved'[n] = ripSaved[n]
      /\ refused' = refused /\ m \notin Held(frame)
  BY ZenonT(40), <1>a, RipKeepsBooks DEF RipUp, BoardTypeOK, LoopInv
<1>p. PICK L, e : L = Held(frame) /\ e = entry
  OBVIOUS
<1>q. /\ Apart(L) /\ Undoes(L, e) /\ L \in SUBSET Nets /\ m \in Nets \ L
  BY <1>a, <1>3, <1>p DEF SafeInv, HandInv
<1>r. Apart(L \cup {m})' /\ Undoes(L \cup {m}, e)'
  BY <1>a, <1>q, RipCanBeUndone
<1>4. Apart(L \cup {m})' /\ Undoes(L \cup {m}, entry)'
  BY <1>p, <1>r DEF Undoes
<1>5. HandInv'
  <2>1. \A i \in DOMAIN frame.ripped : frame.ripped[i].net \in Nets \ {m}
    BY <1>a, <1>3 DEF Held
  <2>2. \A i \in DOMAIN frame'.ripped : ripSaved'[frame'.ripped[i].net] = frame'.ripped[i].payload
    BY <1>b, <1>1, <1>3, <2>1 DEF SafeInv, HandInv
  <2> QED
    BY <1>2, <1>4, <1>p, <2>2 DEF HandInv
<1>6. \A n \in Nets : Waits(n) => Waits(n)'
  BY <1>2, <1>3 DEF Waits, Net, Ahead, queueVars
<1>7. TurnInv'
  <2>1. qi' \in Nat /\ qi' >= qi /\ queue' = queue /\ queue \in Seq(Nets)
    BY DEF SafeInv, TurnInv, queueVars
  <2>2. \A i \in DOMAIN queue : i >= qi' /\ Waits(queue[i]) => Waits(queue[i])'
    BY <1>6, <2>1
  <2>3. \A n \in Nets : ripSaved'[n] # None /\ ~IsRouted(n)' =>
          n \in Held(frame)' \/ custody'[n] = ripSaved'[n]
    BY <1>2, <1>3 DEF SafeInv, TurnInv
  <2>4. NothingRefused'
    BY <1>3 DEF SafeInv, TurnInv, NothingRefused
  <2> QED
    BY <2>1, <2>2, <2>3, <2>4, StillWaiting DEF SafeInv, TurnInv
<1> QED
  BY <1>2, <1>5, <1>7

(* The last net taken in hand comes back.                                  *)
LEMMA RestoreStep ==
  ASSUME SafeInv, NEW v, frame.ripped # <<>>, v = frame.ripped[Len(frame.ripped)],
         RestoreNet(v.net, v.payload),
         frame'.net = frame.net, frame'.ripped = Front(frame.ripped),
         pc \notin {"loop", "failed"}, pc' \notin {"loop", "failed"},
         UNCHANGED <<phase, pos, entry, queueVars, custody>>
  PROVE  /\ HandInv' /\ TurnInv' /\ Held(frame)' = Held(frame) \ {v.net}
         /\ v.net \in Nets /\ \A n \in Nets : IsRouted(n)' <=> IsRouted(n) \/ n = v.net
<1>a. /\ frame \in Frames /\ frame.ripped \in Seq(Victims) /\ Held(frame) \in SUBSET Nets
      /\ \A n \in Held(frame) : ~IsRouted(n) /\ n # Net
      /\ BoardTypeOK /\ LoopInv
  BY HandFacts DEF SafeInv
<1>k. PICK k : k = Len(frame.ripped)
  OBVIOUS
<1> DEFINE m == v.net
<1>1. /\ DOMAIN frame.ripped = DOMAIN frame'.ripped \cup {k} /\ k \notin DOMAIN frame'.ripped
      /\ \A i \in DOMAIN frame'.ripped : frame'.ripped[i] = frame.ripped[i]
      /\ v \in Victims /\ v = frame.ripped[k]
  <2>0. frame.ripped \in Seq(Victims) /\ frame.ripped # <<>>
    BY <1>a
  <2>1. /\ k \in Nat \ {0} /\ DOMAIN frame.ripped = 1..k
        /\ DOMAIN Front(frame.ripped) = 1..(k - 1)
        /\ \A i \in 1..(k - 1) : Front(frame.ripped)[i] = frame.ripped[i]
        /\ frame.ripped[k] \in Victims
    BY SMTT(30), <1>k, <2>0, Shortening
  <2> QED
    BY <1>k, <2>1
<1>b. m \in Nets /\ v.payload \in Payloads /\ v.payload.saved.net = m
  BY <1>1 DEF Victims
<1>c. m \in Held(frame) /\ ripSaved[m] = v.payload /\ Trusted(v.payload)
  BY <1>a, <1>1 DEF SafeInv, HandInv, LoopInv, InHand, Held
<1>2. Held(frame)' = Held(frame) \ {m}
  <2> PICK f : f = frame'
    OBVIOUS
  <2>1. \A i \in DOMAIN f.ripped : f.ripped[i].net = frame.ripped[i].net /\ f.ripped[i].net # m
    BY <1>a, <1>1, <1>k DEF LoopInv, InHand
  <2>2. Held(f) = Held(frame) \ {m}
    BY <1>1, <2>1 DEF Held
  <2> QED
    BY <2>2 DEF Held
<1> HIDE DEF m
<1>p. PICK L, e : L = Held(frame) /\ e = entry
  OBVIOUS
<1>q. /\ Apart(L) /\ Undoes(L, e) /\ L \in SUBSET Nets /\ m \in L /\ ~IsRouted(m)
      /\ ripSaved[m] \in Payloads /\ ripSaved[m].saved.net = m /\ Trusted(ripSaved[m])
      /\ RestoreNet(m, ripSaved[m])
  BY <1>a, <1>b, <1>c, <1>p DEF SafeInv, HandInv, m
<1>3. /\ IsRouted(m)' /\ UNCHANGED refused
      /\ \A n \in Nets : n # m => /\ IsRouted(n)' <=> IsRouted(n)
                                  /\ ripSaved'[n] = ripSaved[n]
      /\ ripSaved'[m] = None
      /\ Apart(L \ {m})' /\ Undoes(L \ {m}, e)'
  BY <1>a, <1>q, RestoreUndoes
<1>5. HandInv'
  <2>1. \A i \in DOMAIN frame'.ripped : frame.ripped[i].net \in Nets \ {m}
    BY <1>a, <1>1, <1>k DEF Held, LoopInv, InHand, m
  <2>2. \A i \in DOMAIN frame'.ripped : ripSaved'[frame'.ripped[i].net] = frame'.ripped[i].payload
    BY <1>1, <1>3, <2>1 DEF SafeInv, HandInv
  <2>3. Undoes(L \ {m}, entry)'
    BY <1>p, <1>3 DEF Undoes
  <2> QED
    BY <1>2, <1>3, <1>p, <2>2, <2>3 DEF HandInv, m
<1>6. \A n \in Nets : Waits(n) => Waits(n)'
  BY <1>2, <1>3, <1>c DEF Waits, Net, Ahead, queueVars, m
<1>7. TurnInv'
  <2>1. qi' \in Nat /\ qi' >= qi /\ queue' = queue /\ queue \in Seq(Nets)
    BY DEF SafeInv, TurnInv, queueVars
  <2>2. \A i \in DOMAIN queue : i >= qi' /\ Waits(queue[i]) => Waits(queue[i])'
    BY <1>6, <2>1
  <2>3. \A n \in Nets : ripSaved'[n] # None /\ ~IsRouted(n)' =>
          n \in Held(frame)' \/ custody'[n] = ripSaved'[n]
    BY <1>2, <1>3 DEF SafeInv, TurnInv, m
  <2>4. NothingRefused'
    BY <1>3 DEF SafeInv, TurnInv, NothingRefused
  <2> QED
    BY <2>1, <2>2, <2>3, <2>4, StillWaiting DEF SafeInv, TurnInv
<1> QED
  BY <1>2, <1>3, <1>5, <1>7, <1>b DEF m
(* Between two nets nothing is in hand.                                    *)
LEMMA EmptyHand ==
  ASSUME NoShort, frame.ripped = <<>>
  PROVE  /\ Held(frame) = {} /\ Apart(Held(frame))
         /\ \A i \in DOMAIN frame.ripped :
              ripSaved[frame.ripped[i].net] = frame.ripped[i].payload
<1>1. Held(frame) = {}
  BY DEF Held
<1>2. \A n \in Nets : Taken({})[n] = {}
  BY DEF Taken
<1>3. Apart({})
  BY <1>2 DEF Apart, NoShort
<1> QED
  BY <1>1, <1>3

LEMMA EmptyHandNext ==
  ASSUME Inv', frame' = Idle, pc' = "loop"
  PROVE  HandInv' /\ Held(frame)' = {} /\ Net' = None
<1>1. NoShort' /\ frame'.ripped = <<>> /\ Net' = None
  BY IdleHand DEF Inv, BoardInv, Net
<1>2. Held(frame)' = {}
  BY <1>1 DEF Held
<1>3. \A n \in Nets : Taken({})'[n] = {}
  BY DEF Taken
<1>4. Apart({})'
  BY <1>1, <1>3 DEF Apart, NoShort
<1> QED
  BY <1>1, <1>2, <1>4 DEF HandInv

(* A net opens its ladder: its board is the board before the rips.         *)
LEMMA OpenStep ==
  ASSUME SafeInv, UNCHANGED boardVars, pc = "loop", pc' # "loop",
         NEW n \in Nets, frame'.net = n, frame'.ripped = <<>>, entry' = Snapshot,
         UNCHANGED <<phase, queue, queued, custody>>, qi' \in Nat, qi' >= qi,
         \A i \in DOMAIN queue : i >= qi' => queue[i] # n,
         phase = "se" => Ahead' \subseteq Ahead
  PROVE  HandInv' /\ TurnInv'
<1>1. /\ Held(frame)' = {} /\ \A m : IsRouted(m)' <=> IsRouted(m)
      /\ UNCHANGED <<copper, work, routed, results, remaining, ripSaved, refused>>
  BY DEF Held, IsRouted, boardVars
<1>2. /\ BoardTypeOK /\ NoShort /\ Held(frame) = {}
  BY HandFacts DEF SafeInv, LoopInv, Inv, BoardInv
<1>3. Apart({})'
  <2>1. Apart({})
    BY <1>2 DEF SafeInv, HandInv
  <2> QED
    BY <1>1, <2>1 DEF Apart, Taken
<1>4. Undoes({}, entry)'
  <2>1. /\ entry'.copper = copper /\ entry'.work = work /\ entry'.routed = routed
        /\ entry'.results = results /\ entry'.remaining = remaining
    BY DEF Snapshot
  <2>2. /\ copper \in [Nets -> SUBSET Cells] /\ work \in [Cells -> Nat]
        /\ routed \in [Nets -> Results \cup {None}]
    BY <1>2 DEF BoardTypeOK
  <2>3. /\ \A m \in Nets : Taken({})'[m] = {}
        /\ Noted({})' = {}
    BY DEF Taken, Noted
  <2>4. entry'.copper = [m \in Nets |-> copper'[m] \cup Taken({})'[m]]
    BY <1>1, <2>1, <2>2, <2>3
  <2>5. entry'.work = [c \in Cells |-> IF \E m \in {} : c \in Taken({})'[m] THEN work'[c] + 1 ELSE work'[c]]
    BY <1>1, <2>1, <2>2
  <2>6. entry'.routed = [m \in Nets |-> IF m \in {} THEN ripSaved'[m].saved ELSE routed'[m]]
    BY <1>1, <2>1, <2>2
  <2>7. entry'.results = results' \cup {ripSaved'[m].saved : m \in Noted({})'}
    BY <1>1, <2>1, <2>3
  <2>8. entry'.remaining = remaining' \ {}
    BY <1>1, <2>1
  <2> QED
    BY <2>4, <2>5, <2>6, <2>7, <2>8 DEF Undoes
<1>5. HandInv'
  BY <1>1, <1>3, <1>4 DEF HandInv
<1>6. \A m : Waits(m) /\ m # n => Waits(m)'
  BY <1>1 DEF Waits, Net
<1>7. TurnInv'
  <2>1. \A i \in DOMAIN queue : i >= qi' /\ Waits(queue[i]) => Waits(queue[i])'
    <3> TAKE i \in DOMAIN queue
    <3>p. PICK m : m = queue[i]
      OBVIOUS
    <3>1. i >= qi' /\ Waits(m) => Waits(m)'
      BY <1>6, <3>p
    <3> QED
      BY <1>1, <3>p, <3>1 DEF Waits, Net
  <2>2. \A m \in Nets : ripSaved'[m] # None /\ ~IsRouted(m)' =>
          m \in Held(frame)' \/ custody'[m] = ripSaved'[m]
    BY <1>1, <1>2 DEF SafeInv, TurnInv
  <2>3. NothingRefused'
    BY <1>1 DEF SafeInv, TurnInv, NothingRefused
  <2> QED
    BY <1>1, <2>1, <2>2, <2>3, StillWaiting DEF SafeInv, TurnInv
<1> QED
  BY <1>5, <1>7

(* A net is done with and nothing was ripped for it.                       *)
LEMMA CloseStep ==
  ASSUME SafeInv, Held(frame) = {}, Held(frame)' = {}, Net' = None, NEW n,
         \A m \in Nets : IsRouted(m)' => IsRouted(m) \/ m = n,
         \A m \in Nets : ripSaved'[m] # None /\ ~IsRouted(m)' =>
                           ripSaved'[m] = ripSaved[m] /\ ~IsRouted(m),
         UNCHANGED <<refused, queue, custody>>, qi' \in Nat, qi' >= qi,
         queued \ {n} \subseteq queued',
         \A i \in DOMAIN queue : i >= qi' => queue[i] # n,
         phase' = "se" => phase = "se" /\ Ahead' \subseteq Ahead
  PROVE  TurnInv'
<1>1. queue \in Seq(Nets) /\ None \notin Nets
  BY NetsAssumption DEF SafeInv, TurnInv
<1>2. \A m \in Nets : Waits(m) /\ m # n => Waits(m)'
  BY <1>1 DEF Waits
<1>3. \A i \in DOMAIN queue : i >= qi' /\ Waits(queue[i]) => Waits(queue[i])'
  <2> TAKE i \in DOMAIN queue
  <2>p. PICK m \in Nets : m = queue[i]
    BY <1>1
  <2>1. i >= qi' /\ Waits(m) => Waits(m)'
    BY <1>2, <2>p
  <2> QED
    BY <2>p, <2>1 DEF Waits, Net
<1>4. \A m \in Nets : ripSaved'[m] # None /\ ~IsRouted(m)' =>
        m \in Held(frame)' \/ custody'[m] = ripSaved'[m]
  BY DEF SafeInv, TurnInv
<1>5. NothingRefused'
  BY DEF SafeInv, TurnInv, NothingRefused
<1> QED
  BY <1>3, <1>4, <1>5, StillWaiting DEF SafeInv, TurnInv
(* The victims of a landing go into custody, and those that are not marked *)
(* as queued go to the end of the queue.                                   *)
LEMMA VictimsEntered ==
  ASSUME SafeInv, NEW marked, NEW new \in NewVictims(marked)
  PROVE  /\ new \in Seq(Nets)
         /\ \A i \in DOMAIN new : new[i] \in Held(frame) \ marked
         /\ \A i, j \in DOMAIN new : new[i] = new[j] => i = j
<1>1. Held(frame) \in SUBSET Nets /\ InLadder = Held(frame)
  BY HandFacts, HeldIsInLadder DEF SafeInv
<1> DEFINE S == Held(frame) \ marked
<1>2. new \in SetToSeqs(S)
  BY <1>1 DEF NewVictims
<1>3. Cardinality(S) \in Nat
  BY <1>1, NetsAssumption, FS_Subset, FS_CardinalityType
<1>4. new \in [1..Cardinality(S) -> S]
      /\ \A i, j \in 1..Cardinality(S) : i # j => new[i] # new[j]
  BY <1>2 DEF SetToSeqs
<1> HIDE DEF S
<1>5. \A i \in DOMAIN new : new[i] \in S
  BY <1>4
<1>6. new \in Seq(Nets)
  <2>1. PICK k \in Nat : new \in [1..k -> S]
    BY <1>3, <1>4
  <2>2. new \in Seq(S) /\ S \subseteq Nets
    BY <1>1, <2>1 DEF S
  <2> QED
    BY <2>2
<1> QED
  BY <1>4, <1>5, <1>6 DEF S

LEMMA CommitStep ==
  ASSUME SafeInv, Held(frame)' = {}, Net' = None, Net \in Nets,
         \A m \in Nets : IsRouted(m)' <=> IsRouted(m) \/ m = Net,
         UNCHANGED <<ripSaved, refused, phase, pos>>,
         NEW marked, queued \ {Net} \subseteq marked, CommitVictims(marked)
  PROVE  TurnInv'
<1>a. /\ \A m \in Held(frame) : ~IsRouted(m) /\ m # Net
      /\ Held(frame) \in SUBSET Nets /\ InLadder = Held(frame)
      /\ queue \in Seq(Nets) /\ qi \in Nat \ {0} /\ None \notin Nets
  BY HandFacts, HeldIsInLadder, NetsAssumption DEF SafeInv, TurnInv
<1>1. PICK new \in NewVictims(marked) : queue' = queue \o new
  BY DEF CommitVictims
<1>2. /\ new \in Seq(Nets)
      /\ \A i \in DOMAIN new : new[i] \in Held(frame) \ marked
      /\ \A i, j \in DOMAIN new : new[i] = new[j] => i = j
  BY VictimsEntered
<1>k. PICK k \in Nat : k = Len(queue)
  BY <1>a
<1>3. /\ queue' \in Seq(Nets)
      /\ DOMAIN queue \subseteq DOMAIN queue'
      /\ \A i \in DOMAIN queue : queue'[i] = queue[i]
      /\ \A i \in DOMAIN queue' : i \notin DOMAIN queue =>
           i - k \in DOMAIN new /\ queue'[i] = new[i - k]
  BY <1>a, <1>1, <1>2, <1>k, Joining
<1>4. /\ qi' = qi /\ queued' = marked \cup Held(frame)
      /\ custody' = [m \in Nets |-> IF m \in Held(frame) THEN CustodyOf(m) ELSE custody[m]]
  BY <1>a DEF CommitVictims
<1>5. \A m \in Nets : Waits(m) => Waits(m)' /\ m \in marked
  BY <1>a, <1>4 DEF Waits, Ahead
<1>6. \A m \in Held(frame) : Waits(m)'
  <2>1. \A m \in Held(frame) : phase = "se" => m \notin Ahead
    BY DEF SafeInv, LoopInv, AheadIsOpen, Held
  <2> QED
    BY <1>a, <1>4, <2>1 DEF Waits, Ahead
<1>7. \A i \in DOMAIN queue : i >= qi => Waits(queue[i]) /\ queue[i] \in marked
  BY <1>a, <1>5 DEF SafeInv, TurnInv, Pending
<1>8. \A i \in DOMAIN queue' : i \notin DOMAIN queue => queue'[i] \in Held(frame) \ marked
  BY <1>2, <1>3
<1>9. \A i \in DOMAIN queue' : Pending(i)' => Waits(queue[i])'
  <2> SUFFICES ASSUME NEW i \in DOMAIN queue', i >= qi PROVE Waits(queue[i])'
    BY <1>4 DEF Pending
  <2>p. PICK m : m = queue'[i]
    OBVIOUS
  <2>1. Waits(m)'
    <3>1. CASE i \in DOMAIN queue
      BY <1>a, <1>3, <1>5, <1>7, <2>p, <3>1
    <3>2. CASE i \notin DOMAIN queue
      BY <1>6, <1>8, <2>p, <3>2
    <3> QED
      BY <3>1, <3>2
  <2> QED
    BY <2>p, <2>1 DEF Waits, IsRouted, Held, Net, Ahead
<1>10. \A i, j \in DOMAIN queue' : Pending(i)' /\ Pending(j)' /\ queue'[i] = queue'[j] => i = j
  <2> SUFFICES ASSUME NEW i \in DOMAIN queue', NEW j \in DOMAIN queue', i >= qi, j >= qi,
                      queue'[i] = queue'[j]
               PROVE  i = j
    BY <1>4 DEF Pending
  <2>1. CASE i \in DOMAIN queue /\ j \in DOMAIN queue
    BY <1>3, <2>1 DEF SafeInv, TurnInv, Pending
  <2>2. CASE i \notin DOMAIN queue /\ j \notin DOMAIN queue
    <3>1. i - k = j - k
      BY <1>2, <1>3, <2>2
    <3>2. i \in Nat /\ j \in Nat
      BY <1>3
    <3> QED
      BY <1>k, <3>1, <3>2
  <2>3. CASE i \in DOMAIN queue /\ j \notin DOMAIN queue
    BY <1>3, <1>7, <1>8, <2>3
  <2>4. CASE i \notin DOMAIN queue /\ j \in DOMAIN queue
    BY <1>3, <1>7, <1>8, <2>4
  <2> QED
    BY <2>1, <2>2, <2>3, <2>4
<1>11. \A m \in Nets : ripSaved'[m] # None /\ ~IsRouted(m)' =>
         m \in Held(frame)' \/ custody'[m] = ripSaved'[m]
  <2> TAKE m \in Nets
  <2> SUFFICES ASSUME ripSaved[m] # None, ~IsRouted(m), m # Net
               PROVE  custody'[m] = ripSaved[m]
    BY <1>a
  <2>1. CASE m \in Held(frame)
    <3> DEFINE i == CHOOSE i \in DOMAIN frame.ripped : frame.ripped[i].net = m
    <3>1. i \in DOMAIN frame.ripped /\ frame.ripped[i].net = m
      BY <2>1 DEF Held
    <3>2. CustodyOf(m) = frame.ripped[i].payload
      BY DEF CustodyOf
    <3> HIDE DEF i
    <3> QED
      BY <1>4, <2>1, <3>1, <3>2 DEF SafeInv, HandInv
  <2>2. CASE m \notin Held(frame)
    BY <1>4, <2>2 DEF SafeInv, TurnInv
  <2> QED
    BY <2>1, <2>2
<1>12. NothingRefused'
  BY DEF SafeInv, TurnInv, NothingRefused
<1> QED
  BY <1>a, <1>3, <1>4, <1>9, <1>10, <1>11, <1>12 DEF TurnInv----------------------------------------------------------------------------
(* Blocker lists.                                                          *)
LEMMA JoinedEntries ==
  ASSUME NEW S, NEW s \in Seq(S), NEW t \in Seq(S)
  PROVE  /\ s \o t \in Seq(S) /\ DOMAIN (s \o t) = 1..(Len(s) + Len(t))
         /\ Len(s \o t) = Len(s) + Len(t)
         /\ \A i \in 1..Len(s) : (s \o t)[i] = s[i]
         /\ \A i \in 1..Len(t) : (s \o t)[Len(s) + i] = t[i]
<1>0. PICK m, n, st : m = Len(s) /\ n = Len(t) /\ st = s \o t
  OBVIOUS
<1>a. m \in Nat /\ n \in Nat
  BY <1>0
<1>1. st \in Seq(S) /\ DOMAIN st = 1..(m + n) /\ Len(st) = m + n
  BY <1>0
<1>2. \A i \in 1..(m + n) : st[i] = IF i <= m THEN s[i] ELSE t[i - m]
  BY <1>0
<1>3. \A i \in 1..m : i \in 1..(m + n) /\ i <= m
  BY <1>a
<1>4. \A i \in 1..n : m + i \in 1..(m + n) /\ ~(m + i <= m) /\ (m + i) - m = i
  BY <1>a
<1>5. \A i \in 1..m : st[i] = s[i]
  BY <1>2, <1>3
<1>6. \A i \in 1..n : st[m + i] = t[i]
  BY <1>2, <1>4
<1> QED
  BY <1>0, <1>1, <1>5, <1>6

(* The first entry of a list is the one that was at position p, the others *)
(* follow.                                                                 *)
LEMMA FrontedEntries ==
  ASSUME NEW S, NEW s \in Seq(S), NEW p \in DOMAIN s
  PROVE  /\ <<s[p]>> \o RemoveAt(s, p) \in Seq(S)
         /\ DOMAIN (<<s[p]>> \o RemoveAt(s, p)) = DOMAIN s
         /\ (<<s[p]>> \o RemoveAt(s, p))[1] = s[p]
         /\ \A i \in 2..p : (<<s[p]>> \o RemoveAt(s, p))[i] = s[i - 1]
         /\ \A i \in (p + 1)..Len(s) : (<<s[p]>> \o RemoveAt(s, p))[i] = s[i]
<1>k. PICK k : k = Len(s)
  OBVIOUS
<1>p. k \in Nat /\ p \in 1..k /\ DOMAIN s = 1..k
  BY <1>k
<1>1. DOMAIN s = 1..k /\ \A i \in 1..k : s[i] \in S
  BY <1>p
<1>2. PICK q, r, l : q = p - 1 /\ r = k - p /\ l = k - 1
  OBVIOUS
<1>3. q \in Nat /\ r \in Nat /\ l \in Nat /\ l = q + r
  BY <1>p, <1>2
<1>4. PICK a, b, h : a = SubSeq(s, 1, p - 1) /\ b = SubSeq(s, p + 1, k) /\ h = <<s[p]>>
  OBVIOUS
<1>c. PICK c, t : c = a \o b /\ t = h \o c
  OBVIOUS
<1>5. a \in Seq(S) /\ q = Len(a) /\ \A i \in 1..q : a[i] = s[i]
  <2>1. q \in Nat /\ q <= k /\ a = SubSeq(s, 1, q) /\ s \in Seq(S)
    BY <1>p, <1>2, <1>4
  <2>2. \A i \in 1..q : i \in 1..k
    BY <1>p, <2>1
  <2>3. a \in Seq(S)
    BY ONLY <1>k, <1>p, <2>1
  <2>4. q = Len(a)
    BY ONLY <1>k, <1>p, <2>1
  <2>5. \A i \in 1..q : a[i] = s[i]
    BY ONLY <1>k, <1>p, <2>1, <2>2
  <2> QED
    BY <2>3, <2>4, <2>5
<1>6. b \in Seq(S) /\ r = Len(b) /\ \A i \in 1..r : b[i] = s[p + i]
  <2>1. r \in Nat /\ r = k - p /\ b = SubSeq(s, p + 1, k) /\ s \in Seq(S)
    BY <1>p, <1>2, <1>4
  <2>2. \A i \in 1..r : p + i \in 1..k /\ (p + 1) + i - 1 = p + i
    BY <1>p, <2>1
  <2>3. b \in Seq(S)
    BY ONLY <1>k, <1>p, <2>1
  <2>4. r = Len(b)
    BY ONLY <1>k, <1>p, <2>1
  <2>5. \A i \in 1..r : b[i] = s[p + i]
    BY ONLY <1>k, <1>p, <2>1, <2>2, <2>4
  <2> QED
    BY <2>3, <2>4, <2>5
<1>7. /\ c \in Seq(S) /\ l = Len(c)
      /\ \A i \in 1..q : c[i] = a[i]
      /\ \A i \in 1..r : c[q + i] = b[i]
  <2>1. a \in Seq(S) /\ b \in Seq(S)
    BY <1>5, <1>6
  <2>2. /\ a \o b \in Seq(S) /\ Len(a \o b) = Len(a) + Len(b)
        /\ \A i \in 1..Len(a) : (a \o b)[i] = a[i]
        /\ \A i \in 1..Len(b) : (a \o b)[Len(a) + i] = b[i]
    BY ONLY <2>1, JoinedEntries
  <2> QED
    BY <1>3, <1>c, <1>5, <1>6, <2>2
<1>8. h \in Seq(S) /\ 1 = Len(h) /\ h[1] = s[p]
  BY <1>p, <1>1, <1>4
<1>9. /\ t \in Seq(S) /\ DOMAIN t = 1..(1 + l)
      /\ \A i \in 1..1 : t[i] = h[i]
      /\ \A i \in 1..l : t[1 + i] = c[i]
  <2>1. h \in Seq(S) /\ c \in Seq(S)
    BY <1>7, <1>8
  <2>2. /\ h \o c \in Seq(S) /\ DOMAIN (h \o c) = 1..(Len(h) + Len(c))
        /\ \A i \in 1..Len(h) : (h \o c)[i] = h[i]
        /\ \A i \in 1..Len(c) : (h \o c)[Len(h) + i] = c[i]
    BY ONLY <2>1, JoinedEntries
  <2> QED
    BY <1>c, <1>7, <1>8, <2>2
<1>10. \A i \in 2..p : t[i] = s[i - 1]
  <2> TAKE i \in 2..p
  <2>1. i - 1 \in 1..q /\ i - 1 \in 1..l /\ 1 + (i - 1) = i
    BY <1>p, <1>2
  <2>2. t[1 + (i - 1)] = c[i - 1] /\ c[i - 1] = a[i - 1] /\ a[i - 1] = s[i - 1]
    BY <1>5, <1>7, <1>9, <2>1
  <2> QED
    BY <2>1, <2>2
<1>11. \A i \in (p + 1)..k : t[i] = s[i]
  <2> TAKE i \in (p + 1)..k
  <2>0. i \in Nat /\ p \in Nat /\ k \in Nat /\ i >= p + 1 /\ k >= i
    BY <1>p
  <2>1. i - p \in 1..r /\ q + (i - p) \in 1..l /\ 1 + (q + (i - p)) = i /\ p + (i - p) = i
    <3>1. i - p \in 1..r
      BY ONLY <1>2, <2>0
    <3>2. q + (i - p) = i - 1 /\ i - 1 \in 1..l
      BY ONLY <1>2, <1>p, <2>0
    <3>3. 1 + (i - 1) = i /\ p + (i - p) = i
      BY ONLY <2>0
    <3> QED
      BY ONLY <3>1, <3>2, <3>3
  <2>2. /\ t[1 + (q + (i - p))] = c[q + (i - p)]
        /\ c[q + (i - p)] = b[i - p] /\ b[i - p] = s[p + (i - p)]
    BY <1>6, <1>7, <1>9, <2>1
  <2> QED
    BY <2>1, <2>2
<1>12. 1 + l = k /\ 1 \in 1..1
  BY <1>p, <1>2
<1>13. t = <<s[p]>> \o RemoveAt(s, p)
  BY <1>k, <1>4, <1>c DEF RemoveAt
<1> QED
  BY <1>k, <1>p, <1>8, <1>9, <1>10, <1>11, <1>12, <1>13

LEMMA MovedToFront ==
  ASSUME NEW S, NEW s \in Seq(S), NEW p \in DOMAIN s,
         \A i, j \in DOMAIN s : s[i] = s[j] => i = j
  PROVE  /\ <<s[p]>> \o RemoveAt(s, p) \in Seq(S)
         /\ \A i \in DOMAIN (<<s[p]>> \o RemoveAt(s, p)) :
              \E j \in DOMAIN s : (<<s[p]>> \o RemoveAt(s, p))[i] = s[j]
         /\ \A i, j \in DOMAIN (<<s[p]>> \o RemoveAt(s, p)) :
              (<<s[p]>> \o RemoveAt(s, p))[i] = (<<s[p]>> \o RemoveAt(s, p))[j] => i = j
<1>1. PICK k, t : k = Len(s) /\ t = <<s[p]>> \o RemoveAt(s, p)
  OBVIOUS
<1>2. k \in Nat /\ p \in 1..k /\ DOMAIN s = 1..k
  BY <1>1
<1>u. \A i, j \in 1..k : s[i] = s[j] => i = j
  BY <1>2
<1>3. /\ t \in Seq(S) /\ DOMAIN t = 1..k /\ t[1] = s[p]
      /\ \A i \in 2..p : t[i] = s[i - 1]
      /\ \A i \in (p + 1)..k : t[i] = s[i]
  <2>1. s \in Seq(S)
    OBVIOUS
  <2>2. p \in DOMAIN s
    OBVIOUS
  <2>3. /\ <<s[p]>> \o RemoveAt(s, p) \in Seq(S)
        /\ DOMAIN (<<s[p]>> \o RemoveAt(s, p)) = DOMAIN s
        /\ (<<s[p]>> \o RemoveAt(s, p))[1] = s[p]
        /\ \A i \in 2..p : (<<s[p]>> \o RemoveAt(s, p))[i] = s[i - 1]
        /\ \A i \in (p + 1)..Len(s) : (<<s[p]>> \o RemoveAt(s, p))[i] = s[i]
    BY ONLY <2>1, <2>2, FrontedEntries
  <2> QED
    BY ONLY <1>1, <1>2, <2>3
<1>4. PICK at : at = [i \in 1..k |-> IF i = 1 THEN p ELSE IF i <= p THEN i - 1 ELSE i]
  OBVIOUS
<1>5. \A i \in 1..k : i = 1 \/ i \in 2..p \/ i \in (p + 1)..k
  BY <1>1, <1>2
<1>6. \A i \in 1..k : at[i] \in 1..k /\ t[i] = s[at[i]]
  <2> TAKE i \in 1..k
  <2>1. CASE i = 1
    BY <1>2, <1>3, <1>4, <2>1
  <2>2. CASE i \in 2..p
    <3>1. at[i] = i - 1 /\ i - 1 \in 1..k
      BY <1>2, <1>4, <2>2
    <3> QED
      BY <1>3, <2>2, <3>1
  <2>3. CASE i \in (p + 1)..k
    <3>1. at[i] = i
      BY <1>2, <1>4, <2>3
    <3> QED
      BY <1>3, <2>3, <3>1
  <2> QED
    BY <1>5, <2>1, <2>2, <2>3
<1>7. \A i, j \in 1..k : at[i] = at[j] => i = j
  BY <1>2, <1>4
<1>8. \A i, j \in 1..k : t[i] = t[j] => i = j
  BY ONLY <1>6, <1>7, <1>u
<1>9. \A i \in DOMAIN t : \E j \in DOMAIN s : t[i] = s[j]
  BY ONLY <1>2, <1>3, <1>6
<1>10. \A i, j \in DOMAIN t : t[i] = t[j] => i = j
  BY ONLY <1>3, <1>8
<1> QED
  BY ONLY <1>1, <1>3, <1>9, <1>10

(* A blamed net joins the list at the end, or is in it behind the nets in  *)
(* hand.                                                                   *)
LEMMA KnownIsOrderly ==
  ASSUME LoopInv, Orderly(frame.blockers), NEW m \in Fresh
  PROVE  /\ Known(m) \in Seq(Nets) /\ Orderly(Known(m))
         /\ Position(m) \in DOMAIN Known(m) /\ Known(m)[Position(m)] = m
         /\ Position(m) \notin DOMAIN frame.ripped
<1>1. frame.blockers \in Seq(Nets) /\ BoardTypeOK
  BY DEF LoopInv, Inv, BoardInv, LadderTypeOK, Frames
<1>2. m \in Nets /\ IsRouted(m) /\ m \notin Excluded(Net)
  BY <1>1 DEF Fresh, Nameable, BoardTypeOK
<1>3. Known(m) \in Seq(Nets) /\ Position(m) \in DOMAIN Known(m) /\ Known(m)[Position(m)] = m
  BY <1>1, <1>2, KnownBlockers
<1>4. Orderly(Known(m))
  <2>1. CASE m \in ToSet(frame.blockers)
    BY <2>1 DEF Known
  <2>2. CASE m \notin ToSet(frame.blockers)
    <3>1. Known(m) = Append(frame.blockers, m)
      BY <2>2 DEF Known
    <3>2. PICK k \in Nat : k = Len(frame.blockers) + 1
      BY <1>1
    <3>3. /\ DOMAIN Known(m) = DOMAIN frame.blockers \cup {k} /\ k \notin DOMAIN frame.blockers
          /\ \A i \in DOMAIN frame.blockers : Known(m)[i] = frame.blockers[i]
          /\ Known(m)[k] = m
      BY <1>1, <1>2, <3>1, <3>2
    <3>4. \A i \in DOMAIN frame.blockers : frame.blockers[i] # m
      BY <2>2 DEF ToSet
    <3>5. \A i, j \in DOMAIN Known(m) : Known(m)[i] = Known(m)[j] => i = j
      BY <3>3, <3>4 DEF Orderly
    <3> QED
      BY <1>2, <3>3, <3>5 DEF Orderly
  <2> QED
    BY <2>1, <2>2
<1>5. Position(m) \notin DOMAIN frame.ripped
  BY <1>2, <1>3, <1>4 DEF Orderly, LoopInv, InHand
<1> QED
  BY <1>3, <1>4, <1>5

LEMMA PromotedIsOrderly ==
  ASSUME LoopInv, Orderly(frame.blockers), NEW m \in Fresh, NEW level,
         level \notin DOMAIN frame.ripped
  PROVE  Orderly(Promoted(m, level))
<1>1. /\ Known(m) \in Seq(Nets) /\ Orderly(Known(m))
      /\ Position(m) \in DOMAIN Known(m) /\ Known(m)[Position(m)] = m
      /\ Position(m) \notin DOMAIN frame.ripped
  BY KnownIsOrderly
<1>2. CASE level \notin DOMAIN Known(m)
  BY <1>1, <1>2 DEF Promoted
<1>3. CASE level \in DOMAIN Known(m)
  <2>0. PICK s, p, t : s = Known(m) /\ p = Position(m) /\ t = Promoted(m, level)
    OBVIOUS
  <2>1. t = [s EXCEPT ![p] = s[level], ![level] = s[p]]
    BY <1>1, <1>3, <2>0 DEF Promoted
  <2>2. /\ DOMAIN t = DOMAIN s
        /\ \A i \in DOMAIN s : t[i] = IF i = level THEN s[p] ELSE IF i = p THEN s[level] ELSE s[i]
    BY <1>1, <1>3, <2>0, <2>1, SwappedEntries
  <2>3. Orderly(s) /\ p \in DOMAIN s /\ level \in DOMAIN s /\ p \notin DOMAIN frame.ripped
    BY <1>1, <1>3, <2>0
  <2>4. \A i, j \in DOMAIN t : t[i] = t[j] => i = j
    BY <2>2, <2>3 DEF Orderly
  <2>5. \A i \in DOMAIN t : t[i] \notin Excluded(Net)
    BY <2>2, <2>3 DEF Orderly
  <2>6. \A i \in DOMAIN frame.ripped : i \in DOMAIN t /\ frame.ripped[i].net = t[i]
    BY <2>2, <2>3 DEF Orderly
  <2>7. \A i \in DOMAIN t : i \notin DOMAIN frame.ripped => IsRouted(t[i])
    BY <2>2, <2>3 DEF Orderly
  <2> QED
    BY <2>0, <2>4, <2>5, <2>6, <2>7 DEF Orderly
<1> QED
  BY <1>2, <1>3----------------------------------------------------------------------------
(* The order of the ladder's lists through the steps that do not rip.      *)
LEMMA OrderKept ==
  ASSUME SafeInv, UNCHANGED <<boardVars, ancestry>>, frame'.net = frame.net,
         frame'.ripped = frame.ripped, frame'.blockers = frame.blockers,
         Climbing' => Climbing, pc' # "retry"
  PROVE  OrderInv'
<1>1. /\ \A n : IsRouted(n)' <=> IsRouted(n)
      /\ Held(frame)' = Held(frame) /\ Net' = Net /\ \A n : Excluded(n)' = Excluded(n)
  BY DEF IsRouted, boardVars, Held, Net, Excluded
<1>2. Orderly(frame.blockers) => Orderly(frame.blockers)'
  BY <1>1 DEF Orderly
<1> QED
  BY <1>1, <1>2 DEF SafeInv, OrderInv

LEMMA OrderWhenIdle ==
  ASSUME OrderInv, UNCHANGED ancestry, frame' = Idle, pc' = "loop"
  PROVE  OrderInv'
<1>1. DOMAIN Idle.blockers = {} /\ Idle.net = None
  BY DEF Idle
<1> QED
  BY <1>1 DEF OrderInv, Net, Climbing

LEMMA OrderWhenOpened ==
  ASSUME SafeInv, UNCHANGED <<boardVars, ancestry>>, NEW n \in Nets, frame'.net = n,
         frame'.ripped = <<>>, NEW bs, frame'.blockers = bs,
         bs \in FirstBlockers(n) \/ bs = <<>>, pc' # "retry"
  PROVE  OrderInv'
<1>1. /\ \A m : IsRouted(m)' <=> IsRouted(m)
      /\ Held(frame)' = {} /\ Net' = n /\ \A m : Excluded(m)' = Excluded(m)
  BY DEF IsRouted, boardVars, Held, Net, Excluded
<1>2. /\ \A i \in DOMAIN bs : IsRouted(bs[i]) /\ bs[i] \notin Excluded(n)
      /\ \A i, j \in DOMAIN bs : bs[i] = bs[j] => i = j
  <2>1. CASE bs \in FirstBlockers(n)
    BY <2>1, HandFacts, ReportedBlockers DEF SafeInv
  <2>2. CASE bs = <<>>
    BY <2>2
  <2> QED
    BY <2>1, <2>2
<1>3. Orderly(bs)'
  BY <1>1, <1>2 DEF Orderly
<1> QED
  BY <1>1, <1>2, <1>3 DEF SafeInv, OrderInv, Orderly

(* The last net in hand goes back to its place in the list.                *)
LEMMA OrderAfterRestore ==
  ASSUME SafeInv, NEW v, frame.ripped # <<>>, v = frame.ripped[Len(frame.ripped)],
         frame'.net = frame.net, frame'.ripped = Front(frame.ripped),
         frame'.blockers = frame.blockers, UNCHANGED ancestry,
         \A n \in Nets : IsRouted(n)' <=> IsRouted(n) \/ n = v.net,
         Climbing' => Climbing, pc' # "retry"
  PROVE  OrderInv'
<1>1. frame.ripped \in Seq(Victims) /\ frame.blockers \in Seq(Nets)
  BY DEF SafeInv, LoopInv, Inv, LadderTypeOK, Frames
<1>k. PICK k : k = Len(frame.ripped)
  OBVIOUS
<1>2. /\ DOMAIN frame.ripped = DOMAIN frame'.ripped \cup {k} /\ k \notin DOMAIN frame'.ripped
      /\ \A i \in DOMAIN frame'.ripped : frame'.ripped[i] = frame.ripped[i]
      /\ v = frame.ripped[k]
  <2>1. /\ k \in Nat \ {0} /\ DOMAIN frame.ripped = 1..k
        /\ DOMAIN Front(frame.ripped) = 1..(k - 1)
        /\ \A i \in 1..(k - 1) : Front(frame.ripped)[i] = frame.ripped[i]
    BY <1>k, <1>1, Shortening
  <2>2. 1..k = 1..(k - 1) \cup {k} /\ k \notin 1..(k - 1)
    BY <2>1
  <2> QED
    BY <1>k, <2>1, <2>2
<1>3. /\ Held(frame)' \subseteq Held(frame) /\ Net' = Net /\ \A n : Excluded(n)' = Excluded(n)
  BY <1>2 DEF Held, Net, Excluded
<1>4. ASSUME Orderly(frame.blockers) PROVE Orderly(frame.blockers)'
  <2>1. \A i \in DOMAIN frame.blockers :
          frame.blockers[i] \in Nets /\ (IsRouted(frame.blockers[i]) => IsRouted(frame.blockers[i])')
    <3> TAKE i \in DOMAIN frame.blockers
    <3>p. PICK m \in Nets : m = frame.blockers[i]
      BY <1>1
    <3>1. IsRouted(m) => IsRouted(m)'
      OBVIOUS
    <3> QED
      BY <3>p, <3>1 DEF IsRouted
  <2>2. ASSUME NEW i \in DOMAIN frame.blockers, i \notin DOMAIN frame'.ripped
        PROVE  IsRouted(frame.blockers[i])'
    <3>1. CASE i = k
      <4>1. frame.blockers[k] = v.net /\ v.net \in Nets
        BY <1>2, <1>4, <2>1, <2>2, <3>1 DEF Orderly
      <4>2. IsRouted(v.net)'
        BY <4>1
      <4> QED
        BY <3>1, <4>1, <4>2 DEF IsRouted
    <3>2. CASE i # k
      BY <1>2, <1>4, <2>1, <2>2, <3>2 DEF Orderly
    <3> QED
      BY <3>1, <3>2
  <2>3. \A i \in DOMAIN frame'.ripped :
          i \in DOMAIN frame.blockers /\ frame'.ripped[i].net = frame.blockers[i]
    BY <1>2, <1>4 DEF Orderly
  <2>4. /\ \A i, j \in DOMAIN frame.blockers : frame.blockers[i] = frame.blockers[j] => i = j
        /\ \A i \in DOMAIN frame.blockers : frame.blockers[i] \notin Excluded(Net)'
    BY <1>3, <1>4 DEF Orderly
  <2> QED
    BY <2>2, <2>3, <2>4 DEF Orderly, IsRouted
<1> QED
  BY <1>3, <1>4 DEF SafeInv, OrderInv----------------------------------------------------------------------------
(* Every step keeps the invariant: the ladder's.                           *)
Safe == OrderInv /\ HandInv /\ TurnInv

LEMMA FrameFields ==
  ASSUME LoopInv
  PROVE  /\ frame \in Frames /\ frame.ripped \in Seq(Victims) /\ frame.blockers \in Seq(Nets)
         /\ frame.level \in Nat /\ frame.net = Net
  BY DEF LoopInv, Inv, LadderTypeOK, Frames, Net

LEMMA SlotZeroGuardIsSafe ==
  ASSUME SafeInv, UNCHANGED loopVars, NEW m \in Nets, SlotZeroGuard(m)
  PROVE  Safe'
<1>a. frame \in Frames /\ frame.ripped \in Seq(Victims) /\ frame.blockers \in Seq(Nets)
      /\ LoopInv /\ BoardTypeOK /\ pos' = pos
  BY FrameFields, HandFacts DEF SafeInv, loopVars
<1>1. /\ pc = "ladder" /\ pc' = pc /\ m \in Fresh /\ Len(frame.ripped) = 1
      /\ RestoreNet(frame.ripped[1].net, frame.ripped[1].payload)
      /\ UNCHANGED <<phase, entry, queueVars, ancestry, custody>>
  BY DEF SlotZeroGuard, GuardApplies
<1> DEFINE bs == <<m>> \o RemoveAt(Known(m), Position(m))
<1>2. frame'.net = frame.net /\ frame'.ripped = <<>> /\ frame'.blockers = bs
  BY <1>a DEF SlotZeroGuard, Frames
<1>3. Orderly(frame.blockers)
  BY <1>1 DEF SafeInv, OrderInv, Climbing
<1>4. /\ Known(m) \in Seq(Nets) /\ Orderly(Known(m))
      /\ Position(m) \in DOMAIN Known(m) /\ Known(m)[Position(m)] = m
  BY <1>a, <1>1, <1>3, KnownIsOrderly
<1>5. /\ \A i \in DOMAIN bs : \E j \in DOMAIN Known(m) : bs[i] = Known(m)[j]
      /\ \A i, j \in DOMAIN bs : bs[i] = bs[j] => i = j
  <2>1. \A i, j \in DOMAIN Known(m) : Known(m)[i] = Known(m)[j] => i = j
    BY <1>4 DEF Orderly
  <2>2. PICK s, p : s = Known(m) /\ p = Position(m)
    OBVIOUS
  <2>3. s \in Seq(Nets) /\ p \in DOMAIN s /\ s[p] = m
        /\ \A i, j \in DOMAIN s : s[i] = s[j] => i = j
    BY <1>4, <2>1, <2>2
  <2>4. /\ \A i \in DOMAIN (<<s[p]>> \o RemoveAt(s, p)) :
             \E j \in DOMAIN s : (<<s[p]>> \o RemoveAt(s, p))[i] = s[j]
        /\ \A i, j \in DOMAIN (<<s[p]>> \o RemoveAt(s, p)) :
             (<<s[p]>> \o RemoveAt(s, p))[i] = (<<s[p]>> \o RemoveAt(s, p))[j] => i = j
    BY ONLY <2>3, MovedToFront
  <2>5. bs = <<s[p]>> \o RemoveAt(s, p)
    BY <2>2, <2>3
  <2> QED
    BY ONLY <2>2, <2>4, <2>5
<1> HIDE DEF bs
<1>6. PICK v : v = frame.ripped[1]
  OBVIOUS
<1>7. frame.ripped # <<>> /\ v = frame.ripped[Len(frame.ripped)] /\ Front(frame.ripped) = <<>>
      /\ DOMAIN frame.ripped = {1}
  BY <1>a, <1>1, <1>6 DEF Front
<1>8. frame'.ripped = Front(frame.ripped) /\ RestoreNet(v.net, v.payload)
  BY <1>1, <1>2, <1>6, <1>7
<1>9. /\ HandInv' /\ TurnInv' /\ v.net \in Nets
      /\ \A n \in Nets : IsRouted(n)' <=> IsRouted(n) \/ n = v.net
  BY <1>a, <1>1, <1>2, <1>7, <1>8, RestoreStep
<1>10. \A j \in DOMAIN Known(m) : routed'[Known(m)[j]] # None
                                  /\ Known(m)[j] \notin Excluded(Net)
  <2> TAKE j \in DOMAIN Known(m)
  <2>p. PICK n \in Nets : n = Known(m)[j]
    BY <1>4
  <2>1. IsRouted(n) \/ n = v.net
    BY <1>4, <1>6, <1>7, <2>p DEF Orderly
  <2>2. IsRouted(n)'
    BY <1>9, <2>1
  <2> QED
    BY <1>4, <2>p, <2>2 DEF Orderly, IsRouted
<1>11. \A i \in DOMAIN bs : routed'[bs[i]] # None /\ bs[i] \notin Excluded(Net)
  BY <1>5, <1>10
<1>12. Orderly(frame.blockers)'
  BY <1>1, <1>2, <1>5, <1>11 DEF Orderly, IsRouted, Excluded, Net
<1>13. OrderInv'
  BY <1>1, <1>2, <1>5, <1>12 DEF SafeInv, OrderInv, Held
<1> QED
  BY <1>9, <1>13 DEF Safe

LEMMA NextLevelIsSafe ==
  ASSUME SafeInv, UNCHANGED loopVars, NextLevel
  PROVE  Safe'
<1>a. frame \in Frames /\ frame.ripped \in Seq(Victims) /\ frame.blockers \in Seq(Nets)
      /\ frame.level \in Nat /\ LoopInv /\ BoardTypeOK /\ pos' = pos
  BY FrameFields, HandFacts DEF SafeInv, loopVars
<1>1. PICK bs \in LevelBlockers(frame.level + 1) :
        frame' = [frame EXCEPT !.level = @ + 1, !.blockers = bs]
  BY DEF NextLevel
<1>2. /\ frame'.net = frame.net /\ frame'.ripped = frame.ripped /\ frame'.blockers = bs
      /\ pc = "ladder" /\ pc' \in {"ladder", "rip"}
      /\ UNCHANGED <<boardVars, phase, entry, queueVars, ancestry, custody>>
  BY <1>1, <1>a DEF NextLevel, Frames, Goto
<1>3. HandInv' /\ TurnInv' /\ Held(frame)' = Held(frame)
  BY <1>a, <1>2, QuietStep
<1>4. Orderly(frame.blockers)
  BY <1>2 DEF SafeInv, OrderInv, Climbing
<1>5. frame.level + 1 \notin DOMAIN frame.ripped
  BY <1>a, <1>2 DEF LoopInv, Inv, LadderTypeOK
<1>6. Orderly(bs)
  <2>1. CASE Reanalyses
    <3>1. PICK m \in Fresh : bs = Promoted(m, frame.level + 1)
      BY <2>1 DEF LevelBlockers
    <3> QED
      BY <1>a, <1>4, <1>5, <3>1, PromotedIsOrderly
  <2>2. CASE ~Reanalyses
    BY <1>4, <2>2 DEF LevelBlockers
  <2> QED
    BY <2>1, <2>2
<1>7. Orderly(bs)'
  BY <1>2, <1>6 DEF Orderly, IsRouted, boardVars, Excluded, Net
<1>8. OrderInv'
  BY <1>2, <1>3, <1>7 DEF SafeInv, OrderInv, Orderly, Net, Excluded
<1> QED
  BY <1>3, <1>8 DEF Safe

LEMMA RipOneIsSafe ==
  ASSUME SafeInv, UNCHANGED loopVars, RipOne
  PROVE  Safe'
<1>a. frame \in Frames /\ frame.ripped \in Seq(Victims) /\ frame.blockers \in Seq(Nets)
      /\ frame.level \in Nat /\ LoopInv /\ BoardTypeOK /\ pos' = pos
  BY FrameFields, HandFacts DEF SafeInv, loopVars
<1>k. PICK k : k = Len(frame.ripped) + 1
  OBVIOUS
<1>m. PICK m : m = frame.blockers[k]
  OBVIOUS
<1>1. /\ pc = "rip" /\ k \in Nat \ {0} /\ k - 1 = Len(frame.ripped)
      /\ k \in DOMAIN frame.blockers /\ k \notin DOMAIN frame.ripped
      /\ k <= frame.level /\ m \in Nets
  <2>1. pc = "rip"
    BY DEF RipOne
  <2> QED
    BY <1>a, <1>k, <1>m, <2>1 DEF LoopInv, Inv, LadderTypeOK
<1>2. /\ IsRouted(m) /\ RipUp(m) /\ RecordAncestry(Net, m)
      /\ frame' = [frame EXCEPT !.ripped = Append(@, Victim(m))]
      /\ pc' = IF k = frame.level THEN "retry" ELSE "rip"
      /\ UNCHANGED <<phase, entry, queueVars, custody>>
  BY <1>k, <1>m DEF RipOne, Goto
<1>3. /\ frame'.net = frame.net /\ frame'.ripped = Append(frame.ripped, Victim(m))
      /\ frame'.blockers = frame.blockers /\ frame'.level = frame.level
  BY <1>a, <1>2 DEF Frames
<1>4. HandInv' /\ TurnInv' /\ Held(frame)' = Held(frame) \cup {m}
  BY <1>a, <1>1, <1>2, <1>3, RipStep
<1>5. Orderly(frame.blockers)
  BY <1>1 DEF SafeInv, OrderInv, Climbing
<1>6. Net \in Nets /\ m # Net /\ m \notin Excluded(Net)
  BY <1>1, <1>2, <1>m, <1>5, HandFacts DEF SafeInv, Orderly
<1>7. ancestry' \in [Nets -> SUBSET Nets] /\ ancestry'[Net] = ancestry[Net]
  BY <1>1, <1>2, <1>6 DEF SafeInv, OrderInv, RecordAncestry
<1>8. Excluded(Net)' = Excluded(Net) /\ Net' = Net
  BY <1>3, <1>7 DEF Excluded, Net
<1>9. \A n \in Nets : n # m => (IsRouted(n)' <=> IsRouted(n))
  BY <1>1, <1>2, <1>a DEF RipUp, IsRouted, BoardTypeOK
<1>b. Victim(m) \in Victims /\ Victim(m).net = m
  BY <1>1, <1>2, RipUpKeepsBoardInv DEF Victim, Victims, SafeInv, LoopInv, Inv
<1>10. /\ DOMAIN frame'.ripped = DOMAIN frame.ripped \cup {k} /\ Len(frame'.ripped) = k
       /\ \A i \in DOMAIN frame.ripped : frame'.ripped[i] = frame.ripped[i]
       /\ frame'.ripped[k].net = m
  BY <1>a, <1>b, <1>k, <1>3, Appending
<1>11. Orderly(frame.blockers)'
  <2>1. \A i \in DOMAIN frame.blockers : i \notin DOMAIN frame'.ripped =>
          routed'[frame.blockers[i]] # None
    <3> SUFFICES ASSUME NEW i \in DOMAIN frame.blockers, i \notin DOMAIN frame'.ripped
                 PROVE  routed'[frame.blockers[i]] # None
      OBVIOUS
    <3>p. PICK n \in Nets : n = frame.blockers[i]
      BY <1>a
    <3>1. i \notin DOMAIN frame.ripped /\ i # k
      BY <1>10
    <3>2. n # m /\ IsRouted(n)
      BY <1>m, <1>1, <1>5, <3>p, <3>1 DEF Orderly
    <3> QED
      BY <1>9, <3>p, <3>2 DEF IsRouted
  <2>2. \A i \in DOMAIN frame'.ripped :
          i \in DOMAIN frame.blockers /\ frame'.ripped[i].net = frame.blockers[i]
    BY <1>1, <1>m, <1>5, <1>10 DEF Orderly
  <2>3. \A i \in DOMAIN frame.blockers : frame.blockers[i] \notin Excluded(Net)'
    BY <1>5, <1>8 DEF Orderly
  <2>4. \A i, j \in DOMAIN frame.blockers : frame.blockers[i] = frame.blockers[j] => i = j
    BY <1>5 DEF Orderly
  <2> QED
    BY <1>3, <1>8, <2>1, <2>2, <2>3, <2>4 DEF Orderly, IsRouted
<1>12. OrderInv'
  BY SMTT(30), <1>2, <1>3, <1>4, <1>6, <1>7, <1>8, <1>10, <1>11 DEF SafeInv, OrderInv
<1> QED
  BY <1>4, <1>12 DEF Safe
LEMMA LandingIsSafe ==
  ASSUME SafeInv, LoopInv', NEW n, n = Net, n \in Nets, frame' = Idle, pc' = "loop",
         \A m \in Nets : IsRouted(m)' <=> IsRouted(m) \/ m = n,
         UNCHANGED <<ripSaved, refused, phase, pos, ancestry>>,
         NEW marked, queued \ {n} \subseteq marked, CommitVictims(marked)
  PROVE  Safe'
<1>1. HandInv' /\ Held(frame)' = {} /\ Net' = None
  BY EmptyHandNext DEF LoopInv
<1>2. TurnInv'
  BY <1>1, CommitStep
<1>3. OrderInv'
  BY OrderWhenIdle DEF SafeInv
<1> QED
  BY <1>1, <1>2, <1>3 DEF Safe

LEMMA RestoreLastIsSafe ==
  ASSUME SafeInv, NEW label \in {"unwind", "swapUnwind"}, RestoreLast(label), UNCHANGED loopVars
  PROVE  Safe'
<1>a. frame \in Frames /\ frame.ripped \in Seq(Victims) /\ pos' = pos
  BY FrameFields DEF SafeInv, loopVars
<1>1. PICK v : v = frame.ripped[Len(frame.ripped)]
  OBVIOUS
<1>2. /\ frame.ripped # <<>> /\ RestoreNet(v.net, v.payload) /\ pc = label /\ pc' = label
      /\ frame'.net = frame.net /\ frame'.ripped = Front(frame.ripped)
      /\ frame'.blockers = frame.blockers
      /\ UNCHANGED <<phase, entry, queueVars, ancestry, custody>>
  BY <1>a, <1>1 DEF RestoreLast, Last, Frames
<1>3. /\ HandInv' /\ TurnInv'
      /\ \A n \in Nets : IsRouted(n)' <=> IsRouted(n) \/ n = v.net
  BY <1>a, <1>1, <1>2, RestoreStep
<1>4. OrderInv'
  BY <1>1, <1>2, <1>3, OrderAfterRestore DEF Climbing
<1> QED
  BY <1>3, <1>4 DEF Safe

LEMMA LadderIsSafe ==
  ASSUME SafeInv, LoopInv', LadderStep, UNCHANGED loopVars
  PROVE  Safe'
<1>a. /\ frame \in Frames /\ BoardTypeOK /\ BookInv /\ LoopInv /\ pos' = pos
      /\ (pc # "loop" => Net \in Nets /\ ~IsRouted(Net))
  BY HandFacts DEF SafeInv, LoopInv, loopVars
<1>1. ASSUME NEW m \in Nets, SlotZeroGuard(m) PROVE Safe'
  BY <1>1, SlotZeroGuardIsSafe
<1>2. ASSUME NextLevel PROVE Safe'
  BY <1>2, NextLevelIsSafe
<1>3. ASSUME LadderExhausted \/ Unwound PROVE Safe'
  <2>1. /\ UNCHANGED <<boardVars, frame, phase, entry, queueVars, ancestry, custody>>
        /\ pc # "loop" /\ pc' # "retry" /\ (Climbing' => Climbing)
        /\ (pc' = "failed" => frame.ripped = <<>>)
    BY <1>3 DEF LadderExhausted, Unwound, Goto, Climbing
  <2>2. HandInv' /\ TurnInv'
    BY <1>a, <2>1, QuietStep
  <2>3. OrderInv'
    BY <2>1, OrderKept
  <2> QED
    BY <2>2, <2>3 DEF Safe
<1>4. ASSUME RipOne PROVE Safe'
  BY <1>4, RipOneIsSafe
<1>5. ASSUME NEW r \in AllRoutes, RetrySucceeds(r) PROVE Safe'
  <2>n. PICK n : n = Net
    OBVIOUS
  <2>1. /\ pc = "retry" /\ n \in Nets /\ ~IsRouted(n) /\ frame' = Idle /\ pc' = "loop"
        /\ UNCHANGED <<phase, ancestry>> /\ CommitVictims(queued \ {n})
    BY <1>5, <1>a, <2>n DEF RetrySucceeds, CloseFrame, Goto
  <2>2. PICK kept \in Keeps(n) : RecordSuccess(n, r, kept)
    BY <1>5, <2>n DEF RetrySucceeds
  <2>3. kept \in SUBSET copper[n] /\ r \in SUBSET Cells
    BY <1>5, <2>1, <2>n, CopperAssumption DEF RetrySucceeds, RoutesOn, Keeps
  <2>4. \A m \in Nets : IsRouted(m)' <=> IsRouted(m) \/ m = n
    BY <1>a, <2>1, <2>2, <2>3, SuccessKeepsBooks
  <2>5. UNCHANGED <<ripSaved, refused>>
    BY <2>2 DEF RecordSuccess
  <2> QED
    BY <1>a, <2>n, <2>1, <2>4, <2>5, LandingIsSafe
<1>6. ASSUME NEW cells \in BOOLEAN, RetryFails(cells) PROVE Safe'
  <2>1. /\ frame'.net = frame.net /\ frame'.ripped = frame.ripped
        /\ frame'.blockers = frame.blockers
        /\ UNCHANGED <<boardVars, phase, entry, queueVars, ancestry, custody>>
        /\ pc = "retry" /\ pc' = "ladder"
    BY <1>6, <1>a DEF RetryFails, Frames, Goto
  <2>2. HandInv' /\ TurnInv'
    BY <1>a, <2>1, QuietStep
  <2>3. OrderInv'
    BY <2>1, OrderKept DEF Climbing
  <2> QED
    BY <2>2, <2>3 DEF Safe
<1>7. ASSUME UnwindOne PROVE Safe'
  BY <1>7, RestoreLastIsSafe DEF UnwindOne
<1> QED
  BY <1>1, <1>2, <1>3, <1>4, <1>5, <1>6, <1>7 DEF LadderStep
(* The steps of the first loop.                                            *)
LEMMA OpenedIsSafe ==
  ASSUME SafeInv, UNCHANGED <<boardVars, ancestry, phase, queue, queued, custody>>, pc = "loop",
         NEW n \in Nets, NEW bs, bs \in FirstBlockers(n) \/ bs = <<>>,
         frame'.net = n, frame'.ripped = <<>>, frame'.blockers = bs,
         entry' = Snapshot, pc' \in {"ladder", "failed"}, qi' \in Nat, qi' >= qi,
         \A i \in DOMAIN queue : i >= qi' => queue[i] # n,
         phase = "se" => Ahead' \subseteq Ahead
  PROVE  Safe'
<1>1. HandInv' /\ TurnInv'
  BY OpenStep
<1>2. OrderInv'
  BY OrderWhenOpened
<1> QED
  BY <1>1, <1>2 DEF Safe

LEMMA OpenedFields ==
  ASSUME NEW n \in Nets, NEW bs
  PROVE  /\ [Idle EXCEPT !.net = n, !.blockers = bs, !.cells = TRUE].net = n
         /\ [Idle EXCEPT !.net = n, !.blockers = bs, !.cells = TRUE].ripped = <<>>
         /\ [Idle EXCEPT !.net = n, !.blockers = bs, !.cells = TRUE].blockers = bs
         /\ [Idle EXCEPT !.net = n].net = n
         /\ [Idle EXCEPT !.net = n].ripped = <<>>
         /\ [Idle EXCEPT !.net = n].blockers = <<>>
  BY DEF Idle

LEMMA PendingIsNotAhead ==
  ASSUME SafeInv, phase = "se", NEW n \in Ahead, qi' \in Nat, qi' >= qi
  PROVE  \A i \in DOMAIN queue : i >= qi' => queue[i] # n
  BY DEF SafeInv, TurnInv, Pending, Waits

LEMMA ClosedIsSafe ==
  ASSUME SafeInv, LoopInv', frame' = Idle, pc' = "loop", Held(frame) = {}, NEW n,
         \A m \in Nets : IsRouted(m)' => IsRouted(m) \/ m = n,
         \A m \in Nets : ripSaved'[m] # None /\ ~IsRouted(m)' =>
                           ripSaved'[m] = ripSaved[m] /\ ~IsRouted(m),
         UNCHANGED <<refused, queue, custody, ancestry>>, qi' \in Nat, qi' >= qi,
         queued \ {n} \subseteq queued',
         \A i \in DOMAIN queue : i >= qi' => queue[i] # n,
         phase' = "se" => phase = "se" /\ Ahead' \subseteq Ahead
  PROVE  Safe'
<1>1. HandInv' /\ Held(frame)' = {} /\ Net' = None
  BY EmptyHandNext DEF LoopInv
<1>2. TurnInv'
  BY <1>1, CloseStep
<1>3. OrderInv'
  BY OrderWhenIdle DEF SafeInv
<1> QED
  BY <1>1, <1>2, <1>3 DEF Safe

LEMMA SEIsSafe ==
  ASSUME SafeInv, LoopInv', SEStep
  PROVE  Safe'
<1>a. /\ frame \in Frames /\ BoardTypeOK /\ BookInv /\ LoopInv
      /\ (pc # "loop" => Net \in Nets /\ ~IsRouted(Net))
      /\ qi \in Nat \ {0} /\ queue \in Seq(Nets) /\ None \notin Nets
  BY HandFacts, NetsAssumption DEF SafeInv, LoopInv, TurnInv
<1>t. ASSUME SETurn
      PROVE  /\ Order[pos] \in Nets /\ ~IsRouted(Order[pos]) /\ phase = "se" /\ pc = "loop"
             /\ Ahead' \subseteq Ahead /\ Order[pos] \in Ahead /\ frame = Idle
             /\ Held(frame) = {}
  <2>1. Order[pos] \in Ahead /\ pc = "loop"
    BY <1>t, OrderAssumption DEF SETurn, AtLoopHead, Ahead
  <2> QED
    BY <1>a, <1>t, <2>1, TakingTheNext, HandFacts
<1>1. ASSUME NEW r \in AllRoutes, SERoutes(r) PROVE Safe'
  <2>t. SETurn /\ UNCHANGED ladderVars
    BY <1>1 DEF SERoutes
  <2>n. PICK n : n = Order[pos]
    OBVIOUS
  <2>1. /\ n \in Nets /\ ~IsRouted(n) /\ n \in Ahead /\ Ahead' \subseteq Ahead
        /\ frame = Idle /\ phase = "se" /\ pc = "loop" /\ Held(frame) = {}
    BY <1>t, <2>t, <2>n
  <2>2. PICK kept \in Keeps(n) : RecordSuccess(n, r, kept)
    BY <1>1, <2>n DEF SERoutes
  <2>3. kept \in SUBSET copper[n] /\ r \in SUBSET Cells
    BY <1>1, <2>1, <2>n, CopperAssumption DEF Keeps, SERoutes, RoutesOn
  <2>4. \A m \in Nets : IsRouted(m)' <=> IsRouted(m) \/ m = n
    BY <1>a, <2>1, <2>2, <2>3, SuccessKeepsBooks
  <2>5. UNCHANGED <<ripSaved, refused>>
    BY <2>2 DEF RecordSuccess
  <2>6. /\ UNCHANGED <<frame, pc, phase, queue, qi, queued, custody, ancestry>>
        /\ qi' \in Nat /\ qi' >= qi
    BY <1>a, <2>t DEF ladderVars, queueVars
  <2>7. \A i \in DOMAIN queue : i >= qi' => queue[i] # n
    BY <2>1, <2>6, PendingIsNotAhead
  <2> QED
    BY <2>1, <2>4, <2>5, <2>6, <2>7, ClosedIsSafe
<1>2. ASSUME SEFails \/ SEOpensLadder PROVE Safe'
  <2>n. PICK n : n = Order[pos]
    OBVIOUS
  <2>t. /\ SETurn
        /\ UNCHANGED <<boardVars, phase, queue, qi, queued, ancestry, custody>>
        /\ entry' = Snapshot
    BY <1>2 DEF SEOpensLadder, SEFails, OpenLadder, SkipLadder, queueVars
  <2>1. /\ n \in Nets /\ ~IsRouted(n) /\ n \in Ahead /\ Ahead' \subseteq Ahead
        /\ phase = "se" /\ pc = "loop" /\ qi' \in Nat /\ qi' >= qi
    BY <1>a, <1>t, <2>t, <2>n
  <2>2. \A i \in DOMAIN queue : i >= qi' => queue[i] # n
    BY <2>1, PendingIsNotAhead
  <2>3. PICK bs : /\ bs \in FirstBlockers(n) \/ bs = <<>>
                  /\ frame'.net = n /\ frame'.ripped = <<>> /\ frame'.blockers = bs
                  /\ pc' \in {"ladder", "failed"}
    <3>1. CASE SEFails
      BY <2>n, <2>1, <3>1, OpenedFields DEF SEFails, SkipLadder, Goto
    <3>2. CASE SEOpensLadder
      <4>1. PICK bs \in FirstBlockers(n) : OpenLadder(n, bs)
        BY <2>n, <3>2 DEF SEOpensLadder
      <4> QED
        BY <2>1, <4>1, OpenedFields DEF OpenLadder, Goto
    <3> QED
      BY <1>2, <3>1, <3>2
  <2> QED
    BY <2>t, <2>1, <2>2, <2>3, OpenedIsSafe
<1>3. ASSUME NEW dest \in UNION {StubSites[n] : n \in Nets}, BeginSwap(dest) PROVE Safe'
  <2>1. /\ frame'.net = frame.net /\ frame'.ripped = frame.ripped
        /\ frame'.blockers = frame.blockers /\ pos' = pos
        /\ UNCHANGED <<boardVars, phase, entry, queueVars, ancestry, custody>>
        /\ pc = "failed" /\ pc' = "swap"
    BY <1>3, <1>a DEF BeginSwap, SwapAllowed, Frames, Goto, loopVars
  <2>2. HandInv' /\ TurnInv'
    BY <2>1, QuietStep
  <2>3. OrderInv'
    BY <2>1, OrderKept DEF Climbing
  <2> QED
    BY <2>2, <2>3 DEF Safe
<1>4. ASSUME NEW m \in Nets, SwapRips(m) PROVE Safe'
  <2>1. /\ frame'.net = frame.net /\ frame'.ripped = Append(frame.ripped, Victim(m))
        /\ frame'.blockers = frame.blockers /\ pos' = pos
        /\ UNCHANGED <<phase, entry, queueVars, ancestry, custody>>
        /\ pc = "swap" /\ pc' = "swap" /\ IsRouted(m) /\ RipUp(m) /\ m \notin Excluded(Net)
    BY <1>4, <1>a DEF SwapRips, Frames, loopVars
  <2>2. HandInv' /\ TurnInv' /\ Held(frame)' = Held(frame) \cup {m}
    BY <2>1, RipStep
  <2>3. Excluded(Net)' = Excluded(Net) /\ Net' = Net
    BY <2>1 DEF Excluded, Net
  <2>4. OrderInv'
    BY <2>1, <2>2, <2>3 DEF SafeInv, OrderInv, Climbing
  <2> QED
    BY <2>2, <2>4 DEF Safe
<1>5. ASSUME NEW r \in AllRoutes, SwapSucceeds(r) PROVE Safe'
  <2>n. PICK n : n = Net
    OBVIOUS
  <2>1. /\ n \in Nets /\ frame' = Idle /\ pc' = "loop" /\ pos' = pos
        /\ UNCHANGED <<ripSaved, refused, phase, ancestry>> /\ CommitVictims(queued)
        /\ Books(n, Found(n, r)) /\ r \in SUBSET Cells
    BY <1>5, <1>a, <2>n, CopperAssumption DEF SwapSucceeds, CloseFrame, Goto, loopVars
  <2>2. Found(n, r) # None
    <3>1. Found(n, r) \in Results
      BY <2>1 DEF Found, Results
    <3> QED
      BY <3>1, NoneIsNoResult
  <2>3. \A m \in Nets : IsRouted(m)' <=> IsRouted(m) \/ m = n
    BY <1>a, <2>1, <2>2 DEF Books, IsRouted, BoardTypeOK
  <2> QED
    BY <2>n, <2>1, <2>3, LandingIsSafe
<1>6. ASSUME SwapFails \/ SwapUnwound PROVE Safe'
  <2>1. /\ UNCHANGED <<boardVars, frame, phase, entry, queueVars, ancestry, custody, pos>>
        /\ pc # "loop" /\ pc' \in {"swapUnwind", "failed"}
        /\ (pc' = "failed" => frame.ripped = <<>>)
    BY <1>6 DEF SwapFails, SwapUnwound, Goto, loopVars
  <2>2. HandInv' /\ TurnInv'
    BY <2>1, QuietStep
  <2>3. OrderInv'
    BY <2>1, OrderKept DEF Climbing
  <2> QED
    BY <2>2, <2>3 DEF Safe
<1>7. ASSUME SwapRestores PROVE Safe'
  BY <1>7, RestoreLastIsSafe DEF SwapRestores
<1>8. ASSUME SEGivesUp PROVE Safe'
  <2>n. PICK n : n = Net
    OBVIOUS
  <2>1. /\ pc = "failed" /\ frame' = Idle /\ pc' = "loop" /\ phase' = phase
        /\ UNCHANGED <<boardVars, queue, qi, queued, custody, ancestry, pos>>
    BY <1>8 DEF SEGivesUp, CloseFrame, Goto, queueVars, loopVars
  <2>2. frame.ripped = <<>> /\ Held(frame) = {}
    BY <2>1 DEF SafeInv, HandInv, Held
  <2>3. \A i \in DOMAIN queue : i >= qi => queue[i] # n
    BY <2>n DEF SafeInv, TurnInv, Pending, Waits
  <2>4. /\ \A m : IsRouted(m)' <=> IsRouted(m)
        /\ UNCHANGED <<ripSaved, refused>> /\ Ahead' = Ahead
    BY <2>1 DEF IsRouted, boardVars, Ahead
  <2> QED
    BY SMTT(30), <1>a, <2>1, <2>2, <2>3, <2>4, ClosedIsSafe
<1>9. ASSUME SEDone PROVE Safe'
  <2>1. /\ phase' # "se" /\ UNCHANGED <<boardVars, pc, frame, queue, qi, queued, custody, ancestry>>
        /\ pc = "loop"
    BY <1>9 DEF SEDone, AtLoopHead, queueVars
  <2>2. frame = Idle /\ Held(frame) = {}
    BY <1>a, <2>1, HandFacts DEF LoopInv
  <2>3. \A i \in DOMAIN queue : queue[i] # None
    BY <1>a
  <2>4. /\ \A m : IsRouted(m)' <=> IsRouted(m)
        /\ UNCHANGED <<ripSaved, refused>>
    BY <2>1 DEF IsRouted, boardVars
  <2> QED
    BY <1>a, <2>1, <2>2, <2>3, <2>4, ClosedIsSafe
<1> QED
  BY <1>1, <1>2, <1>3, <1>4, <1>5, <1>6, <1>7, <1>8, <1>9 DEF SEStep
(* The steps of the reroute loop.                                          *)
LEMMA RerouteIsSafe ==
  ASSUME SafeInv, LoopInv', RerouteStep
  PROVE  Safe'
<1>a. /\ frame \in Frames /\ BoardTypeOK /\ BookInv /\ LoopInv
      /\ (pc # "loop" => Net \in Nets /\ ~IsRouted(Net))
      /\ qi \in Nat \ {0} /\ queue \in Seq(Nets) /\ None \notin Nets
  BY HandFacts, NetsAssumption DEF SafeInv, LoopInv, TurnInv
<1>t. ASSUME NEW n \in Nets, TakeItem(n)
      PROVE  /\ phase = "reroute" /\ pc = "loop" /\ frame = Idle /\ Held(frame) = {}
             /\ ~IsRouted(n) /\ qi' \in Nat /\ qi' >= qi
             /\ \A i \in DOMAIN queue : i >= qi' => queue[i] # n
  <2>1. /\ phase = "reroute" /\ pc = "loop" /\ n = queue[qi] /\ qi \in DOMAIN queue
        /\ qi' = qi + 1 /\ ~IsRouted(n)
    BY <1>t DEF TakeItem, AtLoopHead
  <2>2. frame = Idle /\ Held(frame) = {}
    BY <1>a, <2>1, HandFacts DEF LoopInv
  <2>3. \A i \in DOMAIN queue : i >= qi' => queue[i] # n
    <3> SUFFICES ASSUME NEW i \in DOMAIN queue, i >= qi + 1, queue[i] = queue[qi]
                 PROVE  FALSE
      BY <2>1
    <3>1. i \in Nat /\ i >= qi /\ i # qi /\ qi >= qi
      BY <1>a
    <3> QED
      BY <2>1, <3>1 DEF SafeInv, TurnInv, Pending
  <2> QED
    BY <1>a, <2>1, <2>2, <2>3
<1>1. ASSUME NEW n \in Nets, NEW r \in AllRoutes, Reroutes(n, r) PROVE Safe'
  <2>t. /\ TakeItem(n) /\ RecordSuccess(n, r, copper[n]) /\ queued' = queued \ {n}
        /\ UNCHANGED <<pc, phase, frame, queue, ancestry, custody, pos>>
        /\ r \in SUBSET Cells
    BY <1>1, CopperAssumption DEF Reroutes, RoutesOn, loopVars
  <2>1. /\ pc = "loop" /\ frame = Idle /\ Held(frame) = {} /\ ~IsRouted(n)
        /\ qi' \in Nat /\ qi' >= qi /\ Ahead' = Ahead
        /\ \A i \in DOMAIN queue : i >= qi' => queue[i] # n
    BY <1>t, <2>t DEF Ahead
  <2>2. \A m \in Nets : IsRouted(m)' <=> IsRouted(m) \/ m = n
    BY <1>a, <2>t, <2>1, SuccessKeepsBooks
  <2>3. UNCHANGED <<ripSaved, refused>>
    BY <2>t DEF RecordSuccess
  <2> QED
    BY <2>t, <2>1, <2>2, <2>3, ClosedIsSafe
<1>2. ASSUME NEW n \in Nets, RerouteFails(n) \/ RerouteOpensLadder(n) PROVE Safe'
  <2>t. /\ TakeItem(n) /\ UNCHANGED <<boardVars, phase, queue, queued, ancestry, custody, pos>>
        /\ entry' = Snapshot
    BY <1>2 DEF RerouteOpensLadder, RerouteFails, OpenLadder, SkipLadder, loopVars
  <2>1. /\ phase = "reroute" /\ pc = "loop" /\ qi' \in Nat /\ qi' >= qi
        /\ \A i \in DOMAIN queue : i >= qi' => queue[i] # n
    BY <1>t, <2>t
  <2>2. PICK bs : /\ bs \in FirstBlockers(n) \/ bs = <<>>
                  /\ frame'.net = n /\ frame'.ripped = <<>> /\ frame'.blockers = bs
                  /\ pc' \in {"ladder", "failed"}
    <3>1. CASE RerouteFails(n)
      BY <3>1, OpenedFields DEF RerouteFails, SkipLadder, Goto
    <3>2. CASE RerouteOpensLadder(n)
      <4>1. PICK bs \in FirstBlockers(n) : OpenLadder(n, bs)
        BY <3>2 DEF RerouteOpensLadder
      <4> QED
        BY <4>1, OpenedFields DEF OpenLadder, Goto
    <3> QED
      BY <1>2, <3>1, <3>2
  <2> QED
    BY <2>t, <2>1, <2>2, OpenedIsSafe
<1>3. ASSUME TerminalFull \/ TerminalStub PROVE Safe'
  <2>n. PICK n : n = Net
    OBVIOUS
  <2>p. PICK p : p = ripSaved[n]
    OBVIOUS
  <2>1. /\ pc = "failed" /\ phase = "reroute" /\ frame' = Idle /\ pc' = "loop" /\ phase' = phase
        /\ UNCHANGED <<queue, qi, queued, custody, ancestry, pos>>
        /\ n \in Nets /\ ~IsRouted(n) /\ p \in Payloads
    BY <1>3, <1>a, <2>n, <2>p DEF TerminalFull, TerminalStub, AtTerminalFailure, TerminalStep,
                            CloseFrame, Goto, queueVars, loopVars, BoardTypeOK
  <2>2. frame.ripped = <<>> /\ Held(frame) = {}
    BY <2>1 DEF SafeInv, HandInv, Held
  <2>3. \A i \in DOMAIN queue : i >= qi => queue[i] # n
    BY <2>n DEF SafeInv, TurnInv, Pending, Waits
  <2>4. /\ \A m \in Nets : IsRouted(m)' => IsRouted(m) \/ m = n
        /\ \A m \in Nets : ripSaved'[m] # None /\ ~IsRouted(m)' =>
                             ripSaved'[m] = ripSaved[m] /\ ~IsRouted(m)
        /\ UNCHANGED refused
    <3>1. CASE TerminalFull
      <4>1. /\ RestoreNet(n, p) /\ ~Collides(n, p.saved.cells)
        BY <2>n, <2>p, <3>1 DEF TerminalFull
      <4>2. ripSaved' = [ripSaved EXCEPT ![n] = None] /\ Books(n, p.saved) /\ UNCHANGED refused
        BY <4>1 DEF RestoreNet
      <4> QED
        BY <1>a, <2>1, <4>2 DEF Books, IsRouted, BoardTypeOK
    <3>2. CASE TerminalStub
      <4>1. RestoreStub(n, p)
        BY <2>n, <2>p, <3>2 DEF TerminalStub
      <4> QED
        BY <4>1 DEF RestoreStub, IsRouted
    <3> QED
      BY <1>3, <3>1, <3>2
  <2> QED
    BY SMTT(30), <1>a, <2>1, <2>2, <2>3, <2>4, ClosedIsSafe
<1>4. ASSUME RerouteDone PROVE Safe'
  <2>1. /\ phase' # "se" /\ UNCHANGED <<boardVars, pc, frame, queue, qi, queued, custody, ancestry>>
        /\ pc = "loop"
    BY <1>4 DEF RerouteDone, AtLoopHead, queueVars
  <2>2. frame = Idle /\ Held(frame) = {}
    BY <1>a, <2>1, HandFacts DEF LoopInv
  <2>3. \A i \in DOMAIN queue : queue[i] # None
    BY <1>a
  <2>4. /\ \A m : IsRouted(m)' <=> IsRouted(m)
        /\ UNCHANGED <<ripSaved, refused>>
    BY <2>1 DEF IsRouted, boardVars
  <2> QED
    BY <1>a, <2>1, <2>2, <2>3, <2>4, ClosedIsSafe
<1> QED
  BY <1>1, <1>2, <1>3, <1>4 DEF RerouteStep

LEMMA SafeInit ==
  ASSUME Init
  PROVE  SafeInv
<1>1. LoopInv
  BY LoopInit
<1>2. /\ frame = Idle /\ pc = "loop" /\ queue = <<>> /\ qi = 1
      /\ ancestry = [n \in Nets |-> {}]
      /\ ripSaved = [n \in Nets |-> None] /\ refused = [n \in Nets |-> None]
  BY DEF Init, BoardInit, LadderInit
<1>3. frame.ripped = <<>> /\ DOMAIN frame.blockers = {} /\ Net = None
  BY <1>2 DEF Idle, Net
<1>4. HandInv
  BY <1>1, <1>2, <1>3, EmptyHand DEF HandInv, LoopInv, Inv, BoardInv
<1>5. OrderInv
  BY <1>2, <1>3 DEF OrderInv, Climbing
<1>6. TurnInv
  BY <1>2 DEF TurnInv, Pending, NothingRefused
<1> QED
  BY <1>1, <1>4, <1>5, <1>6 DEF SafeInv

LEMMA SafeNext ==
  ASSUME SafeInv, [Next]_vars
  PROVE  SafeInv'
<1>1. LoopInv'
  BY LoopNext DEF SafeInv
<1>2. CASE SEStep
  BY <1>1, <1>2, SEIsSafe DEF SafeInv, Safe
<1>3. CASE RerouteStep
  BY <1>1, <1>3, RerouteIsSafe DEF SafeInv, Safe
<1>4. CASE LadderStep /\ UNCHANGED loopVars
  BY <1>1, <1>4, LadderIsSafe DEF SafeInv, Safe
<1>5. CASE Cancel \/ Finished \/ UNCHANGED vars
  <2>1. UNCHANGED <<boardVars, pc, phase, frame, entry, queueVars, ancestry, custody, pos>>
    BY <1>5 DEF Cancel, Finished, vars, ladderVars, loopVars
  <2>2. CASE pc = "loop"
    <3>1. /\ frame = Idle /\ Held(frame) = {} /\ qi \in Nat
          /\ \A i \in DOMAIN queue : queue[i] # None
      BY <2>2, HandFacts, NetsAssumption DEF SafeInv, LoopInv, TurnInv
    <3>2. /\ \A m : IsRouted(m)' <=> IsRouted(m)
          /\ UNCHANGED <<ripSaved, refused, queue, qi, queued>> /\ Ahead' = Ahead
      BY <2>1 DEF IsRouted, boardVars, queueVars, Ahead
    <3>3. Safe'
      BY <1>1, <2>1, <2>2, <3>1, <3>2, ClosedIsSafe
    <3> QED
      BY <1>1, <3>3 DEF SafeInv, Safe
  <2>3. CASE pc # "loop"
    <3>1. HandInv' /\ TurnInv'
      BY <2>1, <2>3, QuietStep DEF SafeInv, HandInv
    <3>2. OrderInv'
      BY <2>1 DEF SafeInv, OrderInv, Climbing, Orderly, Held, Net, Excluded, IsRouted, boardVars
    <3> QED
      BY <1>1, <3>1, <3>2 DEF SafeInv
  <2> QED
    BY <2>2, <2>3
<1> QED
  BY <1>2, <1>3, <1>4, <1>5 DEF Next
----------------------------------------------------------------------------
LEMMA OrderlyLadder ==
  ASSUME SafeInv
  PROVE  RipsAreOrderly
<1>1. frame.ripped \in Seq(Victims) /\ frame.blockers \in Seq(Nets)
  BY FrameFields DEF SafeInv
<1>2. IsInjective(frame.blockers)
  BY DEF SafeInv, OrderInv, IsInjective
<1>3. ASSUME Climbing
      PROVE  /\ RippedNets = SubSeq(frame.blockers, 1, Len(frame.ripped))
             /\ \A i \in Len(frame.ripped) + 1 .. Len(frame.blockers) :
                  IsRouted(frame.blockers[i])
  <2>1. Orderly(frame.blockers)
    BY <1>3 DEF SafeInv, OrderInv
  <2>2. PICK k, l \in Nat : k = Len(frame.ripped) /\ l = Len(frame.blockers)
    BY <1>1
  <2>3. DOMAIN frame.ripped = 1..k /\ DOMAIN frame.blockers = 1..l
    BY <1>1, <2>2
  <2>4. \A i \in 1..k : i \in 1..l /\ frame.ripped[i].net = frame.blockers[i]
    BY <2>1, <2>3 DEF Orderly
  <2>5. k <= l
    <3>1. CASE k = 0
      BY <2>2, <3>1
    <3>2. CASE k # 0
      BY <2>2, <2>4, <3>2
    <3> QED
      BY <3>1, <3>2
  <2>6. \A i \in k + 1 .. l : IsRouted(frame.blockers[i])
    <3> TAKE i \in k + 1 .. l
    <3>1. i \in 1..l /\ i \notin 1..k
      BY <2>2
    <3> QED
      BY <2>1, <2>3, <3>1 DEF Orderly
  <2>7. SubSeq(frame.blockers, 1, k) = [i \in 1..k |-> frame.blockers[i]]
    BY <1>1, <2>2, <2>3, <2>5
  <2>8. RippedNets = [i \in 1..k |-> frame.blockers[i]]
    BY <2>3, <2>4 DEF RippedNets
  <2> QED
    BY <2>2, <2>6, <2>7, <2>8
<1>4. NeverRipsItsRipper
  BY HeldIsInLadder DEF SafeInv, OrderInv, NeverRipsItsRipper
<1> QED
  BY <1>2, <1>3, <1>4 DEF RipsAreOrderly, RipsAreAPrefix, Climbing, SafeInv, OrderInv

LEMMA FailureIsUndone ==
  ASSUME SafeInv
  PROVE  FailedLadderLeavesNoTrace
<1> SUFFICES ASSUME pc = "failed"
             PROVE  /\ copper = entry.copper /\ work = entry.work
                    /\ routed = entry.routed /\ results = entry.results
                    /\ remaining = entry.remaining
  BY DEF FailedLadderLeavesNoTrace
<1>1. Held(frame) = {} /\ Undoes({}, entry)
  BY DEF SafeInv, HandInv, Held
<1>2. \A n \in Nets : Taken({})[n] = {}
  BY DEF Taken
<1>3. BoardTypeOK
  BY HandFacts DEF SafeInv
<1>4. entry.copper = [n \in Nets |-> copper[n]] /\ copper \in [Nets -> SUBSET Cells]
  BY <1>1, <1>2, <1>3 DEF Undoes, BoardTypeOK
<1>5. entry.work = [c \in Cells |-> work[c]] /\ work \in [Cells -> Nat]
  BY <1>1, <1>3 DEF Undoes, BoardTypeOK
<1>6. entry.routed = [n \in Nets |-> routed[n]] /\ routed \in [Nets -> Results \cup {None}]
  BY <1>1, <1>3 DEF Undoes, BoardTypeOK
<1>7. entry.results = results /\ entry.remaining = remaining
  BY <1>1 DEF Undoes, Noted
<1> QED
  BY <1>4, <1>5, <1>6, <1>7

LEMMA TurnsAreKept ==
  ASSUME SafeInv
  PROVE  VictimsKeepTheirTurn /\ NoNetForgotten
<1>1. queue \in Seq(Nets) /\ qi \in Nat \ {0} /\ NothingRefused
  BY DEF SafeInv, TurnInv
<1>2. PICK l \in Nat : l = Len(queue)
  BY <1>1
<1>3. DOMAIN queue = 1..l /\ \A i \in qi..l : i \in 1..l /\ Pending(i)
  BY <1>1, <1>2 DEF Pending
<1>4. \A i \in qi..l : ~IsRouted(queue[i])
  BY <1>3 DEF SafeInv, TurnInv, Waits
<1>5. \A i, j \in qi..l : queue[i] = queue[j] => i = j
  BY <1>3 DEF SafeInv, TurnInv
<1>6. IsInjective(SubSeq(queue, qi, l))
  <2>1. PICK s : s = SubSeq(queue, qi, l)
    OBVIOUS
  <2>2. /\ DOMAIN s = 1..(l - qi + 1) \/ s = <<>>
        /\ \A i \in DOMAIN s : qi + i - 1 \in qi..l /\ s[i] = queue[qi + i - 1] /\ i \in Nat
    <3>1. CASE qi <= l
      <4>1. DOMAIN s = 1..(l - qi + 1)
            /\ \A i \in 1..(l - qi + 1) : s[i] = queue[qi + i - 1]
        BY <1>1, <1>2, <1>3, <2>1, <3>1
      <4> QED
        BY <1>1, <1>2, <4>1
    <3>2. CASE ~(qi <= l)
      BY <1>1, <1>2, <2>1, <3>2
    <3> QED
      BY <3>1, <3>2
  <2>3. \A i, j \in DOMAIN s : s[i] = s[j] => i = j
    <3> TAKE i, j \in DOMAIN s
    <3>1. s[i] = s[j] => qi + i - 1 = qi + j - 1
      BY <1>5, <2>2
    <3>2. qi \in Nat /\ i \in Nat /\ j \in Nat
      BY <1>1, <2>2
    <3> QED
      BY <3>1, <3>2
  <2> QED
    BY <2>1, <2>3 DEF IsInjective
<1>7. NoNetForgotten
  BY HeldIsInLadder DEF SafeInv, TurnInv, NoNetForgotten
<1> QED
  BY <1>1, <1>2, <1>4, <1>6, <1>7 DEF VictimsKeepTheirTurn, PendingItemsAreUnrouted

LEMMA AlwaysSafe == Spec => []SafeInv
<1>1. Init => SafeInv
  BY SafeInit
<1>2. SafeInv /\ [Next]_vars => SafeInv'
  BY SafeNext
<1> QED
  BY <1>1, <1>2, PTL DEF Spec

(* A ladder rips the nets of its blocker list in the order of the list,    *)
(* none twice, and never one that evicted the net it works for; the rest   *)
(* of the list is on the board, through the promotions of freshly blamed   *)
(* nets and the slot-0 guard.                                              *)
THEOREM LadderIsOrderly == Spec => []RipsAreOrderly
<1>1. SafeInv => RipsAreOrderly
  BY OrderlyLadder
<1> QED
  BY <1>1, AlwaysSafe, PTL

(* When every level has failed and the victims are back, the board, the    *)
(* reference counts of the map, the results and the ledgers are what they  *)
(* were when the ladder was opened (docs/rip-up-reroute.md: "every ripped  *)
(* net is restored unchanged").                                            *)
THEOREM FailureLeavesNoTrace == Spec => []FailedLadderLeavesNoTrace
<1>1. SafeInv => FailedLadderLeavesNoTrace
  BY FailureIsUndone
<1> QED
  BY <1>1, AlwaysSafe, PTL

(* A victim is pending once and unrouted until its turn, and no restore of *)
(* the two loops finds its corridor taken.                                 *)
THEOREM VictimsAreKept == Spec => []VictimsKeepTheirTurn
<1>1. SafeInv => VictimsKeepTheirTurn
  BY TurnsAreKept
<1> QED
  BY <1>1, AlwaysSafe, PTL

(* A net that was ripped is back, in the ladder that ripped it, or in      *)
(* custody with exactly the copper its last rip took.                      *)
THEOREM NothingIsForgotten == Spec => []NoNetForgotten
<1>1. SafeInv => NoNetForgotten
  BY TurnsAreKept
<1> QED
  BY <1>1, AlwaysSafe, PTL
----------------------------------------------------------------------------
(* The loops implement EvictionBoard.  An observer who counts the nets in  *)
(* hand as present sees the board move only when a net lands, with the     *)
(* eviction of all that was ripped for it, or when the terminal restore    *)
(* gives an evicted net copper back.  What has to be known beside SafeInv  *)
(* is that there is copper to see: no result is empty.                     *)
Bodied ==
  /\ \A n \in Nets : IsRouted(n) => routed[n].cells # {}
  /\ \A n \in Nets : ripSaved[n] # None => ripSaved[n].saved.cells # {}

(* The kinds of steps, as far as the board is concerned.                   *)
Quiet == UNCHANGED <<copper, routed, ripSaved>> /\ frame'.ripped = frame.ripped

Ripping == pc # "loop" /\ pc' # "loop" /\ entry' = entry

TakesInHand(m) ==
  /\ Ripping /\ IsRouted(m) /\ RipUp(m) /\ Held(frame)' = Held(frame) \cup {m}

LaysDown(n) ==
  /\ Ripping /\ n \in Held(frame) /\ Held(frame)' = Held(frame) \ {n}
  /\ ripSaved' = [ripSaved EXCEPT ![n] = None]
  /\ routed' = [routed EXCEPT ![n] = ripSaved[n].saved]

Lands(n, r) ==
  /\ ~IsRouted(n) /\ n \notin Held(frame) /\ Held(frame)' = {}
  /\ r \in RouteOptions[n] /\ r \cap copper[n] = {} /\ r \subseteq copper'[n]
  /\ \A m \in Nets : m # n => copper'[m] = copper[m]
  /\ routed' = [routed EXCEPT ![n] = Found(n, r)] /\ ripSaved' = ripSaved

ComesBack(n) ==
  /\ ~IsRouted(n) /\ ripSaved[n] # None /\ Held(frame) = {} /\ Held(frame)' = {}
  /\ copper[n] \subseteq copper'[n] /\ \A m \in Nets : m # n => copper'[m] = copper[m]
  /\ \/ /\ routed' = [routed EXCEPT ![n] = ripSaved[n].saved]
        /\ ripSaved' = [ripSaved EXCEPT ![n] = None]
     \/ UNCHANGED <<routed, ripSaved>>

(* What a search returns is new copper.                                    *)
LEMMA RouteIsNew ==
  ASSUME Inv, NEW n \in Nets, NEW r
  PROVE  /\ r \in RoutesOn(n, PreparedMap(n)) => r \in RouteOptions[n] /\ r \cap copper[n] = {}
         /\ r \in RouteOptions[n] /\ r \cap BlockedRows(work) = {} => r \cap copper[n] = {}
<1>1. r \in RoutesOn(n, PreparedMap(n)) => r \in RouteOptions[n] /\ r \cap copper[n] = {}
  BY DEF RoutesOn
<1>2. ASSUME NEW c \in copper[n], c \notin BlockedRows(work) PROVE FALSE
  <2>1. /\ c \in Cells /\ n \in Stampers(c) /\ Stampers(c) \in SUBSET Nets
        /\ work[c] \in Nat /\ work[c] >= Cardinality(Stampers(c))
    BY <1>2 DEF Inv, BoardInv, CacheMirrorsBoard, MapCovers, BoardTypeOK, Stampers
  <2>2. IsFiniteSet(Stampers(c))
    BY <2>1, NetsAssumption, FS_Subset
  <2>3. Cardinality(Stampers(c)) \in Nat /\ Cardinality(Stampers(c)) # 0
    BY <2>1, <2>2, FS_CardinalityType, FS_EmptySet
  <2>4. c \in BlockedRows(work)
    BY <2>1, <2>3 DEF BlockedRows, BoardTypeOK, Inv, BoardInv
  <2> QED
    BY <1>2, <2>4
<1> QED
  BY <1>1, <1>2

LEMMA RecordedLanding ==
  ASSUME LoopInv, NEW n \in Nets, ~IsRouted(n), NEW r, r \in RoutesOn(n, PreparedMap(n)),
         NEW kept, RecordSuccess(n, r, kept), n \notin Held(frame), Held(frame)' = {}
  PROVE  Lands(n, r)
<1>1. r \in RouteOptions[n] /\ r \cap copper[n] = {}
  BY RouteIsNew DEF LoopInv
<1>2. /\ copper' = [copper EXCEPT ![n] = kept \cup r] /\ Books(n, Found(n, r))
      /\ ripSaved' = ripSaved
  BY DEF RecordSuccess, Restamp
<1> QED
  BY <1>1, <1>2 DEF Lands, Books, LoopInv, Inv, BoardInv, BoardTypeOK

LEMMA RestoringIsSeen ==
  ASSUME SafeInv, NEW v, frame.ripped # <<>>, v = frame.ripped[Len(frame.ripped)],
         RestoreNet(v.net, v.payload),
         frame'.net = frame.net, frame'.ripped = Front(frame.ripped),
         pc \notin {"loop", "failed"}, pc' \notin {"loop", "failed"},
         UNCHANGED <<phase, pos, entry, queueVars, custody>>
  PROVE  \E n \in Nets : LaysDown(n)
<1>1. /\ Held(frame)' = Held(frame) \ {v.net} /\ v.net \in Nets
      /\ \A n \in Nets : IsRouted(n)' <=> IsRouted(n) \/ n = v.net
  BY RestoreStep
<1>2. PICK n, p : n = v.net /\ p = v.payload
  OBVIOUS
<1>3. frame.ripped \in Seq(Victims)
  BY FrameFields DEF SafeInv
<1>4. Len(frame.ripped) \in DOMAIN frame.ripped
  BY <1>3
<1>5. n \in Held(frame) /\ ~IsRouted(n) /\ ripSaved[n] = p
  BY <1>2, <1>4, HandFacts DEF Held, SafeInv, HandInv
<1>6. IsRouted(n)' /\ RestoreNet(n, p)
  BY <1>1, <1>2
<1>7. ripSaved' = [ripSaved EXCEPT ![n] = None] /\ routed' = [routed EXCEPT ![n] = p.saved]
  BY <1>5, <1>6 DEF RestoreNet, Books, IsRouted
<1> QED
  BY <1>1, <1>2, <1>5, <1>7 DEF LaysDown, Ripping
Kinds ==
  \/ Quiet
  \/ \E m \in Nets : TakesInHand(m)
  \/ \E n \in Nets : LaysDown(n)
  \/ \E n \in Nets : \E r : Lands(n, r)
  \/ \E n \in Nets : ComesBack(n)

LEMMA RestoreLastKind ==
  ASSUME SafeInv, NEW label \in {"unwind", "swapUnwind"}, RestoreLast(label), UNCHANGED loopVars
  PROVE  Kinds
<1>a. frame \in Frames /\ frame.ripped \in Seq(Victims) /\ pos' = pos
  BY FrameFields DEF SafeInv, loopVars
<1>1. PICK v : v = frame.ripped[Len(frame.ripped)]
  OBVIOUS
<1>2. /\ frame.ripped # <<>> /\ RestoreNet(v.net, v.payload) /\ pc = label /\ pc' = label
      /\ frame'.net = frame.net /\ frame'.ripped = Front(frame.ripped)
      /\ UNCHANGED <<phase, entry, queueVars, custody>>
  BY <1>a, <1>1 DEF RestoreLast, Last, Frames
<1> QED
  BY <1>a, <1>1, <1>2, RestoringIsSeen DEF Kinds

LEMMA LadderKinds ==
  ASSUME SafeInv, LadderStep, UNCHANGED loopVars
  PROVE  Kinds
<1>a. /\ frame \in Frames /\ frame.ripped \in Seq(Victims) /\ frame.blockers \in Seq(Nets)
      /\ LoopInv /\ BoardTypeOK /\ pos' = pos
      /\ (pc # "loop" => Net \in Nets /\ ~IsRouted(Net))
      /\ \A n \in Held(frame) : n # Net
  BY FrameFields, HandFacts DEF SafeInv, loopVars
<1>1. ASSUME NEW m \in Nets, SlotZeroGuard(m) PROVE Kinds
  <2>1. /\ pc = "ladder" /\ pc' = pc /\ Len(frame.ripped) = 1
        /\ RestoreNet(frame.ripped[1].net, frame.ripped[1].payload)
        /\ UNCHANGED <<phase, entry, queueVars, custody>>
        /\ frame'.net = frame.net /\ frame'.ripped = <<>>
    BY <1>1, <1>a DEF SlotZeroGuard, GuardApplies, Frames
  <2>2. PICK v : v = frame.ripped[1]
    OBVIOUS
  <2>3. frame.ripped # <<>> /\ v = frame.ripped[Len(frame.ripped)] /\ Front(frame.ripped) = <<>>
    BY <1>a, <2>1, <2>2 DEF Front
  <2>4. frame'.ripped = Front(frame.ripped) /\ RestoreNet(v.net, v.payload)
    BY <2>1, <2>2, <2>3
  <2> QED
    BY <1>a, <2>1, <2>3, <2>4, RestoringIsSeen DEF Kinds
<1>2. ASSUME \/ NextLevel \/ LadderExhausted \/ Unwound
             \/ \E cells \in BOOLEAN : RetryFails(cells)
      PROVE  Kinds
  <2>1. UNCHANGED boardVars /\ frame'.ripped = frame.ripped
    BY <1>2, <1>a DEF NextLevel, LadderExhausted, Unwound, RetryFails, Frames
  <2> QED
    BY <2>1 DEF Kinds, Quiet, boardVars
<1>3. ASSUME RipOne PROVE Kinds
  <2>m. PICK m : m = frame.blockers[Len(frame.ripped) + 1]
    OBVIOUS
  <2>1. pc = "rip" /\ m \in Nets
    <3>1. pc = "rip"
      BY <1>3 DEF RipOne
    <3>2. /\ Len(frame.ripped) < frame.level /\ frame.level <= Len(frame.blockers)
          /\ frame.level \in Nat
      BY <1>a, <3>1, FrameFields DEF LoopInv, Inv, LadderTypeOK
    <3>3. Len(frame.ripped) \in Nat /\ Len(frame.blockers) \in Nat
      BY <1>a
    <3>4. Len(frame.ripped) + 1 \in 1..Len(frame.blockers)
      BY <3>2, <3>3
    <3>5. Len(frame.ripped) + 1 \in DOMAIN frame.blockers
      BY <1>a, <3>4
    <3> QED
      BY <1>a, <2>m, <3>1, <3>5
  <2>2. /\ IsRouted(m) /\ RipUp(m) /\ pc' \in {"retry", "rip"}
        /\ frame'.net = frame.net /\ frame'.ripped = Append(frame.ripped, Victim(m))
        /\ UNCHANGED <<phase, entry, queueVars, custody>>
    BY <1>3, <1>a, <2>m DEF RipOne, Goto, Frames
  <2>3. Held(frame)' = Held(frame) \cup {m}
    BY <1>a, <2>1, <2>2, RipStep
  <2> QED
    BY <2>1, <2>2, <2>3 DEF Kinds, TakesInHand, Ripping
<1>4. ASSUME NEW r \in AllRoutes, RetrySucceeds(r) PROVE Kinds
  <2>n. PICK n : n = Net
    OBVIOUS
  <2>1. /\ n \in Nets /\ ~IsRouted(n) /\ n \notin Held(frame) /\ frame' = Idle
        /\ r \in RoutesOn(n, PreparedMap(n))
    BY <1>4, <1>a, <2>n DEF RetrySucceeds, CloseFrame
  <2>2. PICK kept : RecordSuccess(n, r, kept)
    BY <1>4, <2>n DEF RetrySucceeds
  <2>3. Held(frame)' = {}
    BY <2>1, IdleHand DEF Held
  <2> QED
    BY <1>a, <2>1, <2>2, <2>3, RecordedLanding DEF Kinds
<1>5. ASSUME UnwindOne PROVE Kinds
  BY <1>5, RestoreLastKind DEF UnwindOne
<1> QED
  BY <1>1, <1>2, <1>3, <1>4, <1>5 DEF LadderStep

LEMMA SEKinds ==
  ASSUME SafeInv, SEStep
  PROVE  Kinds
<1>a. /\ frame \in Frames /\ BoardTypeOK /\ LoopInv
      /\ (pc # "loop" => Net \in Nets /\ ~IsRouted(Net))
      /\ (pc = "loop" => frame.ripped = <<>> /\ Held(frame) = {})
      /\ \A n \in Held(frame) : n # Net
  BY HandFacts DEF SafeInv
<1>1. ASSUME NEW r \in AllRoutes, SERoutes(r) PROVE Kinds
  <2>n. PICK n : n = Order[pos]
    OBVIOUS
  <2>1. /\ SETurn /\ UNCHANGED frame /\ r \in RoutesOn(n, PreparedMap(n))
    BY <1>1, <2>n DEF SERoutes, ladderVars
  <2>2. n \in Nets /\ ~IsRouted(n) /\ frame = Idle
    BY <1>a, <2>1, <2>n, TakingTheNext
  <2>3. PICK kept : RecordSuccess(n, r, kept)
    BY <1>1, <2>n DEF SERoutes
  <2>4. Held(frame)' = {} /\ Held(frame) = {}
    BY <2>1, <2>2, IdleHand DEF Held
  <2> QED
    BY <1>a, <2>1, <2>2, <2>3, <2>4, RecordedLanding DEF Kinds
<1>2. ASSUME \/ SEOpensLadder \/ SEFails \/ SEDone \/ SwapFails \/ SwapUnwound
             \/ \E dest \in UNION {StubSites[n] : n \in Nets} : BeginSwap(dest)
             \/ SEGivesUp
      PROVE  Kinds
  <2>1. UNCHANGED boardVars
    BY <1>2 DEF SEOpensLadder, SEFails, SEDone, SwapFails, SwapUnwound, BeginSwap, SEGivesUp
  <2>2. frame'.ripped = frame.ripped
    <3>1. CASE SEOpensLadder \/ SEFails
      <4>1. pc = "loop"
        BY <3>1 DEF SEOpensLadder, SEFails, SETurn, AtLoopHead
      <4>2. frame'.ripped = <<>>
        BY <3>1, IdleFrame DEF SEOpensLadder, SEFails, OpenLadder, SkipLadder, Idle
      <4> QED
        BY <1>a, <4>1, <4>2
    <3>2. CASE SEGivesUp
      BY <3>2, IdleHand DEF SEGivesUp, CloseFrame, SafeInv, HandInv
    <3>3. CASE \/ SEDone \/ SwapFails \/ SwapUnwound
               \/ \E dest \in UNION {StubSites[n] : n \in Nets} : BeginSwap(dest)
      BY <1>a, <3>3 DEF SEDone, SwapFails, SwapUnwound, BeginSwap, Frames
    <3> QED
      BY <1>2, <3>1, <3>2, <3>3
  <2> QED
    BY <2>1, <2>2 DEF Kinds, Quiet, boardVars
<1>3. ASSUME NEW m \in Nets, SwapRips(m) PROVE Kinds
  <2>1. /\ frame'.net = frame.net /\ frame'.ripped = Append(frame.ripped, Victim(m))
        /\ pos' = pos /\ UNCHANGED <<phase, entry, queueVars, custody>>
        /\ pc = "swap" /\ pc' = "swap" /\ IsRouted(m) /\ RipUp(m)
    BY <1>3, <1>a DEF SwapRips, Frames, loopVars
  <2>2. Held(frame)' = Held(frame) \cup {m}
    BY <2>1, RipStep
  <2> QED
    BY <2>1, <2>2 DEF Kinds, TakesInHand, Ripping
<1>4. ASSUME NEW r \in AllRoutes, SwapSucceeds(r) PROVE Kinds
  <2>n. PICK n : n = Net
    OBVIOUS
  <2>1. /\ n \in Nets /\ ~IsRouted(n) /\ n \notin Held(frame) /\ frame' = Idle
        /\ r \in RouteOptions[n] /\ r \cap BlockedRows(work) = {}
        /\ copper' = [copper EXCEPT ![n] = frame.dest \cup r]
        /\ Books(n, Found(n, r)) /\ ripSaved' = ripSaved
    BY <1>4, <1>a, <2>n DEF SwapSucceeds, CloseFrame
  <2>2. r \cap copper[n] = {}
    BY <1>a, <2>1, RouteIsNew DEF LoopInv
  <2>3. Held(frame)' = {}
    BY <2>1, IdleHand DEF Held
  <2>4. Lands(n, r)
    BY <1>a, <2>1, <2>2, <2>3 DEF Lands, Books, BoardTypeOK
  <2> QED
    BY <2>1, <2>4 DEF Kinds
<1>5. ASSUME SwapRestores PROVE Kinds
  BY <1>5, RestoreLastKind DEF SwapRestores
<1> QED
  BY <1>1, <1>2, <1>3, <1>4, <1>5 DEF SEStep

LEMMA RerouteKinds ==
  ASSUME SafeInv, RerouteStep
  PROVE  Kinds
<1>a. /\ frame \in Frames /\ BoardTypeOK /\ LoopInv
      /\ (pc # "loop" => Net \in Nets /\ ~IsRouted(Net))
      /\ (pc = "loop" => frame.ripped = <<>> /\ Held(frame) = {})
  BY HandFacts DEF SafeInv
<1>1. ASSUME NEW n \in Nets, NEW r \in AllRoutes, Reroutes(n, r) PROVE Kinds
  <2>1. /\ pc = "loop" /\ ~IsRouted(n) /\ UNCHANGED frame
        /\ r \in RoutesOn(n, PreparedMap(n)) /\ RecordSuccess(n, r, copper[n])
    BY <1>1 DEF Reroutes, TakeItem, AtLoopHead
  <2>2. Held(frame) = {} /\ Held(frame)' = {}
    BY <1>a, <2>1 DEF Held
  <2> QED
    BY <1>a, <2>1, <2>2, RecordedLanding DEF Kinds
<1>2. ASSUME \/ \E n \in Nets : RerouteOpensLadder(n) \/ RerouteFails(n)
             \/ RerouteDone
      PROVE  Kinds
  <2>1. UNCHANGED boardVars /\ pc = "loop"
    BY <1>2 DEF RerouteOpensLadder, RerouteFails, RerouteDone, TakeItem, AtLoopHead
  <2>2. frame'.ripped = <<>>
    BY <1>2, <1>a, IdleFrame DEF RerouteOpensLadder, RerouteFails, RerouteDone, TakeItem, AtLoopHead,
                                 OpenLadder, SkipLadder, Idle
  <2> QED
    BY <1>a, <2>1, <2>2 DEF Kinds, Quiet, boardVars
<1>3. ASSUME TerminalFull \/ TerminalStub PROVE Kinds
  <2>n. PICK n, p : n = Net /\ p = ripSaved[n]
    OBVIOUS
  <2>1. /\ pc = "failed" /\ frame' = Idle /\ p # None /\ n \in Nets /\ ~IsRouted(n)
    BY <1>3, <1>a, <2>n DEF TerminalFull, TerminalStub, AtTerminalFailure, TerminalStep, CloseFrame
  <2>2. Held(frame) = {} /\ Held(frame)' = {}
    BY <2>1, IdleHand DEF SafeInv, HandInv, Held
  <2>3. /\ copper[n] \subseteq copper'[n] /\ \A m \in Nets : m # n => copper'[m] = copper[m]
        /\ \/ /\ routed' = [routed EXCEPT ![n] = p.saved]
              /\ ripSaved' = [ripSaved EXCEPT ![n] = None]
           \/ UNCHANGED <<routed, ripSaved>>
    <3>1. CASE TerminalFull
      <4>1. RestoreNet(n, p) /\ ~Collides(n, p.saved.cells)
        BY <2>n, <3>1 DEF TerminalFull
      <4>2. /\ ripSaved' = [ripSaved EXCEPT ![n] = None] /\ Books(n, p.saved)
            /\ copper' = [copper EXCEPT ![n] = copper[n] \cup p.saved.cells]
        BY <4>1 DEF RestoreNet, Restamp
      <4> QED
        BY <1>a, <2>1, <4>2 DEF Books, BoardTypeOK
    <3>2. CASE TerminalStub
      <4>1. RestoreStub(n, p)
        BY <2>n, <3>2 DEF TerminalStub
      <4>2. /\ UNCHANGED <<routed, ripSaved>>
            /\ copper' = [copper EXCEPT ![n] = copper[n] \cup ClearStub(n, p)]
        BY <4>1 DEF RestoreStub, Restamp
      <4> QED
        BY <1>a, <2>1, <4>2 DEF BoardTypeOK
    <3> QED
      BY <1>3, <3>1, <3>2
  <2> QED
    BY <2>n, <2>1, <2>2, <2>3 DEF Kinds, ComesBack
<1> QED
  BY <1>1, <1>2, <1>3 DEF RerouteStep

LEMMA StepKinds ==
  ASSUME SafeInv, [Next]_vars
  PROVE  Kinds
<1>1. CASE Cancel \/ Finished \/ UNCHANGED vars
  BY <1>1 DEF Cancel, Finished, vars, ladderVars, boardVars, Kinds, Quiet
<1> QED
  BY <1>1, SEKinds, RerouteKinds, LadderKinds DEF Next----------------------------------------------------------------------------
LEMMA BodiedInit ==
  ASSUME Init
  PROVE  Bodied
<1>1. /\ ripSaved = [n \in Nets |-> None]
      /\ routed = [n \in Nets |-> IF n \in Existing THEN FromFile(n) ELSE None]
  BY DEF Init, BoardInit
<1> QED
  BY <1>1, RoutesHaveCopper DEF Bodied, IsRouted, FromFile

(* What the observer sees, in terms of the copper and the nets in hand.    *)
Seen ==
  /\ Held(frame) \subseteq Nets
  /\ \A n \in Held(frame) : ripSaved[n] # None /\ ~IsRouted(n)
  /\ CommittedBoard \in [Nets -> SUBSET Cells]
  /\ \A n \in Nets : CommittedBoard[n] = copper[n] \cup Taken(Held(frame))[n]
  /\ \A n \in Nets : Taken(Held(frame))[n] \cap copper[n] = {}
  /\ pc # "loop" => CommittedBoard = entry.copper
  /\ Eviction!Disjoint(CommittedBoard)
  /\ Evicted = {n \in Nets : n \notin Held(frame) /\ ripSaved[n] # None /\ ~IsRouted(n)}

LEMMA SafeIsSeen ==
  ASSUME SafeInv
  PROVE  Seen
<1>1. /\ BoardTypeOK /\ Held(frame) \in SUBSET Nets /\ Apart(Held(frame))
      /\ (pc # "loop" => Undoes(Held(frame), entry))
      /\ frame.ripped \in Seq(Victims)
  BY HandFacts, FrameFields DEF SafeInv, HandInv
<1>2. ASSUME NEW n \in Held(frame)
      PROVE  /\ CustodyOf(n) = ripSaved[n] /\ ripSaved[n] \in Payloads
             /\ ripSaved[n] # None /\ ~IsRouted(n)
  <2>1. PICK k : k = CHOOSE i \in DOMAIN frame.ripped : frame.ripped[i].net = n
    OBVIOUS
  <2>2. k \in DOMAIN frame.ripped /\ frame.ripped[k].net = n
    BY <2>1 DEF Held
  <2>3. frame.ripped[k].payload = ripSaved[n] /\ ~IsRouted(n)
    BY <2>2, HandFacts DEF SafeInv, HandInv
  <2>4. frame.ripped[k].payload \in Payloads
    BY <1>1, <2>2 DEF Victims
  <2> QED
    BY <2>1, <2>3, <2>4, NoneIsNoPayload DEF CustodyOf
<1>3. InLadder = Held(frame)
  BY HeldIsInLadder
<1>4. \A n \in Nets : CommittedBoard[n] = copper[n] \cup Taken(Held(frame))[n]
  BY <1>2, <1>3 DEF CommittedBoard, Taken
<1>5. \A n \in Nets : CommittedBoard[n] \in SUBSET Cells
  <2>1. \A n \in Nets : Taken(Held(frame))[n] \in SUBSET Cells
    BY <1>2 DEF Taken, Payloads, Results
  <2> QED
    BY <1>1, <1>4, <2>1 DEF BoardTypeOK
<1>6. CommittedBoard = [n \in Nets |-> copper[n] \cup Taken(Held(frame))[n]]
  BY <1>4 DEF CommittedBoard
<1>7. pc # "loop" => CommittedBoard = entry.copper
  BY <1>1, <1>6 DEF Undoes
<1>8. Eviction!Disjoint(CommittedBoard)
  BY <1>1, <1>4 DEF Apart, Eviction!Disjoint
<1>9. Evicted = {n \in Nets : n \notin Held(frame) /\ ripSaved[n] # None /\ ~IsRouted(n)}
  BY <1>3 DEF Evicted
<1>10. CommittedBoard \in [Nets -> SUBSET Cells]
  BY <1>5, <1>6
<1>11. \A n \in Nets : Taken(Held(frame))[n] \cap copper[n] = {}
  BY <1>1 DEF Apart
<1> QED
  BY <1>1, <1>2, <1>4, <1>7, <1>8, <1>9, <1>10, <1>11 DEF Seen

LEMMA BodiedNext ==
  ASSUME SafeInv, Bodied, [Next]_vars
  PROVE  Bodied'
<1>a. BoardTypeOK /\ \A n \in Held(frame) : n \in Nets /\ ripSaved[n] # None
  BY SafeIsSeen, HandFacts DEF SafeInv, Seen
<1>1. CASE Quiet
  BY <1>1 DEF Quiet, Bodied, IsRouted
<1>2. ASSUME NEW m \in Nets, TakesInHand(m) PROVE Bodied'
  <2>1. /\ IsRouted(m) /\ routed' = [routed EXCEPT ![m] = None]
        /\ ripSaved' = [ripSaved EXCEPT ![m] = Payload(m)]
    BY <1>2 DEF TakesInHand, RipUp
  <2>2. Payload(m).saved = routed[m]
    BY DEF Payload
  <2> QED
    BY <1>a, <2>1, <2>2 DEF Bodied, IsRouted, BoardTypeOK
<1>3. ASSUME NEW n \in Nets, LaysDown(n) PROVE Bodied'
  BY <1>a, <1>3 DEF LaysDown, Bodied, IsRouted, BoardTypeOK
<1>4. ASSUME NEW n \in Nets, NEW r, Lands(n, r) PROVE Bodied'
  <2>1. /\ r # {} /\ Found(n, r).cells = r
        /\ routed' = [routed EXCEPT ![n] = Found(n, r)] /\ ripSaved' = ripSaved
    BY <1>4, RoutesHaveCopper DEF Lands, Found
  <2> QED
    BY <1>a, <2>1 DEF Bodied, IsRouted, BoardTypeOK
<1>5. ASSUME NEW n \in Nets, ComesBack(n) PROVE Bodied'
  BY <1>a, <1>5 DEF ComesBack, Bodied, IsRouted, BoardTypeOK
<1> QED
  BY <1>1, <1>2, <1>3, <1>4, <1>5, StepKinds DEF Kinds
LEMMA SafeIsSeenNext == SafeInv' => Seen'
<1>1. SafeInv => Seen
  BY SafeIsSeen
<1> QED
  BY <1>1, PTL

Unseen == UNCHANGED <<CommittedBoard, Evicted>>

(* While the ladder stays open the board it was opened on is what is seen. *)
LEMMA RippingIsUnseen ==
  ASSUME SafeInv, SafeInv', Seen, Seen', Ripping
  PROVE  CommittedBoard' = CommittedBoard
<1>1. CommittedBoard = entry.copper
  BY DEF Ripping, Seen
<1>2. CommittedBoard' = entry'.copper
  BY DEF Ripping, Seen
<1> QED
  BY <1>1, <1>2 DEF Ripping

LEMMA QuietIsUnseen ==
  ASSUME Quiet
  PROVE  Unseen
<1>1. /\ (RippedNets' = RippedNets) /\ UNCHANGED <<copper, routed, ripSaved>>
      /\ frame'.ripped = frame.ripped
  BY DEF Quiet, RippedNets
<1>2. (InLadder' = InLadder) /\ \A n : IsRouted(n)' <=> IsRouted(n)
  BY <1>1 DEF InLadder, IsRouted
<1>3. \A n : CustodyOf(n)' = CustodyOf(n)
  BY <1>1 DEF CustodyOf
<1>4. CommittedBoard' = CommittedBoard
  BY <1>1, <1>2, <1>3 DEF CommittedBoard
<1>5. Evicted' = Evicted
  BY <1>1, <1>2 DEF Evicted
<1> QED
  BY <1>4, <1>5 DEF Unseen

LEMMA HandIsUnseen ==
  ASSUME SafeInv, SafeInv', Seen, Seen', NEW m \in Nets, TakesInHand(m) \/ LaysDown(m)
  PROVE  Unseen
<1>a. BoardTypeOK
  BY HandFacts DEF SafeInv
<1>1. CommittedBoard' = CommittedBoard
  BY RippingIsUnseen DEF TakesInHand, LaysDown
<1>2. CASE TakesInHand(m)
  <2>1. /\ IsRouted(m) /\ Held(frame)' = Held(frame) \cup {m}
        /\ routed' = [routed EXCEPT ![m] = None]
        /\ ripSaved' = [ripSaved EXCEPT ![m] = Payload(m)]
    BY <1>2 DEF TakesInHand, RipUp
  <2>2. \A n \in Nets : n # m => (IsRouted(n)' <=> IsRouted(n)) /\ ripSaved'[n] = ripSaved[n]
    BY <1>a, <2>1 DEF IsRouted, BoardTypeOK
  <2>3. m \notin Evicted /\ m \notin Evicted'
    BY <2>1 DEF Seen
  <2>4. \A n \in Nets : n # m => (n \in Evicted <=> n \in Evicted')
    BY <2>1, <2>2 DEF Seen
  <2>5. Evicted \subseteq Nets /\ Evicted' \subseteq Nets
    BY DEF Seen
  <2>6. Evicted' = Evicted
    BY <2>3, <2>4, <2>5
  <2> QED
    BY <1>1, <2>6 DEF Unseen
<1>3. CASE LaysDown(m)
  <2>1. /\ m \in Held(frame) /\ Held(frame)' = Held(frame) \ {m}
        /\ ripSaved' = [ripSaved EXCEPT ![m] = None]
        /\ routed' = [routed EXCEPT ![m] = ripSaved[m].saved]
    BY <1>3 DEF LaysDown
  <2>2. \A n \in Nets : n # m => (IsRouted(n)' <=> IsRouted(n)) /\ ripSaved'[n] = ripSaved[n]
    BY <1>a, <2>1 DEF IsRouted, BoardTypeOK
  <2>3. m \notin Evicted /\ m \notin Evicted'
    BY <1>a, <2>1 DEF Seen, BoardTypeOK
  <2>4. \A n \in Nets : n # m => (n \in Evicted <=> n \in Evicted')
    BY <2>1, <2>2 DEF Seen
  <2>5. Evicted \subseteq Nets /\ Evicted' \subseteq Nets
    BY DEF Seen
  <2>6. Evicted' = Evicted
    BY <2>3, <2>4, <2>5
  <2> QED
    BY <1>1, <2>6 DEF Unseen
<1> QED
  BY <1>2, <1>3

LEMMA LandingIsSeen ==
  ASSUME Bodied, BoardTypeOK, Seen, Seen', NEW n \in Nets, NEW r, Lands(n, r)
  PROVE  Eviction!Next
<1>1. /\ ~IsRouted(n) /\ n \notin Held(frame) /\ Held(frame)' = {}
      /\ r \in RouteOptions[n] /\ r \cap copper[n] = {} /\ r \subseteq copper'[n]
      /\ \A m \in Nets : m # n => copper'[m] = copper[m]
      /\ routed' = [routed EXCEPT ![n] = Found(n, r)] /\ ripSaved' = ripSaved
  BY DEF Lands
<1>2. \A m \in Nets : CommittedBoard'[m] = copper'[m]
  <2>1. \A m \in Nets : Taken({})'[m] = {}
    BY DEF Taken
  <2>2. \A m \in Nets : CommittedBoard'[m] = copper'[m] \cup Taken({})'[m]
    BY <1>1 DEF Seen, Taken
  <2> QED
    BY <2>1, <2>2
<1>3. \A m \in Nets : m \notin Held(frame) => CommittedBoard[m] = copper[m]
  <2>1. \A m \in Nets : m \notin Held(frame) => Taken(Held(frame))[m] = {}
    BY DEF Taken
  <2> QED
    BY ZenonT(40), <2>1 DEF Seen
<1>4. CommittedBoard'[n] \ CommittedBoard[n] # {}
  <2>1. r # {}
    BY <1>1, RoutesHaveCopper
  <2> QED
    BY <1>1, <1>2, <1>3, <2>1
<1>5. n \notin Held(frame) /\ Held(frame) \cap Evicted = {} /\ Held(frame) \in SUBSET Nets
  BY <1>1 DEF Seen
<1>6. \A m \in Held(frame) :
        CommittedBoard'[m] \subseteq CommittedBoard[m] /\ CommittedBoard'[m] # CommittedBoard[m]
  <2> TAKE m \in Held(frame)
  <2>1. m \in Nets /\ m # n /\ ripSaved[m] # None
    BY <1>1 DEF Seen
  <2>2. Taken(Held(frame))[m] # {}
    BY <2>1 DEF Taken, Bodied
  <2>3. /\ CommittedBoard[m] = copper[m] \cup Taken(Held(frame))[m]
        /\ Taken(Held(frame))[m] \cap copper[m] = {}
    BY <2>1 DEF Seen
  <2> QED
    BY <1>1, <1>2, <2>1, <2>2, <2>3
<1>7. \A m \in Nets \ (Held(frame) \cup {n}) : CommittedBoard'[m] = CommittedBoard[m]
  BY <1>1, <1>2, <1>3
<1>8. \A m \in Nets : IsRouted(m)' <=> IsRouted(m) \/ m = n
  <2>1. r \in SUBSET Cells
    BY <1>1, CopperAssumption
  <2>2. Found(n, r) \in Results
    BY <2>1 DEF Found, Results
  <2>3. Found(n, r) # None
    BY <2>2, NoneIsNoResult
  <2> QED
    BY <1>1, <2>3 DEF IsRouted, BoardTypeOK
<1>9. Evicted' = {m \in Nets : ripSaved[m] # None /\ ~IsRouted(m) /\ m # n}
  BY <1>1, <1>8 DEF Seen
<1>10. Evicted' = (Evicted \ {n}) \cup Held(frame)
  BY <1>1, <1>5, <1>9 DEF Seen
<1>11. Eviction!Land(n, Held(frame))
  BY <1>4, <1>5, <1>6, <1>7, <1>10 DEF Eviction!Land
<1> QED
  BY <1>5, <1>11 DEF Seen, Eviction!Next, Eviction!Disjoint

LEMMA ComingBackIsSeen ==
  ASSUME BoardTypeOK, Seen, Seen', NEW n \in Nets, ComesBack(n)
  PROVE  Eviction!Next
<1>1. /\ ~IsRouted(n) /\ ripSaved[n] # None /\ Held(frame) = {} /\ Held(frame)' = {}
      /\ copper[n] \subseteq copper'[n] /\ \A m \in Nets : m # n => copper'[m] = copper[m]
      /\ \/ /\ routed' = [routed EXCEPT ![n] = ripSaved[n].saved]
            /\ ripSaved' = [ripSaved EXCEPT ![n] = None]
         \/ UNCHANGED <<routed, ripSaved>>
  BY DEF ComesBack
<1>2. \A m \in Nets : CommittedBoard'[m] = copper'[m]
  <2>1. \A m \in Nets : Taken({})'[m] = {}
    BY DEF Taken
  <2>2. \A m \in Nets : CommittedBoard'[m] = copper'[m] \cup Taken({})'[m]
    BY <1>1 DEF Seen, Taken
  <2> QED
    BY ONLY <2>1, <2>2
<1>3. \A m \in Nets : CommittedBoard[m] = copper[m]
  <2>1. \A m \in Nets : Taken(Held(frame))[m] = {}
    BY <1>1 DEF Taken
  <2>2. \A m \in Nets : CommittedBoard[m] = copper[m] \cup Taken(Held(frame))[m]
    BY DEF Seen
  <2> QED
    BY ONLY <2>1, <2>2
<1>4. /\ Evicted = {m \in Nets : ripSaved[m] # None /\ ~IsRouted(m)}
      /\ Evicted' = {m \in Nets : ripSaved'[m] # None /\ ~IsRouted(m)'}
  BY <1>1 DEF Seen
<1>5. Evicted' \in {Evicted, Evicted \ {n}}
  <2>1. CASE UNCHANGED <<routed, ripSaved>>
    BY <1>4, <2>1 DEF IsRouted
  <2>2. CASE /\ routed' = [routed EXCEPT ![n] = ripSaved[n].saved]
             /\ ripSaved' = [ripSaved EXCEPT ![n] = None]
    <3>1. /\ ripSaved'[n] = None
          /\ \A m \in Nets : m # n => (IsRouted(m)' <=> IsRouted(m)) /\ ripSaved'[m] = ripSaved[m]
      BY <2>2 DEF IsRouted, BoardTypeOK
    <3>2. Evicted' = Evicted \ {n}
      BY <1>4, <3>1
    <3> QED
      BY <3>2
  <2> QED
    BY <1>1, <2>1, <2>2
<1>6. Eviction!TakeBack(n)
  BY <1>1, <1>2, <1>3, <1>4, <1>5 DEF Eviction!TakeBack
<1> QED
  BY <1>6 DEF Seen, Eviction!Next, Eviction!Disjoint

LEMMA InitIsSeen ==
  ASSUME Init
  PROVE  Eviction!Init
<1>1. Seen
  BY SafeInit, SafeIsSeen
<1>2. /\ frame = Idle /\ copper = [n \in Nets |-> InitCopper(n)]
      /\ ripSaved = [n \in Nets |-> None]
  BY DEF Init, BoardInit, LadderInit
<1>3. Held(frame) = {}
  BY <1>2, IdleHand DEF Held
<1>4. \A n \in Nets : CommittedBoard[n] = InitCopper(n)
  BY <1>1, <1>2, <1>3 DEF Seen, Taken
<1>5. CommittedBoard = [n \in Nets |-> InitCopper(n)]
  BY <1>4 DEF CommittedBoard
<1>6. Evicted = {}
  BY <1>1, <1>2 DEF Seen
<1> QED
  BY <1>5, <1>6 DEF Eviction!Init

LEMMA StepIsSeen ==
  ASSUME SafeInv, Bodied, [Next]_vars
  PROVE  [Eviction!Next]_<<CommittedBoard, Evicted>>
<1>1. SafeInv' /\ Seen /\ Seen' /\ BoardTypeOK
  BY SafeNext, SafeIsSeen, SafeIsSeenNext, HandFacts DEF SafeInv
<1>2. Unseen \/ Eviction!Next
  BY <1>1, StepKinds, QuietIsUnseen, HandIsUnseen, LandingIsSeen, ComingBackIsSeen DEF Kinds
<1> QED
  BY <1>2 DEF Unseen

(* RipsAreAtomic: seen from outside, the two loops with their ladders, the *)
(* stub-swap rescue and the terminal restore evict nets only in the step   *)
(* in which the net they were ripped for lands; a net that gives up leaves *)
(* the board as it was.                                                    *)
THEOREM LoopsImplementEviction == Spec => RipsAreAtomic
<1>1. Spec => []Bodied
  <2>1. Init => Bodied
    BY BodiedInit
  <2>2. SafeInv /\ Bodied /\ [Next]_vars => Bodied'
    BY BodiedNext
  <2> QED
    BY <2>1, <2>2, AlwaysSafe, PTL DEF Spec
<1>2. Init => Eviction!Init
  BY InitIsSeen
<1>3. SafeInv /\ Bodied /\ [Next]_vars => [Eviction!Next]_<<CommittedBoard, Evicted>>
  BY StepIsSeen
<1> QED
  BY <1>1, <1>2, <1>3, AlwaysSafe, PTL DEF Spec, RipsAreAtomic, Eviction!Spec
=================================================================================
