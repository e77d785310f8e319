---------------------------- MODULE CasualtyReconcile_proofs ----------------------------
(***************************************************************************)
(* The whole run, with the reconciliation and the write: no stage ships a  *)
(* short, and no net that was ripped for another is abandoned.  The        *)
(* reroutes and pieces of the reconciliation leave the working map and the *)
(* cache behind, so the invariant of the loops ends with the restores;     *)
(* what remains is what each casualty still has a claim to.                *)
(***************************************************************************)
EXTENDS CasualtyReconcile, RipReroute_proofs

RunTypeOK ==
  /\ stage \in {"loops", "restore", "reroute", "write", "written"}
  /\ todo \in Seq(Nets) /\ still \in Seq(Nets)

(* Custody holds payloads under the net they were taken from.              *)
CustodyOK ==
  /\ custody \in [Nets -> Payloads \cup {None}]
  /\ \A n \in Nets : custody[n] # None => custody[n].saved.net = n

ListsCasualties(s) == \A n \in ToSet(s) : custody[n] # None

(* The pieces at the pads of n that no other net has taken are there.      *)
ClearPiecesBack(n) ==
  (custody[n].saved.cells \cap Escape[n]) \ OthersCopper(n) \subseteq copper[n]

Stashed(n) == refused[n] = custody[n].saved

(* Where every casualty is: waiting for its restore, refused with its      *)
(* copper stashed, or on the board with all it can have.                   *)
Followed ==
  /\ stage = "loops" => still = <<>>
  /\ stage = "restore" =>
       /\ ListsCasualties(todo) /\ ListsCasualties(still)
       /\ \A n \in Nets : Broken(n) =>
            n \in ToSet(todo) \/ (n \in ToSet(still) /\ Stashed(n))
  /\ stage = "reroute" =>
       /\ ListsCasualties(todo)
       /\ \A n \in Nets : Broken(n) =>
            (n \in ToSet(todo) /\ Stashed(n)) \/ ClearPiecesBack(n)
  /\ stage = "write" => \A n \in Nets : Broken(n) => ClearPiecesBack(n)

RunInv ==
  /\ RunTypeOK
  /\ BoardTypeOK /\ NoShort /\ MapCovers
  /\ stage = "loops" => Inv
  /\ stage \in {"loops", "restore"} => BoardInv
  /\ CustodyOK
  /\ Followed

----------------------------------------------------------------------------
(* Taking the first net of a list, and putting one at the end.             *)
LEMMA TakingTheFirst ==
  ASSUME NEW s \in Seq(Nets), s # <<>>
  PROVE  /\ Head(s) \in Nets /\ Head(s) \in ToSet(s)
         /\ Tail(s) \in Seq(Nets)
         /\ ToSet(Tail(s)) \subseteq ToSet(s)
         /\ \A n \in ToSet(s) : n # Head(s) => n \in ToSet(Tail(s))
<1>1. Len(s) \in Nat /\ Len(s) > 0 /\ Head(s) = s[1] /\ 1 \in DOMAIN s
  OBVIOUS
<1>2. Tail(s) \in Seq(Nets) /\ Len(Tail(s)) = Len(s) - 1
      /\ \A i \in 1 .. Len(s) - 1 : Tail(s)[i] = s[i + 1]
  OBVIOUS
<1>3. ASSUME NEW n \in ToSet(s), n # Head(s) PROVE n \in ToSet(Tail(s))
  <2>1. PICK i \in DOMAIN s : s[i] = n
    BY <1>3 DEF ToSet
  <2>2. i \in 2 .. Len(s)
    BY <1>1, <1>3, <2>1
  <2>3. i - 1 \in 1 .. Len(s) - 1 /\ Tail(s)[i - 1] = s[i]
    BY <1>1, <1>2, <2>2
  <2> QED
    BY <1>2, <2>1, <2>3 DEF ToSet
<1>4. ASSUME NEW n \in ToSet(Tail(s)) PROVE n \in ToSet(s)
  <2>1. PICK i \in DOMAIN Tail(s) : Tail(s)[i] = n
    BY DEF ToSet
  <2>2. i \in 1 .. Len(s) - 1
    BY <1>2, <2>1
  <2>3. i + 1 \in DOMAIN s /\ s[i + 1] = n
    BY <1>1, <1>2, <2>1, <2>2
  <2> QED
    BY <2>3 DEF ToSet
<1> QED
  BY <1>1, <1>2, <1>3, <1>4 DEF ToSet

LEMMA PuttingLast ==
  ASSUME NEW s \in Seq(Nets), NEW m \in Nets
  PROVE  /\ Append(s, m) \in Seq(Nets)
         /\ \A n : n \in ToSet(Append(s, m)) <=> n \in ToSet(s) \/ n = m
<1>1. Append(s, m) \in Seq(Nets) /\ Len(Append(s, m)) = Len(s) + 1 /\ Len(s) \in Nat
      /\ Append(s, m)[Len(s) + 1] = m
      /\ \A i \in 1 .. Len(s) : Append(s, m)[i] = s[i]
  OBVIOUS
<1>2. ASSUME NEW n \in ToSet(Append(s, m)), n # m PROVE n \in ToSet(s)
  <2>1. PICK i \in 1 .. Len(s) + 1 : Append(s, m)[i] = n
    BY <1>1 DEF ToSet
  <2>2. i \in 1 .. Len(s)
    BY <1>1, <1>2, <2>1
  <2> QED
    BY <1>1, <2>1, <2>2 DEF ToSet
<1>3. ASSUME NEW n \in ToSet(s) PROVE n \in ToSet(Append(s, m))
  <2>1. PICK i \in 1 .. Len(s) : s[i] = n
    BY DEF ToSet
  <2>2. i \in DOMAIN Append(s, m) /\ Append(s, m)[i] = n
    BY <1>1, <2>1
  <2> QED
    BY <2>2 DEF ToSet
<1>4. m \in ToSet(Append(s, m))
  <2>1. Len(s) + 1 \in DOMAIN Append(s, m)
    BY <1>1
  <2> QED
    BY <1>1, <2>1 DEF ToSet
<1> QED
  BY <1>1, <1>2, <1>3, <1>4

(* The list of casualties has every broken net and no other.               *)
LEMMA CasualtiesAreAll ==
  ASSUME NEW s \in Casualties
  PROVE  s \in Seq(Nets) /\ ToSet(s) = {n \in Nets : Broken(n)}
<1> DEFINE B == {n \in Nets : Broken(n)}
<1>1. IsFiniteSet(B) /\ Cardinality(B) \in Nat
  BY NetsAssumption, FS_Subset, FS_CardinalityType
<1> DEFINE k == Cardinality(B)
<1>2. s \in [1..k -> B] /\ \A i, j \in 1..k : i # j => s[i] # s[j]
  BY DEF Casualties, SetToSeqs
<1> HIDE DEF B
<1>3. IsFiniteSet(1..k) /\ Cardinality(1..k) = k
  BY <1>1, FS_Interval
<1>4. s \in Injection(1..k, B)
  BY <1>2 DEF Injection, IsInjective
<1>5. s \in Surjection(1..k, B)
  BY <1>1, <1>3, <1>4, FS_Injection
<1>6. ToSet(s) = B
  BY <1>2, <1>5 DEF Surjection, ToSet
<1>7. B \subseteq Nets
  BY DEF B
<1>8. s \in Seq(Nets)
  BY <1>1, <1>2, <1>7
<1> QED
  BY <1>6, <1>8 DEF B

----------------------------------------------------------------------------
(* A landing hands the payloads of its rips to custody.                    *)
LEMMA CommitKeepsCustody ==
  ASSUME CustodyOK, frame \in Frames, NEW marked, CommitVictims(marked)
  PROVE  CustodyOK'
<1>1. frame.ripped \in Seq(Victims)
  BY DEF Frames
<1>2. ASSUME NEW m \in InLadder PROVE CustodyOf(m) \in Payloads /\ CustodyOf(m).saved.net = m
  <2>1. \E i \in DOMAIN frame.ripped : frame.ripped[i].net = m
    BY <1>1, <1>2 DEF InLadder, RippedNets, ToSet
  <2>2. PICK i \in DOMAIN frame.ripped :
          frame.ripped[i].net = m /\ CustodyOf(m) = frame.ripped[i].payload
    BY <2>1 DEF CustodyOf
  <2>3. frame.ripped[i] \in Victims
    BY <1>1, <2>2
  <2> QED
    BY <2>2, <2>3 DEF Victims
<1> QED
  BY <1>2 DEF CommitVictims, CustodyOK

LEMMA LoopsKeepCustody ==
  ASSUME Inv, CustodyOK, [Next]_vars
  PROVE  CustodyOK'
<1>f. frame \in Frames
  BY DEF Inv, LadderTypeOK
<1>1. CASE \/ \E r \in AllRoutes : RetrySucceeds(r)
           \/ \E r \in AllRoutes : SwapSucceeds(r)
  <2>1. \E marked : CommitVictims(marked)
    BY <1>1 DEF RetrySucceeds, SwapSucceeds
  <2> QED
    BY <1>f, <2>1, CommitKeepsCustody
<1>2. CASE UNCHANGED custody
  BY <1>2 DEF CustodyOK
<1>3. LadderStep =>
        UNCHANGED custody \/ \E r \in AllRoutes : RetrySucceeds(r)
  BY DEF LadderStep, SlotZeroGuard, NextLevel, LadderExhausted, RipOne, RetryFails,
         UnwindOne, RestoreLast, Unwound
<1>4. SEStep =>
        UNCHANGED custody \/ \E r \in AllRoutes : SwapSucceeds(r)
  BY DEF SEStep, SERoutes, ladderVars, SEOpensLadder, SEFails, BeginSwap, SwapRips,
         SwapFails, SwapRestores, RestoreLast, SwapUnwound, SEGivesUp, SEDone
<1>5. RerouteStep => UNCHANGED custody
  BY DEF RerouteStep, Reroutes, RerouteOpensLadder, RerouteFails, TerminalFull,
         TerminalStub, TerminalStep, RerouteDone
<1>6. Cancel \/ Finished \/ UNCHANGED vars => UNCHANGED custody
  BY DEF Cancel, Finished, vars, ladderVars
<1> QED
  BY <1>1, <1>2, <1>3, <1>4, <1>5, <1>6 DEF Next

----------------------------------------------------------------------------
(* The run starts with the invariant.                                      *)
LEMMA RunInitInv ==
  ASSUME RunInit
  PROVE  RunInv
<1>1. Inv /\ stage = "loops" /\ todo = <<>> /\ still = <<>>
  BY InitInv DEF RunInit
<1>2. CustodyOK
  BY NetsAssumption DEF RunInit, Init, LadderInit, CustodyOK
<1> QED
  BY <1>1, <1>2 DEF RunInv, RunTypeOK, Followed, Inv, BoardInv

(* A step of the loops.                                                    *)
LEMMA LoopsKeepRunInv ==
  ASSUME RunInv, stage = "loops", [Next]_vars, UNCHANGED settleVars
  PROVE  RunInv'
<1>1. Inv' /\ CustodyOK'
  BY NextInv, LoopsKeepCustody DEF RunInv
<1>2. stage' = "loops" /\ RunTypeOK' /\ still' = <<>>
  BY DEF RunInv, RunTypeOK, Followed, settleVars
<1> QED
  BY <1>1, <1>2 DEF RunInv, Followed, Inv, BoardInv

(* Nothing the invariant speaks of changes.                                *)
LEMMA StutterKeepsRunInv ==
  ASSUME RunInv, UNCHANGED <<boardVars, ladderVars, settleVars>>
  PROVE  RunInv'
<1>1. BoardTypeOK' /\ NoShort' /\ MapCovers'
  BY DEF RunInv, boardVars, BoardTypeOK, IsRouted, NoShort, MapCovers, Stampers
<1>2. stage' = stage /\ RunTypeOK' /\ CustodyOK'
  BY DEF RunInv, settleVars, RunTypeOK, ladderVars, CustodyOK
<1>3. stage = "loops" => Inv'
  BY StutterKeepsBoardInv DEF RunInv, Inv, ladderVars, LadderTypeOK, SwapsAreOff, Net
<1>4. stage \in {"loops", "restore"} => BoardInv'
  BY StutterKeepsBoardInv DEF RunInv
<1>5. Followed'
  BY DEF RunInv, Followed, boardVars, ladderVars, settleVars, ListsCasualties, Broken,
         IsRouted, Stashed, ClearPiecesBack, OthersCopper
<1> QED
  BY <1>1, <1>2, <1>3, <1>4, <1>5 DEF RunInv

----------------------------------------------------------------------------
(* Every net with a custody record that is not routed becomes a casualty.  *)
LEMMA FindKeepsRunInv ==
  ASSUME RunInv, FindCasualties
  PROVE  RunInv'
<1>1. todo' \in Seq(Nets) /\ ToSet(todo') = {n \in Nets : Broken(n)}
  BY CasualtiesAreAll DEF FindCasualties
<1>2. UNCHANGED <<boardVars, ladderVars>>
  BY DEF FindCasualties, vars
<1>3. BoardInv' /\ CustodyOK'
  BY <1>2, StutterKeepsBoardInv DEF RunInv, FindCasualties, CustodyOK, ladderVars
<1>4. still' = <<>> /\ stage' = "restore"
  BY DEF FindCasualties, RunInv, Followed
<1>5. \A n \in Nets : Broken(n)' <=> Broken(n)
  BY <1>2 DEF Broken, IsRouted, boardVars, ladderVars
<1>6. \A n \in ToSet(todo') : custody'[n] # None
  BY <1>1, <1>2 DEF Broken, ladderVars
<1>7. ToSet(still') = {}
  BY <1>4 DEF ToSet
<1>8. RunTypeOK'
  BY <1>1, <1>4 DEF RunTypeOK
<1>9. Followed'
  BY <1>1, <1>4, <1>5, <1>6, <1>7 DEF Followed, ListsCasualties
<1> QED
  BY <1>3, <1>4, <1>8, <1>9 DEF RunInv, BoardInv

(* Restoring a casualty books it or stashes its copper.                    *)
LEMMA RestoreBooksOrStashes ==
  ASSUME BoardTypeOK, NEW n \in Nets, NEW payload \in Payloads, RestoreNet(n, payload)
  PROVE  /\ IsRouted(n)' \/ refused'[n] = payload.saved
         /\ \A m \in Nets : m # n => (IsRouted(m)' <=> IsRouted(m)) /\ refused'[m] = refused[m]
         /\ IsRouted(n) => IsRouted(n)'
<1>1. payload.saved \in Results /\ payload.saved # None
  BY NoneIsNoResult DEF Payloads
<1> QED
  BY <1>1 DEF RestoreNet, Books, IsRouted, BoardTypeOK, Collides

LEMMA RestoreKeepsRunInv ==
  ASSUME RunInv, RestoreCasualty
  PROVE  RunInv'
<1> SUFFICES ASSUME NEW n, n = Head(todo) PROVE RunInv'
  OBVIOUS
<1>1. /\ stage = "restore" /\ todo # <<>> /\ stage' = stage
      /\ RestoreNet(n, custody[n])
      /\ still' = IF IsRouted(n)' THEN still ELSE Append(still, n)
      /\ todo' = Tail(todo) /\ UNCHANGED custody
  BY DEF RestoreCasualty, ladderVars, IsRouted
<1>2. /\ todo \in Seq(Nets) /\ still \in Seq(Nets)
      /\ ListsCasualties(todo) /\ ListsCasualties(still)
      /\ \A m \in Nets : Broken(m) =>
           m \in ToSet(todo) \/ (m \in ToSet(still) /\ Stashed(m))
  BY <1>1 DEF RunInv, RunTypeOK, Followed
<1>3. /\ n \in Nets /\ n \in ToSet(todo) /\ Tail(todo) \in Seq(Nets)
      /\ ToSet(Tail(todo)) \subseteq ToSet(todo)
      /\ \A m \in ToSet(todo) : m # n => m \in ToSet(Tail(todo))
  BY <1>1, <1>2, TakingTheFirst
<1>4. custody[n] \in Payloads /\ custody[n].saved.net = n
  BY <1>2, <1>3 DEF ListsCasualties, RunInv, CustodyOK
<1>5. BoardInv'
  BY <1>1, <1>3, <1>4, RestoreNetKeepsBoardInv DEF RunInv
<1>6. /\ IsRouted(n)' \/ refused'[n] = custody[n].saved
      /\ \A m \in Nets : m # n => (IsRouted(m)' <=> IsRouted(m)) /\ refused'[m] = refused[m]
      /\ IsRouted(n) => IsRouted(n)'
  BY <1>1, <1>3, <1>4, RestoreBooksOrStashes DEF RunInv
<1>7. /\ still' \in Seq(Nets)
      /\ ToSet(still) \subseteq ToSet(still')
      /\ ~IsRouted(n)' => n \in ToSet(still')
      /\ \A m \in ToSet(still') : m \in ToSet(still) \/ m = n
  BY <1>1, <1>2, <1>3, PuttingLast
<1>8. RunTypeOK' /\ CustodyOK'
  BY <1>1, <1>3, <1>7 DEF RunInv, RunTypeOK, CustodyOK
<1>9. ListsCasualties(todo)' /\ ListsCasualties(still)'
  BY <1>1, <1>2, <1>3, <1>7 DEF ListsCasualties
<1>10. ASSUME NEW m \in Nets, Broken(m)'
       PROVE  m \in ToSet(todo)' \/ (m \in ToSet(still)' /\ Stashed(m)')
  <2>1. CASE m = n
    BY <1>1, <1>6, <1>7, <1>10, <2>1 DEF Broken, Stashed
  <2>2. CASE m # n
    <3>1. Broken(m) /\ (Stashed(m) => Stashed(m)')
      BY <1>1, <1>6, <1>10, <2>2 DEF Broken, Stashed
    <3> QED
      BY <1>1, <1>2, <1>3, <1>7, <2>2, <3>1
  <2> QED
    BY <2>1, <2>2
<1>11. Followed'
  BY <1>1, <1>9, <1>10 DEF Followed
<1> QED
  BY <1>1, <1>5, <1>8, <1>11 DEF RunInv, BoardInv

(* The refused ones are next.                                              *)
LEMMA RestoresDoneKeepsRunInv ==
  ASSUME RunInv, RestoresDone
  PROVE  RunInv'
<1>1. /\ stage = "restore" /\ todo = <<>> /\ stage' = "reroute" /\ todo' = still
      /\ UNCHANGED <<boardVars, ladderVars, still>>
  BY DEF RestoresDone, vars
<1>2. BoardInv' /\ CustodyOK'
  BY <1>1, StutterKeepsBoardInv DEF RunInv, CustodyOK, ladderVars
<1>3. RunTypeOK'
  BY <1>1 DEF RunInv, RunTypeOK
<1>4. ToSet(todo) = {}
  BY <1>1 DEF ToSet
<1>5. Followed'
  BY <1>1, <1>4 DEF RunInv, Followed, ListsCasualties, Broken, IsRouted, Stashed,
                    boardVars, ladderVars
<1> QED
  BY <1>1, <1>2, <1>3, <1>5 DEF RunInv, BoardInv

----------------------------------------------------------------------------
(* New copper of n that is clear of the others leaves the board without a  *)
(* short and takes no piece from another casualty's claim that was there.  *)
LEMMA MoreCopper ==
  ASSUME BoardTypeOK, NoShort, NEW n \in Nets, NEW cells \in SUBSET Cells,
         cells \cap OthersCopper(n) = {},
         copper' = [copper EXCEPT ![n] = @ \cup cells], UNCHANGED custody
  PROVE  /\ copper' \in [Nets -> SUBSET Cells] /\ NoShort'
         /\ \A m \in Nets : ClearPiecesBack(m) => ClearPiecesBack(m)'
<1>1. copper' \in [Nets -> SUBSET Cells]
      /\ copper'[n] = copper[n] \cup cells
      /\ \A m \in Nets : m # n => copper'[m] = copper[m]
  BY DEF BoardTypeOK
<1>2. NoShort'
  BY <1>1 DEF NoShort, OthersCopper
<1>3. ASSUME NEW m \in Nets, ClearPiecesBack(m) PROVE ClearPiecesBack(m)'
  <2>1. \A k \in Nets : copper[k] \subseteq copper'[k]
    BY <1>1
  <2>2. OthersCopper(m) \subseteq OthersCopper(m)'
    BY <2>1 DEF OthersCopper
  <2> QED
    BY <1>3, <2>1, <2>2 DEF ClearPiecesBack
<1> QED
  BY <1>1, <1>2, <1>3

(* A casualty that is routed again has no claim left.                      *)
LEMMA RerouteKeepsRunInv ==
  ASSUME RunInv, NEW r \in AllRoutes, RerouteCasualty(r)
  PROVE  RunInv'
<1> SUFFICES ASSUME NEW n, n = Head(todo) PROVE RunInv'
  OBVIOUS
<1>1. /\ stage = "reroute" /\ todo # <<>> /\ stage' = stage
      /\ r \in ClearRoutes(n) /\ copper' = [copper EXCEPT ![n] = @ \cup r]
      /\ Books(n, Found(n, r)) /\ results' = results \cup {Found(n, r)}
      /\ todo' = Tail(todo) /\ UNCHANGED <<cache, work, ripSaved, refused, custody, still>>
  BY DEF RerouteCasualty, ladderVars
<1>2. /\ todo \in Seq(Nets) /\ ListsCasualties(todo)
      /\ \A m \in Nets : Broken(m) =>
           (m \in ToSet(todo) /\ Stashed(m)) \/ ClearPiecesBack(m)
  BY <1>1 DEF RunInv, RunTypeOK, Followed
<1>3. /\ n \in Nets /\ Tail(todo) \in Seq(Nets)
      /\ ToSet(Tail(todo)) \subseteq ToSet(todo)
      /\ \A m \in ToSet(todo) : m # n => m \in ToSet(Tail(todo))
  BY <1>1, <1>2, TakingTheFirst
<1>4. r \in SUBSET Cells /\ r \cap OthersCopper(n) = {}
  BY <1>1, <1>3, CopperAssumption DEF ClearRoutes
<1>5. /\ copper' \in [Nets -> SUBSET Cells] /\ NoShort'
      /\ \A m \in Nets : ClearPiecesBack(m) => ClearPiecesBack(m)'
  BY <1>1, <1>3, <1>4, MoreCopper DEF RunInv
<1>f. Found(n, r) \in Results /\ Found(n, r).net = n
  BY <1>3, <1>4 DEF Found, Results
<1>6. Found(n, r) \in Results /\ Found(n, r).net = n /\ Found(n, r) # None
  BY <1>f, NoneIsNoResult
<1>7. /\ routed' = [routed EXCEPT ![n] = Found(n, r)]
      /\ routedIds' = routedIds \cup {n} /\ remaining' = remaining \ {n}
      /\ paths' \subseteq paths \cup {n}
  BY <1>1 DEF Books
<1>8. /\ BoardTypeOK'
      /\ \A m \in Nets : Broken(m)' => m # n /\ Broken(m)
  <2>1. /\ routed' \in [Nets -> Results \cup {None}]
        /\ \A m \in Nets : routed'[m] = IF m = n THEN Found(n, r) ELSE routed[m]
    BY <1>3, <1>6, <1>7 DEF RunInv, BoardTypeOK
  <2>2. \A m \in Nets : IsRouted(m)' => routed'[m].net = m
    BY <1>6, <2>1 DEF RunInv, BoardTypeOK, IsRouted
  <2>3. \A m \in Nets : Broken(m)' => m # n /\ Broken(m)
    BY <1>1, <1>6, <2>1 DEF Broken, IsRouted
  <2> QED
    BY <1>1, <1>3, <1>5, <1>6, <1>7, <2>1, <2>2, <2>3 DEF RunInv, BoardTypeOK
<1>9. MapCovers' /\ RunTypeOK' /\ CustodyOK'
  BY <1>1, <1>3 DEF RunInv, MapCovers, Stampers, RunTypeOK, CustodyOK
<1>10. Followed'
  <2>1. \A m \in Nets : Stashed(m) => Stashed(m)'
    BY <1>1 DEF Stashed
  <2>2. ListsCasualties(todo)'
    BY <1>1, <1>2, <1>3 DEF ListsCasualties
  <2> QED
    BY <1>1, <1>2, <1>3, <1>5, <1>8, <2>1, <2>2 DEF Followed
<1> QED
  BY <1>1, <1>5, <1>8, <1>9, <1>10 DEF RunInv

(* The last resort puts back every clear piece at the pads.                *)
LEMMA PartialKeepsRunInv ==
  ASSUME RunInv, PartialRestore
  PROVE  RunInv'
<1> SUFFICES ASSUME NEW n, n = Head(todo),
                    NEW src, src = IF refused[n] # None THEN refused[n] ELSE custody[n].saved,
                    NEW kept \in KeptPieces(n, src.cells),
                    copper' = [copper EXCEPT ![n] = @ \cup kept],
                    results' = IF kept = {} THEN results
                               ELSE results \cup {[src EXCEPT !.cells = kept]}
             PROVE  RunInv'
  BY DEF PartialRestore
<1>1. /\ stage = "reroute" /\ todo # <<>> /\ stage' = stage /\ todo' = Tail(todo)
      /\ UNCHANGED <<cache, work, routed, routedIds, paths, remaining, ripSaved, refused,
                     custody, still>>
  BY DEF PartialRestore, ladderVars
<1>2. /\ todo \in Seq(Nets) /\ ListsCasualties(todo)
      /\ \A m \in Nets : Broken(m) =>
           (m \in ToSet(todo) /\ Stashed(m)) \/ ClearPiecesBack(m)
  BY <1>1 DEF RunInv, RunTypeOK, Followed
<1>3. /\ n \in Nets /\ n \in ToSet(todo) /\ Tail(todo) \in Seq(Nets)
      /\ ToSet(Tail(todo)) \subseteq ToSet(todo)
      /\ \A m \in ToSet(todo) : m # n => m \in ToSet(Tail(todo))
  BY <1>1, <1>2, TakingTheFirst
<1>4. custody[n] # None /\ custody[n] \in Payloads
  BY <1>2, <1>3 DEF ListsCasualties, RunInv, CustodyOK
<1>5. src \in Results
  BY <1>3, <1>4 DEF RunInv, BoardTypeOK, Payloads
<1>6. src.cells \in SUBSET Cells
  BY <1>5 DEF Results
<1>7. /\ kept \subseteq src.cells \ OthersCopper(n)
      /\ (src.cells \ OthersCopper(n)) \cap Escape[n] \subseteq kept
  BY DEF KeptPieces
<1>8. /\ copper' \in [Nets -> SUBSET Cells] /\ NoShort'
      /\ \A m \in Nets : ClearPiecesBack(m) => ClearPiecesBack(m)'
  BY <1>1, <1>3, <1>6, <1>7, MoreCopper DEF RunInv
<1>9. results' \subseteq Results
  <2>1. [src EXCEPT !.cells = kept] \in Results
    BY <1>5, <1>6, <1>7 DEF Results
  <2> QED
    BY <2>1 DEF RunInv, BoardTypeOK
<1>10. BoardTypeOK'
  BY <1>1, <1>8, <1>9 DEF RunInv, BoardTypeOK, IsRouted
<1>11. MapCovers' /\ RunTypeOK' /\ CustodyOK'
  BY <1>1, <1>3 DEF RunInv, MapCovers, Stampers, RunTypeOK, CustodyOK
<1>12. ASSUME Broken(n), Stashed(n) PROVE ClearPiecesBack(n)'
  <2>1. src = custody[n].saved
    BY <1>12 DEF Stashed
  <2>2. OthersCopper(n)' = OthersCopper(n)
    BY <1>3 DEF OthersCopper, RunInv, BoardTypeOK
  <2>3. kept \subseteq copper'[n]
    BY <1>3 DEF RunInv, BoardTypeOK
  <2> QED
    BY <1>1, <1>7, <2>1, <2>2, <2>3 DEF ClearPiecesBack
<1>13. Followed'
  <2>1. \A m \in Nets : (Stashed(m) <=> Stashed(m)') /\ (Broken(m) <=> Broken(m)')
    BY <1>1 DEF Stashed, Broken, IsRouted
  <2>2. ListsCasualties(todo)'
    BY <1>1, <1>2, <1>3 DEF ListsCasualties
  <2>3. ASSUME NEW m \in Nets, Broken(m)'
        PROVE  (m \in ToSet(todo)' /\ Stashed(m)') \/ ClearPiecesBack(m)'
    BY <1>1, <1>2, <1>3, <1>8, <1>12, <2>1, <2>3
  <2> QED
    BY <1>1, <2>2, <2>3 DEF Followed
<1> QED
  BY <1>1, <1>8, <1>10, <1>11, <1>13 DEF RunInv

LEMMA CasualtiesDoneKeepsRunInv ==
  ASSUME RunInv, CasualtiesDone
  PROVE  RunInv'
<1>1. /\ stage = "reroute" /\ todo = <<>> /\ stage' = "write"
      /\ UNCHANGED <<boardVars, ladderVars, todo, still>>
  BY DEF CasualtiesDone, vars
<1>2. BoardTypeOK' /\ NoShort' /\ MapCovers'
  BY <1>1 DEF RunInv, boardVars, BoardTypeOK, IsRouted, NoShort, MapCovers, Stampers
<1>3. RunTypeOK' /\ CustodyOK'
  BY <1>1 DEF RunInv, RunTypeOK, CustodyOK, ladderVars
<1>4. ToSet(todo) = {}
  BY <1>1 DEF ToSet
<1>5. Followed'
  BY <1>1, <1>4 DEF RunInv, Followed, Broken, IsRouted, ClearPiecesBack, OthersCopper,
                    boardVars, ladderVars
<1> QED
  BY <1>1, <1>2, <1>3, <1>5 DEF RunInv

(* The write only takes copper off the board.                              *)
LEMMA WriteKeepsRunInv ==
  ASSUME RunInv, Write
  PROVE  RunInv'
<1>1. /\ stage' = "written" /\ results' \subseteq results
      /\ copper' \in [Nets -> SUBSET Cells]
      /\ \A n \in Nets : copper'[n] \subseteq copper[n]
      /\ UNCHANGED <<cache, work, routed, routedIds, paths, remaining, ripSaved, refused,
                     custody, todo, still>>
  BY DEF Write, Authoritative, ladderVars, RunInv, BoardTypeOK
<1>2. BoardTypeOK' /\ NoShort' /\ MapCovers'
  BY <1>1 DEF RunInv, BoardTypeOK, IsRouted, NoShort, MapCovers, Stampers
<1>3. RunTypeOK' /\ CustodyOK' /\ Followed'
  BY <1>1 DEF RunInv, RunTypeOK, CustodyOK, Followed
<1> QED
  BY <1>1, <1>2, <1>3 DEF RunInv

LEMMA RunNextInv ==
  ASSUME RunInv, [RunNext]_runVars
  PROVE  RunInv'
<1>1. CASE Loops
  BY <1>1, LoopsKeepRunInv DEF Loops, Next
<1>2. CASE Cancel /\ UNCHANGED settleVars
  BY <1>2, StutterKeepsRunInv DEF Cancel
<1>3. CASE Settle
  BY <1>3, FindKeepsRunInv, RestoreKeepsRunInv, RestoresDoneKeepsRunInv,
     RerouteKeepsRunInv, PartialKeepsRunInv, CasualtiesDoneKeepsRunInv, WriteKeepsRunInv
     DEF Settle
<1>4. CASE Written \/ UNCHANGED runVars
  BY <1>4, StutterKeepsRunInv DEF Written, runVars, vars
<1> QED
  BY <1>1, <1>2, <1>3, <1>4 DEF RunNext

----------------------------------------------------------------------------
(* The inductive invariant of the whole run.                               *)
THEOREM RunSpecInv == RunSpec => []RunInv
<1>1. RunInit => RunInv
  BY RunInitInv
<1>2. RunInv /\ [RunNext]_runVars => RunInv'
  BY RunNextInv
<1> QED
  BY <1>1, <1>2, PTL DEF RunSpec

(* From the first search to the written file no stage ships a short: the   *)
(* loops, the restores, the plain reroutes, the pieces of the last resort  *)
(* and the filter of the write, with a cancel anywhere (#134).             *)
THEOREM RunNeverShorts == RunSpec => []NoShort
<1>1. RunInv => NoShort
  BY DEF RunInv
<1> QED
  BY <1>1, RunSpecInv, PTL

(* "custody is never abandoned": when the board is handed to the write,    *)
(* every ripped net that is not routed again has all of its old copper at  *)
(* its pads that no other net took, cancelled or not.                      *)
THEOREM CustodyIsNeverAbandoned == RunSpec => []CustodyNeverAbandoned
<1>1. RunInv => CustodyNeverAbandoned
  BY DEF RunInv, Followed, CustodyNeverAbandoned, ClearPiecesBack
<1> QED
  BY <1>1, RunSpecInv, PTL

----------------------------------------------------------------------------
(* A list of casualties: each net once, none of them on the board.         *)
Distinct(s) == \A i, j \in DOMAIN s : i # j => s[i] # s[j]
Open(s)     == Distinct(s) /\ \A n \in ToSet(s) : ~IsRouted(n)

CustodyTrusted == \A n \in Nets : custody[n] # None => Trusted(custody[n])

(* What the filter of the write needs of the ledgers: a result of the      *)
(* write-list that is the net's authoritative one is a route of this run,  *)
(* and none of those is missing.                                           *)
FileBooks ==
  /\ routedIds = {n \in Nets : IsRouted(n)}
  /\ remaining = Nets \ routedIds
  /\ \A n \in routedIds : routed[n].cells \subseteq copper[n] /\ Honest(routed[n])
  /\ \A n \in routedIds : ~routed[n].existing => routed[n] \in results
  /\ \A res \in results : routed[res.net] = res => ~res.existing
  /\ \A n \in Nets : refused[n] # None => refused[n].net = n

RunBooks ==
  /\ CustodyTrusted
  /\ stage = "loops" => LoopInv
  /\ stage = "restore" =>
       /\ BookInv /\ Open(todo) /\ Open(still)
       /\ ToSet(todo) \cap ToSet(still) = {}
  /\ stage = "reroute" => FileBooks /\ Open(todo)
  /\ stage = "write" => FileBooks
  /\ WrittenLedgersAgree

LEMMA TailIsDistinct ==
  ASSUME NEW s \in Seq(Nets), s # <<>>, Distinct(s)
  PROVE  Distinct(Tail(s)) /\ Head(s) \notin ToSet(Tail(s))
<1>1. PICK k \in Nat : k = Len(s) /\ DOMAIN s = 1..k /\ k > 0
  OBVIOUS
<1>2. DOMAIN Tail(s) = 1..(k - 1) /\ Head(s) = s[1]
      /\ \A i \in 1..(k - 1) : Tail(s)[i] = s[i + 1]
  BY <1>1
<1>3. \A i \in 1..(k - 1) : i + 1 \in DOMAIN s /\ i + 1 # 1 /\ 1 \in DOMAIN s
  BY <1>1
<1>4. Distinct(Tail(s))
  <2>1. \A i, j \in 1..(k - 1) : i # j => i + 1 # j + 1
    OBVIOUS
  <2> QED
    BY <1>2, <1>3, <2>1 DEF Distinct
<1>5. \A i \in 1..(k - 1) : Tail(s)[i] # Head(s)
  BY <1>2, <1>3 DEF Distinct
<1> QED
  BY <1>2, <1>4, <1>5 DEF ToSet

LEMMA AppendIsDistinct ==
  ASSUME NEW s \in Seq(Nets), NEW m \in Nets, Distinct(s), m \notin ToSet(s)
  PROVE  Distinct(Append(s, m))
<1>1. PICK k \in Nat : k = Len(s) /\ DOMAIN s = 1..k
  OBVIOUS
<1>2. DOMAIN Append(s, m) = 1..(k + 1) /\ Append(s, m)[k + 1] = m
      /\ \A i \in 1..k : Append(s, m)[i] = s[i]
  BY <1>1
<1>3. \A i \in 1..k : s[i] # m
  BY <1>1 DEF ToSet
<1>4. \A i \in 1..(k + 1) : i \in 1..k \/ i = k + 1
  OBVIOUS
<1> QED
  BY <1>1, <1>2, <1>3, <1>4 DEF Distinct

(* Taking the first net of an open list when no other net comes back.      *)
LEMMA RestIsOpen ==
  ASSUME todo \in Seq(Nets), todo # <<>>, Open(todo), todo' = Tail(todo),
         \A m \in Nets : m # Head(todo) => (IsRouted(m)' => IsRouted(m))
  PROVE  Open(todo)' /\ ToSet(todo') \subseteq ToSet(todo) /\ Head(todo) \notin ToSet(todo')
<1>1. PICK s : s = todo'
  OBVIOUS
<1>2. /\ Distinct(s) /\ Head(todo) \notin ToSet(s) /\ ToSet(s) \subseteq ToSet(todo)
  BY <1>1, TailIsDistinct, TakingTheFirst DEF Open
<1>3. ToSet(todo) \subseteq Nets
  BY DEF ToSet
<1>4. \A m \in ToSet(s) : ~IsRouted(m)'
  BY <1>2, <1>3 DEF Open
<1> QED
  BY <1>1, <1>2, <1>4 DEF Open, Distinct, IsRouted

----------------------------------------------------------------------------
(* A landing hands payloads to custody that know where their result was.   *)
LEMMA LoopsKeepTrust ==
  ASSUME LoopInv, CustodyTrusted, [Next]_vars
  PROVE  CustodyTrusted'
<1>1. frame.ripped \in Seq(Victims)
  BY DEF LoopInv, Inv, LadderTypeOK, Frames
<1>2. ASSUME NEW m \in InLadder PROVE Trusted(CustodyOf(m))
  <2>1. \E i \in DOMAIN frame.ripped : frame.ripped[i].net = m
    BY <1>1, <1>2 DEF InLadder, RippedNets, ToSet
  <2>2. PICK i \in DOMAIN frame.ripped :
          frame.ripped[i].net = m /\ CustodyOf(m) = frame.ripped[i].payload
    BY <2>1 DEF CustodyOf
  <2> QED
    BY <2>2 DEF LoopInv, InHand
<1>3. ASSUME NEW marked, CommitVictims(marked) PROVE CustodyTrusted'
  BY <1>2, <1>3 DEF CommitVictims, CustodyTrusted, Trusted, Honest
<1>4. CASE UNCHANGED custody
  BY <1>4 DEF CustodyTrusted, Trusted, Honest
<1>5. UNCHANGED custody \/ \E marked : CommitVictims(marked)
  <2>1. LadderStep => UNCHANGED custody \/ \E marked : CommitVictims(marked)
    BY DEF LadderStep, SlotZeroGuard, NextLevel, LadderExhausted, RipOne, RetryFails,
           UnwindOne, RestoreLast, Unwound, RetrySucceeds
  <2>2. SEStep => UNCHANGED custody \/ \E marked : CommitVictims(marked)
    BY DEF SEStep, SERoutes, ladderVars, SEOpensLadder, SEFails, BeginSwap, SwapRips,
           SwapFails, SwapRestores, RestoreLast, SwapUnwound, SEGivesUp, SEDone,
           SwapSucceeds
  <2>3. RerouteStep => UNCHANGED custody
    BY DEF RerouteStep, Reroutes, RerouteOpensLadder, RerouteFails, TerminalFull,
           TerminalStub, TerminalStep, RerouteDone
  <2>4. Cancel \/ Finished \/ UNCHANGED vars => UNCHANGED custody
    BY DEF Cancel, Finished, vars, ladderVars
  <2> QED
    BY <2>1, <2>2, <2>3, <2>4 DEF Next
<1> QED
  BY <1>3, <1>4, <1>5

(* The ledgers of the loops are those the filter needs.                    *)
LEMMA BooksAreFileBooks ==
  ASSUME BoardTypeOK, BookInv
  PROVE  FileBooks
<1>1. \A n \in routedIds : n \in Nets /\ IsRouted(n) /\ routed[n].net = n
  BY DEF BookInv, LedgersAgree, BoardTypeOK
<1>2. ASSUME NEW res \in results PROVE ~res.existing
  BY DEF BookInv, LedgersAgree
<1>3. \A n \in routedIds : ~routed[n].existing => routed[n] \in results
  BY DEF BookInv, LedgersAgree
<1> QED
  BY <1>1, <1>2, <1>3 DEF FileBooks, BookInv, LedgersAgree

LEMMA StutterKeepsFileBooks ==
  ASSUME FileBooks, UNCHANGED boardVars
  PROVE  FileBooks'
  BY DEF FileBooks, boardVars, IsRouted, Honest

LEMMA StutterKeepsRunBooks ==
  ASSUME RunBooks, UNCHANGED <<boardVars, custody, settleVars>>, stage # "loops"
  PROVE  RunBooks'
<1>1. CustodyTrusted'
  BY DEF RunBooks, CustodyTrusted, Trusted, Honest
<1>2. routed' = routed /\ stage' = stage /\ todo' = todo /\ still' = still
  BY DEF boardVars, settleVars
<1>3. BookInv => BookInv'
  BY StutterKeepsBooks
<1>4. FileBooks => FileBooks'
  BY StutterKeepsFileBooks
<1>5. (Open(todo) => Open(todo)') /\ (Open(still) => Open(still)')
  BY <1>2 DEF Open, Distinct, IsRouted
<1>6. WrittenLedgersAgree'
  BY <1>2 DEF RunBooks, WrittenLedgersAgree, LedgersAgree, boardVars, IsRouted
<1> QED
  BY <1>1, <1>2, <1>3, <1>4, <1>5, <1>6 DEF RunBooks

----------------------------------------------------------------------------
LEMMA RunBooksInit ==
  ASSUME RunInit
  PROVE  RunBooks
<1>1. LoopInv /\ stage = "loops"
  BY LoopInit DEF RunInit
<1>2. CustodyTrusted
  BY DEF RunInit, Init, LadderInit, CustodyTrusted
<1> QED
  BY <1>1, <1>2 DEF RunBooks, WrittenLedgersAgree

LEMMA LoopsKeepRunBooks ==
  ASSUME RunBooks, stage = "loops", [Next]_vars, UNCHANGED settleVars
  PROVE  RunBooks'
<1>1. LoopInv' /\ CustodyTrusted' /\ stage' = "loops"
  BY LoopNext, LoopsKeepTrust DEF RunBooks, settleVars
<1> QED
  BY <1>1 DEF RunBooks, WrittenLedgersAgree

LEMMA FindKeepsRunBooks ==
  ASSUME RunInv, RunBooks, FindCasualties
  PROVE  RunBooks'
<1>1. /\ stage = "loops" /\ stage' = "restore" /\ todo' \in Casualties /\ still' = still
      /\ UNCHANGED <<boardVars, custody>>
  BY DEF FindCasualties, vars, ladderVars
<1>2. PICK s : s = todo'
  OBVIOUS
<1>3. ToSet(s) = {n \in Nets : Broken(n)}
  BY <1>1, <1>2, CasualtiesAreAll
<1>4. Distinct(s)
  BY <1>1, <1>2 DEF Casualties, SetToSeqs, Distinct
<1>5. BookInv' /\ routed' = routed
  BY <1>1, StutterKeepsBooks DEF RunBooks, LoopInv
<1>6. Open(s)'
  BY <1>3, <1>4, <1>5 DEF Open, Broken, IsRouted, Distinct
<1>7. still' = <<>> /\ ToSet(still') = {}
  BY <1>1 DEF RunInv, Followed, ToSet
<1>8. Open(still)'
  BY <1>7 DEF Open, Distinct
<1>9. CustodyTrusted'
  BY <1>1 DEF RunBooks, CustodyTrusted, Trusted, Honest
<1>10. Open(todo)'
  BY <1>2, <1>6 DEF Open, Distinct, IsRouted
<1> QED
  BY <1>1, <1>5, <1>7, <1>8, <1>9, <1>10 DEF RunBooks, WrittenLedgersAgree

LEMMA RestoreKeepsRunBooks ==
  ASSUME RunInv, RunBooks, RestoreCasualty
  PROVE  RunBooks'
<1> SUFFICES ASSUME NEW n, n = Head(todo) PROVE RunBooks'
  OBVIOUS
<1>1. /\ stage = "restore" /\ todo # <<>> /\ stage' = stage
      /\ RestoreNet(n, custody[n])
      /\ still' = IF IsRouted(n)' THEN still ELSE Append(still, n)
      /\ todo' = Tail(todo) /\ UNCHANGED custody
  BY DEF RestoreCasualty, ladderVars, IsRouted
<1>2. /\ todo \in Seq(Nets) /\ still \in Seq(Nets) /\ BoardTypeOK /\ ListsCasualties(todo)
      /\ BookInv /\ Open(todo) /\ Open(still) /\ ToSet(todo) \cap ToSet(still) = {}
  BY <1>1 DEF RunInv, RunTypeOK, Followed, RunBooks
<1>3. n \in Nets /\ n \in ToSet(todo) /\ ~IsRouted(n) /\ n \notin ToSet(still)
  BY <1>1, <1>2, TakingTheFirst DEF Open
<1>4. custody[n] \in Payloads /\ custody[n].saved.net = n /\ Trusted(custody[n])
  BY <1>2, <1>3 DEF ListsCasualties, RunInv, CustodyOK, RunBooks, CustodyTrusted
<1>5. BookInv' /\ \A m \in Nets : m # n => (IsRouted(m)' <=> IsRouted(m))
  BY <1>1, <1>2, <1>3, <1>4, RestoreKeepsBooks
<1>6. Open(todo)' /\ ToSet(todo') \subseteq ToSet(todo) /\ n \notin ToSet(todo')
  BY <1>1, <1>2, <1>5, RestIsOpen
<1>7. Open(still)' /\ ToSet(todo') \cap ToSet(still') = {}
  <2>1. PICK s : s = still'
    OBVIOUS
  <2>2. Distinct(s) /\ \A m \in ToSet(s) : m \in ToSet(still) \/ (m = n /\ ~IsRouted(n)')
    <3>1. CASE IsRouted(n)'
      BY <1>1, <1>2, <2>1, <3>1 DEF Open
    <3>2. CASE ~IsRouted(n)'
      BY <1>1, <1>2, <1>3, <2>1, <3>2, AppendIsDistinct, PuttingLast DEF Open
    <3> QED
      BY <3>1, <3>2
  <2>3. ToSet(still) \subseteq Nets
    BY <1>2 DEF ToSet
  <2>4. \A m \in ToSet(s) : ~IsRouted(m)'
    BY <1>2, <1>3, <1>5, <2>2, <2>3 DEF Open
  <2> QED
    BY <1>2, <1>6, <2>1, <2>2, <2>4 DEF Open, Distinct, IsRouted
<1>8. CustodyTrusted'
  BY <1>1 DEF RunBooks, CustodyTrusted, Trusted, Honest
<1> QED
  BY <1>1, <1>5, <1>6, <1>7, <1>8 DEF RunBooks, WrittenLedgersAgree

LEMMA RestoresDoneKeepsRunBooks ==
  ASSUME RunInv, RunBooks, RestoresDone
  PROVE  RunBooks'
<1>1. /\ stage = "restore" /\ stage' = "reroute" /\ todo' = still
      /\ UNCHANGED <<boardVars, custody>>
  BY DEF RestoresDone, vars, ladderVars
<1>2. FileBooks'
  BY <1>1, BooksAreFileBooks, StutterKeepsFileBooks DEF RunInv, RunBooks
<1>3. Open(todo)'
  BY <1>1 DEF RunBooks, Open, Distinct, IsRouted, boardVars
<1>4. CustodyTrusted'
  BY <1>1 DEF RunBooks, CustodyTrusted, Trusted, Honest
<1> QED
  BY <1>1, <1>2, <1>3, <1>4 DEF RunBooks, WrittenLedgersAgree

(* A plain reroute books its route and adds it to the write-list.          *)
LEMMA RerouteCasualtyKeepsRunBooks ==
  ASSUME RunInv, RunBooks, NEW r \in AllRoutes, RerouteCasualty(r)
  PROVE  RunBooks'
<1> SUFFICES ASSUME NEW n, n = Head(todo), NEW res, res = Found(n, r) PROVE RunBooks'
  OBVIOUS
<1>1. /\ stage = "reroute" /\ todo # <<>> /\ stage' = stage
      /\ r \in ClearRoutes(n) /\ copper' = [copper EXCEPT ![n] = @ \cup r]
      /\ Books(n, res) /\ results' = results \cup {res}
      /\ todo' = Tail(todo) /\ UNCHANGED <<refused, custody>>
  BY DEF RerouteCasualty, ladderVars
<1>2. todo \in Seq(Nets) /\ BoardTypeOK /\ FileBooks /\ Open(todo)
  BY <1>1 DEF RunInv, RunTypeOK, RunBooks
<1>3. n \in Nets
  BY <1>1, <1>2, TakingTheFirst
<1>4. r \in SUBSET Cells
  BY <1>1, <1>3, CopperAssumption DEF ClearRoutes
<1>f. res \in Results /\ res.net = n /\ res.cells = r /\ ~res.existing
  BY <1>3, <1>4 DEF Found, Results
<1>5. res \in Results /\ res.net = n /\ res.cells = r /\ ~res.existing /\ res # None
  BY <1>f, NoneIsNoResult
<1>6. /\ \A m \in Nets : routed'[m] = IF m = n THEN res ELSE routed[m]
      /\ routedIds' = routedIds \cup {n} /\ remaining' = remaining \ {n}
      /\ \A m \in Nets : IsRouted(m)' <=> IsRouted(m) \/ m = n
  BY <1>1, <1>2, <1>5 DEF Books, BoardTypeOK, IsRouted
<1>7. \A m \in Nets : copper[m] \subseteq copper'[m] /\ r \subseteq copper'[n]
  BY <1>1, <1>2, <1>3 DEF BoardTypeOK
<1>8. FileBooks'
  <2>1. routedIds' = {m \in Nets : IsRouted(m)'} /\ remaining' = Nets \ routedIds'
    BY <1>2, <1>3, <1>6 DEF FileBooks
  <2>2. \A m \in routedIds' : routed'[m].cells \subseteq copper'[m]
                              /\ (routed'[m].existing => Honest(routed[m]) /\ m # n)
                              /\ (~routed'[m].existing => routed'[m] \in results')
    BY <1>1, <1>2, <1>3, <1>5, <1>6, <1>7 DEF FileBooks, BoardTypeOK
  <2>3. \A m \in routedIds' : Honest(routed'[m])
    BY <1>2, <1>3, <1>6, <2>2 DEF Honest, BoardTypeOK
  <2>4. ASSUME NEW x \in results', routed'[x.net] = x PROVE ~x.existing
    <3>1. CASE x = res
      BY <1>5, <3>1
    <3>2. CASE x \in results /\ x # res
      <4>1. x.net \in Nets /\ x.net # n
        BY <1>2, <1>6, <2>4, <3>2 DEF BoardTypeOK, Results
      <4> QED
        BY <1>2, <1>6, <2>4, <3>2, <4>1 DEF FileBooks
    <3> QED
      BY <1>1, <2>4, <3>1, <3>2
  <2> QED
    BY <1>1, <1>2, <2>1, <2>2, <2>3, <2>4 DEF FileBooks, Honest
<1>9. Open(todo)'
  BY <1>1, <1>2, <1>6, RestIsOpen
<1>10. CustodyTrusted'
  BY <1>1 DEF RunBooks, CustodyTrusted, Trusted, Honest
<1> QED
  BY <1>1, <1>8, <1>9, <1>10 DEF RunBooks, WrittenLedgersAgree

(* The pieces of the last resort enter the write-list under a net that has *)
(* no result, so the filter drops them.                                    *)
LEMMA PartialKeepsRunBooks ==
  ASSUME RunInv, RunBooks, PartialRestore
  PROVE  RunBooks'
<1> SUFFICES ASSUME NEW n, n = Head(todo),
                    NEW src, src = IF refused[n] # None THEN refused[n] ELSE custody[n].saved,
                    NEW kept \in KeptPieces(n, src.cells),
                    copper' = [copper EXCEPT ![n] = @ \cup kept],
                    results' = IF kept = {} THEN results
                               ELSE results \cup {[src EXCEPT !.cells = kept]}
             PROVE  RunBooks'
  BY DEF PartialRestore
<1>1. /\ stage = "reroute" /\ todo # <<>> /\ stage' = stage /\ todo' = Tail(todo)
      /\ UNCHANGED <<routed, routedIds, remaining, refused, custody>>
  BY DEF PartialRestore, ladderVars
<1>2. /\ todo \in Seq(Nets) /\ BoardTypeOK /\ ListsCasualties(todo)
      /\ FileBooks /\ Open(todo)
  BY <1>1 DEF RunInv, RunTypeOK, Followed, RunBooks
<1>3. n \in Nets /\ n \in ToSet(todo) /\ ~IsRouted(n)
  BY <1>1, <1>2, TakingTheFirst DEF Open
<1>4. src \in Results /\ src.net = n
  BY <1>2, <1>3 DEF ListsCasualties, RunInv, CustodyOK, BoardTypeOK, Payloads, FileBooks
<1>5. [src EXCEPT !.cells = kept].net = n
  BY <1>4 DEF Results
<1>6. \A m \in Nets : copper[m] \subseteq copper'[m]
  BY <1>2 DEF BoardTypeOK
<1>7. ASSUME NEW x \in results', routed'[x.net] = x PROVE ~x.existing
  <2>1. CASE x \in results
    BY <1>1, <1>2, <1>7, <2>1 DEF FileBooks
  <2>2. CASE x = [src EXCEPT !.cells = kept] /\ kept # {}
    <3>1. x \in Results
      <4>1. x \in results' /\ results' \subseteq Results
        BY <1>7, RunNextInv DEF RunNext, Settle, RunInv, BoardTypeOK
      <4> QED
        BY <4>1
    <3>2. x.net = n /\ routed[n] = x
      BY <1>1, <1>5, <1>7, <2>2
    <3> QED
      BY <1>3, <3>1, <3>2, NoneIsNoResult DEF IsRouted
  <2> QED
    BY <1>7, <2>1, <2>2
<1>8. FileBooks'
  BY <1>1, <1>2, <1>6, <1>7 DEF FileBooks, IsRouted, Honest, BoardTypeOK
<1>9. Open(todo)'
  BY <1>1, <1>2, RestIsOpen DEF IsRouted
<1>10. CustodyTrusted'
  BY <1>1 DEF RunBooks, CustodyTrusted, Trusted, Honest
<1> QED
  BY <1>1, <1>8, <1>9, <1>10 DEF RunBooks, WrittenLedgersAgree

LEMMA CasualtiesDoneKeepsRunBooks ==
  ASSUME RunBooks, CasualtiesDone
  PROVE  RunBooks'
<1>1. stage = "reroute" /\ stage' = "write" /\ UNCHANGED <<boardVars, custody>>
  BY DEF CasualtiesDone, vars, ladderVars
<1>2. FileBooks'
  BY <1>1, StutterKeepsFileBooks DEF RunBooks
<1>3. CustodyTrusted'
  BY <1>1 DEF RunBooks, CustodyTrusted, Trusted, Honest
<1> QED
  BY <1>1, <1>2, <1>3 DEF RunBooks, WrittenLedgersAgree

(* The write keeps one result per net routed in this run, and its copper.  *)
LEMMA WriteKeepsRunBooks ==
  ASSUME RunInv, RunBooks, Write
  PROVE  RunBooks'
<1>1. /\ stage = "write" /\ stage' = "written" /\ results' = Authoritative
      /\ UNCHANGED <<routed, routedIds, remaining, custody>>
      /\ \A n \in Nets : copper'[n] =
           copper[n] \cap (InitCopper(n) \cup
                           UNION {res.cells : res \in {x \in Authoritative : x.net = n}})
  BY DEF Write, ladderVars
<1>2. FileBooks /\ BoardTypeOK
  BY <1>1 DEF RunBooks, RunInv
<1>3. \A n \in routedIds : n \in Nets /\ routed[n].net = n
  BY <1>2 DEF FileBooks, BoardTypeOK
<1>4. Authoritative = {routed[n] : n \in {m \in routedIds : ~routed[m].existing}}
  <2>1. ASSUME NEW x \in Authoritative
        PROVE  \E n \in routedIds : ~routed[n].existing /\ x = routed[n]
    <3>1. x \in results /\ routed[x.net] = x /\ x \in Results /\ x.net \in Nets
      BY <1>2 DEF Authoritative, BoardTypeOK, Results
    <3>2. IsRouted(x.net) /\ ~x.existing
      BY <1>2, <3>1, NoneIsNoResult DEF IsRouted, FileBooks
    <3> QED
      BY <1>2, <3>1, <3>2 DEF FileBooks
  <2>2. ASSUME NEW n \in routedIds, ~routed[n].existing PROVE routed[n] \in Authoritative
    BY <1>2, <1>3, <2>2 DEF Authoritative, FileBooks
  <2> QED
    BY <2>1, <2>2
<1>5. ASSUME NEW n \in routedIds PROVE routed[n].cells \subseteq copper'[n]
  <2>1. routed[n].cells \subseteq copper[n]
    BY <1>2 DEF FileBooks
  <2>2. CASE routed[n].existing
    <3>0. n \in Existing /\ routed[n] = FromFile(n)
      BY <1>2, <1>3, <2>2 DEF FileBooks, Honest
    <3>1. n \in Existing /\ routed[n].cells = FileRoute[n]
      BY <3>0 DEF FromFile
    <3> QED
      BY <1>1, <1>3, <2>1, <3>1 DEF InitCopper
  <2>3. CASE ~routed[n].existing
    <3>1. routed[n] \in {x \in Authoritative : x.net = n}
      BY <1>3, <1>4, <2>3
    <3> QED
      BY <1>1, <1>3, <2>1, <3>1
  <2> QED
    BY <2>2, <2>3
<1>6. LedgersAgree'
  BY <1>1, <1>2, <1>4, <1>5 DEF LedgersAgree, FileBooks, IsRouted
<1>7. CustodyTrusted'
  BY <1>1 DEF RunBooks, CustodyTrusted, Trusted, Honest
<1> QED
  BY <1>1, <1>6, <1>7 DEF RunBooks, WrittenLedgersAgree

LEMMA RunBooksNext ==
  ASSUME RunInv, RunBooks, [RunNext]_runVars
  PROVE  RunBooks'
<1>1. CASE Loops
  BY <1>1, LoopsKeepRunBooks DEF Loops, Next
<1>2. CASE (Cancel /\ UNCHANGED settleVars) \/ Written \/ UNCHANGED runVars
  <2>1. [Next]_vars /\ UNCHANGED settleVars
    BY <1>2 DEF Next, Written, runVars
  <2>2. UNCHANGED <<boardVars, custody, settleVars>>
    BY <1>2 DEF Cancel, Written, runVars, vars, ladderVars
  <2> QED
    BY <2>1, <2>2, LoopsKeepRunBooks, StutterKeepsRunBooks
<1>3. CASE Settle
  BY <1>3, FindKeepsRunBooks, RestoreKeepsRunBooks, RestoresDoneKeepsRunBooks,
     RerouteCasualtyKeepsRunBooks, PartialKeepsRunBooks, CasualtiesDoneKeepsRunBooks,
     WriteKeepsRunBooks DEF Settle
<1> QED
  BY <1>1, <1>2, <1>3 DEF RunNext

(* The written file has one result for every net routed in this run and    *)
(* none for any other, with all its copper: the reroutes and the pieces of *)
(* the reconciliation do not survive the filter unless a net stands behind *)
(* them.                                                                   *)
THEOREM WrittenLedgersAlwaysAgree == RunSpec => []WrittenLedgersAgree
<1>1. RunInit => RunBooks
  BY RunBooksInit
<1>2. RunInv /\ RunBooks /\ [RunNext]_runVars => RunBooks'
  BY RunBooksNext
<1>3. RunBooks => WrittenLedgersAgree
  BY DEF RunBooks
<1> QED
  BY <1>1, <1>2, <1>3, RunSpecInv, PTL DEF RunSpec
=================================================================================
