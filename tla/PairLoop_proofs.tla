------------------------------ MODULE PairLoop_proofs ------------------------------
(***************************************************************************)
(* In every run of the two loops the ledgers of a pair agree, a pair that  *)
(* fails leaves no trace, no ripped pair is forgotten, the pairs ahead are *)
(* open, and with the victims in hand counted as present the loops         *)
(* implement EvictionBoard.  Three parts: what the primitives preserve;    *)
(* the inductive invariant of the loops; the refinement.                   *)
(***************************************************************************)
EXTENDS PairLoop, TLAPS, SequenceTheorems, FiniteSetTheorems

----------------------------------------------------------------------------
(***************************************************************************)
(* What the primitives of a pair run preserve: a landing, a rip, the two   *)
(* restores and the escape of a pair that cannot be rerouted.  The pairs   *)
(* ripped for the pair in hand are given as a set; their payloads are the  *)
(* ones saved with their halves.                                           *)
(***************************************************************************)

(* A payload that a restore can be trusted with: it is about both halves,  *)
(* its result was in the write-list and its halves do not touch.           *)
Loads == {p \in PairPayloads :
            /\ p.ids = HalvesOf(p.res.pair) /\ p.wasIn
            /\ p.res.cells["p"] \cap p.res.cells["n"] = {}}

(* Copper of two halves, of one pair or of two, is never in one cell.      *)
NoPairShort == \A h, k \in Halves : h # k => copper[h] \cap copper[k] = {}

Old(h) == saved[h].res.cells[h[2]]

BoardTypes ==
  /\ copper \in [Halves -> SUBSET Cells]
  /\ routed \in [Halves -> PairResults \cup {None}]
  /\ \A part \in results : part[1] \in PairResults /\ part \in Members(part[1])

ResultsSound ==
  \A h \in Halves : routed[h] # None =>
    /\ routed[h].pair = Pair(h) /\ h \in mapped
    /\ routed[h].cells["p"] \cap routed[h].cells["n"] = {}

SavedSound ==
  \A h \in Halves : saved[h] # None =>
    /\ saved[h] \in Loads /\ saved[h].res.pair = Pair(h) /\ h \in mapped
    /\ routed[h] = None =>
         \A k \in HalvesOf(Pair(h)) \ {h} : Old(h) \cap copper[k] = {}

SavedTogether == \A h \in Halves : saved[h] = saved[P(Pair(h))]

BoardSound ==
  /\ BoardTypes /\ PairBooksAgree /\ ResultsSound /\ SavedSound /\ SavedTogether
  /\ NoPairShort
  /\ refused = {}

(* The pairs of V are off the board and nobody moved into their place.     *)
HeldSound(V) ==
  /\ V \subseteq Pairs
  /\ \A h \in Halves : Pair(h) \in V =>
       /\ routed[h] = None /\ saved[h] # None
       /\ \A k \in Halves \ {h} : Old(h) \cap copper[k] = {}
  /\ \A h, k \in Halves : Pair(h) \in V /\ Pair(k) \in V /\ h # k =>
       Old(h) \cap Old(k) = {}

(* The ledgers with the pairs of V brought back.                           *)
Before(V) ==
  [copper    |-> [h \in Halves |-> IF Pair(h) \in V THEN copper[h] \cup Old(h) ELSE copper[h]],
   routed    |-> [h \in Halves |-> IF Pair(h) \in V THEN saved[h].res ELSE routed[h]],
   ids       |-> ids \cup {h \in Halves : Pair(h) \in V},
   remaining |-> remaining \ {h \in Halves : Pair(h) \in V},
   written   |-> {part[1] : part \in results} \cup {saved[P(x)].res : x \in V}]

----------------------------------------------------------------------------
LEMMA HalfFacts ==
  /\ \A h \in Halves : Pair(h) \in Pairs /\ h[2] \in Sides /\ h \in HalvesOf(Pair(h))
                       /\ h = <<Pair(h), h[2]>>
  /\ \A x \in Pairs : P(x) \in Halves /\ Pair(P(x)) = x /\ P(x) \in HalvesOf(x)
  /\ \A x \in Pairs : \A h : h \in HalvesOf(x) <=> h \in Halves /\ Pair(h) = x
  /\ \A x \in Pairs, s \in Sides : <<x, s>> \in Halves /\ Pair(<<x, s>>) = x
  BY DEF Halves, HalvesOf, Pair, P, Sides

(* The entries of a result in the write-list, whole or in legs.            *)
LEMMA MemberFacts ==
  ASSUME NEW res \in PairResults
  PROVE  /\ Written(res) \subseteq Members(res) /\ Written(res) # {}
         /\ Whole(res) \in Members(res)
         /\ \A part \in Members(res) : part[1] = res
<1>1. res.legs \in Nat
  BY DEF PairResults
<1>2. Whole(res) \in Members(res) /\ \A part \in Members(res) : part[1] = res
  BY DEF Members, Whole, Parts
<1>3. CASE res.legs = 0
  BY <1>2, <1>3 DEF Written
<1>4. CASE res.legs # 0
  <2>1. <<res, 1>> \in Parts(res)
    BY <1>1, <1>4 DEF Parts
  <2> QED
    BY <1>2, <1>4, <2>1 DEF Written, Members
<1> QED
  BY <1>2, <1>3, <1>4

(* The write-list has nothing of a pair that is not routed.                *)
LEMMA UnroutedIsUnwritten ==
  ASSUME BoardSound, NEW x \in Pairs, routed[P(x)] = None
  PROVE  \A part \in results : part[1].pair # x
<1> SUFFICES ASSUME NEW part \in results, part[1].pair = x PROVE FALSE
  OBVIOUS
<1>1. part[1] \in PairResults /\ part[1] = routed[P(x)]
  BY DEF BoardSound, BoardTypes, PairBooksAgree
<1> QED
  BY <1>1, NoneIsNoPairResult

----------------------------------------------------------------------------
(* A result enters the books of a pair that is not routed.                 *)
LEMMA BookingAgrees ==
  ASSUME BoardSound, NEW res \in PairResults, routed[P(res.pair)] = None,
         NEW W \in {{Whole(res)}, Written(res)},
         Lay(res), routed' = Assign(HalvesOf(res.pair), res),
         ids' = ids \cup HalvesOf(res.pair), remaining' = remaining \ HalvesOf(res.pair),
         named' \subseteq named \cup HalvesOf(res.pair), results' = results \cup W
  PROVE  PairBooksAgree' /\ BoardTypes'
<1> DEFINE x == res.pair
<1>1. x \in Pairs /\ res # None /\ res.cells \in [Sides -> SUBSET Cells]
  BY NoneIsNoPairResult DEF PairResults
<1>2. \A h \in Halves : routed'[h] = IF Pair(h) = x THEN res ELSE routed[h]
  BY <1>1, HalfFacts DEF Assign
<1>3. \A h \in Halves : copper'[h] = IF Pair(h) = x THEN copper[h] \cup res.cells[h[2]]
                                     ELSE copper[h]
  BY DEF Lay
<1>4. copper' \in [Halves -> SUBSET Cells] /\ routed' \in [Halves -> PairResults \cup {None}]
  <2>1. ASSUME NEW h \in Halves PROVE copper'[h] \in SUBSET Cells
    <3>1. copper[h] \in SUBSET Cells /\ res.cells[h[2]] \in SUBSET Cells
      BY <1>1, HalfFacts DEF BoardSound, BoardTypes
    <3> QED
      BY <1>3, <3>1
  <2>2. \A h \in Halves : routed'[h] \in PairResults \cup {None}
    BY <1>2 DEF BoardSound, BoardTypes
  <2> QED
    BY <2>1, <2>2 DEF Lay, Assign
<1>5. W \subseteq Members(res) /\ \A part \in W : part[1] = res
  BY MemberFacts
<1>6. \A part \in results' : part[1] \in PairResults /\ part \in Members(part[1])
  BY <1>5 DEF BoardSound, BoardTypes
<1>7. \A part \in results : part[1] # res /\ part[1].pair # x
  BY <1>1, UnroutedIsUnwritten
<1>8. \A h \in Halves :
       /\ routed'[h] = routed'[P(Pair(h))]
       /\ h \in ids' <=> routed'[h] # None
       /\ h \in remaining' <=> routed'[h] = None
       /\ h \in named' => routed'[h] # None
       /\ routed'[h] # None => routed'[h].cells[h[2]] \subseteq copper'[h]
  <2> SUFFICES ASSUME NEW h \in Halves
      PROVE /\ routed'[h] = routed'[P(Pair(h))]
            /\ h \in ids' <=> routed'[h] # None
            /\ h \in remaining' <=> routed'[h] = None
            /\ h \in named' => routed'[h] # None
            /\ routed'[h] # None => routed'[h].cells[h[2]] \subseteq copper'[h]
    OBVIOUS
  <2>1. Pair(h) \in Pairs /\ P(Pair(h)) \in Halves /\ Pair(P(Pair(h))) = Pair(h)
    BY HalfFacts
  <2>2. h \in HalvesOf(x) <=> Pair(h) = x
    BY <1>1, HalfFacts
  <2>3. CASE Pair(h) = x
    BY <1>1, <1>2, <1>3, <2>1, <2>2, <2>3
  <2>4. CASE Pair(h) # x
    BY <1>1, <1>2, <1>3, <2>1, <2>2, <2>4 DEF BoardSound, PairBooksAgree
  <2> QED
    BY <2>3, <2>4
<1>9. ASSUME NEW y \in Pairs, routed'[P(y)] # None
      PROVE  Members(routed'[P(y)]) \cap results'
               \in {{Whole(routed'[P(y)])}, Written(routed'[P(y)])}
  <2>1. P(y) \in Halves /\ Pair(P(y)) = y
    BY HalfFacts
  <2>2. CASE y = x
    <3>1. Members(res) \cap results = {}
      BY <1>7, MemberFacts
    <3>2. Members(res) \cap results' = W
      BY <1>5, <3>1
    <3> QED
      BY <1>2, <2>1, <2>2, <3>2
  <2>3. CASE y # x
    <3> DEFINE old == routed[P(y)]
    <3>1. routed'[P(y)] = old /\ old # None /\ old \in PairResults /\ old # res
      BY <1>2, <1>9, <2>1, <2>3 DEF BoardSound, BoardTypes, ResultsSound
    <3>2. Members(old) \cap W = {}
      BY <1>5, <3>1, MemberFacts
    <3>3. IsRouted(y)
      <4>1. \A h \in HalvesOf(y) : h \in Halves /\ routed[h] = routed[P(y)]
        BY HalfFacts DEF BoardSound, PairBooksAgree
      <4> QED
        BY <3>1, <4>1 DEF IsRouted
    <3>4. Members(old) \cap results \in {{Whole(old)}, Written(old)}
      BY <3>3 DEF BoardSound, PairBooksAgree
    <3>5. Members(old) \cap results' = Members(old) \cap results
      BY <3>2
    <3> QED
      BY <3>1, <3>4, <3>5
  <2> QED
    BY <2>2, <2>3
<1>10. \A y \in Pairs : IsRouted(y)' => routed'[P(y)] # None
  BY HalfFacts DEF IsRouted
<1>11. \A part \in results' : part[1] = routed'[P(part[1].pair)]
  <2> SUFFICES ASSUME NEW part \in results' PROVE part[1] = routed'[P(part[1].pair)]
    OBVIOUS
  <2>1. CASE part \in W
    BY <1>1, <1>2, <1>5, <2>1, HalfFacts
  <2>2. CASE part \in results
    <3>1. part[1].pair \in Pairs /\ part[1].pair # x /\ part[1] = routed[P(part[1].pair)]
      BY <1>7, <2>2 DEF BoardSound, BoardTypes, PairBooksAgree, PairResults
    <3> QED
      BY <1>2, <3>1, HalfFacts
  <2> QED
    BY <2>1, <2>2
<1> HIDE DEF x
<1>12. PairBooksAgree'
  BY <1>8, <1>9, <1>10, <1>11 DEF PairBooksAgree
<1> QED
  BY <1>4, <1>6, <1>12 DEF BoardTypes

----------------------------------------------------------------------------
(* A pair comes to the board on free cells: by a landing or by a restore.  *)
LEMMA BringingIn ==
  ASSUME BoardSound, NEW res \in PairResults, routed[P(res.pair)] = None,
         res.cells["p"] \cap res.cells["n"] = {},
         \A h \in HalvesOf(res.pair) : \A k \in Halves \ {h} : res.cells[h[2]] \cap copper[k] = {},
         NEW W \in {{Whole(res)}, Written(res)},
         Lay(res), routed' = Assign(HalvesOf(res.pair), res),
         ids' = ids \cup HalvesOf(res.pair), remaining' = remaining \ HalvesOf(res.pair),
         named' \subseteq named \cup HalvesOf(res.pair), results' = results \cup W,
         mapped' = mapped \cup HalvesOf(res.pair), UNCHANGED refused,
         \A h \in Halves : saved'[h] # None => saved'[h] = saved[h], SavedTogether'
  PROVE  BoardSound'
<1> DEFINE x == res.pair
<1>1. x \in Pairs /\ res # None
  BY NoneIsNoPairResult DEF PairResults
<1>2. \A h \in Halves : routed'[h] = IF Pair(h) = x THEN res ELSE routed[h]
  BY <1>1, HalfFacts DEF Assign
<1>3. \A h \in Halves : copper'[h] = IF Pair(h) = x THEN copper[h] \cup res.cells[h[2]]
                                     ELSE copper[h]
  BY DEF Lay
<1>4. PairBooksAgree' /\ BoardTypes'
  BY BookingAgrees
<1>5. \A h \in Halves : Pair(h) = x => h \in mapped'
  BY <1>1, HalfFacts
<1>6. ResultsSound'
  BY <1>2, <1>5 DEF ResultsSound, BoardSound
<1>7. \A h \in Halves, k \in Halves : Pair(h) = x /\ h # k => res.cells[h[2]] \cap copper[k] = {}
  BY <1>1, HalfFacts
<1>8. \A h, k \in Halves : Pair(h) = x /\ Pair(k) = x /\ h # k =>
        res.cells[h[2]] \cap res.cells[k[2]] = {}
  <2>1. \A h, k \in Halves : Pair(h) = x /\ Pair(k) = x /\ h # k => h[2] # k[2]
    BY HalfFacts
  <2> QED
    BY <2>1, HalfFacts DEF Sides
<1> HIDE DEF x
<1>9. NoPairShort'
  <2> SUFFICES ASSUME NEW h \in Halves, NEW k \in Halves, h # k
      PROVE copper'[h] \cap copper'[k] = {}
    BY DEF NoPairShort
  <2>1. copper[h] \cap copper[k] = {}
    BY DEF BoardSound, NoPairShort
  <2>2. CASE Pair(h) = x /\ Pair(k) = x
    <3>1. /\ copper'[h] = copper[h] \cup res.cells[h[2]]
          /\ copper'[k] = copper[k] \cup res.cells[k[2]]
      BY <1>3, <2>2
    <3>2. res.cells[h[2]] \cap copper[k] = {} /\ res.cells[k[2]] \cap copper[h] = {}
          /\ res.cells[h[2]] \cap res.cells[k[2]] = {}
      BY <1>7, <1>8, <2>2
    <3> QED
      BY <2>1, <3>1, <3>2
  <2>3. CASE Pair(h) = x /\ Pair(k) # x
    BY <1>3, <1>7, <2>1, <2>3
  <2>4. CASE Pair(h) # x /\ Pair(k) = x
    BY <1>3, <1>7, <2>1, <2>4
  <2>5. CASE Pair(h) # x /\ Pair(k) # x
    BY <1>3, <2>1, <2>5
  <2> QED
    BY <2>2, <2>3, <2>4, <2>5
<1>10. SavedSound'
  <2> SUFFICES ASSUME NEW h \in Halves, saved'[h] # None
      PROVE /\ saved'[h] \in Loads /\ saved'[h].res.pair = Pair(h) /\ h \in mapped'
            /\ routed'[h] = None =>
                 \A k \in HalvesOf(Pair(h)) \ {h} : Old(h)' \cap copper'[k] = {}
    BY DEF SavedSound, Old
  <2>1. saved'[h] = saved[h] /\ saved[h] # None /\ h \in mapped' /\ Old(h)' = Old(h)
    BY DEF BoardSound, SavedSound, Old
  <2>2. saved[h] \in Loads /\ saved[h].res.pair = Pair(h)
    BY <2>1 DEF BoardSound, SavedSound
  <2>3. ASSUME routed'[h] = None, NEW k \in HalvesOf(Pair(h)) \ {h}
        PROVE  Old(h) \cap copper'[k] = {}
    <3>1. Pair(h) # x /\ routed[h] = None
      BY <1>1, <1>2, <2>3
    <3>2. k \in Halves /\ Pair(k) = Pair(h)
      BY HalfFacts
    <3>3. copper'[k] = copper[k]
      BY <1>3, <3>1, <3>2
    <3> QED
      BY <2>1, <3>1, <3>3 DEF BoardSound, SavedSound
  <2> QED
    BY <2>1, <2>2, <2>3
<1> QED
  BY <1>4, <1>6, <1>9, <1>10 DEF BoardSound

(* A landing.                                                              *)
LEMMA LandingIsSound ==
  ASSUME BoardSound, NEW x \in Pairs, routed[P(x)] = None, NEW r \in FreeRoutes(x),
         NEW legs \in Nat, NEW named_ \in BOOLEAN, RecordPair(Result(x, r, legs, named_))
  PROVE  /\ BoardSound'
         /\ \A h \in Halves : Pair(h) # x => routed'[h] = routed[h]
         /\ \A h \in Halves : Pair(h) = x => routed'[h] # None
<1> DEFINE res == Result(x, r, legs, named_)
<1>1. r \in [Sides -> SUBSET Cells] /\ r["p"] \cap r["n"] = {}
  BY PairAssumption DEF FreeRoutes
<1>2. res \in PairResults /\ res.pair = x /\ res.cells = r
  BY <1>1 DEF Result, PairResults
<1>3. ASSUME NEW h \in HalvesOf(x), NEW k \in Halves \ {h}
      PROVE  res.cells[h[2]] \cap copper[k] = {}
  <2>1. h[2] \in Sides /\ h = <<x, h[2]>>
    BY HalfFacts
  <2>2. r[h[2]] \cap Others(h) = {}
    BY <2>1 DEF FreeRoutes
  <2> QED
    BY <1>2, <2>2 DEF Others
<1>4. /\ Lay(res) /\ routed' = Assign(HalvesOf(x), res) /\ SavedTogether'
      /\ ids' = ids \cup HalvesOf(x) /\ remaining' = remaining \ HalvesOf(x)
      /\ named' \subseteq named \cup HalvesOf(x) /\ mapped' = mapped \cup HalvesOf(x)
      /\ results' = results \cup Written(res) /\ UNCHANGED <<saved, refused>>
  BY <1>2 DEF RecordPair, NamedBy, BoardSound, SavedTogether
<1> HIDE DEF res
<1>5. BoardSound'
  BY <1>1, <1>2, <1>3, <1>4, BringingIn
<1>6. res # None
  BY <1>2, NoneIsNoPairResult
<1>7. \A h \in Halves : routed'[h] = IF Pair(h) = x THEN res ELSE routed[h]
  BY <1>4, HalfFacts DEF Assign
<1> QED
  BY <1>5, <1>6, <1>7

(* A restore, or a refusal, of a pair in V: it fits, so it happens.        *)
LEMMA HeldFits ==
  ASSUME BoardSound, NEW V, HeldSound(V), NEW x \in V
  PROVE  /\ x \in Pairs /\ routed[P(x)] = None
         /\ saved[P(x)] \in Loads /\ saved[P(x)].res.pair = x
         /\ \A h \in HalvesOf(x) : saved[h] = saved[P(x)] /\ h \in mapped
         /\ \A h \in HalvesOf(x) : \A k \in Halves \ {h} :
              saved[P(x)].res.cells[h[2]] \cap copper[k] = {}
         /\ ~Collides(saved[P(x)])
<1> DEFINE p == saved[P(x)]
<1>1. x \in Pairs /\ P(x) \in Halves /\ Pair(P(x)) = x
  BY HalfFacts DEF HeldSound
<1>2. routed[P(x)] = None /\ p # None
  BY <1>1 DEF HeldSound
<1>3. p \in Loads /\ p.res.pair = x
  BY <1>1, <1>2 DEF BoardSound, SavedSound
<1>4. \A h \in HalvesOf(x) : h \in Halves /\ Pair(h) = x
  BY <1>1, HalfFacts
<1>5. \A h \in HalvesOf(x) : saved[h] = p /\ saved[h] # None
  BY <1>1, <1>4 DEF HeldSound, BoardSound, SavedTogether
<1>6. \A h \in HalvesOf(x) : h \in mapped
  BY <1>4, <1>5 DEF BoardSound, SavedSound
<1>7. \A h \in HalvesOf(x) : \A k \in Halves \ {h} : p.res.cells[h[2]] \cap copper[k] = {}
  BY <1>4, <1>5 DEF HeldSound, Old
<1>8. p.ids = HalvesOf(x)
  BY <1>3 DEF Loads
<1>9. ~Collides(p)
  BY <1>4, <1>7, <1>8 DEF Collides
<1> QED
  BY <1>1, <1>2, <1>3, <1>5, <1>6, <1>7, <1>9

----------------------------------------------------------------------------
(* What the books say of a routed half, and what a rip of it would save.   *)
LEMMA RoutedHalf ==
  ASSUME BoardSound, NEW h \in Halves, routed[h] # None
  PROVE  /\ Pair(h) \in Pairs /\ routed[h] \in PairResults /\ routed[h].pair = Pair(h)
         /\ \A k \in HalvesOf(Pair(h)) :
              /\ k \in Halves /\ routed[k] = routed[h] /\ k \in ids /\ k \notin remaining
              /\ routed[h].cells[k[2]] \subseteq copper[k]
         /\ Members(routed[h]) \cap results # {}
         /\ RippedWith(h) = HalvesOf(Pair(h))
         /\ Payload(h) \in Loads /\ Payload(h).res = routed[h]
<1> DEFINE x == Pair(h)  res == routed[h]
<1>1. x \in Pairs /\ res \in PairResults /\ res.pair = x
  BY HalfFacts DEF BoardSound, BoardTypes, ResultsSound
<1>2. \A k \in HalvesOf(x) : k \in Halves /\ Pair(k) = x
  BY <1>1, HalfFacts
<1>3. P(x) \in Halves /\ Pair(P(x)) = x /\ routed[P(x)] = res
  BY <1>1, HalfFacts DEF BoardSound, PairBooksAgree
<1>4. ASSUME NEW k \in HalvesOf(x)
      PROVE /\ k \in Halves /\ routed[k] = res /\ k \in ids /\ k \notin remaining
            /\ res.cells[k[2]] \subseteq copper[k]
  <2>1. k \in Halves /\ Pair(k) = x
    BY <1>2
  <2>2. routed[k] = res
    BY <1>3, <2>1 DEF BoardSound, PairBooksAgree
  <2> QED
    BY <2>1, <2>2 DEF BoardSound, PairBooksAgree
<1>5. IsRouted(x)
  BY <1>4 DEF IsRouted
<1>6. Members(res) \cap results # {}
  <2>1. Members(res) \cap results \in {{Whole(res)}, Written(res)}
    BY <1>1, <1>3, <1>5 DEF BoardSound, PairBooksAgree
  <2> QED
    BY <1>1, <2>1, MemberFacts
<1>7. RippedWith(h) = HalvesOf(x)
  BY DEF RippedWith, BoardSound, ResultsSound
<1>8. HalvesOf(x) \subseteq Halves
  BY <1>2
<1>9. Payload(h) \in Loads /\ Payload(h).res = res
  BY <1>1, <1>6, <1>7, <1>8 DEF Payload, Loads, PairPayloads, BoardSound, ResultsSound
<1> QED
  BY <1>1, <1>4, <1>6, <1>7, <1>9

(* What a rip of h writes, in terms of its pair.                           *)
Ripping(h) ==
  /\ \A k \in Halves : IF Pair(k) = Pair(h)
       THEN copper'[k] = copper[k] \ routed[h].cells[k[2]] /\ routed'[k] = None
            /\ saved'[k] = Payload(h)
       ELSE copper'[k] = copper[k] /\ routed'[k] = routed[k] /\ saved'[k] = saved[k]
  /\ results' = results \ Members(routed[h])
  /\ ids' = ids \ HalvesOf(Pair(h)) /\ remaining' = remaining \cup HalvesOf(Pair(h))
  /\ named' = named \ HalvesOf(Pair(h))
  /\ mapped' = mapped /\ refused' = refused

LEMMA RipWrites ==
  ASSUME BoardSound, NEW h \in Halves, routed[h] # None, RipUp(h)
  PROVE  Ripping(h) /\ BoardTypes'
<1>1. RippedWith(h) = HalvesOf(Pair(h)) /\ routed[h].pair = Pair(h) /\ Pair(h) \in Pairs
  BY RoutedHalf
<1>2. \A k \in Halves : k \in HalvesOf(Pair(h)) <=> Pair(k) = Pair(h)
  BY <1>1, HalfFacts
<1>3. Ripping(h)
  BY <1>1, <1>2 DEF RipUp, TakeOff, Assign, Ripping
<1>4. copper' \in [Halves -> SUBSET Cells]
  <2>1. \A k \in Halves : copper'[k] \subseteq copper[k]
    BY <1>3 DEF Ripping
  <2>2. \A k \in Halves : copper'[k] \in SUBSET Cells
    BY <2>1 DEF BoardSound, BoardTypes
  <2> QED
    BY <2>2 DEF RipUp, TakeOff
<1>5. routed' \in [Halves -> PairResults \cup {None}]
  <2>1. \A k \in Halves : routed'[k] \in PairResults \cup {None}
    BY <1>3 DEF Ripping, BoardSound, BoardTypes
  <2> QED
    BY <2>1 DEF RipUp, Assign
<1>6. \A part \in results' : part \in results
  BY <1>3 DEF Ripping
<1> QED
  BY <1>3, <1>4, <1>5, <1>6 DEF BoardTypes, BoardSound

LEMMA RipKeepsBooks ==
  ASSUME BoardSound, NEW h \in Halves, routed[h] # None, Ripping(h)
  PROVE  PairBooksAgree'
<1> DEFINE x == Pair(h)  res == routed[h]
<1>1. x \in Pairs /\ res \in PairResults /\ res.pair = x
  BY RoutedHalf
<1>2. \A k \in Halves : k \in HalvesOf(x) <=> Pair(k) = x
  BY <1>1, HalfFacts
<1>3. \A y \in Pairs : P(y) \in Halves /\ Pair(P(y)) = y
  BY HalfFacts
<1>4. \A y \in Pairs : routed'[P(y)] = IF y = x THEN None ELSE routed[P(y)]
  BY <1>3 DEF Ripping
<1>5. ASSUME NEW k \in Halves
      PROVE /\ routed'[k] = routed'[P(Pair(k))]
            /\ k \in ids' <=> routed'[k] # None
            /\ k \in remaining' <=> routed'[k] = None
            /\ k \in named' => routed'[k] # None
            /\ routed'[k] # None => routed'[k].cells[k[2]] \subseteq copper'[k]
  <2>1. Pair(k) \in Pairs /\ P(Pair(k)) \in Halves /\ Pair(P(Pair(k))) = Pair(k)
    BY HalfFacts
  <2>2. CASE Pair(k) = x
    BY <1>2, <2>1, <2>2 DEF Ripping
  <2>3. CASE Pair(k) # x
    BY <1>2, <2>1, <2>3 DEF Ripping, BoardSound, PairBooksAgree
  <2> QED
    BY <2>2, <2>3
<1>6. ASSUME NEW y \in Pairs, IsRouted(y)'
      PROVE  Members(routed'[P(y)]) \cap results'
               \in {{Whole(routed'[P(y)])}, Written(routed'[P(y)])}
  <2> DEFINE old == routed[P(y)]
  <2>1. P(y) \in HalvesOf(y) /\ routed'[P(y)] # None
    BY <1>6, HalfFacts DEF IsRouted
  <2>2. y # x /\ routed'[P(y)] = old /\ old # None
    BY <1>4, <2>1
  <2>3. old \in PairResults /\ old.pair = y
    BY <1>3, <2>2 DEF BoardSound, BoardTypes, ResultsSound
  <2>4. IsRouted(y)
    <3>1. \A k \in HalvesOf(y) : k \in Halves /\ routed[k] = routed[P(y)]
      BY HalfFacts DEF BoardSound, PairBooksAgree
    <3> QED
      BY <2>2, <3>1 DEF IsRouted
  <2>5. Members(old) \cap results \in {{Whole(old)}, Written(old)}
    BY <2>4 DEF BoardSound, PairBooksAgree
  <2>6. Members(old) \cap Members(res) = {}
    <3>1. old # res
      BY <1>1, <2>2, <2>3
    <3> QED
      BY <1>1, <2>3, <3>1, MemberFacts
  <2>7. Members(old) \cap results' = Members(old) \cap results
    BY <2>6 DEF Ripping
  <2> HIDE DEF old
  <2> QED
    BY <2>2, <2>5, <2>7
<1>7. ASSUME NEW part \in results' PROVE part[1] = routed'[P(part[1].pair)]
  <2>1. part \in results /\ part \notin Members(res)
    BY DEF Ripping
  <2>2. /\ part[1] \in PairResults /\ part \in Members(part[1])
        /\ part[1] = routed[P(part[1].pair)] /\ part[1].pair \in Pairs
    BY <2>1 DEF BoardSound, BoardTypes, PairBooksAgree, PairResults
  <2>3. part[1].pair # x
    <3>1. routed[P(x)] = res
      BY <1>1, <1>3 DEF BoardSound, PairBooksAgree
    <3> QED
      BY <2>1, <2>2, <3>1
  <2> QED
    BY <1>4, <2>2, <2>3
<1> HIDE DEF x, res
<1> QED
  BY <1>5, <1>6, <1>7 DEF PairBooksAgree

(* A rip keeps the board sound, holds the pair and changes nothing that    *)
(* bringing the held pairs back would not undo.                            *)
LEMMA RipIsSound ==
  ASSUME BoardSound, NEW h \in Halves, routed[h] # None, RipUp(h)
  PROVE  BoardSound'
<1> DEFINE x == Pair(h)  res == routed[h]
<1>1. Ripping(h) /\ BoardTypes'
  BY RipWrites
<1>2. PairBooksAgree'
  BY <1>1, RipKeepsBooks
<1>3. /\ x \in Pairs /\ res.pair = x /\ Payload(h) \in Loads /\ Payload(h).res = res
      /\ \A k \in Halves : Pair(k) = x => res.cells[k[2]] \subseteq copper[k] /\ routed[k] = res
  BY RoutedHalf, HalfFacts
<1>4. ResultsSound'
  BY <1>1 DEF Ripping, ResultsSound, BoardSound
<1>5. \A k \in Halves : copper'[k] \subseteq copper[k]
  BY <1>1 DEF Ripping
<1>6. NoPairShort'
  BY <1>5 DEF NoPairShort, BoardSound
<1>7. SavedTogether'
  <2> SUFFICES ASSUME NEW k \in Halves PROVE saved'[k] = saved'[P(Pair(k))]
    BY DEF SavedTogether
  <2>1. P(Pair(k)) \in Halves /\ Pair(P(Pair(k))) = Pair(k)
    BY HalfFacts
  <2> QED
    BY <1>1, <2>1 DEF Ripping, BoardSound, SavedTogether
<1>8. SavedSound'
  <2> SUFFICES ASSUME NEW k \in Halves, saved'[k] # None
      PROVE /\ saved'[k] \in Loads /\ saved'[k].res.pair = Pair(k) /\ k \in mapped'
            /\ routed'[k] = None =>
                 \A j \in HalvesOf(Pair(k)) \ {k} : Old(k)' \cap copper'[j] = {}
    BY DEF SavedSound
  <2>1. \A j \in HalvesOf(Pair(k)) : j \in Halves /\ Pair(j) = Pair(k)
    BY HalfFacts
  <2>2. CASE Pair(k) = x
    <3>1. saved'[k] = Payload(h) /\ Old(k)' = res.cells[k[2]]
      BY <1>1, <1>3, <2>2 DEF Ripping, Old
    <3>2. k \in mapped'
      BY <1>1, <1>3, <2>2 DEF Ripping, BoardSound, ResultsSound
    <3>3. \A j \in HalvesOf(Pair(k)) \ {k} : res.cells[k[2]] \cap copper'[j] = {}
      BY <1>3, <1>5, <2>1, <2>2 DEF BoardSound, NoPairShort
    <3> QED
      BY <1>3, <2>2, <3>1, <3>2, <3>3
  <2>3. CASE Pair(k) # x
    <3>1. saved'[k] = saved[k] /\ Old(k)' = Old(k) /\ routed'[k] = routed[k] /\ mapped' = mapped
      BY <1>1, <2>3 DEF Ripping, Old
    <3>2. \A j \in HalvesOf(Pair(k)) : copper'[j] = copper[j]
      BY <1>1, <2>1, <2>3 DEF Ripping
    <3> QED
      BY <3>1, <3>2 DEF BoardSound, SavedSound
  <2> QED
    BY <2>2, <2>3
<1> QED
  BY <1>1, <1>2, <1>4, <1>6, <1>7, <1>8 DEF BoardSound, Ripping

LEMMA RipHolds ==
  ASSUME BoardSound, NEW V, HeldSound(V), NEW h \in Halves, routed[h] # None, RipUp(h)
  PROVE  HeldSound(V \cup {Pair(h)})' /\ Pair(h) \notin V
<1> DEFINE x == Pair(h)  res == routed[h]
<1>1. Ripping(h)
  BY RipWrites
<1>2. /\ x \in Pairs /\ Payload(h) \in Loads /\ Payload(h).res = res
      /\ \A k \in Halves : Pair(k) = x => res.cells[k[2]] \subseteq copper[k]
  BY RoutedHalf, HalfFacts
<1>3. x \notin V /\ V \subseteq Pairs
  BY DEF HeldSound
<1>4. Payload(h) # None
  BY <1>2, NoneIsNoPairResult DEF Loads
<1>5. ASSUME NEW k \in Halves, Pair(k) = x
      PROVE  routed'[k] = None /\ saved'[k] # None /\ Old(k)' = res.cells[k[2]]
  BY <1>1, <1>2, <1>4, <1>5 DEF Ripping, Old
<1>6. ASSUME NEW k \in Halves, Pair(k) \in V
      PROVE  routed'[k] = None /\ saved'[k] # None /\ Old(k)' = Old(k)
  BY <1>1, <1>3, <1>6 DEF Ripping, Old, HeldSound
<1>7. \A k \in Halves : copper'[k] \subseteq copper[k]
  BY <1>1 DEF Ripping
<1>8. ASSUME NEW k \in Halves, NEW j \in Halves, k # j, Pair(k) \in V \cup {x}
      PROVE  Old(k)' \cap copper'[j] = {}
  <2>1. CASE Pair(k) = x
    BY <1>2, <1>5, <1>7, <1>8, <2>1 DEF BoardSound, NoPairShort
  <2>2. CASE Pair(k) \in V
    BY <1>6, <1>7, <1>8, <2>2 DEF HeldSound
  <2> QED
    BY <1>8, <2>1, <2>2
<1>9. ASSUME NEW k \in Halves, NEW j \in Halves, k # j, Pair(k) \in V \cup {x}, Pair(j) \in V \cup {x}
      PROVE  Old(k)' \cap Old(j)' = {}
  <2>1. CASE Pair(k) = x /\ Pair(j) = x
    BY <1>2, <1>5, <1>9, <2>1 DEF BoardSound, NoPairShort
  <2>2. CASE Pair(k) = x /\ Pair(j) \in V
    <3>1. Old(j) \cap copper[k] = {} /\ res.cells[k[2]] \subseteq copper[k]
      BY <1>2, <1>9, <2>2 DEF HeldSound
    <3>2. Old(k)' = res.cells[k[2]] /\ Old(j)' = Old(j)
      BY <1>5, <1>6, <2>2
    <3> QED
      BY <3>1, <3>2
  <2>3. CASE Pair(k) \in V /\ Pair(j) = x
    <3>1. Old(k) \cap copper[j] = {} /\ res.cells[j[2]] \subseteq copper[j]
      BY <1>2, <1>9, <2>3 DEF HeldSound
    <3>2. Old(j)' = res.cells[j[2]] /\ Old(k)' = Old(k)
      BY <1>5, <1>6, <2>3
    <3> QED
      BY <3>1, <3>2
  <2>4. CASE Pair(k) \in V /\ Pair(j) \in V
    <3>1. Old(k)' = Old(k) /\ Old(j)' = Old(j)
      BY <1>6, <2>4
    <3> QED
      BY <1>9, <2>4, <3>1 DEF HeldSound
  <2> QED
    BY <1>9, <2>1, <2>2, <2>3, <2>4
<1> HIDE DEF x
<1>10. HeldSound(V \cup {x})'
  BY <1>2, <1>3, <1>5, <1>6, <1>8, <1>9 DEF HeldSound
<1> QED
  BY <1>3, <1>10 DEF x

LEMMA RipIsUndone ==
  ASSUME BoardSound, NEW V, HeldSound(V), NEW h \in Halves, routed[h] # None, RipUp(h)
  PROVE  Before(V \cup {Pair(h)})' = Before(V)
<1> DEFINE x == Pair(h)  res == routed[h]  hs == {k \in Halves : Pair(k) = x}
           vs == {k \in Halves : Pair(k) \in V}
<1>1. Ripping(h)
  BY RipWrites
<1>2. /\ x \in Pairs /\ Payload(h).res = res /\ res \in PairResults
      /\ Members(res) \cap results # {}
      /\ \A k \in Halves : Pair(k) = x =>
           /\ res.cells[k[2]] \subseteq copper[k] /\ routed[k] = res
           /\ k \in ids /\ k \notin remaining
  BY RoutedHalf, HalfFacts
<1>3. x \notin V /\ V \subseteq Pairs
  BY DEF HeldSound
<1>4. HalvesOf(x) = hs
  BY <1>2, HalfFacts
<1>5. \A k \in Halves :
        (IF Pair(k) \in V \cup {x} THEN copper'[k] \cup Old(k)' ELSE copper'[k])
          = (IF Pair(k) \in V THEN copper[k] \cup Old(k) ELSE copper[k])
  <2> SUFFICES ASSUME NEW k \in Halves
      PROVE (IF Pair(k) \in V \cup {x} THEN copper'[k] \cup Old(k)' ELSE copper'[k])
              = (IF Pair(k) \in V THEN copper[k] \cup Old(k) ELSE copper[k])
    OBVIOUS
  <2>1. CASE Pair(k) = x
    <3>1. copper'[k] = copper[k] \ res.cells[k[2]] /\ Old(k)' = res.cells[k[2]]
      BY <1>1, <1>2, <2>1 DEF Ripping, Old
    <3> QED
      BY <1>2, <1>3, <2>1, <3>1
  <2>2. CASE Pair(k) # x
    <3>1. copper'[k] = copper[k] /\ Old(k)' = Old(k)
      BY <1>1, <2>2 DEF Ripping, Old
    <3> QED
      BY <2>2, <3>1
  <2> QED
    BY <2>1, <2>2
<1>6. \A k \in Halves :
        (IF Pair(k) \in V \cup {x} THEN saved'[k].res ELSE routed'[k])
          = (IF Pair(k) \in V THEN saved[k].res ELSE routed[k])
  <2> SUFFICES ASSUME NEW k \in Halves
      PROVE (IF Pair(k) \in V \cup {x} THEN saved'[k].res ELSE routed'[k])
              = (IF Pair(k) \in V THEN saved[k].res ELSE routed[k])
    OBVIOUS
  <2>1. CASE Pair(k) = x
    BY <1>1, <1>2, <1>3, <2>1 DEF Ripping
  <2>2. CASE Pair(k) # x
    BY <1>1, <2>2 DEF Ripping
  <2> QED
    BY <2>1, <2>2
<1>7. {k \in Halves : Pair(k) \in V \cup {x}} = vs \cup hs
  OBVIOUS
<1>8. hs \subseteq ids /\ hs \cap remaining = {}
  BY <1>2
<1>9. /\ ids' \cup (vs \cup hs) = ids \cup vs
      /\ remaining' \ (vs \cup hs) = remaining \ vs
  <2>1. ids' = ids \ hs /\ remaining' = remaining \cup hs
    BY <1>1, <1>4 DEF Ripping
  <2> HIDE DEF hs, vs
  <2> QED
    BY <1>8, <2>1
<1>10. {part[1] : part \in results'} \cup {saved'[P(y)].res : y \in V \cup {x}}
         = {part[1] : part \in results} \cup {saved[P(y)].res : y \in V}
  <2>1. saved'[P(x)].res = res
    BY <1>1, <1>2, HalfFacts DEF Ripping
  <2>2. \A y \in V : saved'[P(y)].res = saved[P(y)].res
    BY <1>1, <1>3, HalfFacts DEF Ripping
  <2>3. {saved'[P(y)].res : y \in V \cup {x}} = {saved[P(y)].res : y \in V} \cup {res}
    BY <2>1, <2>2
  <2>4. results' = results \ Members(res)
    BY <1>1 DEF Ripping
  <2>5. PICK own \in results : own \in Members(res)
    BY <1>2
  <2>6. \A member \in Members(res) : member[1] = res
    BY <1>2, MemberFacts
  <2>7. {part[1] : part \in results} = {part[1] : part \in results'} \cup {res}
    BY <2>4, <2>5, <2>6
  <2> QED
    BY <2>3, <2>7
<1> HIDE DEF x, hs, vs
<1>11. /\ [k \in Halves |-> IF Pair(k) \in V \cup {x} THEN copper'[k] \cup Old(k)' ELSE copper'[k]]
            = [k \in Halves |-> IF Pair(k) \in V THEN copper[k] \cup Old(k) ELSE copper[k]]
       /\ [k \in Halves |-> IF Pair(k) \in V \cup {x} THEN saved'[k].res ELSE routed'[k]]
            = [k \in Halves |-> IF Pair(k) \in V THEN saved[k].res ELSE routed[k]]
  BY <1>5, <1>6
<1>12. Before(V \cup {x})' = Before(V)
  BY <1>7, <1>9, <1>10, <1>11 DEF Before, vs
<1> QED
  BY <1>12 DEF x

----------------------------------------------------------------------------
(* What the two restores of a held pair write.                             *)
Restoring(x, W) ==
  /\ Relay(saved[P(x)])
  /\ named' \subseteq named \cup HalvesOf(x)
  /\ results' = results \cup W
  /\ \A h \in Halves : IF Pair(h) = x THEN saved'[h] = None \/ saved' = saved
                                      ELSE saved'[h] = saved[h]
  /\ SavedTogether' /\ refused' = refused

LEMMA RestoreNetWrites ==
  ASSUME BoardSound, NEW V, HeldSound(V), NEW x \in V, RestoreNet(saved[P(x)])
  PROVE  Restoring(x, Written(saved[P(x)].res))
<1> DEFINE p == saved[P(x)]
<1>1. x \in Pairs /\ p \in Loads /\ p.res.pair = x /\ ~Collides(p)
  BY HeldFits
<1>2. p.ids = HalvesOf(x) /\ p.wasIn
  BY <1>1 DEF Loads
<1>3. \A h \in Halves : h \in HalvesOf(x) <=> Pair(h) = x
  BY <1>1, HalfFacts
<1>4. /\ \A h \in Halves : saved'[h] = IF Pair(h) = x THEN None ELSE saved[h]
      /\ Relay(p) /\ named' = named \cup NamedBy(p.res, p.ids)
      /\ results' = results \cup Written(p.res) /\ refused' = refused
  BY <1>1, <1>2, <1>3 DEF RestoreNet
<1>5. SavedTogether'
  <2> SUFFICES ASSUME NEW h \in Halves PROVE saved'[h] = saved'[P(Pair(h))]
    BY DEF SavedTogether
  <2>1. P(Pair(h)) \in Halves /\ Pair(P(Pair(h))) = Pair(h)
    BY HalfFacts
  <2> QED
    BY <1>4, <2>1 DEF BoardSound, SavedTogether
<1>6. named' \subseteq named \cup HalvesOf(x)
  BY <1>2, <1>4 DEF NamedBy
<1> QED
  BY <1>4, <1>5, <1>6 DEF Restoring

LEMMA RestoreRippedNetWrites ==
  ASSUME BoardSound, NEW V, HeldSound(V), NEW x \in V, RestoreRippedNet(saved[P(x)])
  PROVE  Restoring(x, {Whole(saved[P(x)].res)})
<1> DEFINE p == saved[P(x)]
<1>1. p \in Loads /\ ~Collides(p)
  BY HeldFits
<1>2. p.wasIn
  BY <1>1 DEF Loads
<1>3. /\ saved' = saved /\ refused' = refused /\ named' = named
      /\ Relay(p) /\ results' = results \cup {Whole(p.res)}
  BY <1>1, <1>2 DEF RestoreRippedNet
<1>4. SavedTogether'
  BY <1>3 DEF SavedTogether, BoardSound
<1> QED
  BY <1>3, <1>4 DEF Restoring

(* A held pair comes back.                                                 *)
LEMMA RestoreIsSound ==
  ASSUME BoardSound, NEW V, HeldSound(V), NEW x \in V,
         NEW W \in {{Whole(saved[P(x)].res)}, Written(saved[P(x)].res)}, Restoring(x, W)
  PROVE  BoardSound'
<1> DEFINE p == saved[P(x)]
<1>1. /\ x \in Pairs /\ routed[P(x)] = None /\ p \in Loads /\ p.res.pair = x
      /\ \A h \in HalvesOf(x) : h \in mapped
      /\ \A h \in HalvesOf(x) : \A k \in Halves \ {h} : p.res.cells[h[2]] \cap copper[k] = {}
  BY HeldFits
<1>2. p.ids = HalvesOf(x) /\ p.res \in PairResults /\ p.res.cells["p"] \cap p.res.cells["n"] = {}
  BY <1>1 DEF Loads, PairPayloads
<1>3. /\ Lay(p.res) /\ routed' = Assign(HalvesOf(x), p.res)
      /\ ids' = ids \cup HalvesOf(x) /\ remaining' = remaining \ HalvesOf(x)
      /\ mapped' = mapped \cup HalvesOf(x) /\ UNCHANGED refused /\ SavedTogether'
      /\ named' \subseteq named \cup HalvesOf(x) /\ results' = results \cup W
  BY <1>1, <1>2 DEF Restoring, Relay
<1>4. \A h \in Halves : saved'[h] # None => saved'[h] = saved[h]
  BY DEF Restoring
<1> HIDE DEF p
<1> QED
  BY <1>1, <1>2, <1>3, <1>4, BringingIn DEF p

LEMMA RestoreHolds ==
  ASSUME BoardSound, NEW V, HeldSound(V), NEW x \in V,
         NEW W \in {{Whole(saved[P(x)].res)}, Written(saved[P(x)].res)}, Restoring(x, W)
  PROVE  /\ HeldSound(V \ {x})'
         /\ \A h \in Halves : routed'[h] = IF Pair(h) = x THEN saved[P(x)].res ELSE routed[h]
         /\ \A h \in Halves : Pair(h) # x => saved'[h] = saved[h]
<1> DEFINE p == saved[P(x)]
<1>1. x \in Pairs /\ p \in Loads /\ p.res.pair = x
  BY HeldFits
<1>2. p.ids = HalvesOf(x)
  BY <1>1 DEF Loads
<1>3. /\ \A h \in Halves : copper'[h] = IF Pair(h) = x THEN copper[h] \cup p.res.cells[h[2]]
                                        ELSE copper[h]
      /\ routed' = Assign(HalvesOf(x), p.res)
  BY <1>1, <1>2 DEF Restoring, Relay, Lay
<1>4. \A h \in Halves : routed'[h] = IF Pair(h) = x THEN p.res ELSE routed[h]
  BY <1>1, <1>3, HalfFacts DEF Assign
<1>5. \A h \in Halves : Pair(h) = x => Old(h) = p.res.cells[h[2]]
  BY DEF Old, BoardSound, SavedTogether
<1>6. \A h \in Halves : Pair(h) # x => saved'[h] = saved[h] /\ Old(h)' = Old(h)
  BY DEF Restoring, Old
<1>7. ASSUME NEW h \in Halves, Pair(h) \in V \ {x}
      PROVE  /\ routed'[h] = None /\ saved'[h] # None
             /\ \A k \in Halves \ {h} : Old(h)' \cap copper'[k] = {}
  <2>1. routed'[h] = None /\ saved'[h] # None /\ Old(h)' = Old(h)
    BY <1>4, <1>6, <1>7 DEF HeldSound
  <2>2. ASSUME NEW k \in Halves \ {h} PROVE Old(h) \cap copper'[k] = {}
    <3>1. Old(h) \cap copper[k] = {}
      BY <1>7 DEF HeldSound
    <3>2. CASE Pair(k) = x
      <4>1. Old(h) \cap Old(k) = {} /\ copper'[k] = copper[k] \cup Old(k)
        BY <1>3, <1>5, <1>7, <3>2 DEF HeldSound
      <4> QED
        BY <3>1, <4>1
    <3> QED
      BY <1>3, <3>1, <3>2
  <2> QED
    BY <2>1, <2>2
<1>8. \A h, k \in Halves : Pair(h) \in V \ {x} /\ Pair(k) \in V \ {x} /\ h # k =>
        Old(h)' \cap Old(k)' = {}
  BY <1>6 DEF HeldSound
<1>9. V \ {x} \subseteq Pairs
  BY DEF HeldSound
<1>10. HeldSound(V \ {x})'
  BY <1>7, <1>8, <1>9 DEF HeldSound
<1> QED
  BY <1>4, <1>6, <1>10

LEMMA RestoreUndoes ==
  ASSUME BoardSound, NEW V, HeldSound(V), NEW x \in V,
         NEW W \in {{Whole(saved[P(x)].res)}, Written(saved[P(x)].res)}, Restoring(x, W)
  PROVE  Before(V \ {x})' = Before(V)
<1> DEFINE p == saved[P(x)]  hs == {k \in Halves : Pair(k) = x}
           vs == {k \in Halves : Pair(k) \in V}  rest == {k \in Halves : Pair(k) \in V \ {x}}
<1>1. x \in Pairs /\ p \in Loads /\ p.res.pair = x
  BY HeldFits
<1>2. p.ids = HalvesOf(x) /\ p.res \in PairResults
  BY <1>1 DEF Loads, PairPayloads
<1>3. HalvesOf(x) = hs
  BY <1>1, HalfFacts
<1>4. /\ \A h \in Halves : copper'[h] = IF Pair(h) = x THEN copper[h] \cup p.res.cells[h[2]]
                                        ELSE copper[h]
      /\ ids' = ids \cup hs /\ remaining' = remaining \ hs
  BY <1>1, <1>2, <1>3 DEF Restoring, Relay, Lay
<1>5. \A h \in Halves : Pair(h) = x => saved[h] = p
  BY DEF BoardSound, SavedTogether
<1> HIDE DEF p
<1>6. \A h \in Halves :
        (IF Pair(h) \in V \ {x} THEN copper'[h] \cup Old(h)' ELSE copper'[h])
          = (IF Pair(h) \in V THEN copper[h] \cup Old(h) ELSE copper[h])
  <2> SUFFICES ASSUME NEW h \in Halves
      PROVE (IF Pair(h) \in V \ {x} THEN copper'[h] \cup Old(h)' ELSE copper'[h])
              = (IF Pair(h) \in V THEN copper[h] \cup Old(h) ELSE copper[h])
    OBVIOUS
  <2>1. CASE Pair(h) = x
    <3>1. Old(h) = p.res.cells[h[2]] /\ copper'[h] = copper[h] \cup p.res.cells[h[2]]
      BY <1>4, <1>5, <2>1 DEF Old
    <3> QED
      BY <2>1, <3>1
  <2>2. CASE Pair(h) # x
    <3>1. Old(h)' = Old(h) /\ copper'[h] = copper[h]
      BY <1>4, <2>2 DEF Old, Restoring
    <3> QED
      BY <2>2, <3>1
  <2> QED
    BY <2>1, <2>2
<1>7. \A h \in Halves :
        (IF Pair(h) \in V \ {x} THEN saved'[h].res ELSE routed'[h])
          = (IF Pair(h) \in V THEN saved[h].res ELSE routed[h])
  <2>1. \A h \in Halves : routed'[h] = IF Pair(h) = x THEN p.res ELSE routed[h]
    BY RestoreHolds DEF p
  <2>2. \A h \in Halves : Pair(h) # x => saved'[h] = saved[h]
    BY RestoreHolds
  <2> QED
    BY <1>5, <2>1, <2>2
<1>8. /\ ids' \cup rest = ids \cup vs
      /\ remaining' \ rest = remaining \ vs
  <2>1. vs = rest \cup hs
    OBVIOUS
  <2> HIDE DEF vs, hs, rest
  <2> QED
    BY <1>4, <2>1
<1>9. {part[1] : part \in results'} \cup {saved'[P(y)].res : y \in V \ {x}}
         = {part[1] : part \in results} \cup {saved[P(y)].res : y \in V}
  <2>1. results' = results \cup W
    BY DEF Restoring
  <2>2. W # {} /\ \A part \in W : part[1] = p.res
    BY <1>2, MemberFacts DEF p
  <2>3. {part[1] : part \in results'} = {part[1] : part \in results} \cup {p.res}
    BY <2>1, <2>2
  <2>4. \A y \in V \ {x} : saved'[P(y)] = saved[P(y)]
    <3>1. V \subseteq Pairs
      BY DEF HeldSound
    <3>2. \A h \in Halves : Pair(h) # x => saved'[h] = saved[h]
      BY RestoreHolds
    <3> QED
      BY <3>1, <3>2, HalfFacts
  <2>5. {saved'[P(y)].res : y \in V \ {x}} \cup {p.res} = {saved[P(y)].res : y \in V}
    BY <2>4 DEF p
  <2> QED
    BY <2>3, <2>5
<1> HIDE DEF hs, vs, rest
<1>10. /\ [h \in Halves |-> IF Pair(h) \in V \ {x} THEN copper'[h] \cup Old(h)' ELSE copper'[h]]
            = [h \in Halves |-> IF Pair(h) \in V THEN copper[h] \cup Old(h) ELSE copper[h]]
       /\ [h \in Halves |-> IF Pair(h) \in V \ {x} THEN saved'[h].res ELSE routed'[h]]
            = [h \in Halves |-> IF Pair(h) \in V THEN saved[h].res ELSE routed[h]]
  BY <1>6, <1>7
<1> QED
  BY <1>8, <1>9, <1>10 DEF Before, vs, rest

----------------------------------------------------------------------------
(* The terminal restore: all of the saved copper, or a clear part of the P *)
(* half's.                                                                 *)
LEMMA ReturnIsSound ==
  ASSUME BoardSound, NEW x \in Pairs, routed[P(x)] = None, saved[P(x)] # None,
         ~Collides(saved[P(x)]), RestoreNet(saved[P(x)])
  PROVE  BoardSound'
<1> DEFINE p == saved[P(x)]
<1>1. P(x) \in Halves /\ Pair(P(x)) = x
  BY HalfFacts
<1>2. p \in Loads /\ p.res.pair = x
  BY <1>1 DEF BoardSound, SavedSound
<1>3. /\ p.ids = HalvesOf(x) /\ p.wasIn /\ p.res \in PairResults
      /\ p.res.cells["p"] \cap p.res.cells["n"] = {}
  BY <1>2 DEF Loads, PairPayloads
<1>4. \A h \in Halves : h \in HalvesOf(x) <=> Pair(h) = x
  BY HalfFacts
<1>5. \A h \in HalvesOf(x) : h \in Halves /\ saved[h] = p /\ h \in mapped /\ routed[h] = None
  BY <1>1, <1>4, HalfFacts DEF BoardSound, SavedSound, SavedTogether, PairBooksAgree
<1>6. ASSUME NEW h \in HalvesOf(x), NEW k \in Halves \ {h}
      PROVE  p.res.cells[h[2]] \cap copper[k] = {}
  <2>1. CASE k \in HalvesOf(x)
    <3>1. Pair(h) = x /\ Old(h) = p.res.cells[h[2]]
      BY <1>4, <1>5 DEF Old
    <3> QED
      BY <1>5, <2>1, <3>1 DEF BoardSound, SavedSound
  <2>2. CASE k \notin HalvesOf(x)
    BY <1>3, <2>2 DEF Collides
  <2> QED
    BY <2>1, <2>2
<1>7. /\ \A h \in Halves : saved'[h] = IF Pair(h) = x THEN None ELSE saved[h]
      /\ Lay(p.res) /\ routed' = Assign(HalvesOf(x), p.res)
      /\ ids' = ids \cup HalvesOf(x) /\ remaining' = remaining \ HalvesOf(x)
      /\ mapped' = mapped \cup HalvesOf(x) /\ UNCHANGED refused
      /\ named' \subseteq named \cup HalvesOf(x) /\ results' = results \cup Written(p.res)
  BY <1>3, <1>4, <1>5 DEF RestoreNet, Relay, NamedBy
<1>8. SavedTogether'
  <2> SUFFICES ASSUME NEW h \in Halves PROVE saved'[h] = saved'[P(Pair(h))]
    BY DEF SavedTogether
  <2>1. P(Pair(h)) \in Halves /\ Pair(P(Pair(h))) = Pair(h)
    BY HalfFacts
  <2> QED
    BY <1>7, <2>1 DEF BoardSound, SavedTogether
<1>9. \A h \in Halves : saved'[h] # None => saved'[h] = saved[h]
  BY <1>7
<1> HIDE DEF p
<1> QED
  BY <1>2, <1>3, <1>6, <1>7, <1>8, <1>9, BringingIn

LEMMA StubIsSound ==
  ASSUME BoardSound, NEW x \in Pairs, saved[P(x)] # None,
         NEW clear \in SUBSET saved[P(x)].res.cells["p"], clear \cap Others(P(x)) = {},
         copper' = [copper EXCEPT ![P(x)] = @ \cup clear],
         UNCHANGED <<routed, ids, remaining, named, mapped, results, saved, refused>>
  PROVE  BoardSound'
<1>1. P(x) \in Halves /\ Pair(P(x)) = x /\ P(x)[2] = "p"
  BY HalfFacts DEF P
<1>2. saved[P(x)] \in Loads
  BY <1>1 DEF BoardSound, SavedSound
<1>3. /\ saved[P(x)].res.cells \in [Sides -> SUBSET Cells]
      /\ saved[P(x)].res.cells["p"] \cap saved[P(x)].res.cells["n"] = {}
  BY <1>2 DEF Loads, PairPayloads, PairResults
<1>4. clear \subseteq Cells
  BY <1>3 DEF Sides
<1>5. \A h \in Halves : copper'[h] = IF h = P(x) THEN copper[h] \cup clear ELSE copper[h]
  BY DEF BoardSound, BoardTypes
<1>6. \A k \in Halves : k # P(x) => clear \cap copper[k] = {}
  BY DEF Others
<1>7. BoardTypes'
  <2>1. \A h \in Halves : copper'[h] \in SUBSET Cells
    BY <1>4, <1>5 DEF BoardSound, BoardTypes
  <2>2. copper' \in [Halves -> SUBSET Cells]
    BY <2>1 DEF BoardSound, BoardTypes
  <2> QED
    BY <2>2 DEF BoardSound, BoardTypes
<1>8. \A h \in Halves : copper[h] \subseteq copper'[h]
  BY <1>5
<1>9. PairBooksAgree'
  <2>1. \A h \in Halves : routed[h] # None => routed[h].cells[h[2]] \subseteq copper'[h]
    BY <1>8 DEF BoardSound, PairBooksAgree
  <2> QED
    BY <2>1 DEF BoardSound, PairBooksAgree, IsRouted
<1>10. ResultsSound' /\ SavedTogether'
  BY DEF BoardSound, ResultsSound, SavedTogether
<1>11. SavedSound'
  <2> SUFFICES ASSUME NEW h \in Halves, saved[h] # None, routed[h] = None,
                      NEW k \in HalvesOf(Pair(h)) \ {h}
      PROVE Old(h) \cap copper'[k] = {}
    BY DEF BoardSound, SavedSound, Old
  <2>1. Old(h) \cap copper[k] = {} /\ k \in Halves /\ Pair(k) = Pair(h)
    BY HalfFacts DEF BoardSound, SavedSound
  <2>2. CASE k = P(x)
    <3>1. saved[h] = saved[P(x)]
      BY <1>1, <2>1, <2>2 DEF BoardSound, SavedTogether
    <3>2. h[2] = "n"
      BY <1>1, <2>1, <2>2, HalfFacts DEF Sides, P
    <3> QED
      BY <1>3, <1>5, <2>1, <2>2, <3>1, <3>2 DEF Old
  <2> QED
    BY <1>5, <2>1, <2>2
<1>12. NoPairShort'
  BY <1>5, <1>6 DEF BoardSound, NoPairShort
<1> QED
  BY <1>7, <1>9, <1>10, <1>11, <1>12 DEF BoardSound

----------------------------------------------------------------------------
LEMMA BoardInitIsSound ==
  ASSUME BoardInit
  PROVE  BoardSound
<1>1. \A h \in Halves : routed[h] = None /\ saved[h] = None
  BY DEF BoardInit
<1>2. \A x \in Pairs : ~IsRouted(x)
  BY <1>1, HalfFacts DEF IsRouted
<1>3. BoardTypes /\ NoPairShort
  BY PairAssumption DEF BoardInit, BoardTypes, NoPairShort
<1>4. PairBooksAgree
  BY <1>1, <1>2, HalfFacts DEF BoardInit, PairBooksAgree
<1>5. ResultsSound /\ SavedSound /\ SavedTogether
  BY <1>1, HalfFacts DEF ResultsSound, SavedSound, SavedTogether
<1> QED
  BY <1>3, <1>4, <1>5 DEF BoardSound, BoardInit

LEMMA BoardStaysSound ==
  ASSUME BoardSound, UNCHANGED boardVars
  PROVE  BoardSound'
  BY DEF boardVars, books, BoardSound, BoardTypes, PairBooksAgree, ResultsSound, SavedSound,
         SavedTogether, NoPairShort, Old, IsRouted

LEMMA HeldStays ==
  ASSUME UNCHANGED boardVars, NEW V, HeldSound(V)
  PROVE  HeldSound(V)' /\ Before(V)' = Before(V)
  BY DEF boardVars, books, HeldSound, Before, Old

----------------------------------------------------------------------------
(***************************************************************************)
(* In every run of the two loops the ledgers of a pair agree, a pair that  *)
(* fails leaves no trace, no ripped pair is forgotten and the pairs ahead  *)
(* are open.  What makes this inductive is what the pair in hand holds:    *)
(* its victims are off the board, the registry has exactly the payloads it *)
(* holds, nobody moved into their place, and the ledgers with the victims  *)
(* brought back are the ledgers it found.                                  *)
(***************************************************************************)

Victims == {frame.ripped[i].res.pair : i \in DOMAIN frame.ripped}

Answers == [is : {"graze", "probe", "fail"}, half : Halves \cup {None}, cells : BOOLEAN]
Stages  == {"none", "graze", "probe", "ladder", "hybrid"}
FrameType ==
  [pair : Pairs \cup {None}, stage : Stages, says : Answers, tries : Nat,
   ripped : Seq(Loads), blockers : Seq(Halves), level : Nat, cursor : Nat]

(* Where victims may be held, and how far the ladder is.                   *)
FrameShape ==
  /\ pc = "loop" => frame = Idle /\ entry = None
  /\ pc # "loop" => X \in Pairs
  /\ pc \in {"chain", "hybrid"} => frame.ripped = <<>>
  /\ pc \in {"putback", "unwind"} => frame.ripped # <<>>
  /\ frame.stage = "ladder" /\ pc \in {"says", "level", "search", "next"} =>
       Len(frame.ripped) <= frame.cursor /\ frame.cursor <= frame.level
  /\ pc = "level" => frame.cursor < frame.level
  /\ pc \in {"level", "next"} => frame.stage = "ladder"
  /\ frame.stage \in {"graze", "probe"} \/ pc = "putback" =>
       frame.level = 0 /\ frame.cursor = 0
  /\ frame.stage = "graze" /\ frame.says.is = "graze" => frame.says.half \in Halves

(* The victims of the pair in hand.                                        *)
HandSound ==
  /\ \A i \in DOMAIN frame.ripped : frame.ripped[i] = saved[P(frame.ripped[i].res.pair)]
  /\ \A i, j \in DOMAIN frame.ripped :
       i # j => frame.ripped[i].res.pair # frame.ripped[j].res.pair
  /\ X \notin Victims
  /\ X # None => routed[P(X)] = None
  /\ HeldSound(Victims)
  /\ entry # None => entry = Before(Victims)

(* The pairs the loops will take.                                          *)
Listed == ToSet(todo) \cup ToSet(queue)
LinesSound ==
  phase = "pairs" =>
    /\ todo \in Seq(Pairs) /\ queue \in Seq(Pairs)
    /\ IsInjective(todo)
    /\ ToSet(todo) \cap ToSet(queue) = {}
    /\ \A x \in Listed : routed[P(x)] = None /\ x \notin Victims
    /\ X \notin Listed
    /\ \A x \in Pairs : P(x) \in queued => x \in ToSet(queue)

LoopSound ==
  /\ BoardSound /\ frame \in FrameType /\ FrameShape
  /\ HandSound /\ LinesSound /\ NoPairForgotten

----------------------------------------------------------------------------
(* Sequences.                                                              *)
LEMMA Appending ==
  ASSUME NEW S, NEW s \in Seq(S), NEW e \in S
  PROVE  /\ Append(s, e) \in Seq(S) /\ Len(Append(s, e)) = Len(s) + 1
         /\ DOMAIN Append(s, e) = DOMAIN s \cup {Len(s) + 1}
         /\ \A i \in DOMAIN s : Append(s, e)[i] = s[i]
         /\ Append(s, e)[Len(s) + 1] = e /\ Len(s) + 1 \notin DOMAIN s
  OBVIOUS

LEMMA Shortening ==
  ASSUME NEW S, NEW s \in Seq(S), s # <<>>
  PROVE  /\ Front(s) \in Seq(S) /\ Len(Front(s)) = Len(s) - 1
         /\ DOMAIN s = DOMAIN Front(s) \cup {Len(s)} /\ Len(s) \notin DOMAIN Front(s)
         /\ \A i \in DOMAIN Front(s) : Front(s)[i] = s[i]
         /\ Last(s) = s[Len(s)] /\ Last(s) \in S
<1>1. Len(s) \in Nat /\ Len(s) >= 1 /\ DOMAIN s = 1..Len(s) /\ \A i \in 1..Len(s) : s[i] \in S
  OBVIOUS
<1>2. /\ Front(s) \in Seq(S) /\ Len(Front(s)) = Len(s) - 1
      /\ \A i \in 1..(Len(s) - 1) : Front(s)[i] = s[i]
  BY <1>1, SubSeqProperties DEF Front
<1>3. DOMAIN Front(s) = 1..(Len(s) - 1)
  BY <1>1, <1>2
<1>4. DOMAIN s = DOMAIN Front(s) \cup {Len(s)} /\ Len(s) \notin DOMAIN Front(s)
  BY <1>1, <1>3
<1> QED
  BY <1>1, <1>2, <1>3, <1>4 DEF Last

LEMMA Reversing ==
  ASSUME NEW S, NEW s \in Seq(S)
  PROVE  /\ Reverse(s) \in Seq(S) /\ ToSet(Reverse(s)) = ToSet(s)
         /\ IsInjective(s) => IsInjective(Reverse(s))
<1>1. Len(s) \in Nat /\ DOMAIN s = 1..Len(s)
  OBVIOUS
<1>2. /\ Reverse(s) \in Seq(S) /\ DOMAIN Reverse(s) = 1..Len(s)
      /\ \A i \in 1..Len(s) : Reverse(s)[i] = s[Len(s) - i + 1]
  BY <1>1 DEF Reverse
<1>3. \A i \in 1..Len(s) : Len(s) - i + 1 \in 1..Len(s) /\ s[i] = Reverse(s)[Len(s) - i + 1]
  BY <1>1, <1>2
<1>4. ToSet(Reverse(s)) = ToSet(s)
  BY <1>1, <1>2, <1>3 DEF ToSet
<1>5. IsInjective(s) => IsInjective(Reverse(s))
  BY <1>1, <1>2, <1>3 DEF IsInjective
<1> QED
  BY <1>2, <1>4, <1>5

LEMMA Joining ==
  ASSUME NEW S, NEW s \in Seq(S), NEW t \in Seq(S)
  PROVE  /\ s \o t \in Seq(S) /\ ToSet(s \o t) = ToSet(s) \cup ToSet(t)
         /\ IsInjective(s) /\ IsInjective(t) /\ ToSet(s) \cap ToSet(t) = {}
              => IsInjective(s \o t)
<1> DEFINE m == Len(s)  n == Len(t)  st == s \o t
<1>1. /\ m \in Nat /\ n \in Nat /\ DOMAIN s = 1..m /\ DOMAIN t = 1..n
      /\ st \in Seq(S) /\ DOMAIN st = 1..(m + n)
      /\ \A i \in 1..m : st[i] = s[i]
      /\ \A i \in 1..n : st[m + i] = t[i]
  OBVIOUS
<1> HIDE DEF m, n, st
<1>2. \A j \in DOMAIN st : j \in DOMAIN s \/ \E i \in DOMAIN t : j = m + i
  <2> SUFFICES ASSUME NEW j \in DOMAIN st, j \notin DOMAIN s
      PROVE \E i \in DOMAIN t : j = m + i
    OBVIOUS
  <2>1. j - m \in DOMAIN t /\ j = m + (j - m)
    BY <1>1
  <2> QED
    BY <2>1
<1>3. /\ \A i \in DOMAIN s : i \in DOMAIN st
      /\ \A i \in DOMAIN t : m + i \in DOMAIN st
  BY <1>1
<1>4. /\ \A i \in DOMAIN s : st[i] = s[i]
      /\ \A i \in DOMAIN t : st[m + i] = t[i]
  BY <1>1
<1>5. ToSet(st) = ToSet(s) \cup ToSet(t)
  BY <1>2, <1>3, <1>4 DEF ToSet
<1>6. ASSUME IsInjective(s), IsInjective(t), ToSet(s) \cap ToSet(t) = {}
      PROVE  IsInjective(st)
  <2>1. \A i \in DOMAIN s, j \in DOMAIN t : st[i] # st[m + j]
    BY <1>4, <1>6 DEF ToSet
  <2>2. \A i, j \in DOMAIN s : st[i] = st[j] => i = j
    BY <1>4, <1>6 DEF IsInjective
  <2>3. \A i, j \in DOMAIN t : st[m + i] = st[m + j] => i = j
    BY <1>4, <1>6 DEF IsInjective
  <2> QED
    BY <1>2, <2>1, <2>2, <2>3 DEF IsInjective
<1> QED
  BY <1>1, <1>5, <1>6 DEF st

LEMMA Taking ==
  ASSUME NEW S, NEW s \in Seq(S), s # <<>>
  PROVE  /\ Head(s) \in S /\ Tail(s) \in Seq(S)
         /\ ToSet(s) = {Head(s)} \cup ToSet(Tail(s))
         /\ IsInjective(s) => IsInjective(Tail(s)) /\ Head(s) \notin ToSet(Tail(s))
<1>1. /\ Len(s) \in Nat /\ Len(s) >= 1 /\ DOMAIN s = 1..Len(s)
      /\ DOMAIN Tail(s) = 1..(Len(s) - 1) /\ Tail(s) \in Seq(S) /\ Head(s) = s[1]
      /\ \A i \in 1..(Len(s) - 1) : Tail(s)[i] = s[i + 1]
  OBVIOUS
<1>2. \A i \in DOMAIN Tail(s) : i + 1 \in DOMAIN s /\ i + 1 # 1 /\ Tail(s)[i] = s[i + 1]
  BY <1>1
<1>3. \A i \in DOMAIN s : i # 1 => \E j \in DOMAIN Tail(s) : Tail(s)[j] = s[i]
  <2> SUFFICES ASSUME NEW i \in DOMAIN s, i # 1
      PROVE \E j \in DOMAIN Tail(s) : Tail(s)[j] = s[i]
    OBVIOUS
  <2>1. i - 1 \in 1..(Len(s) - 1) /\ (i - 1) + 1 = i
    BY <1>1
  <2> QED
    BY <1>1, <2>1
<1>4. 1 \in DOMAIN s
  BY <1>1
<1>5. ToSet(s) \subseteq {Head(s)} \cup ToSet(Tail(s))
  <2> SUFFICES ASSUME NEW i \in DOMAIN s PROVE s[i] \in {Head(s)} \cup ToSet(Tail(s))
    BY DEF ToSet
  <2>1. CASE i = 1
    BY <1>1, <2>1
  <2>2. CASE i # 1
    BY <1>3, <2>2 DEF ToSet
  <2> QED
    BY <2>1, <2>2
<1>6. {Head(s)} \cup ToSet(Tail(s)) \subseteq ToSet(s)
  BY <1>1, <1>2, <1>4 DEF ToSet
<1>7. IsInjective(s) => IsInjective(Tail(s))
  BY <1>1, <1>2 DEF IsInjective
<1>8. IsInjective(s) => Head(s) \notin ToSet(Tail(s))
  BY <1>1, <1>2, <1>4 DEF IsInjective, ToSet
<1> QED
  BY <1>1, <1>4, <1>5, <1>6, <1>7, <1>8

----------------------------------------------------------------------------
(* What the victims are.                                                   *)
LEMMA VictimFacts ==
  ASSUME frame \in FrameType, HandSound
  PROVE  /\ Victims \subseteq Pairs
         /\ \A i \in DOMAIN frame.ripped :
              /\ frame.ripped[i] \in Loads /\ frame.ripped[i].res.pair \in Victims
              /\ frame.ripped[i].ids = HalvesOf(frame.ripped[i].res.pair)
         /\ \A h \in Halves : h \in VictimIds <=> Pair(h) \in Victims
         /\ \A h \in VictimIds : h \in Halves
<1>1. frame.ripped \in Seq(Loads)
  BY DEF FrameType
<1>2. \A i \in DOMAIN frame.ripped : frame.ripped[i] \in Loads
  BY <1>1
<1>3. \A i \in DOMAIN frame.ripped :
        /\ frame.ripped[i].res.pair \in Pairs
        /\ frame.ripped[i].ids = HalvesOf(frame.ripped[i].res.pair)
  BY <1>2 DEF Loads, PairPayloads, PairResults
<1>4. \A h \in Halves : h \in VictimIds <=> Pair(h) \in Victims
  BY <1>3, HalfFacts DEF VictimIds, Victims
<1>5. \A h \in VictimIds : h \in Halves
  BY <1>3, HalfFacts DEF VictimIds
<1> QED
  BY <1>2, <1>3, <1>4, <1>5 DEF Victims

LEMMA VictimsAreHeld ==
  ASSUME BoardSound, frame \in FrameType, HandSound, NEW x \in Victims
  PROVE  x \in Pairs /\ routed[P(x)] = None /\ x # X
<1>1. x \in Pairs /\ P(x) \in Halves /\ Pair(P(x)) = x
  BY VictimFacts, HalfFacts
<1>2. \A h \in Halves : Pair(h) \in Victims => routed[h] = None
  BY DEF HandSound, HeldSound
<1> QED
  BY <1>1, <1>2 DEF HandSound

(* Steps that touch neither the board nor the victims.                     *)
LEMMA QuietStep ==
  ASSUME BoardSound, frame \in FrameType, HandSound, LinesSound, NoPairForgotten,
         UNCHANGED boardVars, frame'.ripped = frame.ripped, frame'.pair = frame.pair,
         UNCHANGED <<entry, phase, todo, queue, queued, custody, deferred>>
  PROVE  BoardSound' /\ HandSound' /\ LinesSound' /\ NoPairForgotten'
<1>1. BoardSound'
  BY BoardStaysSound
<1>2. /\ routed' = routed /\ saved' = saved /\ VictimIds' = VictimIds /\ Victims' = Victims
      /\ X' = X
  BY DEF boardVars, books, VictimIds, Victims, X
<1>3. HandSound'
  <2>1. PICK V : V = Victims
    OBVIOUS
  <2>2. HeldSound(V)' /\ Before(V)' = Before(V)
    BY <2>1, HeldStays DEF HandSound
  <2>3. HeldSound(Victims)'
    BY <1>2, <2>1, <2>2 DEF HeldSound
  <2>4. entry' # None => entry' = Before(Victims)'
    <3>1. entry' = entry /\ (entry # None => entry = Before(V))
      BY <2>1 DEF HandSound
    <3>2. Before(Victims)' = Before(V)'
      BY <1>2, <2>1 DEF Before
    <3> QED
      BY <2>2, <3>1, <3>2
  <2> QED
    BY <1>2, <2>3, <2>4 DEF HandSound
<1>4. LinesSound'
  BY <1>2 DEF LinesSound, Listed
<1>5. NoPairForgotten'
  BY <1>2 DEF NoPairForgotten, Awaiting
<1> QED
  BY <1>1, <1>3, <1>4, <1>5

----------------------------------------------------------------------------
(* A rip for the pair in hand.                                             *)
RipsFor(h) ==
  /\ RipUp(h)
  /\ frame'.ripped = Append(frame.ripped, Payload(h)) /\ frame'.pair = frame.pair
  /\ UNCHANGED <<entry, phase, todo, queue, queued, custody, deferred>>

LEMMA RipVictims ==
  ASSUME BoardSound, frame \in FrameType, HandSound,
         NEW h \in Halves, routed[h] # None, RipsFor(h)
  PROVE  /\ Victims' = Victims \cup {Pair(h)} /\ Pair(h) \notin Victims /\ Pair(h) # X
         /\ \A k \in Halves : IF Pair(k) = Pair(h)
              THEN routed'[k] = None /\ saved'[k] = Payload(h)
              ELSE routed'[k] = routed[k] /\ saved'[k] = saved[k]
         /\ frame'.ripped \in Seq(Loads)
<1> DEFINE s == frame.ripped  t == frame'.ripped
<1>1. Ripping(h) /\ Payload(h) \in Loads /\ Payload(h).res.pair = Pair(h) /\ Pair(h) \in Pairs
      /\ routed[P(Pair(h))] # None
  BY RipWrites, RoutedHalf, HalfFacts DEF RipsFor
<1>2. s \in Seq(Loads) /\ t = Append(s, Payload(h))
  BY DEF FrameType, RipsFor
<1>3. /\ t \in Seq(Loads) /\ DOMAIN t = DOMAIN s \cup {Len(s) + 1}
      /\ \A i \in DOMAIN s : t[i] = s[i]
      /\ t[Len(s) + 1] = Payload(h)
  BY <1>1, <1>2, Appending
<1>4. Victims' = Victims \cup {Pair(h)}
  BY <1>1, <1>3 DEF Victims
<1>5. Pair(h) \notin Victims /\ Pair(h) # X
  <2>1. Pair(h) \notin Victims
    BY <1>1, VictimsAreHeld
  <2>2. Pair(h) # X
    BY <1>1, PairAssumption DEF HandSound
  <2> QED
    BY <2>1, <2>2
<1> QED
  BY <1>1, <1>3, <1>4, <1>5 DEF Ripping

LEMMA RipHand ==
  ASSUME BoardSound, frame \in FrameType, HandSound,
         NEW h \in Halves, routed[h] # None, RipsFor(h)
  PROVE  HandSound'
<1> DEFINE s == frame.ripped  t == frame'.ripped  y == Pair(h)
<1>1. /\ Victims' = Victims \cup {y} /\ y \notin Victims /\ y # X
      /\ \A k \in Halves : IF Pair(k) = y
           THEN routed'[k] = None /\ saved'[k] = Payload(h)
           ELSE routed'[k] = routed[k] /\ saved'[k] = saved[k]
  BY RipVictims
<1>2. Payload(h) \in Loads /\ Payload(h).res.pair = y /\ y \in Pairs
  BY RoutedHalf
<1>3. /\ DOMAIN t = DOMAIN s \cup {Len(s) + 1} /\ Len(s) + 1 \notin DOMAIN s
      /\ \A i \in DOMAIN s : t[i] = s[i]
      /\ t[Len(s) + 1] = Payload(h)
  BY <1>2, Appending DEF FrameType, RipsFor
<1>4. \A x \in Pairs : x # y => saved'[P(x)] = saved[P(x)] /\ routed'[P(x)] = routed[P(x)]
  BY <1>1, HalfFacts
<1>5. saved'[P(y)] = Payload(h)
  BY <1>1, <1>2, HalfFacts
<1>6. \A i \in DOMAIN s : s[i].res.pair \in Victims /\ s[i].res.pair \in Pairs /\ s[i].res.pair # y
  BY <1>1, VictimFacts
<1>7. \A i \in DOMAIN t : t[i] = saved'[P(t[i].res.pair)]
  BY <1>2, <1>3, <1>4, <1>5, <1>6 DEF HandSound
<1>8. \A i, j \in DOMAIN t : i # j => t[i].res.pair # t[j].res.pair
  BY <1>2, <1>3, <1>6 DEF HandSound
<1>9. X' = X /\ (X' # None => routed'[P(X)] = None)
  <2>1. X' = X /\ X \in Pairs \cup {None}
    BY DEF RipsFor, X, FrameType
  <2> QED
    BY <1>1, <1>4, <2>1 DEF HandSound
<1>10. PICK V : V = Victims
  OBVIOUS
<1>11. HeldSound(V \cup {y})' /\ Before(V \cup {y})' = Before(V)
  BY <1>10, RipHolds, RipIsUndone DEF HandSound, RipsFor
<1>12. Victims' = V \cup {y}
  BY <1>1, <1>10
<1> HIDE DEF y
<1>13. HeldSound(Victims)'
  BY <1>11, <1>12 DEF HeldSound
<1>14. entry' # None => entry' = Before(Victims)'
  <2>1. entry' = entry /\ (entry # None => entry = Before(V))
    BY <1>10 DEF HandSound, RipsFor
  <2>2. Before(Victims)' = Before(V \cup {y})'
    BY <1>12 DEF Before
  <2> QED
    BY <1>11, <2>1, <2>2
<1>15. X' \notin Victims'
  BY <1>1, <1>9 DEF HandSound
<1> QED
  BY <1>7, <1>8, <1>9, <1>13, <1>14, <1>15 DEF HandSound

LEMMA RipStep ==
  ASSUME BoardSound, frame \in FrameType, HandSound, LinesSound, NoPairForgotten,
         NEW h \in Halves, routed[h] # None, RipsFor(h)
  PROVE  BoardSound' /\ HandSound' /\ LinesSound' /\ NoPairForgotten'
<1> DEFINE y == Pair(h)
<1>1. BoardSound' /\ HandSound'
  BY RipIsSound, RipHand DEF RipsFor
<1>2. /\ Victims' = Victims \cup {y} /\ y \notin Victims
      /\ \A k \in Halves : IF Pair(k) = y
           THEN routed'[k] = None /\ saved'[k] = Payload(h)
           ELSE routed'[k] = routed[k] /\ saved'[k] = saved[k]
      /\ frame'.ripped \in Seq(Loads)
  BY RipVictims
<1>3. routed[P(y)] # None /\ y \in Pairs
  BY RoutedHalf, HalfFacts
<1>4. \A x \in Pairs : x # y => routed'[P(x)] = routed[P(x)]
  BY <1>2, HalfFacts
<1>5. LinesSound'
  <2>1. Listed' = Listed /\ X' = X
    BY DEF Listed, X, RipsFor
  <2>2. CASE phase = "pairs"
    <3>1. y \notin Listed /\ Listed \subseteq Pairs
      <4>1. ToSet(todo) \subseteq Pairs /\ ToSet(queue) \subseteq Pairs
        BY <2>2 DEF LinesSound, ToSet
      <4> QED
        BY <1>3, <2>2, <4>1 DEF LinesSound, Listed
    <3> QED
      BY <1>2, <1>4, <2>1, <2>2, <3>1 DEF LinesSound, RipsFor
  <2> QED
    BY <2>2 DEF LinesSound, RipsFor
<1>6. NoPairForgotten'
  <2> SUFFICES ASSUME NEW k \in Halves, saved'[k] # None, routed'[k] = None
      PROVE \/ k \in VictimIds'
            \/ custody'[k] = saved'[k] /\ (phase' = "pairs" => Awaiting(Pair(k))')
    BY DEF NoPairForgotten
  <2>1. k \in VictimIds' <=> Pair(k) \in Victims'
    <3>1. \A i \in DOMAIN frame'.ripped : frame'.ripped[i] \in Loads
      BY <1>2
    <3>2. \A i \in DOMAIN frame'.ripped :
            frame'.ripped[i].ids = HalvesOf(frame'.ripped[i].res.pair)
            /\ frame'.ripped[i].res.pair \in Pairs
      BY <3>1 DEF Loads, PairPayloads, PairResults
    <3> QED
      BY <3>2, HalfFacts DEF VictimIds, Victims
  <2>2. CASE Pair(k) \in Victims'
    BY <2>1, <2>2
  <2>3. CASE Pair(k) \notin Victims'
    <3>1. Pair(k) # y /\ k \notin VictimIds /\ saved'[k] = saved[k] /\ routed'[k] = routed[k]
      BY <1>2, <2>3, VictimFacts
    <3>2. custody'[k] = saved'[k] /\ (phase = "pairs" => Awaiting(Pair(k)))
      BY <3>1 DEF NoPairForgotten, RipsFor
    <3>3. Awaiting(Pair(k))' <=> Awaiting(Pair(k))
      BY DEF Awaiting, RipsFor, X
    <3> QED
      BY <3>2, <3>3 DEF RipsFor
  <2> QED
    BY <2>2, <2>3
<1> QED
  BY <1>1, <1>5, <1>6

----------------------------------------------------------------------------
(* The restore of the last victim.                                         *)
RestoresFor(x, W) ==
  /\ Restoring(x, W)
  /\ frame'.ripped = Front(frame.ripped) /\ frame'.pair = frame.pair
  /\ UNCHANGED <<entry, phase, todo, queue, queued, custody, deferred>>

LEMMA LastVictim ==
  ASSUME BoardSound, frame \in FrameType, HandSound, frame.ripped # <<>>
  PROVE  LET x == Last(frame.ripped).res.pair
         IN x \in Victims /\ x \in Pairs /\ Last(frame.ripped) = saved[P(x)]
<1>1. /\ DOMAIN frame.ripped = DOMAIN Front(frame.ripped) \cup {Len(frame.ripped)}
      /\ Last(frame.ripped) = frame.ripped[Len(frame.ripped)]
  BY Shortening DEF FrameType
<1>2. Len(frame.ripped) \in DOMAIN frame.ripped
  BY <1>1
<1> QED
  BY <1>1, <1>2, VictimFacts DEF HandSound

LEMMA RestoreVictims ==
  ASSUME BoardSound, frame \in FrameType, HandSound, frame.ripped # <<>>,
         NEW x, x = Last(frame.ripped).res.pair,
         NEW W \in {{Whole(saved[P(x)].res)}, Written(saved[P(x)].res)}, RestoresFor(x, W)
  PROVE  /\ Victims' = Victims \ {x} /\ x \in Victims /\ x \in Pairs
         /\ \A h \in Halves : IF Pair(h) = x THEN routed'[h] # None
              ELSE routed'[h] = routed[h] /\ saved'[h] = saved[h]
         /\ frame'.ripped \in Seq(Loads)
<1> DEFINE s == frame.ripped  t == frame'.ripped
<1>1. s \in Seq(Loads) /\ t = Front(s) /\ s # <<>> /\ x = Last(s).res.pair
  BY DEF FrameType, RestoresFor
<1> HIDE DEF s, t
<1>2. /\ t \in Seq(Loads) /\ DOMAIN s = DOMAIN t \cup {Len(s)} /\ Len(s) \notin DOMAIN t
      /\ \A i \in DOMAIN t : t[i] = s[i]
      /\ Last(s) = s[Len(s)]
  <2>1. s \in Seq(Loads) /\ s # <<>> /\ t = Front(s)
    BY <1>1
  <2>2. Front(s) \in Seq(Loads)
    BY <2>1, Shortening
  <2>3. /\ DOMAIN s = DOMAIN Front(s) \cup {Len(s)} /\ Len(s) \notin DOMAIN Front(s)
        /\ \A i \in DOMAIN Front(s) : Front(s)[i] = s[i]
        /\ Last(s) = s[Len(s)]
    BY <2>1, Shortening
  <2> QED
    BY <2>1, <2>2, <2>3
<1>3. x \in Victims /\ x \in Pairs
  BY LastVictim
<1>4. \A i \in DOMAIN t : i \in DOMAIN s /\ i # Len(s) /\ s[i].res.pair # x
  <2>1. \A i, j \in DOMAIN s : i # j => s[i].res.pair # s[j].res.pair
    BY DEF HandSound, s
  <2>2. x = s[Len(s)].res.pair /\ Len(s) \in DOMAIN s
    BY <1>1, <1>2
  <2> QED
    BY ONLY <1>2, <2>1, <2>2
<1>5. Victims' = Victims \ {x}
  <2>1. Victims' = {t[i].res.pair : i \in DOMAIN t} /\ Victims = {s[i].res.pair : i \in DOMAIN s}
    BY DEF Victims, s, t
  <2>2. \A i \in DOMAIN s : s[i].res.pair = x \/ i \in DOMAIN t
    BY <1>1, <1>2
  <2>3. \A i \in DOMAIN t : t[i].res.pair = s[i].res.pair
    BY <1>2
  <2> QED
    BY <1>4, <2>1, <2>2, <2>3
<1>6. PICK V : V = Victims
  OBVIOUS
<1>7. HeldSound(V) /\ x \in V
  BY <1>3, <1>6 DEF HandSound
<1>8. /\ \A h \in Halves : routed'[h] = IF Pair(h) = x THEN saved[P(x)].res ELSE routed[h]
      /\ \A h \in Halves : Pair(h) # x => saved'[h] = saved[h]
  BY ZenonT(40), <1>7, RestoreHolds DEF RestoresFor
<1>9. saved[P(x)].res # None
  <2>1. saved[P(x)] \in Loads
    BY <1>7, HeldFits
  <2> QED
    BY <2>1, NoneIsNoPairResult DEF Loads, PairPayloads
<1> QED
  BY <1>2, <1>3, <1>5, <1>8, <1>9 DEF t

LEMMA RestoreHand ==
  ASSUME BoardSound, frame \in FrameType, HandSound, frame.ripped # <<>>,
         NEW x, x = Last(frame.ripped).res.pair,
         NEW W \in {{Whole(saved[P(x)].res)}, Written(saved[P(x)].res)}, RestoresFor(x, W)
  PROVE  HandSound'
<1> DEFINE s == frame.ripped  t == frame'.ripped
<1>1. /\ Victims' = Victims \ {x} /\ x \in Victims /\ x \in Pairs
      /\ \A h \in Halves : IF Pair(h) = x THEN routed'[h] # None
           ELSE routed'[h] = routed[h] /\ saved'[h] = saved[h]
  BY RestoreVictims
<1>2. /\ DOMAIN s = DOMAIN t \cup {Len(s)} /\ Len(s) \notin DOMAIN t
      /\ \A i \in DOMAIN t : t[i] = s[i]
      /\ Last(s) = s[Len(s)]
  <2>1. s \in Seq(Loads) /\ t = Front(s) /\ s # <<>>
    BY DEF FrameType, RestoresFor
  <2> HIDE DEF s, t
  <2> QED
    BY ZenonT(40), <2>1, Shortening
<1>3. \A y \in Pairs : y # x => saved'[P(y)] = saved[P(y)] /\ routed'[P(y)] = routed[P(y)]
  BY <1>1, HalfFacts
<1>4. \A i \in DOMAIN t : i \in DOMAIN s /\ i # Len(s) /\ s[i].res.pair # x
                          /\ s[i].res.pair \in Pairs
  <2>1. \A i, j \in DOMAIN s : i # j => s[i].res.pair # s[j].res.pair
    BY DEF HandSound
  <2>2. \A i \in DOMAIN s : s[i].res.pair \in Pairs
    BY VictimFacts
  <2>3. x = s[Len(s)].res.pair /\ Len(s) \in DOMAIN s
    BY <1>2
  <2> QED
    BY ONLY <1>2, <2>1, <2>2, <2>3
<1>5. \A i \in DOMAIN t : t[i] = saved'[P(t[i].res.pair)]
  <2>1. \A i \in DOMAIN s : s[i] = saved[P(s[i].res.pair)]
    BY DEF HandSound
  <2> QED
    BY ONLY <1>2, <1>3, <1>4, <2>1
<1>6. \A i, j \in DOMAIN t : i # j => t[i].res.pair # t[j].res.pair
  <2>1. \A i, j \in DOMAIN s : i # j => s[i].res.pair # s[j].res.pair
    BY DEF HandSound
  <2> QED
    BY ONLY <1>2, <2>1
<1>7. X' = X /\ X' \notin Victims' /\ (X' # None => routed'[P(X)] = None)
  <2>1. X' = X /\ X \in Pairs \cup {None} /\ X # x
    BY <1>1 DEF RestoresFor, X, FrameType, HandSound
  <2> QED
    BY <1>1, <1>3, <2>1 DEF HandSound
<1>8. PICK V : V = Victims
  OBVIOUS
<1>9. HeldSound(V \ {x})' /\ Before(V \ {x})' = Before(V)
  BY <1>1, <1>8, RestoreHolds, RestoreUndoes DEF HandSound, RestoresFor
<1>10. Victims' = V \ {x}
  BY <1>1, <1>8
<1>11. HeldSound(Victims)'
  BY <1>9, <1>10 DEF HeldSound
<1>12. entry' # None => entry' = Before(Victims)'
  <2>1. entry' = entry /\ (entry # None => entry = Before(V))
    BY <1>8 DEF HandSound, RestoresFor
  <2>2. Before(Victims)' = Before(V \ {x})'
    BY <1>10 DEF Before
  <2> QED
    BY <1>9, <2>1, <2>2
<1> QED
  BY <1>5, <1>6, <1>7, <1>11, <1>12 DEF HandSound

LEMMA RestoreStep ==
  ASSUME BoardSound, frame \in FrameType, HandSound, LinesSound, NoPairForgotten,
         frame.ripped # <<>>, NEW x, x = Last(frame.ripped).res.pair,
         NEW W \in {{Whole(saved[P(x)].res)}, Written(saved[P(x)].res)}, RestoresFor(x, W)
  PROVE  BoardSound' /\ HandSound' /\ LinesSound' /\ NoPairForgotten'
<1>1. /\ Victims' = Victims \ {x} /\ x \in Victims /\ x \in Pairs
      /\ \A h \in Halves : IF Pair(h) = x THEN routed'[h] # None
           ELSE routed'[h] = routed[h] /\ saved'[h] = saved[h]
      /\ frame'.ripped \in Seq(Loads)
  BY RestoreVictims
<1>2. BoardSound'
  <2>1. PICK V : V = Victims
    OBVIOUS
  <2> QED
    BY <1>1, <2>1, RestoreIsSound DEF HandSound, RestoresFor
<1>3. HandSound'
  BY RestoreHand
<1>4. \A y \in Pairs : y # x => routed'[P(y)] = routed[P(y)]
  BY <1>1, HalfFacts
<1>5. LinesSound'
  <2>1. Listed' = Listed /\ X' = X
    BY DEF Listed, X, RestoresFor
  <2>2. CASE phase = "pairs"
    <3>1. x \notin Listed /\ Listed \subseteq Pairs
      <4>1. ToSet(todo) \subseteq Pairs /\ ToSet(queue) \subseteq Pairs
        BY <2>2 DEF LinesSound, ToSet
      <4> QED
        BY <1>1, <2>2, <4>1 DEF LinesSound, Listed
    <3> QED
      BY <1>1, <1>4, <2>1, <2>2, <3>1 DEF LinesSound, RestoresFor
  <2> QED
    BY <2>2 DEF LinesSound, RestoresFor
<1>6. NoPairForgotten'
  <2> SUFFICES ASSUME NEW k \in Halves, saved'[k] # None, routed'[k] = None
      PROVE \/ k \in VictimIds'
            \/ custody'[k] = saved'[k] /\ (phase' = "pairs" => Awaiting(Pair(k))')
    BY DEF NoPairForgotten
  <2>1. k \in VictimIds' <=> Pair(k) \in Victims'
    <3>1. \A i \in DOMAIN frame'.ripped : frame'.ripped[i] \in Loads
      BY <1>1
    <3>2. \A i \in DOMAIN frame'.ripped :
            frame'.ripped[i].ids = HalvesOf(frame'.ripped[i].res.pair)
            /\ frame'.ripped[i].res.pair \in Pairs
      BY <3>1 DEF Loads, PairPayloads, PairResults
    <3> QED
      BY <3>2, HalfFacts DEF VictimIds, Victims
  <2>2. Pair(k) # x /\ saved'[k] = saved[k] /\ routed'[k] = routed[k]
    BY <1>1
  <2>3. CASE Pair(k) \in Victims
    BY <1>1, <2>1, <2>2, <2>3
  <2>4. CASE Pair(k) \notin Victims
    <3>1. k \notin VictimIds
      BY <2>4, VictimFacts
    <3>2. custody'[k] = saved'[k] /\ (phase = "pairs" => Awaiting(Pair(k)))
      BY <2>2, <3>1 DEF NoPairForgotten, RestoresFor
    <3>3. Awaiting(Pair(k))' <=> Awaiting(Pair(k))
      BY DEF Awaiting, RestoresFor, X
    <3> QED
      BY <3>2, <3>3 DEF RestoresFor
  <2> QED
    BY <2>3, <2>4
<1> QED
  BY <1>2, <1>3, <1>5, <1>6

----------------------------------------------------------------------------
(* A landing: the pair in hand is put down, its victims are recorded and   *)
(* have a place in one of the lines.                                       *)
LEMMA EmptyHand ==
  ASSUME BoardSound, frame' = Idle, entry' = None
  PROVE  HandSound' /\ Victims' = {} /\ VictimIds' = {} /\ X' = None
<1>1. frame'.ripped = <<>> /\ frame'.pair = None
  BY DEF Idle
<1>2. Victims' = {} /\ VictimIds' = {} /\ X' = None
  BY <1>1 DEF Victims, VictimIds, X
<1>3. HeldSound(Victims)'
  BY <1>2 DEF HeldSound
<1> QED
  BY <1>1, <1>2, <1>3 DEF HandSound

Lands(x) ==
  /\ \E r \in FreeRoutes(x), legs \in Nat, paths \in BOOLEAN : RecordPair(Result(x, r, legs, paths))
  /\ frame' = Idle /\ entry' = None /\ phase' = phase
  /\ \A h \in Halves : custody'[h] = IF Pair(h) \in Victims THEN saved[h] ELSE custody[h]
  /\ deferred \subseteq deferred'

Lined ==
  phase = "pairs" =>
    /\ todo' \in Seq(Pairs) /\ queue' \in Seq(Pairs)
    /\ IsInjective(todo') /\ ToSet(todo') \cap ToSet(queue') = {}
    /\ Listed' = Listed \cup Victims
    /\ \A x \in Pairs : P(x) \in queued' => x \in ToSet(queue')

LEMMA LandStep ==
  ASSUME BoardSound, frame \in FrameType, HandSound, LinesSound, NoPairForgotten,
         NEW x \in Pairs, x = X, Lands(x), Lined
  PROVE  BoardSound' /\ HandSound' /\ LinesSound' /\ NoPairForgotten'
<1>1. routed[P(x)] = None
  BY PairAssumption DEF HandSound
<1>2. PICK r \in FreeRoutes(x), legs \in Nat, paths \in BOOLEAN :
             RecordPair(Result(x, r, legs, paths))
  BY DEF Lands
<1>3. /\ BoardSound'
      /\ \A h \in Halves : Pair(h) # x => routed'[h] = routed[h]
      /\ \A h \in Halves : Pair(h) = x => routed'[h] # None
  BY <1>1, <1>2, LandingIsSound
<1>4. saved' = saved
  BY <1>2 DEF RecordPair
<1>5. HandSound' /\ Victims' = {} /\ VictimIds' = {} /\ X' = None
  BY EmptyHand DEF Lands
<1>6. LinesSound'
  <2> SUFFICES ASSUME phase = "pairs" PROVE LinesSound'
    BY DEF LinesSound, Lands
  <2>1. ToSet(todo) \subseteq Pairs /\ ToSet(queue) \subseteq Pairs
    BY DEF LinesSound, ToSet
  <2>2. \A y \in Listed' : y \in Pairs /\ routed[P(y)] = None /\ y # x
    BY <2>1, VictimsAreHeld DEF Lined, LinesSound, Listed
  <2>3. \A y \in Listed' : routed'[P(y)] = None
    BY <1>3, <2>2, HalfFacts
  <2>4. None \notin Listed'
    BY <2>2, PairAssumption
  <2> QED
    BY <1>5, <2>3, <2>4 DEF LinesSound, Lined
<1>7. NoPairForgotten'
  <2> SUFFICES ASSUME NEW h \in Halves, saved'[h] # None, routed'[h] = None
      PROVE custody'[h] = saved'[h] /\ (phase' = "pairs" => Awaiting(Pair(h))')
    BY DEF NoPairForgotten
  <2>1. Pair(h) # x /\ routed[h] = None /\ saved[h] # None
    BY <1>3, <1>4
  <2>2. CASE Pair(h) \in Victims
    <3>1. phase = "pairs" => Pair(h) \in Listed'
      BY <2>2 DEF Lined
    <3> QED
      BY <1>4, <2>2, <3>1 DEF Lands, Awaiting, Listed
  <2>3. CASE Pair(h) \notin Victims
    <3>1. h \notin VictimIds
      BY <2>3, VictimFacts
    <3>2. custody[h] = saved[h] /\ (phase = "pairs" => Awaiting(Pair(h)))
      BY <2>1, <3>1 DEF NoPairForgotten
    <3>3. phase = "pairs" => Pair(h) \in Listed' \cup deferred'
      BY <2>1, <3>2 DEF Awaiting, Listed, Lined, Lands
    <3> QED
      BY <1>4, <2>3, <3>2, <3>3 DEF Lands, Awaiting, Listed
  <2> QED
    BY <2>2, <2>3
<1> QED
  BY <1>3, <1>5, <1>6, <1>7

(* The custody records and the lines of each way to commit.                *)
LEMMA CasualtiesRecorded ==
  ASSUME BoardSound, frame \in FrameType, HandSound, RecordCasualties
  PROVE  \A h \in Halves : custody'[h] = IF Pair(h) \in Victims THEN saved[h] ELSE custody[h]
<1> SUFFICES ASSUME NEW h \in Halves
    PROVE custody'[h] = IF Pair(h) \in Victims THEN saved[h] ELSE custody[h]
  OBVIOUS
<1>1. h \in VictimIds <=> Pair(h) \in Victims
  BY VictimFacts
<1>2. CASE h \notin VictimIds
  BY <1>1, <1>2 DEF RecordCasualties
<1>3. CASE h \in VictimIds
  <2>1. \A payload \in ToSet(frame.ripped) : h \in payload.ids => payload = saved[h]
    <3> SUFFICES ASSUME NEW i \in DOMAIN frame.ripped, h \in frame.ripped[i].ids
        PROVE frame.ripped[i] = saved[h]
      BY DEF ToSet
    <3>1. /\ frame.ripped[i].ids = HalvesOf(frame.ripped[i].res.pair)
          /\ frame.ripped[i].res.pair \in Pairs
      BY VictimFacts
    <3>2. Pair(h) = frame.ripped[i].res.pair
      BY <3>1, HalfFacts
    <3> QED
      BY <3>2 DEF HandSound, BoardSound, SavedTogether
  <2>2. \E payload \in ToSet(frame.ripped) : h \in payload.ids
    BY <1>3 DEF VictimIds, ToSet
  <2>3. (CHOOSE payload \in ToSet(frame.ripped) : h \in payload.ids) = saved[h]
    BY <2>1, <2>2
  <2> QED
    BY <1>1, <1>3, <2>3 DEF RecordCasualties
<1> QED
  BY <1>2, <1>3

LEMMA VictimPairsFacts ==
  ASSUME frame \in FrameType, HandSound
  PROVE  /\ VictimPairs \in Seq(Pairs) /\ ToSet(VictimPairs) = Victims
         /\ IsInjective(VictimPairs)
<1>1. frame.ripped \in Seq(Loads)
  BY DEF FrameType
<1>2. \A i \in DOMAIN frame.ripped : frame.ripped[i].res.pair \in Pairs
  BY VictimFacts
<1>3. VictimPairs \in Seq(Pairs)
  BY <1>1, <1>2 DEF VictimPairs
<1> QED
  BY <1>3 DEF VictimPairs, Victims, ToSet, IsInjective, HandSound

LEMMA VictimsLinedUp ==
  ASSUME frame \in FrameType, HandSound, LinesSound, RouteVictimsNext
  PROVE  Lined
<1> SUFFICES ASSUME phase = "pairs" PROVE Lined
  BY DEF Lined
<1>1. /\ VictimPairs \in Seq(Pairs) /\ ToSet(VictimPairs) = Victims
      /\ IsInjective(VictimPairs)
  BY VictimPairsFacts
<1>2. /\ Reverse(VictimPairs) \in Seq(Pairs) /\ ToSet(Reverse(VictimPairs)) = Victims
      /\ IsInjective(Reverse(VictimPairs))
  BY <1>1, Reversing
<1>3. /\ todo \in Seq(Pairs) /\ IsInjective(todo) /\ queue \in Seq(Pairs)
      /\ Victims \cap ToSet(todo) = {} /\ Victims \cap ToSet(queue) = {}
      /\ ToSet(todo) \cap ToSet(queue) = {}
  BY DEF LinesSound, Listed
<1>4. todo' = Reverse(VictimPairs) \o todo /\ queue' = queue /\ queued' = queued
  BY DEF RouteVictimsNext
<1>5. /\ todo' \in Seq(Pairs) /\ ToSet(todo') = Victims \cup ToSet(todo)
      /\ IsInjective(todo')
  BY <1>2, <1>3, <1>4, Joining
<1> QED
  BY <1>3, <1>4, <1>5 DEF Lined, LinesSound, Listed

LEMMA VictimsQueued ==
  ASSUME frame \in FrameType, HandSound, LinesSound, NEW dropped, QueueVictims(dropped)
  PROVE  Lined
<1> SUFFICES ASSUME phase = "pairs" PROVE Lined
  BY DEF Lined
<1>1. /\ VictimPairs \in Seq(Pairs) /\ ToSet(VictimPairs) = Victims
      /\ IsInjective(VictimPairs) /\ Victims \subseteq Pairs
  BY VictimPairsFacts, VictimFacts
<1>2. \A y \in Victims : P(y) \notin queued
  BY <1>1 DEF LinesSound, Listed
<1>3. \A i \in DOMAIN VictimPairs : P(VictimPairs[i]) \notin queued \ dropped
  BY <1>1, <1>2 DEF ToSet
<1>4. /\ queue' = queue \o VictimPairs /\ todo' = todo
      /\ queued' = (queued \ dropped) \cup {P(y) : y \in Victims}
  BY <1>1, <1>3 DEF QueueVictims
<1>5. queue' \in Seq(Pairs) /\ ToSet(queue') = ToSet(queue) \cup Victims
  BY <1>1, <1>4, Joining DEF LinesSound
<1>6. \A x \in Pairs : P(x) \in queued' => x \in ToSet(queue')
  <2> SUFFICES ASSUME NEW x \in Pairs, P(x) \in queued' PROVE x \in ToSet(queue')
    OBVIOUS
  <2>1. CASE P(x) \in queued
    BY <1>5, <2>1 DEF LinesSound
  <2>2. CASE P(x) \notin queued
    <3>1. PICK y \in Victims : P(x) = P(y)
      BY <1>4, <2>2
    <3>2. x = y
      BY <3>1 DEF P
    <3> QED
      BY <1>5, <3>2
  <2> QED
    BY <2>1, <2>2
<1> QED
  BY <1>4, <1>5, <1>6 DEF Lined, LinesSound, Listed

----------------------------------------------------------------------------
(* What a step does to the board and to the victims, for the refinement.   *)
QuietStepped ==
  /\ UNCHANGED boardVars
  /\ frame'.ripped = frame.ripped
RipStepped     == \E h \in Halves : routed[h] # None /\ RipsFor(h)
RestoreStepped ==
  \E x \in Victims : \E W \in {{Whole(saved[P(x)].res)}, Written(saved[P(x)].res)} :
    frame.ripped # <<>> /\ x = Last(frame.ripped).res.pair /\ RestoresFor(x, W)
LandStepped    == \E x \in Pairs : x = X /\ Lands(x)

(* The steps of a pair, one lemma each.  Idle and Taken are frames.        *)
LEMMA FreshFrames ==
  /\ Idle \in FrameType /\ Idle.pair = None /\ Idle.ripped = <<>>
  /\ \A x \in Pairs, stage \in Stages :
       /\ Taken(x, stage) \in FrameType /\ Taken(x, stage).pair = x
       /\ Taken(x, stage).ripped = <<>> /\ Taken(x, stage).stage = stage
       /\ Taken(x, stage).level = 0 /\ Taken(x, stage).cursor = 0
       /\ Taken(x, stage).says.is = "fail"
<1>1. <<>> \in Seq(Loads) /\ <<>> \in Seq(Halves) /\ Failed(FALSE).is = "fail"
      /\ Failed(FALSE) \in Answers
  BY DEF Failed, Answers
<1>2. Idle \in FrameType /\ Idle.pair = None /\ Idle.ripped = <<>>
  BY <1>1 DEF Idle, FrameType, Stages
<1> QED
  BY <1>1, <1>2 DEF Taken, FrameType, Idle

LEMMA NoneHeld ==
  ASSUME frame \in FrameType, Len(frame.ripped) <= 0
  PROVE  frame.ripped = <<>>
<1>1. frame.ripped \in Seq(Loads) /\ Len(frame.ripped) \in Nat
  BY DEF FrameType
<1> QED
  BY <1>1

LEMMA LastResortIsSound ==
  ASSUME LoopSound, pc # "loop", frame.ripped = <<>>, LastResort
  PROVE  /\ frame' \in FrameType /\ FrameShape'
         /\ frame'.ripped = frame.ripped /\ frame'.pair = frame.pair
<1>1. X \in Pairs
  BY DEF LoopSound, FrameShape
<1>2. pc' = "hybrid" /\ frame' = Taken(X, "hybrid")
  BY DEF LastResort, Goto
<1>3. /\ frame' \in FrameType /\ frame'.pair = X /\ frame'.ripped = <<>>
      /\ frame'.stage = "hybrid" /\ frame'.says.is = "fail"
  BY <1>1, <1>2, FreshFrames DEF Stages
<1>4. FrameShape'
  BY <1>1, <1>2, <1>3 DEF FrameShape, X
<1> QED
  BY <1>3, <1>4 DEF X

LEMMA GiveUpIsSound ==
  ASSUME LoopSound, pc # "loop", GiveUp
  PROVE  /\ frame' \in FrameType /\ FrameShape'
         /\ frame'.ripped = frame.ripped /\ frame'.pair = frame.pair
<1>1. CASE frame.ripped = <<>>
  BY <1>1, LastResortIsSound DEF GiveUp
<1>2. CASE frame.ripped # <<>>
  <2>1. pc' = "unwind" /\ frame' = frame /\ X \in Pairs
    BY <1>2 DEF GiveUp, Goto, LoopSound, FrameShape
  <2> QED
    BY <1>2, <2>1 DEF LoopSound, FrameShape, X
<1> QED
  BY <1>1, <1>2

LEMMA SearchFailsIsSound ==
  ASSUME LoopSound, SearchFails
  PROVE  LoopSound' /\ QuietStepped
<1>1. PICK says \in {Graze(h) : h \in InTheWay} \cup {Blocked(c) : c \in BOOLEAN}
                      \cup {Failed(c) : c \in BOOLEAN} :
         frame' = [frame EXCEPT !.says = says]
  BY DEF SearchFails
<1>2. /\ says \in Answers
      /\ says.is = "graze" => says.half \in Halves
  <2>1. ASSUME NEW h \in InTheWay, says = Graze(h) PROVE says \in Answers /\ says.half \in Halves
    <3>1. h \in Halves
      BY DEF InTheWay
    <3> QED
      BY <2>1, <3>1 DEF Graze, Answers
  <2>2. ASSUME NEW c \in BOOLEAN, says = Blocked(c) PROVE says \in Answers /\ says.is # "graze"
    BY <2>2 DEF Blocked, Answers
  <2>3. ASSUME NEW c \in BOOLEAN, says = Failed(c) PROVE says \in Answers /\ says.is # "graze"
    BY <2>3 DEF Failed, Answers
  <2> QED
    BY <2>1, <2>2, <2>3
<1>3. /\ frame' \in FrameType /\ frame'.says = says /\ frame'.ripped = frame.ripped
      /\ frame'.pair = frame.pair /\ frame'.stage = frame.stage
      /\ frame'.level = frame.level /\ frame'.cursor = frame.cursor
  BY <1>1, <1>2 DEF LoopSound, FrameType
<1>4. pc = "search" /\ pc' = "says" /\ entry' = entry
  BY DEF SearchFails, Goto
<1>5. FrameShape'
  BY <1>2, <1>3, <1>4 DEF LoopSound, FrameShape, X
<1> QED
  BY <1>3, <1>5, QuietStep DEF LoopSound, QuietStepped, SearchFails

LEMMA GrazeEndsIsSound ==
  ASSUME LoopSound, GrazeEnds
  PROVE  LoopSound' /\ QuietStepped
<1>1. /\ pc = "says" /\ frame.stage = "graze" /\ entry' = entry
      /\ frame' = [frame EXCEPT !.stage = "probe", !.tries = 0, !.says.half = None]
      /\ pc' = IF frame.ripped = <<>> THEN "says" ELSE "putback"
  BY DEF GrazeEnds, Goto
<1>2. /\ frame' \in FrameType /\ frame'.ripped = frame.ripped
      /\ frame'.pair = frame.pair /\ frame'.stage = "probe"
      /\ frame'.level = frame.level /\ frame'.cursor = frame.cursor
  BY <1>1 DEF LoopSound, FrameType, Stages, Answers
<1>3. FrameShape'
  BY <1>1, <1>2 DEF LoopSound, FrameShape, X
<1> QED
  BY <1>2, <1>3, QuietStep DEF LoopSound, QuietStepped, GrazeEnds

LEMMA ProbeEndsIsSound ==
  ASSUME LoopSound, ProbeEnds
  PROVE  LoopSound' /\ QuietStepped
<1>1. /\ pc = "says" /\ frame.stage = "probe" /\ entry' = entry
      /\ frame' = [frame EXCEPT !.stage = "ladder", !.tries = 0,
                                !.says = Failed(frame.says.cells)]
      /\ pc' = IF frame.ripped = <<>> THEN "says" ELSE "putback"
  BY DEF ProbeEnds, Goto
<1>2. /\ frame' \in FrameType /\ frame'.ripped = frame.ripped
      /\ frame'.pair = frame.pair /\ frame'.stage = "ladder"
      /\ frame'.level = frame.level /\ frame'.cursor = frame.cursor
  BY <1>1 DEF LoopSound, FrameType, Stages, Answers, Failed
<1>3. frame.level = 0 /\ frame.cursor = 0 /\ (frame.ripped = <<>> => Len(frame.ripped) = 0)
  BY <1>1 DEF LoopSound, FrameShape
<1>4. FrameShape'
  BY <1>1, <1>2, <1>3 DEF LoopSound, FrameShape, X
<1> QED
  BY <1>2, <1>4, QuietStep DEF LoopSound, QuietStepped, ProbeEnds

LEMMA BlockersAreHalves ==
  ASSUME frame \in FrameType
  PROVE  Rippable \subseteq Halves /\ BlockerLists \subseteq Seq(Halves)
<1>1. Nameable \subseteq Halves
  BY DEF Nameable, InTheWay
<1>2. Rippable \subseteq Halves
  BY <1>1, HalfFacts DEF Rippable, Canonical
<1>3. ASSUME NEW list \in SeqOf(Rippable, Cardinality(Pairs)) PROVE list \in Seq(Halves)
  <2>1. Cardinality(Pairs) \in Nat
    BY PairAssumption, FS_CardinalityType
  <2>2. PICK m \in 0..Cardinality(Pairs) : list \in [1..m -> Rippable]
    BY DEF SeqOf
  <2> QED
    BY <1>2, <2>1, <2>2
<1> QED
  BY <1>2, <1>3 DEF BlockerLists

LEMMA OpenLadderIsSound ==
  ASSUME LoopSound, OpenLadder
  PROVE  LoopSound' /\ QuietStepped
<1>1. /\ pc = "says" /\ frame.stage = "ladder" /\ frame.level = 0 /\ entry' = entry
      /\ frame.ripped = <<>>
  <2>1. pc = "says" /\ frame.stage = "ladder" /\ frame.level = 0 /\ entry' = entry
    BY DEF OpenLadder
  <2>2. Len(frame.ripped) <= frame.cursor /\ frame.cursor <= frame.level
    BY <2>1 DEF LoopSound, FrameShape
  <2>3. frame \in FrameType /\ Len(frame.ripped) \in Nat /\ frame.cursor \in Nat
    BY DEF LoopSound, FrameType
  <2> QED
    BY <2>1, <2>2, <2>3, NoneHeld
<1>2. PICK list \in BlockerLists :
        IF list = <<>> \/ MaxRip = 0
          THEN LastResort
          ELSE frame' = [frame EXCEPT !.level = 1, !.blockers = list] /\ Goto("level")
  BY DEF OpenLadder
<1>3. CASE list = <<>> \/ MaxRip = 0
  <2>1. LastResort
    BY <1>2, <1>3
  <2> QED
    BY <1>1, <2>1, LastResortIsSound, QuietStep DEF LoopSound, QuietStepped, OpenLadder
<1>4. CASE ~(list = <<>> \/ MaxRip = 0)
  <2>1. frame' = [frame EXCEPT !.level = 1, !.blockers = list] /\ pc' = "level"
    BY <1>2, <1>4 DEF Goto
  <2>2. list \in Seq(Halves)
    BY BlockersAreHalves DEF LoopSound
  <2>3. /\ frame' \in FrameType /\ frame'.ripped = frame.ripped /\ frame'.pair = frame.pair
        /\ frame'.stage = frame.stage /\ frame'.level = 1 /\ frame'.cursor = frame.cursor
        /\ frame'.says = frame.says
    BY <2>1, <2>2 DEF LoopSound, FrameType
  <2>4. frame.cursor = 0 /\ Len(frame.ripped) = 0
    <3>1. frame.cursor \in Nat /\ frame.cursor <= 0
      BY <1>1 DEF LoopSound, FrameType, FrameShape
    <3> QED
      BY <1>1, <3>1
  <2>5. FrameShape'
    BY <1>1, <2>1, <2>3, <2>4 DEF LoopSound, FrameShape, X
  <2> QED
    BY <2>3, <2>5, QuietStep DEF LoopSound, QuietStepped, OpenLadder
<1> QED
  BY <1>3, <1>4

LEMMA NoLadderIsSound ==
  ASSUME LoopSound, NoLadder
  PROVE  LoopSound' /\ QuietStepped
<1>1. /\ pc = "says" /\ frame.stage = "ladder" /\ frame.level = 0 /\ LastResort
      /\ Len(frame.ripped) <= frame.cursor /\ frame.cursor <= 0
  BY DEF NoLadder, LoopSound, FrameShape
<1>2. frame \in FrameType /\ Len(frame.ripped) \in Nat /\ frame.cursor \in Nat
  BY DEF LoopSound, FrameType
<1>3. frame.ripped = <<>>
  BY <1>1, <1>2, NoneHeld
<1> QED
  BY <1>1, <1>3, LastResortIsSound, QuietStep DEF LoopSound, QuietStepped, NoLadder

LEMMA OutOfBlockersIsSound ==
  ASSUME LoopSound, OutOfBlockers
  PROVE  LoopSound' /\ QuietStepped
  BY GiveUpIsSound, QuietStep DEF LoopSound, QuietStepped, OutOfBlockers

LEMMA SkipLevelIsSound ==
  ASSUME LoopSound, SkipLevel
  PROVE  LoopSound' /\ QuietStepped
<1>1. pc = "level" /\ pc' = "next" /\ frame' = frame /\ entry' = entry
  BY DEF SkipLevel, Goto
<1>2. FrameShape'
  BY <1>1 DEF LoopSound, FrameShape, X
<1> QED
  BY <1>1, <1>2, QuietStep DEF LoopSound, QuietStepped, SkipLevel

(* A rip after a try.                                                      *)
LEMMA TryUpdate ==
  ASSUME frame \in FrameType, NEW load \in Loads,
         frame' = [[frame EXCEPT !.tries = @ + 1] EXCEPT !.ripped = Append(@, load)]
  PROVE  /\ frame' \in FrameType /\ frame'.pair = frame.pair /\ frame'.stage = frame.stage /\ frame'.says = frame.says
         /\ frame'.ripped = Append(frame.ripped, load) /\ frame'.level = frame.level /\ frame'.cursor = frame.cursor
<1>1. PICK n \in Nat : n = frame.tries + 1
  BY DEF FrameType
<1>2. PICK k : k = [frame EXCEPT !.tries = n]
  OBVIOUS
<1>3. /\ k \in FrameType /\ k.pair = frame.pair /\ k.stage = frame.stage /\ k.says = frame.says
      /\ k.ripped = frame.ripped /\ k.level = frame.level /\ k.cursor = frame.cursor
  BY <1>2 DEF FrameType
<1>4. Append(frame.ripped, load) \in Seq(Loads)
  BY Appending DEF FrameType
<1>5. PICK rs \in Seq(Loads) : rs = Append(frame.ripped, load)
  BY <1>4
<1>6. frame' = [k EXCEPT !.ripped = rs] /\ k \in FrameType
  BY <1>1, <1>2, <1>3, <1>5
<1>7. /\ frame' \in FrameType /\ frame'.pair = k.pair /\ frame'.stage = k.stage /\ frame'.says = k.says
      /\ frame'.ripped = rs /\ frame'.level = k.level /\ frame'.cursor = k.cursor
  BY <1>6 DEF FrameType
<1> QED
  BY <1>3, <1>5, <1>7

LEMMA LadderBounds ==
  ASSUME LoopSound
  PROVE  /\ Len(frame.ripped) \in Nat /\ frame.level \in Nat /\ frame.cursor \in Nat
         /\ frame.ripped \in Seq(Loads) /\ frame.blockers \in Seq(Halves)
  BY DEF LoopSound, FrameType

(* The new blocker is a half and the list stays a list of halves.          *)
LEMMA WithNextIsAList ==
  ASSUME frame \in FrameType, NEW h \in Halves, NEW level \in Nat, level >= 1
  PROVE  WithNext(h, level) \in Seq(Halves)
<1> DEFINE list == IF h \in ToSet(frame.blockers) THEN frame.blockers
                   ELSE Append(frame.blockers, h)
           i == CHOOSE i \in DOMAIN list : list[i] = h
<1>1. frame.blockers \in Seq(Halves)
  BY DEF FrameType
<1>2. list \in Seq(Halves)
  BY <1>1
<1>3. \E j \in DOMAIN list : list[j] = h
  <2>1. CASE h \in ToSet(frame.blockers)
    BY <2>1 DEF ToSet
  <2>2. CASE h \notin ToSet(frame.blockers)
    BY <1>1, <2>2, Appending
  <2> QED
    BY <2>1, <2>2
<1>4. i \in DOMAIN list /\ list[i] = h
  BY <1>3
<1>5. WithNext(h, level) = IF level > Len(list) THEN list
                           ELSE [list EXCEPT ![i] = list[level], ![level] = list[i]]
  BY DEF WithNext
<1> HIDE DEF list, i
<1>6. CASE level > Len(list)
  BY <1>2, <1>5, <1>6
<1>7. CASE ~(level > Len(list))
  <2>1. level \in DOMAIN list /\ list[level] \in Halves /\ list[i] \in Halves
    BY <1>2, <1>4, <1>7
  <2> QED
    <3>1. WithNext(h, level) = [list EXCEPT ![i] = list[level], ![level] = list[i]]
      BY <1>5, <1>7
    <3>2. [list EXCEPT ![i] = list[level]] \in Seq(Halves)
      BY <1>2, <1>4, <2>1, ExceptSeq
    <3>3. [list EXCEPT ![i] = list[level], ![level] = list[i]]
            = [[list EXCEPT ![i] = list[level]] EXCEPT ![level] = list[i]]
      OBVIOUS
    <3> QED
      BY <1>2, <2>1, <3>1, <3>2, <3>3, ExceptSeq
<1> QED
  BY <1>6, <1>7

LEMMA NextLevelIsSound ==
  ASSUME LoopSound, NextLevel
  PROVE  LoopSound' /\ QuietStepped
<1> DEFINE up == [frame EXCEPT !.level = @ + 1, !.cursor = Len(frame.ripped)]
<1>1. /\ pc \in {"next", "says"} /\ frame.stage = "ladder" /\ entry' = entry
      /\ Len(frame.ripped) <= frame.cursor /\ frame.cursor <= frame.level
  BY DEF NextLevel, LoopSound, FrameShape
<1>2. \/ GiveUp
      \/ frame' = up /\ Goto("level")
      \/ \E h \in Rippable : frame' = [up EXCEPT !.blockers = WithNext(h, frame.level + 1)]
                             /\ Goto("level")
  BY DEF NextLevel
<1>3. CASE GiveUp
  <2>1. pc # "loop"
    BY <1>1
  <2> QED
    BY <1>3, <2>1, GiveUpIsSound, QuietStep DEF LoopSound, QuietStepped, NextLevel
<1>4. CASE ~GiveUp
  <2>1. /\ frame' \in FrameType /\ frame'.ripped = frame.ripped /\ frame'.pair = frame.pair
        /\ frame'.stage = frame.stage /\ frame'.says = frame.says
        /\ frame'.level = frame.level + 1 /\ frame'.cursor = Len(frame.ripped)
        /\ pc' = "level"
    <3>1. /\ up \in FrameType /\ up.ripped = frame.ripped /\ up.pair = frame.pair
          /\ up.stage = frame.stage /\ up.says = frame.says
          /\ up.level = frame.level + 1 /\ up.cursor = Len(frame.ripped)
      <4>1. frame \in FrameType
        BY DEF LoopSound
      <4>2. PICK n \in Nat, m \in Nat : n = frame.level + 1 /\ m = Len(frame.ripped)
        BY LadderBounds
      <4>3. up = [frame EXCEPT !.level = n, !.cursor = m]
        BY <4>2
      <4> HIDE DEF up
      <4>4. /\ up \in FrameType /\ up.pair = frame.pair /\ up.stage = frame.stage
            /\ up.says = frame.says /\ up.ripped = frame.ripped
            /\ up.level = n /\ up.cursor = m
        BY <4>1, <4>3 DEF FrameType
      <4> QED
        BY <4>2, <4>4
    <3>2. CASE frame' = up /\ Goto("level")
      BY <3>1, <3>2 DEF Goto
    <3>3. ASSUME NEW h \in Rippable, Goto("level"),
                 frame' = [up EXCEPT !.blockers = WithNext(h, frame.level + 1)]
          PROVE  /\ frame' \in FrameType /\ frame'.pair = up.pair /\ frame'.stage = up.stage
                 /\ frame'.says = up.says /\ frame'.ripped = up.ripped
                 /\ frame'.level = up.level /\ frame'.cursor = up.cursor /\ pc' = "level"
      <4>1. frame.level + 1 \in Nat /\ frame.level + 1 >= 1 /\ h \in Halves
        BY LadderBounds, BlockersAreHalves DEF LoopSound
      <4>2. PICK list \in Seq(Halves) : list = WithNext(h, frame.level + 1)
        BY <4>1, WithNextIsAList DEF LoopSound
      <4>3. frame' = [up EXCEPT !.blockers = list] /\ up \in FrameType
        BY <3>1, <3>3, <4>2
      <4> HIDE DEF up
      <4> QED
        BY <3>3, <4>3 DEF FrameType, Goto
    <3> HIDE DEF up
    <3> QED
      BY <1>2, <1>4, <3>1, <3>2, <3>3
  <2>2. FrameShape'
    <3>1. Len(frame.ripped) < frame.level + 1
      BY <1>1, LadderBounds
    <3>2. X \in Pairs /\ (frame.stage = "graze" => FALSE)
      BY <1>1 DEF LoopSound, FrameShape
    <3> QED
      BY <1>1, <2>1, <3>1, <3>2, LadderBounds DEF FrameShape, X
  <2> QED
    BY <2>1, <2>2, QuietStep DEF LoopSound, QuietStepped, NextLevel
<1> QED
  BY <1>3, <1>4

----------------------------------------------------------------------------
(* The three ways to rip.                                                  *)
LEMMA GrazeRipsIsSound ==
  ASSUME LoopSound, GrazeRips
  PROVE  LoopSound' /\ RipStepped
<1>1. PICK h \in Halves : h = frame.says.half
  BY DEF GrazeRips, Says, LoopSound, FrameShape
<1>2. /\ pc = "says" /\ pc' = "search" /\ frame.stage = "graze" /\ routed[h] # None
      /\ RipUp(h) /\ UNCHANGED <<phase, entry, todo, queue, queued, custody, deferred>>
      /\ frame' = [[frame EXCEPT !.tries = @ + 1] EXCEPT !.ripped = Append(@, Payload(h))]
  BY <1>1 DEF GrazeRips, Says, MayGrazeRip, RipAnd, Goto
<1>3. Payload(h) \in Loads
  BY <1>2, RoutedHalf DEF LoopSound
<1>5. /\ frame' \in FrameType /\ frame'.ripped = Append(frame.ripped, Payload(h))
      /\ frame'.pair = frame.pair /\ frame'.stage = frame.stage /\ frame'.says = frame.says
      /\ frame'.level = frame.level /\ frame'.cursor = frame.cursor
  <2>1. PICK load \in Loads : load = Payload(h)
    BY <1>3
  <2>2. /\ frame' = [[frame EXCEPT !.tries = @ + 1] EXCEPT !.ripped = Append(@, load)]
        /\ frame \in FrameType
    BY <1>2, <2>1 DEF LoopSound
  <2>3. /\ frame' \in FrameType /\ frame'.pair = frame.pair /\ frame'.stage = frame.stage
        /\ frame'.says = frame.says /\ frame'.ripped = Append(frame.ripped, load)
        /\ frame'.level = frame.level /\ frame'.cursor = frame.cursor
    BY <2>2, TryUpdate
  <2> QED
    BY <2>1, <2>3
<1>6. FrameShape'
  BY <1>2, <1>5 DEF LoopSound, FrameShape, X
<1>7. RipsFor(h)
  BY <1>2, <1>5 DEF RipsFor
<1>8. RipStepped
  BY <1>2, <1>7 DEF RipStepped
<1> QED
  BY <1>2, <1>5, <1>6, <1>7, <1>8, RipStep DEF LoopSound

LEMMA ProbeRipsIsSound ==
  ASSUME LoopSound, ProbeRips
  PROVE  LoopSound' /\ RipStepped
<1>1. PICK h \in Nameable : RipAnd(h, [frame EXCEPT !.tries = @ + 1])
  BY DEF ProbeRips
<1>2. /\ pc = "says" /\ pc' = "search" /\ frame.stage = "probe"
      /\ h \in Halves /\ routed[h] # None
      /\ RipUp(h) /\ UNCHANGED <<phase, entry, todo, queue, queued, custody, deferred>>
      /\ frame' = [[frame EXCEPT !.tries = @ + 1] EXCEPT !.ripped = Append(@, Payload(h))]
  BY <1>1 DEF ProbeRips, Says, Nameable, InTheWay, RipAnd, Goto
<1>3. Payload(h) \in Loads
  BY <1>2, RoutedHalf DEF LoopSound
<1>5. /\ frame' \in FrameType /\ frame'.ripped = Append(frame.ripped, Payload(h))
      /\ frame'.pair = frame.pair /\ frame'.stage = frame.stage /\ frame'.says = frame.says
      /\ frame'.level = frame.level /\ frame'.cursor = frame.cursor
  <2>1. PICK load \in Loads : load = Payload(h)
    BY <1>3
  <2>2. /\ frame' = [[frame EXCEPT !.tries = @ + 1] EXCEPT !.ripped = Append(@, load)]
        /\ frame \in FrameType
    BY <1>2, <2>1 DEF LoopSound
  <2>3. /\ frame' \in FrameType /\ frame'.pair = frame.pair /\ frame'.stage = frame.stage
        /\ frame'.says = frame.says /\ frame'.ripped = Append(frame.ripped, load)
        /\ frame'.level = frame.level /\ frame'.cursor = frame.cursor
    BY <2>2, TryUpdate
  <2> QED
    BY <2>1, <2>3
<1>6. FrameShape'
  BY <1>2, <1>5 DEF LoopSound, FrameShape, X
<1>7. RipsFor(h)
  BY <1>2, <1>5 DEF RipsFor
<1>8. RipStepped
  BY <1>2, <1>7 DEF RipStepped
<1> QED
  BY <1>2, <1>5, <1>6, <1>7, <1>8, RipStep DEF LoopSound

LEMMA LadderRipsIsSound ==
  ASSUME LoopSound, LadderRips
  PROVE  LoopSound' /\ (RipStepped \/ QuietStepped)
<1> DEFINE f == [frame EXCEPT !.cursor = @ + 1]
<1>1. /\ pc = "level" /\ frame.stage = "ladder" /\ frame.level <= Len(frame.blockers)
      /\ frame.cursor < frame.level /\ Len(frame.ripped) <= frame.cursor /\ X \in Pairs
      /\ pc' = IF frame.cursor + 1 = frame.level THEN "search" ELSE "level"
      /\ UNCHANGED <<phase, entry, todo, queue, queued, custody, deferred>>
  BY DEF LadderRips, LoopSound, FrameShape, Goto
<1>2. frame.cursor + 1 \in DOMAIN frame.blockers
  BY <1>1, LadderBounds
<1>3. PICK h \in Halves : h = frame.blockers[frame.cursor + 1]
  BY <1>2, LadderBounds
<1>4. /\ f \in FrameType /\ f.ripped = frame.ripped /\ f.pair = frame.pair
      /\ f.stage = frame.stage /\ f.says = frame.says
      /\ f.level = frame.level /\ f.cursor = frame.cursor + 1
  <2>1. frame \in FrameType
    BY DEF LoopSound
  <2>2. PICK m \in Nat : m = frame.cursor + 1
    BY LadderBounds
  <2>3. f = [frame EXCEPT !.cursor = m]
    BY <2>2
  <2> HIDE DEF f
  <2>4. /\ f \in FrameType /\ f.pair = frame.pair /\ f.stage = frame.stage
        /\ f.says = frame.says /\ f.ripped = frame.ripped
        /\ f.level = frame.level /\ f.cursor = m
    BY <2>1, <2>3 DEF FrameType
  <2> QED
    BY <2>2, <2>4
<1>5. CASE routed[h] = None
  <2>1. frame' = f /\ UNCHANGED boardVars
    BY <1>3, <1>5 DEF LadderRips
  <2>2. FrameShape'
    BY <1>1, <1>4, <2>1, LadderBounds DEF FrameShape, X
  <2>3. QuietStepped
    BY <1>4, <2>1 DEF QuietStepped
  <2> QED
    BY <1>1, <1>4, <2>1, <2>2, <2>3, QuietStep DEF LoopSound
<1>6. CASE routed[h] # None
  <2>1. RipUp(h) /\ frame' = [f EXCEPT !.ripped = Append(@, Payload(h))]
    BY <1>3, <1>6 DEF LadderRips, RipAnd
  <2>2. Payload(h) \in Loads
    BY <1>6, RoutedHalf DEF LoopSound
  <2>3. /\ Append(frame.ripped, Payload(h)) \in Seq(Loads)
        /\ Len(Append(frame.ripped, Payload(h))) = Len(frame.ripped) + 1
    BY <2>2, LadderBounds
  <2> HIDE DEF f
  <2>4. /\ frame' \in FrameType /\ frame'.ripped = Append(frame.ripped, Payload(h))
        /\ frame'.pair = frame.pair /\ frame'.stage = frame.stage /\ frame'.says = frame.says
        /\ frame'.level = frame.level /\ frame'.cursor = frame.cursor + 1
    <3>1. PICK rs \in Seq(Loads) : rs = Append(frame.ripped, Payload(h))
      BY <2>3
    <3>2. frame' = [f EXCEPT !.ripped = rs] /\ f \in FrameType
      BY <1>4, <2>1, <3>1
    <3>3. /\ frame' \in FrameType /\ frame'.pair = f.pair /\ frame'.stage = f.stage
          /\ frame'.says = f.says /\ frame'.ripped = rs
          /\ frame'.level = f.level /\ frame'.cursor = f.cursor
      BY <3>2 DEF FrameType
    <3> QED
      BY <1>4, <3>1, <3>3
  <2>5. FrameShape'
    BY <1>1, <2>3, <2>4, LadderBounds DEF FrameShape, X
  <2>6. RipsFor(h)
    BY <1>1, <2>1, <2>4 DEF RipsFor
  <2>7. RipStepped
    BY <1>6, <2>6 DEF RipStepped
  <2> QED
    BY <1>6, <2>4, <2>5, <2>6, <2>7, RipStep DEF LoopSound
<1> QED
  BY <1>5, <1>6

----------------------------------------------------------------------------
(* The two ways to restore.                                                *)
LEMMA PutBackIsSound ==
  ASSUME LoopSound, PutBack
  PROVE  LoopSound' /\ RestoreStepped
<1>1. /\ pc = "putback" /\ frame.ripped # <<>> /\ RestoreRippedNet(Last(frame.ripped))
      /\ frame' = [frame EXCEPT !.ripped = Front(@)]
      /\ pc' = IF Len(frame.ripped) > 1 THEN "putback" ELSE "says"
      /\ UNCHANGED <<phase, entry, todo, queue, queued, custody, deferred>>
      /\ frame.level = 0 /\ frame.cursor = 0 /\ X \in Pairs
  BY DEF PutBack, Goto, LoopSound, FrameShape
<1>2. /\ frame.ripped \in Seq(Loads) /\ Front(frame.ripped) \in Seq(Loads)
      /\ Len(Front(frame.ripped)) = Len(frame.ripped) - 1 /\ Len(frame.ripped) \in Nat
  BY <1>1, LadderBounds, Shortening
<1>3. PICK rs \in Seq(Loads) : rs = Front(frame.ripped)
  BY <1>2
<1>4. frame' = [frame EXCEPT !.ripped = rs] /\ frame \in FrameType
  BY <1>1, <1>3 DEF LoopSound
<1>5. /\ frame' \in FrameType /\ frame'.pair = frame.pair /\ frame'.stage = frame.stage
      /\ frame'.says = frame.says /\ frame'.ripped = rs
      /\ frame'.level = frame.level /\ frame'.cursor = frame.cursor
  BY <1>4 DEF FrameType
<1>6. PICK x : x = Last(frame.ripped).res.pair
  OBVIOUS
<1>7. x \in Victims /\ Last(frame.ripped) = saved[P(x)]
  BY <1>1, <1>6, LastVictim DEF LoopSound
<1>8. PICK V : V = Victims
  OBVIOUS
<1>9. BoardSound /\ HeldSound(V) /\ x \in V /\ RestoreRippedNet(saved[P(x)])
  BY <1>1, <1>7, <1>8 DEF LoopSound, HandSound
<1>10. Restoring(x, {Whole(saved[P(x)].res)})
  BY <1>9, RestoreRippedNetWrites
<1>11. RestoresFor(x, {Whole(saved[P(x)].res)})
  BY <1>1, <1>3, <1>5, <1>10 DEF RestoresFor
<1>12. FrameShape'
  <2>1. Len(frame.ripped) > 1 => frame'.ripped # <<>>
    BY <1>2, <1>3, <1>5
  <2>2. ~(Len(frame.ripped) > 1) => Len(frame'.ripped) <= 0
    BY <1>2, <1>3, <1>5
  <2> QED
    BY <1>1, <1>5, <2>1, <2>2 DEF LoopSound, FrameShape, X
<1>13. RestoreStepped
  BY <1>1, <1>6, <1>7, <1>11 DEF RestoreStepped
<1> QED
  BY <1>1, <1>5, <1>6, <1>11, <1>12, <1>13, RestoreStep DEF LoopSound

LEMMA UnwindIsSound ==
  ASSUME LoopSound, Unwind
  PROVE  LoopSound' /\ RestoreStepped
<1>1. /\ pc = "unwind" /\ frame.ripped # <<>> /\ RestoreNet(Last(frame.ripped))
      /\ UNCHANGED <<phase, entry, todo, queue, queued, custody, deferred>>
      /\ X \in Pairs
  BY DEF Unwind, LoopSound, FrameShape
<1>2. /\ frame.ripped \in Seq(Loads) /\ Front(frame.ripped) \in Seq(Loads)
      /\ Len(Front(frame.ripped)) = Len(frame.ripped) - 1 /\ Len(frame.ripped) \in Nat
  BY <1>1, LadderBounds, Shortening
<1>3. PICK rs \in Seq(Loads) : rs = Front(frame.ripped)
  BY <1>2
<1>4. frame' \in FrameType /\ frame'.pair = frame.pair /\ frame'.ripped = rs /\ FrameShape'
  <2>1. CASE Len(frame.ripped) = 1
    <3>1. pc' = "hybrid" /\ frame' = Taken(X, "hybrid")
      BY <2>1 DEF Unwind, LastResort, Goto
    <3>2. /\ frame' \in FrameType /\ frame'.pair = X /\ frame'.ripped = <<>>
          /\ frame'.stage = "hybrid" /\ frame'.says.is = "fail"
      BY <1>1, <3>1, FreshFrames DEF Stages
    <3>3. rs = <<>>
      BY <1>2, <1>3, <2>1
    <3> QED
      BY <1>1, <3>1, <3>2, <3>3 DEF FrameShape, X
  <2>2. CASE Len(frame.ripped) # 1
    <3>1. pc' = "unwind" /\ frame' = [frame EXCEPT !.ripped = rs] /\ frame \in FrameType
      BY <1>3, <2>2 DEF Unwind, Goto, LoopSound
    <3>2. /\ frame' \in FrameType /\ frame'.pair = frame.pair /\ frame'.stage = frame.stage
          /\ frame'.says = frame.says /\ frame'.ripped = rs
          /\ frame'.level = frame.level /\ frame'.cursor = frame.cursor
      BY <3>1 DEF FrameType
    <3>3. rs # <<>>
      <4>1. Len(rs) = Len(frame.ripped) - 1 /\ Len(frame.ripped) \in Nat
        BY <1>2, <1>3
      <4>2. Len(frame.ripped) # 0
        BY <1>1, LadderBounds
      <4>3. Len(rs) # 0
        BY <2>2, <4>1, <4>2
      <4> QED
        BY <4>3
    <3> QED
      BY <1>1, <3>1, <3>2, <3>3 DEF LoopSound, FrameShape, X
  <2> QED
    BY <2>1, <2>2
<1>6. PICK x : x = Last(frame.ripped).res.pair
  OBVIOUS
<1>7. x \in Victims /\ Last(frame.ripped) = saved[P(x)]
  BY <1>1, <1>6, LastVictim DEF LoopSound
<1>8. PICK V : V = Victims
  OBVIOUS
<1>9. BoardSound /\ HeldSound(V) /\ x \in V /\ RestoreNet(saved[P(x)])
  BY <1>1, <1>7, <1>8 DEF LoopSound, HandSound
<1>10. Restoring(x, Written(saved[P(x)].res))
  BY <1>9, RestoreNetWrites
<1>11. RestoresFor(x, Written(saved[P(x)].res))
  BY <1>1, <1>3, <1>4, <1>10 DEF RestoresFor
<1>12. RestoreStepped
  BY <1>1, <1>6, <1>7, <1>11 DEF RestoreStepped
<1> QED
  BY <1>1, <1>4, <1>6, <1>11, <1>12, RestoreStep DEF LoopSound

----------------------------------------------------------------------------
(* The five landings.                                                      *)
LEMMA DoneIsSound ==
  ASSUME Done
  PROVE  /\ frame' = Idle /\ entry' = None /\ pc' = "loop"
         /\ frame' \in FrameType /\ FrameShape'
<1>1. frame' = Idle /\ entry' = None /\ pc' = "loop"
  BY DEF Done, Goto
<1>2. Idle \in FrameType /\ Idle.stage = "none" /\ Idle.says.is = "fail"
  BY FreshFrames DEF Idle, Failed
<1> QED
  BY <1>1, <1>2 DEF FrameShape

LEMMA NoVictims ==
  ASSUME LoopSound, frame.ripped = <<>>
  PROVE  Victims = {} /\ VictimIds = {}
  BY DEF Victims, VictimIds

(* The lines stay as they are when there are no victims.                   *)
LEMMA NothingToLine ==
  ASSUME LoopSound, frame.ripped = <<>>, todo' = todo, queue' = queue, queued' \subseteq queued
  PROVE  Lined
<1>1. Victims = {}
  BY NoVictims
<1> QED
  BY <1>1 DEF Lined, LoopSound, LinesSound, Listed

LEMMA CoupledLands ==
  ASSUME NEW x, x = X, LandCoupled
  PROVE  \E r \in FreeRoutes(x), legs \in Nat, paths \in BOOLEAN :
           RecordPair(Result(x, r, legs, paths))
<1>1. PICK r \in FreeRoutes(X), paths \in BOOLEAN : RecordPair(Result(X, r, 0, paths))
  BY Zenon DEF LandCoupled
<1>2. r \in FreeRoutes(x) /\ 0 \in Nat
  BY <1>1
<1>3. RecordPair(Result(x, r, 0, paths))
  BY <1>1, Zenon
<1> QED
  BY <1>1, <1>2, <1>3, Zenon

LEMMA ChainLandsIsSound ==
  ASSUME LoopSound, ChainLands
  PROVE  LoopSound' /\ LandStepped
<1>1. /\ pc = "chain" /\ frame.ripped = <<>> /\ X \in Pairs /\ Done
      /\ UNCHANGED <<phase, todo, queue, queued, custody>>
  BY DEF ChainLands, LoopSound, FrameShape
<1>2. PICK x \in Pairs : x = X
  BY <1>1
<1>3. PICK r \in FreeRoutes(x), legs \in 1..2 :
        /\ RecordPair(Result(x, r, legs, TRUE))
        /\ deferred' = IF legs < 2 THEN deferred \cup {X} ELSE deferred
  BY <1>2 DEF ChainLands
<1>4. Lands(x)
  <2>1. legs \in Nat /\ TRUE \in BOOLEAN
    OBVIOUS
  <2>2. \E route \in FreeRoutes(x), legs_ \in Nat, paths \in BOOLEAN :
          RecordPair(Result(x, route, legs_, paths))
    BY <1>3, <2>1, Zenon
  <2>3. Victims = {} /\ custody' = custody /\ deferred \subseteq deferred'
    BY <1>1, <1>3, NoVictims
  <2> QED
    BY <1>1, <2>2, <2>3, DoneIsSound DEF Lands
<1>5. Lined
  BY <1>1, NothingToLine
<1>6. LandStepped
  BY <1>2, <1>4 DEF LandStepped
<1> QED
  BY <1>1, <1>2, <1>4, <1>5, <1>6, DoneIsSound, LandStep DEF LoopSound

LEMMA GrazeLandsIsSound ==
  ASSUME LoopSound, GrazeLands
  PROVE  LoopSound' /\ LandStepped
<1>1. /\ pc = "search" /\ X \in Pairs /\ Done /\ RouteVictimsNext
      /\ phase' = phase /\ deferred' = deferred
  BY DEF GrazeLands, LoopSound, FrameShape
<1>2. PICK x \in Pairs : x = X
  BY <1>1
<1>3. \E r \in FreeRoutes(x), legs \in Nat, paths \in BOOLEAN :
        RecordPair(Result(x, r, legs, paths))
  BY <1>2, CoupledLands DEF GrazeLands
<1>4. Lands(x)
  BY <1>1, <1>3, DoneIsSound, CasualtiesRecorded DEF Lands, RouteVictimsNext, LoopSound
<1>5. Lined
  BY <1>1, VictimsLinedUp DEF LoopSound
<1>6. LandStepped
  BY <1>2, <1>4 DEF LandStepped
<1> QED
  BY <1>1, <1>2, <1>4, <1>5, <1>6, DoneIsSound, LandStep DEF LoopSound

LEMMA QueuedLandsIsSound ==
  ASSUME LoopSound, ProbeLands \/ LadderLands
  PROVE  LoopSound' /\ LandStepped
<1>1. /\ pc = "search" /\ X \in Pairs /\ Done
      /\ QueueVictims({}) \/ QueueVictims(HalvesOf(X))
      /\ phase' = phase /\ deferred' = deferred
  BY DEF ProbeLands, LadderLands, LoopSound, FrameShape
<1>2. PICK x \in Pairs : x = X
  BY <1>1
<1>3. \E r \in FreeRoutes(x), legs \in Nat, paths \in BOOLEAN :
        RecordPair(Result(x, r, legs, paths))
  BY <1>2, CoupledLands DEF ProbeLands, LadderLands
<1>4. PICK dropped : QueueVictims(dropped)
  BY <1>1, Zenon
<1>5. Lands(x)
  BY <1>1, <1>3, <1>4, DoneIsSound, CasualtiesRecorded DEF Lands, QueueVictims, LoopSound
<1>6. Lined
  BY <1>4, VictimsQueued DEF LoopSound
<1>7. BoardSound' /\ HandSound' /\ LinesSound' /\ NoPairForgotten'
  BY <1>2, <1>5, <1>6, LandStep DEF LoopSound
<1>8. LandStepped
  BY <1>2, <1>5 DEF LandStepped
<1> QED
  BY <1>1, <1>7, <1>8, DoneIsSound DEF LoopSound

LEMMA HybridLandsIsSound ==
  ASSUME LoopSound, HybridLands
  PROVE  LoopSound' /\ LandStepped
<1>1. /\ pc = "hybrid" /\ frame.ripped = <<>> /\ X \in Pairs /\ Done
      /\ queued' = queued \ HalvesOf(X)
      /\ UNCHANGED <<phase, todo, queue, custody, deferred>>
  BY DEF HybridLands, LoopSound, FrameShape
<1>2. PICK x \in Pairs : x = X
  BY <1>1
<1>3. PICK r \in FreeRoutes(x) : RecordPair(Result(x, r, 0, FALSE))
  BY <1>2 DEF HybridLands
<1>4. Lands(x)
  <2>1. 0 \in Nat /\ FALSE \in BOOLEAN
    OBVIOUS
  <2>2. \E route \in FreeRoutes(x), legs \in Nat, paths \in BOOLEAN :
          RecordPair(Result(x, route, legs, paths))
    BY <1>3, <2>1, Zenon
  <2>3. Victims = {} /\ custody' = custody /\ deferred \subseteq deferred'
    BY <1>1, NoVictims
  <2> QED
    BY <1>1, <2>2, <2>3, DoneIsSound DEF Lands
<1>5. Lined
  BY <1>1, NothingToLine
<1>6. LandStepped
  BY <1>2, <1>4 DEF LandStepped
<1> QED
  BY <1>1, <1>2, <1>4, <1>5, <1>6, DoneIsSound, LandStep DEF LoopSound

----------------------------------------------------------------------------
(* The three ways to give a pair up.                                       *)
LEMMA DeferIsSound ==
  ASSUME LoopSound, ChainDefers \/ Defer
  PROVE  LoopSound' /\ QuietStepped
<1>1. /\ frame.ripped = <<>> /\ X \in Pairs /\ Done
      /\ UNCHANGED <<boardVars, phase, todo, queue, queued, custody>>
      /\ deferred' = deferred \cup {X}
  BY DEF ChainDefers, Defer, LoopSound, FrameShape
<1>2. frame' = Idle /\ entry' = None /\ frame' \in FrameType /\ FrameShape'
  BY <1>1, DoneIsSound
<1>3. BoardSound'
  BY <1>1, BoardStaysSound DEF LoopSound
<1>4. HandSound' /\ Victims' = {} /\ VictimIds' = {} /\ X' = None
  BY <1>2, EmptyHand DEF LoopSound
<1>5. routed' = routed /\ saved' = saved
  BY <1>1 DEF boardVars, books
<1>6. LinesSound'
  <2> SUFFICES ASSUME phase = "pairs" PROVE LinesSound'
    BY <1>1 DEF LinesSound
  <2>1. ToSet(todo) \subseteq Pairs /\ ToSet(queue) \subseteq Pairs
    BY DEF LoopSound, LinesSound, ToSet
  <2>2. None \notin Listed /\ Listed' = Listed
    BY <1>1, <2>1, PairAssumption DEF Listed
  <2> QED
    BY <1>1, <1>4, <1>5, <2>2 DEF LoopSound, LinesSound
<1>7. NoPairForgotten'
  <2> SUFFICES ASSUME NEW h \in Halves, saved'[h] # None, routed'[h] = None
      PROVE custody'[h] = saved'[h] /\ (phase' = "pairs" => Awaiting(Pair(h))')
    BY DEF NoPairForgotten
  <2>1. h \notin VictimIds
    BY <1>1, NoVictims
  <2>2. custody[h] = saved[h] /\ (phase = "pairs" => Awaiting(Pair(h)))
    BY <1>5, <2>1 DEF LoopSound, NoPairForgotten
  <2>3. Awaiting(Pair(h)) => Awaiting(Pair(h))'
    BY <1>1 DEF Awaiting
  <2> QED
    BY <1>1, <1>5, <2>2, <2>3
<1>8. QuietStepped
  BY <1>1, <1>2, FreshFrames DEF QuietStepped
<1> QED
  BY <1>2, <1>3, <1>4, <1>6, <1>7, <1>8 DEF LoopSound

(* In the reroute loop nobody lines up, and custody keeps what was ripped. *)
LEMMA TerminalIsSound ==
  ASSUME LoopSound, Terminal
  PROVE  LoopSound'
<1>1. /\ phase = "reroute" /\ frame.ripped = <<>> /\ X \in Pairs /\ Done
      /\ UNCHANGED <<phase, custody>>
  BY DEF Terminal, Rerouting, LoopSound, FrameShape
<1>2. PICK x \in Pairs : x = X
  BY <1>1
<1>3. routed[P(x)] = None
  BY <1>2, PairAssumption DEF LoopSound, HandSound
<1>4. /\ BoardSound'
      /\ \A h \in Halves : saved'[h] # None => saved'[h] = saved[h]
      /\ \A h \in Halves : routed'[h] = None => routed[h] = None
  <2>1. CASE saved[P(x)] # None /\ ~Collides(saved[P(x)])
    <3>1. RestoreNet(saved[P(x)])
      BY <1>2, <2>1 DEF Terminal
    <3>2. BoardSound'
      BY <1>3, <2>1, <3>1, ReturnIsSound DEF LoopSound
    <3>3. \A h \in Halves : saved'[h] # None => saved'[h] = saved[h]
      BY <3>1 DEF RestoreNet
    <3>4. saved[P(x)].res # None
      <4>1. saved[P(x)] \in PairPayloads
        BY <2>1, HalfFacts DEF LoopSound, BoardSound, SavedSound, Loads
      <4> QED
        BY <4>1, NoneIsNoPairResult DEF PairPayloads
    <3>5. \A h \in Halves : routed'[h] = None => routed[h] = None
      BY <2>1, <3>1, <3>4 DEF RestoreNet, Relay, Assign
    <3> QED
      BY <3>2, <3>3, <3>5
  <2>2. CASE saved[P(x)] # None /\ Collides(saved[P(x)]) /\ SafeStub(saved[P(x)]) # {}
    <3> DEFINE clear == SafeStub(saved[P(x)])
    <3>1. /\ copper' = [copper EXCEPT ![P(x)] = @ \cup clear]
          /\ UNCHANGED <<routed, ids, remaining, named, mapped, results, saved, refused>>
      BY <1>2, <2>2 DEF Terminal
    <3>2. clear \in SUBSET saved[P(x)].res.cells["p"] /\ clear \cap Others(P(x)) = {}
      BY <1>2 DEF SafeStub
    <3> HIDE DEF clear
    <3>3. BoardSound'
      BY <2>2, <3>1, <3>2, StubIsSound DEF LoopSound
    <3> QED
      BY <3>1, <3>3
  <2>3. CASE UNCHANGED boardVars
    BY <2>3, BoardStaysSound DEF LoopSound, boardVars, books
  <2>4. \/ saved[P(x)] # None /\ ~Collides(saved[P(x)])
        \/ saved[P(x)] # None /\ Collides(saved[P(x)]) /\ SafeStub(saved[P(x)]) # {}
        \/ UNCHANGED boardVars
    BY <1>2 DEF Terminal
  <2> QED
    BY <2>1, <2>2, <2>3, <2>4
<1>5. frame' = Idle /\ entry' = None /\ frame' \in FrameType /\ FrameShape'
  BY <1>1, DoneIsSound
<1>6. HandSound' /\ VictimIds = {}
  BY <1>1, <1>5, EmptyHand, NoVictims DEF LoopSound
<1>7. LinesSound'
  BY <1>1 DEF LinesSound
<1>8. NoPairForgotten'
  BY <1>1, <1>4, <1>6 DEF LoopSound, NoPairForgotten
<1> QED
  BY <1>4, <1>5, <1>6, <1>7, <1>8 DEF LoopSound

----------------------------------------------------------------------------
(* The steps between two pairs.                                            *)
LEMMA BookIsBefore ==
  ASSUME BoardSound
  PROVE  Book = Before({})
<1>1. /\ copper = [h \in Halves |-> copper[h]] /\ routed = [h \in Halves |-> routed[h]]
  BY DEF BoardSound, BoardTypes
<1>2. /\ [h \in Halves |-> IF Pair(h) \in {} THEN copper[h] \cup Old(h) ELSE copper[h]] = copper
      /\ [h \in Halves |-> IF Pair(h) \in {} THEN saved[h].res ELSE routed[h]] = routed
  BY <1>1
<1>3. /\ ids \cup {h \in Halves : Pair(h) \in {}} = ids
      /\ remaining \ {h \in Halves : Pair(h) \in {}} = remaining
      /\ {part[1] : part \in results} \cup {saved[P(x)].res : x \in {}}
           = {part[1] : part \in results}
  OBVIOUS
<1> QED
  BY <1>2, <1>3, Zenon DEF Book, Before

LEMMA TakenInHand ==
  ASSUME BoardSound, NEW x \in Pairs, routed[P(x)] = None, UNCHANGED boardVars,
         NEW stage \in Stages, frame' = Taken(x, stage), entry' = Book
  PROVE  HandSound' /\ Victims' = {} /\ VictimIds' = {} /\ X' = x
<1>1. frame'.ripped = <<>> /\ frame'.pair = x
  BY FreshFrames DEF Stages
<1>2. Victims' = {} /\ VictimIds' = {} /\ X' = x
  BY <1>1 DEF Victims, VictimIds, X
<1>3. HeldSound(Victims)'
  BY <1>2 DEF HeldSound
<1>4. entry' = Before(Victims)'
  <2>1. entry' = Before({})
    BY BookIsBefore
  <2>2. Before(Victims)' = Before({})'
    BY <1>2 DEF Before
  <2> QED
    BY SMTT(60), <2>1, <2>2, HeldStays, <1>3 DEF HeldSound, Before, boardVars, books, Old
<1>5. routed'[P(x)] = None
  BY DEF boardVars, books
<1> QED
  BY <1>1, <1>2, <1>3, <1>4, <1>5 DEF HandSound

(* What a pair taken from a line finds of its own.                         *)
LEMMA TakePairIsSound ==
  ASSUME LoopSound, TakePair
  PROVE  LoopSound' /\ QuietStepped
<1>1. /\ phase = "pairs" /\ pc = "loop" /\ todo # <<>> /\ todo' = Tail(todo)
      /\ frame' = Taken(Head(todo), "graze") /\ entry' = Book
      /\ pc' = IF Head(todo) \in Chained THEN "chain" ELSE "search"
      /\ UNCHANGED <<boardVars, phase, queue, queued, custody, deferred>>
  BY DEF TakePair, Take, Goto
<1>2. /\ todo \in Seq(Pairs) /\ queue \in Seq(Pairs) /\ IsInjective(todo)
      /\ ToSet(todo) \cap ToSet(queue) = {}
      /\ \A x \in Listed : routed[P(x)] = None
      /\ \A x \in Pairs : P(x) \in queued => x \in ToSet(queue)
  BY <1>1 DEF LoopSound, LinesSound
<1>3. /\ Head(todo) \in Pairs /\ Tail(todo) \in Seq(Pairs)
      /\ ToSet(todo) = {Head(todo)} \cup ToSet(Tail(todo))
      /\ IsInjective(Tail(todo)) /\ Head(todo) \notin ToSet(Tail(todo))
  BY <1>1, <1>2, Taking
<1>4. PICK x \in Pairs : x = Head(todo)
  BY <1>3
<1>5. routed[P(x)] = None /\ x \notin ToSet(queue)
  BY <1>2, <1>3, <1>4 DEF Listed
<1>6. BoardSound'
  BY <1>1, BoardStaysSound DEF LoopSound
<1>7. HandSound' /\ Victims' = {} /\ VictimIds' = {} /\ X' = x
  BY <1>1, <1>4, <1>5, TakenInHand DEF LoopSound, Stages
<1>8. frame.ripped = <<>> /\ X = None
  BY <1>1, FreshFrames DEF LoopSound, FrameShape, X
<1>9. frame' \in FrameType /\ FrameShape'
  <2>1. /\ frame' \in FrameType /\ frame'.pair = x /\ frame'.ripped = <<>>
        /\ frame'.stage = "graze" /\ frame'.level = 0 /\ frame'.cursor = 0
        /\ frame'.says.is = "fail"
    BY <1>1, <1>4, FreshFrames DEF Stages
  <2> QED
    BY <1>1, <2>1 DEF FrameShape, X
<1>10. routed' = routed /\ saved' = saved
  BY <1>1 DEF boardVars, books
<1>11. LinesSound'
  <2>1. todo' \in Seq(Pairs) /\ queue' \in Seq(Pairs) /\ IsInjective(todo')
    BY <1>1, <1>2, <1>3
  <2>2. ToSet(todo') \cap ToSet(queue') = {} /\ x \notin Listed' /\ Listed' \subseteq Listed
    BY <1>1, <1>2, <1>3, <1>4, <1>5 DEF Listed
  <2> QED
    BY <1>1, <1>2, <1>7, <1>10, <2>1, <2>2 DEF LinesSound
<1>12. NoPairForgotten'
  <2> SUFFICES ASSUME NEW h \in Halves, saved'[h] # None, routed'[h] = None
      PROVE custody'[h] = saved'[h] /\ Awaiting(Pair(h))'
    BY DEF NoPairForgotten
  <2>1. h \notin VictimIds
    BY <1>8, NoVictims
  <2>2. custody[h] = saved[h] /\ Awaiting(Pair(h)) /\ Pair(h) # None
    BY <1>1, <1>10, <2>1, HalfFacts, PairAssumption DEF LoopSound, NoPairForgotten
  <2>3. Awaiting(Pair(h))'
    <3>1. Pair(h) \in ToSet(todo) \cup ToSet(queue) \cup deferred
      BY <1>8, <2>2 DEF Awaiting
    <3> QED
      BY <1>1, <1>3, <1>4, <1>7, <3>1 DEF Awaiting
  <2> QED
    BY <1>1, <1>10, <2>2, <2>3
<1>13. QuietStepped
  BY <1>1, <1>4, <1>8, FreshFrames DEF QuietStepped, Stages
<1> QED
  BY <1>6, <1>7, <1>9, <1>11, <1>12, <1>13 DEF LoopSound

LEMMA TakeRerouteIsSound ==
  ASSUME LoopSound, TakeReroute
  PROVE  LoopSound' /\ QuietStepped
<1>1. /\ phase = "reroute" /\ pc = "loop" /\ phase' = phase
      /\ UNCHANGED <<boardVars, custody>>
  BY DEF TakeReroute, Rerouting
<1>2. PICK x \in Pairs :
        IF IsRouted(x) THEN UNCHANGED <<pc, frame, entry>>
        ELSE Take(Taken(x, "ladder"), "search")
  BY DEF TakeReroute
<1>3. BoardSound' /\ routed' = routed /\ saved' = saved
  BY <1>1, BoardStaysSound DEF LoopSound, boardVars, books
<1>4. LinesSound'
  BY <1>1 DEF LinesSound
<1>5. frame = Idle /\ entry = None /\ frame.ripped = <<>> /\ VictimIds = {}
  BY <1>1, FreshFrames, NoVictims DEF LoopSound, FrameShape
<1>6. NoPairForgotten'
  BY <1>1, <1>3, <1>5 DEF LoopSound, NoPairForgotten
<1>7. CASE IsRouted(x)
  <2>1. frame' = Idle /\ entry' = None /\ pc' = pc /\ frame' = frame
    BY <1>2, <1>5, <1>7
  <2>2. HandSound'
    BY <2>1, EmptyHand DEF LoopSound
  <2>3. FrameShape' /\ frame' \in FrameType
    BY <1>1, <2>1 DEF LoopSound, FrameShape, X
  <2> QED
    BY <1>1, <1>3, <1>4, <1>6, <2>1, <2>2, <2>3 DEF LoopSound, QuietStepped
<1>8. CASE ~IsRouted(x)
  <2>1. frame' = Taken(x, "ladder") /\ entry' = Book /\ pc' = "search"
    BY <1>2, <1>8 DEF Take, Goto
  <2>2. routed[P(x)] = None
    <3>1. PICK h \in HalvesOf(x) : routed[h] = None
      BY <1>8 DEF IsRouted
    <3> QED
      BY <3>1, HalfFacts DEF LoopSound, BoardSound, PairBooksAgree
  <2>3. HandSound'
    BY <1>1, <2>1, <2>2, TakenInHand DEF LoopSound, Stages
  <2>4. frame' \in FrameType /\ FrameShape'
    <3>1. /\ frame' \in FrameType /\ frame'.pair = x /\ frame'.ripped = <<>>
          /\ frame'.stage = "ladder" /\ frame'.level = 0 /\ frame'.cursor = 0
          /\ frame'.says.is = "fail" /\ Len(frame'.ripped) = 0
      BY <2>1, FreshFrames DEF Stages
    <3> QED
      BY <2>1, <3>1 DEF FrameShape, X
  <2>5. QuietStepped
    BY <1>1, <1>5, <2>1, FreshFrames DEF QuietStepped, Stages
  <2> QED
    BY <1>3, <1>4, <1>6, <2>3, <2>4, <2>5 DEF LoopSound
<1> QED
  BY <1>7, <1>8

LEMMA PhaseEndsIsSound ==
  ASSUME LoopSound, PairsDone \/ ReroutesDone \/ Cancel
  PROVE  LoopSound' /\ QuietStepped
<1>1. /\ phase' # "pairs"
      /\ UNCHANGED <<boardVars, pc, frame, entry, todo, queue, queued, custody, deferred>>
  BY DEF PairsDone, ReroutesDone, Cancel
<1>2. BoardSound' /\ routed' = routed /\ saved' = saved
  BY <1>1, BoardStaysSound DEF LoopSound, boardVars, books
<1>3. LinesSound'
  BY <1>1 DEF LinesSound
<1>4. Victims' = Victims /\ VictimIds' = VictimIds /\ X' = X
  BY <1>1 DEF Victims, VictimIds, X
<1>5. NoPairForgotten'
  BY <1>1, <1>2, <1>4 DEF LoopSound, NoPairForgotten
<1>6. FrameShape' /\ frame' \in FrameType
  BY <1>1, <1>4 DEF LoopSound, FrameShape
<1>7. HandSound'
  <2>1. PICK V : V = Victims
    OBVIOUS
  <2>2. HeldSound(V)' /\ Before(V)' = Before(V)
    BY <1>1, <2>1, HeldStays DEF LoopSound, HandSound
  <2>3. HeldSound(Victims)'
    BY <1>4, <2>1, <2>2 DEF HeldSound
  <2>4. entry' # None => entry' = Before(Victims)'
    <3>1. entry' = entry /\ (entry # None => entry = Before(V))
      BY <1>1, <2>1 DEF LoopSound, HandSound
    <3>2. Before(Victims)' = Before(V)'
      BY <1>4, <2>1 DEF Before
    <3> QED
      BY <2>2, <3>1, <3>2
  <2> QED
    BY <1>1, <1>2, <1>4, <2>3, <2>4 DEF LoopSound, HandSound
<1> QED
  BY <1>1, <1>2, <1>3, <1>5, <1>6, <1>7 DEF LoopSound, QuietStepped

LEMMA StutterIsSound ==
  ASSUME LoopSound, UNCHANGED vars
  PROVE  LoopSound' /\ QuietStepped
<1>1. UNCHANGED <<boardVars, phase, pc, frame, entry, todo, queue, queued, custody, deferred>>
  BY DEF vars, loopVars
<1>2. FrameShape' /\ frame' \in FrameType
  BY <1>1 DEF LoopSound, FrameShape, X
<1> QED
  BY <1>1, <1>2, QuietStep DEF LoopSound, QuietStepped

----------------------------------------------------------------------------
(* The invariant of the loops.                                             *)
LEMMA InitIsSound ==
  ASSUME Init
  PROVE  LoopSound
<1>1. BoardSound
  BY BoardInitIsSound DEF Init
<1>2. /\ frame = Idle /\ entry = None /\ pc = "loop" /\ phase = "pairs"
      /\ todo = Order /\ queue = <<>> /\ queued = {}
      /\ \A h \in Halves : saved[h] = None /\ routed[h] = None
  BY DEF Init, BoardInit
<1>3. frame.ripped = <<>> /\ frame.pair = None /\ frame \in FrameType
  BY <1>2, FreshFrames
<1>4. FrameShape
  <2>1. Idle.stage = "none" /\ Idle.says.is = "fail"
    BY DEF Idle, Failed
  <2> QED
    BY <1>2, <2>1 DEF FrameShape
<1>5. Victims = {} /\ X = None
  BY <1>3 DEF Victims, X
<1>6. HandSound
  <2>1. HeldSound(Victims)
    BY <1>5 DEF HeldSound
  <2> QED
    BY <1>2, <1>3, <1>5, <2>1 DEF HandSound
<1>7. LinesSound
  <2>1. /\ todo \in Seq(Pairs) /\ IsInjective(todo)
        /\ queue \in Seq(Pairs) /\ ToSet(queue) = {}
    BY <1>2, LoopAssumption DEF ToSet
  <2>2. Listed \subseteq Pairs
    BY <2>1 DEF Listed, ToSet
  <2>3. \A x \in Listed : routed[P(x)] = None /\ x # None
    BY <1>2, <2>2, HalfFacts, PairAssumption
  <2> QED
    BY <1>2, <1>5, <2>1, <2>3 DEF LinesSound
<1>8. NoPairForgotten
  BY <1>2 DEF NoPairForgotten
<1> QED
  BY <1>1, <1>3, <1>4, <1>6, <1>7, <1>8 DEF LoopSound

LEMMA StepIsSound ==
  ASSUME LoopSound, [Next]_vars
  PROVE  /\ LoopSound'
         /\ QuietStepped \/ RipStepped \/ RestoreStepped \/ LandStepped \/ Terminal
<1>1. CASE TakePair
  BY <1>1, TakePairIsSound
<1>2. CASE ChainLands
  BY <1>2, ChainLandsIsSound
<1>3. CASE ChainDefers \/ Defer
  BY <1>3, DeferIsSound
<1>4. CASE GrazeLands
  BY <1>4, GrazeLandsIsSound
<1>5. CASE ProbeLands \/ LadderLands
  BY <1>5, QueuedLandsIsSound
<1>6. CASE SearchFails
  BY <1>6, SearchFailsIsSound
<1>7. CASE GrazeRips
  BY <1>7, GrazeRipsIsSound
<1>8. CASE GrazeEnds
  BY <1>8, GrazeEndsIsSound
<1>9. CASE PutBack
  BY <1>9, PutBackIsSound
<1>10. CASE ProbeRips
  BY <1>10, ProbeRipsIsSound
<1>11. CASE ProbeEnds
  BY <1>11, ProbeEndsIsSound
<1>12. CASE OpenLadder
  BY <1>12, OpenLadderIsSound
<1>13. CASE NoLadder
  BY <1>13, NoLadderIsSound
<1>14. CASE OutOfBlockers
  BY <1>14, OutOfBlockersIsSound
<1>15. CASE SkipLevel
  BY <1>15, SkipLevelIsSound
<1>16. CASE LadderRips
  BY <1>16, LadderRipsIsSound
<1>17. CASE NextLevel
  BY <1>17, NextLevelIsSound
<1>18. CASE Unwind
  BY <1>18, UnwindIsSound
<1>19. CASE HybridLands
  BY <1>19, HybridLandsIsSound
<1>20. CASE Terminal
  BY <1>20, TerminalIsSound
<1>21. CASE TakeReroute
  BY <1>21, TakeRerouteIsSound
<1>22. CASE PairsDone \/ ReroutesDone \/ Cancel
  BY <1>22, PhaseEndsIsSound
<1>23. CASE UNCHANGED vars
  BY <1>23, StutterIsSound
<1> QED
  BY <1>1, <1>2, <1>3, <1>4, <1>5, <1>6, <1>7, <1>8, <1>9, <1>10, <1>11, <1>12, <1>13,
     <1>14, <1>15, <1>16, <1>17, <1>18, <1>19, <1>20, <1>21, <1>22, <1>23
     DEF Next, Step

(* The inductive invariant of both loops, for any pairs, routes, order and *)
(* number of rips.                                                         *)
THEOREM PairLoopIsSound == Spec => []LoopSound
<1>1. Init => LoopSound
  BY InitIsSound
<1>2. LoopSound /\ [Next]_vars => LoopSound'
  BY StepIsSound
<1> QED
  BY <1>1, <1>2, PTL DEF Spec

(* Whatever the loops rip, restore and land, the ledgers of the two halves *)
(* of a pair agree, and the write-list carries each routed pair exactly    *)
(* once, whole or as its legs (rip_up_net and restore_net, #369 A2).       *)
THEOREM PairBooksAlwaysAgree == Spec => []PairBooksAgree
<1>1. LoopSound => PairBooksAgree
  BY DEF LoopSound, BoardSound
<1> QED
  BY <1>1, PairLoopIsSound, PTL

(* A pair whose victims are all back leaves the ledgers as it found them,  *)
(* in each of the three ways the pair loop rips (graze, probe, ladder),    *)
(* and no restore of a victim is ever refused.                             *)
THEOREM FailedPairsLeaveNoTrace == Spec => []FailedPairLeavesNoTrace
<1>1. LoopSound => FailedPairLeavesNoTrace
  <2> SUFFICES ASSUME LoopSound, entry # None, frame.ripped = <<>>
      PROVE Book = entry /\ refused = {}
    BY DEF FailedPairLeavesNoTrace
  <2>1. BoardSound /\ entry = Before(Victims) /\ refused = {}
    BY DEF LoopSound, HandSound, BoardSound
  <2>2. Victims = {}
    BY NoVictims
  <2>3. Before(Victims) = Before({})
    BY <2>2
  <2> QED
    BY <2>1, <2>3, BookIsBefore
<1> QED
  BY <1>1, PairLoopIsSound, PTL

(* A ripped pair that is not routed is held by the pair in hand, or its    *)
(* payload is in custody and, while the pair loop runs, it has a turn.     *)
THEOREM NoPairIsForgotten == Spec => []NoPairForgotten
<1>1. LoopSound => NoPairForgotten
  BY DEF LoopSound
<1> QED
  BY <1>1, PairLoopIsSound, PTL

(* The pair loop never routes a pair that is routed, or one that waits in  *)
(* the reroute queue as well.                                              *)
THEOREM PairsAheadAreOpen == Spec => []PairsAheadAreUnrouted
<1>1. LoopSound => PairsAheadAreUnrouted
  <2> SUFFICES ASSUME LoopSound, phase = "pairs" PROVE PairsAheadAreUnrouted
    BY DEF PairsAheadAreUnrouted
  <2> QED
    BY DEF PairsAheadAreUnrouted, LoopSound, LinesSound, HandSound, Listed
<1> QED
  BY <1>1, PairLoopIsSound, PTL

(* No two halves, of one pair or of two, ever share a cell: every landing  *)
(* is checked against the board, and a restore only returns to cells that  *)
(* nobody took.                                                            *)
THEOREM PairsNeverShort == Spec => []NoPairShort
<1>1. LoopSound => NoPairShort
  BY DEF LoopSound, BoardSound
<1> QED
  BY <1>1, PairLoopIsSound, PTL

----------------------------------------------------------------------------
(***************************************************************************)
(* The pair loops implement EvictionBoard: with the victims of the pair in *)
(* hand counted as present, the board moves only when a pair lands, or     *)
(* when an evicted pair gets its copper back.                              *)
(***************************************************************************)

(* What is known of the copper: a pair that is off the board has nothing   *)
(* but fixed copper there, and every result is one of the routes.          *)
CopperKnown ==
  \A h \in Halves :
    /\ routed[h] = None => copper[h] \subseteq Fixed(h)
    /\ routed[h] # None =>
         /\ routed[h].cells \in PairOptions[Pair(h)]
         /\ copper[h] \subseteq Fixed(h) \cup routed[h].cells[h[2]]
    /\ saved[h] # None => saved[h].res.cells \in PairOptions[Pair(h)]

Cover(h) == copper[h] \cup HeldFor(h)

Committed == Before(Victims)

BarKnown ==
  /\ \A h \in Halves :
       /\ Cover(h) = Committed.copper[h]
       /\ Pair(h) \notin Victims => Cover(h) = copper[h]
       /\ Pair(h) \in Victims => Cover(h) = copper[h] \cup Old(h)
  /\ EvictedPairs = {x \in Pairs : x \notin Victims /\ saved[P(x)] # None
                                     /\ routed[P(x)] = None}

LEMMA BarIsKnown == LoopSound => BarKnown
<1> SUFFICES ASSUME LoopSound PROVE BarKnown
  OBVIOUS
<1>1. \A h \in Halves : h \in VictimIds <=> Pair(h) \in Victims
  BY VictimFacts DEF LoopSound
<1>2. \A h \in Halves : HeldFor(h) = IF Pair(h) \in Victims THEN Old(h) ELSE {}
  BY <1>1 DEF HeldFor, Old
<1>3. \A h \in Halves :
        Committed.copper[h] = IF Pair(h) \in Victims THEN copper[h] \cup Old(h) ELSE copper[h]
  BY DEF Committed, Before
<1>4. \A x \in Pairs : P(x) \in VictimIds <=> x \in Victims
  BY <1>1, HalfFacts
<1> QED
  BY <1>2, <1>3, <1>4 DEF BarKnown, Cover, EvictedPairs

LEMMA BarIsKnownNext == LoopSound' => BarKnown'
  BY BarIsKnown, PTL

(* The abstract board, half by half.                                       *)
BoardRead ==
  /\ \A x \in Pairs : CommittedBoard[x] = UNION {Cover(h) \X {h[2]} : h \in HalvesOf(x)}
  /\ \A x \in Pairs : \A e : e \in CommittedBoard[x] <=>
       \E h \in HalvesOf(x) : \E c \in Cover(h) : e = <<c, h[2]>>
LEMMA BoardIsRead == BoardRead
<1>1. \A x \in Pairs : CommittedBoard[x] = UNION {Cover(h) \X {h[2]} : h \in HalvesOf(x)}
  <2> TAKE x \in Pairs
  <2>1. \A h \in HalvesOf(x) : h \in Halves
    BY HalfFacts
  <2> DEFINE b == [h \in Halves |-> copper[h] \cup HeldFor(h)]
  <2>2. \A h \in HalvesOf(x) : b[h] = Cover(h)
    BY <2>1 DEF Cover
  <2> HIDE DEF b
  <2>3. PairCopper(x, b) = UNION {Cover(h) \X {h[2]} : h \in HalvesOf(x)}
    BY <2>2 DEF PairCopper
  <2> QED
    BY <2>3 DEF CommittedBoard, b
<1> QED
  BY <1>1 DEF BoardRead

LEMMA BoardIsReadNext == BoardRead'
  BY BoardIsRead, PTL

LEMMA BoardStands ==
  ASSUME NEW x \in Pairs, \A h \in HalvesOf(x) : Cover(h)' = Cover(h)
  PROVE  CommittedBoard'[x] = CommittedBoard[x]
<1>1. CommittedBoard[x] = UNION {Cover(h) \X {h[2]} : h \in HalvesOf(x)}
  BY BoardIsRead DEF BoardRead
<1>2. CommittedBoard'[x] = UNION {Cover(h)' \X {h[2]} : h \in HalvesOf(x)}
  BY BoardIsReadNext DEF BoardRead
<1> QED
  BY <1>1, <1>2

LEMMA BoardGrows ==
  ASSUME NEW x \in Pairs, \A h \in HalvesOf(x) : Cover(h) \subseteq Cover(h)'
  PROVE  CommittedBoard[x] \subseteq CommittedBoard'[x]
<1>1. CommittedBoard[x] = UNION {Cover(h) \X {h[2]} : h \in HalvesOf(x)}
  BY BoardIsRead DEF BoardRead
<1>2. CommittedBoard'[x] = UNION {Cover(h)' \X {h[2]} : h \in HalvesOf(x)}
  BY BoardIsReadNext DEF BoardRead
<1> QED
  BY <1>1, <1>2

LEMMA BoardShrinks ==
  ASSUME NEW x \in Pairs, \A h \in HalvesOf(x) : Cover(h)' \subseteq Cover(h)
  PROVE  CommittedBoard'[x] \subseteq CommittedBoard[x]
<1>1. CommittedBoard[x] = UNION {Cover(h) \X {h[2]} : h \in HalvesOf(x)}
  BY BoardIsRead DEF BoardRead
<1>2. CommittedBoard'[x] = UNION {Cover(h)' \X {h[2]} : h \in HalvesOf(x)}
  BY BoardIsReadNext DEF BoardRead
<1> QED
  BY <1>1, <1>2

(* A cell that only the one or only the other board has.                   *)
LEMMA BoardCell ==
  ASSUME NEW x \in Pairs, NEW h \in HalvesOf(x), NEW c
  PROVE  /\ c \in Cover(h) <=> <<c, h[2]>> \in CommittedBoard[x]
         /\ c \in Cover(h)' <=> <<c, h[2]>> \in CommittedBoard'[x]
<1>1. \A k \in HalvesOf(x) : k[2] = h[2] => k = h
  BY HalfFacts
<1>2. <<c, h[2]>> \in CommittedBoard[x] <=>
        \E k \in HalvesOf(x) : \E d \in Cover(k) : <<c, h[2]>> = <<d, k[2]>>
  BY BoardIsRead DEF BoardRead
<1>3. <<c, h[2]>> \in CommittedBoard'[x] <=>
        \E k \in HalvesOf(x) : \E d \in Cover(k)' : <<c, h[2]>> = <<d, k[2]>>
  BY BoardIsReadNext DEF BoardRead
<1> QED
  BY <1>1, <1>2, <1>3

(* The board a sound state stands for is well formed.                      *)
WellFormed ==
  /\ CommittedBoard \in [Pairs -> SUBSET (Cells \X Sides)]
  /\ Eviction!Disjoint(CommittedBoard)
EmptyHanded == Victims = {}
LEMMA EmptyHandedBoard == LoopSound /\ EmptyHanded => WellFormed
<1> SUFFICES ASSUME LoopSound, Victims = {} PROVE WellFormed
  BY DEF EmptyHanded
<1>1. \A h \in Halves : Cover(h) = copper[h] /\ copper[h] \subseteq Cells
  <2>1. BarKnown /\ copper \in [Halves -> SUBSET Cells]
    <3>1. BarKnown
      BY BarIsKnown
    <3> QED
      BY <3>1 DEF LoopSound, BoardSound, BoardTypes
  <2> TAKE h \in Halves
  <2>2. Cover(h) = copper[h]
    BY <2>1 DEF BarKnown
  <2>3. copper[h] \subseteq Cells
    BY <2>1
  <2> QED
    BY <2>2, <2>3
<1>2. \A x \in Pairs : CommittedBoard[x] \subseteq Cells \X Sides
  <2> SUFFICES ASSUME NEW x \in Pairs, NEW e \in CommittedBoard[x] PROVE e \in Cells \X Sides
    OBVIOUS
  <2>1. PICK h \in HalvesOf(x) : \E c \in Cover(h) : e = <<c, h[2]>>
    BY BoardIsRead DEF BoardRead
  <2>2. h \in Halves /\ h[2] \in Sides
    BY HalfFacts
  <2> QED
    BY <1>1, <2>1, <2>2
<1>3. CommittedBoard \in [Pairs -> SUBSET (Cells \X Sides)]
  <2>1. CommittedBoard = [x \in Pairs |-> CommittedBoard[x]]
    BY DEF CommittedBoard
  <2> QED
    BY <1>2, <2>1
<1>4. ASSUME NEW x \in Pairs, NEW y \in Pairs, x # y
      PROVE  CommittedBoard[x] \cap CommittedBoard[y] = {}
  <2> SUFFICES ASSUME NEW e \in CommittedBoard[x], e \in CommittedBoard[y] PROVE FALSE
    OBVIOUS
  <2>1. PICK h \in HalvesOf(x) : \E c \in Cover(h) : e = <<c, h[2]>>
    BY BoardIsRead DEF BoardRead
  <2>2. PICK k \in HalvesOf(y) : \E c \in Cover(k) : e = <<c, k[2]>>
    BY BoardIsRead DEF BoardRead
  <2>3. h \in Halves /\ k \in Halves /\ h # k
    BY <1>4, HalfFacts
  <2>4. copper[h] \cap copper[k] = {}
    BY <2>3 DEF LoopSound, BoardSound, NoPairShort
  <2> QED
    BY <1>1, <2>1, <2>2, <2>3, <2>4
<1> QED
  BY <1>3, <1>4 DEF WellFormed, Eviction!Disjoint

LEMMA EmptyHandedBoardNext == LoopSound' /\ EmptyHanded' => WellFormed'
  BY EmptyHandedBoard, PTL

----------------------------------------------------------------------------
(* Steps that the abstract board does not see.                             *)
Unseen == UNCHANGED <<CommittedBoard, EvictedPairs>>

LEMMA CoversStand ==
  ASSUME \A h \in Halves : Cover(h)' = Cover(h), EvictedPairs' = EvictedPairs
  PROVE  Unseen
<1>1. \A x \in Pairs : CommittedBoard'[x] = CommittedBoard[x]
  BY BoardStands, HalfFacts
<1>2. /\ CommittedBoard = [x \in Pairs |-> CommittedBoard[x]]
      /\ CommittedBoard' = [x \in Pairs |-> CommittedBoard'[x]]
  BY DEF CommittedBoard
<1> QED
  BY <1>1, <1>2 DEF Unseen

LEMMA QuietIsUnseen ==
  ASSUME QuietStepped
  PROVE  Unseen
<1>1. VictimIds' = VictimIds /\ copper' = copper /\ routed' = routed /\ saved' = saved
  BY DEF QuietStepped, VictimIds, boardVars, books
<1>2. \A h \in Halves : Cover(h)' = Cover(h)
  BY <1>1 DEF Cover, HeldFor
<1>3. EvictedPairs' = EvictedPairs
  BY <1>1 DEF EvictedPairs
<1> QED
  BY <1>2, <1>3, CoversStand

LEMMA RipIsUnseen ==
  ASSUME LoopSound, LoopSound', RipStepped
  PROVE  Unseen
<1>1. PICK h \in Halves : routed[h] # None /\ RipsFor(h)
  BY DEF RipStepped
<1>2. BoardSound /\ frame \in FrameType /\ HandSound
  BY DEF LoopSound
<1>3. /\ Victims' = Victims \cup {Pair(h)} /\ Pair(h) \notin Victims
      /\ \A k \in Halves : IF Pair(k) = Pair(h)
           THEN routed'[k] = None /\ saved'[k] = Payload(h)
           ELSE routed'[k] = routed[k] /\ saved'[k] = saved[k]
  BY <1>1, <1>2, RipVictims
<1>4. PICK V : V = Victims
  OBVIOUS
<1>5. Before(V \cup {Pair(h)})' = Before(V)
  BY <1>1, <1>2, <1>4, RipIsUndone DEF HandSound, RipsFor
<1>6. Committed' = Committed
  <2>1. Committed' = Before(V \cup {Pair(h)})'
    BY <1>3, <1>4 DEF Committed, Before
  <2> QED
    BY <1>4, <1>5, <2>1 DEF Committed
<1>7. BarKnown /\ BarKnown'
  BY BarIsKnown, BarIsKnownNext
<1>8. \A k \in Halves : Cover(k)' = Cover(k)
  BY <1>6, <1>7 DEF BarKnown
<1>9. EvictedPairs' = EvictedPairs
  <2>1. routed[P(Pair(h))] # None
    BY <1>1, <1>2, RoutedHalf, HalfFacts
  <2>2. ASSUME NEW x \in Pairs
        PROVE  x \notin Victims' /\ saved'[P(x)] # None /\ routed'[P(x)] = None <=>
               x \notin Victims /\ saved[P(x)] # None /\ routed[P(x)] = None
    <3>1. P(x) \in Halves /\ Pair(P(x)) = x
      BY HalfFacts
    <3> QED
      BY <1>3, <2>1, <3>1
  <2> QED
    BY <1>7, <2>2 DEF BarKnown
<1> QED
  BY <1>8, <1>9, CoversStand

LEMMA RestoreIsUnseen ==
  ASSUME LoopSound, LoopSound', RestoreStepped
  PROVE  Unseen
<1>1. PICK x \in Victims : \E W \in {{Whole(saved[P(x)].res)}, Written(saved[P(x)].res)} :
        frame.ripped # <<>> /\ x = Last(frame.ripped).res.pair /\ RestoresFor(x, W)
  BY DEF RestoreStepped
<1>2. PICK W \in {{Whole(saved[P(x)].res)}, Written(saved[P(x)].res)} : RestoresFor(x, W)
  BY <1>1
<1>3. BoardSound /\ frame \in FrameType /\ HandSound
  BY DEF LoopSound
<1>4. /\ Victims' = Victims \ {x} /\ x \in Pairs
      /\ \A h \in Halves : IF Pair(h) = x THEN routed'[h] # None
           ELSE routed'[h] = routed[h] /\ saved'[h] = saved[h]
  BY <1>1, <1>2, <1>3, RestoreVictims
<1>5. PICK V : V = Victims
  OBVIOUS
<1>6. Before(V \ {x})' = Before(V)
  BY <1>1, <1>2, <1>3, <1>5, RestoreUndoes DEF HandSound, RestoresFor
<1>7. Committed' = Committed
  <2>1. Committed' = Before(V \ {x})'
    BY <1>4, <1>5 DEF Committed, Before
  <2> QED
    BY <1>5, <1>6, <2>1 DEF Committed
<1>8. BarKnown /\ BarKnown'
  BY BarIsKnown, BarIsKnownNext
<1>9. \A k \in Halves : Cover(k)' = Cover(k)
  BY <1>7, <1>8 DEF BarKnown
<1>10. EvictedPairs' = EvictedPairs
  <2>1. ASSUME NEW y \in Pairs
        PROVE  y \notin Victims' /\ saved'[P(y)] # None /\ routed'[P(y)] = None <=>
               y \notin Victims /\ saved[P(y)] # None /\ routed[P(y)] = None
    <3>1. P(y) \in Halves /\ Pair(P(y)) = y
      BY HalfFacts
    <3> QED
      BY <1>1, <1>4, <3>1
  <2> QED
    BY <1>8, <2>1 DEF BarKnown
<1> QED
  BY <1>9, <1>10, CoversStand

----------------------------------------------------------------------------
(* What is known of the copper stays known.                                *)
LEMMA QuietKnows ==
  ASSUME CopperKnown, UNCHANGED <<copper, routed, saved>>
  PROVE  CopperKnown'
  BY DEF CopperKnown

LEMMA RipKnows ==
  ASSUME LoopSound, CopperKnown, RipStepped
  PROVE  CopperKnown'
<1>1. PICK h \in Halves : routed[h] # None /\ RipUp(h)
  BY DEF RipStepped, RipsFor
<1>2. Ripping(h) /\ Payload(h).res = routed[h]
      /\ \A k \in HalvesOf(Pair(h)) : routed[k] = routed[h]
  BY <1>1, RipWrites, RoutedHalf DEF LoopSound
<1> SUFFICES ASSUME NEW k \in Halves
    PROVE  /\ routed'[k] = None => copper'[k] \subseteq Fixed(k)
           /\ routed'[k] # None =>
                /\ routed'[k].cells \in PairOptions[Pair(k)]
                /\ copper'[k] \subseteq Fixed(k) \cup routed'[k].cells[k[2]]
           /\ saved'[k] # None => saved'[k].res.cells \in PairOptions[Pair(k)]
  BY DEF CopperKnown
<1>3. CASE Pair(k) = Pair(h)
  <2>1. k \in HalvesOf(Pair(h)) /\ routed[k] = routed[h]
    BY <1>2, <1>3, HalfFacts
  <2>2. /\ copper'[k] = copper[k] \ routed[h].cells[k[2]]
        /\ routed'[k] = None /\ saved'[k] = Payload(h)
    BY <1>2, <1>3 DEF Ripping
  <2>3. /\ routed[k].cells \in PairOptions[Pair(k)]
        /\ copper[k] \subseteq Fixed(k) \cup routed[k].cells[k[2]]
    BY <1>1, <2>1 DEF CopperKnown
  <2> QED
    BY <1>2, <2>1, <2>2, <2>3
<1>4. CASE Pair(k) # Pair(h)
  BY <1>2, <1>4 DEF Ripping, CopperKnown
<1> QED
  BY <1>3, <1>4

(* A result comes to a pair that is off the board.                         *)
LEMMA LayingKnows ==
  ASSUME CopperKnown, NEW x \in Pairs, NEW res, res # None, res.cells \in PairOptions[x],
         \A h \in Halves : Pair(h) = x => routed[h] = None,
         \A h \in Halves : copper'[h] = IF Pair(h) = x THEN copper[h] \cup res.cells[h[2]]
                                                      ELSE copper[h],
         \A h \in Halves : routed'[h] = IF Pair(h) = x THEN res ELSE routed[h],
         \A h \in Halves : saved'[h] # None => saved'[h] = saved[h]
  PROVE  CopperKnown'
<1> SUFFICES ASSUME NEW k \in Halves
    PROVE  /\ routed'[k] = None => copper'[k] \subseteq Fixed(k)
           /\ routed'[k] # None =>
                /\ routed'[k].cells \in PairOptions[Pair(k)]
                /\ copper'[k] \subseteq Fixed(k) \cup routed'[k].cells[k[2]]
           /\ saved'[k] # None => saved'[k].res.cells \in PairOptions[Pair(k)]
  BY DEF CopperKnown
<1>1. CASE Pair(k) = x
  <2>1. copper[k] \subseteq Fixed(k)
    BY <1>1 DEF CopperKnown
  <2> QED
    BY <1>1, <2>1 DEF CopperKnown
<1>2. CASE Pair(k) # x
  BY <1>2 DEF CopperKnown
<1> QED
  BY <1>1, <1>2

LEMMA UnroutedPair ==
  ASSUME BoardSound, NEW x \in Pairs, routed[P(x)] = None
  PROVE  \A h \in Halves : Pair(h) = x => routed[h] = None
  BY HalfFacts DEF BoardSound, PairBooksAgree

LEMMA RestoreKnows ==
  ASSUME LoopSound, CopperKnown, RestoreStepped
  PROVE  CopperKnown'
<1>1. PICK x \in Victims : \E W \in {{Whole(saved[P(x)].res)}, Written(saved[P(x)].res)} :
        RestoresFor(x, W)
  BY DEF RestoreStepped
<1>2. PICK W : Restoring(x, W)
  BY <1>1 DEF RestoresFor
<1>3. PICK V : V = Victims
  OBVIOUS
<1>4. /\ x \in Pairs /\ routed[P(x)] = None
      /\ saved[P(x)] \in Loads /\ saved[P(x)].res.pair = x
  BY <1>3, HeldFits DEF LoopSound, HandSound
<1> DEFINE res == saved[P(x)].res
<1>5. P(x) \in Halves /\ Pair(P(x)) = x
  BY <1>4, HalfFacts
<1>6. saved[P(x)].ids = HalvesOf(x) /\ res # None /\ res.cells \in PairOptions[x]
  <2>1. saved[P(x)] # None
    BY <1>4, NoneIsNoPairResult DEF Loads
  <2>2. res.cells \in PairOptions[x]
    BY <1>5, <2>1 DEF CopperKnown
  <2>3. res # None /\ saved[P(x)].ids = HalvesOf(x)
    BY <1>4, NoneIsNoPairResult DEF Loads, PairPayloads
  <2> QED
    BY <2>2, <2>3
<1>7. Relay(saved[P(x)])
  BY <1>2 DEF Restoring
<1>8. \A h \in Halves : copper'[h] = IF Pair(h) = x THEN copper[h] \cup res.cells[h[2]]
                                                   ELSE copper[h]
  BY <1>4, <1>7 DEF Relay, Lay
<1>9. \A h \in Halves : routed'[h] = IF Pair(h) = x THEN res ELSE routed[h]
  BY <1>4, <1>6, <1>7, HalfFacts DEF Relay, Assign
<1>10. \A h \in Halves : saved'[h] # None => saved'[h] = saved[h]
  BY <1>2 DEF Restoring
<1>11. \A h \in Halves : Pair(h) = x => routed[h] = None
  BY <1>4, UnroutedPair DEF LoopSound
<1> HIDE DEF res
<1> QED
  BY <1>4, <1>6, <1>8, <1>9, <1>10, <1>11, LayingKnows

(* A landing, in terms of the route.                                       *)
Landing(x, r) ==
  /\ x = X /\ routed[P(x)] = None /\ x \notin Victims /\ frame' = Idle
  /\ \A h \in Halves : copper'[h] = IF Pair(h) = x THEN copper[h] \cup r[h[2]] ELSE copper[h]
  /\ \A h \in Halves : Pair(h) # x => routed'[h] = routed[h]
  /\ \A h \in Halves : Pair(h) = x => routed'[h] # None /\ routed'[h].cells = r
  /\ saved' = saved

LEMMA LandWrites ==
  ASSUME LoopSound, LandStepped
  PROVE  \E x \in Pairs : \E r \in PairOptions[x] : Landing(x, r)
<1>1. PICK x \in Pairs : x = X /\ Lands(x)
  BY DEF LandStepped
<1>2. PICK r \in FreeRoutes(x), legs \in Nat, paths \in BOOLEAN :
        RecordPair(Result(x, r, legs, paths))
  BY <1>1 DEF Lands
<1>3. routed[P(x)] = None /\ x \notin Victims
  BY <1>1, PairAssumption DEF LoopSound, HandSound
<1> DEFINE res == Result(x, r, legs, paths)
<1>4. res.pair = x /\ res.cells = r
  BY DEF Result
<1>5. Lay(res) /\ routed' = Assign(HalvesOf(x), res) /\ saved' = saved
  BY <1>2, <1>4 DEF RecordPair
<1>6. /\ \A h \in Halves : Pair(h) # x => routed'[h] = routed[h]
      /\ \A h \in Halves : Pair(h) = x => routed'[h] # None
  BY <1>2, <1>3, LandingIsSound DEF LoopSound
<1>7. \A h \in Halves : Pair(h) = x => routed'[h] = res
  BY <1>5, HalfFacts DEF Assign
<1>8. \A h \in Halves : copper'[h] = IF Pair(h) = x THEN copper[h] \cup r[h[2]] ELSE copper[h]
  BY <1>4, <1>5 DEF Lay
<1>9. r \in PairOptions[x]
  BY DEF FreeRoutes
<1> HIDE DEF res
<1>10. \A h \in Halves : Pair(h) = x => routed'[h] # None /\ routed'[h].cells = r
  BY <1>4, <1>6, <1>7
<1> QED
  BY ZenonT(40), <1>1, <1>3, <1>5, <1>6, <1>8, <1>9, <1>10 DEF Lands, Landing

LEMMA LandKnows ==
  ASSUME LoopSound, CopperKnown, LandStepped
  PROVE  CopperKnown'
<1>1. PICK x \in Pairs : \E r \in PairOptions[x] : Landing(x, r)
  BY LandWrites
<1>2. PICK r \in PairOptions[x] : Landing(x, r)
  BY <1>1
<1>3. \A h \in Halves : Pair(h) = x => routed[h] = None
  BY <1>2, UnroutedPair DEF LoopSound, Landing
<1> SUFFICES ASSUME NEW k \in Halves
    PROVE  /\ routed'[k] = None => copper'[k] \subseteq Fixed(k)
           /\ routed'[k] # None =>
                /\ routed'[k].cells \in PairOptions[Pair(k)]
                /\ copper'[k] \subseteq Fixed(k) \cup routed'[k].cells[k[2]]
           /\ saved'[k] # None => saved'[k].res.cells \in PairOptions[Pair(k)]
  BY DEF CopperKnown
<1>4. CASE Pair(k) = x
  <2>1. copper[k] \subseteq Fixed(k)
    BY <1>3, <1>4 DEF CopperKnown
  <2> QED
    BY <1>2, <1>4, <2>1 DEF CopperKnown, Landing
<1>5. CASE Pair(k) # x
  BY <1>2, <1>5 DEF CopperKnown, Landing
<1> QED
  BY <1>4, <1>5

LEMMA TerminalKnows ==
  ASSUME LoopSound, CopperKnown, Terminal
  PROVE  CopperKnown'
<1>1. PICK x \in Pairs : x = X /\ routed[P(x)] = None
  BY PairAssumption DEF Terminal, LoopSound, FrameShape, HandSound
<1>2. \A h \in Halves : Pair(h) = x => routed[h] = None
  BY <1>1, UnroutedPair DEF LoopSound
<1>3. P(x) \in Halves /\ Pair(P(x)) = x /\ P(x)[2] = "p"
  BY <1>1, HalfFacts DEF P
<1>4. CASE saved[P(x)] # None /\ ~Collides(saved[P(x)])
  <2> DEFINE res == saved[P(x)].res
  <2>1. RestoreNet(saved[P(x)])
    BY <1>1, <1>4 DEF Terminal
  <2>2. saved[P(x)] \in Loads /\ res.pair = x /\ res.cells \in PairOptions[x]
    BY <1>3, <1>4 DEF LoopSound, BoardSound, SavedSound, CopperKnown
  <2>3. saved[P(x)].ids = HalvesOf(x) /\ res # None
    BY <2>2, NoneIsNoPairResult DEF Loads, PairPayloads
  <2>4. Relay(saved[P(x)]) /\ \A h \in Halves : saved'[h] # None => saved'[h] = saved[h]
    BY <1>4, <2>1 DEF RestoreNet
  <2>5. \A h \in Halves : copper'[h] = IF Pair(h) = x THEN copper[h] \cup res.cells[h[2]]
                                                     ELSE copper[h]
    BY <2>2, <2>4 DEF Relay, Lay
  <2>6. \A h \in Halves : routed'[h] = IF Pair(h) = x THEN res ELSE routed[h]
    BY <2>3, <2>4, HalfFacts DEF Relay, Assign
  <2> HIDE DEF res
  <2> QED
    BY <1>2, <2>2, <2>3, <2>4, <2>5, <2>6, LayingKnows
<1>5. CASE saved[P(x)] # None /\ Collides(saved[P(x)]) /\ SafeStub(saved[P(x)]) # {}
  <2>1. /\ copper' = [copper EXCEPT ![P(x)] = @ \cup SafeStub(saved[P(x)])]
        /\ UNCHANGED <<routed, saved>>
    BY <1>1, <1>5 DEF Terminal
  <2>2. SafeStub(saved[P(x)]) \subseteq Fixed(P(x))
    BY <1>1, <1>3 DEF SafeStub, Fixed
  <2>3. copper \in [Halves -> SUBSET Cells]
    BY DEF LoopSound, BoardSound, BoardTypes
  <2>4. /\ copper'[P(x)] = copper[P(x)] \cup SafeStub(saved[P(x)])
        /\ \A h \in Halves \ {P(x)} : copper'[h] = copper[h]
    BY <1>3, <2>1, <2>3
  <2>5. routed[P(x)] = None /\ copper'[P(x)] \subseteq Fixed(P(x))
    BY <1>1, <1>3, <2>2, <2>4 DEF CopperKnown
  <2> QED
    BY <2>1, <2>4, <2>5 DEF CopperKnown
<1>6. CASE UNCHANGED boardVars
  BY <1>6, QuietKnows DEF boardVars, books
<1>7. \/ saved[P(x)] # None /\ ~Collides(saved[P(x)])
      \/ saved[P(x)] # None /\ Collides(saved[P(x)]) /\ SafeStub(saved[P(x)]) # {}
      \/ UNCHANGED boardVars
  BY <1>1 DEF Terminal
<1> QED
  BY <1>4, <1>5, <1>6, <1>7

LEMMA CopperStaysKnown == LoopSound /\ CopperKnown /\ [Next]_vars => CopperKnown'
<1> SUFFICES ASSUME LoopSound, CopperKnown, [Next]_vars PROVE CopperKnown'
  OBVIOUS
<1>1. CASE QuietStepped
  BY <1>1, QuietKnows DEF QuietStepped, boardVars, books
<1> QED
  BY <1>1, StepIsSound, RipKnows, RestoreKnows, LandKnows, TerminalKnows

LEMMA CopperKnownAtFirst == Init => CopperKnown
<1> SUFFICES ASSUME Init PROVE CopperKnown
  OBVIOUS
<1>1. /\ copper = PairStub /\ \A h \in Halves : routed[h] = None /\ saved[h] = None
  BY DEF Init, BoardInit
<1>2. \A h \in Halves : PairStub[h] \subseteq Fixed(h)
  BY DEF Fixed
<1> QED
  BY <1>1, <1>2 DEF CopperKnown

----------------------------------------------------------------------------
(* The steps that the abstract board does see.                             *)
LEMMA LandIsSeen ==
  ASSUME LoopSound, LoopSound', CopperKnown, LandStepped
  PROVE  Eviction!Next
<1>1. PICK x \in Pairs : \E r \in PairOptions[x] : Landing(x, r)
  BY LandWrites
<1>2. PICK r \in PairOptions[x] : Landing(x, r)
  BY <1>1
<1>3. Victims' = {} /\ EmptyHanded'
  <2>1. frame'.ripped = <<>>
    BY <1>2, FreshFrames DEF Landing
  <2> QED
    BY <2>1 DEF Victims, EmptyHanded
<1>4. BarKnown /\ BarKnown' /\ WellFormed'
  BY <1>3, BarIsKnown, BarIsKnownNext, EmptyHandedBoardNext
<1>5. \A h \in Halves : Cover(h)' = copper'[h]
  BY <1>3, <1>4 DEF BarKnown
<1>6. \A h \in Halves : copper[h] \subseteq Cover(h)
  BY DEF Cover
<1>7. \A h \in Halves : Pair(h) = x => routed[h] = None /\ Cover(h) = copper[h]
  BY <1>2, <1>4, UnroutedPair DEF LoopSound, Landing, BarKnown
<1>8. CommittedBoard'[x] \ CommittedBoard[x] # {}
  <2>1. PICK s \in Sides : ~(r[s] \subseteq Fixed(<<x, s>>))
    BY RoutesAreNew
  <2>2. PICK c \in r[s] : c \notin Fixed(<<x, s>>)
    BY <2>1
  <2>3. PICK h \in Halves : h = <<x, s>>
    BY HalfFacts
  <2>4. Pair(h) = x /\ h \in HalvesOf(x) /\ h[2] = s
    BY <2>3, HalfFacts
  <2>5. c \notin Cover(h) /\ c \in Cover(h)'
    <3>1. copper[h] \subseteq Fixed(h) /\ Cover(h) = copper[h]
      BY <1>7, <2>4 DEF CopperKnown
    <3>2. copper'[h] = copper[h] \cup r[s]
      BY <1>2, <2>4 DEF Landing
    <3>3. Cover(h)' = copper'[h]
      BY <1>5
    <3> QED
      BY <2>2, <2>3, <3>1, <3>2, <3>3
  <2>6. <<c, h[2]>> \in CommittedBoard'[x] /\ <<c, h[2]>> \notin CommittedBoard[x]
    BY <2>4, <2>5, BoardCell
  <2> QED
    BY <2>6
<1>9. ASSUME NEW m \in Victims
      PROVE  CommittedBoard'[m] \subseteq CommittedBoard[m] /\ CommittedBoard'[m] # CommittedBoard[m]
  <2>1. m \in Pairs /\ routed[P(m)] = None /\ m # x
    BY <1>2, VictimsAreHeld DEF LoopSound, Landing
  <2>2. \A h \in HalvesOf(m) : h \in Halves /\ Pair(h) = m
    BY <2>1, HalfFacts
  <2>3. \A h \in HalvesOf(m) : Cover(h)' = copper[h]
    BY <1>2, <1>5, <2>1, <2>2 DEF Landing
  <2>4. CommittedBoard'[m] \subseteq CommittedBoard[m]
    BY <1>6, <2>1, <2>2, <2>3, BoardShrinks
  <2>5. saved[P(m)] # None /\ P(m) \in Halves /\ Pair(P(m)) = m
    BY <2>1, HalfFacts DEF LoopSound, HandSound, HeldSound
  <2> DEFINE old == saved[P(m)].res.cells
  <2>6. old \in PairOptions[m]
    BY <2>5 DEF CopperKnown
  <2>7. PICK s \in Sides : ~(old[s] \subseteq Fixed(<<m, s>>))
    BY <2>1, <2>6, RoutesAreNew
  <2>8. PICK c \in old[s] : c \notin Fixed(<<m, s>>)
    BY <2>7
  <2>9. PICK h \in Halves : h = <<m, s>>
    BY <2>1, HalfFacts
  <2>10. Pair(h) = m /\ h \in HalvesOf(m) /\ h[2] = s
    BY <2>1, <2>9, HalfFacts
  <2>11. c \notin Cover(h)'
    <3>1. routed[h] = None
      BY <2>1, <2>10, UnroutedPair DEF LoopSound
    <3>2. copper[h] \subseteq Fixed(h)
      BY <3>1 DEF CopperKnown
    <3> QED
      BY <2>3, <2>8, <2>9, <2>10, <3>2
  <2>12. c \in Cover(h)
    <3>1. saved[h] = saved[P(m)]
      BY <2>10 DEF LoopSound, BoardSound, SavedTogether
    <3>2. c \in Old(h)
      BY <2>8, <2>10, <3>1 DEF Old
    <3> QED
      BY <1>4, <2>10, <3>2 DEF BarKnown
  <2>13. <<c, h[2]>> \in CommittedBoard[m] /\ <<c, h[2]>> \notin CommittedBoard'[m]
    BY <2>1, <2>10, <2>11, <2>12, BoardCell
  <2> QED
    BY <2>4, <2>13
<1>10. ASSUME NEW m \in Pairs \ (Victims \cup {x})
       PROVE  CommittedBoard'[m] = CommittedBoard[m]
  <2>1. \A h \in HalvesOf(m) : h \in Halves /\ Pair(h) = m
    BY HalfFacts
  <2>2. \A h \in HalvesOf(m) : Cover(h)' = Cover(h)
    <3> TAKE h \in HalvesOf(m)
    <3>1. h \in Halves /\ Pair(h) = m /\ m # x /\ m \notin Victims
      BY <2>1
    <3>2. copper'[h] = copper[h]
      BY <1>2, <3>1 DEF Landing
    <3>3. Cover(h) = copper[h] /\ Cover(h)' = copper'[h]
      BY <1>4, <1>5, <3>1 DEF BarKnown
    <3> QED
      BY <3>2, <3>3
  <2> QED
    BY <2>2, BoardStands
<1>11. EvictedPairs' = (EvictedPairs \ {x}) \cup Victims
  <2>1. EvictedPairs' = {y \in Pairs : saved[P(y)] # None /\ routed'[P(y)] = None}
    BY <1>2, <1>3, <1>4 DEF BarKnown, Landing
  <2>2. EvictedPairs = {y \in Pairs : y \notin Victims /\ saved[P(y)] # None
                                      /\ routed[P(y)] = None}
    BY <1>4 DEF BarKnown
  <2>3. \A y \in Victims : y \in Pairs /\ routed[P(y)] = None /\ saved[P(y)] # None /\ y # x
    <3> TAKE y \in Victims
    <3>1. y \in Pairs /\ routed[P(y)] = None /\ y # x
      BY <1>2, VictimsAreHeld DEF LoopSound, Landing
    <3>2. saved[P(y)] # None
      BY <3>1, HalfFacts DEF LoopSound, HandSound, HeldSound
    <3> QED
      BY <3>1, <3>2
  <2>4. routed'[P(x)] # None /\ \A y \in Pairs : y # x => routed'[P(y)] = routed[P(y)]
    BY <1>2, HalfFacts DEF Landing
  <2> QED
    BY <2>1, <2>2, <2>3, <2>4
<1>12. PICK V : V = Victims
  OBVIOUS
<1>13. V \in SUBSET Pairs /\ x \notin V /\ V \cap EvictedPairs = {}
  BY <1>2, <1>4, <1>12, VictimFacts DEF LoopSound, Landing, BarKnown
<1>14. Eviction!Land(x, V)
  BY <1>8, <1>9, <1>10, <1>11, <1>12, <1>13 DEF Eviction!Land
<1> QED
  BY <1>4, <1>13, <1>14 DEF Eviction!Next, WellFormed, Eviction!Disjoint

LEMMA TerminalIsSeen ==
  ASSUME LoopSound, LoopSound', Terminal
  PROVE  Eviction!Next \/ Unseen
<1>1. PICK x \in Pairs : x = X /\ routed[P(x)] = None
  BY PairAssumption DEF Terminal, LoopSound, FrameShape, HandSound
<1>2. frame.ripped = <<>> /\ frame'.ripped = <<>>
  BY FreshFrames DEF Terminal, Done, LoopSound, FrameShape
<1>3. Victims = {} /\ Victims' = {} /\ EmptyHanded' /\ frame'.ripped = frame.ripped
  BY <1>2 DEF Victims, EmptyHanded
<1>4. BarKnown /\ BarKnown' /\ WellFormed'
  BY <1>3, BarIsKnown, BarIsKnownNext, EmptyHandedBoardNext
<1>5. \A h \in Halves : Cover(h) = copper[h] /\ Cover(h)' = copper'[h]
  BY <1>3, <1>4 DEF BarKnown
<1>6. /\ EvictedPairs = {y \in Pairs : saved[P(y)] # None /\ routed[P(y)] = None}
      /\ EvictedPairs' = {y \in Pairs : saved'[P(y)] # None /\ routed'[P(y)] = None}
  BY <1>3, <1>4 DEF BarKnown
<1>7. P(x) \in Halves /\ Pair(P(x)) = x /\ P(x) \in HalvesOf(x)
  BY HalfFacts
<1>8. ASSUME saved[P(x)] # None, EvictedPairs' \in {EvictedPairs, EvictedPairs \ {x}},
             \A h \in Halves : /\ copper[h] \subseteq copper'[h]
                               /\ Pair(h) # x => copper'[h] = copper[h]
      PROVE  Eviction!Next
  <2>1. x \in EvictedPairs
    BY <1>1, <1>6, <1>8
  <2>2. CommittedBoard[x] \subseteq CommittedBoard'[x]
    <3>1. \A h \in HalvesOf(x) : Cover(h) \subseteq Cover(h)'
      BY <1>5, <1>8, HalfFacts
    <3> QED
      BY <3>1, BoardGrows
  <2>3. ASSUME NEW m \in Pairs \ {x} PROVE CommittedBoard'[m] = CommittedBoard[m]
    <3>1. \A h \in HalvesOf(m) : h \in Halves /\ Pair(h) # x
      BY HalfFacts
    <3>2. \A h \in HalvesOf(m) : Cover(h)' = Cover(h)
      BY <1>5, <1>8, <3>1
    <3> QED
      BY <3>2, BoardStands
  <2>4. Eviction!TakeBack(x)
    BY <1>8, <2>1, <2>2, <2>3 DEF Eviction!TakeBack
  <2> QED
    BY <1>4, <2>4 DEF Eviction!Next, WellFormed, Eviction!Disjoint
<1>9. CASE saved[P(x)] # None /\ ~Collides(saved[P(x)])
  <2>1. RestoreNet(saved[P(x)])
    BY <1>1, <1>9 DEF Terminal
  <2>2. saved[P(x)] \in Loads /\ saved[P(x)].res.pair = x
    BY <1>7, <1>9 DEF LoopSound, BoardSound, SavedSound
  <2>3. saved[P(x)].ids = HalvesOf(x)
    BY <2>2 DEF Loads
  <2>4. /\ Relay(saved[P(x)])
        /\ saved' = [h \in Halves |-> IF h \in HalvesOf(x) THEN None ELSE saved[h]]
    BY <1>9, <2>1, <2>3 DEF RestoreNet
  <2>5. \A h \in Halves : /\ copper[h] \subseteq copper'[h]
                          /\ Pair(h) # x => copper'[h] = copper[h]
    BY <2>2, <2>4 DEF Relay, Lay
  <2>6. EvictedPairs' = EvictedPairs \ {x}
    <3>1. saved'[P(x)] = None
      BY <1>7, <2>4
    <3>2. ASSUME NEW y \in Pairs, y # x
          PROVE  saved'[P(y)] = saved[P(y)] /\ routed'[P(y)] = routed[P(y)]
      <4>1. P(y) \in Halves /\ P(y) \notin HalvesOf(x)
        BY <3>2, HalfFacts
      <4> QED
        BY <2>3, <2>4, <4>1 DEF Relay, Assign
    <3> QED
      BY <1>6, <3>1, <3>2
  <2> QED
    BY <1>8, <1>9, <2>5, <2>6
<1>10. CASE saved[P(x)] # None /\ Collides(saved[P(x)]) /\ SafeStub(saved[P(x)]) # {}
  <2>1. /\ copper' = [copper EXCEPT ![P(x)] = @ \cup SafeStub(saved[P(x)])]
        /\ UNCHANGED <<routed, saved>>
    BY <1>1, <1>10 DEF Terminal
  <2>2. copper \in [Halves -> SUBSET Cells]
    BY DEF LoopSound, BoardSound, BoardTypes
  <2>3. \A h \in Halves : /\ copper[h] \subseteq copper'[h]
                          /\ Pair(h) # x => copper'[h] = copper[h]
    BY <1>7, <2>1, <2>2
  <2>4. EvictedPairs' = EvictedPairs
    BY <1>6, <2>1
  <2> QED
    BY <1>8, <1>10, <2>3, <2>4
<1>11. CASE UNCHANGED boardVars
  BY <1>3, <1>11, QuietIsUnseen DEF QuietStepped
<1>12. \/ saved[P(x)] # None /\ ~Collides(saved[P(x)])
       \/ saved[P(x)] # None /\ Collides(saved[P(x)]) /\ SafeStub(saved[P(x)]) # {}
       \/ UNCHANGED boardVars
  BY <1>1 DEF Terminal
<1> QED
  BY <1>9, <1>10, <1>11, <1>12

LEMMA InitIsSeen == Init => Eviction!Init
<1> SUFFICES ASSUME Init PROVE Eviction!Init
  OBVIOUS
<1>1. LoopSound /\ BarKnown
  BY InitIsSound, BarIsKnown
<1>2. /\ copper = PairStub /\ frame.ripped = <<>>
      /\ \A h \in Halves : saved[h] = None
  BY FreshFrames DEF Init, BoardInit
<1>3. VictimIds = {} /\ Victims = {}
  BY <1>2 DEF VictimIds, Victims
<1>4. EvictedPairs = {}
  BY <1>1, <1>2, HalfFacts DEF BarKnown
<1>5. CommittedBoard = [x \in Pairs |-> PairCopper(x, PairStub)]
  <2>1. [h \in Halves |-> copper[h] \cup HeldFor(h)] = PairStub
    <3>1. \A h \in Halves : copper[h] \cup HeldFor(h) = PairStub[h]
      BY <1>2, <1>3 DEF HeldFor
    <3> QED
      BY <3>1, PairAssumption
  <2> QED
    BY <2>1 DEF CommittedBoard
<1> QED
  BY <1>4, <1>5 DEF Eviction!Init

LEMMA StepIsSeen ==
  LoopSound /\ CopperKnown /\ [Next]_vars => [Eviction!Next]_<<CommittedBoard, EvictedPairs>>
<1> SUFFICES ASSUME LoopSound, CopperKnown, [Next]_vars
    PROVE [Eviction!Next]_<<CommittedBoard, EvictedPairs>>
  OBVIOUS
<1>1. LoopSound'
  BY StepIsSound
<1>2. Eviction!Next \/ Unseen
  BY <1>1, StepIsSound, QuietIsUnseen, RipIsUnseen, RestoreIsUnseen, LandIsSeen, TerminalIsSeen
<1> QED
  BY <1>2 DEF Unseen

(* PairRipsAreAtomic: a graze, a probe or a ladder evicts pairs only in    *)
(* the step in which the pair it ripped them for lands; a pair that gives  *)
(* up leaves the board as it was, and nothing but a landing or the         *)
(* terminal restore of an evicted pair moves copper.                       *)
THEOREM PairLoopsImplementEviction == Spec => PairRipsAreAtomic
<1>1. Spec => []CopperKnown
  <2>1. Init => CopperKnown
    BY CopperKnownAtFirst
  <2>2. LoopSound /\ CopperKnown /\ [Next]_vars => CopperKnown'
    BY CopperStaysKnown
  <2> QED
    BY <2>1, <2>2, PairLoopIsSound, PTL DEF Spec
<1>2. Init => Eviction!Init
  BY InitIsSeen
<1>3. LoopSound /\ CopperKnown /\ [Next]_vars => [Eviction!Next]_<<CommittedBoard, EvictedPairs>>
  BY StepIsSeen
<1> QED
  BY <1>1, <1>2, <1>3, PairLoopIsSound, PTL DEF Spec, PairRipsAreAtomic, Eviction!Spec
==================================================================================
