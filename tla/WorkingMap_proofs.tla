---------------------------- MODULE WorkingMap_proofs ----------------------------
(***************************************************************************)
(* The three families of the working map are the base plus the caches of   *)
(* the nets that are not being searched, for any stamps, keep-outs, rings  *)
(* and modes; what the searches see follows.  The one exception is the     *)
(* corridor of a net tie over a frozen base, where the counts of the       *)
(* corridor drift (see CorridorOpens); it is stated as a hypothesis on the *)
(* mode of the run.                                                        *)
(***************************************************************************)
EXTENDS WorkingMap, FiniteSetTheorems, SequenceTheorems, TLAPS

One(b) == IF b THEN 1 ELSE 0

(* The corridor is counted: no net is tied, or the base is stamped.        *)
CorridorCounts == StaticBase => TieNet = None

Brackets ==
  /\ routing = None => keepOut = <<>> /\ rings = <<>> /\ ~lifted
  /\ lifted => routing = TieNet

TrackBalance ==
  \A r \in TrackRows :
    cells[r] = BaseCounts(TrackRows, BaseTrack)[r] + Stampers(TrackStamp, r, routing)
                 - (IF lifted /\ r \in TieRows THEN 1 ELSE 0)

ViaBalance ==
  \A r \in ViaRows :
    /\ vias[r] = BaseCounts(ViaRows, BaseVia)[r] + Stampers(ViaStamp, r, routing)
                   + HeldBy(keepOut, r) + HeldBy(rings, r)
    /\ small[r] = IF SmallRung
                  THEN Stampers(SmallStamp, r, routing) + HeldBy(keepOut, r) + HeldBy(rings, r)
                  ELSE 0

MapInv ==
  /\ TypeOK /\ Brackets /\ ViaBalance
  /\ CorridorCounts => TrackBalance

----------------------------------------------------------------------------
(* Counting.                                                               *)
LEMMA StampersAreCounted ==
  ASSUME NEW stamp, NEW r, NEW x
  PROVE  /\ Stampers(stamp, r, x) \in Nat
         /\ (\E n \in Nets \ {x} : r \in stamp[n][cached[n]]) <=> Stampers(stamp, r, x) > 0
<1> DEFINE S == {n \in Nets \ {x} : r \in stamp[n][cached[n]]}
<1>1. IsFiniteSet(S)
  BY RowsAssumption, FS_Subset, S \in SUBSET Nets
<1>2. Cardinality(S) \in Nat /\ (Cardinality(S) = 0 <=> S = {})
  BY <1>1, FS_CardinalityType, FS_EmptySet
<1>3. Stampers(stamp, r, x) = Cardinality(S)
  BY DEF Stampers
<1> HIDE DEF S
<1>4. S # {} <=> \E n \in Nets \ {x} : r \in stamp[n][cached[n]]
  BY DEF S
<1> QED
  BY <1>2, <1>3, <1>4

(* A net that is searched is left out of the count.                        *)
LEMMA CountWithout ==
  ASSUME NEW stamp, NEW c, NEW r, NEW n \in Nets
  PROVE  Cardinality({m \in Nets \ {None} : r \in stamp[m][c[m]]})
           = Cardinality({m \in Nets \ {n} : r \in stamp[m][c[m]]}) + One(r \in stamp[n][c[n]])
<1> DEFINE S == {m \in Nets \ {None} : r \in stamp[m][c[m]]}
<1>1. IsFiniteSet(S)
  BY RowsAssumption, FS_Subset, S \in SUBSET Nets
<1>2. S \ {n} = {m \in Nets \ {n} : r \in stamp[m][c[m]]}
  BY RowsAssumption
<1>3. n \in S <=> r \in stamp[n][c[n]]
  BY RowsAssumption
<1>4. Cardinality(S) \in Nat /\ Cardinality(S \ {n}) = IF n \in S THEN Cardinality(S) - 1 ELSE Cardinality(S)
  BY <1>1, FS_CardinalityType, FS_RemoveElement
<1>5. Cardinality(S \ {n}) = Cardinality({m \in Nets \ {n} : r \in stamp[m][c[m]]})
  BY <1>2
<1> HIDE DEF S
<1>6. Cardinality(S) = Cardinality(S \ {n}) + One(r \in stamp[n][c[n]])
  BY <1>3, <1>4 DEF One
<1> QED
  BY <1>5, <1>6 DEF S

LEMMA StampersWithout ==
  ASSUME NEW stamp, NEW r, NEW n \in Nets
  PROVE  Stampers(stamp, r, None) = Stampers(stamp, r, n) + One(r \in stamp[n][cached[n]])
<1>1. PICK c : c = cached
  OBVIOUS
<1> QED
  BY <1>1, CountWithout DEF Stampers

(* A net that comes back counts with the copper its cache has then.        *)
LEMMA StampersWith ==
  ASSUME NEW stamp, NEW r, NEW n \in Nets, NEW s, cached'[n] = s,
         \A m \in Nets \ {n} : cached'[m] = cached[m]
  PROVE  Stampers(stamp, r, None)' = Stampers(stamp, r, n) + One(r \in stamp[n][s])
<1>1. PICK c : c = cached'
  OBVIOUS
<1>2. {m \in Nets \ {n} : r \in stamp[m][c[m]]} = {m \in Nets \ {n} : r \in stamp[m][cached[m]]}
  BY <1>1
<1>3. Stampers(stamp, r, None)' = Cardinality({m \in Nets \ {None} : r \in stamp[m][c[m]]})
  BY <1>1 DEF Stampers
<1>4. Stampers(stamp, r, n) = Cardinality({m \in Nets \ {n} : r \in stamp[m][c[m]]})
  BY <1>2 DEF Stampers
<1>5. c[n] = s
  BY <1>1
<1>6. Cardinality({m \in Nets \ {None} : r \in stamp[m][c[m]]})
        = Cardinality({m \in Nets \ {n} : r \in stamp[m][c[m]]}) + One(r \in stamp[n][c[n]])
  <2>1. n \in Nets
    OBVIOUS
  <2> QED
    BY ONLY <2>1, CountWithout
<1> QED
  BY ONLY <1>3, <1>4, <1>5, <1>6

(* The cache of the net that is left out does not count.                   *)
LEMMA StampersOfTheOthers ==
  ASSUME NEW stamp, NEW r, NEW n \in Nets,
         \A m \in Nets \ {n} : cached'[m] = cached[m]
  PROVE  Stampers(stamp, r, n)' = Stampers(stamp, r, n)
<1>1. {m \in Nets \ {n} : r \in stamp[m][cached'[m]]}
        = {m \in Nets \ {n} : r \in stamp[m][cached[m]]}
  OBVIOUS
<1> QED
  BY <1>1 DEF Stampers
LEMMA HeldIsCounted ==
  ASSUME NEW sets \in Seq(SUBSET ViaRows), NEW r
  PROVE  HeldBy(sets, r) \in Nat
<1>1. IsFiniteSet(1..Len(sets))
  BY FS_Interval
<1>2. {i \in DOMAIN sets : r \in sets[i]} \in SUBSET (1..Len(sets))
  OBVIOUS
<1> QED
  BY <1>1, <1>2, FS_Subset, FS_CardinalityType DEF HeldBy

LEMMA NoneHeld ==
  ASSUME NEW r
  PROVE  HeldBy(<<>>, r) = 0
<1>1. {i \in DOMAIN <<>> : r \in <<>>[i]} = {}
  OBVIOUS
<1> QED
  BY <1>1, FS_EmptySet DEF HeldBy

LEMMA OneMoreHeld ==
  ASSUME NEW sets \in Seq(SUBSET ViaRows), NEW ring \in SUBSET ViaRows, NEW r
  PROVE  HeldBy(Append(sets, ring), r) = HeldBy(sets, r) + One(r \in ring)
<1> DEFINE S == {i \in DOMAIN sets : r \in sets[i]}
           T == {i \in DOMAIN Append(sets, ring) : r \in Append(sets, ring)[i]}
<1>1. PICK k \in Nat : k = Len(sets)
  OBVIOUS
<1>2. /\ DOMAIN sets = 1..k /\ DOMAIN Append(sets, ring) = 1..(k + 1)
      /\ Append(sets, ring)[k + 1] = ring
      /\ \A i \in 1..k : Append(sets, ring)[i] = sets[i]
  BY <1>1
<1>3. T = IF r \in ring THEN S \cup {k + 1} ELSE S
  BY <1>2
<1>4. IsFiniteSet(S) /\ k + 1 \notin S
  <2>1. IsFiniteSet(1..k) /\ S \in SUBSET (1..k)
    BY <1>2, FS_Interval
  <2> QED
    BY <2>1, FS_Subset
<1>5. Cardinality(S) \in Nat /\ Cardinality(S \cup {k + 1}) = Cardinality(S) + 1
  BY <1>4, FS_CardinalityType, FS_AddElement
<1> HIDE DEF S, T
<1>6. Cardinality(T) = Cardinality(S) + One(r \in ring)
  BY <1>3, <1>5 DEF One
<1> QED
  BY <1>6 DEF HeldBy, S, T

(* What the operations do, row by row.                                     *)
LEMMA RowsAdded ==
  ASSUME NEW rows, NEW count \in [rows -> Nat], NEW set
  PROVE  /\ AddRows(count, set) \in [rows -> Nat]
         /\ \A r \in rows : AddRows(count, set)[r] = count[r] + One(r \in set)
  BY DEF AddRows, One

LEMMA RowsRemoved ==
  ASSUME NEW rows, NEW count \in [rows -> Nat], NEW set
  PROVE  /\ RemoveRows(count, set) \in [rows -> Nat]
         /\ \A r \in rows : RemoveRows(count, set)[r] =
                              IF r \in set /\ count[r] > 0 THEN count[r] - 1 ELSE count[r]
  BY DEF RemoveRows

LEMMA SetsAdded ==
  ASSUME NEW rows, NEW count \in [rows -> Nat], NEW sets \in Seq(SUBSET ViaRows)
  PROVE  /\ AddAll(count, sets) \in [rows -> Nat]
         /\ \A r \in rows : AddAll(count, sets)[r] = count[r] + HeldBy(sets, r)
<1>1. \A r : HeldBy(sets, r) \in Nat
  BY HeldIsCounted
<1> QED
  BY <1>1 DEF AddAll

LEMMA SetsRemoved ==
  ASSUME NEW rows, NEW count \in [rows -> Nat], NEW sets \in Seq(SUBSET ViaRows)
  PROVE  /\ RemoveAll(count, sets) \in [rows -> Nat]
         /\ \A r \in rows : count[r] >= HeldBy(sets, r) =>
                              RemoveAll(count, sets)[r] = count[r] - HeldBy(sets, r)
<1>1. \A r : HeldBy(sets, r) \in Nat
  BY HeldIsCounted
<1> QED
  BY <1>1 DEF RemoveAll

LEMMA BaseIsCounted ==
  ASSUME NEW rows, NEW base
  PROVE  /\ BaseCounts(rows, base) \in [rows -> Nat]
         /\ \A r \in rows : BaseCounts(rows, base)[r] = One(~StaticBase /\ r \in base)
  BY DEF BaseCounts, One

LEMMA WithCachesAtFirst ==
  ASSUME NEW rows, NEW count \in [rows -> Nat], NEW stamp, NEW taken,
         \A n \in Nets : taken[n] = stamp[n][cached[n]]
  PROVE  /\ WithCaches(count, taken) \in [rows -> Nat]
         /\ \A r \in rows : WithCaches(count, taken)[r] = count[r] + Stampers(stamp, r, None)
<1>1. \A r : {n \in Nets : r \in taken[n]} = {n \in Nets \ {None} : r \in stamp[n][cached[n]]}
  BY RowsAssumption
<1>2. \A r : Cardinality({n \in Nets : r \in taken[n]}) = Stampers(stamp, r, None)
  BY <1>1 DEF Stampers
<1>3. \A r : Stampers(stamp, r, None) \in Nat
  BY StampersAreCounted
<1> QED
  BY <1>2, <1>3 DEF WithCaches

----------------------------------------------------------------------------
LEMMA MapInit ==
  ASSUME Init
  PROVE  MapInv
<1>1. /\ mode \in Modes /\ copper = [n \in Nets |-> Stub] /\ cached = [n \in Nets |-> Stub]
      /\ routing = None /\ keepOut = <<>> /\ rings = <<>> /\ lifted = FALSE
  BY DEF Init
<1>2. /\ BaseCounts(TrackRows, BaseTrack) \in [TrackRows -> Nat]
      /\ BaseCounts(ViaRows, BaseVia) \in [ViaRows -> Nat]
      /\ [r \in ViaRows |-> 0] \in [ViaRows -> Nat]
  BY BaseIsCounted
<1>3. cells \in [TrackRows -> Nat] /\ TrackBalance
  <2>1. /\ cells \in [TrackRows -> Nat]
        /\ \A r \in TrackRows :
             cells[r] = BaseCounts(TrackRows, BaseTrack)[r] + Stampers(TrackStamp, r, None)
    <3>1. PICK count, taken : count = BaseCounts(TrackRows, BaseTrack)
                              /\ taken = [n \in Nets |-> TrackStamp[n][Stub]]
      OBVIOUS
    <3>2. cells = WithCaches(count, taken) /\ count \in [TrackRows -> Nat]
      BY <1>2, <3>1 DEF Init
    <3>3. \A n \in Nets : taken[n] = TrackStamp[n][cached[n]]
      BY <1>1, <3>1
    <3> QED
      BY <3>1, <3>2, <3>3, WithCachesAtFirst
  <2>2. \A r \in TrackRows :
          /\ BaseCounts(TrackRows, BaseTrack)[r] \in Nat /\ Stampers(TrackStamp, r, None) \in Nat
    BY <1>2, StampersAreCounted
  <2> QED
    BY <1>1, <2>1, <2>2 DEF TrackBalance
<1>4. vias \in [ViaRows -> Nat] /\ small \in [ViaRows -> Nat] /\ ViaBalance
  <2>1. /\ vias \in [ViaRows -> Nat]
        /\ \A r \in ViaRows :
             vias[r] = BaseCounts(ViaRows, BaseVia)[r] + Stampers(ViaStamp, r, None)
    <3>1. PICK count, taken : count = BaseCounts(ViaRows, BaseVia)
                              /\ taken = [n \in Nets |-> ViaStamp[n][Stub]]
      OBVIOUS
    <3>2. vias = WithCaches(count, taken) /\ count \in [ViaRows -> Nat]
      BY <1>2, <3>1 DEF Init
    <3>3. \A n \in Nets : taken[n] = ViaStamp[n][cached[n]]
      BY <1>1, <3>1
    <3> QED
      BY <3>1, <3>2, <3>3, WithCachesAtFirst
  <2>2. /\ small \in [ViaRows -> Nat]
        /\ \A r \in ViaRows : small[r] = IF SmallRung THEN Stampers(SmallStamp, r, None) ELSE 0
    <3>1. PICK count, taken : count = [r \in ViaRows |-> 0]
                              /\ taken = [n \in Nets |-> SmallRows(n, Stub)]
      OBVIOUS
    <3>2. small = WithCaches(count, taken) /\ count \in [ViaRows -> Nat]
          /\ \A r \in ViaRows : count[r] = 0
      BY <3>1 DEF Init
    <3>3. CASE SmallRung
      <4>1. \A n \in Nets : taken[n] = SmallStamp[n][cached[n]]
        BY <1>1, <3>1, <3>3 DEF SmallRows
      <4>2. \A r : Stampers(SmallStamp, r, None) \in Nat
        BY StampersAreCounted
      <4> QED
        BY <3>2, <3>3, <4>1, <4>2, WithCachesAtFirst
    <3>4. CASE ~SmallRung
      <4>1. \A r : {n \in Nets : r \in taken[n]} = {}
        BY <3>1, <3>4 DEF SmallRows
      <4>2. \A r : Cardinality({n \in Nets : r \in taken[n]}) = 0
        BY <4>1, FS_EmptySet
      <4>3. \A r \in ViaRows : count[r] + Cardinality({n \in Nets : r \in taken[n]}) = 0
        BY <3>2, <4>2
      <4>4. DOMAIN count = ViaRows
        BY <3>2
      <4>5. WithCaches(count, taken) = [r \in ViaRows |-> 0]
        BY <4>3, <4>4 DEF WithCaches
      <4> QED
        BY <3>2, <3>4, <4>5
    <3> QED
      BY <3>3, <3>4
  <2>3. \A r \in ViaRows :
          /\ BaseCounts(ViaRows, BaseVia)[r] \in Nat /\ HeldBy(<<>>, r) = 0
          /\ Stampers(ViaStamp, r, None) \in Nat /\ Stampers(SmallStamp, r, None) \in Nat
    BY <1>2, StampersAreCounted, NoneHeld
  <2> QED
    BY <1>1, <2>1, <2>2, <2>3 DEF ViaBalance
<1>5. TypeOK
  <2>1. keepOut \in Seq(SUBSET ViaRows) /\ rings \in Seq(SUBSET ViaRows)
    BY <1>1
  <2>2. copper \in [Nets -> Coppers] /\ cached \in [Nets -> Coppers]
    BY <1>1, RowsAssumption
  <2> QED
    BY <1>1, <1>3, <1>4, <2>1, <2>2 DEF TypeOK
<1> QED
  BY <1>1, <1>3, <1>4, <1>5 DEF MapInv, Brackets
(* The types and the counts as the steps use them.                         *)
LEMMA Sorts ==
  ASSUME MapInv
  PROVE  /\ TypeOK /\ Brackets /\ ViaBalance
         /\ \A r \in ViaRows : HeldBy(keepOut, r) \in Nat /\ HeldBy(rings, r) \in Nat
         /\ \A n \in Nets, s \in Coppers :
              /\ TrackStamp[n][s] \in SUBSET TrackRows /\ ViaStamp[n][s] \in SUBSET ViaRows
              /\ SmallRows(n, s) \in SUBSET ViaRows /\ KeepOut[n][s] \in Seq(SUBSET ViaRows)
         /\ \A n \in Nets : cached[n] \in Coppers /\ copper[n] \in Coppers /\ n # None
         /\ \A r \in TrackRows :
              BaseCounts(TrackRows, BaseTrack)[r] = One(~StaticBase /\ r \in BaseTrack)
         /\ \A r \in ViaRows :
              BaseCounts(ViaRows, BaseVia)[r] = One(~StaticBase /\ r \in BaseVia)
<1>1. TypeOK /\ Brackets /\ ViaBalance
  BY DEF MapInv
<1>2. \A r : HeldBy(keepOut, r) \in Nat /\ HeldBy(rings, r) \in Nat
  BY <1>1, HeldIsCounted DEF TypeOK
<1> QED
  BY SMTT(30), <1>1, <1>2, RowsAssumption, BaseIsCounted DEF TypeOK, SmallRows

LEMMA PrepareKeepsMap ==
  ASSUME MapInv, NEW n \in Nets, Prepare(n)
  PROVE  MapInv'
<1>a. /\ TypeOK /\ Brackets /\ ViaBalance
      /\ cached[n] \in Coppers /\ copper[n] \in Coppers /\ n # None
  BY Sorts
<1>b. PICK s, own, ownSmall, discs, big, little :
        /\ s = cached[n] /\ discs = KeepOut[n][copper[n]]
        /\ own = RemoveRows(cells, TrackStamp[n][s])
        /\ big = RemoveRows(vias, ViaStamp[n][s])
        /\ little = RemoveRows(small, SmallRows(n, s))
  OBVIOUS
<1>1. /\ routing = None /\ routing' = n /\ (lifted' <=> n = TieNet /\ TieRows # {})
      /\ lifted' \in BOOLEAN
      /\ cells' = (IF lifted' THEN RemoveRows(own, TieRows) ELSE own)
      /\ keepOut' = discs /\ vias' = AddAll(big, discs)
      /\ small' = (IF SmallRung THEN AddAll(little, discs) ELSE little)
      /\ UNCHANGED <<mode, copper, cached, rings>>
  BY <1>b DEF Prepare
<1>2. keepOut = <<>> /\ rings = <<>> /\ ~lifted /\ discs \in Seq(SUBSET ViaRows)
  BY <1>a, <1>b, <1>1, RowsAssumption DEF Brackets
<1>3. \A r : /\ HeldBy(keepOut, r) = 0 /\ HeldBy(rings, r) = 0 /\ HeldBy(discs, r) \in Nat
             /\ HeldBy(keepOut, r)' = HeldBy(discs, r) /\ HeldBy(rings, r)' = 0
  BY <1>1, <1>2, NoneHeld, HeldIsCounted
<1>4. \A stamp, r :
        /\ Stampers(stamp, r, n) \in Nat /\ Stampers(stamp, r, routing)' = Stampers(stamp, r, n)
        /\ Stampers(stamp, r, routing) = Stampers(stamp, r, n) + One(r \in stamp[n][s])
  <2>1. \A stamp, r : Stampers(stamp, r, routing)' = Stampers(stamp, r, n)
    BY <1>1 DEF Stampers
  <2> QED
    BY <1>b, <1>1, <2>1, StampersAreCounted, StampersWithout
<1>5. ViaBalance' /\ vias' \in [ViaRows -> Nat] /\ small' \in [ViaRows -> Nat]
  <2>1. /\ big \in [ViaRows -> Nat]
        /\ \A r \in ViaRows : big[r] = BaseCounts(ViaRows, BaseVia)[r] + Stampers(ViaStamp, r, n)
    <3>1. big \in [ViaRows -> Nat]
      BY <1>a, <1>b, RowsRemoved, <1>2 DEF TypeOK
    <3>2. ASSUME NEW r \in ViaRows
          PROVE  big[r] = BaseCounts(ViaRows, BaseVia)[r] + Stampers(ViaStamp, r, n)
      <4>1. BaseCounts(ViaRows, BaseVia)[r] \in Nat /\ Stampers(ViaStamp, r, n) \in Nat
        BY <1>4, BaseIsCounted
      <4>2. vias[r] = BaseCounts(ViaRows, BaseVia)[r] + Stampers(ViaStamp, r, n)
                        + One(r \in ViaStamp[n][s])
        BY <1>a, <1>3, <1>4, <4>1 DEF ViaBalance, One
      <4>3. big[r] = IF r \in ViaStamp[n][s] /\ vias[r] > 0 THEN vias[r] - 1 ELSE vias[r]
        <5>1. vias \in [ViaRows -> Nat]
          BY <1>a DEF TypeOK
        <5> QED
          BY <1>b, <5>1, RowsRemoved
      <4>4. CASE r \in ViaStamp[n][s]
        <5>1. vias[r] = BaseCounts(ViaRows, BaseVia)[r] + Stampers(ViaStamp, r, n) + 1
          BY <4>2, <4>4 DEF One
        <5> QED
          BY <4>1, <4>3, <4>4, <5>1
      <4>5. CASE r \notin ViaStamp[n][s]
        <5>1. vias[r] = BaseCounts(ViaRows, BaseVia)[r] + Stampers(ViaStamp, r, n) + 0
          BY <4>2, <4>5 DEF One
        <5> QED
          BY <4>1, <4>3, <4>5, <5>1
      <4> QED
        BY <4>4, <4>5
    <3> QED
      BY <3>1, <3>2
  <2>2. /\ little \in [ViaRows -> Nat]
        /\ \A r \in ViaRows : little[r] = IF SmallRung THEN Stampers(SmallStamp, r, n) ELSE 0
    <3>1. little \in [ViaRows -> Nat]
      BY <1>a, <1>b, RowsRemoved, <1>2 DEF TypeOK
    <3>2. ASSUME NEW r \in ViaRows
          PROVE  little[r] = IF SmallRung THEN Stampers(SmallStamp, r, n) ELSE 0
      <4>1. small[r] = IF SmallRung THEN Stampers(SmallStamp, r, n) + One(r \in SmallStamp[n][s])
                       ELSE 0
        BY <1>a, <1>3, <1>4 DEF ViaBalance, One
      <4>2. little[r] = IF r \in SmallRows(n, s) /\ small[r] > 0 THEN small[r] - 1 ELSE small[r]
        BY <1>a, <1>b, <1>2, RowsRemoved DEF TypeOK
      <4> QED
        BY <1>4, <4>1, <4>2 DEF One, SmallRows
    <3> QED
      BY <3>1, <3>2
  <2>3. /\ vias' \in [ViaRows -> Nat]
        /\ \A r \in ViaRows : vias'[r] = big[r] + HeldBy(discs, r)
    BY <1>1, <1>2, <2>1, SetsAdded
  <2>4. /\ small' \in [ViaRows -> Nat]
        /\ \A r \in ViaRows : small'[r] = IF SmallRung THEN little[r] + HeldBy(discs, r) ELSE little[r]
    BY <1>1, <1>2, <2>2, SetsAdded
  <2>5. /\ (SmallRung <=> SmallRung') /\ (StaticBase <=> StaticBase')
        /\ BaseCounts(ViaRows, BaseVia)' = BaseCounts(ViaRows, BaseVia)
    BY <1>1 DEF SmallRung, StaticBase, BaseCounts
  <2>6. \A r \in ViaRows : BaseCounts(ViaRows, BaseVia)[r] \in Nat
    BY BaseIsCounted
  <2> QED
    BY <1>3, <1>4, <2>1, <2>2, <2>3, <2>4, <2>5, <2>6 DEF ViaBalance
<1>6. cells' \in [TrackRows -> Nat]
  <2>1. own \in [TrackRows -> Nat]
    BY <1>a, <1>b, <1>2, RowsRemoved DEF TypeOK
  <2> QED
    BY <1>1, <1>2, <2>1, RowsRemoved
<1>7. ASSUME CorridorCounts' PROVE TrackBalance'
  <2>1. /\ CorridorCounts /\ (StaticBase <=> StaticBase') /\ TieNet' = TieNet
        /\ BaseCounts(TrackRows, BaseTrack)' = BaseCounts(TrackRows, BaseTrack)
    BY <1>1, <1>7 DEF CorridorCounts, StaticBase, TieNet, BaseCounts
  <2>2. ASSUME NEW r \in TrackRows
        PROVE  cells'[r] = BaseCounts(TrackRows, BaseTrack)[r] + Stampers(TrackStamp, r, n)
                             - (IF lifted' /\ r \in TieRows THEN 1 ELSE 0)
    <3>1. BaseCounts(TrackRows, BaseTrack)[r] = One(~StaticBase /\ r \in BaseTrack)
      BY BaseIsCounted
    <3>2. cells[r] = BaseCounts(TrackRows, BaseTrack)[r] + Stampers(TrackStamp, r, n)
                       + One(r \in TrackStamp[n][s])
      BY <1>2, <1>4, <2>1, <3>1 DEF MapInv, TrackBalance, One
    <3>3. own \in [TrackRows -> Nat]
          /\ own[r] = IF r \in TrackStamp[n][s] /\ cells[r] > 0 THEN cells[r] - 1 ELSE cells[r]
      <4>1. cells \in [TrackRows -> Nat]
        BY <1>a DEF TypeOK
      <4> QED
        BY <1>b, <4>1, RowsRemoved
    <3>0. BaseCounts(TrackRows, BaseTrack)[r] \in Nat /\ Stampers(TrackStamp, r, n) \in Nat
      BY <1>4, BaseIsCounted
    <3>4. own[r] = BaseCounts(TrackRows, BaseTrack)[r] + Stampers(TrackStamp, r, n)
      <4>1. CASE r \in TrackStamp[n][s]
        <5>1. cells[r] = BaseCounts(TrackRows, BaseTrack)[r] + Stampers(TrackStamp, r, n) + 1
          BY <3>2, <4>1 DEF One
        <5> QED
          BY <3>0, <3>3, <4>1, <5>1
      <4>2. CASE r \notin TrackStamp[n][s]
        <5>1. cells[r] = BaseCounts(TrackRows, BaseTrack)[r] + Stampers(TrackStamp, r, n) + 0
          BY <3>2, <4>2 DEF One
        <5> QED
          BY <3>0, <3>3, <4>2, <5>1
      <4> QED
        BY <4>1, <4>2
    <3>5. lifted' /\ r \in TieRows => BaseCounts(TrackRows, BaseTrack)[r] = 1
      BY <1>a, <1>1, <2>1, <3>1, RowsAssumption DEF CorridorCounts, One
    <3>6. lifted' => cells'[r] = IF r \in TieRows /\ own[r] > 0 THEN own[r] - 1 ELSE own[r]
      BY <1>1, <1>2, <3>3, RowsRemoved
    <3> QED
      BY <1>1, <3>0, <3>3, <3>4, <3>5, <3>6
  <2> QED
    BY <1>4, <2>1, <2>2 DEF TrackBalance
<1>8. TypeOK' /\ Brackets'
  BY <1>a, <1>1, <1>2, <1>5, <1>6 DEF TypeOK, Brackets, TieNet
<1> QED
  BY <1>5, <1>7, <1>8 DEF MapInv
LEMMA RegisterTapViaKeepsMap ==
  ASSUME MapInv, NEW n \in Nets, NEW ring \in Ring[n], RegisterTapVia(ring)
  PROVE  MapInv'
<1>a. /\ TypeOK /\ Brackets /\ ViaBalance /\ ring \in SUBSET ViaRows
      /\ rings \in Seq(SUBSET ViaRows)
  BY RowsAssumption DEF MapInv, TypeOK
<1>b. <<ring>> \in Seq(SUBSET ViaRows) /\ <<ring>> = Append(<<>>, ring) /\ <<>> \in Seq(SUBSET ViaRows)
  BY <1>a
<1>1. /\ routing # None /\ rings' = Append(rings, ring) /\ vias' = AddRows(vias, ring)
      /\ small' = (IF SmallRung THEN AddAll(small, <<ring>>) ELSE small)
      /\ UNCHANGED <<mode, cells, copper, cached, routing, keepOut, lifted>>
  BY DEF RegisterTapVia, MirrorAdd
<1>2. \A r : /\ HeldBy(rings, r)' = HeldBy(rings, r) + One(r \in ring)
             /\ HeldBy(<<ring>>, r) = One(r \in ring)
             /\ HeldBy(rings, r) \in Nat /\ HeldBy(keepOut, r) \in Nat
             /\ HeldBy(keepOut, r)' = HeldBy(keepOut, r)
  <2>1. \A r : HeldBy(<<ring>>, r) = HeldBy(<<>>, r) + One(r \in ring)
    BY <1>a, <1>b, OneMoreHeld
  <2>2. \A r : HeldBy(rings, r)' = HeldBy(rings, r) + One(r \in ring)
    BY <1>a, <1>1, OneMoreHeld
  <2>3. \A r : HeldBy(<<>>, r) = 0 /\ One(r \in ring) \in Nat
    BY NoneHeld DEF One
  <2>4. \A r : HeldBy(<<ring>>, r) = One(r \in ring)
    BY <2>1, <2>3
  <2>5. \A r : HeldBy(rings, r) \in Nat /\ HeldBy(keepOut, r) \in Nat
    BY <1>a, HeldIsCounted DEF TypeOK
  <2>6. \A r : HeldBy(keepOut, r)' = HeldBy(keepOut, r)
    BY <1>1
  <2> QED
    BY <2>2, <2>4, <2>5, <2>6
<1>3. /\ (SmallRung <=> SmallRung') /\ (CorridorCounts <=> CorridorCounts') /\ TieNet' = TieNet
      /\ BaseCounts(ViaRows, BaseVia)' = BaseCounts(ViaRows, BaseVia)
      /\ BaseCounts(TrackRows, BaseTrack)' = BaseCounts(TrackRows, BaseTrack)
      /\ \A stamp, r : Stampers(stamp, r, routing)' = Stampers(stamp, r, routing)
  BY <1>1 DEF SmallRung, CorridorCounts, TieNet, StaticBase, BaseCounts, Stampers
<1>4. /\ vias' \in [ViaRows -> Nat]
      /\ \A r \in ViaRows : vias'[r] = vias[r] + One(r \in ring)
  BY SMTT(30), <1>a, <1>1, RowsAdded DEF TypeOK
<1>5. /\ small' \in [ViaRows -> Nat]
      /\ \A r \in ViaRows : small'[r] = IF SmallRung THEN small[r] + One(r \in ring) ELSE small[r]
  <2>1. small \in [ViaRows -> Nat]
    BY <1>a DEF TypeOK
  <2>2. CASE SmallRung
    <3>1. small' = AddAll(small, <<ring>>)
      BY <1>1, <2>2
    <3>2. small' \in [ViaRows -> Nat] /\ \A r \in ViaRows : small'[r] = small[r] + HeldBy(<<ring>>, r)
      <4>1. PICK count, sets : count = small /\ sets = <<ring>>
        OBVIOUS
      <4>2. count \in [ViaRows -> Nat] /\ sets \in Seq(SUBSET ViaRows)
        BY <1>b, <2>1, <4>1
      <4>3. /\ AddAll(count, sets) \in [ViaRows -> Nat]
            /\ \A r \in ViaRows : AddAll(count, sets)[r] = count[r] + HeldBy(sets, r)
        BY <4>2, SetsAdded
      <4> QED
        BY <3>1, <4>1, <4>3
    <3> QED
      BY <1>2, <2>2, <3>2
  <2> QED
    BY <1>1, <2>1, <2>2
<1>6. ViaBalance'
  <2>1. \A r \in ViaRows :
          /\ BaseCounts(ViaRows, BaseVia)[r] \in Nat
          /\ Stampers(ViaStamp, r, routing) \in Nat /\ Stampers(SmallStamp, r, routing) \in Nat
    BY BaseIsCounted, StampersAreCounted
  <2>2. ASSUME NEW r \in ViaRows
        PROVE  /\ vias'[r] = BaseCounts(ViaRows, BaseVia)[r] + Stampers(ViaStamp, r, routing)
                              + HeldBy(keepOut, r) + HeldBy(rings', r)
               /\ small'[r] = IF SmallRung
                              THEN Stampers(SmallStamp, r, routing) + HeldBy(keepOut, r)
                                     + HeldBy(rings', r)
                              ELSE 0
    <3>1. PICK one : one = One(r \in ring)
      OBVIOUS
    <3>2. one \in Nat
      BY <3>1 DEF One
    <3>3. /\ HeldBy(rings', r) = HeldBy(rings, r) + one
          /\ HeldBy(rings, r) \in Nat /\ HeldBy(keepOut, r) \in Nat
          /\ vias'[r] = vias[r] + one
          /\ small'[r] = IF SmallRung THEN small[r] + one ELSE small[r]
      BY <1>2, <1>4, <1>5, <3>1
    <3>4. /\ vias[r] = BaseCounts(ViaRows, BaseVia)[r] + Stampers(ViaStamp, r, routing)
                         + HeldBy(keepOut, r) + HeldBy(rings, r)
          /\ small[r] = IF SmallRung
                         THEN Stampers(SmallStamp, r, routing) + HeldBy(keepOut, r) + HeldBy(rings, r)
                         ELSE 0
      BY <1>a DEF ViaBalance
    <3> QED
      BY <2>1, <3>2, <3>3, <3>4
  <2> QED
    BY <1>1, <1>3, <2>2 DEF ViaBalance
<1>7. TypeOK' /\ Brackets'
  <2>1. rings' \in Seq(SUBSET ViaRows)
    BY <1>a, <1>1
  <2> QED
    BY <1>a, <1>1, <1>3, <1>4, <1>5, <2>1 DEF TypeOK, Brackets
<1>8. CorridorCounts' => TrackBalance'
  BY <1>1, <1>3 DEF MapInv, TrackBalance
<1> QED
  BY <1>6, <1>7, <1>8 DEF MapInv

LEMMA TapsEndKeepsMap ==
  ASSUME MapInv, TapsEnd
  PROVE  MapInv'
<1>a. /\ TypeOK /\ Brackets /\ ViaBalance
      /\ rings \in Seq(SUBSET ViaRows) /\ keepOut \in Seq(SUBSET ViaRows)
      /\ vias \in [ViaRows -> Nat] /\ small \in [ViaRows -> Nat]
  BY DEF MapInv, TypeOK
<1>1. /\ routing # None /\ rings' = <<>> /\ vias' = RemoveAll(vias, rings)
      /\ small' = (IF SmallRung THEN RemoveAll(small, rings) ELSE small)
      /\ UNCHANGED <<mode, cells, copper, cached, routing, keepOut, lifted>>
  BY DEF TapsEnd, MirrorRemove
<1>2. \A r : /\ HeldBy(rings, r)' = 0 /\ HeldBy(rings, r) \in Nat /\ HeldBy(keepOut, r) \in Nat
             /\ HeldBy(keepOut, r)' = HeldBy(keepOut, r)
  BY <1>a, <1>1, NoneHeld, HeldIsCounted
<1>3. /\ (SmallRung <=> SmallRung') /\ (CorridorCounts <=> CorridorCounts') /\ TieNet' = TieNet
      /\ BaseCounts(ViaRows, BaseVia)' = BaseCounts(ViaRows, BaseVia)
      /\ BaseCounts(TrackRows, BaseTrack)' = BaseCounts(TrackRows, BaseTrack)
      /\ \A stamp, r : Stampers(stamp, r, routing)' = Stampers(stamp, r, routing)
  BY <1>1 DEF SmallRung, CorridorCounts, TieNet, StaticBase, BaseCounts, Stampers
<1>4. \A r \in ViaRows :
        /\ BaseCounts(ViaRows, BaseVia)[r] \in Nat
        /\ Stampers(ViaStamp, r, routing) \in Nat /\ Stampers(SmallStamp, r, routing) \in Nat
  BY BaseIsCounted, StampersAreCounted
<1>5. \A r \in ViaRows :
        /\ vias[r] >= HeldBy(rings, r) /\ (SmallRung => small[r] >= HeldBy(rings, r))
        /\ vias[r] - HeldBy(rings, r) = BaseCounts(ViaRows, BaseVia)[r]
                                          + Stampers(ViaStamp, r, routing) + HeldBy(keepOut, r)
        /\ SmallRung => small[r] - HeldBy(rings, r)
                          = Stampers(SmallStamp, r, routing) + HeldBy(keepOut, r)
        /\ ~SmallRung => small[r] = 0
  <2> TAKE r \in ViaRows
  <2>1. /\ vias[r] = BaseCounts(ViaRows, BaseVia)[r] + Stampers(ViaStamp, r, routing)
                       + HeldBy(keepOut, r) + HeldBy(rings, r)
        /\ small[r] = IF SmallRung
                       THEN Stampers(SmallStamp, r, routing) + HeldBy(keepOut, r) + HeldBy(rings, r)
                       ELSE 0
    BY <1>a DEF ViaBalance
  <2>2. HeldBy(rings, r) \in Nat /\ HeldBy(keepOut, r) \in Nat
    BY <1>2
  <2> QED
    BY <1>4, <2>1, <2>2
<1>6. /\ vias' \in [ViaRows -> Nat]
      /\ \A r \in ViaRows : vias'[r] = vias[r] - HeldBy(rings, r)
  <2>1. /\ RemoveAll(vias, rings) \in [ViaRows -> Nat]
        /\ \A r \in ViaRows : vias[r] >= HeldBy(rings, r) =>
                               RemoveAll(vias, rings)[r] = vias[r] - HeldBy(rings, r)
    BY SMTT(30), <1>a, SetsRemoved
  <2> QED
    BY <1>1, <1>5, <2>1
<1>7. /\ small' \in [ViaRows -> Nat]
      /\ \A r \in ViaRows : small'[r] = IF SmallRung THEN small[r] - HeldBy(rings, r) ELSE small[r]
  <2>1. CASE SmallRung
    <3>1. small' = RemoveAll(small, rings)
      BY <1>1, <2>1
    <3>2. /\ RemoveAll(small, rings) \in [ViaRows -> Nat]
          /\ \A r \in ViaRows : small[r] >= HeldBy(rings, r) =>
                                 RemoveAll(small, rings)[r] = small[r] - HeldBy(rings, r)
      BY <1>a, SetsRemoved
    <3> QED
      BY <1>5, <2>1, <3>1, <3>2
  <2> QED
    BY <1>a, <1>1, <2>1
<1>8. ViaBalance'
  <2>1. ASSUME NEW r \in ViaRows
        PROVE  /\ vias'[r] = BaseCounts(ViaRows, BaseVia)[r] + Stampers(ViaStamp, r, routing)
                              + HeldBy(keepOut, r) + HeldBy(rings', r)
               /\ small'[r] = IF SmallRung
                              THEN Stampers(SmallStamp, r, routing) + HeldBy(keepOut, r)
                                     + HeldBy(rings', r)
                              ELSE 0
    <3>1. HeldBy(rings', r) = 0 /\ HeldBy(keepOut, r) \in Nat
      BY <1>2
    <3> QED
      BY <1>4, <1>5, <1>6, <1>7, <3>1
  <2> QED
    BY <1>1, <1>3, <2>1 DEF ViaBalance
<1>9. TypeOK' /\ Brackets'
  <2>1. rings' \in Seq(SUBSET ViaRows)
    BY <1>1
  <2> QED
    BY <1>a, <1>1, <1>3, <1>6, <1>7, <2>1 DEF TypeOK, Brackets
<1>10. CorridorCounts' => TrackBalance'
  BY <1>1, <1>3 DEF MapInv, TrackBalance
<1> QED
  BY <1>8, <1>9, <1>10 DEF MapInv
(* Both ways a bracket closes: s is the copper the cache is at then.       *)
LEMMA RestoredKeepsMap ==
  ASSUME MapInv, NEW n \in Nets, NEW s \in Coppers, routing = n, rings = <<>>,
         Restored(n, s), UNCHANGED <<mode, rings>>, copper' \in [Nets -> Coppers],
         cached' \in [Nets -> Coppers], cached'[n] = s,
         \A m \in Nets \ {n} : cached'[m] = cached[m]
  PROVE  MapInv'
<1>a. /\ TypeOK /\ Brackets /\ ViaBalance /\ n # None
      /\ rings \in Seq(SUBSET ViaRows) /\ keepOut \in Seq(SUBSET ViaRows)
      /\ cells \in [TrackRows -> Nat] /\ vias \in [ViaRows -> Nat] /\ small \in [ViaRows -> Nat]
  BY Sorts DEF TypeOK
<1>b. PICK big, little, track :
        /\ big = RemoveAll(vias, keepOut)
        /\ little = (IF SmallRung THEN RemoveAll(small, keepOut) ELSE small)
        /\ track = (IF lifted THEN AddRows(cells, TieRows) ELSE cells)
  OBVIOUS
<1>1. /\ vias' = AddRows(big, ViaStamp[n][s]) /\ small' = AddRows(little, SmallRows(n, s))
      /\ cells' = AddRows(track, TrackStamp[n][s])
      /\ lifted' = FALSE /\ routing' = None /\ keepOut' = <<>> /\ rings' = <<>> /\ mode' = mode
  BY <1>b DEF Restored, MirrorRemove
<1>2. \A r : /\ HeldBy(rings, r) = 0 /\ HeldBy(keepOut, r) \in Nat
             /\ HeldBy(rings, r)' = 0 /\ HeldBy(keepOut, r)' = 0
  BY <1>a, <1>1, NoneHeld, HeldIsCounted
<1>3. /\ (SmallRung <=> SmallRung') /\ (CorridorCounts <=> CorridorCounts') /\ TieNet' = TieNet
      /\ BaseCounts(ViaRows, BaseVia)' = BaseCounts(ViaRows, BaseVia)
      /\ BaseCounts(TrackRows, BaseTrack)' = BaseCounts(TrackRows, BaseTrack)
  BY <1>1 DEF SmallRung, CorridorCounts, TieNet, StaticBase, BaseCounts
<1>4. \A stamp, r : /\ Stampers(stamp, r, routing)' = Stampers(stamp, r, n) + One(r \in stamp[n][s])
                    /\ Stampers(stamp, r, n) \in Nat
  <2>1. ASSUME NEW stamp, NEW r
        PROVE  Stampers(stamp, r, routing)' = Stampers(stamp, r, n) + One(r \in stamp[n][s])
    <3>1. Stampers(stamp, r, None)' = Stampers(stamp, r, n) + One(r \in stamp[n][s])
      BY StampersWith
    <3>2. Stampers(stamp, r, routing)' = Stampers(stamp, r, None)'
      BY <1>1 DEF Stampers
    <3> QED
      BY <3>1, <3>2
  <2> QED
    BY <2>1, StampersAreCounted
<1>5. /\ big \in [ViaRows -> Nat]
      /\ \A r \in ViaRows : big[r] = BaseCounts(ViaRows, BaseVia)[r] + Stampers(ViaStamp, r, n)
  <2>1. /\ big \in [ViaRows -> Nat]
        /\ \A r \in ViaRows : vias[r] >= HeldBy(keepOut, r) =>
                                big[r] = vias[r] - HeldBy(keepOut, r)
    <3>1. PICK count, sets : count = vias /\ sets = keepOut
      OBVIOUS
    <3>2. count \in [ViaRows -> Nat] /\ sets \in Seq(SUBSET ViaRows)
      BY <1>a, <3>1
    <3>3. /\ RemoveAll(count, sets) \in [ViaRows -> Nat]
          /\ \A r \in ViaRows : count[r] >= HeldBy(sets, r) =>
                                RemoveAll(count, sets)[r] = count[r] - HeldBy(sets, r)
      BY ONLY <3>2, SetsRemoved
    <3> QED
      BY <1>b, <3>1, <3>3
  <2>2. ASSUME NEW r \in ViaRows
        PROVE  big[r] = BaseCounts(ViaRows, BaseVia)[r] + Stampers(ViaStamp, r, n)
    <3>1. BaseCounts(ViaRows, BaseVia)[r] \in Nat /\ Stampers(ViaStamp, r, n) \in Nat
      BY <1>4, BaseIsCounted
    <3>2. vias[r] = BaseCounts(ViaRows, BaseVia)[r] + Stampers(ViaStamp, r, n)
                      + HeldBy(keepOut, r) + HeldBy(rings, r)
      BY <1>a DEF ViaBalance
    <3>3. HeldBy(keepOut, r) \in Nat /\ HeldBy(rings, r) = 0
      BY <1>2
    <3>4. vias[r] >= HeldBy(keepOut, r) => big[r] = vias[r] - HeldBy(keepOut, r)
      BY <2>1
    <3> QED
      BY <3>1, <3>2, <3>3, <3>4
  <2> QED
    BY <2>1, <2>2
<1>6. /\ little \in [ViaRows -> Nat]
      /\ \A r \in ViaRows : little[r] = IF SmallRung THEN Stampers(SmallStamp, r, n) ELSE 0
  <2>0. ASSUME NEW r \in ViaRows
        PROVE  small[r] = IF SmallRung THEN Stampers(SmallStamp, r, n) + HeldBy(keepOut, r) ELSE 0
    <3>1. small[r] = IF SmallRung
                     THEN Stampers(SmallStamp, r, n) + HeldBy(keepOut, r) + HeldBy(rings, r)
                     ELSE 0
      BY <1>a DEF ViaBalance
    <3>2. HeldBy(keepOut, r) \in Nat /\ HeldBy(rings, r) = 0 /\ Stampers(SmallStamp, r, n) \in Nat
      BY <1>2, <1>4
    <3> QED
      BY <3>1, <3>2
  <2>1. CASE SmallRung
    <3>1. /\ RemoveAll(small, keepOut) \in [ViaRows -> Nat]
          /\ \A r \in ViaRows : small[r] >= HeldBy(keepOut, r) =>
                                 RemoveAll(small, keepOut)[r] = small[r] - HeldBy(keepOut, r)
      <4>1. PICK count, sets : count = small /\ sets = keepOut
        OBVIOUS
      <4>2. count \in [ViaRows -> Nat] /\ sets \in Seq(SUBSET ViaRows)
        BY <1>a, <4>1
      <4>3. /\ RemoveAll(count, sets) \in [ViaRows -> Nat]
            /\ \A r \in ViaRows : count[r] >= HeldBy(sets, r) =>
                                  RemoveAll(count, sets)[r] = count[r] - HeldBy(sets, r)
        BY ONLY <4>2, SetsRemoved
      <4> QED
        BY <4>1, <4>3
    <3>2. little = RemoveAll(small, keepOut)
      BY <1>b, <2>1
    <3>3. ASSUME NEW r \in ViaRows PROVE little[r] = Stampers(SmallStamp, r, n)
      <4>1. small[r] >= HeldBy(keepOut, r) => little[r] = small[r] - HeldBy(keepOut, r)
        BY <3>1, <3>2
      <4>2. small[r] = Stampers(SmallStamp, r, n) + HeldBy(keepOut, r)
        BY <2>0, <2>1
      <4>3. HeldBy(keepOut, r) \in Nat /\ Stampers(SmallStamp, r, n) \in Nat
        BY <1>2, <1>4
      <4> QED
        BY <4>1, <4>2, <4>3
    <3> QED
      BY <2>1, <3>1, <3>2, <3>3
  <2>2. CASE ~SmallRung
    BY <1>a, <1>b, <2>0, <2>2
  <2> QED
    BY <2>1, <2>2
<1>7. ViaBalance' /\ vias' \in [ViaRows -> Nat] /\ small' \in [ViaRows -> Nat]
  <2>1. /\ vias' \in [ViaRows -> Nat]
        /\ \A r \in ViaRows : vias'[r] = big[r] + One(r \in ViaStamp[n][s])
    BY <1>1, <1>5, RowsAdded
  <2>2. /\ small' \in [ViaRows -> Nat]
        /\ \A r \in ViaRows : small'[r] = little[r] + One(r \in SmallRows(n, s))
    BY <1>1, <1>6, RowsAdded
  <2>3. ASSUME NEW r \in ViaRows
        PROVE  /\ vias'[r] = BaseCounts(ViaRows, BaseVia)[r]
                              + (Stampers(ViaStamp, r, n) + One(r \in ViaStamp[n][s])) + 0 + 0
               /\ small'[r] = IF SmallRung
                              THEN (Stampers(SmallStamp, r, n) + One(r \in SmallStamp[n][s])) + 0 + 0
                              ELSE 0
    <3>1. /\ BaseCounts(ViaRows, BaseVia)[r] \in Nat
          /\ Stampers(ViaStamp, r, n) \in Nat /\ Stampers(SmallStamp, r, n) \in Nat
      BY <1>4, BaseIsCounted
    <3>2. /\ One(r \in ViaStamp[n][s]) \in Nat /\ One(r \in SmallStamp[n][s]) \in Nat
          /\ One(r \in SmallRows(n, s)) = IF SmallRung THEN One(r \in SmallStamp[n][s]) ELSE 0
      BY DEF One, SmallRows
    <3>3. /\ vias'[r] = big[r] + One(r \in ViaStamp[n][s])
          /\ small'[r] = little[r] + One(r \in SmallRows(n, s))
          /\ big[r] = BaseCounts(ViaRows, BaseVia)[r] + Stampers(ViaStamp, r, n)
          /\ little[r] = IF SmallRung THEN Stampers(SmallStamp, r, n) ELSE 0
      BY <1>5, <1>6, <2>1, <2>2
    <3> QED
      BY <3>1, <3>2, <3>3
  <2> QED
    BY <1>2, <1>3, <1>4, <2>1, <2>2, <2>3 DEF ViaBalance
<1>8. track \in [TrackRows -> Nat]
      /\ \A r \in TrackRows : track[r] = cells[r] + One(lifted /\ r \in TieRows)
  <2>1. AddRows(cells, TieRows) \in [TrackRows -> Nat]
        /\ \A r \in TrackRows : AddRows(cells, TieRows)[r] = cells[r] + One(r \in TieRows)
    BY <1>a, RowsAdded
  <2>2. CASE lifted
    BY <1>b, <2>1, <2>2
  <2>3. CASE ~lifted
    BY <1>a, <1>b, <2>3 DEF One
  <2> QED
    BY <2>2, <2>3
<1>9. cells' \in [TrackRows -> Nat]
      /\ \A r \in TrackRows : cells'[r] = track[r] + One(r \in TrackStamp[n][s])
  BY <1>1, <1>8, RowsAdded
<1>10. ASSUME CorridorCounts' PROVE TrackBalance'
  <2>1. TrackBalance
    BY <1>3, <1>10 DEF MapInv
  <2>2. ASSUME NEW r \in TrackRows
        PROVE  cells'[r] = BaseCounts(TrackRows, BaseTrack)[r]
                            + (Stampers(TrackStamp, r, n) + One(r \in TrackStamp[n][s])) - 0
    <3>1. BaseCounts(TrackRows, BaseTrack)[r] \in Nat /\ Stampers(TrackStamp, r, n) \in Nat
          /\ One(r \in TrackStamp[n][s]) \in Nat
      BY <1>4, BaseIsCounted DEF One
    <3>2. cells[r] = BaseCounts(TrackRows, BaseTrack)[r] + Stampers(TrackStamp, r, n)
                       - (IF lifted /\ r \in TieRows THEN 1 ELSE 0)
      BY <2>1 DEF TrackBalance
    <3>3. /\ track[r] = cells[r] + (IF lifted /\ r \in TieRows THEN 1 ELSE 0)
          /\ cells'[r] = track[r] + One(r \in TrackStamp[n][s])
      BY <1>8, <1>9 DEF One
    <3>4. track[r] = BaseCounts(TrackRows, BaseTrack)[r] + Stampers(TrackStamp, r, n)
      BY <3>1, <3>2, <3>3
    <3> QED
      BY <3>1, <3>3, <3>4
  <2> QED
    BY <1>1, <1>3, <1>4, <2>2 DEF TrackBalance
<1>11. TypeOK' /\ Brackets'
  BY <1>a, <1>1, <1>7, <1>9 DEF TypeOK, Brackets
<1> QED
  BY <1>7, <1>10, <1>11 DEF MapInv

LEMMA RestampKeepsMap ==
  ASSUME MapInv, NEW n \in Nets, NEW s \in Coppers, Restamp(n, s)
  PROVE  MapInv'
<1>a. /\ TypeOK /\ Brackets /\ ViaBalance /\ n # None
      /\ rings \in Seq(SUBSET ViaRows) /\ keepOut \in Seq(SUBSET ViaRows)
      /\ cells \in [TrackRows -> Nat] /\ vias \in [ViaRows -> Nat] /\ small \in [ViaRows -> Nat]
      /\ copper \in [Nets -> Coppers] /\ cached \in [Nets -> Coppers]
  BY Sorts DEF TypeOK
<1>b. PICK t, big, little, track :
        /\ t = cached[n]
        /\ big = RemoveRows(vias, ViaStamp[n][t]) /\ little = RemoveRows(small, SmallRows(n, t))
        /\ track = RemoveRows(cells, TrackStamp[n][t])
  OBVIOUS
<1>1. /\ routing = None /\ cached' = [cached EXCEPT ![n] = s] /\ copper' = [copper EXCEPT ![n] = s]
      /\ vias' = AddRows(big, ViaStamp[n][s]) /\ small' = AddRows(little, SmallRows(n, s))
      /\ cells' = AddRows(track, TrackStamp[n][s])
      /\ UNCHANGED <<mode, routing, keepOut, rings, lifted>>
  BY <1>b DEF Restamp
<1>2. \A r : /\ HeldBy(rings, r) = 0 /\ HeldBy(keepOut, r) = 0
             /\ HeldBy(rings, r)' = 0 /\ HeldBy(keepOut, r)' = 0
  BY <1>a, <1>1, NoneHeld DEF Brackets
<1>3. /\ (SmallRung <=> SmallRung') /\ (CorridorCounts <=> CorridorCounts') /\ TieNet' = TieNet
      /\ BaseCounts(ViaRows, BaseVia)' = BaseCounts(ViaRows, BaseVia)
      /\ BaseCounts(TrackRows, BaseTrack)' = BaseCounts(TrackRows, BaseTrack)
  BY <1>1 DEF SmallRung, CorridorCounts, TieNet, StaticBase, BaseCounts
<1>4. \A stamp, r : /\ Stampers(stamp, r, routing)' = Stampers(stamp, r, n) + One(r \in stamp[n][s])
                    /\ Stampers(stamp, r, routing) = Stampers(stamp, r, n) + One(r \in stamp[n][t])
                    /\ Stampers(stamp, r, n) \in Nat
  <2>1. ASSUME NEW stamp, NEW r
        PROVE  Stampers(stamp, r, routing)' = Stampers(stamp, r, n) + One(r \in stamp[n][s])
    <3>0. cached'[n] = s /\ \A m \in Nets \ {n} : cached'[m] = cached[m]
      BY <1>a, <1>1
    <3>1. Stampers(stamp, r, None)' = Stampers(stamp, r, n) + One(r \in stamp[n][s])
      BY <3>0, StampersWith
    <3>2. Stampers(stamp, r, routing)' = Stampers(stamp, r, None)'
      BY <1>1 DEF Stampers
    <3> QED
      BY <3>1, <3>2
  <2>2. ASSUME NEW stamp, NEW r
        PROVE  Stampers(stamp, r, routing) = Stampers(stamp, r, n) + One(r \in stamp[n][t])
    BY <1>b, <1>1, StampersWithout
  <2> QED
    BY <2>1, <2>2, StampersAreCounted
<1>5. /\ big \in [ViaRows -> Nat]
      /\ \A r \in ViaRows : big[r] = BaseCounts(ViaRows, BaseVia)[r] + Stampers(ViaStamp, r, n)
  <2>1. /\ big \in [ViaRows -> Nat]
        /\ \A r \in ViaRows : big[r] = IF r \in ViaStamp[n][t] /\ vias[r] > 0
                                       THEN vias[r] - 1 ELSE vias[r]
    BY <1>a, <1>b, RowsRemoved
  <2>2. ASSUME NEW r \in ViaRows
        PROVE  big[r] = BaseCounts(ViaRows, BaseVia)[r] + Stampers(ViaStamp, r, n)
    <3>1. BaseCounts(ViaRows, BaseVia)[r] \in Nat /\ Stampers(ViaStamp, r, n) \in Nat
      BY <1>4, BaseIsCounted
    <3>2. vias[r] = BaseCounts(ViaRows, BaseVia)[r]
                      + (Stampers(ViaStamp, r, n) + One(r \in ViaStamp[n][t])) + 0 + 0
      BY <1>a, <1>2, <1>4 DEF ViaBalance
    <3>3. big[r] = IF r \in ViaStamp[n][t] /\ vias[r] > 0 THEN vias[r] - 1 ELSE vias[r]
      BY <2>1
    <3>4. One(r \in ViaStamp[n][t]) = IF r \in ViaStamp[n][t] THEN 1 ELSE 0
      BY DEF One
    <3> QED
      BY <3>1, <3>2, <3>3, <3>4
  <2> QED
    BY <2>1, <2>2
<1>6. /\ little \in [ViaRows -> Nat]
      /\ \A r \in ViaRows : little[r] = IF SmallRung THEN Stampers(SmallStamp, r, n) ELSE 0
  <2>1. /\ little \in [ViaRows -> Nat]
        /\ \A r \in ViaRows : little[r] = IF r \in SmallRows(n, t) /\ small[r] > 0
                                          THEN small[r] - 1 ELSE small[r]
    BY <1>a, <1>b, RowsRemoved
  <2>2. ASSUME NEW r \in ViaRows
        PROVE  little[r] = IF SmallRung THEN Stampers(SmallStamp, r, n) ELSE 0
    <3>1. Stampers(SmallStamp, r, n) \in Nat
      BY <1>4
    <3>2. small[r] = IF SmallRung
                     THEN (Stampers(SmallStamp, r, n) + One(r \in SmallStamp[n][t])) + 0 + 0
                     ELSE 0
      BY <1>a, <1>2, <1>4 DEF ViaBalance
    <3>3. little[r] = IF r \in SmallRows(n, t) /\ small[r] > 0 THEN small[r] - 1 ELSE small[r]
      BY <2>1
    <3>4. /\ One(r \in SmallStamp[n][t]) = IF r \in SmallStamp[n][t] THEN 1 ELSE 0
          /\ r \in SmallRows(n, t) <=> SmallRung /\ r \in SmallStamp[n][t]
      BY DEF One, SmallRows
    <3> QED
      BY <3>1, <3>2, <3>3, <3>4
  <2> QED
    BY <2>1, <2>2
<1>7. ViaBalance' /\ vias' \in [ViaRows -> Nat] /\ small' \in [ViaRows -> Nat]
  <2>1. /\ vias' \in [ViaRows -> Nat]
        /\ \A r \in ViaRows : vias'[r] = big[r] + One(r \in ViaStamp[n][s])
    BY <1>1, <1>5, RowsAdded
  <2>2. /\ small' \in [ViaRows -> Nat]
        /\ \A r \in ViaRows : small'[r] = little[r] + One(r \in SmallRows(n, s))
    BY <1>1, <1>6, RowsAdded
  <2>3. ASSUME NEW r \in ViaRows
        PROVE  /\ vias'[r] = BaseCounts(ViaRows, BaseVia)[r]
                              + (Stampers(ViaStamp, r, n) + One(r \in ViaStamp[n][s])) + 0 + 0
               /\ small'[r] = IF SmallRung
                              THEN (Stampers(SmallStamp, r, n) + One(r \in SmallStamp[n][s])) + 0 + 0
                              ELSE 0
    <3>1. /\ BaseCounts(ViaRows, BaseVia)[r] \in Nat
          /\ Stampers(ViaStamp, r, n) \in Nat /\ Stampers(SmallStamp, r, n) \in Nat
      BY <1>4, BaseIsCounted
    <3>2. /\ One(r \in ViaStamp[n][s]) \in Nat /\ One(r \in SmallStamp[n][s]) \in Nat
          /\ One(r \in SmallRows(n, s)) = IF SmallRung THEN One(r \in SmallStamp[n][s]) ELSE 0
      BY DEF One, SmallRows
    <3>3. /\ vias'[r] = big[r] + One(r \in ViaStamp[n][s])
          /\ small'[r] = little[r] + One(r \in SmallRows(n, s))
          /\ big[r] = BaseCounts(ViaRows, BaseVia)[r] + Stampers(ViaStamp, r, n)
          /\ little[r] = IF SmallRung THEN Stampers(SmallStamp, r, n) ELSE 0
      BY <1>5, <1>6, <2>1, <2>2
    <3> QED
      BY <3>1, <3>2, <3>3
  <2> QED
    BY <1>2, <1>3, <1>4, <2>1, <2>2, <2>3 DEF ViaBalance
<1>8. /\ track \in [TrackRows -> Nat]
      /\ \A r \in TrackRows : track[r] = IF r \in TrackStamp[n][t] /\ cells[r] > 0
                                         THEN cells[r] - 1 ELSE cells[r]
  <2>1. PICK count, set : count = cells /\ set = TrackStamp[n][t]
    OBVIOUS
  <2>2. count \in [TrackRows -> Nat]
    BY <1>a, <2>1
  <2>3. /\ RemoveRows(count, set) \in [TrackRows -> Nat]
        /\ \A r \in TrackRows : RemoveRows(count, set)[r] =
                                 IF r \in set /\ count[r] > 0 THEN count[r] - 1 ELSE count[r]
    BY ONLY <2>2, RowsRemoved
  <2> QED
    BY <1>b, <2>1, <2>3
<1>9. cells' \in [TrackRows -> Nat]
      /\ \A r \in TrackRows : cells'[r] = track[r] + One(r \in TrackStamp[n][s])
  BY <1>1, <1>8, RowsAdded
<1>10. ASSUME CorridorCounts' PROVE TrackBalance'
  <2>1. TrackBalance /\ ~lifted
    BY <1>a, <1>1, <1>3, <1>10 DEF MapInv, Brackets
  <2>2. ASSUME NEW r \in TrackRows
        PROVE  cells'[r] = BaseCounts(TrackRows, BaseTrack)[r]
                            + (Stampers(TrackStamp, r, n) + One(r \in TrackStamp[n][s])) - 0
    <3>1. BaseCounts(TrackRows, BaseTrack)[r] \in Nat /\ Stampers(TrackStamp, r, n) \in Nat
          /\ One(r \in TrackStamp[n][s]) \in Nat
      BY <1>4, BaseIsCounted DEF One
    <3>2. cells[r] = BaseCounts(TrackRows, BaseTrack)[r]
                       + (Stampers(TrackStamp, r, n) + One(r \in TrackStamp[n][t])) - 0
      BY <1>4, <2>1 DEF TrackBalance
    <3>3. /\ track[r] = (IF r \in TrackStamp[n][t] /\ cells[r] > 0 THEN cells[r] - 1 ELSE cells[r])
          /\ cells'[r] = track[r] + One(r \in TrackStamp[n][s])
          /\ One(r \in TrackStamp[n][t]) = IF r \in TrackStamp[n][t] THEN 1 ELSE 0
      BY <1>8, <1>9 DEF One
    <3>4. track[r] = BaseCounts(TrackRows, BaseTrack)[r] + Stampers(TrackStamp, r, n)
      BY <3>1, <3>2, <3>3
    <3> QED
      BY <3>1, <3>3, <3>4
  <2> QED
    BY <1>1, <1>3, <1>4, <2>1, <2>2 DEF TrackBalance
<1>11. TypeOK' /\ Brackets'
  <2>1. cached' \in [Nets -> Coppers] /\ copper' \in [Nets -> Coppers]
    BY <1>a, <1>1
  <2> QED
    BY <1>a, <1>1, <1>3, <1>7, <1>9, <2>1 DEF TypeOK, Brackets
<1> QED
  BY <1>7, <1>10, <1>11 DEF MapInv
LEMMA MapNext ==
  ASSUME MapInv, [Next]_vars
  PROVE  MapInv'
<1>a. TypeOK
  BY DEF MapInv
<1>1. ASSUME NEW n \in Nets, Prepare(n) PROVE MapInv'
  BY <1>1, PrepareKeepsMap
<1>2. ASSUME NEW n \in Nets, NEW s \in Coppers, Restamp(n, s) PROVE MapInv'
  BY <1>2, RestampKeepsMap
<1>3. ASSUME NEW n \in Nets, NEW ring \in Ring[n], RegisterTapVia(ring) PROVE MapInv'
  BY <1>3, RegisterTapViaKeepsMap
<1>4. CASE TapsEnd
  BY <1>4, TapsEndKeepsMap
<1>5. CASE RestoreAfterFailure
  <2>1. PICK n, s : n = routing /\ s = cached[routing]
    OBVIOUS
  <2>2. /\ routing = n /\ rings = <<>> /\ Restored(n, s)
        /\ UNCHANGED <<mode, rings>> /\ copper' = copper /\ cached' = cached
        /\ n \in Nets /\ s \in Coppers
    BY <1>a, <1>5, <2>1 DEF RestoreAfterFailure, TypeOK
  <2>3. /\ copper' \in [Nets -> Coppers] /\ cached' \in [Nets -> Coppers]
        /\ cached'[n] = s /\ \A m \in Nets \ {n} : cached'[m] = cached[m]
    BY <1>a, <2>1, <2>2 DEF TypeOK
  <2> QED
    BY <2>2, <2>3, RestoredKeepsMap
<1>6. ASSUME NEW s \in Coppers, RestoreAfterSuccess(s) PROVE MapInv'
  <2>1. PICK n : n = routing
    OBVIOUS
  <2>2. /\ routing = n /\ rings = <<>> /\ Restored(n, s)
        /\ UNCHANGED <<mode, rings>> /\ n \in Nets
        /\ copper' = [copper EXCEPT ![n] = s] /\ cached' = [cached EXCEPT ![n] = s]
    BY <1>a, <1>6, <2>1 DEF RestoreAfterSuccess, TypeOK
  <2>3. /\ copper' \in [Nets -> Coppers] /\ cached' \in [Nets -> Coppers]
        /\ cached'[n] = s /\ \A m \in Nets \ {n} : cached'[m] = cached[m]
    BY <1>a, <2>2 DEF TypeOK
  <2> QED
    BY <2>2, <2>3, RestoredKeepsMap
<1>7. CASE UNCHANGED vars
  <2>1. UNCHANGED <<mode, cells, vias, small, copper, cached, routing, keepOut, rings, lifted>>
    BY <1>7 DEF vars
  <2>2. /\ TypeOK' /\ Brackets' /\ (CorridorCounts' <=> CorridorCounts)
    BY <1>a, <2>1 DEF MapInv, TypeOK, Brackets, TieNet, CorridorCounts, StaticBase
  <2>3. ViaBalance' /\ (CorridorCounts => TrackBalance')
    BY <2>1 DEF MapInv, ViaBalance, TrackBalance, BaseCounts, StaticBase, SmallRung, Stampers
  <2> QED
    BY <2>2, <2>3 DEF MapInv
<1> QED
  BY <1>1, <1>2, <1>3, <1>4, <1>5, <1>6, <1>7 DEF Next

LEMMA MapInvariant == Spec => []MapInv
<1>1. Init => MapInv
  BY MapInit
<1>2. MapInv /\ [Next]_vars => MapInv'
  BY MapNext
<1> QED
  BY <1>1, <1>2, PTL DEF Spec

----------------------------------------------------------------------------
(* What the audit asks of the map (run_obstacle_audit: working == base +   *)
(* sum of the current caches) holds in every run in which the corridor of  *)
(* a net tie is counted: whatever the stamps overlap and however searches, *)
(* tap vias, failures and re-stamps follow each other.                     *)
THEOREM MapStaysBalanced == Spec => [](CorridorCounts => MapsBalanced)
<1>1. MapInv => (CorridorCounts => MapsBalanced)
  <2> SUFFICES ASSUME MapInv, CorridorCounts PROVE MapsBalanced
    OBVIOUS
  <2>1. TypeOK /\ (routing = None => keepOut = <<>> /\ rings = <<>> /\ ~lifted)
    BY DEF MapInv, Brackets
  <2>2. TrackBalance /\ ViaBalance
    BY DEF MapInv
  <2> QED
    BY <2>1, <2>2 DEF MapsBalanced, TrackBalance, ViaBalance
<1> QED
  BY <1>1, MapInvariant, PTL

(* #568: the small map is kept in step by hand at every add and remove of  *)
(* the two others, and an empty one falls back to the full-size answer: a  *)
(* small via is refused on another net's copper, on the base and in the    *)
(* keep-outs and rings of the net itself, in every mode of the run.        *)
THEOREM SmallViasStayProven == Spec => []SmallViasAreProven
<1>1. MapInv => SmallViasAreProven
  <2> SUFFICES ASSUME MapInv, NEW r \in ViaRows, routing # None
               PROVE  /\ (\E n \in Nets \ {routing} : r \in SmallStamp[n][cached[n]]) => SmallBlocked(r)
                      /\ r \in BaseVia => SmallBlocked(r)
                      /\ HeldBy(keepOut, r) + HeldBy(rings, r) > 0 => SmallBlocked(r)
    BY DEF SmallViasAreProven
  <2>a. /\ TypeOK /\ ViaBalance /\ HeldBy(keepOut, r) \in Nat /\ HeldBy(rings, r) \in Nat
        /\ \A n \in Nets : cached[n] \in Coppers
        /\ BaseCounts(ViaRows, BaseVia)[r] = One(~StaticBase /\ r \in BaseVia)
        /\ SmallRung => StaticBase
    <3>1. SmallRung => StaticBase
      BY ModesAssumption DEF MapInv, TypeOK, SmallRung, StaticBase
    <3> QED
      BY <3>1, Sorts
  <2>1. /\ Stampers(SmallStamp, r, routing) \in Nat /\ Stampers(ViaStamp, r, routing) \in Nat
        /\ (\E n \in Nets \ {routing} : r \in SmallStamp[n][cached[n]])
             <=> Stampers(SmallStamp, r, routing) > 0
        /\ (\E n \in Nets \ {routing} : r \in ViaStamp[n][cached[n]])
             <=> Stampers(ViaStamp, r, routing) > 0
    BY StampersAreCounted
  <2>2. Stampers(SmallStamp, r, routing) > 0 => Stampers(ViaStamp, r, routing) > 0
    BY <2>a, <2>1, SmallIsSmaller
  <2>3. /\ vias[r] = One(~StaticBase /\ r \in BaseVia) + Stampers(ViaStamp, r, routing)
                       + HeldBy(keepOut, r) + HeldBy(rings, r)
        /\ small[r] = IF SmallRung
                       THEN Stampers(SmallStamp, r, routing) + HeldBy(keepOut, r) + HeldBy(rings, r)
                       ELSE 0
    BY <2>a DEF ViaBalance
  <2>4. CASE ~SmallRung
    <3>1. BlockedRows(small) = {}
      BY <2>a, <2>4 DEF ViaBalance, BlockedRows, TypeOK
    <3>2. SmallBlocked(r) <=> ViaBlocked(r)
      BY <3>1 DEF SmallBlocked
    <3>3. ViaBlocked(r) <=> vias[r] > 0 \/ (StaticBase /\ r \in BaseVia)
      BY DEF ViaBlocked, StaticVia
    <3> QED
      BY <2>a, <2>1, <2>2, <2>3, <3>2, <3>3 DEF One
  <2>5. CASE SmallRung
    <3>1. /\ small[r] = Stampers(SmallStamp, r, routing) + HeldBy(keepOut, r) + HeldBy(rings, r)
          /\ StaticBase
      BY <2>a, <2>3, <2>5
    <3>2. small[r] > 0 => SmallBlocked(r)
      BY <2>a DEF SmallBlocked, BlockedRows, TypeOK
    <3>3. r \in BaseVia => SmallBlocked(r)
      BY <3>1 DEF SmallBlocked, ViaBlocked, StaticVia
    <3> QED
      BY <2>a, <2>1, <3>1, <3>2, <3>3
  <2> QED
    BY <2>4, <2>5
<1> QED
  BY <1>1, MapInvariant, PTL

(* A search finds a track row blocked exactly when another net, or the     *)
(* base less the opened corridor, takes it, in every run in which the      *)
(* corridor of a net tie is counted.                                       *)
THEOREM SearchesSeeTheOthers == Spec => [](CorridorCounts => SearchSeesTheOthers)
<1>1. MapInv => (CorridorCounts => SearchSeesTheOthers)
  <2> SUFFICES ASSUME MapInv, CorridorCounts, NEW r \in TrackRows, routing # None
               PROVE  TrackBlocked(r) <=>
                        \/ r \in BaseTrack \ (IF lifted THEN TieRows ELSE {})
                        \/ \E n \in Nets \ {routing} : r \in TrackStamp[n][cached[n]]
    BY DEF SearchSeesTheOthers
  <2>1. /\ Stampers(TrackStamp, r, routing) \in Nat
        /\ (\E n \in Nets \ {routing} : r \in TrackStamp[n][cached[n]])
             <=> Stampers(TrackStamp, r, routing) > 0
    BY StampersAreCounted
  <2>2. cells[r] = One(~StaticBase /\ r \in BaseTrack) + Stampers(TrackStamp, r, routing)
                     - (IF lifted /\ r \in TieRows THEN 1 ELSE 0)
    BY BaseIsCounted DEF MapInv, TrackBalance
  <2>3. lifted => ~StaticBase
    BY DEF MapInv, Brackets, CorridorCounts, TypeOK
  <2>4. r \in TieRows => r \in BaseTrack
    BY RowsAssumption
  <2>5. TrackBlocked(r) <=> cells[r] > 0 \/ (StaticBase /\ r \in BaseTrack)
    BY DEF TrackBlocked, StaticTrack
  <2>6. One(~StaticBase /\ r \in BaseTrack) = IF ~StaticBase /\ r \in BaseTrack THEN 1 ELSE 0
    BY DEF One
  <2> QED
    BY <2>1, <2>2, <2>3, <2>4, <2>5, <2>6
<1> QED
  BY <1>1, MapInvariant, PTL
================================================================================
