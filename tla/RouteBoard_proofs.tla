------------------------------ MODULE RouteBoard_proofs ------------------------------
(***************************************************************************)
(* What each primitive of RouteBoard preserves, for every board: the shape *)
(* of the state, the reference counts of the map, the mirror between cache *)
(* and board, and NoShort.  The proofs about the loops (RipReroute_proofs) *)
(* and about phase 3 (TapCascade_proofs) cite one lemma per primitive.     *)
(***************************************************************************)
EXTENDS RouteBoard, FiniteSetTheorems, TLAPS

(* The part of the board's state a search and a restore depend on: the map *)
(* and the cache that mirror the board, and a board without shorts.        *)
Mapped == BoardTypeOK /\ CacheMirrorsBoard /\ MapCovers

BoardInv ==
  /\ BoardTypeOK
  /\ CacheMirrorsBoard
  /\ MapCovers
  /\ NoShort

(* What a row counts beyond the stamps of the nets.                        *)
Surplus(c) == work[c] - Cardinality(Stampers(c))

(* Counting up a batch raises exactly the counts of its rows, and counting *)
(* it down again is exact as long as every row of it is held.              *)
LEMMA AddRemoveRows ==
  ASSUME NEW count \in [Cells -> Nat], NEW rows
  PROVE  /\ AddRows(count, rows) \in [Cells -> Nat]
         /\ RemoveRows(count, rows) \in [Cells -> Nat]
         /\ \A c \in Cells :
              /\ c \in rows => AddRows(count, rows)[c] = count[c] + 1
              /\ c \notin rows => AddRows(count, rows)[c] = count[c]
              /\ c \in rows /\ count[c] > 0 => RemoveRows(count, rows)[c] = count[c] - 1
              /\ c \notin rows => RemoveRows(count, rows)[c] = count[c]
  BY DEF AddRows, RemoveRows

(* How many nets stamp a row when net n replaces its rows by new ones.     *)
LEMMA StampersAfterRestamp ==
  ASSUME BoardTypeOK, NEW n \in Nets, NEW cells \in SUBSET Cells, NEW c \in Cells,
         cache' = [cache EXCEPT ![n] = cells]
  PROVE  /\ Cardinality(Stampers(c)) \in Nat
         /\ Cardinality(Stampers(c)') \in Nat
         /\ c \in cache[n] => Cardinality(Stampers(c)) > 0
         /\ Cardinality(Stampers(c)') =
              Cardinality(Stampers(c)) - (IF c \in cache[n] THEN 1 ELSE 0)
                                       + (IF c \in cells THEN 1 ELSE 0)
<1> DEFINE S == Stampers(c)
           T == S \ {n}
<1>1. IsFiniteSet(S) /\ Cardinality(S) \in Nat
  BY NetsAssumption, FS_Subset, FS_CardinalityType DEF Stampers
<1>2. n \in S <=> c \in cache[n]
  BY DEF Stampers
<1>3. IsFiniteSet(T)
      /\ Cardinality(T) = IF n \in S THEN Cardinality(S) - 1 ELSE Cardinality(S)
  BY <1>1, FS_RemoveElement
<1>4. Stampers(c)' = IF c \in cells THEN T \cup {n} ELSE T
  BY DEF Stampers, BoardTypeOK
<1>5. Cardinality(T \cup {n}) = Cardinality(T) + 1
  <2>1. n \notin T
    OBVIOUS
  <2> QED
    BY <2>1, <1>3, FS_AddElement
<1>6. n \in S => Cardinality(S) > 0
  BY <1>1, FS_EmptySet
<1>7. Cardinality(T) \in Nat
  BY <1>3, FS_CardinalityType
<1> QED
  BY <1>1, <1>2, <1>3, <1>4, <1>5, <1>6, <1>7

(* Taking a net's rows out of the map and stamping new ones keeps every    *)
(* stamp covered, keeps the cache on the board, and keeps the counts exact *)
(* where they were exact (#309).                                           *)
LEMMA RestampPreservesMap ==
  ASSUME BoardTypeOK, CacheMirrorsBoard, MapCovers,
         NEW n \in Nets, NEW cells \in SUBSET Cells, Restamp(n, cells)
  PROVE  /\ copper' \in [Nets -> SUBSET Cells]
         /\ cache' \in [Nets -> SUBSET Cells]
         /\ work' \in [Cells -> Nat]
         /\ CacheMirrorsBoard'
         /\ MapCovers'
         /\ MapBalanced => MapBalanced'
         /\ \A c \in Cells : Surplus(c)' = Surplus(c)
<1>1. copper' \in [Nets -> SUBSET Cells] /\ cache' \in [Nets -> SUBSET Cells]
  BY DEF Restamp, BoardTypeOK
<1>2. CacheMirrorsBoard'
  BY DEF Restamp, CacheMirrorsBoard
<1> DEFINE taken == RemoveRows(work, cache[n])
<1>3. taken \in [Cells -> Nat]
  BY AddRemoveRows DEF BoardTypeOK
<1>4. work' = AddRows(taken, cells)
  BY DEF Restamp
<1>5. work' \in [Cells -> Nat]
  BY <1>3, <1>4, AddRemoveRows
<1>6. ASSUME NEW c \in Cells
      PROVE  /\ work'[c] >= Cardinality(Stampers(c)')
             /\ work[c] = Cardinality(Stampers(c)) => work'[c] = Cardinality(Stampers(c)')
             /\ Surplus(c)' = Surplus(c)
  <2>1. work[c] \in Nat /\ work[c] >= Cardinality(Stampers(c))
    BY DEF BoardTypeOK, MapCovers
  <2>2. cache' = [cache EXCEPT ![n] = cells]
    BY DEF Restamp
  <2>3. /\ Cardinality(Stampers(c)) \in Nat
        /\ c \in cache[n] => Cardinality(Stampers(c)) > 0
        /\ Cardinality(Stampers(c)') =
             Cardinality(Stampers(c)) - (IF c \in cache[n] THEN 1 ELSE 0)
                                      + (IF c \in cells THEN 1 ELSE 0)
    BY <2>2, StampersAfterRestamp
  <2>4. taken[c] = IF c \in cache[n] THEN work[c] - 1 ELSE work[c]
    BY <2>1, <2>3, AddRemoveRows DEF BoardTypeOK
  <2>5. work'[c] = IF c \in cells THEN taken[c] + 1 ELSE taken[c]
    BY <1>3, <1>4, AddRemoveRows
  <2> HIDE DEF taken
  <2> QED
    BY <2>1, <2>3, <2>4, <2>5 DEF Surplus
<1>7. MapCovers'
  BY <1>6 DEF MapCovers
<1>8. MapBalanced => MapBalanced'
  BY <1>6 DEF MapBalanced
<1> QED
  BY <1>1, <1>2, <1>5, <1>6, <1>7, <1>8

(* New copper of one net that touches nobody else's keeps the board clean. *)
LEMMA DisjointCopperKeepsNoShort ==
  ASSUME BoardTypeOK, NoShort, NEW n \in Nets, NEW cells \in SUBSET Cells,
         \A m \in Nets \ {n} : cells \cap copper[m] = {},
         copper' = [copper EXCEPT ![n] = cells]
  PROVE  NoShort'
  BY DEF NoShort, BoardTypeOK

(* A row that the map without net n leaves free holds nobody else's copper. *)
LEMMA FreeRowsAreFree ==
  ASSUME BoardTypeOK, CacheMirrorsBoard, MapCovers,
         NEW n \in Nets, NEW m \in Nets \ {n}, NEW c \in Cells,
         c \notin BlockedRows(PreparedMap(n))
  PROVE  c \notin copper[m]
<1> SUFFICES ASSUME c \in copper[m] PROVE FALSE
  OBVIOUS
<1>1. work[c] \in Nat /\ work[c] >= Cardinality(Stampers(c))
  BY DEF BoardTypeOK, MapCovers
<1>2. m \in Stampers(c)
  BY DEF Stampers, CacheMirrorsBoard
<1>3. IsFiniteSet(Stampers(c)) /\ Cardinality(Stampers(c)) \in Nat
  BY NetsAssumption, FS_Subset, FS_CardinalityType DEF Stampers
<1>4. c \in cache[n] => Cardinality(Stampers(c)) > 1
  <2> SUFFICES ASSUME c \in cache[n] PROVE Cardinality(Stampers(c)) > 1
    OBVIOUS
  <2>1. n \in Stampers(c)
    BY DEF Stampers
  <2>2. IsFiniteSet(Stampers(c) \ {n})
        /\ Cardinality(Stampers(c) \ {n}) = Cardinality(Stampers(c)) - 1
    BY <1>3, <2>1, FS_RemoveElement
  <2>3. Cardinality(Stampers(c) \ {n}) # 0
    <3>1. m \in Stampers(c) \ {n}
      BY <1>2
    <3> QED
      BY <3>1, <2>2, FS_EmptySet
  <2>4. Cardinality(Stampers(c) \ {n}) \in Nat
    BY <2>2, FS_CardinalityType
  <2> QED
    BY <1>3, <2>2, <2>3, <2>4
<1>5. Cardinality(Stampers(c)) > 0
  BY <1>2, <1>3, FS_EmptySet
<1>6. RemoveRows(work, cache[n])[c] > 0
  <2>1. work \in [Cells -> Nat]
    BY DEF BoardTypeOK
  <2>2. CASE c \in cache[n]
    <3>1. work[c] > 1
      BY <2>2, <1>1, <1>3, <1>4
    <3> QED
      BY <3>1, <2>1, <2>2 DEF RemoveRows
  <2>3. CASE c \notin cache[n]
    <3>1. work[c] > 0
      BY <1>1, <1>3, <1>5
    <3> QED
      BY <3>1, <2>1, <2>3 DEF RemoveRows
  <2> QED
    BY <2>2, <2>3
<1>7. DOMAIN RemoveRows(work, cache[n]) = Cells
  BY DEF RemoveRows, BoardTypeOK
<1> QED
  BY <1>6, <1>7 DEF BlockedRows, PreparedMap

----------------------------------------------------------------------------
(* The board read from the input file has the invariant, with exact counts. *)
LEMMA BoardInitInv ==
  ASSUME BoardInit
  PROVE  BoardInv /\ MapBalanced
<1>1. copper \in [Nets -> SUBSET Cells] /\ cache = copper
  BY CopperAssumption DEF BoardInit, InitCopper
<1>2. routed \in [Nets -> Results \cup {None}]
      /\ \A n \in Nets : IsRouted(n) => routed[n].net = n
  BY CopperAssumption, NetsAssumption DEF BoardInit, FromFile, Results, IsRouted
<1>3. BoardTypeOK
  BY <1>1, <1>2, NetsAssumption DEF BoardInit, BoardTypeOK
<1>4. NoShort
  BY InputBoardIsClean DEF NoShort, BoardInit, InitCopper
<1>5. ASSUME NEW c \in Cells PROVE work[c] = Cardinality(Stampers(c))
  <2>1. CASE \E n \in Nets : c \in InitCopper(n)
    <3>1. PICK n \in Nets : c \in InitCopper(n)
      BY <2>1
    <3>2. Stampers(c) = {n}
      BY <3>1, <1>1, <1>4 DEF Stampers, NoShort, BoardInit
    <3>3. Cardinality(Stampers(c)) = 1
      BY <3>2, FS_Singleton
    <3> QED
      BY <3>3, <2>1 DEF BoardInit
  <2>2. CASE ~\E n \in Nets : c \in InitCopper(n)
    <3>1. Stampers(c) = {}
      BY <2>2, <1>1 DEF Stampers, BoardInit
    <3> QED
      BY <3>1, <2>2, FS_EmptySet DEF BoardInit
  <2> QED
    BY <2>1, <2>2
<1>6. MapBalanced
  BY <1>5 DEF MapBalanced
<1>7. MapCovers
  <2>1. ASSUME NEW c \in Cells PROVE work[c] >= Cardinality(Stampers(c))
    BY <1>5, <1>3 DEF BoardTypeOK
  <2> QED
    BY <2>1 DEF MapCovers
<1> QED
  BY <1>1, <1>3, <1>4, <1>6, <1>7 DEF BoardInv, CacheMirrorsBoard

(* A step that leaves the board alone.                                     *)
LEMMA StutterKeepsBoardInv ==
  ASSUME BoardInv, UNCHANGED boardVars
  PROVE  BoardInv' /\ (MapBalanced => MapBalanced')
<1>1. BoardTypeOK'
  BY DEF BoardInv, BoardTypeOK, boardVars, IsRouted
<1>2. CacheMirrorsBoard' /\ NoShort'
  BY DEF BoardInv, CacheMirrorsBoard, NoShort, boardVars
<1>3. MapCovers' /\ (MapBalanced => MapBalanced')
  BY DEF BoardInv, MapCovers, MapBalanced, Stampers, boardVars
<1> QED
  BY <1>1, <1>2, <1>3 DEF BoardInv

(* A landed route, a rip and a restore keep the map, whatever short the     *)
(* board may have, and leave what a row counts beyond the stamps.          *)
LEMMA RecordSuccessKeepsMap ==
  ASSUME Mapped, NEW n \in Nets, NEW r \in SUBSET Cells, NEW kept \in SUBSET Cells,
         RecordSuccess(n, r, kept)
  PROVE  Mapped' /\ \A c \in Cells : Surplus(c)' = Surplus(c)
<1> USE DEF Mapped
<1>1. kept \in SUBSET Cells
  OBVIOUS
<1>2. Restamp(n, kept \cup r)
  BY DEF RecordSuccess
<1>3. /\ copper' \in [Nets -> SUBSET Cells]
      /\ cache' \in [Nets -> SUBSET Cells]
      /\ work' \in [Cells -> Nat]
      /\ CacheMirrorsBoard' /\ MapCovers' /\ \A c \in Cells : Surplus(c)' = Surplus(c)
  BY <1>1, <1>2, RestampPreservesMap
<1>4. BoardTypeOK'
  <2>1. Found(n, r) \in Results /\ Found(n, r).net = n /\ ~Found(n, r).existing
    BY DEF Found, Results
  <2>2. routed' = [routed EXCEPT ![n] = Found(n, r)]
    BY DEF RecordSuccess, Books
  <2>3. routed' \in [Nets -> Results \cup {None}]
        /\ \A m \in Nets : IsRouted(m)' => routed'[m].net = m
    BY <2>1, <2>2 DEF BoardTypeOK, IsRouted
  <2>4. routedIds' \subseteq Nets /\ paths' \subseteq Nets /\ remaining' \subseteq Nets
        /\ results' \subseteq Results
    BY <2>1 DEF RecordSuccess, Books, BoardTypeOK
  <2> QED
    BY <1>3, <2>3, <2>4 DEF RecordSuccess, BoardTypeOK
<1> QED
  BY <1>3, <1>4

LEMMA RipUpKeepsMap ==
  ASSUME Mapped, NEW n \in Nets, IsRouted(n), RipUp(n)
  PROVE  /\ Mapped' /\ \A c \in Cells : Surplus(c)' = Surplus(c)
         /\ Payload(n) \in Payloads /\ Payload(n).saved.net = n
<1> USE DEF Mapped
<1>1. routed[n] \in Results /\ routed[n].net = n
  BY DEF IsRouted, BoardTypeOK
<1>2. Payload(n) \in Payloads /\ Payload(n).saved.net = n
  BY <1>1 DEF Payload, Payloads
<1> DEFINE left == copper[n] \ routed[n].cells
<1>3. left \in SUBSET Cells
  BY DEF BoardTypeOK
<1>4. Restamp(n, left)
  BY DEF RipUp
<1> HIDE DEF left
<1>5. /\ copper' \in [Nets -> SUBSET Cells]
      /\ cache' \in [Nets -> SUBSET Cells]
      /\ work' \in [Cells -> Nat]
      /\ CacheMirrorsBoard' /\ MapCovers' /\ \A c \in Cells : Surplus(c)' = Surplus(c)
  BY <1>3, <1>4, RestampPreservesMap
<1>6. BoardTypeOK'
  <2>1. routed' \in [Nets -> Results \cup {None}]
        /\ \A m \in Nets : IsRouted(m)' => routed'[m].net = m
    BY DEF RipUp, BoardTypeOK, IsRouted
  <2>2. ripSaved' \in [Nets -> Payloads \cup {None}]
        /\ \A m \in Nets : ripSaved'[m] # None => ripSaved'[m].saved.net = m
    BY <1>2 DEF RipUp, BoardTypeOK
  <2>3. routedIds' \subseteq Nets /\ paths' \subseteq Nets /\ remaining' \subseteq Nets
        /\ results' \subseteq Results
    BY DEF RipUp, BoardTypeOK
  <2> QED
    BY <1>5, <2>1, <2>2, <2>3 DEF RipUp, BoardTypeOK
<1> QED
  BY <1>2, <1>5, <1>6

LEMMA RestoreNetKeepsMap ==
  ASSUME Mapped, NEW n \in Nets, NEW payload \in Payloads, payload.saved.net = n,
         RestoreNet(n, payload)
  PROVE  Mapped' /\ \A c \in Cells : Surplus(c)' = Surplus(c)
<1> USE DEF Mapped
<1>1. payload.saved \in Results /\ payload.saved.cells \in SUBSET Cells
  BY DEF Payloads, Results
<1>2. ripSaved' \in [Nets -> Payloads \cup {None}]
      /\ \A m \in Nets : ripSaved'[m] # None => ripSaved'[m].saved.net = m
  BY DEF RestoreNet, BoardTypeOK
<1>3. CASE Collides(n, payload.saved.cells)
  <2>1. UNCHANGED <<copper, cache, work, routed, routedIds, paths, results, remaining>>
        /\ refused' = [refused EXCEPT ![n] = payload.saved]
    BY <1>3 DEF RestoreNet
  <2>2. BoardTypeOK'
    BY <1>1, <1>2, <2>1 DEF BoardTypeOK, IsRouted
  <2> QED
    BY <2>1, <2>2 DEF CacheMirrorsBoard, MapCovers, Surplus, Stampers
<1>4. CASE ~Collides(n, payload.saved.cells)
  <2>1. /\ Restamp(n, copper[n] \cup payload.saved.cells)
        /\ Books(n, payload.saved)
        /\ results' = IF payload.wasIn THEN results \cup {payload.saved} ELSE results
        /\ UNCHANGED refused
    BY <1>4 DEF RestoreNet
  <2>2. copper[n] \cup payload.saved.cells \in SUBSET Cells
    BY <1>1 DEF BoardTypeOK
  <2>3. /\ copper' \in [Nets -> SUBSET Cells]
        /\ cache' \in [Nets -> SUBSET Cells]
        /\ work' \in [Cells -> Nat]
        /\ CacheMirrorsBoard' /\ MapCovers' /\ \A c \in Cells : Surplus(c)' = Surplus(c)
    BY <2>1, <2>2, RestampPreservesMap
  <2>4. BoardTypeOK'
    <3>1. routed' \in [Nets -> Results \cup {None}]
          /\ \A m \in Nets : IsRouted(m)' => routed'[m].net = m
      BY <1>1, <2>1 DEF Books, BoardTypeOK, IsRouted
    <3>2. routedIds' \subseteq Nets /\ paths' \subseteq Nets /\ remaining' \subseteq Nets
          /\ results' \subseteq Results
      BY <1>1, <2>1 DEF Books, BoardTypeOK
    <3> QED
      BY <1>2, <2>1, <2>3, <3>1, <3>2 DEF BoardTypeOK
  <2> QED
    BY <2>3, <2>4
<1> QED
  BY <1>3, <1>4

(* Where the counts are exact they stay exact.                             *)
LEMMA SurplusKeepsBalance ==
  ASSUME Mapped, Mapped', \A c \in Cells : Surplus(c)' = Surplus(c)
  PROVE  MapBalanced => MapBalanced'
<1>1. ASSUME NEW c \in Cells, work[c] = Cardinality(Stampers(c))
      PROVE  work'[c] = Cardinality(Stampers(c)')
  <2>1. /\ IsFiniteSet(Stampers(c)) /\ IsFiniteSet(Stampers(c)')
        /\ Cardinality(Stampers(c)) \in Nat /\ Cardinality(Stampers(c)') \in Nat
    BY NetsAssumption, FS_Subset, FS_CardinalityType DEF Stampers
  <2>2. work[c] \in Nat /\ work'[c] \in Nat
    BY DEF Mapped, BoardTypeOK
  <2> QED
    BY <1>1, <2>1, <2>2 DEF Surplus
<1> QED
  BY <1>1 DEF MapBalanced

(* A landed route: it was searched on the map without the net, so it keeps *)
(* clear of every other net.                                               *)
LEMMA RecordSuccessKeepsBoardInv ==
  ASSUME BoardInv, NEW n \in Nets, NEW r, NEW kept \in SUBSET copper[n],
         r \in RoutesOn(n, PreparedMap(n)), RecordSuccess(n, r, kept)
  PROVE  BoardInv' /\ (MapBalanced => MapBalanced')
<1> USE DEF BoardInv
<1>1. r \in SUBSET Cells /\ kept \in SUBSET Cells
  BY CopperAssumption DEF RoutesOn, BoardTypeOK
<1>2. Mapped /\ Mapped' /\ (MapBalanced => MapBalanced')
  BY <1>1, RecordSuccessKeepsMap, SurplusKeepsBalance DEF Mapped
<1>3. NoShort'
  <2>1. ASSUME NEW m \in Nets \ {n} PROVE (kept \cup r) \cap copper[m] = {}
    <3>1. kept \cap copper[m] = {}
      BY DEF NoShort
    <3>2. ASSUME NEW c \in r PROVE c \notin copper[m]
      <4>1. c \in Cells /\ c \notin BlockedRows(PreparedMap(n))
        BY <1>1 DEF RoutesOn
      <4> QED
        BY <4>1, FreeRowsAreFree
    <3> QED
      BY <3>1, <3>2
  <2>2. copper' = [copper EXCEPT ![n] = kept \cup r]
    BY DEF RecordSuccess, Restamp
  <2>3. kept \cup r \in SUBSET Cells
    BY <1>1
  <2> QED
    BY <2>1, <2>2, <2>3, DisjointCopperKeepsNoShort
<1> QED
  BY <1>2, <1>3 DEF Mapped

(* A rip only takes copper away.                                           *)
LEMMA RipUpKeepsBoardInv ==
  ASSUME BoardInv, NEW n \in Nets, IsRouted(n), RipUp(n)
  PROVE  /\ BoardInv' /\ (MapBalanced => MapBalanced')
         /\ Payload(n) \in Payloads /\ Payload(n).saved.net = n
<1> USE DEF BoardInv
<1>1. Mapped /\ Mapped' /\ (MapBalanced => MapBalanced')
      /\ Payload(n) \in Payloads /\ Payload(n).saved.net = n
  BY RipUpKeepsMap, SurplusKeepsBalance DEF Mapped
<1>2. NoShort'
  <2>1. \A m \in Nets \ {n} : (copper[n] \ routed[n].cells) \cap copper[m] = {}
    BY DEF NoShort
  <2>2. copper' = [copper EXCEPT ![n] = copper[n] \ routed[n].cells]
    BY DEF RipUp, Restamp
  <2>3. copper[n] \ routed[n].cells \in SUBSET Cells
    BY DEF BoardTypeOK
  <2> QED
    BY <2>1, <2>2, <2>3, DisjointCopperKeepsNoShort
<1> QED
  BY <1>1, <1>2 DEF Mapped

(* Copper put back where no other net has any: what the restores and the   *)
(* stub pieces have in common.                                             *)
LEMMA PutBackKeepsBoard ==
  ASSUME BoardInv, NEW n \in Nets, NEW cells \in SUBSET Cells, ~Collides(n, cells),
         Restamp(n, copper[n] \cup cells)
  PROVE  /\ copper' \in [Nets -> SUBSET Cells]
         /\ cache' \in [Nets -> SUBSET Cells]
         /\ work' \in [Cells -> Nat]
         /\ CacheMirrorsBoard' /\ MapCovers' /\ NoShort'
         /\ MapBalanced => MapBalanced'
<1> USE DEF BoardInv
<1>1. copper[n] \cup cells \in SUBSET Cells
  BY DEF BoardTypeOK
<1>2. \A m \in Nets \ {n} : (copper[n] \cup cells) \cap copper[m] = {}
  BY DEF Collides, OthersCopper, NoShort
<1>3. copper' = [copper EXCEPT ![n] = copper[n] \cup cells]
  BY DEF Restamp
<1>4. NoShort'
  BY <1>1, <1>2, <1>3, DisjointCopperKeepsNoShort
<1> QED
  BY <1>1, <1>4, RestampPreservesMap

(* A restore, refused or not.                                              *)
LEMMA RestoreNetKeepsBoardInv ==
  ASSUME BoardInv, NEW n \in Nets, NEW payload \in Payloads, payload.saved.net = n,
         RestoreNet(n, payload)
  PROVE  BoardInv' /\ (MapBalanced => MapBalanced')
<1> USE DEF BoardInv
<1>1. Mapped /\ Mapped' /\ (MapBalanced => MapBalanced')
  BY RestoreNetKeepsMap, SurplusKeepsBalance DEF Mapped
<1>2. CASE Collides(n, payload.saved.cells)
  BY <1>1, <1>2 DEF RestoreNet, NoShort, Mapped
<1>3. CASE ~Collides(n, payload.saved.cells)
  <2>1. Restamp(n, copper[n] \cup payload.saved.cells) /\ payload.saved.cells \in SUBSET Cells
    BY <1>3 DEF RestoreNet, Payloads, Results
  <2> QED
    BY <1>1, <1>3, <2>1, PutBackKeepsBoard DEF Mapped
<1> QED
  BY <1>2, <1>3

(* The pieces of a terminal stub restore.                                  *)
LEMMA RestoreStubKeepsBoardInv ==
  ASSUME BoardInv, NEW n \in Nets, NEW payload \in Payloads, RestoreStub(n, payload)
  PROVE  BoardInv' /\ (MapBalanced => MapBalanced')
<1> USE DEF BoardInv
<1> DEFINE pieces == ClearStub(n, payload)
<1>1. pieces \in SUBSET Cells
  BY DEF ClearStub, Payloads, Results
<1>2. ~Collides(n, pieces)
  BY DEF ClearStub, Collides
<1>3. Restamp(n, copper[n] \cup pieces)
  BY DEF RestoreStub
<1> HIDE DEF pieces
<1>4. /\ copper' \in [Nets -> SUBSET Cells]
      /\ cache' \in [Nets -> SUBSET Cells]
      /\ work' \in [Cells -> Nat]
      /\ CacheMirrorsBoard' /\ MapCovers' /\ NoShort'
      /\ MapBalanced => MapBalanced'
  BY <1>1, <1>2, <1>3, PutBackKeepsBoard
<1>5. BoardTypeOK'
  BY <1>4 DEF RestoreStub, BoardTypeOK, IsRouted
<1> QED
  BY <1>4, <1>5
=================================================================================
