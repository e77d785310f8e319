--------------------------- MODULE ObstacleMap_proofs ---------------------------
(***************************************************************************)
(* The bitmaps of the obstacle map are an exact cache of the counts, for   *)
(* every grid, margin and cap, and the map implements StampedGrid.         *)
(***************************************************************************)
EXTENDS ObstacleMap, TLAPS

(* A window that is extended keeps what it covered and gains the cell.     *)
LEMMA WindowGrows ==
  ASSUME NEW bm, BitmapOK(bm), NEW c \in Cells
  PROVE  LET w == WindowWith(bm, c) IN
         /\ w.x0 \in Int /\ w.y0 \in Int /\ w.x1 \in Int /\ w.y1 \in Int
         /\ w.x0 <= w.x1 /\ w.y0 <= w.y1
         /\ bm.width > 0 => /\ w.x0 <= bm.minX /\ bm.minX + bm.width - 1 <= w.x1
                            /\ w.y0 <= bm.minY /\ bm.minY + bm.height - 1 <= w.y1
  BY CellsAssumption, SizesAssumption DEF BitmapOK, WindowWith, Lesser, Greater

(* Growing changes where a bitmap keeps its cells, never which.            *)
LEMMA RewindowKeepsCells ==
  ASSUME NEW bm, BitmapOK(bm), NEW w,
         w.x0 \in Int /\ w.y0 \in Int /\ w.x1 \in Int /\ w.y1 \in Int,
         w.x0 <= w.x1 /\ w.y0 <= w.y1,
         bm.width > 0 => /\ w.x0 <= bm.minX /\ bm.minX + bm.width - 1 <= w.x1
                         /\ w.y0 <= bm.minY /\ bm.minY + bm.height - 1 <= w.y1
  PROVE  /\ BitmapOK(Rewindowed(bm, w))
         /\ \A l \in Layers : MarkedCells(Rewindowed(bm, w), l) = MarkedCells(bm, l)
<1> DEFINE r == Resized(bm, w)
           g == Rewindowed(bm, w)
           Wide == 0..(w.x1 - w.x0)
           High == 0..(w.y1 - w.y0)
<1>1. /\ r.minX = w.x0 /\ r.minY = w.y0
      /\ r.width = w.x1 - w.x0 + 1 /\ r.height = w.y1 - w.y0 + 1
  BY DEF Resized
<1>2. /\ g.minX = w.x0 /\ g.minY = w.y0
      /\ g.width = w.x1 - w.x0 + 1 /\ g.height = w.y1 - w.y0 + 1
      /\ \A l \in Layers :
           /\ g.bits[l] = Remapped(bm, w, l)
                            \cup {Offset(r, d) : d \in Migrating(bm, w, l)}
           /\ g.overflow[l] = bm.overflow[l] \ Migrating(bm, w, l)
  BY <1>1 DEF Rewindowed
<1>3. ASSUME NEW l \in Layers
      PROVE  /\ g.bits[l] \subseteq Wide \X High
             /\ g.overflow[l] \subseteq Cells
             /\ \A d \in g.overflow[l] : ~InWindow(g, d)
             /\ MarkedCells(g, l) = MarkedCells(bm, l)
  <2>1. /\ bm.bits[l] \subseteq (0..(bm.width - 1)) \X (0..(bm.height - 1))
        /\ bm.overflow[l] \subseteq Cells
        /\ bm.minX \in Int /\ bm.minY \in Int /\ bm.width \in Nat /\ bm.height \in Nat
    BY DEF BitmapOK
  <2>2. bm.overflow[l] \subseteq Int \X Int
    BY <2>1, CellsAssumption
  <2> HIDE DEF g, r
  <2>3. \A p \in bm.bits[l] :
          /\ p \in Int \X Int
          /\ p[1] + bm.minX - w.x0 \in Wide
          /\ p[2] + bm.minY - w.y0 \in High
    BY <2>1
  <2>4. Remapped(bm, w, l) \subseteq Wide \X High
    BY <2>3 DEF Remapped
  <2>5. \A d \in Migrating(bm, w, l) :
          /\ d \in bm.overflow[l] /\ d \in Int \X Int
          /\ d[1] - w.x0 \in Wide /\ d[2] - w.y0 \in High
          /\ Offset(r, d) = <<d[1] - w.x0, d[2] - w.y0>>
    BY <1>1, <2>2 DEF Migrating, InWindow, Offset, r
  <2>6. g.bits[l] \subseteq Wide \X High
    BY <1>2, <2>4, <2>5
  <2>7. \A d \in g.overflow[l] : ~InWindow(g, d)
    BY <1>1, <1>2 DEF Migrating, InWindow, r
  <2>8. \A x : x \in {<<q[1] + w.x0, q[2] + w.y0>> : q \in Remapped(bm, w, l)}
             <=> x \in {<<p[1] + bm.minX, p[2] + bm.minY>> : p \in bm.bits[l]}
    <3>1. \A p \in bm.bits[l] :
            /\ (p[1] + bm.minX - w.x0) + w.x0 = p[1] + bm.minX
            /\ (p[2] + bm.minY - w.y0) + w.y0 = p[2] + bm.minY
      BY <2>1, <2>3
    <3> DEFINE At(q) == <<q[1] + w.x0, q[2] + w.y0>>
               Was(p) == <<p[1] + bm.minX, p[2] + bm.minY>>
               Is(p) == <<p[1] + bm.minX - w.x0, p[2] + bm.minY - w.y0>>
    <3>2. \A p \in bm.bits[l] : At(Is(p)) = Was(p)
      BY <3>1
    <3>3. Remapped(bm, w, l) = {Is(p) : p \in bm.bits[l]}
      BY DEF Remapped
    <3> HIDE DEF At, Was, Is
    <3>4. \A x : x \in {At(q) : q \in {Is(p) : p \in bm.bits[l]}}
                <=> x \in {Was(p) : p \in bm.bits[l]}
      BY <3>2
    <3> QED
      BY <3>3, <3>4 DEF At, Was
  <2>9. \A x : x \in {<<q[1] + w.x0, q[2] + w.y0>> :
                        q \in {Offset(r, d) : d \in Migrating(bm, w, l)}}
             <=> x \in Migrating(bm, w, l)
    <3>1. ASSUME NEW d \in Migrating(bm, w, l)
          PROVE  <<Offset(r, d)[1] + w.x0, Offset(r, d)[2] + w.y0>> = d
      <4>1. d \in Int \X Int
        BY <2>5
      <4>2. PICK a \in Int, b \in Int : d = <<a, b>>
        BY <4>1
      <4>3. Offset(r, d) = <<a - w.x0, b - w.y0>>
        BY <2>5, <4>2
      <4>4. (a - w.x0) + w.x0 = a /\ (b - w.y0) + w.y0 = b
        OBVIOUS
      <4> QED
        BY <4>2, <4>3, <4>4
    <3> DEFINE At(q) == <<q[1] + w.x0, q[2] + w.y0>>
    <3>2. \A d \in Migrating(bm, w, l) : At(Offset(r, d)) = d
      BY <3>1
    <3> HIDE DEF At
    <3>3. \A x : x \in {At(q) : q \in {Offset(r, d) : d \in Migrating(bm, w, l)}}
                <=> x \in Migrating(bm, w, l)
      BY <3>2
    <3> QED
      BY <3>3 DEF At
  <2>10. Migrating(bm, w, l) \subseteq bm.overflow[l]
    BY DEF Migrating
  <2>11. MarkedCells(g, l) = MarkedCells(bm, l)
    BY <1>2, <2>8, <2>9, <2>10 DEF MarkedCells
  <2> QED
    BY <1>2, <2>1, <2>6, <2>7, <2>11
<1>4. g \in [minX : Int, minY : Int, width : Nat, height : Nat,
             bits : [Layers -> SUBSET (Int \X Int)],
             overflow : [Layers -> SUBSET Cells]]
  <2>1. /\ g.bits = [l \in Layers |-> g.bits[l]]
        /\ g.overflow = [l \in Layers |-> g.overflow[l]]
    BY DEF Rewindowed
  <2>2. \A l \in Layers : g.bits[l] \in SUBSET (Int \X Int) /\ g.overflow[l] \in SUBSET Cells
    BY <1>3
  <2>3. g = [minX |-> g.minX, minY |-> g.minY, width |-> g.width, height |-> g.height,
             bits |-> g.bits, overflow |-> g.overflow]
    BY DEF Rewindowed
  <2> HIDE DEF g
  <2>4. g.bits \in [Layers -> SUBSET (Int \X Int)] /\ g.overflow \in [Layers -> SUBSET Cells]
    BY <2>1, <2>2
  <2>5. g.minX \in Int /\ g.minY \in Int /\ g.width \in Nat /\ g.height \in Nat
    BY <1>2
  <2> QED
    BY <2>3, <2>4, <2>5
<1> QED
  <2>1. BitmapOK(g)
    BY <1>2, <1>3, <1>4 DEF BitmapOK
  <2> QED
    BY <2>1, <1>3

LEMMA GrowthKeepsCells ==
  ASSUME NEW bm, BitmapOK(bm), NEW c \in Cells
  PROVE  /\ BitmapOK(Grown(bm, c))
         /\ \A l \in Layers : MarkedCells(Grown(bm, c), l) = MarkedCells(bm, l)
<1> DEFINE w == WindowWith(bm, c)
<1>1. /\ w.x0 \in Int /\ w.y0 \in Int /\ w.x1 \in Int /\ w.y1 \in Int
      /\ w.x0 <= w.x1 /\ w.y0 <= w.y1
      /\ bm.width > 0 => /\ w.x0 <= bm.minX /\ bm.minX + bm.width - 1 <= w.x1
                         /\ w.y0 <= bm.minY /\ bm.minY + bm.height - 1 <= w.y1
  BY WindowGrows
<1>2. Grown(bm, c) = bm \/ Grown(bm, c) = Rewindowed(bm, w)
  BY DEF Grown
<1> HIDE DEF w
<1>3. /\ BitmapOK(Rewindowed(bm, w))
      /\ \A l \in Layers : MarkedCells(Rewindowed(bm, w), l) = MarkedCells(bm, l)
  BY <1>1, RewindowKeepsCells
<1> QED
  BY <1>2, <1>3

(* Where a bitmap keeps a cell is where a query looks for it.              *)
LEMMA TestFindsMarked ==
  ASSUME NEW bm, BitmapOK(bm), NEW l \in Layers, NEW c \in Cells
  PROVE  Test(bm, l, c) <=> c \in MarkedCells(bm, l)
<1>1. c \in Int \X Int
  BY CellsAssumption
<1>2. ASSUME NEW p \in bm.bits[l]
      PROVE  p \in (0..(bm.width - 1)) \X (0..(bm.height - 1))
  BY DEF BitmapOK
<1>3. CASE InWindow(bm, c)
  BY <1>1, <1>2, <1>3 DEF Test, MarkedCells, Offset, InWindow, BitmapOK
<1>4. CASE ~InWindow(bm, c)
  BY <1>1, <1>2, <1>4 DEF Test, MarkedCells, InWindow, BitmapOK
<1> QED
  BY <1>3, <1>4

(* Setting and clearing a bit changes that cell of that layer only.        *)
LEMMA MarkAddsCell ==
  ASSUME NEW bm, BitmapOK(bm), NEW l \in Layers, NEW c \in Cells
  PROVE  /\ BitmapOK(Marked(bm, l, c))
         /\ \A k \in Layers : MarkedCells(Marked(bm, l, c), k) =
              IF k = l THEN MarkedCells(bm, k) \cup {c} ELSE MarkedCells(bm, k)
<1>1. c \in Int \X Int
  BY CellsAssumption
<1>2. CASE InWindow(bm, c)
  <2> DEFINE m == [bm EXCEPT !.bits[l] = @ \cup {Offset(bm, c)}]
  <2>1. Marked(bm, l, c) = m
    BY <1>2 DEF Marked
  <2>2. Offset(bm, c) \in (0..(bm.width - 1)) \X (0..(bm.height - 1))
    BY <1>1, <1>2 DEF Offset, InWindow, BitmapOK
  <2>3. <<Offset(bm, c)[1] + bm.minX, Offset(bm, c)[2] + bm.minY>> = c
    BY <1>1 DEF Offset, BitmapOK
  <2>4. BitmapOK(m)
    BY <2>2 DEF BitmapOK, InWindow
  <2>5. ASSUME NEW k \in Layers
        PROVE  MarkedCells(m, k) =
                 IF k = l THEN MarkedCells(bm, k) \cup {c} ELSE MarkedCells(bm, k)
    BY <2>3 DEF MarkedCells, BitmapOK
  <2> QED
    BY <2>1, <2>4, <2>5
<1>3. CASE ~InWindow(bm, c)
  BY <1>3 DEF Marked, BitmapOK, InWindow, MarkedCells
<1> QED
  BY <1>2, <1>3

LEMMA SetBitAddsCell ==
  ASSUME NEW bm, BitmapOK(bm), NEW l \in Layers, NEW c \in Cells
  PROVE  /\ BitmapOK(SetBit(bm, l, c))
         /\ \A k \in Layers : MarkedCells(SetBit(bm, l, c), k) =
              IF k = l THEN MarkedCells(bm, k) \cup {c} ELSE MarkedCells(bm, k)
<1> DEFINE b == IF InWindow(bm, c) THEN bm ELSE Grown(bm, c)
<1>1. BitmapOK(b) /\ \A k \in Layers : MarkedCells(b, k) = MarkedCells(bm, k)
  BY GrowthKeepsCells
<1>2. SetBit(bm, l, c) = Marked(b, l, c)
  BY DEF SetBit
<1> HIDE DEF b
<1> QED
  BY <1>1, <1>2, MarkAddsCell

LEMMA ClearBitRemovesCell ==
  ASSUME NEW bm, BitmapOK(bm), NEW l \in Layers, NEW c \in Cells
  PROVE  /\ BitmapOK(ClearBit(bm, l, c))
         /\ \A k \in Layers : MarkedCells(ClearBit(bm, l, c), k) =
              IF k = l THEN MarkedCells(bm, k) \ {c} ELSE MarkedCells(bm, k)
<1>1. c \in Int \X Int
  BY CellsAssumption
<1>2. ASSUME NEW k \in Layers, NEW p \in bm.bits[k]
      PROVE  /\ p \in Int \X Int
             /\ p \in (0..(bm.width - 1)) \X (0..(bm.height - 1))
             /\ p = <<p[1], p[2]>>
  BY DEF BitmapOK
<1>3. CASE InWindow(bm, c)
  <2> DEFINE m == [bm EXCEPT !.bits[l] = @ \ {Offset(bm, c)}]
  <2>1. ClearBit(bm, l, c) = m
    BY <1>3 DEF ClearBit
  <2>2. BitmapOK(m)
    BY DEF BitmapOK, InWindow
  <2>3. c \notin bm.overflow[l]
    BY <1>3 DEF BitmapOK
  <2>4. \A p \in bm.bits[l] :
          p = Offset(bm, c) <=> <<p[1] + bm.minX, p[2] + bm.minY>> = c
    BY <1>1, <1>2 DEF Offset, BitmapOK
  <2>5. ASSUME NEW k \in Layers
        PROVE  MarkedCells(m, k) =
                 IF k = l THEN MarkedCells(bm, k) \ {c} ELSE MarkedCells(bm, k)
    BY <2>3, <2>4 DEF MarkedCells, BitmapOK
  <2> QED
    BY <2>1, <2>2, <2>5
<1>4. CASE ~InWindow(bm, c)
  <2> DEFINE m == [bm EXCEPT !.overflow[l] = @ \ {c}]
  <2>1. ClearBit(bm, l, c) = m
    BY <1>4 DEF ClearBit
  <2>2. BitmapOK(m)
    BY DEF BitmapOK, InWindow
  <2>3. \A p \in bm.bits[l] : <<p[1] + bm.minX, p[2] + bm.minY>> # c
    BY <1>1, <1>2, <1>4 DEF InWindow, BitmapOK
  <2>4. ASSUME NEW k \in Layers
        PROVE  MarkedCells(m, k) =
                 IF k = l THEN MarkedCells(bm, k) \ {c} ELSE MarkedCells(bm, k)
    BY <2>3 DEF MarkedCells, BitmapOK
  <2> QED
    BY <2>1, <2>2, <2>4
<1> QED
  BY <1>3, <1>4

----------------------------------------------------------------------------
IInv == TypeOK /\ BitmapCachesCounts

LEMMA NewBitmapOK ==
  BitmapOK(NewBitmap) /\ \A l \in Layers : MarkedCells(NewBitmap, l) = {}
  BY DEF NewBitmap, BitmapOK, MarkedCells, InWindow

LEMMA InitInv == Init => IInv
<1> SUFFICES ASSUME Init PROVE IInv
  OBVIOUS
<1>1. MaxStamps \in Nat
  BY SizesAssumption DEF MaxStamps
<1>2. TypeOK
  BY <1>1, NewBitmapOK DEF Init, TypeOK
<1>3. BitmapCachesCounts
  BY NewBitmapOK DEF Init, BitmapCachesCounts
<1> QED
  BY <1>2, <1>3 DEF IInv

LEMMA SmallRemainder ==
  ASSUME NEW n \in Nat, NEW a \in Nat, a < n
  PROVE  a % n = a
  BY Z3

(* An add marks the cell when it is the first stamp of it.                 *)
LEMMA AddKeepsInv ==
  ASSUME IInv, NEW l \in Layers, NEW c \in Cells, AddBlockedCell(l, c)
  PROVE  /\ IInv'
         /\ count' = [count EXCEPT ![l][c] = count[l][c] + 1]
<1>1. /\ MaxStamps \in Nat /\ CountModulus = MaxStamps + 1
      /\ count[l][c] \in Nat /\ count[l][c] + 1 \in 1..MaxStamps
  <2>1. MaxStamps \in Nat /\ CountModulus = MaxStamps + 1
    BY SizesAssumption DEF MaxStamps
  <2>2. count[l][c] \in 0..MaxStamps /\ count[l][c] < MaxStamps
    BY DEF IInv, TypeOK, AddBlockedCell
  <2> HIDE DEF MaxStamps
  <2> QED
    BY <2>1, <2>2
<1>2. (count[l][c] + 1) % CountModulus = count[l][c] + 1
  BY <1>1, SizesAssumption, SmallRemainder
<1>3. count' = [count EXCEPT ![l][c] = count[l][c] + 1]
  BY <1>2 DEF AddBlockedCell
<1>4. count' \in [Layers -> [Cells -> 0..MaxStamps]]
  BY <1>1, <1>3 DEF IInv, TypeOK
<1>5. count'[l][c] = count[l][c] + 1
  BY <1>3 DEF IInv, TypeOK
<1>6. BitmapOK(bitmap) /\ BitmapOK(static)
  BY DEF IInv, TypeOK
<1>7. /\ BitmapOK(bitmap')
      /\ \A k \in Layers : MarkedCells(bitmap', k) = {d \in Cells : count'[k][d] > 0}
  <2>1. ASSUME NEW k \in Layers
        PROVE  {d \in Cells : count'[k][d] > 0} =
                 IF k = l THEN {d \in Cells : count[k][d] > 0} \cup {c}
                 ELSE {d \in Cells : count[k][d] > 0}
    BY <1>1, <1>3 DEF IInv, TypeOK
  <2>2. CASE count'[l][c] = 1
    <3>1. bitmap' = SetBit(bitmap, l, c)
      BY <2>2 DEF AddBlockedCell
    <3> QED
      BY <2>1, <3>1, <1>6, SetBitAddsCell DEF IInv, BitmapCachesCounts
  <2>3. CASE count'[l][c] # 1
    <3>1. bitmap' = bitmap /\ c \in {d \in Cells : count[l][d] > 0}
      BY <2>3, <1>1, <1>5 DEF AddBlockedCell
    <3> QED
      BY <2>1, <3>1, <1>6 DEF IInv, BitmapCachesCounts
  <2> QED
    BY <2>2, <2>3
<1>8. TypeOK'
  BY <1>4, <1>6, <1>7 DEF TypeOK, IInv, AddBlockedCell
<1>9. BitmapCachesCounts'
  BY <1>7 DEF BitmapCachesCounts
<1> QED
  BY <1>3, <1>8, <1>9 DEF IInv

(* A removal clears the cell when it takes the last stamp of it.           *)
LEMMA RemoveKeepsInv ==
  ASSUME IInv, NEW l \in Layers, NEW c \in Cells, RemoveBlockedCell(l, c)
  PROVE  IInv'
<1>1. MaxStamps \in Nat /\ count[l][c] \in 0..MaxStamps
  BY SizesAssumption DEF IInv, TypeOK, MaxStamps
<1>2. count' \in [Layers -> [Cells -> 0..MaxStamps]]
  BY <1>1 DEF IInv, TypeOK, RemoveBlockedCell
<1>3. BitmapOK(bitmap) /\ BitmapOK(static)
  BY DEF IInv, TypeOK
<1>4. /\ BitmapOK(bitmap')
      /\ \A k \in Layers : MarkedCells(bitmap', k) = {d \in Cells : count'[k][d] > 0}
  <2>1. CASE count[l][c] = 1
    <3>1. /\ bitmap' = ClearBit(bitmap, l, c)
          /\ count' = [count EXCEPT ![l][c] = 0]
      BY <2>1 DEF RemoveBlockedCell
    <3>2. ASSUME NEW k \in Layers
          PROVE  {d \in Cells : count'[k][d] > 0} =
                   IF k = l THEN {d \in Cells : count[k][d] > 0} \ {c}
                   ELSE {d \in Cells : count[k][d] > 0}
      BY <3>1 DEF IInv, TypeOK
    <3> QED
      BY <3>1, <3>2, <1>3, ClearBitRemovesCell DEF IInv, BitmapCachesCounts
  <2>2. CASE count[l][c] # 1
    <3>1. bitmap' = bitmap
      BY <2>2 DEF RemoveBlockedCell
    <3>2. ASSUME NEW k \in Layers
          PROVE  {d \in Cells : count'[k][d] > 0} = {d \in Cells : count[k][d] > 0}
      BY <2>2, <1>1 DEF IInv, TypeOK, RemoveBlockedCell
    <3> QED
      BY <3>1, <3>2, <1>3 DEF IInv, BitmapCachesCounts
  <2> QED
    BY <2>1, <2>2
<1>5. TypeOK'
  BY <1>2, <1>3, <1>4 DEF TypeOK, IInv, RemoveBlockedCell
<1>6. BitmapCachesCounts'
  BY <1>4 DEF BitmapCachesCounts
<1> QED
  BY <1>5, <1>6 DEF IInv

LEMMA NextInv == IInv /\ [Next]_vars => IInv'
<1> SUFFICES ASSUME IInv, [Next]_vars PROVE IInv'
  OBVIOUS
<1>1. ASSUME NEW l \in Layers, NEW c \in Cells, AddBlockedCell(l, c) PROVE IInv'
  BY <1>1, AddKeepsInv
<1>2. ASSUME NEW l \in Layers, NEW c \in Cells, RemoveBlockedCell(l, c) PROVE IInv'
  BY <1>2, RemoveKeepsInv
<1>3. ASSUME NEW l \in Layers, NEW c \in Cells, AddStaticBlockedCell(l, c) PROVE IInv'
  <2>1. BitmapOK(static')
    BY <1>3, SetBitAddsCell DEF AddStaticBlockedCell, IInv, TypeOK
  <2> QED
    BY <1>3, <2>1 DEF AddStaticBlockedCell, IInv, TypeOK, BitmapCachesCounts
<1>4. ASSUME NEW l \in Layers, NEW c \in Endpoints, AddSourceTargetCell(l, c) PROVE IInv'
  BY <1>4, CellsAssumption DEF AddSourceTargetCell, IInv, TypeOK, BitmapCachesCounts
<1>5. ASSUME NEW c \in UNION Zones, AddAllowedCell(c) PROVE IInv'
  BY <1>5, CellsAssumption DEF AddAllowedCell, IInv, TypeOK, BitmapCachesCounts
<1>6. CASE ClearSourceTargetCells
  BY <1>6 DEF ClearSourceTargetCells, IInv, TypeOK, BitmapCachesCounts
<1>7. CASE ClearAllowedCells
  BY <1>7 DEF ClearAllowedCells, IInv, TypeOK, BitmapCachesCounts
<1>8. ASSUME NEW z \in Zones, SetBgaZone(z) PROVE IInv'
  BY <1>8 DEF SetBgaZone, IInv, TypeOK, BitmapCachesCounts
<1>9. CASE UNCHANGED vars
  BY <1>9 DEF vars, IInv, TypeOK, BitmapCachesCounts
<1> QED
  BY <1>1, <1>2, <1>3, <1>4, <1>5, <1>6, <1>7, <1>8, <1>9 DEF Next

(* TypeOK and BitmapCachesCounts together are inductive.                   *)
THEOREM MapInvariant == Spec => []IInv
  BY InitInv, NextInv, PTL DEF Spec

(* TypeOK: no cell is ever kept on the wrong side of a window.             *)
THEOREM MapTypes == Spec => []TypeOK
  BY MapInvariant, PTL DEF IInv

(* BitmapCachesCounts: whatever the order of stamps, removals, growth and  *)
(* overflow, the search sees exactly the counted cells.                    *)
THEOREM CacheIsPure == Spec => []BitmapCachesCounts
  BY MapInvariant, PTL DEF IInv

----------------------------------------------------------------------------
(* The refinement.  The abstract rows a query finds blocked are those the  *)
(* counts and the permanent bitmap say.                                    *)
GridRows == Layers \X Cells
StampsBar == [r \in GridRows |-> count[r[1]][r[2]]]
PermanentBar == {r \in GridRows : Test(static, r[1], r[2])}
HardBar == {r \in GridRows : HardBlocked(r[1], r[2])}

LEMMA HardIsCounted == IInv => HardBar = Grid!Hard(StampsBar, PermanentBar)
<1> SUFFICES ASSUME IInv PROVE HardBar = Grid!Hard(StampsBar, PermanentBar)
  OBVIOUS
<1>1. ASSUME NEW r \in GridRows
      PROVE  Test(bitmap, r[1], r[2]) <=> StampsBar[r] > 0
  <2>1. r[1] \in Layers /\ r[2] \in Cells
    BY DEF GridRows
  <2>2. Test(bitmap, r[1], r[2]) <=> r[2] \in MarkedCells(bitmap, r[1])
    BY <2>1, TestFindsMarked DEF IInv, TypeOK
  <2>3. MarkedCells(bitmap, r[1]) = {c \in Cells : count[r[1]][c] > 0}
    BY <2>1 DEF IInv, BitmapCachesCounts
  <2> QED
    BY <2>1, <2>2, <2>3 DEF StampsBar
<1> QED
  BY <1>1 DEF HardBar, PermanentBar, Grid!Hard, HardBlocked, GridRows

LEMMA HardIsCountedNext == IInv' => (HardBar = Grid!Hard(StampsBar, PermanentBar))'
  BY HardIsCounted, PTL

(* Changing one count changes one abstract row.                            *)
LEMMA OneRowChanges ==
  ASSUME NEW l \in Layers, NEW c \in Cells, NEW v,
         count \in [Layers -> [Cells -> 0..MaxStamps]],
         count' = [count EXCEPT ![l][c] = v]
  PROVE  StampsBar' = [StampsBar EXCEPT ![<<l, c>>] = v]
<1>1. ASSUME NEW r \in GridRows
      PROVE  StampsBar'[r] = [StampsBar EXCEPT ![<<l, c>>] = v][r]
  <2>1. PICK k \in Layers, d \in Cells : r = <<k, d>>
    BY DEF GridRows
  <2>2. count'[k][d] = IF k = l /\ d = c THEN v ELSE count[k][d]
    OBVIOUS
  <2>3. r = <<l, c>> <=> k = l /\ d = c
    BY <2>1
  <2>4. StampsBar'[r] = count'[k][d] /\ StampsBar[r] = count[k][d]
    BY <2>1 DEF StampsBar
  <2> QED
    BY <2>2, <2>3, <2>4 DEF StampsBar
<1> QED
  BY <1>1 DEF StampsBar

LEMMA InitRefines == Init => Grid!Init
<1> SUFFICES ASSUME Init PROVE Grid!Init
  OBVIOUS
<1>1. \A l \in Layers, c \in Cells : ~Test(NewBitmap, l, c)
  BY NewBitmapOK, TestFindsMarked
<1>2. \A r \in GridRows : r[1] \in Layers /\ r[2] \in Cells
  BY DEF GridRows
<1>3. StampsBar = [r \in GridRows |-> 0]
  BY <1>2 DEF Init, StampsBar
<1>4. PermanentBar = {} /\ HardBar = {}
  BY <1>1, <1>2 DEF Init, PermanentBar, HardBar, HardBlocked
<1> QED
  BY <1>3, <1>4 DEF Grid!Init, StampsBar, PermanentBar, HardBar, GridRows

(* A step that leaves the counts and the two bitmaps alone stutters.       *)
LEMMA OverridesStutter ==
  ASSUME UNCHANGED <<count, bitmap, static>>
  PROVE  UNCHANGED Grid!gridVars
  BY DEF Grid!gridVars, HardBlocked

LEMMA StepRefines == IInv /\ IInv' /\ [Next]_vars => [Grid!Next]_(Grid!gridVars)
<1> SUFFICES ASSUME IInv, IInv', [Next]_vars
             PROVE  [Grid!Next]_(Grid!gridVars)
  OBVIOUS
<1>1. HardBar' = Grid!Hard(StampsBar', PermanentBar')
  BY HardIsCountedNext
<1>2. ASSUME NEW l \in Layers, NEW c \in Cells, AddBlockedCell(l, c)
      PROVE  Grid!Next
  <2>1. <<l, c>> \in GridRows
    BY DEF GridRows
  <2>2. count' = [count EXCEPT ![l][c] = count[l][c] + 1]
    BY <1>2, AddKeepsInv
  <2>3. StampsBar' = [StampsBar EXCEPT ![<<l, c>>] = StampsBar[<<l, c>>] + 1]
    <3>1. StampsBar[<<l, c>>] = count[l][c]
      BY <2>1 DEF StampsBar
    <3>2. StampsBar' = [StampsBar EXCEPT ![<<l, c>>] = count[l][c] + 1]
      BY <2>2, OneRowChanges DEF IInv, TypeOK
    <3> QED
      BY <3>1, <3>2
  <2>4. StampsBar[<<l, c>>] < MaxStamps
    BY <1>2, <2>1 DEF StampsBar, AddBlockedCell
  <2>5. PermanentBar' = PermanentBar
    BY <1>2 DEF PermanentBar, AddBlockedCell
  <2>6. Grid!Stamp(<<l, c>>)
    BY <1>1, <2>3, <2>4, <2>5 DEF Grid!Stamp, StampsBar, PermanentBar, HardBar, GridRows
  <2> QED
    BY <2>1, <2>6 DEF Grid!Next, GridRows
<1>3. ASSUME NEW l \in Layers, NEW c \in Cells, RemoveBlockedCell(l, c)
      PROVE  Grid!Next
  <2>1. <<l, c>> \in GridRows /\ StampsBar[<<l, c>>] = count[l][c]
    BY DEF GridRows, StampsBar
  <2>2. StampsBar' = IF StampsBar[<<l, c>>] > 0
                     THEN [StampsBar EXCEPT ![<<l, c>>] = StampsBar[<<l, c>>] - 1]
                     ELSE StampsBar
    <3>1. CASE count[l][c] > 0
      <4>1. count' = [count EXCEPT ![l][c] = count[l][c] - 1]
        BY <1>3, <3>1 DEF RemoveBlockedCell
      <4>2. StampsBar' = [StampsBar EXCEPT ![<<l, c>>] = count[l][c] - 1]
        BY <4>1, OneRowChanges DEF IInv, TypeOK
      <4> QED
        BY <2>1, <3>1, <4>2
    <3>2. CASE ~(count[l][c] > 0)
      BY <1>3, <2>1, <3>2 DEF StampsBar, RemoveBlockedCell
    <3> QED
      BY <3>1, <3>2
  <2>3. PermanentBar' = PermanentBar
    BY <1>3 DEF PermanentBar, RemoveBlockedCell
  <2>4. Grid!TakeBack(<<l, c>>)
    BY <1>1, <2>2, <2>3 DEF Grid!TakeBack, StampsBar, PermanentBar, HardBar, GridRows
  <2> QED
    BY <2>1, <2>4 DEF Grid!Next, GridRows
<1>4. ASSUME NEW l \in Layers, NEW c \in Cells, AddStaticBlockedCell(l, c)
      PROVE  Grid!Next
  <2>1. <<l, c>> \in GridRows
    BY DEF GridRows
  <2>2. StampsBar' = StampsBar
    BY <1>4 DEF StampsBar, AddStaticBlockedCell
  <2>3. ASSUME NEW r \in GridRows
        PROVE  Test(static', r[1], r[2]) <=> Test(static, r[1], r[2]) \/ r = <<l, c>>
    <3>1. r[1] \in Layers /\ r[2] \in Cells /\ r = <<r[1], r[2]>>
      BY DEF GridRows
    <3>2. BitmapOK(static) /\ static' = SetBit(static, l, c)
      BY <1>4 DEF IInv, TypeOK, AddStaticBlockedCell
    <3>3. /\ Test(static, r[1], r[2]) <=> r[2] \in MarkedCells(static, r[1])
          /\ BitmapOK(static')
      BY <3>1, <3>2, TestFindsMarked, SetBitAddsCell
    <3>4. Test(static', r[1], r[2]) <=> r[2] \in MarkedCells(static', r[1])
      BY <3>1, <3>3, TestFindsMarked
    <3>5. MarkedCells(static', r[1]) =
            IF r[1] = l THEN MarkedCells(static, r[1]) \cup {c} ELSE MarkedCells(static, r[1])
      BY <3>1, <3>2, SetBitAddsCell
    <3> QED
      BY <3>1, <3>3, <3>4, <3>5
  <2>4. PermanentBar' = PermanentBar \cup {<<l, c>>}
    BY <2>1, <2>3 DEF PermanentBar
  <2>5. Grid!MakePermanent(<<l, c>>)
    BY <1>1, <2>2, <2>4 DEF Grid!MakePermanent, StampsBar, PermanentBar, HardBar, GridRows
  <2> QED
    BY <2>1, <2>5 DEF Grid!Next, GridRows
<1>5. ASSUME UNCHANGED <<count, bitmap, static>>
      PROVE  UNCHANGED Grid!gridVars
  BY <1>5, OverridesStutter
<1> QED
  BY <1>2, <1>3, <1>4, <1>5 DEF Next, vars, AddSourceTargetCell, AddAllowedCell, SetBgaZone,
     ClearSourceTargetCells, ClearAllowedCells

(* ImplementsStampedGrid: every step of the map is a stamp, a removal or a *)
(* permanent row of the abstract grid, or changes nothing a query sees     *)
(* beyond the overrides.                                                   *)
THEOREM MapRefinesGrid == Spec => ImplementsStampedGrid
  BY InitRefines, StepRefines, MapInvariant, PTL DEF Spec, ImplementsStampedGrid, Grid!Spec

LEMMA StaticOnlyGrows ==
  IInv /\ [Next]_vars =>
    \A l \in Layers : MarkedCells(static, l) \subseteq MarkedCells(static', l)
<1> SUFFICES ASSUME IInv, [Next]_vars, NEW k \in Layers
             PROVE  MarkedCells(static, k) \subseteq MarkedCells(static', k)
  OBVIOUS
<1>1. ASSUME NEW l \in Layers, NEW c \in Cells, AddStaticBlockedCell(l, c)
      PROVE  MarkedCells(static, k) \subseteq MarkedCells(static', k)
  BY <1>1, SetBitAddsCell DEF AddStaticBlockedCell, IInv, TypeOK
<1>2. CASE UNCHANGED static
  BY <1>2
<1> QED
  BY <1>1, <1>2 DEF Next, vars, AddBlockedCell, RemoveBlockedCell, AddSourceTargetCell,
     AddAllowedCell, SetBgaZone, ClearSourceTargetCells, ClearAllowedCells

(* PermanentRowsStay: no operation takes a permanent row back.             *)
THEOREM PermanentRowsNeverLeave == Spec => PermanentRowsStay
<1>1. IInv /\ [Next]_vars =>
        [\A l \in Layers : MarkedCells(static, l) \subseteq MarkedCells(static', l)]_vars
  BY StaticOnlyGrows
<1> QED
  BY <1>1, MapInvariant, PTL DEF Spec, PermanentRowsStay
----------------------------------------------------------------------------
(* Words and rows: where an index of the flat array of bits belongs.       *)
LEMMA Multiples ==
  ASSUME NEW k \in Nat, k >= 1, NEW w \in Nat
  PROVE  k * w >= w /\ k * w \in Nat
<1>1. PICK j \in Nat : k = j + 1
  OBVIOUS
<1>2. j * w \in Nat
  OBVIOUS
<1>3. k * w = j * w + w
  BY <1>1
<1> QED
  BY <1>2, <1>3

LEMMA PlaceIsUnique ==
  ASSUME NEW w \in Nat, NEW a \in Int, NEW b \in Int, NEW p \in 0..(w - 1), NEW d \in 0..(w - 1),
         a * w + p = b * w + d
  PROVE  a = b /\ p = d
<1>0. a * w \in Int /\ b * w \in Int
  OBVIOUS
<1>1. ~(a < b)
  <2> SUFFICES ASSUME a < b PROVE FALSE
    OBVIOUS
  <2>1. b - a \in Nat /\ b - a >= 1
    OBVIOUS
  <2>2. (b - a) * w >= w
    BY <2>1, Multiples
  <2>3. (b - a) * w = b * w - a * w
    OBVIOUS
  <2> QED
    BY <1>0, <2>2, <2>3
<1>2. ~(b < a)
  <2> SUFFICES ASSUME b < a PROVE FALSE
    OBVIOUS
  <2>1. a - b \in Nat /\ a - b >= 1
    OBVIOUS
  <2>2. (a - b) * w >= w
    BY <2>1, Multiples
  <2>3. (a - b) * w = a * w - b * w
    OBVIOUS
  <2> QED
    BY <1>0, <2>2, <2>3
<1>3. a = b
  BY <1>1, <1>2
<1> QED
  BY <1>0, <1>3

LEMMA QuotientAndRest ==
  ASSUME NEW i \in Int, NEW w \in Nat \ {0}
  PROVE  /\ i \div w \in Int /\ i % w \in 0..(w - 1)
         /\ i = (i \div w) * w + (i % w)
  OBVIOUS

LEMMA QuotientIsMonotone ==
  ASSUME NEW w \in Nat \ {0}, NEW i \in Int, NEW j \in Int, i <= j
  PROVE  i \div w <= j \div w
<1>1. PICK a, b, p, q : a = i \div w /\ b = j \div w /\ p = i % w /\ q = j % w
  OBVIOUS
<1>2. /\ a \in Int /\ b \in Int /\ p \in 0..(w - 1) /\ q \in 0..(w - 1)
      /\ i = a * w + p /\ j = b * w + q
  BY <1>1, QuotientAndRest
<1>3. a <= b
  <2> SUFFICES ASSUME b < a PROVE FALSE
    BY <1>2
  <2>1. a - b \in Nat /\ a - b >= 1
    BY <1>2
  <2>2. (a - b) * w >= w
    BY <2>1, Multiples
  <2>3. (a - b) * w = a * w - b * w /\ a * w \in Int /\ b * w \in Int
    BY <1>2
  <2> QED
    BY <1>2, <2>2, <2>3
<1> QED
  BY <1>1, <1>3

(* The words over lo..hi, each masked to it, decode to its set bits.       *)
Decoded(bm, l, lo, hi) == UNION {MaskedWord(bm, l, wi, lo, hi) : wi \in WordsOf(lo, hi)}
SetBits(bm, l, lo, hi) == {i \in lo..hi : \E p \in bm.bits[l] : Linear(bm, p) = i}

LEMMA WordsCoverTheSegment ==
  ASSUME NEW bm, NEW l, NEW lo \in Nat, NEW hi \in Nat
  PROVE  Decoded(bm, l, lo, hi) = SetBits(bm, l, lo, hi)
<1>1. PICK Set : Set = {i \in Int : \E p \in bm.bits[l] : Linear(bm, p) = i}
  OBVIOUS
<1>2. WordBits \in Nat \ {0}
  BY SizesAssumption
<1>3. ASSUME NEW i \in lo..hi, i \in Set
      PROVE  \E wi \in WordsOf(lo, hi) : i \in MaskedWord(bm, l, wi, lo, hi)
  <2>1. PICK wi, r : wi = i \div WordBits /\ r = i % WordBits
    OBVIOUS
  <2>2. wi \in Int /\ r \in 0..(WordBits - 1) /\ i = wi * WordBits + r /\ wi * WordBits \in Int
    BY <1>2, <2>1, QuotientAndRest
  <2>3. lo \div WordBits <= wi /\ wi <= hi \div WordBits
    BY <1>2, <2>1, QuotientIsMonotone
  <2>4. wi \in WordsOf(lo, hi)
    BY <1>2, <2>2, <2>3, QuotientAndRest DEF WordsOf
  <2>5. i \in (wi * WordBits)..(wi * WordBits + WordBits - 1) /\ lo <= i /\ i <= hi
    BY <1>2, <2>2
  <2>6. \E p \in bm.bits[l] : Linear(bm, p) = i
    BY <1>1, <1>3
  <2> QED
    BY <2>4, <2>5, <2>6 DEF MaskedWord
<1>4. ASSUME NEW wi \in WordsOf(lo, hi), NEW i \in MaskedWord(bm, l, wi, lo, hi)
      PROVE  i \in lo..hi /\ i \in Set
  <2>1. lo \div WordBits \in Int /\ hi \div WordBits \in Int
    BY <1>2, QuotientAndRest
  <2>2. wi \in Int
    BY <2>1 DEF WordsOf
  <2>3. i \in (wi * WordBits)..(wi * WordBits + WordBits - 1)
    BY DEF MaskedWord
  <2>4. i \in Int
    BY <2>3
  <2>5. lo <= i /\ i <= hi /\ \E p \in bm.bits[l] : Linear(bm, p) = i
    BY DEF MaskedWord
  <2> QED
    BY <1>1, <2>4, <2>5
<1>5. SetBits(bm, l, lo, hi) = {i \in lo..hi : i \in Set}
  BY <1>1 DEF SetBits
<1> QED
  BY <1>3, <1>4, <1>5 DEF Decoded

(* Decoding a row of one bitmap is testing its cells.                      *)
LEMMA ScanTestsTheRow ==
  ASSUME NEW bm, BitmapOK(bm), NEW l \in Layers, bm.overflow[l] = {},
         NEW y \in Int, NEW x0 \in Int, NEW x1 \in Int
  PROVE  RowScan(bm, l, y, x0, x1) = {c \in (x0..x1) \X {y} : Test(bm, l, c)}
<1> DEFINE row == y - bm.minY
           d0 == Greater(x0 - bm.minX, 0)
           d1 == Lesser(x1 - bm.minX, bm.width - 1)
           lo == row * bm.width + d0
           hi == row * bm.width + d1
           Found == {c \in (x0..x1) \X {y} : Test(bm, l, c)}
<1>1. /\ bm.minX \in Int /\ bm.minY \in Int /\ bm.width \in Nat /\ bm.height \in Nat
      /\ bm.bits[l] \subseteq (0..(bm.width - 1)) \X (0..(bm.height - 1))
  BY DEF BitmapOK
<1>2. \A c : Test(bm, l, c) <=> InWindow(bm, c) /\ Offset(bm, c) \in bm.bits[l]
  BY DEF Test
<1>3. d0 \in Nat /\ d1 \in Int /\ row \in Int
  BY <1>1 DEF Greater, Lesser
<1>4. RowScan(bm, l, y, x0, x1) =
        IF row < 0 \/ row >= bm.height \/ d0 > d1 THEN {}
        ELSE {<<bm.minX + (i % bm.width), y>> :
                i \in Decoded(bm, l, lo, hi)}
  BY DEF RowScan, Decoded
<1>5. ASSUME NEW x \in x0..x1, InWindow(bm, <<x, y>>)
      PROVE  row >= 0 /\ row < bm.height /\ d0 <= x - bm.minX /\ x - bm.minX <= d1
  BY <1>1, <1>5 DEF InWindow, Greater, Lesser
<1>6. CASE row < 0 \/ row >= bm.height \/ d0 > d1
  <2>1. \A x \in x0..x1 : ~InWindow(bm, <<x, y>>)
    <3> SUFFICES ASSUME NEW x \in x0..x1, InWindow(bm, <<x, y>>) PROVE FALSE
      OBVIOUS
    <3>1. row >= 0 /\ row < bm.height /\ d0 <= x - bm.minX /\ x - bm.minX <= d1
      BY <1>5
    <3> HIDE DEF row, d0, d1
    <3> QED
      BY <1>1, <1>3, <1>6, <3>1
  <2>2. Found = {}
    BY <1>2, <2>1
  <2> QED
    BY <1>4, <1>6, <2>2
<1>7. CASE row >= 0 /\ row < bm.height /\ d0 <= d1
  <2>0. d0 >= x0 - bm.minX /\ d1 <= x1 - bm.minX /\ d1 <= bm.width - 1
    BY <1>1 DEF Greater, Lesser
  <2> HIDE DEF row, d0, d1
  <2>1. row \in Nat /\ bm.width \in Nat \ {0} /\ d1 \in Nat
    BY <1>1, <1>3, <1>7, <2>0
  <2>2. row * bm.width \in Nat
    BY <2>1
  <2>3. lo \in Nat /\ hi \in Nat
    BY <1>3, <2>1, <2>2
  <2>4. \A i \in lo..hi : i - row * bm.width \in d0..d1 /\ i - row * bm.width \in 0..(bm.width - 1)
    BY <1>1, <1>3, <2>0, <2>1, <2>2
  <2>5. \A i \in lo..hi : i % bm.width = i - row * bm.width
    <3> SUFFICES ASSUME NEW i \in lo..hi PROVE i % bm.width = i - row * bm.width
      OBVIOUS
    <3>1. PICK a, p : a = i \div bm.width /\ p = i % bm.width
      OBVIOUS
    <3>2. i \in Int /\ i - row * bm.width \in 0..(bm.width - 1)
      BY <2>3, <2>4
    <3>3. a \in Int /\ p \in 0..(bm.width - 1) /\ i = a * bm.width + p
      BY <2>1, <3>1, <3>2, QuotientAndRest
    <3>4. PICK d : d = i - row * bm.width
      OBVIOUS
    <3>5. d \in 0..(bm.width - 1) /\ a * bm.width + p = row * bm.width + d
      BY <2>2, <3>2, <3>3, <3>4
    <3>6. p = d
      <4>1. a \in Int /\ p \in 0..(bm.width - 1) /\ row \in Int /\ bm.width \in Nat
        BY <1>1, <1>3, <3>3
      <4> QED
        BY ONLY <4>1, <3>5, PlaceIsUnique
    <3> QED
      BY <3>1, <3>4, <3>6
  <2>6. ASSUME NEW i \in lo..hi
        PROVE  (\E p \in bm.bits[l] : Linear(bm, p) = i) <=> <<i - row * bm.width, row>> \in bm.bits[l]
    <3>1. PICK d : d = i - row * bm.width
      OBVIOUS
    <3>2. d \in 0..(bm.width - 1) /\ i = row * bm.width + d
      BY <2>2, <2>3, <2>4, <3>1
    <3>3. ASSUME NEW p \in bm.bits[l], Linear(bm, p) = i
          PROVE  p = <<d, row>>
      <4>1. p[1] \in 0..(bm.width - 1) /\ p[2] \in Int /\ p = <<p[1], p[2]>>
        BY <1>1
      <4>2. p[2] * bm.width + p[1] = row * bm.width + d
        BY <3>2, <3>3 DEF Linear
      <4>3. p[2] = row /\ p[1] = d
        BY <1>1, <1>3, <3>2, <4>1, <4>2, PlaceIsUnique
      <4> QED
        BY <4>1, <4>3
    <3>4. Linear(bm, <<d, row>>) = i
      BY <3>2 DEF Linear
    <3> QED
      BY <3>1, <3>3, <3>4
  <2>7. PICK Hit : Hit = {i \in lo..hi : <<i - row * bm.width, row>> \in bm.bits[l]}
    OBVIOUS
  <2>8. Decoded(bm, l, lo, hi) = Hit
    <3> HIDE DEF lo, hi
    <3>1. Decoded(bm, l, lo, hi) = SetBits(bm, l, lo, hi)
      BY <2>3, WordsCoverTheSegment
    <3> QED
      BY <2>6, <2>7, <3>1 DEF SetBits
  <2>9. RowScan(bm, l, y, x0, x1) = {<<bm.minX + (i % bm.width), y>> : i \in Hit}
    <3>1. ~(row < 0 \/ row >= bm.height \/ d0 > d1)
      BY <1>3, <1>7, <2>1, <1>1
    <3> HIDE DEF lo, hi
    <3> QED
      BY <1>4, <2>8, <3>1
  <2>10. ASSUME NEW i \in Hit
         PROVE  <<bm.minX + (i % bm.width), y>> \in Found
    <3>1. PICK x : x = bm.minX + (i % bm.width)
      OBVIOUS
    <3>2. /\ x = bm.minX + (i - row * bm.width)
          /\ i - row * bm.width \in d0..d1 /\ i - row * bm.width \in 0..(bm.width - 1)
          /\ <<i - row * bm.width, row>> \in bm.bits[l]
      BY <2>4, <2>5, <2>7, <3>1
    <3>3. PICK d : d = i - row * bm.width
      OBVIOUS
    <3>4. x \in x0..x1 /\ x - bm.minX = d
      BY <1>1, <1>3, <2>0, <2>1, <3>2, <3>3
    <3>5. y - bm.minY = row
      BY DEF row
    <3>6. InWindow(bm, <<x, y>>) /\ Offset(bm, <<x, y>>) = <<d, row>>
      BY <1>7, <2>1, <3>2, <3>3, <3>4, <3>5 DEF InWindow, Offset
    <3> QED
      BY <1>2, <3>1, <3>2, <3>3, <3>4, <3>6
  <2>11. ASSUME NEW c \in Found
         PROVE  \E i \in Hit : c = <<bm.minX + (i % bm.width), y>>
    <3>1. PICK x \in x0..x1 : c = <<x, y>>
      OBVIOUS
    <3>2. InWindow(bm, <<x, y>>) /\ Offset(bm, <<x, y>>) \in bm.bits[l]
      BY <1>2, <3>1
    <3>3. d0 <= x - bm.minX /\ x - bm.minX <= d1
      BY <1>5, <3>2
    <3>4. PICK i : i = row * bm.width + (x - bm.minX)
      OBVIOUS
    <3>5. i \in lo..hi /\ i - row * bm.width = x - bm.minX
      BY <1>1, <1>3, <2>1, <2>2, <3>3, <3>4
    <3>6. Offset(bm, <<x, y>>) = <<x - bm.minX, row>>
      BY DEF Offset, row
    <3>7. i \in Hit
      BY <2>7, <3>2, <3>5, <3>6
    <3>8. bm.minX + (i % bm.width) = x
      <4>1. i % bm.width = x - bm.minX
        BY <2>5, <3>5
      <4> QED
        BY <1>1, <4>1
    <3> QED
      BY <3>1, <3>7, <3>8
  <2> HIDE DEF Found
  <2>12. RowScan(bm, l, y, x0, x1) = Found
    BY <2>9, <2>10, <2>11
  <2> QED
    BY <2>12 DEF Found
<1> HIDE DEF row, d0, d1, Found
<1> QED
  BY <1>1, <1>3, <1>6, <1>7

LEMMA FastSweepIsExact == IInv => SweepsAreExact
<1> SUFFICES ASSUME IInv, NEW l \in Layers, FastPathApplies(l),
                    NEW y \in SweptRows, NEW x0 \in SweptColumns, NEW x1 \in SweptColumns
             PROVE  SweptFast(l, y, x0, x1) = SweptExactly(l, y, x0, x1)
  BY DEF SweepsAreExact
<1>1. y \in Int /\ x0 \in Int /\ x1 \in Int
  BY SegmentsAssumption
<1>2. /\ BitmapOK(bitmap) /\ BitmapOK(static)
      /\ bitmap.overflow[l] = {} /\ static.overflow[l] = {} /\ zones = {}
  BY DEF IInv, TypeOK, FastPathApplies
<1>3. RowScan(bitmap, l, y, x0, x1) = {c \in (x0..x1) \X {y} : Test(bitmap, l, c)}
  BY <1>1, <1>2, ScanTestsTheRow
<1>4. RowScan(static, l, y, x0, x1) = {c \in (x0..x1) \X {y} : Test(static, l, c)}
  BY <1>1, <1>2, ScanTestsTheRow
<1>5. \A c : IsBlocked(l, c) <=> HardBlocked(l, c) /\ c \notin sourceTarget[l]
  BY <1>2 DEF IsBlocked, InZone
<1> QED
  BY <1>3, <1>4, <1>5 DEF SweptFast, SweptExactly, HardBlocked

(* SweepsAreExact: reading whole words of the flat bitmaps answers like a  *)
(* query per cell, whatever the widths of words and windows.               *)
THEOREM SweepsAnswerExactly == Spec => []SweepsAreExact
  BY FastSweepIsExact, MapInvariant, PTL
=================================================================================
