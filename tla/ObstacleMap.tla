------------------------------- MODULE ObstacleMap -------------------------------
(***************************************************************************)
(* GridObstacleMap (rust_router/src/obstacle_map.rs): the answer to "may a *)
(* track pass here".  The reference counts are authoritative; two windowed *)
(* bitmaps are what the search reads, one a cache of "count > 0" that is   *)
(* written only when a count leaves or reaches zero, one for the permanent *)
(* rows of the base map.  A window grows to cover what is blocked; beyond  *)
(* a size cap a cell goes to an overflow set, and moves into the window    *)
(* when a later growth reaches it.                                         *)
(*                                                                         *)
(* The batch forms are these operations row after row.  The via maps use   *)
(* the same counts without a bitmap (see WorkingMap).  merge_blocked_from  *)
(* and freeze_dynamic_to_static have no caller and are left out.           *)
(***************************************************************************)
EXTENDS Integers, FiniteSets

CONSTANTS
  Layers,       \* the copper layers of the run
  Cells,        \* the grid cells <<gx, gy>> rows are added for
  Endpoints,    \* cells a route may start or end at
  Zones,        \* the rectangles of cells that may be BGA exclusion zones
  Margin,       \* BITMAP_GROW_MARGIN
  MaxWindow,    \* BITMAP_MAX_CELLS
  CountModulus, \* counts are u16: 2^16
  WordBits,     \* bits per word of a bitmap: 64
  SweptRows,    \* the rows, and the columns at its ends, of the segments
  SweptColumns  \* that are swept

ASSUME CellsAssumption ==
  /\ Cells \subseteq Int \X Int
  /\ Endpoints \subseteq Cells
  /\ Zones \subseteq SUBSET Cells
ASSUME SizesAssumption ==
  /\ Margin \in Nat
  /\ MaxWindow \in Nat
  /\ CountModulus \in Nat /\ CountModulus > 1
  /\ WordBits \in Nat \ {0}
ASSUME SegmentsAssumption == SweptRows \subseteq Int /\ SweptColumns \subseteq Int

VARIABLES
  count,        \* blocked_cells: the reference count of a cell on a layer
  bitmap,       \* blocked_bitmap
  static,       \* static_blocked_bitmap
  sourceTarget, \* source_target_cells: endpoints of the current route
  zones,        \* bga_zones
  allowed       \* allowed_cells: overrides of the BGA zones

vars == <<count, bitmap, static, sourceTarget, zones, allowed>>

(* Counts are bounded by their width; more nets than that would have to    *)
(* meet in one cell.                                                       *)
MaxStamps == CountModulus - 1

----------------------------------------------------------------------------
(* A bitmap: its window, the bits of each layer as offsets into the        *)
(* window, and the cells of each layer that lie outside the capped window. *)
NewBitmap ==
  [minX |-> 0, minY |-> 0, width |-> 0, height |-> 0,
   bits |-> [l \in Layers |-> {}], overflow |-> [l \in Layers |-> {}]]

InWindow(bm, c) ==
  /\ 0 <= c[1] - bm.minX /\ c[1] - bm.minX < bm.width
  /\ 0 <= c[2] - bm.minY /\ c[2] - bm.minY < bm.height

Offset(bm, c) == <<c[1] - bm.minX, c[2] - bm.minY>>

Test(bm, l, c) ==
  IF InWindow(bm, c) THEN Offset(bm, c) \in bm.bits[l] ELSE c \in bm.overflow[l]

Lesser(a, b)  == IF a <= b THEN a ELSE b
Greater(a, b) == IF a >= b THEN a ELSE b

(* The window that also covers cell c with the margin around it.           *)
WindowWith(bm, c) ==
  IF bm.width = 0
  THEN [x0 |-> c[1] - Margin, y0 |-> c[2] - Margin,
        x1 |-> c[1] + Margin, y1 |-> c[2] + Margin]
  ELSE [x0 |-> Lesser(bm.minX, c[1] - Margin),
        y0 |-> Lesser(bm.minY, c[2] - Margin),
        x1 |-> Greater(bm.minX + bm.width - 1, c[1] + Margin),
        y1 |-> Greater(bm.minY + bm.height - 1, c[2] + Margin)]

Resized(bm, w) ==
  [minX |-> w.x0, minY |-> w.y0,
   width |-> w.x1 - w.x0 + 1, height |-> w.y1 - w.y0 + 1,
   bits |-> bm.bits, overflow |-> bm.overflow]

(* The bits of the old window at their offsets in the new one.  Mutant:    *)
(* the offsets are copied as they are.                                     *)
RemappedAsIs(bm, w, l) == bm.bits[l]

Remapped(bm, w, l) ==
  {<<p[1] + bm.minX - w.x0, p[2] + bm.minY - w.y0>> : p \in bm.bits[l]}

(* The overflow cells the new window takes in.                            *)
Migrating(bm, w, l) == {c \in bm.overflow[l] : InWindow(Resized(bm, w), c)}

(* grow_to_include; nothing changes when the window would pass the cap.    *)
Rewindowed(bm, w) ==
  LET r == Resized(bm, w)
  IN [minX |-> r.minX, minY |-> r.minY, width |-> r.width, height |-> r.height,
      bits |-> [l \in Layers |->
         Remapped(bm, w, l) \cup {Offset(r, d) : d \in Migrating(bm, w, l)}],
      overflow |-> [l \in Layers |-> bm.overflow[l] \ Migrating(bm, w, l)]]

Grown(bm, c) ==
  LET w == WindowWith(bm, c)
  IN IF (w.x1 - w.x0 + 1) * (w.y1 - w.y0 + 1) > MaxWindow THEN bm
     ELSE Rewindowed(bm, w)

Marked(bm, l, c) ==
  IF InWindow(bm, c)
  THEN [bm EXCEPT !.bits[l] = @ \cup {Offset(bm, c)}]
  ELSE [bm EXCEPT !.overflow[l] = @ \cup {c}]

(* BlockedBitmap.set and BlockedBitmap.clear.                              *)
SetBit(bm, l, c) == Marked(IF InWindow(bm, c) THEN bm ELSE Grown(bm, c), l, c)

ClearBit(bm, l, c) ==
  IF InWindow(bm, c)
  THEN [bm EXCEPT !.bits[l] = @ \ {Offset(bm, c)}]
  ELSE [bm EXCEPT !.overflow[l] = @ \ {c}]

----------------------------------------------------------------------------
Init ==
  /\ count = [l \in Layers |-> [c \in Cells |-> 0]]
  /\ bitmap = NewBitmap
  /\ static = NewBitmap
  /\ sourceTarget = [l \in Layers |-> {}]
  /\ zones = {}
  /\ allowed = {}

AddBlockedCell(l, c) ==
  /\ count[l][c] < MaxStamps
  /\ count' = [count EXCEPT ![l][c] = (@ + 1) % CountModulus]
  /\ bitmap' = IF count'[l][c] = 1 THEN SetBit(bitmap, l, c) ELSE bitmap
  /\ UNCHANGED <<static, sourceTarget, zones, allowed>>

(* Mutant: the bit goes with the first stamp that is taken back.           *)
RemoveClearsEarly(l, c) ==
  /\ count' = IF count[l][c] > 0 THEN [count EXCEPT ![l][c] = @ - 1] ELSE count
  /\ bitmap' = ClearBit(bitmap, l, c)
  /\ UNCHANGED <<static, sourceTarget, zones, allowed>>

RemoveBlockedCell(l, c) ==
  /\ count' = IF count[l][c] > 0 THEN [count EXCEPT ![l][c] = @ - 1] ELSE count
  /\ bitmap' = IF count[l][c] = 1 THEN ClearBit(bitmap, l, c) ELSE bitmap
  /\ UNCHANGED <<static, sourceTarget, zones, allowed>>

AddStaticBlockedCell(l, c) ==
  /\ static' = SetBit(static, l, c)
  /\ UNCHANGED <<count, bitmap, sourceTarget, zones, allowed>>

(* The overrides of one route: its endpoints, and cells of a BGA zone.     *)
AddSourceTargetCell(l, c) ==
  /\ sourceTarget' = [sourceTarget EXCEPT ![l] = @ \cup {c}]
  /\ UNCHANGED <<count, bitmap, static, zones, allowed>>

ClearSourceTargetCells ==
  /\ sourceTarget' = [l \in Layers |-> {}]
  /\ UNCHANGED <<count, bitmap, static, zones, allowed>>

(* Zones are set once, before any route.                                   *)
SetBgaZone(z) ==
  /\ z \notin zones
  /\ zones' = zones \cup {z}
  /\ UNCHANGED <<count, bitmap, static, sourceTarget, allowed>>

AddAllowedCell(c) ==
  /\ allowed' = allowed \cup {c}
  /\ UNCHANGED <<count, bitmap, static, sourceTarget, zones>>

ClearAllowedCells ==
  /\ allowed' = {}
  /\ UNCHANGED <<count, bitmap, static, sourceTarget, zones>>

Next ==
  \/ \E l \in Layers, c \in Cells :
       \/ AddBlockedCell(l, c)
       \/ RemoveBlockedCell(l, c)
       \/ AddStaticBlockedCell(l, c)
  \/ \E l \in Layers, c \in Endpoints : AddSourceTargetCell(l, c)
  \/ \E z \in Zones : SetBgaZone(z)
  \/ \E c \in UNION Zones : AddAllowedCell(c)
  \/ ClearSourceTargetCells
  \/ ClearAllowedCells

Spec == Init /\ [][Next]_vars

----------------------------------------------------------------------------
(* What a search asks.                                                     *)
HardBlocked(l, c) == Test(bitmap, l, c) \/ Test(static, l, c)

InZone(c) == \E z \in zones : c \in z

IsBlocked(l, c) ==
  IF HardBlocked(l, c) THEN c \notin sourceTarget[l] ELSE InZone(c) /\ c \notin allowed

(* segment_blocked reads whole words of a row when there is no zone and no *)
(* overflow.  A layer is one flat array of bits without padding between    *)
(* the rows, so a word may straddle them and is masked to the segment.     *)
Linear(bm, p) == p[2] * bm.width + p[1]

WordsOf(lo, hi) == (lo \div WordBits)..(hi \div WordBits)

(* mask_word: the set bits of word wi that lie in lo..hi.  Mutant: the     *)
(* whole word is decoded.                                                  *)
WholeWord(bm, l, wi, lo, hi) ==
  {i \in (wi * WordBits)..(wi * WordBits + WordBits - 1) :
     \E p \in bm.bits[l] : Linear(bm, p) = i}

MaskedWord(bm, l, wi, lo, hi) ==
  {i \in (wi * WordBits)..(wi * WordBits + WordBits - 1) :
     lo <= i /\ i <= hi /\ \E p \in bm.bits[l] : Linear(bm, p) = i}

(* row_word_range and the decoding loop: the cells of row y between x0 and *)
(* x1 whose bit is set.                                                    *)
RowScan(bm, l, y, x0, x1) ==
  LET d0 == Greater(x0 - bm.minX, 0)
      d1 == Lesser(x1 - bm.minX, bm.width - 1)
      lo == (y - bm.minY) * bm.width + d0
      hi == (y - bm.minY) * bm.width + d1
  IN IF y - bm.minY < 0 \/ y - bm.minY >= bm.height \/ d0 > d1 THEN {}
     ELSE {<<bm.minX + (i % bm.width), y>> :
             i \in UNION {MaskedWord(bm, l, wi, lo, hi) : wi \in WordsOf(lo, hi)}}

FastPathApplies(l) == zones = {} /\ bitmap.overflow[l] = {} /\ static.overflow[l] = {}

SweptFast(l, y, x0, x1) ==
  (RowScan(bitmap, l, y, x0, x1) \cup RowScan(static, l, y, x0, x1)) \ sourceTarget[l]

SweptExactly(l, y, x0, x1) == {c \in (x0..x1) \X {y} : IsBlocked(l, c)}

----------------------------------------------------------------------------
(* The cells a bitmap has marked, wherever it keeps them.                  *)
MarkedCells(bm, l) ==
  {<<p[1] + bm.minX, p[2] + bm.minY>> : p \in bm.bits[l]} \cup bm.overflow[l]

BitmapOK(bm) ==
  /\ bm \in [minX : Int, minY : Int, width : Nat, height : Nat,
             bits : [Layers -> SUBSET (Int \X Int)],
             overflow : [Layers -> SUBSET Cells]]
  /\ \A l \in Layers :
       /\ bm.bits[l] \subseteq (0..(bm.width - 1)) \X (0..(bm.height - 1))
       /\ \A c \in bm.overflow[l] : ~InWindow(bm, c)

(* The shape of the map: a window holds only offsets inside it and the     *)
(* overflow only cells outside it (a cell kept on the wrong side would be  *)
(* invisible to test()).                                                   *)
TypeOK ==
  /\ count \in [Layers -> [Cells -> 0..MaxStamps]]
  /\ BitmapOK(bitmap) /\ BitmapOK(static)
  /\ sourceTarget \in [Layers -> SUBSET Cells]
  /\ zones \subseteq Zones /\ allowed \subseteq Cells

(* BlockedBitmap: "a PURE CACHE of refcount > 0": the marked cells are     *)
(* exactly the counted ones, through growth, overflow and migration, so no *)
(* copper is invisible to a search and no ripped copper keeps blocking.    *)
BitmapCachesCounts ==
  \A l \in Layers : MarkedCells(bitmap, l) = {c \in Cells : count[l][c] > 0}

(* A permanent row stays marked through every growth of its window and     *)
(* every add and removal of counted rows (#422: "never cleared").          *)
PermanentRowsStay ==
  [][\A l \in Layers : MarkedCells(static, l) \subseteq MarkedCells(static', l)]_vars

(* segment_blocked: "the result is byte-identical to the per-cell loop".   *)
(* For row segments of every length, in rows with and without a window,    *)
(* the words decoded from the two bitmaps name the cells a query per cell  *)
(* finds blocked.                                                          *)
SweepsAreExact ==
  \A l \in Layers : FastPathApplies(l) =>
     \A y \in SweptRows, x0, x1 \in SweptColumns :
        x0 <= x1 => SweptFast(l, y, x0, x1) = SweptExactly(l, y, x0, x1)

(* The bitmaps implement the counted stamps: what a query sees changes     *)
(* with a stamp, a removal or a permanent row exactly as the abstract grid *)
(* says.                                                                   *)
Grid == INSTANCE StampedGrid WITH
  Rows <- Layers \X Cells,
  MaxStamps <- MaxStamps,
  stamps <- [r \in Layers \X Cells |-> count[r[1]][r[2]]],
  permanent <- {r \in Layers \X Cells : Test(static, r[1], r[2])},
  hard <- {r \in Layers \X Cells : HardBlocked(r[1], r[2])}

ImplementsStampedGrid == Grid!Spec
=================================================================================
