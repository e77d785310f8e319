-------------------------------- MODULE WorkingMap --------------------------------
(***************************************************************************)
(* The persistent working obstacle map of a routing run, and the bracket   *)
(* around every search on it: prepare_obstacles_inplace takes the net's    *)
(* own stamps out and puts its via keep-outs in, restore_obstacles_inplace *)
(* undoes both (py_router/routing_context.py, obstacle_cache.py).          *)
(*                                                                         *)
(* The map holds three families of counted rows: track cells, via cells,   *)
(* and (#568) via cells for the smaller via of the fab ladder, the only    *)
(* dynamic rows a search for small vias looks at.  Each is mirrored by     *)
(* hand at every add and remove.  The base map is permanent: bits beside   *)
(* the counts (#422), unless KICAD_NO_STATIC_BASE stamps it as counts.     *)
(*                                                                         *)
(* Copper is abstract: a net is in one of a few copper states (its stub, a *)
(* main route, a route with its taps) and the rows each occupies are       *)
(* constants.                                                              *)
(***************************************************************************)
EXTENDS Integers, FiniteSets, Sequences, StampCounts

CONSTANTS
  Nets, TrackRows, ViaRows, None,
  Coppers,    \* the copper states of a net
  Stub,       \* the one it starts in
  TrackStamp, \* TrackStamp[n][s]: rows of TrackRows a net in copper state s takes
  ViaStamp,   \* ViaStamp[n][s]: rows a full-size via may not use
  SmallStamp, \* SmallStamp[n][s]: rows a small via may not use
  KeepOut,    \* KeepOut[n][s]: same-net via keep-out discs, a sequence of row sets
  Ring,       \* Ring[n]: the rings that vias of n's taps may have
  MaxRings,   \* bound: tap vias placed in one search
  BaseTrack,  \* rows of TrackRows the base map blocks
  BaseVia,    \* rows of ViaRows the base map blocks
  TieRows,    \* the partner copper's base rows inside the tied net's corridor
  Modes       \* settings of a run: [staticBase, smallRung, tieNet]

ASSUME RowsAssumption ==
  /\ IsFiniteSet(Nets) /\ None \notin Nets /\ Stub \in Coppers
  /\ TrackStamp \in [Nets -> [Coppers -> SUBSET TrackRows]]
  /\ ViaStamp \in [Nets -> [Coppers -> SUBSET ViaRows]]
  /\ SmallStamp \in [Nets -> [Coppers -> SUBSET ViaRows]]
  /\ KeepOut \in [Nets -> [Coppers -> Seq(SUBSET ViaRows)]]
  /\ Ring \in [Nets -> SUBSET SUBSET ViaRows]
  /\ BaseTrack \subseteq TrackRows /\ BaseVia \subseteq ViaRows
  /\ TieRows \subseteq BaseTrack
  /\ MaxRings \in Nat
(* The small map is used only beside a frozen base (route.py, #568).       *)
ASSUME ModesAssumption ==
  /\ Modes \subseteq [staticBase : BOOLEAN, smallRung : BOOLEAN, tieNet : Nets \cup {None}]
  /\ \A m \in Modes : m.smallRung => m.staticBase

(* A place that is too near for the small via is too near for the full-size *)
(* one: obstacle_cache.py:305, "full-size legality (safe everywhere)".     *)
ASSUME SmallIsSmaller ==
  \A n \in Nets, s \in Coppers : SmallStamp[n][s] \subseteq ViaStamp[n][s]

VARIABLES
  mode,     \* the settings of this run
  cells,    \* blocked_cells: the counts of TrackRows
  vias,     \* blocked_vias: the counts of ViaRows
  small,    \* blocked_vias_small
  copper,   \* the copper state of each net on the board
  cached,   \* the copper state net_obstacles_cache[n] was computed from
  routing,  \* the net between prepare and restore, or None
  keepOut,  \* same_net_via_cells of that bracket: the discs to take back
  rings,    \* ring_cells of route_multipoint_taps: the rings to take back
  lifted    \* _TIE_LIFTED holds the rows of this bracket

vars == <<mode, cells, vias, small, copper, cached, routing, keepOut, rings, lifted>>
counts == <<cells, vias, small>>

StaticBase == mode.staticBase \* the base map is a bitmap, not counts
SmallRung  == mode.smallRung  \* rung_small_armed() and the ladder has a smaller via
TieNet     == mode.tieNet     \* the net of a net-tie pad, or None

StaticTrack == IF StaticBase THEN BaseTrack ELSE {}
StaticVia   == IF StaticBase THEN BaseVia ELSE {}

----------------------------------------------------------------------------
(* A list of row sets is stamped, or taken back, set by set: a row counts  *)
(* once for every set it is in, and a removal saturates.                   *)
HeldBy(sets, r) == Cardinality({i \in DOMAIN sets : r \in sets[i]})

AddAll(count, sets) == [r \in DOMAIN count |-> count[r] + HeldBy(sets, r)]
RemoveAll(count, sets) ==
  [r \in DOMAIN count |-> IF count[r] > HeldBy(sets, r) THEN count[r] - HeldBy(sets, r) ELSE 0]

(* The mirrored via batches of the search bracket.                         *)
MirrorAdd(sets)    == IF SmallRung THEN AddAll(small, sets) ELSE small
MirrorRemove(sets) == IF SmallRung THEN RemoveAll(small, sets) ELSE small

(* add_net_obstacles_from_cache, remove_net_obstacles_from_cache; a cache  *)
(* carries small rows only when the rung is armed.                         *)
SmallRows(n, s) == IF SmallRung THEN SmallStamp[n][s] ELSE {}

BaseCounts(rows, base) ==
  [r \in rows |-> IF ~StaticBase /\ r \in base THEN 1 ELSE 0]

(* build_working_obstacle_map: base plus every net's cache.                *)
WithCaches(count, stamp) ==
  [r \in DOMAIN count |-> count[r] + Cardinality({n \in Nets : r \in stamp[n]})]

Init ==
  /\ mode \in Modes
  /\ copper = [n \in Nets |-> Stub]
  /\ cached = copper
  /\ cells = WithCaches(BaseCounts(TrackRows, BaseTrack), [n \in Nets |-> TrackStamp[n][Stub]])
  /\ vias  = WithCaches(BaseCounts(ViaRows, BaseVia), [n \in Nets |-> ViaStamp[n][Stub]])
  /\ small = WithCaches([r \in ViaRows |-> 0], [n \in Nets |-> SmallRows(n, Stub)])
  /\ routing = None
  /\ keepOut = <<>>
  /\ rings = <<>>
  /\ lifted = FALSE

(* prepare_obstacles_inplace.  The discs are stamped after the net's own   *)
(* rows are out.  Mutant: the keep-out is not mirrored.                    *)
PrepareUnmirrored(n) ==
  LET s == cached[n]
  IN /\ routing = None
     /\ routing' = n
     /\ lifted' = (n = TieNet /\ TieRows # {})
     /\ cells' = LET own == RemoveRows(cells, TrackStamp[n][s])
                 IN IF lifted' THEN RemoveRows(own, TieRows) ELSE own
     /\ keepOut' = KeepOut[n][copper[n]]
     /\ vias' = AddAll(RemoveRows(vias, ViaStamp[n][s]), keepOut')
     /\ small' = RemoveRows(small, SmallRows(n, s))
     /\ UNCHANGED <<mode, copper, cached, rings>>

Prepare(n) ==
  LET s == cached[n]
  IN /\ routing = None
     /\ routing' = n
     /\ lifted' = (n = TieNet /\ TieRows # {})
     /\ cells' = LET own == RemoveRows(cells, TrackStamp[n][s])
                 IN IF lifted' THEN RemoveRows(own, TieRows) ELSE own
     /\ keepOut' = KeepOut[n][copper[n]]
     /\ vias' = AddAll(RemoveRows(vias, ViaStamp[n][s]), keepOut')
     /\ small' = LET own == RemoveRows(small, SmallRows(n, s))
                 IN IF SmallRung THEN AddAll(own, keepOut') ELSE own
     /\ UNCHANGED <<mode, copper, cached, rings>>

(* _register_inprogress_via: a tap placed a via; later taps keep off it.   *)
RegisterTapVia(ring) ==
  /\ routing # None /\ ring \in Ring[routing]
  /\ Len(rings) < MaxRings
  /\ rings' = Append(rings, ring)
  /\ vias' = AddRows(vias, ring)
  /\ small' = MirrorAdd(<<ring>>)
  /\ UNCHANGED <<mode, cells, copper, cached, routing, keepOut, lifted>>

(* The finally of route_multipoint_taps, on every exit path.  Mutant: the  *)
(* rings stay in the small map.                                            *)
TapsEndUnmirrored ==
  /\ routing # None /\ rings # <<>>
  /\ vias' = RemoveAll(vias, rings)
  /\ rings' = <<>>
  /\ UNCHANGED <<mode, small, cells, copper, cached, routing, keepOut, lifted>>

TapsEnd ==
  /\ routing # None /\ rings # <<>>
  /\ vias' = RemoveAll(vias, rings)
  /\ small' = MirrorRemove(rings)
  /\ rings' = <<>>
  /\ UNCHANGED <<mode, cells, copper, cached, routing, keepOut, lifted>>

(* restore_obstacles_inplace, with s the copper state the cache is at.     *)
Restored(n, s) ==
  /\ vias' = AddRows(RemoveAll(vias, keepOut), ViaStamp[n][s])
  /\ small' = AddRows(MirrorRemove(keepOut), SmallRows(n, s))
  /\ cells' = AddRows(IF lifted THEN AddRows(cells, TieRows) ELSE cells, TrackStamp[n][s])
  /\ lifted' = FALSE
  /\ routing' = None
  /\ keepOut' = <<>>

(* The search failed: the bracket closes with the cache as it was.         *)
RestoreAfterFailure ==
  /\ routing # None /\ rings = <<>>
  /\ Restored(routing, cached[routing])
  /\ UNCHANGED <<mode, copper, cached, rings>>

(* A route landed: it is recorded on the board, the cache is recomputed,   *)
(* then the bracket closes.  Mutant: the bracket closes first.             *)
RestoreBeforeCache(s) ==
  /\ routing # None /\ rings = <<>>
  /\ copper' = [copper EXCEPT ![routing] = s]
  /\ Restored(routing, cached[routing])
  /\ cached' = copper'
  /\ UNCHANGED <<mode, rings>>

RestoreAfterSuccess(s) ==
  /\ routing # None /\ rings = <<>>
  /\ copper' = [copper EXCEPT ![routing] = s]
  /\ cached' = [cached EXCEPT ![routing] = s]
  /\ Restored(routing, s)
  /\ UNCHANGED <<mode, rings>>

(* rip_up_net, restore_net and the partial restores, between brackets: the *)
(* rows of the old cache out, the cache recomputed, the new rows in.       *)
Restamp(n, s) ==
  /\ routing = None
  /\ copper[n] # s
  /\ copper' = [copper EXCEPT ![n] = s]
  /\ cached' = [cached EXCEPT ![n] = s]
  /\ cells' = AddRows(RemoveRows(cells, TrackStamp[n][cached[n]]), TrackStamp[n][s])
  /\ vias' = AddRows(RemoveRows(vias, ViaStamp[n][cached[n]]), ViaStamp[n][s])
  /\ small' = AddRows(RemoveRows(small, SmallRows(n, cached[n])), SmallRows(n, s))
  /\ UNCHANGED <<mode, routing, keepOut, rings, lifted>>

Next ==
  \/ \E n \in Nets : Prepare(n)
  \/ \E n \in Nets, s \in Coppers : Restamp(n, s)
  \/ \E n \in Nets : \E ring \in Ring[n] : RegisterTapVia(ring)
  \/ TapsEnd
  \/ RestoreAfterFailure
  \/ \E s \in Coppers : RestoreAfterSuccess(s)

Spec == Init /\ [][Next]_vars

----------------------------------------------------------------------------
(* What a search asks of the map: is_blocked, is_via_blocked, and          *)
(* is_via_blocked_rung for the small via, where an empty small map falls   *)
(* back to the full-size answer.                                           *)
TrackBlocked(r) == cells[r] > 0 \/ r \in StaticTrack
ViaBlocked(r)   == vias[r] > 0 \/ r \in StaticVia
SmallBlocked(r) ==
  IF BlockedRows(small) # {} THEN small[r] > 0 \/ r \in StaticVia ELSE ViaBlocked(r)

(* How many nets but x have row r in their cache.                          *)
Stampers(stamp, r, x) == Cardinality({n \in Nets \ {x} : r \in stamp[n][cached[n]]})

----------------------------------------------------------------------------
(* The shape of the state.                                                 *)
TypeOK ==
  /\ mode \in Modes
  /\ cells \in [TrackRows -> Nat]
  /\ vias \in [ViaRows -> Nat] /\ small \in [ViaRows -> Nat]
  /\ copper \in [Nets -> Coppers] /\ cached \in [Nets -> Coppers]
  /\ routing \in Nets \cup {None}
  /\ keepOut \in Seq(SUBSET ViaRows) /\ rings \in Seq(SUBSET ViaRows)
  /\ lifted \in BOOLEAN

(* run_obstacle_audit: "working == base + sum(current net caches)", for    *)
(* each of the three families, whenever no search is under way; and inside *)
(* a bracket what differs is what restore will put right.                  *)
MapsBalanced ==
  /\ TypeOK
  /\ routing = None => keepOut = <<>> /\ rings = <<>> /\ ~lifted
  /\ \A r \in TrackRows :
       cells[r] = BaseCounts(TrackRows, BaseTrack)[r]
                    + Stampers(TrackStamp, r, routing)
                    - (IF lifted /\ r \in TieRows THEN 1 ELSE 0)
  /\ \A r \in ViaRows :
       /\ vias[r] = BaseCounts(ViaRows, BaseVia)[r]
                      + Stampers(ViaStamp, r, routing)
                      + HeldBy(keepOut, r) + HeldBy(rings, r)
       /\ small[r] = IF SmallRung
                     THEN Stampers(SmallStamp, r, routing)
                            + HeldBy(keepOut, r) + HeldBy(rings, r)
                     ELSE 0

(* #568: a small via is never legal where the caller has not proven it:    *)
(* neither on the rows of another net's copper, nor of the base, nor in    *)
(* the keep-out of a via of the net itself.                                *)
SmallViasAreProven ==
  routing # None => \A r \in ViaRows :
    /\ (\E n \in Nets \ {routing} : r \in SmallStamp[n][cached[n]]) => SmallBlocked(r)
    /\ r \in BaseVia => SmallBlocked(r)
    /\ HeldBy(keepOut, r) + HeldBy(rings, r) > 0 => SmallBlocked(r)

(* While a net is searched its own stamps are out of the way, and nobody   *)
(* else's: a track row is blocked exactly when another net or the base     *)
(* (less the opened corridor) takes it.                                    *)
SearchSeesTheOthers ==
  routing # None => \A r \in TrackRows :
    TrackBlocked(r) <=>
      \/ r \in BaseTrack \ (IF lifted THEN TieRows ELSE {})
      \/ \E n \in Nets \ {routing} : r \in TrackStamp[n][cached[n]]

(* routing_context.py: "remove exactly the PARTNER copper's recorded stamp *)
(* rows inside this net's corridor": a tied net's search finds them open.  *)
CorridorOpens ==
  (routing = TieNet /\ lifted) =>
    \A r \in TieRows :
      (\A n \in Nets \ {routing} : r \notin TrackStamp[n][cached[n]]) => ~TrackBlocked(r)
=================================================================================
