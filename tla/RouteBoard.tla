-------------------------------- MODULE RouteBoard --------------------------------
(***************************************************************************)
(* The board of one routing run and the ledgers kept beside it             *)
(* (RoutingState, rip_up_reroute.py, routing_context.py, obstacle_cache.py *)
(* under py_router): which copper is on the board, which rows each net     *)
(* stamps in the shared working obstacle map, and which nets count as      *)
(* routed.  The primitives of this module are the ones every routing loop  *)
(* goes through: record a success, rip a net, restore a net, put back an   *)
(* escape stub.                                                            *)
(*                                                                         *)
(* A cell is a place of the grid that the copper of at most one net may    *)
(* take; the clearance around it is part of the cell.                      *)
(***************************************************************************)
EXTENDS Naturals, FiniteSets, StampCounts

CONSTANTS
  Nets,         \* the nets of the run
  Cells,        \* the places copper can take
  Existing,     \* nets of the file the run may rip (--rip-existing-nets)
  Stub,         \* Stub[n]: the copper of a net to route in the input file
  FileRoute,    \* FileRoute[n]: the copper of an Existing net in the input file
  RouteOptions, \* RouteOptions[n]: the cell sets a route of n may consist of
  Escape,       \* Escape[n]: the cells of a route of n that touch its pads
  None

ASSUME NetsAssumption ==
  /\ IsFiniteSet(Nets) /\ Existing \subseteq Nets
  /\ None \notin Nets
ASSUME CopperAssumption ==
  /\ Stub \in [Nets -> SUBSET Cells]
  /\ FileRoute \in [Nets -> SUBSET Cells]
  /\ RouteOptions \in [Nets -> SUBSET SUBSET Cells]
  /\ Escape \in [Nets -> SUBSET Cells]

(* All copper of an Existing net is its result, which a rip takes away;    *)
(* the stubs of a net to route are nobody's result.  Pads never move and   *)
(* are left out.                                                           *)
InitCopper(n) == IF n \in Existing THEN FileRoute[n] ELSE Stub[n]

(* The input board has no short.                                           *)
ASSUME InputBoardIsClean ==
  \A m, n \in Nets : m # n => InitCopper(m) \cap InitCopper(n) = {}

(* A routing result: its net, the copper it added, and whether it is a     *)
(* route found in the input file, which carries no 'path'.                 *)
Results == [net : Nets, cells : SUBSET Cells, existing : BOOLEAN]
ASSUME NoneIsNoResult == None \notin Results

Found(n, r)   == [net |-> n, cells |-> r, existing |-> FALSE]
FromFile(n)   == [net |-> n, cells |-> FileRoute[n], existing |-> TRUE]

VARIABLES
  copper,    \* pcb_data: the cells each net's segments and vias take
  cache,     \* net_obstacles_cache: the rows each net has stamped
  work,      \* working_obstacles: the reference count of every row
  routed,    \* routed_results: the authoritative result of a net, or None
  routedIds, \* routed_net_ids
  paths,     \* the keys of routed_net_paths: what a failure can blame
  results,   \* results: the write-list
  remaining, \* remaining_net_ids
  ripSaved,  \* pcb_data._rip_saved: the payload of the last rip, or None
  refused    \* collision_refused_net_ids with the stash _refused_saved_134

boardVars == <<copper, cache, work, routed, routedIds, paths, results,
               remaining, ripSaved, refused>>

BoardInit ==
  /\ copper = [n \in Nets |-> InitCopper(n)]
  /\ cache = copper
  /\ work = [c \in Cells |-> IF \E n \in Nets : c \in InitCopper(n) THEN 1 ELSE 0]
  /\ routed = [n \in Nets |-> IF n \in Existing THEN FromFile(n) ELSE None]
  /\ routedIds = Existing
  /\ paths = Existing
  /\ results = {}
  /\ remaining = Nets \ Existing
  /\ ripSaved = [n \in Nets |-> None]
  /\ refused = [n \in Nets |-> None]

----------------------------------------------------------------------------
IsRouted(n) == routed[n] # None

OthersCopper(n) == UNION {copper[m] : m \in Nets \ {n}}

(* _saved_route_collides, _copper_conflicts: would this copper of n short   *)
(* another net's copper?                                                   *)
Collides(n, cells) == cells \cap OthersCopper(n) # {}

(* prepare_obstacles_inplace: the map a route of n is searched on.         *)
PreparedMap(n) == RemoveRows(work, cache[n])

(* What a search on a map may return: new copper on rows nobody blocks.    *)
RoutesOn(n, map) ==
  {r \in RouteOptions[n] : r \cap (copper[n] \cup BlockedRows(map)) = {}}

(* Mutant of Restamp: the old rows stay in the map.                        *)
RestampAddsOnly(n, cells) ==
  /\ copper' = [copper EXCEPT ![n] = cells]
  /\ cache' = [cache EXCEPT ![n] = cells]
  /\ work' = AddRows(work, cells)

(* Removing the cached rows of a net from the map, recomputing the cache   *)
(* from the board and stamping the new rows.                               *)
Restamp(n, cells) ==
  /\ copper' = [copper EXCEPT ![n] = cells]
  /\ cache' = [cache EXCEPT ![n] = cells]
  /\ work' = AddRows(RemoveRows(work, cache[n]), cells)

(* The ledgers of a net that is on the board again.                         *)
Books(n, res) ==
  /\ routed' = [routed EXCEPT ![n] = res]
  /\ routedIds' = routedIds \cup {n}
  /\ paths' = IF res.existing THEN paths ELSE paths \cup {n}
  /\ remaining' = remaining \ {n}

(* A route that landed.  kept is the copper of n that stays: all of it, or *)
(* what the stub-debris trim left.                                         *)
RecordSuccess(n, r, kept) ==
  /\ Restamp(n, kept \cup r)
  /\ Books(n, Found(n, r))
  /\ results' = results \cup {Found(n, r)}
  /\ UNCHANGED <<ripSaved, refused>>

(* What a rip hands to a later restore.  Mutant: the mark that the result  *)
(* was in the write-list is lost.                                          *)
PayloadOffList(n)  == [saved |-> routed[n], wasIn |-> FALSE]
Payload(n) == [saved |-> routed[n], wasIn |-> routed[n] \in results]

(* rip_up_net for a single-ended net: take the result's copper off the     *)
(* board, out of the write-list and out of the ledgers; keep the payload   *)
(* in the registry.                                                        *)
RipUp(n) ==
  /\ Restamp(n, copper[n] \ routed[n].cells)
  /\ results' = results \ {routed[n]}
  /\ routed' = [routed EXCEPT ![n] = None]
  /\ routedIds' = routedIds \ {n}
  /\ paths' = paths \ {n}
  /\ remaining' = remaining \cup {n}
  /\ ripSaved' = [ripSaved EXCEPT ![n] = Payload(n)]
  /\ UNCHANGED refused

(* restore_net: consume the payload; refuse when the corridor was taken    *)
(* meanwhile (the result is then stashed), else undo the rip.              *)
RestoreNet(n, payload) ==
  /\ ripSaved' = [ripSaved EXCEPT ![n] = None]
  /\ \/ /\ Collides(n, payload.saved.cells)
        /\ refused' = [refused EXCEPT ![n] = payload.saved]
        /\ UNCHANGED <<copper, cache, work, routed, routedIds, paths, results,
                       remaining>>
     \/ /\ ~Collides(n, payload.saved.cells)
        /\ Restamp(n, copper[n] \cup payload.saved.cells)
        /\ Books(n, payload.saved)
        /\ results' = IF payload.wasIn THEN results \cup {payload.saved} ELSE results
        /\ UNCHANGED refused

(* The 'stub' outcome of try_terminal_restore: the pieces of the saved     *)
(* route at the pads of n that are clear go back, on the board and in the  *)
(* map only.                                                               *)
ClearStub(n, payload) ==
  (payload.saved.cells \cap Escape[n]) \ OthersCopper(n)

RestoreStub(n, payload) ==
  /\ Restamp(n, copper[n] \cup ClearStub(n, payload))
  /\ UNCHANGED <<routed, routedIds, paths, results, remaining, ripSaved, refused>>

----------------------------------------------------------------------------
Payloads == [saved : Results, wasIn : BOOLEAN]
ASSUME NoneIsNoPayload == None \notin Payloads

(* The shape of the board's state.                                         *)
BoardTypeOK ==
  /\ copper \in [Nets -> SUBSET Cells]
  /\ cache \in [Nets -> SUBSET Cells]
  /\ work \in [Cells -> Nat]
  /\ routed \in [Nets -> Results \cup {None}]
  /\ \A n \in Nets : IsRouted(n) => routed[n].net = n
  /\ routedIds \subseteq Nets
  /\ paths \subseteq Nets
  /\ results \subseteq Results
  /\ remaining \subseteq Nets
  /\ ripSaved \in [Nets -> Payloads \cup {None}]
  /\ \A n \in Nets : ripSaved[n] # None => ripSaved[n].saved.net = n
  /\ refused \in [Nets -> Results \cup {None}]

Stampers(c) == {n \in Nets : c \in cache[n]}

(* No step ever leaves copper of two nets in the same cell: no route,      *)
(* rollback, terminal restore or stub swap ships a short (#134).           *)
NoShort == \A m, n \in Nets : m # n => copper[m] \cap copper[n] = {}

(* The rows a net stamps are the copper it has, so what the next search    *)
(* sees is the board (obstacle_cache.py: "the cache entry keeps mirroring  *)
(* the board").                                                            *)
CacheMirrorsBoard == cache = copper

(* The reference counts cover every stamp of every net: no cell that holds *)
(* copper can look free to a search.                                       *)
MapCovers == \A c \in Cells : work[c] >= Cardinality(Stampers(c))

(* run_obstacle_audit (#309): working == base + sum(current net caches).   *)
MapBalanced == \A c \in Cells : work[c] = Cardinality(Stampers(c))

(* The four ledgers that decide what is an obstacle, what may be ripped    *)
(* and what is written tell one story about which nets are routed.         *)
LedgersAgree ==
  /\ routedIds = {n \in Nets : IsRouted(n)}
  /\ remaining = Nets \ routedIds
  /\ results = {routed[n] : n \in {m \in routedIds : ~routed[m].existing}}
  /\ \A n \in routedIds : routed[n].cells \subseteq copper[n]
=================================================================================
