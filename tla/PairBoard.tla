-------------------------------- MODULE PairBoard --------------------------------
(***************************************************************************)
(* The ledgers of a differential-pair run (route_diff.py) and the          *)
(* primitives its loops share: record a pair, rip it, restore it.  Every   *)
(* ledger is kept per net, so per half of a pair; that the halves move     *)
(* together depends on diff_pair_by_net_id, which each landing fills in.   *)
(*                                                                         *)
(* A pair with more than two terminals is routed as a chain of legs: the   *)
(* ledgers then hold one merged result, the write-list the legs.           *)
(***************************************************************************)
EXTENDS Naturals, FiniteSets, SequencesExt

CONSTANTS
  Pairs,
  Cells,       \* a place the copper of at most one net may take
  PairOptions, \* PairOptions[x]: the routes of x, each cells per side
  Chained,     \* the pairs with more than two terminals
  PairStub,    \* PairStub[h]: the copper of a half in the input file
  PairEscape,  \* PairEscape[x]: cells of routes of x at the pads of its P net
  None

Sides        == {"p", "n"}
Halves       == Pairs \X Sides
Pair(h)      == h[1]
P(x)         == <<x, "p">>
HalvesOf(x)  == {x} \X Sides

ASSUME PairAssumption ==
  /\ IsFiniteSet(Pairs) /\ None \notin Pairs /\ Chained \subseteq Pairs
  /\ \A x \in Pairs : \A r \in PairOptions[x] :
       r \in [Sides -> SUBSET Cells] /\ r["p"] \cap r["n"] = {} /\ r["p"] # {}
  /\ PairStub \in [Halves -> SUBSET Cells]
  /\ \A h, k \in Halves : h # k => PairStub[h] \cap PairStub[k] = {}

(* A result of the coupled search, of its hybrid (which has no paths), or  *)
(* of a chain with its number of legs; and what a rip saves of it.         *)
PairResults  == [pair : Pairs, cells : [Sides -> SUBSET Cells], legs : Nat, paths : BOOLEAN]
PairPayloads == [res : PairResults, ids : SUBSET Halves, wasIn : BOOLEAN]
ASSUME NoneIsNoPairResult == None \notin PairResults \cup PairPayloads

VARIABLES
  copper,    \* pcb_data: the cells of each half
  routed,    \* routed_results: the result of each half, or None
  ids,       \* routed_net_ids
  remaining, \* remaining_net_ids
  named,     \* the keys of routed_net_paths
  mapped,    \* the keys of diff_pair_by_net_id
  results,   \* results, the write-list: <<result, leg>>, leg 0 the whole of it
  saved,     \* pcb_data._rip_saved: the payload of the last rip, or None
  refused    \* collision_refused_net_ids

books     == <<copper, routed, ids, remaining, named, mapped, results>>
boardVars == <<books, saved, refused>>

BoardInit ==
  /\ copper = PairStub
  /\ routed = [h \in Halves |-> None]
  /\ ids = {} /\ remaining = Halves
  /\ named = {} /\ mapped = {} /\ results = {}
  /\ saved = [h \in Halves |-> None]
  /\ refused = {}

Others(h) == UNION {copper[k] : k \in Halves \ {h}}

Result(x, r, legs, paths) == [pair |-> x, cells |-> r, legs |-> legs, paths |-> paths]
Parts(res)   == {<<res, i>> : i \in 1..res.legs}
Whole(res)   == <<res, 0>>
Written(res) == IF res.legs = 0 THEN {Whole(res)} ELSE Parts(res)
Members(res) == {Whole(res)} \cup Parts(res)

IsRouted(x) == \A h \in HalvesOf(x) : routed[h] # None

(* Routes the board has room for: every result is checked against the      *)
(* copper of all other nets before it is returned.  The map that is        *)
(* searched may be older: the pair loop rebuilds it after a graze rip      *)
(* (diff_pair_loop.py:372) and not when the victims are put back, so a     *)
(* search may meet that check where the model has one that fails.          *)
FreeRoutes(x) ==
  {r \in PairOptions[x] : \A s \in Sides : r[s] \cap Others(<<x, s>>) = {}}

Lay(res)    == copper' = [h \in Halves |-> IF Pair(h) = res.pair
                            THEN copper[h] \cup res.cells[h[2]] ELSE copper[h]]
TakeOff(res) == copper' = [h \in Halves |-> IF Pair(h) = res.pair
                             THEN copper[h] \ res.cells[h[2]] ELSE copper[h]]
Assign(hs, v) == [h \in Halves |-> IF h \in hs THEN v ELSE routed[h]]
NamedBy(res, hs) == IF res.paths THEN hs ELSE {}

(* Mutant of RecordPair: the copy in the hybrid branch does not enter the  *)
(* pair in diff_pair_by_net_id.                                            *)
RecordUnmapped(res) ==
  LET hs == HalvesOf(res.pair)
  IN /\ Lay(res)
     /\ routed' = Assign(hs, res)
     /\ ids' = ids \cup hs /\ remaining' = remaining \ hs
     /\ named' = named \cup NamedBy(res, hs)
     /\ mapped' = IF res.paths THEN mapped \cup hs ELSE mapped
     /\ results' = results \cup Written(res)
     /\ UNCHANGED <<saved, refused>>

(* A landing: record_diff_pair_success and the inline copies of it in the  *)
(* pair loop.                                                              *)
RecordPair(res) ==
  LET hs == HalvesOf(res.pair)
  IN /\ Lay(res)
     /\ routed' = Assign(hs, res)
     /\ ids' = ids \cup hs /\ remaining' = remaining \ hs
     /\ named' = named \cup NamedBy(res, hs)
     /\ mapped' = mapped \cup hs
     /\ results' = results \cup Written(res)
     /\ UNCHANGED <<saved, refused>>

(* The nets a rip of h takes with it.                                      *)
RippedWith(h) == IF h \in mapped THEN HalvesOf(Pair(h)) ELSE {h}

(* Mutant of Payload: the write-list is searched for the merged result     *)
(* only.                                                                   *)
PayloadByValue(h) == [res |-> routed[h], ids |-> RippedWith(h),
                      wasIn |-> Whole(routed[h]) \in results]
Payload(h) == [res |-> routed[h], ids |-> RippedWith(h),
               wasIn |-> Members(routed[h]) \cap results # {}]

(* rip_up_net: a merged result leaves the write-list with all its legs.    *)
RipUp(h) ==
  LET hs == RippedWith(h)
  IN /\ TakeOff(routed[h])
     /\ results' = results \ Members(routed[h])
     /\ routed' = Assign(hs, None)
     /\ ids' = ids \ hs /\ remaining' = remaining \cup hs
     /\ named' = named \ hs
     /\ saved' = [k \in Halves |-> IF k \in hs THEN Payload(h) ELSE saved[k]]
     /\ UNCHANGED <<mapped, refused>>

Collides(payload) ==
  \E h \in payload.ids : \E k \in Halves \ payload.ids :
    payload.res.cells[h[2]] \cap copper[k] # {}

Relay(payload) ==
  /\ Lay(payload.res)
  /\ routed' = Assign(payload.ids, payload.res)
  /\ ids' = ids \cup payload.ids /\ remaining' = remaining \ payload.ids
  /\ UNCHANGED mapped

(* restore_net: refuse when other copper moved in, else undo the rip; the  *)
(* legs of a merged result go back to the write-list.                      *)
RestoreNet(payload) ==
  /\ saved' = [h \in Halves |-> IF h \in payload.ids THEN None ELSE saved[h]]
  /\ IF Collides(payload)
     THEN refused' = refused \cup payload.ids /\ UNCHANGED books
     ELSE /\ Relay(payload)
          /\ named' = named \cup NamedBy(payload.res, payload.ids)
          /\ results' = results \cup IF payload.wasIn THEN Written(payload.res) ELSE {}
          /\ UNCHANGED refused

(* restore_ripped_net, which the graze and probe steps use: the path       *)
(* entries stay away and a merged result goes to the write-list whole.     *)
RestoreRippedNet(payload) ==
  /\ UNCHANGED <<saved, refused>>
  /\ IF Collides(payload)
     THEN UNCHANGED books
     ELSE /\ Relay(payload)
          /\ results' = results \cup IF payload.wasIn THEN {Whole(payload.res)} ELSE {}
          /\ UNCHANGED named
=================================================================================
