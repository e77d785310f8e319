----------------------------- MODULE CasualtyReconcile -----------------------------
(***************************************************************************)
(* The end of a run: run_casualty_reconcile (diff_pair_custody.py) settles *)
(* the nets that were ripped and never came back, then route.py keeps the  *)
(* authoritative results in the write-list and drops from the board what   *)
(* no result and no input copper accounts for.  The stages follow the two  *)
(* loops of RipReroute; the passes the repository runs between them (phase *)
(* 3, length matching, net rescue) are not part of this module.            *)
(***************************************************************************)
EXTENDS RipReroute

CONSTANT Id \* Id[n]: the number of net n

ASSUME IdAssumption == Id \in [Nets -> Nat] /\ IsInjective(Id)

VARIABLES
  stage,  \* "loops", "restore", "reroute", "write" or "written"
  todo,   \* the casualties the stage still has to take
  still,  \* still_broken: the casualties whose restore was refused
  partial \* the pieces the last resort put back, per net

settleVars == <<stage, todo, still, partial>>
runVars == <<vars, settleVars>>

RunInit ==
  /\ Init
  /\ stage = "loops" /\ todo = <<>> /\ still = <<>>
  /\ partial = [n \in Nets |-> {}]

Loops ==
  /\ stage = "loops"
  /\ SEStep \/ RerouteStep \/ (LadderStep /\ UNCHANGED loopVars)
  /\ UNCHANGED settleVars

(* A: the custody records of nets no later reroute recovered, in the order *)
(* of the ids.                                                             *)
Broken(n) == custody[n] # None /\ ~IsRouted(n)

Casualties ==
  {s \in SetToSeqs({n \in Nets : Broken(n)}) :
     \A i, j \in DOMAIN s : i < j => Id[s[i]] < Id[s[j]]}

FindCasualties ==
  /\ stage = "loops" /\ phase = "reconcile"
  /\ stage' = "restore"
  /\ todo' \in Casualties
  /\ UNCHANGED <<vars, still, partial>>

(* B: restore first; a refused restore leaves the net broken.  Mutant: a   *)
(* refused restore is tried again after the others.                        *)
RestoreCasualtyAgain ==
  /\ stage = "restore" /\ todo # <<>>
  /\ LET n == Head(todo)
     IN /\ RestoreNet(n, custody[n])
        /\ todo' = IF routed'[n] # None THEN Tail(todo) ELSE Append(Tail(todo), n)
  /\ UNCHANGED <<ladderVars, loopVars, stage, still, partial>>

RestoreCasualty ==
  /\ stage = "restore" /\ todo # <<>>
  /\ LET n == Head(todo)
     IN /\ RestoreNet(n, custody[n])
        /\ still' = IF routed'[n] # None THEN still ELSE Append(still, n)
  /\ todo' = Tail(todo)
  /\ UNCHANGED <<ladderVars, loopVars, stage, partial>>

RestoresDone ==
  /\ stage = "restore" /\ todo = <<>>
  /\ stage' = "reroute" /\ todo' = still
  /\ UNCHANGED <<vars, still, partial>>

(* build_single_ended_obstacles: a fresh map of everybody else's copper.   *)
ClearRoutes(n) ==
  {r \in RouteOptions[n] : r \cap (copper[n] \cup OthersCopper(n)) = {}}

(* C: one plain attempt, without rips and without touching the working map *)
(* or the cache; not made after a cancel.                                  *)
RerouteCasualty(r) ==
  /\ stage = "reroute" /\ todo # <<>> /\ ~cancelled
  /\ LET n == Head(todo)
     IN /\ r \in ClearRoutes(n)
        /\ copper' = [copper EXCEPT ![n] = @ \cup r]
        /\ Books(n, Found(n, r))
        /\ results' = results \cup {Found(n, r)}
  /\ todo' = Tail(todo)
  /\ UNCHANGED <<cache, work, ripSaved, refused, ladderVars, loopVars, stage, still,
                 partial>>

(* The pieces of a payload that are clear and that reach a pad or copper   *)
(* of the net (drop_orphan_restore_pieces).  Mutant: every piece goes back.*)
KeptPiecesAll(n, cells) == {cells}

KeptPieces(n, cells) ==
  LET clear == cells \ OthersCopper(n)
  IN {kept \in SUBSET clear :
        /\ clear \cap Escape[n] \subseteq kept
        /\ kept # {} => kept \cap Escape[n] # {} \/ copper[n] # {}}

(* D: last resort, the pieces of the stashed route.  Mutant: a cancelled   *)
(* run abandons the casualty.                                              *)
PartialRestoreUnlessCancelled ==
  /\ stage = "reroute" /\ todo # <<>>
  /\ LET n   == Head(todo)
         src == IF refused[n] # None THEN refused[n] ELSE custody[n].saved
     IN \E kept \in IF cancelled THEN {{}} ELSE KeptPieces(n, src.cells) :
          /\ copper' = [copper EXCEPT ![n] = @ \cup kept]
          /\ results' = IF kept = {} THEN results
                        ELSE results \cup {[src EXCEPT !.cells = kept]}
          /\ partial' = [partial EXCEPT ![n] = kept]
  /\ todo' = Tail(todo)
  /\ UNCHANGED <<cache, work, routed, routedIds, paths, remaining, ripSaved, refused,
                 ladderVars, loopVars, stage, still>>

PartialRestore ==
  /\ stage = "reroute" /\ todo # <<>>
  /\ LET n   == Head(todo)
         src == IF refused[n] # None THEN refused[n] ELSE custody[n].saved
     IN \E kept \in KeptPieces(n, src.cells) :
          /\ copper' = [copper EXCEPT ![n] = @ \cup kept]
          /\ results' = IF kept = {} THEN results
                        ELSE results \cup {[src EXCEPT !.cells = kept]}
          /\ partial' = [partial EXCEPT ![n] = kept]
  /\ todo' = Tail(todo)
  /\ UNCHANGED <<cache, work, routed, routedIds, paths, remaining, ripSaved, refused,
                 ladderVars, loopVars, stage, still>>

CasualtiesDone ==
  /\ stage = "reroute" /\ todo = <<>>
  /\ stage' = "write"
  /\ UNCHANGED <<vars, todo, still, partial>>

(* The write-list keeps the result routed_results holds for each net; the  *)
(* board then keeps input copper and copper of the write-list              *)
(* (drop_phantom_copper).                                                  *)
(* Mutant: every result is written.                                        *)
AllResults == results
Authoritative == {res \in results : routed[res.net] = res}

Write ==
  /\ stage = "write"
  /\ results' = Authoritative
  /\ copper' = [n \in Nets |->
       copper[n] \cap (InitCopper(n) \cup
                       UNION {res.cells : res \in {x \in Authoritative : x.net = n}})]
  /\ stage' = "written"
  /\ UNCHANGED <<cache, work, routed, routedIds, paths, remaining, ripSaved, refused,
                 ladderVars, loopVars, todo, still, partial>>

Written == stage = "written" /\ UNCHANGED runVars

Settle ==
  \/ FindCasualties
  \/ RestoreCasualty
  \/ RestoresDone
  \/ \E r \in AllRoutes : RerouteCasualty(r)
  \/ PartialRestore
  \/ CasualtiesDone
  \/ Write

RunNext == (Cancel /\ UNCHANGED settleVars) \/ Loops \/ Settle \/ Written

(* The engine always takes its next step; cancelling is the user's choice. *)
RunFairness == WF_runVars(Settle \/ Loops)

RunSpec == RunInit /\ [][RunNext]_runVars /\ RunFairness

----------------------------------------------------------------------------
(* A casualty the reconciliation could not bring back keeps, on the board, *)
(* every pad-side piece of its old route that no other net needs - also    *)
(* after a cancel ("custody is never abandoned").                          *)
CustodyNeverAbandoned ==
  stage = "write" => \A n \in Nets : Broken(n) =>
    (custody[n].saved.cells \cap Escape[n]) \ OthersCopper(n) \subseteq copper[n]

(* The file agrees with the ledgers: one result for every routed net of    *)
(* this run and none for any other, with all its copper on the board.      *)
WrittenLedgersAgree == stage = "written" => LedgersAgree

(* Every run ends with a written board.                                    *)
EventuallyWritten == <>(stage = "written")

(* "piece-level partial restore of the non-colliding copper (parity with   *)
(* route.py's #134 last resort)": the pieces put back are in the file.     *)
PartialRestoresShip ==
  stage = "written" => \A n \in Nets : partial[n] \subseteq copper[n]
=================================================================================
