------------------------------ MODULE TapCascade_proofs ------------------------------
(***************************************************************************)
(* What phase 3 guarantees, for any board, any taps and any depth of the   *)
(* cascade.  The first part follows the calls in progress and the guards   *)
(* they hold in the working map, the second what they hold against the     *)
(* board, the third the nets the loop has still to take, and the fourth    *)
(* the phase without stubs, where no hypothesis is left.                   *)
(***************************************************************************)
EXTENDS TapCascade, RouteBoard_proofs

(* A victim in the hands of a call, and the calls by kind.                 *)
Loads == {v \in [net : Nets, payload : Payloads] : v.payload.saved.net = v.net}

NetFrames ==
  [kind : {"net"}, stage : Stages.net, net : Nets, lm : Results,
   taps : Taps \cup {None}, saved : Payloads \cup {None}]
TapFrames ==
  [kind : {"tap"}, stage : Stages.tap, net : Nets, orig : Taps, retry : Taps \cup {None},
   depth : Nat, ancestors : SUBSET Nets, ripped : Seq(Loads), subtree : SUBSET Nets,
   again : Seq(Nets)]
RerouteFrames ==
  [kind : {"reroute"}, stage : Stages.reroute, items : Seq(Nets), depth : Nat,
   ancestors : SUBSET Nets, main : Results \cup {None}, nested : Seq(Loads),
   taps : Taps \cup {None}]
Frames == NetFrames \cup TapFrames \cup RerouteFrames

(* What a call has in hand at each of its stages.                          *)
NetFits(f) ==
  /\ f \in NetFrames
  /\ f.stage = "commit" => f.taps \in Taps
  /\ f.stage \in {"reasked", "undone"} => f.saved \in Payloads /\ f.saved.saved.net = f.net

TapFits(f) ==
  /\ f \in TapFrames
  /\ f.stage = "arbitrate" => f.retry \in Taps
  /\ Len(f.ripped) <= MaxRip /\ f.depth <= MaxRip
  /\ \A i \in DOMAIN f.ripped : f.ripped[i].net \in f.subtree

RerouteFits(f) ==
  /\ f \in RerouteFrames
  /\ Len(f.nested) <= MaxRip /\ f.depth <= MaxRip + 1
  /\ f.stage # "item" => f.items # <<>>
  /\ f.stage = "item" => f.nested = <<>>
  /\ f.stage \in {"level", "retry", "unwind"} \/ f.nested # <<>> => f.depth < MaxRip
  /\ f.stage \in {"taps", "commit"} => f.main \in Results
  /\ f.stage = "commit" => f.taps \in Taps

Fits(f) ==
  CASE f.kind = "net" -> NetFits(f)
    [] f.kind = "tap" -> TapFits(f)
    [] OTHER -> RerouteFits(f)

(* Who calls whom, and where the caller waits.                             *)
Calls(f, g) ==
  IF g.kind = "tap" THEN f.kind # "tap" /\ f.stage = "commit"
  ELSE \/ f.kind = "tap" /\ f.stage \in {"arbitrate", "settled"}
       \/ f.kind = "reroute" /\ f.stage = "taps"
       \/ f.kind = "net" /\ f.stage = "reasked"

Placed(i) ==
  /\ Fits(stack[i])
  /\ stack[i].kind = "net" <=> i = 1
  /\ i > 1 => Calls(stack[i - 1], stack[i])

Depth == Len(stack)

CallsInv ==
  /\ BoardTypeOK /\ CacheMirrorsBoard
  /\ pending \in [Nets -> Results \cup {None}] /\ at \in 1..(Len(Order) + 1)
  /\ stack \in Seq(Frames)
  /\ \A i \in 1..Depth : Placed(i)
  /\ MapAccounts

----------------------------------------------------------------------------
(* The stack.                                                              *)
LEMMA StackFacts ==
  ASSUME stack \in Seq(Frames), stack # <<>>
  PROVE  /\ Depth \in Nat \ {0} /\ DOMAIN stack = 1..Depth
         /\ Top = stack[Depth] /\ Top \in Frames
  BY DEF Top, Last, Depth

LEMMA FrontFacts ==
  ASSUME NEW S, NEW s \in Seq(S), s # <<>>
  PROVE  /\ Front(s) \in Seq(S) /\ Len(Front(s)) = Len(s) - 1
         /\ DOMAIN Front(s) = 1..(Len(s) - 1)
         /\ \A i \in 1..(Len(s) - 1) : Front(s)[i] = s[i]
<1>1. Len(s) \in Nat \ {0} /\ DOMAIN s = 1..Len(s) /\ \A i \in 1..Len(s) : s[i] \in S
  OBVIOUS
<1>2. /\ Front(s) \in Seq(S) /\ Len(Front(s)) = Len(s) - 1
      /\ \A i \in 1..(Len(s) - 1) : Front(s)[i] = s[i]
  BY <1>1 DEF Front
<1> QED
  BY <1>1, <1>2

LEMMA Becoming ==
  ASSUME stack \in Seq(Frames), stack # <<>>, NEW f \in Frames, Become(f)
  PROVE  /\ stack' \in Seq(Frames) /\ stack' # <<>> /\ Depth' = Depth
         /\ \A i \in 1..(Depth - 1) : stack'[i] = stack[i]
         /\ stack'[Depth] = f
<1>1. /\ Front(stack) \in Seq(Frames) /\ Len(Front(stack)) = Depth - 1
      /\ \A i \in 1..(Depth - 1) : Front(stack)[i] = stack[i]
      /\ Depth \in Nat \ {0}
  BY FrontFacts, StackFacts DEF Depth
<1>2. PICK s : s = Front(stack)
  OBVIOUS
<1>3. stack' = Append(s, f)
  BY <1>2 DEF Become
<1> QED
  BY <1>1, <1>2, <1>3 DEF Depth

LEMMA TwoMore ==
  ASSUME NEW S, NEW s \in Seq(S), NEW f \in S, NEW g \in S, NEW k \in Nat, Len(s) = k
  PROVE  /\ s \o <<f, g>> \in Seq(S) /\ Len(s \o <<f, g>>) = k + 2
         /\ \A i \in 1..k : (s \o <<f, g>>)[i] = s[i]
         /\ (s \o <<f, g>>)[k + 1] = f /\ (s \o <<f, g>>)[k + 2] = g
  OBVIOUS

LEMMA Calling ==
  ASSUME stack \in Seq(Frames), stack # <<>>, NEW f \in Frames, NEW g \in Frames, Call(f, g)
  PROVE  /\ stack' \in Seq(Frames) /\ stack' # <<>> /\ Depth' = Depth + 1
         /\ \A i \in 1..(Depth - 1) : stack'[i] = stack[i]
         /\ stack'[Depth] = f /\ stack'[Depth + 1] = g
<1>1. /\ Front(stack) \in Seq(Frames) /\ Len(Front(stack)) = Depth - 1
      /\ \A i \in 1..(Depth - 1) : Front(stack)[i] = stack[i]
      /\ Depth \in Nat \ {0}
  BY FrontFacts, StackFacts DEF Depth
<1>2. PICK s : s = Front(stack)
  OBVIOUS
<1>3. stack' = s \o <<f, g>>
  BY <1>2 DEF Call
<1>4. PICK k \in Nat : k = Depth - 1
  BY <1>1
<1>5. s \in Seq(Frames) /\ Len(s) = k
  BY <1>1, <1>2, <1>4
<1>6. /\ stack' \in Seq(Frames) /\ Len(stack') = k + 2
      /\ \A i \in 1..k : stack'[i] = s[i]
      /\ stack'[k + 1] = f /\ stack'[k + 2] = g
  BY <1>3, <1>5, TwoMore
<1>7. k + 1 = Depth /\ k + 2 = Depth + 1
  BY <1>1, <1>4
<1> QED
  BY <1>1, <1>2, <1>4, <1>6, <1>7 DEF Depth

LEMMA Returning ==
  ASSUME stack \in Seq(Frames), Depth > 1, NEW f \in Frames, Return(f)
  PROVE  /\ stack' \in Seq(Frames) /\ stack' # <<>> /\ Depth' = Depth - 1
         /\ \A i \in 1..(Depth - 2) : stack'[i] = stack[i]
         /\ stack'[Depth - 1] = f
<1>1. PICK s : s = Front(stack)
  OBVIOUS
<1>2. stack # <<>> /\ Depth \in Nat
  BY DEF Depth
<1>3. /\ s \in Seq(Frames) /\ Len(s) = Depth - 1 /\ s # <<>>
      /\ \A i \in 1..(Depth - 1) : s[i] = stack[i]
  BY <1>1, <1>2, FrontFacts DEF Depth
<1>4. PICK t : t = Front(s)
  OBVIOUS
<1>5. /\ t \in Seq(Frames) /\ Len(t) = Depth - 2
      /\ \A i \in 1..(Depth - 2) : t[i] = stack[i]
  <2>1. /\ Front(s) \in Seq(Frames) /\ Len(Front(s)) = Len(s) - 1
        /\ \A i \in 1..(Len(s) - 1) : Front(s)[i] = s[i]
    BY <1>3, FrontFacts
  <2> QED
    BY <2>1, <1>2, <1>3, <1>4
<1>6. stack' = Append(t, f)
  BY <1>1, <1>4 DEF Return
<1> QED
  BY <1>2, <1>5, <1>6 DEF Depth

(* A rip is told to every tap rip-up in progress.                          *)
Told(f, m) == IF f.kind = "tap" THEN [f EXCEPT !.subtree = @ \cup {m}] ELSE f

LEMMA ToldFits ==
  ASSUME NEW f \in Frames, NEW m \in Nets
  PROVE  /\ Told(f, m) \in Frames /\ Told(f, m).kind = f.kind /\ Told(f, m).stage = f.stage
         /\ Guarded(Told(f, m)) = Guarded(f)
         /\ Fits(f) => Fits(Told(f, m))
<1>1. CASE f.kind # "tap"
  BY <1>1 DEF Told
<1>2. CASE f.kind = "tap"
  <2>1. f \in TapFrames
    BY <1>2 DEF Frames, NetFrames, RerouteFrames
  <2>2. PICK g : g = [f EXCEPT !.subtree = @ \cup {m}]
    OBVIOUS
  <2>3. /\ g \in TapFrames /\ g.subtree = f.subtree \cup {m} /\ g.kind = "tap"
        /\ g.stage = f.stage /\ g.retry = f.retry /\ g.orig = f.orig
        /\ g.ripped = f.ripped /\ g.depth = f.depth
    BY <2>1, <2>2 DEF TapFrames
  <2>4. Told(f, m) = g
    BY <1>2, <2>2 DEF Told
  <2>5. Guarded(g) = Guarded(f)
    BY <1>2, <2>3 DEF Guarded
  <2>6. Fits(f) => Fits(g)
    BY <1>2, <2>3 DEF Fits, TapFits
  <2> QED
    BY <1>2, <2>3, <2>4, <2>5, <2>6 DEF Frames
<1> QED
  BY <1>1, <1>2

LEMMA Telling ==
  ASSUME stack \in Seq(Frames), stack # <<>>, NEW f \in Frames, NEW m \in Nets,
         BecomeAfterRip(f, m)
  PROVE  /\ stack' \in Seq(Frames) /\ stack' # <<>> /\ Depth' = Depth
         /\ \A i \in 1..(Depth - 1) : stack'[i] = Told(stack[i], m)
         /\ stack'[Depth] = Told(f, m)
<1>1. Depth \in Nat \ {0} /\ DOMAIN stack = 1..Depth
  BY StackFacts
<1>2. stack' = [i \in 1..Depth |-> Told(IF i = Depth THEN f ELSE stack[i], m)]
  BY <1>1 DEF BecomeAfterRip, Told, Depth
<1>3. \A i \in 1..Depth : (IF i = Depth THEN f ELSE stack[i]) \in Frames
  BY <1>1
<1>4. \A i \in 1..Depth : stack'[i] \in Frames
  BY <1>2, <1>3, ToldFits
<1>5. stack' \in Seq(Frames) /\ Len(stack') = Depth
  BY <1>1, <1>2, <1>4
<1>6. \A i \in 1..Depth : stack'[i] = IF i = Depth THEN Told(f, m) ELSE Told(stack[i], m)
  BY <1>2
<1>7. Depth \in 1..Depth /\ \A i \in 1..(Depth - 1) : i \in 1..Depth /\ i # Depth
  BY <1>1
<1>8. stack' # <<>> /\ Depth' = Depth
  BY <1>1, <1>5 DEF Depth
<1> QED
  BY ONLY <1>5, <1>6, <1>7, <1>8

----------------------------------------------------------------------------
(* The guards in the map.                                                  *)
Guards(c) == {i \in DOMAIN stack : c \in Guarded(stack[i])}

Shape == stack \in Seq(Frames) /\ \A i \in 1..Depth : Placed(i)

LEMMA GuardsAreCounted ==
  ASSUME stack \in Seq(Frames), NEW c
  PROVE  IsFiniteSet(Guards(c)) /\ Cardinality(Guards(c)) \in Nat
<1>1. DOMAIN stack = 1..Len(stack) /\ Len(stack) \in Nat
  OBVIOUS
<1>2. IsFiniteSet(1..Len(stack))
  BY <1>1, FS_Interval
<1> QED
  BY <1>1, <1>2, FS_Subset, FS_CardinalityType DEF Guards

LEMMA StampersAreCounted ==
  ASSUME NEW c
  PROVE  /\ IsFiniteSet(Stampers(c)) /\ Cardinality(Stampers(c)) \in Nat
         /\ IsFiniteSet(Stampers(c)') /\ Cardinality(Stampers(c)') \in Nat
  BY NetsAssumption, FS_Subset, FS_CardinalityType DEF Stampers

LEMMA AccountsCover ==
  ASSUME BoardTypeOK, CacheMirrorsBoard, stack \in Seq(Frames), MapAccounts
  PROVE  Mapped
<1>1. ASSUME NEW c \in Cells PROVE work[c] >= Cardinality(Stampers(c))
  <2>1. work[c] = Cardinality(Stampers(c)) + Cardinality(Guards(c))
    BY DEF MapAccounts, Guards
  <2> QED
    BY <2>1, GuardsAreCounted, StampersAreCounted
<1> QED
  BY <1>1 DEF Mapped, MapCovers

(* Copper moved and the guards did not.                                    *)
LEMMA AccountsStay ==
  ASSUME stack \in Seq(Frames), stack' \in Seq(Frames), MapAccounts,
         BoardTypeOK, BoardTypeOK',
         \A c \in Cells : Surplus(c)' = Surplus(c),
         \A c \in Cells : Guards(c)' = Guards(c)
  PROVE  MapAccounts'
<1>1. ASSUME NEW c \in Cells
      PROVE  work'[c] = Cardinality(Stampers(c)') + Cardinality(Guards(c)')
  <2>1. work[c] = Cardinality(Stampers(c)) + Cardinality(Guards(c))
    BY DEF MapAccounts, Guards
  <2>2. work[c] \in Nat /\ work'[c] \in Nat
    BY DEF BoardTypeOK
  <2>3. Surplus(c)' = Surplus(c) /\ Guards(c)' = Guards(c)
    OBVIOUS
  <2>4. Cardinality(Guards(c)) \in Nat
    BY GuardsAreCounted
  <2>5. Cardinality(Stampers(c)) \in Nat /\ Cardinality(Stampers(c)') \in Nat
    BY StampersAreCounted
  <2>6. work'[c] - Cardinality(Stampers(c)') = work[c] - Cardinality(Stampers(c))
    BY <2>3 DEF Surplus
  <2>7. Cardinality(Guards(c)') = Cardinality(Guards(c))
    BY <2>3
  <2> QED
    BY ONLY <2>1, <2>2, <2>4, <2>5, <2>6, <2>7
<1> QED
  BY <1>1 DEF MapAccounts, Guards

(* The guard of one call changed and the copper did not.                   *)
LEMMA AccountsMove ==
  ASSUME stack \in Seq(Frames), MapAccounts, BoardTypeOK, UNCHANGED cache,
         NEW k, NEW down, NEW up,
         work' = AddRows(RemoveRows(work, down), up),
         \A c \in Cells : k \in Guards(c) <=> c \in down,
         \A c \in Cells : Guards(c)' = (Guards(c) \ {k}) \cup (IF c \in up THEN {k} ELSE {})
  PROVE  MapAccounts'
<1>1. ASSUME NEW c \in Cells
      PROVE  work'[c] = Cardinality(Stampers(c)') + Cardinality(Guards(c)')
  <2>1. work[c] = Cardinality(Stampers(c)) + Cardinality(Guards(c))
    BY DEF MapAccounts, Guards
  <2>2. PICK G : G = Guards(c)
    OBVIOUS
  <2>3. IsFiniteSet(G) /\ Cardinality(G) \in Nat
    BY <2>2, GuardsAreCounted
  <2>4. IsFiniteSet(G \ {k}) /\ Cardinality(G \ {k}) \in Nat
        /\ Cardinality(G \ {k}) = IF k \in G THEN Cardinality(G) - 1 ELSE Cardinality(G)
    BY <2>3, FS_RemoveElement, FS_CardinalityType
  <2>5. Cardinality((G \ {k}) \cup {k}) = Cardinality(G \ {k}) + 1
    <3>1. k \notin G \ {k}
      OBVIOUS
    <3> QED
      BY <3>1, <2>4, FS_AddElement
  <2>6. (k \in G <=> c \in down)
        /\ Guards(c)' = (G \ {k}) \cup (IF c \in up THEN {k} ELSE {})
    BY <2>2
  <2>7. k \in G => Cardinality(G) > 0
    BY <2>3, FS_EmptySet
  <2>8. Cardinality(Guards(c)') = Cardinality(G \ {k}) + (IF c \in up THEN 1 ELSE 0)
    <3>1. CASE c \in up
      BY <3>1, <2>5, <2>6
    <3>2. CASE c \notin up
      <4>1. Guards(c)' = G \ {k}
        BY <3>2, <2>6
      <4> QED
        BY <4>1, <3>2, <2>4
    <3> QED
      BY <3>1, <3>2
  <2>9. Stampers(c)' = Stampers(c) /\ Cardinality(Stampers(c)) \in Nat
    BY StampersAreCounted DEF Stampers
  <2>10. work \in [Cells -> Nat] /\ work[c] \in Nat
    BY DEF BoardTypeOK
  <2>11. RemoveRows(work, down)[c] = IF c \in down /\ work[c] > 0 THEN work[c] - 1 ELSE work[c]
    BY <2>10 DEF RemoveRows
  <2>12. RemoveRows(work, down) \in [Cells -> Nat]
    BY <2>10, AddRemoveRows
  <2>13. work'[c] = RemoveRows(work, down)[c] + (IF c \in up THEN 1 ELSE 0)
    BY <2>12, AddRemoveRows
  <2>14. work[c] = Cardinality(Stampers(c)) + Cardinality(G)
    BY <2>1, <2>2
  <2>15. work'[c] = Cardinality(Stampers(c)) + Cardinality(G \ {k}) + (IF c \in up THEN 1 ELSE 0)
    <3>1. CASE c \in down
      <4>1. k \in G /\ Cardinality(G \ {k}) = Cardinality(G) - 1 /\ work[c] > 0
        BY <3>1, <2>3, <2>4, <2>6, <2>7, <2>9, <2>14
      <4> QED
        BY <4>1, <3>1, <2>3, <2>9, <2>11, <2>13, <2>14
    <3>2. CASE c \notin down
      <4>1. Cardinality(G \ {k}) = Cardinality(G)
        BY <3>2, <2>4, <2>6
      <4> QED
        BY <4>1, <3>2, <2>3, <2>9, <2>11, <2>13, <2>14
    <3> QED
      BY <3>1, <3>2
  <2> QED
    BY <2>4, <2>8, <2>9, <2>15
<1> QED
  BY <1>1 DEF MapAccounts, Guards

----------------------------------------------------------------------------
(* What a step of the stack does to the calls below and to the guards.     *)
LEMMA TopIsPlaced ==
  ASSUME Shape, stack # <<>>
  PROVE  /\ Depth \in Nat \ {0} /\ Top = stack[Depth] /\ Top \in Frames /\ Fits(Top)
         /\ Top.kind = "net" <=> Depth = 1
         /\ Depth > 1 => /\ Caller = stack[Depth - 1] /\ Caller \in Frames /\ Fits(Caller)
                         /\ Calls(Caller, Top)
         /\ \A c : Depth \in Guards(c) <=> c \in Guarded(Top)
<1>1. Depth \in Nat \ {0} /\ DOMAIN stack = 1..Depth /\ Top = stack[Depth] /\ Top \in Frames
  BY StackFacts DEF Shape
<1>2. Placed(Depth)
  BY <1>1 DEF Shape
<1>3. Depth > 1 => Depth - 1 \in 1..Depth
  BY <1>1
<1>4. Depth > 1 => stack[Depth - 1] \in Frames /\ Placed(Depth - 1)
  BY <1>1, <1>3 DEF Shape
<1> QED
  BY <1>1, <1>2, <1>4 DEF Placed, Caller, Guards, Depth

LEMMA LowerStay ==
  ASSUME NEW d \in Nat, \A i \in 1..d : stack'[i] = stack[i], \A i \in 1..d : Placed(i)
  PROVE  \A i \in 1..d : Placed(i)'
<1>1. \A i \in 1..d : i > 1 => i - 1 \in 1..d
  OBVIOUS
<1> QED
  BY <1>1 DEF Placed

LEMMA BecomeShape ==
  ASSUME Shape, stack # <<>>, NEW f \in Frames, Become(f), Fits(f), f.kind = Top.kind
  PROVE  /\ Shape' /\ stack' # <<>>
         /\ \A c : Guards(c)' = (Guards(c) \ {Depth}) \cup (IF c \in Guarded(f) THEN {Depth} ELSE {})
<1>1. /\ stack' \in Seq(Frames) /\ stack' # <<>> /\ Depth' = Depth
      /\ \A i \in 1..(Depth - 1) : stack'[i] = stack[i]
      /\ stack'[Depth] = f
  BY Becoming DEF Shape
<1>2. PICK d \in Nat : d = Depth - 1
  BY TopIsPlaced
<1>3. /\ Depth \in Nat \ {0} /\ (Top.kind = "net" <=> Depth = 1)
      /\ (Depth > 1 => Calls(stack[Depth - 1], Top))
  BY TopIsPlaced
<1>4. \A i \in 1..d : stack'[i] = stack[i] /\ Placed(i)
  BY <1>1, <1>2, <1>3 DEF Shape
<1>5. \A i \in 1..d : Placed(i)'
  BY <1>4, LowerStay
<1>6. Placed(Depth)'
  <2>1. Depth > 1 => stack'[Depth - 1] = stack[Depth - 1]
    BY <1>1, <1>3
  <2>2. Depth > 1 => Calls(stack[Depth - 1], f)
    BY <1>3 DEF Calls
  <2>3. Depth > 1 => Calls(stack'[Depth - 1], stack'[Depth])
    BY <1>1, <2>1, <2>2
  <2>4. Fits(stack'[Depth]) /\ (stack'[Depth].kind = "net" <=> Depth = 1)
    BY <1>1, <1>3
  <2> QED
    BY <1>1, <2>3, <2>4 DEF Placed
<1>7. \A i \in 1..Depth' : i \in 1..d \/ i = Depth
  BY <1>1, <1>2, <1>3
<1>8. Shape'
  BY <1>1, <1>5, <1>6, <1>7 DEF Shape
<1>9. ASSUME NEW c
      PROVE Guards(c)' = (Guards(c) \ {Depth}) \cup (IF c \in Guarded(f) THEN {Depth} ELSE {})
  <2>1. DOMAIN stack = 1..Depth /\ DOMAIN stack' = 1..Depth
    BY <1>1, <1>3 DEF Depth, Shape
  <2>2. \A i \in 1..Depth : i # Depth => stack'[i] = stack[i]
    BY <1>1, <1>3
  <2> QED
    BY <1>1, <1>3, <2>1, <2>2 DEF Guards
<1> QED
  BY <1>1, <1>8, <1>9

LEMMA CallShape ==
  ASSUME Shape, stack # <<>>, NEW f \in Frames, NEW g \in Frames, Call(f, g),
         Fits(f), f.kind = Top.kind, Fits(g), Calls(f, g), g.kind # "net",
         Guarded(g) = {}
  PROVE  /\ Shape' /\ stack' # <<>>
         /\ \A c : Guards(c)' = (Guards(c) \ {Depth}) \cup (IF c \in Guarded(f) THEN {Depth} ELSE {})
<1>1. /\ stack' \in Seq(Frames) /\ stack' # <<>> /\ Depth' = Depth + 1
      /\ \A i \in 1..(Depth - 1) : stack'[i] = stack[i]
      /\ stack'[Depth] = f /\ stack'[Depth + 1] = g
  BY Calling DEF Shape
<1>2. PICK d \in Nat : d = Depth - 1
  BY TopIsPlaced
<1>3. /\ Depth \in Nat \ {0} /\ (Top.kind = "net" <=> Depth = 1)
      /\ (Depth > 1 => Calls(stack[Depth - 1], Top))
  BY TopIsPlaced
<1>4. \A i \in 1..d : stack'[i] = stack[i] /\ Placed(i)
  BY <1>1, <1>2, <1>3 DEF Shape
<1>5. \A i \in 1..d : Placed(i)'
  BY <1>4, LowerStay
<1>6. PICK e \in Nat : e = Depth
  BY <1>3
<1>7. Placed(e)'
  <2>1. Depth > 1 => stack'[Depth - 1] = stack[Depth - 1]
    BY <1>1, <1>3
  <2>2. Depth > 1 => Calls(stack[Depth - 1], f)
    BY <1>3 DEF Calls
  <2>3. e > 1 => Calls(stack'[e - 1], stack'[e])
    BY <1>1, <1>6, <2>1, <2>2
  <2>4. Fits(stack'[e]) /\ (stack'[e].kind = "net" <=> e = 1)
    BY <1>1, <1>3, <1>6
  <2> QED
    BY <2>3, <2>4 DEF Placed
<1>8. Placed(e + 1)'
  <2>1. stack'[e + 1] = g /\ stack'[(e + 1) - 1] = f /\ e + 1 # 1
    BY <1>1, <1>3, <1>6
  <2> QED
    BY <2>1 DEF Placed
<1>9. \A i \in 1..Depth' : i \in 1..d \/ i = e \/ i = e + 1
  BY <1>1, <1>2, <1>3, <1>6
<1>10. Shape'
  BY <1>1, <1>5, <1>7, <1>8, <1>9 DEF Shape
<1>11. ASSUME NEW c
       PROVE Guards(c)' = (Guards(c) \ {Depth}) \cup (IF c \in Guarded(f) THEN {Depth} ELSE {})
  <2>1. DOMAIN stack = 1..Depth /\ DOMAIN stack' = 1..(Depth + 1)
    BY <1>1, <1>3 DEF Depth, Shape
  <2>2. \A i \in 1..Depth : i # Depth => stack'[i] = stack[i]
    BY <1>1, <1>3
  <2>3. \A i \in 1..(Depth + 1) : i \in 1..Depth \/ i = Depth + 1
    BY <1>3
  <2>4. c \notin Guarded(stack'[Depth + 1])
    BY <1>1
  <2>5. 1..Depth \subseteq 1..(Depth + 1) /\ Depth \in 1..Depth
    BY <1>3
  <2> QED
    BY <1>1, <2>1, <2>2, <2>3, <2>4, <2>5 DEF Guards
<1> QED
  BY <1>1, <1>10, <1>11

LEMMA ReturnShape ==
  ASSUME Shape, Depth > 1, NEW f \in Frames, Return(f),
         Fits(f), f.kind = Caller.kind, Guarded(f) = Guarded(Caller)
  PROVE  /\ Shape' /\ stack' # <<>>
         /\ \A c : Guards(c)' = Guards(c) \ {Depth}
<1>0. stack # <<>>
  BY DEF Depth
<1>1. /\ stack' \in Seq(Frames) /\ stack' # <<>> /\ Depth' = Depth - 1
      /\ \A i \in 1..(Depth - 2) : stack'[i] = stack[i]
      /\ stack'[Depth - 1] = f
  BY Returning DEF Shape
<1>2. Depth \in Nat \ {0} /\ Caller = stack[Depth - 1]
  BY <1>0, TopIsPlaced
<1>3. PICK d \in Nat : d = Depth - 2
  BY <1>2
<1>4. \A i \in 1..d : stack'[i] = stack[i] /\ Placed(i)
  BY <1>1, <1>2, <1>3 DEF Shape
<1>5. \A i \in 1..d : Placed(i)'
  BY <1>4, LowerStay
<1>6. PICK e \in Nat : e = Depth - 1
  BY <1>2
<1>7. Placed(e)'
  <2>1. Placed(e) /\ stack[e] = Caller /\ stack'[e] = f
    BY <1>1, <1>2, <1>6 DEF Shape
  <2>2. e > 1 => stack'[e - 1] = stack[e - 1]
    BY <1>1, <1>2, <1>6
  <2>3. e > 1 => Calls(stack[e - 1], f)
    BY <2>1 DEF Placed, Calls
  <2> QED
    BY <2>1, <2>2, <2>3 DEF Placed
<1>8. \A i \in 1..Depth' : i \in 1..d \/ i = e
  BY <1>1, <1>2, <1>3, <1>6
<1>9. Shape'
  BY <1>1, <1>5, <1>7, <1>8 DEF Shape
<1>10. ASSUME NEW c PROVE Guards(c)' = Guards(c) \ {Depth}
  <2>1. DOMAIN stack = 1..Depth /\ DOMAIN stack' = 1..(Depth - 1)
    BY <1>1, <1>2 DEF Depth, Shape
  <2>2. \A i \in 1..(Depth - 1) : Guarded(stack'[i]) = Guarded(stack[i])
    <3>1. \A i \in 1..(Depth - 1) : i \in 1..(Depth - 2) \/ i = Depth - 1
      BY <1>2
    <3> QED
      BY <3>1, <1>1, <1>2
  <2>3. \A i : i \in 1..(Depth - 1) <=> i \in 1..Depth /\ i # Depth
    BY <1>2
  <2> QED
    BY <2>1, <2>2, <2>3 DEF Guards
<1> QED
  BY <1>1, <1>9, <1>10

LEMMA ToldIsPlaced ==
  ASSUME NEW f \in Frames, NEW g \in Frames, NEW m \in Nets
  PROVE  Calls(Told(f, m), Told(g, m)) <=> Calls(f, g)
<1>1. /\ Told(f, m).kind = f.kind /\ Told(f, m).stage = f.stage /\ Told(g, m).kind = g.kind
  BY ToldFits
<1> QED
  BY <1>1 DEF Calls

LEMMA TellShape ==
  ASSUME Shape, stack # <<>>, NEW f \in Frames, NEW m \in Nets, BecomeAfterRip(f, m),
         Fits(Told(f, m)), f.kind = Top.kind
  PROVE  /\ Shape' /\ stack' # <<>>
         /\ \A c : Guards(c)' = (Guards(c) \ {Depth}) \cup (IF c \in Guarded(f) THEN {Depth} ELSE {})
<1>1. /\ stack' \in Seq(Frames) /\ stack' # <<>> /\ Depth' = Depth
      /\ \A i \in 1..(Depth - 1) : stack'[i] = Told(stack[i], m)
      /\ stack'[Depth] = Told(f, m)
  BY Telling DEF Shape
<1>2. PICK d \in Nat : d = Depth - 1
  BY TopIsPlaced
<1>3. /\ Depth \in Nat \ {0} /\ (Top.kind = "net" <=> Depth = 1) /\ Top \in Frames
      /\ (Depth > 1 => Calls(stack[Depth - 1], Top))
  BY TopIsPlaced
<1>4. \A i \in 1..d : stack'[i] = Told(stack[i], m) /\ Placed(i) /\ stack[i] \in Frames
  BY <1>1, <1>2, <1>3 DEF Shape, Depth
<1>5. ASSUME NEW i \in 1..d PROVE Placed(i)'
  <2>1. /\ Fits(stack'[i]) /\ stack'[i].kind = stack[i].kind
    BY <1>4, ToldFits DEF Placed
  <2>2. i > 1 => Calls(stack'[i - 1], stack'[i])
    <3>1. i > 1 => i - 1 \in 1..d /\ Calls(stack[i - 1], stack[i])
      BY <1>4 DEF Placed
    <3> QED
      BY <3>1, <1>4, ToldIsPlaced
  <2> QED
    BY <2>1, <2>2, <1>4 DEF Placed
<1>6. PICK e \in Nat : e = Depth
  BY <1>3
<1>7. Placed(e)'
  <2>1. e > 1 => stack'[e - 1] = Told(stack[e - 1], m) /\ stack[e - 1] \in Frames
    BY <1>1, <1>2, <1>3, <1>4, <1>6
  <2>2. e > 1 => Calls(stack[e - 1], f)
    BY <1>3, <1>6 DEF Calls
  <2>3. e > 1 => Calls(stack'[e - 1], stack'[e])
    BY <1>1, <1>6, <2>1, <2>2, ToldIsPlaced
  <2>4. Fits(stack'[e]) /\ (stack'[e].kind = "net" <=> e = 1)
    BY <1>1, <1>3, <1>6, ToldFits
  <2> QED
    BY <2>3, <2>4 DEF Placed
<1>8. \A i \in 1..Depth' : i \in 1..d \/ i = e
  BY <1>1, <1>2, <1>3, <1>6
<1>9. Shape'
  BY <1>1, <1>5, <1>7, <1>8 DEF Shape
<1>10. ASSUME NEW c
       PROVE Guards(c)' = (Guards(c) \ {Depth}) \cup (IF c \in Guarded(f) THEN {Depth} ELSE {})
  <2>1. DOMAIN stack = 1..Depth /\ DOMAIN stack' = 1..Depth
    BY <1>1, <1>3 DEF Depth, Shape
  <2>2. \A i \in 1..Depth : i # Depth => Guarded(stack'[i]) = Guarded(stack[i])
    <3>1. \A i \in 1..Depth : i # Depth => i \in 1..d
      BY <1>2, <1>3
    <3> QED
      BY <3>1, <1>4, ToldFits
  <2>3. Guarded(stack'[Depth]) = Guarded(f)
    BY <1>1, ToldFits
  <2> QED
    BY <1>3, <2>1, <2>2, <2>3 DEF Guards
<1> QED
  BY <1>1, <1>9, <1>10

----------------------------------------------------------------------------
(* Each step keeps the calls in place and the map accounted for.           *)
Lined == pending \in [Nets -> Results \cup {None}] /\ at \in 1..(Len(Order) + 1)

LEMMA CallsAre == CallsInv => Shape /\ Lined /\ Mapped /\ MapAccounts
  BY AccountsCover DEF CallsInv, Shape, Lined

LEMMA GuardsKept ==
  ASSUME Shape, stack # <<>>,
         \A c : Guards(c)' = (Guards(c) \ {Depth})
                               \cup (IF c \in Guarded(Top) THEN {Depth} ELSE {})
  PROVE  \A c \in Cells : Guards(c)' = Guards(c)
<1>1. \A c : Depth \in Guards(c) <=> c \in Guarded(Top)
  BY TopIsPlaced
<1> QED
  BY <1>1

LEMMA CallsHold ==
  ASSUME CallsInv, Shape', Lined', Mapped', \A c \in Cells : Surplus(c)' = Surplus(c),
         \A c \in Cells : Guards(c)' = Guards(c)
  PROVE  CallsInv'
<1>1. BoardTypeOK /\ BoardTypeOK' /\ CacheMirrorsBoard'
  BY DEF CallsInv, Mapped
<1>2. stack \in Seq(Frames) /\ stack' \in Seq(Frames) /\ MapAccounts
  BY DEF CallsInv, Shape
<1>3. MapAccounts'
  BY <1>1, <1>2, AccountsStay
<1> QED
  BY <1>1, <1>3 DEF CallsInv, Shape, Lined

LEMMA BecomeHolds ==
  ASSUME CallsInv, stack # <<>>, NEW f \in Frames, Become(f), Fits(f), f.kind = Top.kind,
         Guarded(f) = Guarded(Top),
         Lined', Mapped', \A c \in Cells : Surplus(c)' = Surplus(c)
  PROVE  CallsInv'
<1>1. Shape
  BY CallsAre
<1>2. /\ Shape'
      /\ \A c : Guards(c)' = (Guards(c) \ {Depth}) \cup (IF c \in Guarded(f) THEN {Depth} ELSE {})
  BY <1>1, BecomeShape
<1>3. \A c \in Cells : Guards(c)' = Guards(c)
  BY <1>1, <1>2, GuardsKept
<1> QED
  BY <1>2, <1>3, CallsHold

LEMMA CallHolds ==
  ASSUME CallsInv, stack # <<>>, NEW f \in Frames, NEW g \in Frames, Call(f, g),
         Fits(f), f.kind = Top.kind, Fits(g), Calls(f, g), g.kind # "net",
         Guarded(g) = {}, Guarded(f) = Guarded(Top),
         Lined', Mapped', \A c \in Cells : Surplus(c)' = Surplus(c)
  PROVE  CallsInv'
<1>1. Shape
  BY CallsAre
<1>2. /\ Shape'
      /\ \A c : Guards(c)' = (Guards(c) \ {Depth}) \cup (IF c \in Guarded(f) THEN {Depth} ELSE {})
  BY <1>1, CallShape
<1>3. \A c \in Cells : Guards(c)' = Guards(c)
  BY <1>1, <1>2, GuardsKept
<1> QED
  BY <1>2, <1>3, CallsHold

LEMMA TellHolds ==
  ASSUME CallsInv, stack # <<>>, NEW f \in Frames, NEW m \in Nets, BecomeAfterRip(f, m),
         Fits(Told(f, m)), f.kind = Top.kind, Guarded(f) = Guarded(Top),
         Lined', Mapped', \A c \in Cells : Surplus(c)' = Surplus(c)
  PROVE  CallsInv'
<1>1. Shape
  BY CallsAre
<1>2. /\ Shape'
      /\ \A c : Guards(c)' = (Guards(c) \ {Depth}) \cup (IF c \in Guarded(f) THEN {Depth} ELSE {})
  BY <1>1, TellShape
<1>3. \A c \in Cells : Guards(c)' = Guards(c)
  BY <1>1, <1>2, GuardsKept
<1> QED
  BY <1>2, <1>3, CallsHold

LEMMA ReturnHolds ==
  ASSUME CallsInv, Depth > 1, NEW f \in Frames, Return(f), Fits(f), f.kind = Caller.kind,
         Guarded(f) = Guarded(Caller), Guarded(Top) = {},
         Lined', Mapped', \A c \in Cells : Surplus(c)' = Surplus(c)
  PROVE  CallsInv'
<1>1. Shape /\ stack # <<>>
  BY CallsAre DEF Depth
<1>2. Shape' /\ \A c : Guards(c)' = Guards(c) \ {Depth}
  BY <1>1, ReturnShape
<1>3. \A c \in Cells : Guards(c)' = Guards(c)
  BY <1>1, <1>2, TopIsPlaced
<1> QED
  BY <1>2, <1>3, CallsHold

(* The board left alone, and the map but for a guard.                      *)
LEMMA BoardStays ==
  ASSUME Mapped, UNCHANGED boardVars
  PROVE  Mapped' /\ \A c \in Cells : Surplus(c)' = Surplus(c)
  BY DEF Mapped, BoardTypeOK, CacheMirrorsBoard, MapCovers, Surplus, Stampers, boardVars,
         IsRouted

GuardOnly == UNCHANGED <<copper, cache, routed, routedIds, paths, results, remaining,
                         ripSaved, refused, pending, at, cancelled>>

LEMMA GuardMoves ==
  ASSUME CallsInv, Shape', GuardOnly, NEW down \in SUBSET Cells, NEW up \in SUBSET Cells,
         work' = AddRows(RemoveRows(work, down), up), stack # <<>>, Guarded(Top) = down,
         \A c : Guards(c)' = (Guards(c) \ {Depth}) \cup (IF c \in up THEN {Depth} ELSE {})
  PROVE  CallsInv'
<1>1. Shape /\ Lined /\ Mapped /\ MapAccounts
  BY CallsAre
<1>2. \A c \in Cells : Depth \in Guards(c) <=> c \in down
  BY <1>1, TopIsPlaced
<1>3. MapAccounts'
  BY <1>1, <1>2, AccountsMove DEF GuardOnly, Shape, Mapped
<1>4. work' \in [Cells -> Nat]
  <2>1. RemoveRows(work, down) \in [Cells -> Nat]
    BY <1>1, AddRemoveRows DEF Mapped, BoardTypeOK
  <2> QED
    BY <2>1, AddRemoveRows
<1>5. BoardTypeOK' /\ CacheMirrorsBoard'
  BY <1>1, <1>4 DEF GuardOnly, Mapped, BoardTypeOK, CacheMirrorsBoard, IsRouted
<1> QED
  BY <1>1, <1>3, <1>5 DEF GuardOnly, CallsInv, Shape, Lined

(* The top call by its kind.                                               *)
LEMMA TopIsNet ==
  ASSUME Shape, NEW s, In("net", s)
  PROVE  /\ stack # <<>> /\ Depth = 1 /\ Top = stack[1] /\ Top \in Frames
         /\ NetFits(Top) /\ Top \in NetFrames /\ Top.kind = "net" /\ Top.stage = s
         /\ Guarded(Top) = {}
  BY TopIsPlaced DEF In, Fits, NetFits, Guarded

LEMMA TopIsTap ==
  ASSUME Shape, NEW s, In("tap", s)
  PROVE  /\ stack # <<>> /\ Depth \in Nat /\ Depth > 1 /\ Top = stack[Depth] /\ Top \in Frames
         /\ TapFits(Top) /\ Top \in TapFrames /\ Top.kind = "tap" /\ Top.stage = s
         /\ Caller \in Frames /\ Fits(Caller) /\ Caller.kind \in {"net", "reroute"}
         /\ Caller.stage = "commit" /\ Caller = stack[Depth - 1]
         /\ Guarded(Top) = IF s = "arbitrate" THEN Top.retry.cells
                           ELSE IF s \in {"rerip", "settled"} THEN Top.orig.cells ELSE {}
         /\ Guarded(Caller) = {}
<1>1. stack # <<>> /\ Top.kind = "tap" /\ Top.stage = s
  BY DEF In
<1>2. /\ Depth \in Nat \ {0} /\ Top = stack[Depth] /\ Top \in Frames /\ Fits(Top)
      /\ Depth # 1
  BY <1>1, TopIsPlaced
<1>3. Caller \in Frames /\ Fits(Caller) /\ Calls(Caller, Top) /\ Caller = stack[Depth - 1]
  BY <1>1, <1>2, TopIsPlaced
<1>4. TapFits(Top) /\ Top \in TapFrames
  BY <1>1, <1>2 DEF Fits, TapFits
<1>5. Caller.kind \in {"net", "reroute"} /\ Caller.stage = "commit"
  BY <1>1, <1>3 DEF Calls, Frames, NetFrames, TapFrames, RerouteFrames
<1> QED
  BY <1>1, <1>2, <1>3, <1>4, <1>5 DEF Guarded

LEMMA TopIsReroute ==
  ASSUME Shape, NEW s, In("reroute", s)
  PROVE  /\ stack # <<>> /\ Depth \in Nat /\ Depth > 1 /\ Top = stack[Depth] /\ Top \in Frames
         /\ RerouteFits(Top) /\ Top \in RerouteFrames /\ Top.kind = "reroute" /\ Top.stage = s
         /\ Caller \in Frames /\ Fits(Caller) /\ Calls(Caller, Top)
         /\ Caller = stack[Depth - 1]
         /\ Guarded(Top) = {}
<1>1. stack # <<>> /\ Top.kind = "reroute" /\ Top.stage = s
  BY DEF In
<1>2. /\ Depth \in Nat \ {0} /\ Top = stack[Depth] /\ Top \in Frames /\ Fits(Top)
      /\ Depth # 1
  BY <1>1, TopIsPlaced
<1>3. Caller \in Frames /\ Fits(Caller) /\ Calls(Caller, Top) /\ Caller = stack[Depth - 1]
  BY <1>1, <1>2, TopIsPlaced
<1>4. RerouteFits(Top) /\ Top \in RerouteFrames
  BY <1>1, <1>2 DEF Fits, RerouteFits
<1> QED
  BY <1>1, <1>2, <1>3, <1>4 DEF Guarded

LEMMA OrderFacts ==
  /\ Order \in Seq(Nets) /\ Multipoint \subseteq Nets /\ MaxRip \in Nat
  /\ \A i \in DOMAIN Order : Order[i] \in Multipoint
  /\ \A n \in Nets : TapOptions[n] \subseteq Taps
  /\ \A n \in Nets : Snapshot(n) \in Results /\ Snapshot(n).net = n
<1>1. \A n \in Nets : Phase1[n] \subseteq Cells /\ Unmatched[n] \subseteq Cells
  BY CascadeAssumption
<1>2. \A n \in Nets : Snapshot(n) \in Results /\ Snapshot(n).net = n
  BY <1>1 DEF Snapshot, Found, Results
<1> QED
  BY <1>2, CascadeAssumption

LEMMA NewNet ==
  ASSUME NEW n \in Nets, NEW lm \in Results
  PROVE  /\ NetFrame(n, lm) \in NetFrames /\ NetFrame(n, lm) \in Frames
         /\ Fits(NetFrame(n, lm)) /\ Guarded(NetFrame(n, lm)) = {}
         /\ NetFrame(n, lm).kind = "net"
<1>1. PICK f : f = NetFrame(n, lm)
  OBVIOUS
<1>2. f \in NetFrames /\ f.kind = "net" /\ f.stage = "taps"
  BY <1>1 DEF NetFrame, NetFrames, Stages
<1> QED
  BY <1>1, <1>2 DEF Frames, Fits, NetFits, Guarded

LEMMA NewTap ==
  ASSUME NEW n \in Nets, NEW t \in Taps, NEW d \in Nat, d <= MaxRip,
         NEW anc \in SUBSET Nets
  PROVE  /\ TapFrame(n, t, d, anc) \in TapFrames /\ TapFrame(n, t, d, anc) \in Frames
         /\ Fits(TapFrame(n, t, d, anc)) /\ Guarded(TapFrame(n, t, d, anc)) = {}
         /\ TapFrame(n, t, d, anc).kind = "tap"
<1>1. PICK f : f = TapFrame(n, t, d, anc)
  OBVIOUS
<1>2. /\ f \in TapFrames /\ f.kind = "tap" /\ f.stage = "level" /\ f.ripped = <<>>
      /\ f.depth = d
  BY <1>1 DEF TapFrame, TapFrames, Stages
<1>3. Len(f.ripped) = 0 /\ DOMAIN f.ripped = {}
  BY <1>2
<1> QED
  BY <1>1, <1>2, <1>3, OrderFacts DEF Frames, Fits, TapFits, Guarded

LEMMA NewReroute ==
  ASSUME NEW items \in Seq(Nets), NEW d \in Nat, d <= MaxRip + 1, NEW anc \in SUBSET Nets
  PROVE  /\ RerouteFrame(items, d, anc) \in RerouteFrames
         /\ RerouteFrame(items, d, anc) \in Frames
         /\ Fits(RerouteFrame(items, d, anc)) /\ Guarded(RerouteFrame(items, d, anc)) = {}
         /\ RerouteFrame(items, d, anc).kind = "reroute"
<1>1. PICK f : f = RerouteFrame(items, d, anc)
  OBVIOUS
<1>2. /\ f \in RerouteFrames /\ f.kind = "reroute" /\ f.stage = "item"
      /\ f.nested = <<>> /\ f.depth = d
  BY <1>1 DEF RerouteFrame, RerouteFrames, Stages
<1>3. Len(f.nested) = 0
  BY <1>2
<1> QED
  BY <1>1, <1>2, <1>3, OrderFacts DEF Frames, Fits, RerouteFits, Guarded

LEMMA CommitTapsKeepsMap ==
  ASSUME Mapped, NEW n \in Nets, NEW taps \in Taps, NEW base \in Results, NEW known,
         CommitTaps(n, taps, known, base)
  PROVE  Mapped' /\ \A c \in Cells : Surplus(c)' = Surplus(c)
<1> USE DEF Mapped
<1>1. taps.cells \in SUBSET Cells /\ copper[n] \cup taps.cells \in SUBSET Cells
      /\ base.cells \in SUBSET Cells
  BY DEF Taps, Results, BoardTypeOK
<1>2. Restamp(n, copper[n] \cup taps.cells)
  BY DEF CommitTaps
<1>3. /\ copper' \in [Nets -> SUBSET Cells]
      /\ cache' \in [Nets -> SUBSET Cells]
      /\ work' \in [Cells -> Nat]
      /\ CacheMirrorsBoard' /\ MapCovers' /\ \A c \in Cells : Surplus(c)' = Surplus(c)
  BY <1>1, <1>2, RestampPreservesMap
<1>4. PICK res : res = Found(n, base.cells \cup taps.cells)
  OBVIOUS
<1>5. res \in Results /\ res.net = n
  BY <1>1, <1>4 DEF Found, Results
<1>6. routed' = [routed EXCEPT ![n] = res] /\ results' = (results \ {known, routed[n]}) \cup {res}
  BY <1>4 DEF CommitTaps, CommitResult
<1>7. BoardTypeOK'
  BY <1>3, <1>5, <1>6 DEF CommitTaps, BoardTypeOK, IsRouted
<1> QED
  BY <1>3, <1>7

LEMMA CancelHolds ==
  ASSUME CallsInv, Cancel \/ SkipNet
  PROVE  CallsInv'
<1>1. Shape /\ Lined /\ Mapped /\ UNCHANGED <<boardVars, pending, stack>>
  BY CallsAre DEF Cancel, SkipNet
<1>2. Mapped' /\ \A c \in Cells : Surplus(c)' = Surplus(c)
  BY <1>1, BoardStays
<1>3. Lined'
  BY <1>1, OrderFacts DEF Lined, Cancel, SkipNet, AtLoopHead
<1>4. Shape' /\ \A c \in Cells : Guards(c)' = Guards(c)
  BY <1>1 DEF Shape, Placed, Guards, Depth
<1> QED
  BY <1>2, <1>3, <1>4, CallsHold

LEMMA TakeNetHolds ==
  ASSUME CallsInv, TakeNet
  PROVE  CallsInv'
<1>1. Shape /\ Lined /\ Mapped /\ UNCHANGED <<boardVars, pending>>
  BY CallsAre DEF TakeNet
<1>2. Mapped' /\ \A c \in Cells : Surplus(c)' = Surplus(c)
  BY <1>1, BoardStays
<1>3. Lined'
  BY <1>1, OrderFacts DEF Lined, TakeNet, AtLoopHead
<1>4. PICK f : f = NetFrame(Order[at], IF IsRouted(Order[at]) THEN routed[Order[at]]
                                       ELSE Snapshot(Order[at]))
  OBVIOUS
<1>5. stack = <<>> /\ stack' = <<f>> /\ Order[at] \in Nets
  BY <1>4, OrderFacts DEF TakeNet, AtLoopHead
<1>6. f \in Frames /\ Fits(f) /\ Guarded(f) = {} /\ f.kind = "net"
  BY <1>1, <1>4, <1>5, OrderFacts, NewNet DEF Mapped, BoardTypeOK, IsRouted
<1>7. Shape'
  <2>1. stack' \in Seq(Frames) /\ Depth' = 1 /\ stack'[1] = f
    BY <1>5, <1>6 DEF Depth
  <2>2. Placed(1)'
    BY <2>1, <1>6 DEF Placed
  <2> QED
    BY <2>1, <2>2 DEF Shape
<1>8. \A c \in Cells : Guards(c)' = Guards(c)
  BY <1>5, <1>6 DEF Guards
<1> QED
  BY <1>2, <1>3, <1>7, <1>8, CallsHold

LEMMA RouteTapsHolds ==
  ASSUME CallsInv, NEW t, RouteTaps(t)
  PROVE  CallsInv'
<1>1. Shape /\ Lined /\ Mapped /\ UNCHANGED <<boardVars, pending, at>> /\ In("net", "taps")
  BY CallsAre DEF RouteTaps
<1>2. Mapped' /\ (\A c \in Cells : Surplus(c)' = Surplus(c)) /\ Lined'
  BY <1>1, BoardStays DEF Lined
<1>3. /\ stack # <<>> /\ Top \in NetFrames /\ Top.kind = "net" /\ Guarded(Top) = {}
  BY <1>1, TopIsNet
<1>4. t \in Taps /\ Top.net \in Nets
  BY <1>3, OrderFacts DEF RouteTaps, TapsOn, NetFrames
<1>5. PICK f : f = [Top EXCEPT !.taps = t, !.stage = "commit"]
  OBVIOUS
<1>6. f \in NetFrames /\ f.kind = "net" /\ f.stage = "commit" /\ f.taps = t
  BY <1>3, <1>4, <1>5 DEF NetFrames, Stages
<1>7. f \in Frames /\ Fits(f) /\ Guarded(f) = {}
  BY <1>4, <1>6 DEF Frames, Fits, NetFits, Guarded
<1>8. CASE Become(f)
  BY <1>1, <1>2, <1>3, <1>6, <1>7, <1>8, BecomeHolds
<1>9. CASE Call(f, TapFrame(Top.net, t, 0, {}))
  <2>1. PICK g : g = TapFrame(Top.net, t, 0, {})
    OBVIOUS
  <2>2. g \in Frames /\ Fits(g) /\ Guarded(g) = {} /\ g.kind = "tap"
    <3>1. PICK n \in Nets : n = Top.net
      BY <1>4
    <3>2. 0 \in Nat /\ 0 <= MaxRip /\ {} \in SUBSET Nets
      BY OrderFacts
    <3>3. g = TapFrame(n, t, 0, {})
      BY <2>1, <3>1
    <3> QED
      BY ONLY <1>4, <3>1, <3>2, <3>3, n \in Nets, NewTap
  <2>3. Calls(f, g)
    BY <2>2, <1>6 DEF Calls
  <2>4. Call(f, g)
    BY <1>9, <2>1
  <2> QED
    BY <1>1, <1>2, <1>3, <1>6, <1>7, <2>2, <2>3, <2>4, CallHolds
<1> QED
  BY <1>5, <1>8, <1>9 DEF RouteTaps

LEMMA CommitNetHolds ==
  ASSUME CallsInv, CommitNet
  PROVE  CallsInv'
<1>1. Shape /\ Lined /\ Mapped /\ UNCHANGED <<pending, at>> /\ In("net", "commit")
  BY CallsAre DEF CommitNet
<1>2. /\ stack # <<>> /\ Top \in NetFrames /\ Top.kind = "net" /\ Guarded(Top) = {}
      /\ Top.taps \in Taps
  BY <1>1, TopIsNet DEF NetFits
<1>3. Top.net \in Nets /\ Top.lm \in Results
  BY <1>2 DEF NetFrames
<1>4. Mapped' /\ (\A c \in Cells : Surplus(c)' = Surplus(c)) /\ Lined'
  BY <1>1, <1>2, <1>3, CommitTapsKeepsMap DEF CommitNet, Lined
<1>5. PICK f : f = [Top EXCEPT !.stage = "reask"]
  OBVIOUS
<1>6. f \in NetFrames /\ f.kind = "net" /\ f.stage = "reask"
  BY <1>2, <1>5 DEF NetFrames, Stages
<1>7. f \in Frames /\ Fits(f) /\ Guarded(f) = {}
  BY <1>6 DEF Frames, Fits, NetFits, Guarded
<1>8. Become(f)
  BY <1>5 DEF CommitNet, Goto
<1> QED
  BY <1>2, <1>4, <1>6, <1>7, <1>8, BecomeHolds

LEMMA ReaskHolds ==
  ASSUME CallsInv, Reask
  PROVE  CallsInv'
<1>1. Shape /\ Lined /\ Mapped /\ UNCHANGED <<pending, at>> /\ In("net", "reask")
  BY CallsAre DEF Reask
<1>2. /\ stack # <<>> /\ Top \in NetFrames /\ Top.kind = "net" /\ Guarded(Top) = {}
  BY <1>1, TopIsNet
<1>3. PICK n : n = Top.net
  OBVIOUS
<1>4. n \in Nets /\ IsRouted(n) /\ RipUp(n)
  BY <1>2, <1>3 DEF NetFrames, Reask
<1>5. /\ Mapped' /\ (\A c \in Cells : Surplus(c)' = Surplus(c)) /\ Lined'
      /\ Payload(n) \in Payloads /\ Payload(n).saved.net = n
  BY <1>1, <1>4, RipUpKeepsMap DEF Lined
<1>6. PICK p : p = Payload(n)
  OBVIOUS
<1>7. PICK f : f = [Top EXCEPT !.stage = "reasked", !.saved = p]
  OBVIOUS
<1>8. /\ f \in NetFrames /\ f.kind = "net" /\ f.stage = "reasked" /\ f.saved = p /\ f.net = n
  BY <1>2, <1>3, <1>5, <1>6, <1>7 DEF NetFrames, Stages
<1>9. f \in Frames /\ Fits(f) /\ Guarded(f) = {}
  BY <1>5, <1>6, <1>8 DEF Frames, Fits, NetFits, Guarded
<1>10. PICK g : g = RerouteFrame(<<n>>, MaxRip, {})
  OBVIOUS
<1>11. g \in Frames /\ Fits(g) /\ Guarded(g) = {} /\ g.kind = "reroute"
  <2>1. <<n>> \in Seq(Nets) /\ {} \in SUBSET Nets
    BY <1>4
  <2>2. MaxRip \in Nat /\ MaxRip <= MaxRip + 1
    BY OrderFacts
  <2> QED
    BY <1>10, <2>1, <2>2, NewReroute
<1>12. Call(f, g) /\ Calls(f, g)
  BY <1>3, <1>6, <1>7, <1>8, <1>10, <1>11 DEF Reask, Calls
<1> QED
  BY <1>2, <1>5, <1>8, <1>9, <1>11, <1>12, CallHolds

(* The turn of a net ends: its call is the only one.                       *)
LEMMA LastCallEnds ==
  ASSUME CallsInv, NEW s, In("net", s), stack' = <<>>,
         Lined', Mapped', \A c \in Cells : Surplus(c)' = Surplus(c)
  PROVE  CallsInv'
<1>1. Shape
  BY CallsAre
<1>2. Depth = 1 /\ Top = stack[1] /\ Guarded(Top) = {}
  BY <1>1, TopIsNet
<1>3. Shape'
  BY DEF Shape, Depth
<1>4. DOMAIN stack = {1} /\ DOMAIN stack' = {}
  BY <1>1, <1>2 DEF Shape, Depth
<1>5. \A c \in Cells : Guards(c)' = Guards(c)
  BY <1>2, <1>4 DEF Guards
<1> QED
  BY <1>3, <1>5, CallsHold

LEMMA NetDoneHolds ==
  ASSUME CallsInv, NetDone
  PROVE  CallsInv'
<1>1. Lined /\ Mapped /\ UNCHANGED <<boardVars, pending, at>> /\ stack' = <<>>
  BY CallsAre DEF NetDone
<1>2. Mapped' /\ (\A c \in Cells : Surplus(c)' = Surplus(c)) /\ Lined'
  BY <1>1, BoardStays DEF Lined
<1> QED
  BY <1>1, <1>2, LastCallEnds DEF NetDone

LEMMA UndoReaskHolds ==
  ASSUME CallsInv, UndoReask
  PROVE  CallsInv'
<1>1. Shape /\ Lined /\ Mapped /\ UNCHANGED <<pending, at>> /\ In("net", "reasked")
  BY CallsAre DEF UndoReask
<1>2. /\ stack # <<>> /\ Top \in NetFrames /\ Top.kind = "net" /\ Guarded(Top) = {}
      /\ Top.saved \in Payloads /\ Top.saved.saved.net = Top.net
  BY <1>1, TopIsNet DEF NetFits
<1>3. Top.net \in Nets
  BY <1>2 DEF NetFrames
<1>4. Mapped' /\ (\A c \in Cells : Surplus(c)' = Surplus(c)) /\ Lined'
  BY <1>1, <1>3, RipUpKeepsMap DEF UndoReask, Lined
<1>5. PICK f : f = [Top EXCEPT !.stage = "undone"]
  OBVIOUS
<1>6. /\ f \in NetFrames /\ f.kind = "net" /\ f.stage = "undone"
      /\ f.saved = Top.saved /\ f.net = Top.net
  BY <1>2, <1>5 DEF NetFrames, Stages
<1>7. f \in Frames /\ Fits(f) /\ Guarded(f) = {}
  BY <1>2, <1>6 DEF Frames, Fits, NetFits, Guarded
<1>8. Become(f)
  BY <1>5 DEF UndoReask, Goto
<1> QED
  BY <1>2, <1>4, <1>6, <1>7, <1>8, BecomeHolds

LEMMA RestoreTreeHolds ==
  ASSUME CallsInv, RestoreTree
  PROVE  CallsInv'
<1>1. Shape /\ Lined /\ Mapped /\ UNCHANGED <<pending, at>> /\ stack' = <<>>
  BY CallsAre DEF RestoreTree
<1>2. PICK s \in {"reasked", "undone"} : In("net", s)
  BY DEF RestoreTree
<1>3. /\ Top.saved \in Payloads /\ Top.saved.saved.net = Top.net /\ Top.net \in Nets
  BY <1>1, <1>2, TopIsNet DEF NetFits, NetFrames
<1>4. Mapped' /\ (\A c \in Cells : Surplus(c)' = Surplus(c)) /\ Lined'
  BY <1>1, <1>3, RestoreNetKeepsMap DEF RestoreTree, Lined
<1> QED
  BY <1>1, <1>2, <1>4, LastCallEnds

----------------------------------------------------------------------------
(* try_phase3_ripup.                                                       *)
LEMMA LoadsFit ==
  ASSUME NEW s \in Seq(Loads)
  PROVE  /\ NetsOf(s) \in Seq(Nets)
         /\ s # <<>> => /\ Last(s) \in Loads /\ Front(s) \in Seq(Loads)
                        /\ Len(Front(s)) = Len(s) - 1
                        /\ \A i \in DOMAIN Front(s) : i \in DOMAIN s /\ Front(s)[i] = s[i]
<1>1. DOMAIN s = 1..Len(s) /\ Len(s) \in Nat /\ \A i \in 1..Len(s) : s[i].net \in Nets
  BY DEF Loads
<1>2. NetsOf(s) \in Seq(Nets)
  BY <1>1 DEF NetsOf
<1>3. s # <<>> => Last(s) \in Loads
  BY <1>1 DEF Last
<1>4. s # <<>> => /\ Front(s) \in Seq(Loads) /\ Len(Front(s)) = Len(s) - 1
                  /\ DOMAIN Front(s) = 1..(Len(s) - 1)
                  /\ \A i \in 1..(Len(s) - 1) : Front(s)[i] = s[i]
  BY FrontFacts
<1>5. \A i \in 1..(Len(s) - 1) : i \in 1..Len(s)
  BY <1>1
<1>6. s # <<>> => \A i \in DOMAIN Front(s) : i \in DOMAIN s /\ Front(s)[i] = s[i]
  BY <1>1, <1>4, <1>5
<1> QED
  BY <1>2, <1>3, <1>4, <1>6

(* A net that may be ripped is on the board, and its rip can be undone.    *)
LEMMA VictimFits ==
  ASSUME Mapped, NEW m \in Nets, IsRouted(m), RipUp(m)
  PROVE  /\ Mapped' /\ \A c \in Cells : Surplus(c)' = Surplus(c)
         /\ Victim(m) \in Loads /\ Victim(m).net = m
<1>1. /\ Mapped' /\ \A c \in Cells : Surplus(c)' = Surplus(c)
      /\ Payload(m) \in Payloads /\ Payload(m).saved.net = m
  BY RipUpKeepsMap
<1>2. PICK v : v = Victim(m)
  OBVIOUS
<1>3. v.net = m /\ v.payload = Payload(m) /\ v \in [net : Nets, payload : Payloads]
  BY <1>1, <1>2 DEF Victim
<1> QED
  BY <1>1, <1>2, <1>3 DEF Loads

LEMMA OneMoreLoad ==
  ASSUME NEW s \in Seq(Loads), NEW v \in Loads, NEW k \in Nat, Len(s) < k
  PROVE  /\ Append(s, v) \in Seq(Loads) /\ Len(Append(s, v)) <= k /\ Append(s, v) # <<>>
         /\ DOMAIN Append(s, v) = 1..(Len(s) + 1)
         /\ \A i \in DOMAIN Append(s, v) :
              Append(s, v)[i] = v \/ (i \in DOMAIN s /\ Append(s, v)[i] = s[i])
  OBVIOUS

LEMMA TapRipsHolds ==
  ASSUME CallsInv, NEW m \in Nets, TapRips(m)
  PROVE  CallsInv'
<1>1. Shape /\ Lined /\ Mapped /\ UNCHANGED <<pending, at>> /\ In("tap", "level")
  BY CallsAre DEF TapRips
<1>2. /\ stack # <<>> /\ Top \in TapFrames /\ Top.kind = "tap" /\ Guarded(Top) = {}
      /\ TapFits(Top)
  BY <1>1, TopIsTap
<1>3. IsRouted(m) /\ RipUp(m) /\ Len(Top.ripped) < MaxRip
  BY DEF TapRips, Rippable, Nameable
<1>4. /\ Mapped' /\ (\A c \in Cells : Surplus(c)' = Surplus(c)) /\ Lined'
      /\ Victim(m) \in Loads /\ Victim(m).net = m
  BY <1>1, <1>3, VictimFits DEF Lined
<1>5. PICK v : v = Victim(m)
  OBVIOUS
<1>6. PICK r : r = Append(Top.ripped, v)
  OBVIOUS
<1>7. Top.ripped \in Seq(Loads) /\ MaxRip \in Nat /\ Top.subtree \in SUBSET Nets
  BY <1>2, OrderFacts DEF TapFrames
<1>8. /\ r \in Seq(Loads) /\ Len(r) <= MaxRip
      /\ \A i \in DOMAIN r : r[i] = v \/ (i \in DOMAIN Top.ripped /\ r[i] = Top.ripped[i])
  BY <1>3, <1>4, <1>5, <1>6, <1>7, OneMoreLoad
<1>9. PICK f : f = [Top EXCEPT !.stage = "retry", !.ripped = r]
  OBVIOUS
<1>10. /\ f \in TapFrames /\ f.kind = "tap" /\ f.stage = "retry" /\ f.ripped = r
       /\ f.subtree = Top.subtree /\ f.depth = Top.depth
  BY <1>2, <1>8, <1>9 DEF TapFrames, Stages
<1>11. f \in Frames /\ Guarded(f) = {}
  BY <1>10 DEF Frames, Guarded
<1>12. Fits(Told(f, m))
  <2>1. PICK g : g = [f EXCEPT !.subtree = @ \cup {m}]
    OBVIOUS
  <2>2. /\ g \in TapFrames /\ g.kind = "tap" /\ g.stage = "retry" /\ g.ripped = r
        /\ g.subtree = Top.subtree \cup {m} /\ g.depth = Top.depth
    BY <1>10, <2>1 DEF TapFrames
  <2>3. \A i \in DOMAIN r : r[i].net \in g.subtree
    <3>1. \A i \in DOMAIN Top.ripped : Top.ripped[i].net \in Top.subtree
      BY <1>2 DEF TapFits
    <3> QED
      BY <1>4, <1>5, <1>8, <2>2, <3>1
  <2>4. Top.depth <= MaxRip
    BY <1>2 DEF TapFits
  <2> QED
    BY <1>8, <1>10, <2>1, <2>2, <2>3, <2>4 DEF Told, Fits, TapFits
<1>13. BecomeAfterRip(f, m)
  BY <1>5, <1>6, <1>9 DEF TapRips
<1> QED
  BY <1>2, <1>4, <1>10, <1>11, <1>12, <1>13, TellHolds

LEMMA RetryHelpsHolds ==
  ASSUME CallsInv, NEW t, RetryHelps(t)
  PROVE  CallsInv'
<1>1. /\ Shape /\ Lined /\ Mapped /\ GuardOnly /\ In("tap", "retry")
      /\ work' = AddRows(work, t.cells)
  BY CallsAre DEF RetryHelps, GuardOnly
<1>2. /\ stack # <<>> /\ Top \in TapFrames /\ Top.kind = "tap" /\ Guarded(Top) = {}
      /\ TapFits(Top)
  BY <1>1, TopIsTap
<1>3. /\ t \in Taps /\ t.cells \in SUBSET Cells /\ Top.net \in Nets /\ Top.depth \in Nat
      /\ Top.ancestors \in SUBSET Nets /\ Top.ripped \in Seq(Loads)
  BY <1>2, OrderFacts DEF RetryHelps, TapsOn, TapFrames, Taps
<1>4. PICK f : f = [Top EXCEPT !.stage = "arbitrate", !.retry = t]
  OBVIOUS
<1>5. /\ f \in TapFrames /\ f.kind = "tap" /\ f.stage = "arbitrate" /\ f.retry = t
      /\ f.ripped = Top.ripped /\ f.depth = Top.depth /\ f.subtree = Top.subtree
  BY <1>2, <1>3, <1>4 DEF TapFrames, Stages
<1>6. f \in Frames /\ Fits(f) /\ Guarded(f) = t.cells
  BY <1>2, <1>3, <1>5 DEF Frames, Fits, TapFits, Guarded
<1>7. PICK g : g = RerouteFrame(NetsOf(Top.ripped), Top.depth + 1, ExcludedBy(Top))
  OBVIOUS
<1>8. g \in Frames /\ Fits(g) /\ Guarded(g) = {} /\ g.kind = "reroute"
  <2>1. NetsOf(Top.ripped) \in Seq(Nets)
    BY <1>3, LoadsFit
  <2>2. ExcludedBy(Top) \in SUBSET Nets
    BY <1>2, <1>3 DEF ExcludedBy
  <2>3. Top.depth + 1 \in Nat /\ Top.depth + 1 <= MaxRip + 1
    BY <1>2, <1>3, OrderFacts DEF TapFits
  <2> QED
    BY <1>7, <2>1, <2>2, <2>3, NewReroute
<1>9. Call(f, g) /\ Calls(f, g)
  BY <1>4, <1>5, <1>7, <1>8 DEF RetryHelps, Calls
<1>10. /\ Shape'
       /\ \A c : Guards(c)' = (Guards(c) \ {Depth}) \cup (IF c \in Guarded(f) THEN {Depth} ELSE {})
  BY <1>1, <1>2, <1>5, <1>6, <1>8, <1>9, CallShape
<1>11. work' = AddRows(RemoveRows(work, {}), t.cells)
  <2>1. RemoveRows(work, {}) = work
    BY <1>1 DEF RemoveRows, Mapped, BoardTypeOK
  <2> QED
    BY <1>1, <2>1
<1>12. \A c : Guards(c)' = (Guards(c) \ {Depth}) \cup (IF c \in t.cells THEN {Depth} ELSE {})
  BY <1>6, <1>10
<1>13. {} \in SUBSET Cells
  OBVIOUS
<1> QED
  BY <1>1, <1>2, <1>3, <1>10, <1>11, <1>12, <1>13, GuardMoves

(* The steps of the search that leave the board alone.                     *)
LEMMA TapTurns ==
  ASSUME CallsInv, NEW s \in {"level", "retry"}, NEW u \in {"level", "unwind"},
         In("tap", s), Goto(u), UNCHANGED <<boardVars, pending, at>>
  PROVE  CallsInv'
<1>1. Shape /\ Lined /\ Mapped
  BY CallsAre
<1>2. Mapped' /\ (\A c \in Cells : Surplus(c)' = Surplus(c)) /\ Lined'
  BY <1>1, BoardStays DEF Lined
<1>3. /\ stack # <<>> /\ Top \in TapFrames /\ Top.kind = "tap" /\ Guarded(Top) = {}
      /\ TapFits(Top)
  BY <1>1, TopIsTap
<1>4. PICK f : f = [Top EXCEPT !.stage = u]
  OBVIOUS
<1>5. /\ f \in TapFrames /\ f.kind = "tap" /\ f.stage = u /\ f.ripped = Top.ripped
      /\ f.depth = Top.depth /\ f.subtree = Top.subtree
  BY <1>3, <1>4 DEF TapFrames, Stages
<1>6. f \in Frames /\ Fits(f) /\ Guarded(f) = {}
  BY <1>3, <1>5 DEF Frames, Fits, TapFits, Guarded
<1>7. Become(f)
  BY <1>4 DEF Goto
<1> QED
  BY <1>2, <1>3, <1>5, <1>6, <1>7, BecomeHolds

LEMMA RetryDoesNotHelpHolds ==
  ASSUME CallsInv, RetryDoesNotHelp \/ TapGivesUp
  PROVE  CallsInv'
  BY TapTurns DEF RetryDoesNotHelp, TapGivesUp

LEMMA TapUnwindsHolds ==
  ASSUME CallsInv, TapUnwinds
  PROVE  CallsInv'
<1>1. Shape /\ Lined /\ Mapped /\ UNCHANGED <<pending, at>> /\ In("tap", "unwind")
  BY CallsAre DEF TapUnwinds
<1>2. /\ stack # <<>> /\ Top \in TapFrames /\ Top.kind = "tap" /\ Guarded(Top) = {}
      /\ TapFits(Top) /\ Top.stage = "unwind"
  BY <1>1, TopIsTap
<1>3. Top.ripped \in Seq(Loads) /\ Top.ripped # <<>>
  BY <1>2 DEF TapFrames, TapUnwinds
<1>4. PICK r : r = Front(Top.ripped)
  OBVIOUS
<1>5. /\ Last(Top.ripped) \in Loads /\ r \in Seq(Loads) /\ Len(r) = Len(Top.ripped) - 1
      /\ \A i \in DOMAIN r : i \in DOMAIN Top.ripped /\ r[i] = Top.ripped[i]
  BY <1>3, <1>4, LoadsFit
<1>6. PICK v : v = Last(Top.ripped)
  OBVIOUS
<1>7. v.net \in Nets /\ v.payload \in Payloads /\ v.payload.saved.net = v.net
  BY <1>5, <1>6 DEF Loads
<1>8. RestoreNet(v.net, v.payload)
  BY <1>6 DEF TapUnwinds
<1>9. Mapped' /\ (\A c \in Cells : Surplus(c)' = Surplus(c)) /\ Lined'
  BY <1>1, <1>7, <1>8, RestoreNetKeepsMap DEF Lined
<1>10. PICK f : f = [Top EXCEPT !.ripped = r]
  OBVIOUS
<1>11. /\ f \in TapFrames /\ f.kind = "tap" /\ f.stage = "unwind" /\ f.ripped = r
       /\ f.depth = Top.depth /\ f.subtree = Top.subtree
  BY <1>2, <1>5, <1>10 DEF TapFrames
<1>12. TapFits(f)
  <2>1. Len(r) <= MaxRip
    BY <1>2, <1>3, <1>5, OrderFacts DEF TapFits
  <2>2. \A i \in DOMAIN r : r[i].net \in Top.subtree
    BY <1>2, <1>5 DEF TapFits
  <2> QED
    BY <1>2, <1>11, <2>1, <2>2 DEF TapFits
<1>13. f \in Frames /\ Fits(f) /\ Guarded(f) = {}
  BY <1>11, <1>12 DEF Frames, Fits, Guarded
<1>14. Become(f)
  BY <1>4, <1>10 DEF TapUnwinds
<1> QED
  BY <1>2, <1>9, <1>11, <1>13, <1>14, BecomeHolds

LEMMA TapFailsHolds ==
  ASSUME CallsInv, TapFails
  PROVE  CallsInv'
<1>1. Shape /\ Lined /\ Mapped /\ UNCHANGED <<boardVars, pending, at>> /\ In("tap", "unwind")
  BY CallsAre DEF TapFails
<1>2. Mapped' /\ (\A c \in Cells : Surplus(c)' = Surplus(c)) /\ Lined'
  BY <1>1, BoardStays DEF Lined
<1>3. Depth > 1 /\ Guarded(Top) = {} /\ Caller \in Frames /\ Fits(Caller)
  BY <1>1, TopIsTap
<1>4. PICK f : f = Caller
  OBVIOUS
<1>5. Return(f)
  BY <1>4 DEF TapFails
<1> QED
  BY <1>2, <1>3, <1>4, <1>5, ReturnHolds

(* The call of a tap rip-up returns, and its guard goes with it.           *)
LEMMA TapReturns ==
  ASSUME CallsInv, NEW s \in {"arbitrate", "settled"}, In("tap", s), GuardOnly,
         NEW f \in Frames, Return(f), Fits(f), f.kind = Caller.kind, Guarded(f) = {},
         work' = RemoveRows(work, Guarded(Top))
  PROVE  CallsInv'
<1>1. Shape /\ Mapped
  BY CallsAre
<1>2. /\ Depth > 1 /\ stack # <<>> /\ Top \in TapFrames /\ Guarded(Caller) = {}
      /\ Guarded(Top) = IF s = "arbitrate" THEN Top.retry.cells ELSE Top.orig.cells
      /\ TapFits(Top) /\ Top.stage = s
  BY <1>1, TopIsTap
<1>3. PICK down : down = Guarded(Top)
  OBVIOUS
<1>4. down \in SUBSET Cells
  BY <1>2, <1>3 DEF TapFits, TapFrames, Taps
<1>5. Shape' /\ \A c : Guards(c)' = Guards(c) \ {Depth}
  BY <1>1, <1>2, ReturnShape
<1>6. \A c : Guards(c)' = (Guards(c) \ {Depth}) \cup (IF c \in {} THEN {Depth} ELSE {})
  BY <1>5
<1>7. work' = AddRows(RemoveRows(work, down), {})
  <2>1. PICK w : w = RemoveRows(work, down)
    OBVIOUS
  <2>2. w \in [Cells -> Nat]
    BY <1>1, <1>4, <2>1, AddRemoveRows DEF Mapped, BoardTypeOK
  <2>3. AddRows(w, {}) = w
    BY <2>2 DEF AddRows
  <2> QED
    BY <1>3, <2>1, <2>3
<1>8. {} \in SUBSET Cells
  OBVIOUS
<1> QED
  BY <1>2, <1>3, <1>4, <1>5, <1>6, <1>7, <1>8, GuardMoves

LEMMA KeepRetryHolds ==
  ASSUME CallsInv, KeepRetry
  PROVE  CallsInv'
<1>1. Shape /\ GuardOnly /\ In("tap", "arbitrate") /\ work' = RemoveRows(work, Top.retry.cells)
  BY CallsAre DEF KeepRetry, GuardOnly
<1>2. /\ TapFits(Top) /\ Top.stage = "arbitrate" /\ Guarded(Top) = Top.retry.cells
      /\ Caller \in Frames /\ Fits(Caller) /\ Caller.kind \in {"net", "reroute"}
      /\ Caller.stage = "commit"
  BY <1>1, TopIsTap
<1>3. PICK t : t = Top.retry
  OBVIOUS
<1>4. t \in Taps
  BY <1>2, <1>3 DEF TapFits
<1>5. PICK f : f = [Caller EXCEPT !.taps = t]
  OBVIOUS
<1>6. /\ f \in Frames /\ Fits(f) /\ Guarded(f) = {} /\ f.kind = Caller.kind
  <2>1. CASE Caller.kind = "net"
    <3>1. Caller \in NetFrames
      BY <1>2, <2>1 DEF Fits, NetFits
    <3>2. f \in NetFrames /\ f.kind = "net" /\ f.stage = "commit" /\ f.taps = t
      BY <1>2, <1>4, <1>5, <2>1, <3>1 DEF NetFrames
    <3> QED
      BY <1>4, <2>1, <3>2 DEF Frames, Fits, NetFits, Guarded
  <2>2. CASE Caller.kind = "reroute"
    <3>1. Caller \in RerouteFrames /\ RerouteFits(Caller)
      BY <1>2, <2>2 DEF Fits, RerouteFits
    <3>2. /\ f \in RerouteFrames /\ f.kind = "reroute" /\ f.stage = "commit" /\ f.taps = t
          /\ f.items = Caller.items /\ f.nested = Caller.nested /\ f.main = Caller.main
          /\ f.depth = Caller.depth
      BY <1>2, <1>4, <1>5, <2>2, <3>1 DEF RerouteFrames
    <3>3. RerouteFits(f)
      BY <1>2, <1>4, <3>1, <3>2 DEF RerouteFits
    <3> QED
      BY <2>2, <3>2, <3>3 DEF Frames, Fits, Guarded
  <2> QED
    BY <1>2, <2>1, <2>2
<1>7. Return(f)
  BY <1>3, <1>5 DEF KeepRetry
<1> QED
  BY <1>1, <1>2, <1>6, <1>7, TapReturns

LEMMA AbandonedHolds ==
  ASSUME CallsInv, Abandoned
  PROVE  CallsInv'
<1>1. Shape /\ GuardOnly /\ In("tap", "settled") /\ work' = RemoveRows(work, Top.orig.cells)
  BY CallsAre DEF Abandoned, GuardOnly
<1>2. /\ Guarded(Top) = Top.orig.cells /\ Caller \in Frames /\ Fits(Caller)
      /\ Guarded(Caller) = {}
  BY <1>1, TopIsTap
<1>3. PICK f : f = Caller
  OBVIOUS
<1>4. Return(f)
  BY <1>3 DEF Abandoned
<1> QED
  BY <1>1, <1>2, <1>3, <1>4, TapReturns

LEMMA AbandonRetryHolds ==
  ASSUME CallsInv, AbandonRetry
  PROVE  CallsInv'
<1>1. /\ Shape /\ Lined /\ Mapped /\ GuardOnly /\ In("tap", "arbitrate")
      /\ work' = AddRows(RemoveRows(work, Top.retry.cells), Top.orig.cells)
  BY CallsAre DEF AbandonRetry, GuardOnly
<1>2. /\ stack # <<>> /\ Top \in TapFrames /\ Top.kind = "tap" /\ TapFits(Top)
      /\ Top.stage = "arbitrate" /\ Guarded(Top) = Top.retry.cells
  BY <1>1, TopIsTap
<1>3. PICK down : down = Top.retry.cells
  OBVIOUS
<1>4. PICK up : up = Top.orig.cells
  OBVIOUS
<1>5. down \in SUBSET Cells /\ up \in SUBSET Cells
  BY <1>2, <1>3, <1>4 DEF TapFits, TapFrames, Taps
<1>6. NetsOf(Top.ripped) \in Seq(Nets)
  BY <1>2, LoadsFit DEF TapFrames
<1>7. PICK f : f = [Top EXCEPT !.stage = "rerip", !.again = NetsOf(Top.ripped)]
  OBVIOUS
<1>8. /\ f \in TapFrames /\ f.kind = "tap" /\ f.stage = "rerip" /\ f.orig = Top.orig
      /\ f.ripped = Top.ripped /\ f.depth = Top.depth /\ f.subtree = Top.subtree
  BY <1>2, <1>6, <1>7 DEF TapFrames, Stages
<1>9. f \in Frames /\ Fits(f) /\ Guarded(f) = up
  BY <1>2, <1>4, <1>8 DEF Frames, Fits, TapFits, Guarded
<1>10. Become(f)
  BY <1>7 DEF AbandonRetry
<1>11. /\ Shape'
       /\ \A c : Guards(c)' = (Guards(c) \ {Depth}) \cup (IF c \in Guarded(f) THEN {Depth} ELSE {})
  BY <1>1, <1>2, <1>8, <1>9, <1>10, BecomeShape
<1>12. \A c : Guards(c)' = (Guards(c) \ {Depth}) \cup (IF c \in up THEN {Depth} ELSE {})
  BY <1>9, <1>11
<1>13. Guarded(Top) = down /\ work' = AddRows(RemoveRows(work, down), up)
  BY <1>1, <1>2, <1>3, <1>4
<1> QED
  BY <1>1, <1>2, <1>5, <1>11, <1>12, <1>13, GuardMoves

LEMMA RipsAgainHolds ==
  ASSUME CallsInv, NEW m \in Nets, RipsAgain(m)
  PROVE  CallsInv'
<1>1. Shape /\ Lined /\ Mapped /\ UNCHANGED <<pending, at>> /\ In("tap", "rerip")
  BY CallsAre DEF RipsAgain
<1>2. /\ stack # <<>> /\ Top \in TapFrames /\ Top.kind = "tap" /\ TapFits(Top)
      /\ Top.stage = "rerip" /\ Top \in Frames
  BY <1>1, TopIsTap
<1>3. IsRouted(m) /\ RipUp(m)
  BY DEF RipsAgain, ToRipAgain
<1>4. Mapped' /\ (\A c \in Cells : Surplus(c)' = Surplus(c)) /\ Lined'
  BY <1>1, <1>3, RipUpKeepsMap DEF Lined
<1>5. PICK f : f = IF m \in ToSet(Top.again) THEN Top ELSE [Top EXCEPT !.again = Append(@, m)]
  OBVIOUS
<1>6. f \in TapFrames /\ f.kind = "tap" /\ TapFits(f) /\ Guarded(f) = Guarded(Top)
  <2>1. CASE m \in ToSet(Top.again)
    BY <1>2, <1>5, <2>1
  <2>2. CASE m \notin ToSet(Top.again)
    <3>1. PICK a : a = Append(Top.again, m)
      OBVIOUS
    <3>2. a \in Seq(Nets) /\ f = [Top EXCEPT !.again = a]
      BY <1>2, <1>5, <2>2, <3>1 DEF TapFrames
    <3>3. /\ f \in TapFrames /\ f.kind = "tap" /\ f.stage = "rerip" /\ f.orig = Top.orig
          /\ f.ripped = Top.ripped /\ f.depth = Top.depth /\ f.subtree = Top.subtree
      BY <1>2, <3>2 DEF TapFrames
    <3> QED
      BY <1>2, <3>3 DEF TapFits, Guarded
  <2> QED
    BY <2>1, <2>2
<1>7. f \in Frames /\ Fits(f)
  BY <1>6 DEF Frames, Fits
<1>8. Fits(Told(f, m))
  BY <1>7, ToldFits
<1>9. BecomeAfterRip(f, m)
  BY <1>5 DEF RipsAgain
<1> QED
  BY <1>2, <1>4, <1>6, <1>7, <1>8, <1>9, TellHolds

LEMMA ReroutesAgainHolds ==
  ASSUME CallsInv, ReroutesAgain
  PROVE  CallsInv'
<1>1. Shape /\ Lined /\ Mapped /\ UNCHANGED <<boardVars, pending, at>> /\ In("tap", "rerip")
  BY CallsAre DEF ReroutesAgain
<1>2. Mapped' /\ (\A c \in Cells : Surplus(c)' = Surplus(c)) /\ Lined'
  BY <1>1, BoardStays DEF Lined
<1>3. /\ stack # <<>> /\ Top \in TapFrames /\ Top.kind = "tap" /\ TapFits(Top)
      /\ Top.stage = "rerip"
  BY <1>1, TopIsTap
<1>4. PICK f : f = [Top EXCEPT !.stage = "settled"]
  OBVIOUS
<1>5. /\ f \in TapFrames /\ f.kind = "tap" /\ f.stage = "settled" /\ f.orig = Top.orig
      /\ f.ripped = Top.ripped /\ f.depth = Top.depth /\ f.subtree = Top.subtree
  BY <1>3, <1>4 DEF TapFrames, Stages
<1>6. f \in Frames /\ Fits(f) /\ Guarded(f) = Guarded(Top)
  BY <1>3, <1>5 DEF Frames, Fits, TapFits, Guarded
<1>7. PICK g : g = RerouteFrame(Top.again, Top.depth + 1, ExcludedBy(Top))
  OBVIOUS
<1>8. g \in Frames /\ Fits(g) /\ Guarded(g) = {} /\ g.kind = "reroute"
  <2>1. Top.again \in Seq(Nets) /\ ExcludedBy(Top) \in SUBSET Nets /\ Top.depth \in Nat
    BY <1>3 DEF TapFrames, ExcludedBy
  <2>2. Top.depth + 1 \in Nat /\ Top.depth + 1 <= MaxRip + 1
    BY <1>3, <2>1, OrderFacts DEF TapFits
  <2> QED
    BY <1>7, <2>1, <2>2, NewReroute
<1>9. Call(f, g) /\ Calls(f, g)
  BY <1>4, <1>5, <1>7, <1>8 DEF ReroutesAgain, Calls
<1> QED
  BY <1>2, <1>3, <1>5, <1>6, <1>8, <1>9, CallHolds

----------------------------------------------------------------------------
(* _reroute_phase3_ripped_nets.                                            *)
LEMMA ItemsDoneHolds ==
  ASSUME CallsInv, ItemsDone
  PROVE  CallsInv'
<1>1. Shape /\ Lined /\ Mapped /\ UNCHANGED <<boardVars, pending, at>> /\ In("reroute", "item")
  BY CallsAre DEF ItemsDone
<1>2. Mapped' /\ (\A c \in Cells : Surplus(c)' = Surplus(c)) /\ Lined'
  BY <1>1, BoardStays DEF Lined
<1>3. Depth > 1 /\ Guarded(Top) = {} /\ Caller \in Frames /\ Fits(Caller)
  BY <1>1, TopIsReroute
<1>4. PICK f : f = Caller
  OBVIOUS
<1>5. f \in Frames /\ Fits(f) /\ f.kind = Caller.kind /\ Guarded(f) = Guarded(Caller)
  BY <1>3, <1>4
<1>6. Return(f)
  BY <1>4 DEF ItemsDone
<1> QED
  BY <1>2, <1>3, <1>5, <1>6, ReturnHolds

(* The item at hand is a net.                                              *)
LEMMA ItemIs ==
  ASSUME Shape, NEW s \in Stages.reroute, In("reroute", s),
         s # "item" \/ Top.items # <<>>
  PROVE  Item \in Nets /\ Top.items # <<>> /\ Top.items \in Seq(Nets)
         /\ Tail(Top.items) \in Seq(Nets)
<1>1. Top \in RerouteFrames /\ RerouteFits(Top) /\ Top.stage = s
  BY TopIsReroute
<1>2. Top.items # <<>> /\ Top.items \in Seq(Nets)
  BY <1>1 DEF RerouteFits, RerouteFrames
<1> QED
  BY <1>2 DEF Item

LEMMA UpdateFits ==
  ASSUME Lined, NEW n \in Nets, NEW res \in Results \cup {None}, UNCHANGED at,
         Update(n, res) \/ pending' = [pending EXCEPT ![n] = res]
  PROVE  Lined'
  BY DEF Lined, Update

LEMMA FoundFits ==
  ASSUME NEW n \in Nets, NEW r \in SUBSET Cells
  PROVE  Found(n, r) \in Results
  BY DEF Found, Results

LEMMA NextItemHolds ==
  ASSUME CallsInv, NEW s \in Stages.reroute, In("reroute", s),
         s # "item" \/ Top.items # <<>>, NextItem,
         Lined', Mapped', \A c \in Cells : Surplus(c)' = Surplus(c)
  PROVE  CallsInv'
<1>1. Shape
  BY CallsAre
<1>2. /\ stack # <<>> /\ Top \in RerouteFrames /\ Top.kind = "reroute" /\ Guarded(Top) = {}
      /\ RerouteFits(Top)
  BY <1>1, TopIsReroute
<1>3. PICK q : q = Tail(Top.items)
  OBVIOUS
<1>4. q \in Seq(Nets)
  BY <1>1, <1>3, ItemIs
<1>5. PICK f : f = [Top EXCEPT !.stage = "item", !.items = q, !.main = None,
                               !.nested = <<>>, !.taps = None]
  OBVIOUS
<1>6. /\ f \in RerouteFrames /\ f.kind = "reroute" /\ f.stage = "item" /\ f.nested = <<>>
      /\ f.depth = Top.depth
  <2>1. PICK e \in Seq(Loads) : e = <<>>
    <3>1. <<>> \in Seq(Loads)
      OBVIOUS
    <3> QED
      BY <3>1, Zenon
  <2>2. f = [Top EXCEPT !.stage = "item", !.items = q, !.main = None,
                        !.nested = e, !.taps = None]
    BY <1>5, <2>1
  <2> QED
    BY <1>2, <1>4, <2>1, <2>2 DEF RerouteFrames, Stages
<1>7. Len(f.nested) = 0 /\ MaxRip \in Nat
  BY <1>6, OrderFacts
<1>8. f \in Frames /\ Fits(f) /\ Guarded(f) = {}
  BY <1>2, <1>6, <1>7 DEF Frames, Fits, RerouteFits, Guarded
<1>9. Become(f)
  BY <1>3, <1>5 DEF NextItem
<1> QED
  BY <1>2, <1>6, <1>8, <1>9, BecomeHolds

(* A moved stub stays on the board.                                        *)
LEMMA SwitchedIsCopper ==
  ASSUME NEW n \in Nets, copper[n] \in SUBSET Cells,
         NEW kept \in {copper[n]} \cup SwitchedCopper(n)
  PROVE  kept \in SUBSET Cells
<1>1. CASE kept = copper[n]
  BY <1>1
<1>2. CASE kept \in SwitchedCopper(n)
  <2>1. PICK p \in StubPlaces(n), q \in StubSites[n] : kept = (copper[n] \ p) \cup q
    BY <1>2 DEF SwitchedCopper
  <2>2. q \in SUBSET Cells
    BY <2>1, CascadeAssumption
  <2> QED
    BY <2>1, <2>2
<1> QED
  BY <1>1, <1>2

LEMMA MainLandsHolds ==
  ASSUME CallsInv, NEW r, MainLands(r)
  PROVE  CallsInv'
<1>1. Shape /\ Lined /\ Mapped /\ UNCHANGED at
  BY CallsAre DEF MainLands
<1>2. PICK s \in {"item", "retry"} : In("reroute", s) /\ (s # "item" \/ Top.items # <<>>)
  BY DEF MainLands
<1>3. /\ stack # <<>> /\ Top \in RerouteFrames /\ Top.kind = "reroute" /\ Guarded(Top) = {}
      /\ RerouteFits(Top)
  BY <1>1, <1>2, TopIsReroute
<1>4. s \in Stages.reroute
  BY DEF Stages
<1>5. Item \in Nets /\ Top.items # <<>> /\ Top.items \in Seq(Nets)
  BY <1>1, <1>2, <1>4, ItemIs
<1>6. PICK n \in Nets : n = Item
  BY <1>5
<1>7. r \in RouteOptions[n] /\ r \in SUBSET Cells
  BY <1>6, CopperAssumption DEF MainLands
<1>8. PICK kept \in {copper[n]} \cup SwitchedCopper(n) : RecordSuccess(n, r, kept)
  BY <1>6 DEF MainLands
<1>8k. kept \in SUBSET Cells
  BY <1>1, <1>8, SwitchedIsCopper DEF Mapped, BoardTypeOK
<1>9. Mapped' /\ \A c \in Cells : Surplus(c)' = Surplus(c)
  BY <1>1, <1>7, <1>8, <1>8k, RecordSuccessKeepsMap
<1>10. PICK res : res = Found(n, r)
  OBVIOUS
<1>11. res \in Results
  BY <1>7, <1>10, FoundFits
<1>12. Lined'
  BY <1>1, <1>6, <1>10, <1>11, UpdateFits DEF MainLands
<1>13. PICK f : f = [Top EXCEPT !.stage = "taps", !.main = res]
  OBVIOUS
<1>14. /\ f \in RerouteFrames /\ f.kind = "reroute" /\ f.stage = "taps" /\ f.main = res
       /\ f.items = Top.items /\ f.nested = Top.nested /\ f.depth = Top.depth
  BY <1>3, <1>11, <1>13 DEF RerouteFrames, Stages
<1>15. f \in Frames /\ Fits(f) /\ Guarded(f) = {}
  BY <1>3, <1>5, <1>11, <1>14 DEF Frames, Fits, RerouteFits, Guarded
<1>16. CASE Top.nested = <<>>
  <2>1. Become(f)
    BY <1>6, <1>10, <1>13, <1>16 DEF MainLands
  <2> QED
    BY <1>3, <1>9, <1>12, <1>14, <1>15, <2>1, BecomeHolds
<1>17. CASE Top.nested # <<>>
  <2>1. PICK g : g = RerouteFrame(NetsOf(Top.nested), Top.depth + 1, ExcludedBy(Top))
    OBVIOUS
  <2>2. g \in Frames /\ Fits(g) /\ Guarded(g) = {} /\ g.kind = "reroute"
    <3>1. NetsOf(Top.nested) \in Seq(Nets)
      BY <1>3, LoadsFit DEF RerouteFrames
    <3>2. ExcludedBy(Top) \in SUBSET Nets
      <4>1. Top.items[1] \in Nets
        BY <1>5
      <4> QED
        BY <1>3, <4>1 DEF ExcludedBy, RerouteFrames
    <3>3. Top.depth + 1 \in Nat /\ Top.depth + 1 <= MaxRip + 1
      BY <1>3, <1>17, OrderFacts DEF RerouteFits, RerouteFrames
    <3> QED
      BY <2>1, <3>1, <3>2, <3>3, NewReroute
  <2>3. Calls(f, g)
    BY <1>14, <2>2 DEF Calls
  <2>4. Call(f, g)
    BY <1>6, <1>10, <1>13, <1>17, <2>1 DEF MainLands
  <2> QED
    BY <1>3, <1>9, <1>12, <1>14, <1>15, <2>2, <2>3, <2>4, CallHolds
<1> QED
  BY <1>16, <1>17

(* The steps of the rip-up for a main route that leave the board alone.    *)
LEMMA MainTurns ==
  ASSUME CallsInv, NEW s \in {"item", "level", "retry"}, NEW u \in {"level", "unwind"},
         In("reroute", s), Top.items # <<>> \/ s # "item", Top.depth < MaxRip,
         Goto(u), UNCHANGED <<boardVars, pending, at>>
  PROVE  CallsInv'
<1>1. Shape /\ Lined /\ Mapped
  BY CallsAre
<1>2. Mapped' /\ (\A c \in Cells : Surplus(c)' = Surplus(c)) /\ Lined'
  BY <1>1, BoardStays DEF Lined
<1>3. /\ stack # <<>> /\ Top \in RerouteFrames /\ Top.kind = "reroute" /\ Guarded(Top) = {}
      /\ RerouteFits(Top) /\ Top.stage = s
  BY <1>1, TopIsReroute
<1>4. Top.items # <<>>
  BY <1>3 DEF RerouteFits
<1>5. PICK f : f = [Top EXCEPT !.stage = u]
  OBVIOUS
<1>6. /\ f \in RerouteFrames /\ f.kind = "reroute" /\ f.stage = u /\ f.nested = Top.nested
      /\ f.items = Top.items /\ f.depth = Top.depth
  BY <1>3, <1>5 DEF RerouteFrames, Stages
<1>7. f \in Frames /\ Fits(f) /\ Guarded(f) = {}
  BY <1>3, <1>4, <1>6 DEF Frames, Fits, RerouteFits, Guarded
<1>8. Become(f)
  BY <1>5 DEF Goto
<1> QED
  BY <1>2, <1>3, <1>6, <1>7, <1>8, BecomeHolds

LEMMA MainOpensRipUpHolds ==
  ASSUME CallsInv, MainOpensRipUp \/ MainRetryFails \/ MainGivesUp
  PROVE  CallsInv'
<1>1. CASE MainOpensRipUp
  BY <1>1, MainTurns DEF MainOpensRipUp
<1>2. CASE MainRetryFails
  <2>1. In("reroute", "retry") /\ Goto("level") /\ UNCHANGED <<boardVars, pending, at>>
    BY <1>2 DEF MainRetryFails
  <2>2. Top.depth < MaxRip
    BY <2>1, CallsAre, TopIsReroute DEF RerouteFits
  <2> QED
    BY <2>1, <2>2, MainTurns
<1>3. CASE MainGivesUp
  <2>1. In("reroute", "level") /\ Goto("unwind") /\ UNCHANGED <<boardVars, pending, at>>
    BY <1>3 DEF MainGivesUp
  <2>2. Top.depth < MaxRip
    BY <2>1, CallsAre, TopIsReroute DEF RerouteFits
  <2> QED
    BY <2>1, <2>2, MainTurns
<1> QED
  BY <1>1, <1>2, <1>3

LEMMA MainRipsHolds ==
  ASSUME CallsInv, NEW m \in Nets, MainRips(m)
  PROVE  CallsInv'
<1>1. Shape /\ Lined /\ Mapped /\ UNCHANGED <<pending, at>> /\ In("reroute", "level")
  BY CallsAre DEF MainRips
<1>2. /\ stack # <<>> /\ Top \in RerouteFrames /\ Top.kind = "reroute" /\ Guarded(Top) = {}
      /\ RerouteFits(Top) /\ Top.stage = "level"
  BY <1>1, TopIsReroute
<1>3. IsRouted(m) /\ RipUp(m) /\ Len(Top.nested) < MaxRip
  BY DEF MainRips, Rippable, Nameable
<1>4. /\ Mapped' /\ (\A c \in Cells : Surplus(c)' = Surplus(c)) /\ Lined'
      /\ Victim(m) \in Loads
  BY <1>1, <1>3, VictimFits DEF Lined
<1>5. PICK q : q = Append(Top.nested, Victim(m))
  OBVIOUS
<1>6. q \in Seq(Loads) /\ Len(q) <= MaxRip
  BY <1>2, <1>3, <1>4, <1>5, OneMoreLoad, OrderFacts DEF RerouteFrames
<1>7. PICK f : f = [Top EXCEPT !.stage = "retry", !.nested = q]
  OBVIOUS
<1>8. /\ f \in RerouteFrames /\ f.kind = "reroute" /\ f.stage = "retry" /\ f.nested = q
      /\ f.items = Top.items /\ f.depth = Top.depth
  BY <1>2, <1>6, <1>7 DEF RerouteFrames, Stages
<1>9. Top.items # <<>> /\ Top.depth < MaxRip
  BY <1>2 DEF RerouteFits
<1>10. f \in Frames /\ Fits(f) /\ Guarded(f) = {}
  BY <1>2, <1>6, <1>8, <1>9 DEF Frames, Fits, RerouteFits, Guarded
<1>11. Told(f, m) = f
  BY <1>8 DEF Told
<1>12. BecomeAfterRip(f, m)
  BY <1>5, <1>7 DEF MainRips
<1>13. f.kind = Top.kind /\ Guarded(f) = Guarded(Top) /\ Fits(Told(f, m))
  BY <1>2, <1>8, <1>10, <1>11
<1> QED
  BY <1>2, <1>4, <1>10, <1>12, <1>13, TellHolds

LEMMA MainUnwindsHolds ==
  ASSUME CallsInv, MainUnwinds
  PROVE  CallsInv'
<1>1. Shape /\ Lined /\ Mapped /\ UNCHANGED <<pending, at>> /\ In("reroute", "unwind")
  BY CallsAre DEF MainUnwinds
<1>2. /\ stack # <<>> /\ Top \in RerouteFrames /\ Top.kind = "reroute" /\ Guarded(Top) = {}
      /\ RerouteFits(Top) /\ Top.stage = "unwind"
  BY <1>1, TopIsReroute
<1>3. Top.nested \in Seq(Loads) /\ Top.nested # <<>>
  BY <1>2 DEF RerouteFrames, MainUnwinds
<1>4. PICK q : q = Front(Top.nested)
  OBVIOUS
<1>5. Last(Top.nested) \in Loads /\ q \in Seq(Loads) /\ Len(q) = Len(Top.nested) - 1
  BY <1>3, <1>4, LoadsFit
<1>6. PICK v : v = Last(Top.nested)
  OBVIOUS
<1>7. v.net \in Nets /\ v.payload \in Payloads /\ v.payload.saved.net = v.net
  BY <1>5, <1>6 DEF Loads
<1>8. RestoreNet(v.net, v.payload)
  BY <1>6 DEF MainUnwinds
<1>9. Mapped' /\ (\A c \in Cells : Surplus(c)' = Surplus(c)) /\ Lined'
  BY <1>1, <1>7, <1>8, RestoreNetKeepsMap DEF Lined
<1>10. PICK f : f = [Top EXCEPT !.nested = q]
  OBVIOUS
<1>11. /\ f \in RerouteFrames /\ f.kind = "reroute" /\ f.stage = "unwind" /\ f.nested = q
       /\ f.items = Top.items /\ f.depth = Top.depth
  BY <1>2, <1>5, <1>10 DEF RerouteFrames
<1>12. Top.items # <<>> /\ Top.depth < MaxRip /\ Len(q) <= MaxRip /\ Top.depth <= MaxRip + 1
  BY <1>2, <1>3, <1>5, OrderFacts DEF RerouteFits
<1>13. f \in Frames /\ Fits(f) /\ Guarded(f) = {}
  BY <1>11, <1>12 DEF Frames, Fits, RerouteFits, Guarded
<1>14. Become(f)
  BY <1>4, <1>10 DEF MainUnwinds
<1> QED
  BY <1>2, <1>9, <1>11, <1>13, <1>14, BecomeHolds

LEMMA ItemFailsHolds ==
  ASSUME CallsInv, ItemFails
  PROVE  CallsInv'
<1>1. /\ Shape /\ Lined /\ Mapped /\ UNCHANGED <<boardVars, at>>
      /\ NextItem /\ pending' = [pending EXCEPT ![Item] = None]
  BY CallsAre DEF ItemFails
<1>2. PICK s \in {"item", "unwind"} : In("reroute", s) /\ (s # "item" \/ Top.items # <<>>)
  BY DEF ItemFails
<1>3. s \in Stages.reroute
  BY DEF Stages
<1>4. Item \in Nets
  BY <1>1, <1>2, <1>3, ItemIs
<1>5. PICK n \in Nets : n = Item
  BY <1>4
<1>6. Mapped' /\ (\A c \in Cells : Surplus(c)' = Surplus(c))
  BY <1>1, BoardStays
<1>7. Lined'
  BY <1>1, <1>5, UpdateFits
<1>8. NextItem
  BY <1>1, <1>5
<1> QED
  BY <1>2, <1>3, <1>6, <1>7, <1>8, NextItemHolds

LEMMA ItemExhaustedHolds ==
  ASSUME CallsInv, ItemExhausted
  PROVE  CallsInv'
<1>1. /\ Shape /\ Lined /\ Mapped /\ UNCHANGED <<boardVars, at>>
      /\ NextItem /\ Update(Item, Found(Item, {}))
      /\ In("reroute", "item") /\ Top.items # <<>>
  BY CallsAre DEF ItemExhausted
<1>2. "item" \in Stages.reroute
  BY DEF Stages
<1>3. PICK n \in Nets : n = Item
  BY <1>1, <1>2, ItemIs
<1>4. Mapped' /\ (\A c \in Cells : Surplus(c)' = Surplus(c))
  BY <1>1, BoardStays
<1>5. PICK res : res = Found(n, {})
  OBVIOUS
<1>6. res \in Results
  BY <1>5, FoundFits
<1>7. Lined'
  BY <1>1, <1>3, <1>5, <1>6, UpdateFits
<1>8. NextItem
  BY <1>1, <1>3
<1> QED
  BY <1>1, <1>2, <1>4, <1>7, <1>8, NextItemHolds

LEMMA ItemIsSimpleHolds ==
  ASSUME CallsInv, ItemIsSimple
  PROVE  CallsInv'
<1>1. /\ Lined /\ Mapped /\ UNCHANGED <<boardVars, pending, at>>
      /\ NextItem /\ In("reroute", "taps")
  BY CallsAre DEF ItemIsSimple
<1>2. "taps" \in Stages.reroute /\ "taps" # "item"
  BY DEF Stages
<1>3. Mapped' /\ (\A c \in Cells : Surplus(c)' = Surplus(c)) /\ Lined'
  BY <1>1, BoardStays DEF Lined
<1> QED
  BY <1>1, <1>2, <1>3, NextItemHolds

LEMMA ItemTapsHolds ==
  ASSUME CallsInv, NEW t, ItemTaps(t)
  PROVE  CallsInv'
<1>1. /\ Shape /\ Lined /\ Mapped /\ UNCHANGED <<boardVars, pending, at>>
      /\ In("reroute", "taps")
  BY CallsAre DEF ItemTaps
<1>2. Mapped' /\ (\A c \in Cells : Surplus(c)' = Surplus(c)) /\ Lined'
  BY <1>1, BoardStays DEF Lined
<1>3. /\ stack # <<>> /\ Top \in RerouteFrames /\ Top.kind = "reroute" /\ Guarded(Top) = {}
      /\ RerouteFits(Top) /\ Top.stage = "taps"
  BY <1>1, TopIsReroute
<1>4. "taps" \in Stages.reroute /\ "taps" # "item"
  BY DEF Stages
<1>5. PICK n \in Nets : n = Item
  BY <1>1, <1>4, ItemIs
<1>6. t \in Taps
  BY <1>5, OrderFacts DEF ItemTaps, TapsOn
<1>7. PICK f : f = [Top EXCEPT !.taps = t, !.stage = "commit"]
  OBVIOUS
<1>8. /\ f \in RerouteFrames /\ f.kind = "reroute" /\ f.stage = "commit" /\ f.taps = t
      /\ f.items = Top.items /\ f.nested = Top.nested /\ f.depth = Top.depth
      /\ f.main = Top.main
  BY <1>3, <1>6, <1>7 DEF RerouteFrames, Stages
<1>9. f \in Frames /\ Fits(f) /\ Guarded(f) = {}
  BY <1>3, <1>6, <1>8 DEF Frames, Fits, RerouteFits, Guarded
<1>10. CASE Become(f)
  BY <1>2, <1>3, <1>8, <1>9, <1>10, BecomeHolds
<1>11. CASE Call(f, TapFrame(n, t, Top.depth + 1, Top.ancestors)) /\ Top.depth < MaxRip
  <2>1. PICK g : g = TapFrame(n, t, Top.depth + 1, Top.ancestors)
    OBVIOUS
  <2>2. g \in Frames /\ Fits(g) /\ Guarded(g) = {} /\ g.kind = "tap"
    <3>1. Top.depth + 1 \in Nat /\ Top.depth + 1 <= MaxRip /\ Top.ancestors \in SUBSET Nets
      BY <1>3, <1>11, OrderFacts DEF RerouteFrames
    <3> QED
      BY <1>6, <2>1, <3>1, NewTap
  <2>3. Calls(f, g)
    BY <2>2, <1>8 DEF Calls
  <2>4. Call(f, g)
    BY <1>11, <2>1
  <2> QED
    BY <1>2, <1>3, <1>8, <1>9, <2>2, <2>3, <2>4, CallHolds
<1> QED
  BY <1>5, <1>7, <1>10, <1>11 DEF ItemTaps

LEMMA ItemCommitsHolds ==
  ASSUME CallsInv, ItemCommits
  PROVE  CallsInv'
<1>1. /\ Shape /\ Lined /\ Mapped /\ UNCHANGED at /\ In("reroute", "commit")
      /\ NextItem /\ pending' = [pending EXCEPT ![Item] = None]
  BY CallsAre DEF ItemCommits
<1>2. "commit" \in Stages.reroute /\ "commit" # "item" /\ {} \in SUBSET Nets
  BY DEF Stages
<1>3. PICK n \in Nets : n = Item
  BY <1>1, <1>2, ItemIs
<1>4. Top.taps \in Taps /\ Top.main \in Results
  BY <1>1, TopIsReroute DEF RerouteFits
<1>5. CommitTaps(n, Top.taps, Top.main, Top.main)
  BY <1>3 DEF ItemCommits
<1>6. Mapped' /\ (\A c \in Cells : Surplus(c)' = Surplus(c))
  BY <1>1, <1>4, <1>5, CommitTapsKeepsMap
<1>7. Lined'
  BY <1>1, <1>3, UpdateFits
<1> QED
  BY <1>1, <1>2, <1>6, <1>7, NextItemHolds

----------------------------------------------------------------------------
LEMMA CallsStart ==
  ASSUME Init
  PROVE  CallsInv
<1>1. \A n \in Nets : Stub[n] \subseteq Cells /\ Phase1[n] \subseteq Cells
                      /\ Found(n, Phase1[n]) \in Results
  BY CascadeAssumption, CopperAssumption, FoundFits
<1>2. BoardTypeOK
  <2>1. \A c : Cardinality({n \in Nets : c \in StartCopper(n)}) \in Nat
    <3>1. ASSUME NEW c PROVE Cardinality({n \in Nets : c \in StartCopper(n)}) \in Nat
      BY NetsAssumption, FS_Subset, FS_CardinalityType
    <3> QED
      BY <3>1
  <2>2. work \in [Cells -> Nat]
    BY <2>1 DEF Init
  <2>3. /\ copper \in [Nets -> SUBSET Cells] /\ cache \in [Nets -> SUBSET Cells]
        /\ routed \in [Nets -> Results \cup {None}]
    BY <1>1 DEF Init, StartCopper
  <2>4. \A n \in Nets : routed[n].net = n
    BY DEF Init, Found
  <2>5. results \subseteq Results
    BY <1>1 DEF Init
  <2>6. /\ ripSaved \in [Nets -> Payloads \cup {None}] /\ \A n \in Nets : ripSaved[n] = None
        /\ refused \in [Nets -> Results \cup {None}]
    BY DEF Init
  <2>7. routedIds \subseteq Nets /\ paths \subseteq Nets /\ remaining \subseteq Nets
    BY DEF Init
  <2> QED
    BY <2>2, <2>3, <2>4, <2>5, <2>6, <2>7 DEF BoardTypeOK
<1>3. CacheMirrorsBoard /\ stack = <<>> /\ Depth = 0
  BY DEF Init, CacheMirrorsBoard, Depth
<1>4. pending \in [Nets -> Results \cup {None}] /\ at \in 1..(Len(Order) + 1)
  BY <1>1, OrderFacts DEF Init
<1>5. MapAccounts
  <2>1. ASSUME NEW c \in Cells
        PROVE  /\ work[c] = Cardinality(Stampers(c)) /\ Cardinality(Stampers(c)) \in Nat
               /\ {i \in DOMAIN stack : c \in Guarded(stack[i])} = {}
    <3>1. Stampers(c) = {n \in Nets : c \in StartCopper(n)}
      BY DEF Init, Stampers
    <3>2. work[c] = Cardinality({n \in Nets : c \in StartCopper(n)})
      BY DEF Init
    <3>3. DOMAIN stack = {}
      BY <1>3
    <3>4. Cardinality(Stampers(c)) \in Nat
      BY StampersAreCounted
    <3> QED
      BY <3>1, <3>2, <3>3, <3>4
  <2>2. Cardinality({}) = 0
    BY FS_EmptySet
  <2> QED
    BY <2>1, <2>2 DEF MapAccounts
<1> QED
  BY <1>2, <1>3, <1>4, <1>5 DEF CallsInv

LEMMA CallsSurvive ==
  ASSUME CallsInv, [Next]_vars
  PROVE  CallsInv'
<1>1. CASE Cancel
  BY <1>1, CancelHolds
<1>2. CASE NetStep
  BY <1>2, CancelHolds, TakeNetHolds, RouteTapsHolds, CommitNetHolds, ReaskHolds,
     NetDoneHolds, UndoReaskHolds, RestoreTreeHolds DEF NetStep
<1>3. CASE TapStep
  BY <1>3, TapRipsHolds, RetryHelpsHolds, RetryDoesNotHelpHolds, TapUnwindsHolds,
     TapFailsHolds, KeepRetryHolds, AbandonRetryHolds, RipsAgainHolds, ReroutesAgainHolds,
     AbandonedHolds DEF TapStep
<1>4. CASE RerouteStep
  BY <1>4, ItemsDoneHolds, MainLandsHolds, MainOpensRipUpHolds, MainRipsHolds,
     MainUnwindsHolds, ItemFailsHolds, ItemExhaustedHolds, ItemIsSimpleHolds,
     ItemTapsHolds, ItemCommitsHolds DEF RerouteStep
<1>5. CASE UNCHANGED vars
  <2>1. Shape /\ Lined /\ Mapped
    BY CallsAre
  <2>2. UNCHANGED boardVars /\ UNCHANGED <<pending, at, stack>>
    BY <1>5 DEF vars, callVars
  <2>3. Mapped' /\ \A c \in Cells : Surplus(c)' = Surplus(c)
    BY <2>1, <2>2, BoardStays
  <2>4. Shape' /\ Lined' /\ \A c \in Cells : Guards(c)' = Guards(c)
    BY <2>1, <2>2 DEF Shape, Placed, Guards, Depth, Lined
  <2> QED
    BY <2>3, <2>4, CallsHold
<1> QED
  BY <1>1, <1>2, <1>3, <1>4, <1>5 DEF Next

LEMMA CallsAreTyped ==
  ASSUME CallsInv
  PROVE  CascadeTypeOK
<1>1. BoardTypeOK /\ pending \in [Nets -> Results \cup {None}] /\ at \in 1..Len(Order) + 1
  BY DEF CallsInv
<1>2. ASSUME NEW i \in DOMAIN stack
      PROVE  LET f == stack[i] IN
       /\ f.kind = "net" <=> i = 1
       /\ f.stage \in Stages[f.kind]
       /\ f.kind = "tap" => /\ Len(f.ripped) <= MaxRip
                            /\ f.depth <= MaxRip
                            /\ ToSet(NetsOf(f.ripped)) \subseteq f.subtree
       /\ f.kind = "reroute" => /\ Len(f.nested) <= MaxRip
                                /\ f.depth <= MaxRip + 1
                                /\ f.stage # "item" => f.items # <<>>
       /\ i > 1 /\ f.kind = "tap" => stack[i - 1].stage = "commit"
       /\ i > 1 /\ f.kind = "reroute" =>
            stack[i - 1].stage \in {"arbitrate", "settled", "taps", "reasked"}
  <2>1. DOMAIN stack = 1..Depth /\ i \in 1..Depth /\ stack[i] \in Frames
    BY DEF CallsInv, Depth
  <2>2. PICK f : f = stack[i]
    OBVIOUS
  <2>3. Fits(f) /\ (f.kind = "net" <=> i = 1) /\ (i > 1 => Calls(stack[i - 1], f)) /\ f \in Frames
    BY <2>1, <2>2 DEF CallsInv, Placed
  <2>4. f.kind = "net" => f.stage \in Stages[f.kind]
    BY <2>3 DEF Fits, NetFits, NetFrames
  <2>5. f.kind = "tap" => /\ f.stage \in Stages[f.kind]
                          /\ Len(f.ripped) <= MaxRip /\ f.depth <= MaxRip
                          /\ f.ripped \in Seq(Loads)
                          /\ \A k \in DOMAIN f.ripped : f.ripped[k].net \in f.subtree
    BY <2>3 DEF Fits, TapFits, TapFrames
  <2>6. f.kind = "tap" => ToSet(NetsOf(f.ripped)) \subseteq f.subtree
    BY <2>5 DEF ToSet, NetsOf
  <2>7. f.kind = "reroute" => /\ f.stage \in Stages[f.kind]
                              /\ Len(f.nested) <= MaxRip /\ f.depth <= MaxRip + 1
                              /\ f.stage # "item" => f.items # <<>>
    BY <2>3 DEF Fits, RerouteFits, RerouteFrames
  <2>8. f.kind \in {"net", "tap", "reroute"}
    BY <2>3 DEF Frames, NetFrames, TapFrames, RerouteFrames
  <2>9. i > 1 /\ f.kind = "tap" => stack[i - 1].stage = "commit"
    BY <2>3 DEF Calls
  <2>10. i > 1 /\ f.kind = "reroute" =>
           stack[i - 1].stage \in {"arbitrate", "settled", "taps", "reasked"}
    BY <2>3 DEF Calls
  <2> QED
    BY <2>2, <2>3, <2>4, <2>5, <2>6, <2>7, <2>8, <2>9, <2>10
<1> QED
  BY <1>1, <1>2 DEF CascadeTypeOK

(* run_obstacle_audit (#309) through the whole of phase 3: at every step   *)
(* of the cascade the working map counts the rows of the nets as they lie  *)
(* and the taps the open calls hold back, nothing else; so a retry that is *)
(* abandoned, however deep, takes its guard with it.                       *)
THEOREM GuardsLeaveWithTheirCalls == Spec => []MapAccounts
<1>1. Init => CallsInv
  BY CallsStart
<1>2. CallsInv /\ [Next]_vars => CallsInv'
  BY CallsSurvive
<1>3. CallsInv => MapAccounts
  BY DEF CallsInv
<1> QED
  BY <1>1, <1>2, <1>3, PTL DEF Spec

(* The calls in progress keep their shape: a rip-up is called for taps, a  *)
(* reroute for what was ripped; no call rips more nets than                *)
(* config.max_rip_up_count, and its depth stays within that too (a reroute *)
(* may be one deeper, where nothing is ripped).                            *)
THEOREM CascadeTypes == Spec => []CascadeTypeOK
<1>1. Init => CallsInv
  BY CallsStart
<1>2. CallsInv /\ [Next]_vars => CallsInv'
  BY CallsSurvive
<1>3. CallsInv => CascadeTypeOK
  BY CallsAreTyped
<1> QED
  BY <1>1, <1>2, <1>3, PTL DEF Spec

----------------------------------------------------------------------------
(* The second part: what the open calls hold against the board.  A net the *)
(* loop takes without a route makes its turn claim copper that is not      *)
(* there, which is the disagreement the ghost run shows.  This part is     *)
(* about steps that take no such net; the third says when there is none.   *)
NoGhost == TakeNet => IsRouted(Order[at])

(* A stub that is moved is checked against the board alone, and the taps   *)
(* an open rip-up holds back are not there yet: a stub moved onto them     *)
(* makes a short when they are committed.  What is left of a net when its  *)
(* result is taken away grows only by a moved stub; that it grows clear of *)
(* the taps held back is what this part supposes of every step.            *)
HeldBack(f) == IF f.kind = "tap" THEN f.orig.cells \cup Guarded(f) ELSE {}

(* The nets a call and its caller keep on the board, and those the calls   *)
(* above it must leave alone because of it.                                *)
Roots(f) ==
  CASE f.kind = "tap" -> {f.net} \cup f.ancestors
    [] f.kind = "reroute" -> f.ancestors
    [] OTHER -> {}

Spared(f) ==
  Roots(f) \cup
    (CASE f.kind = "net" /\ f.stage \in {"taps", "commit", "reask"} -> {f.net}
       [] f.kind = "reroute" /\ f.stage \in {"taps", "commit"} -> {f.items[1]}
       [] OTHER -> {})

(* The nets a call has ripped or is to route, and those it has yet to take. *)
Touched(f) ==
  CASE f.kind = "tap" -> f.subtree
    [] f.kind = "reroute" -> ToSet(f.items) \cup ToSet(NetsOf(f.nested))
    [] OTHER -> {}

Waiting(f) == IF f.kind = "reroute" THEN ToSet(ToDo(f)) ELSE {}

(* The copper a call may put on the board without another search.          *)
CellsOf(t) == IF t \in Taps THEN t.cells ELSE {}
Carried(s) == UNION {s[i].payload.saved.cells : i \in DOMAIN s}
InFlight(f) ==
  CASE f.kind = "tap" -> Carried(f.ripped) \cup f.orig.cells \cup CellsOf(f.retry)
    [] f.kind = "reroute" -> Carried(f.nested) \cup CellsOf(f.taps)
    [] OTHER -> {}

(* A call f and a call g above it: g spares what f needs, takes none of    *)
(* the nets f will take, is known to f if f rips, and respects its guard.  *)
(* Above a re-asked tree there is the reroute of its net and no more.      *)
Beneath(f, g) ==
  /\ Spared(f) \subseteq Roots(g)
  /\ Waiting(f) \cap Touched(g) = {}
  /\ f.kind = "tap" => Touched(g) \subseteq f.subtree
  /\ InFlight(g) \cap Guarded(f) = {}
  /\ f.kind = "net" /\ f.stage \notin {"taps", "commit"} =>
       g.kind = "reroute" /\ g.depth = MaxRip /\ ToSet(g.items) \subseteq {f.net}

(* A rip-up for taps works on the net and the taps of its caller.          *)
Hands(f, g) ==
  g.kind = "tap" =>
    /\ f.taps = g.orig
    /\ g.net = IF f.kind = "net" THEN f.net ELSE f.items[1]

(* What is left of a net when its result is taken away.                    *)
Residue(n) == IF IsRouted(n) THEN copper[n] \ routed[n].cells ELSE copper[n]

SwitchesSpareTaps ==
  \A n \in Nets : \A i \in 1..Depth :
    (Residue(n)' \ Residue(n)) \cap HeldBack(stack[i]) = {}

Clear(cells, n) == \A m \in Nets \ {n} : cells \cap copper[m] = {}

(* A payload that can go back.                                             *)
Good(p, n) == p.wasIn /\ ~p.saved.existing /\ Clear(p.saved.cells, n)

NetSound(f) ==
  /\ f.stage \in {"taps", "commit"} => routed[f.net] = f.lm
  /\ f.stage = "reask" => IsRouted(f.net)
  /\ f.stage \in {"reasked", "undone"} => Good(f.saved, f.net)
  /\ f.stage = "undone" => ~IsRouted(f.net)

TapSound(f) ==
  /\ IsRouted(f.net)
  /\ f.subtree \cap Roots(f) = {}
  /\ \A m \in Nets \ {f.net} : /\ f.orig.cells \cap Residue(m) = {}
                               /\ m \notin f.subtree => f.orig.cells \cap copper[m] = {}
  /\ f.stage = "arbitrate" => Clear(f.retry.cells, f.net)
  /\ f.stage = "settled" => Clear(f.orig.cells, f.net)
  /\ IsInjective(NetsOf(f.ripped))
  /\ f.stage = "rerip" => /\ IsInjective(f.again)
                          /\ ToSet(f.again) \subseteq f.subtree

RerouteSound(f) ==
  /\ Touched(f) \cap Roots(f) = {}
  /\ IsInjective(f.items)
  /\ \A n \in Waiting(f) : ~IsRouted(n)
  /\ f.stage \in {"taps", "commit"} => routed[f.items[1]] = f.main
  /\ f.stage \in {"level", "retry", "unwind"} => ~IsRouted(f.items[1])

Sound(f) ==
  /\ f.kind = "net" => NetSound(f)
  /\ f.kind = "tap" => TapSound(f)
  /\ f.kind = "reroute" => RerouteSound(f)

(* The victims of the innermost call can all go back, in any order.        *)
HeldFits(s) ==
  /\ \A i \in DOMAIN s : ~IsRouted(s[i].net) /\ Good(s[i].payload, s[i].net)
  /\ \A i, j \in DOMAIN s : i # j =>
       /\ s[i].net # s[j].net
       /\ s[i].payload.saved.cells \cap s[j].payload.saved.cells = {}

Rips(f) == f.stage \in {"level", "retry", "unwind"}

Ready(f) ==
  /\ f.kind = "tap" /\ Rips(f) =>
       /\ HeldFits(f.ripped)
       /\ Clear(f.orig.cells, f.net) /\ f.orig.cells \cap Carried(f.ripped) = {}
  /\ f.kind = "reroute" /\ Rips(f) =>
       /\ HeldFits(f.nested)
       /\ \A i \in DOMAIN f.nested : f.nested[i].net \notin ToSet(f.items)
  /\ f.kind # "tap" /\ f.stage = "commit" =>
       Clear(f.taps.cells, IF f.kind = "net" THEN f.net ELSE f.items[1])

BoardFits ==
  /\ NoShort /\ LedgersAgree
  /\ \A n \in Nets : IsRouted(n) => ~routed[n].existing
  /\ \A n \in Nets : refused[n] = None

Stacked ==
  /\ \A i \in 1..Depth : Sound(stack[i])
  /\ \A i, j \in 1..Depth : i < j => Beneath(stack[i], stack[j])
  /\ \A i \in 2..Depth : Hands(stack[i - 1], stack[i])
  /\ stack # <<>> => Ready(Top)

CascadeInv == CallsInv /\ BoardFits /\ Stacked

----------------------------------------------------------------------------
(* The calls under the innermost one.                                      *)
Below == {stack[i] : i \in 1..(Depth - 1)}

LEMMA BelowFacts ==
  ASSUME Shape, stack # <<>>, Stacked
  PROVE  /\ Below \subseteq Frames
         /\ \A g \in Below : Fits(g) /\ Sound(g) /\ Beneath(g, Top)
         /\ Sound(Top) /\ Ready(Top) /\ (Depth > 1 => Hands(Caller, Top))
         /\ Depth > 1 => Caller \in Below
<1>1. Depth \in Nat \ {0} /\ Top = stack[Depth] /\ Depth \in 1..Depth
      /\ (Depth > 1 => Caller = stack[Depth - 1])
  BY TopIsPlaced
<1>2. \A i \in 1..(Depth - 1) : i \in 1..Depth /\ i < Depth
  BY <1>1
<1>3. \A i \in 1..Depth : stack[i] \in Frames /\ Fits(stack[i])
  BY DEF Shape, Placed, Depth
<1>4. Depth > 1 => Depth \in 2..Depth /\ Depth - 1 \in 1..(Depth - 1)
  BY <1>1
<1> QED
  BY <1>1, <1>2, <1>3, <1>4 DEF Below, Stacked

LEMMA BecomeStacked ==
  ASSUME Shape, stack # <<>>, Stacked, NEW f \in Frames, Become(f),
         \A g \in Below : Sound(g)' /\ Beneath(g, f),
         Sound(f)', Ready(f)', Depth > 1 => Hands(Caller, f)
  PROVE  Stacked'
<1>1. /\ stack' \in Seq(Frames) /\ stack' # <<>> /\ Depth' = Depth
      /\ \A i \in 1..(Depth - 1) : stack'[i] = stack[i]
      /\ stack'[Depth] = f
  BY Becoming DEF Shape
<1>2. Depth \in Nat \ {0} /\ (Depth > 1 => Caller = stack[Depth - 1])
  BY TopIsPlaced
<1>3. Top' = f
  BY <1>1 DEF Top, Last, Depth
<1>4. \A i \in 1..Depth : i \in 1..(Depth - 1) \/ i = Depth
  BY <1>2
<1>5. ASSUME NEW i \in 1..Depth PROVE Sound(stack[i])'
  <2>1. CASE i = Depth
    BY <2>1, <1>1
  <2>2. CASE i \in 1..(Depth - 1)
    <3>1. stack'[i] = stack[i] /\ stack[i] \in Below
      BY <2>2, <1>1 DEF Below
    <3> QED
      BY <3>1
  <2> QED
    BY <2>1, <2>2, <1>4
<1>6. ASSUME NEW i \in 1..Depth, NEW j \in 1..Depth, i < j
      PROVE  Beneath(stack'[i], stack'[j])
  <2>1. i \in 1..(Depth - 1) /\ stack'[i] = stack[i] /\ stack[i] \in Below
    BY <1>1, <1>2, <1>6 DEF Below
  <2>2. CASE j = Depth
    BY <2>1, <2>2, <1>1
  <2>3. CASE j \in 1..(Depth - 1)
    BY <2>1, <2>3, <1>1, <1>6 DEF Stacked
  <2> QED
    BY <2>2, <2>3, <1>4
<1>7. ASSUME NEW i \in 2..Depth PROVE Hands(stack'[i - 1], stack'[i])
  <2>1. i - 1 \in 1..(Depth - 1) /\ stack'[i - 1] = stack[i - 1]
    BY <1>1, <1>2
  <2>2. CASE i = Depth
    BY <2>1, <2>2, <1>1, <1>2
  <2>3. CASE i \in 1..(Depth - 1)
    BY <2>1, <2>3, <1>1 DEF Stacked
  <2> QED
    BY <2>2, <2>3, <1>2
<1>8. Ready(Top)'
  BY <1>3
<1> QED
  BY <1>1, <1>5, <1>6, <1>7, <1>8 DEF Stacked

LEMMA CallStacked ==
  ASSUME Shape, stack # <<>>, Stacked, NEW f \in Frames, NEW g \in Frames, Call(f, g),
         \A h \in Below : Sound(h)' /\ Beneath(h, f) /\ Beneath(h, g),
         Sound(f)', Sound(g)', Ready(g)', Beneath(f, g), Hands(f, g),
         Depth > 1 => Hands(Caller, f)
  PROVE  Stacked'
<1>1. /\ stack' \in Seq(Frames) /\ stack' # <<>> /\ Depth' = Depth + 1
      /\ \A i \in 1..(Depth - 1) : stack'[i] = stack[i]
      /\ stack'[Depth] = f /\ stack'[Depth + 1] = g
  BY Calling DEF Shape
<1>2. Depth \in Nat \ {0} /\ (Depth > 1 => Caller = stack[Depth - 1])
  BY TopIsPlaced
<1>3. Top' = g
  <2>1. Len(stack') = Depth + 1
    BY <1>1 DEF Depth
  <2> QED
    BY <1>1, <2>1 DEF Top, Last
<1>4. \A i \in 1..(Depth + 1) : i \in 1..(Depth - 1) \/ i = Depth \/ i = Depth + 1
  BY <1>2
<1>5. ASSUME NEW i \in 1..(Depth + 1) PROVE Sound(stack[i])'
  <2>1. CASE i = Depth \/ i = Depth + 1
    BY <2>1, <1>1
  <2>2. CASE i \in 1..(Depth - 1)
    <3>1. stack'[i] = stack[i] /\ stack[i] \in Below
      BY <2>2, <1>1 DEF Below
    <3> QED
      BY <3>1
  <2> QED
    BY <2>1, <2>2, <1>4
<1>6. ASSUME NEW i \in 1..(Depth + 1), NEW j \in 1..(Depth + 1), i < j
      PROVE  Beneath(stack'[i], stack'[j])
  <2>1. CASE i = Depth
    <3>1. j = Depth + 1
      BY <2>1, <1>2, <1>6
    <3> QED
      BY <2>1, <3>1, <1>1
  <2>2. CASE i \in 1..(Depth - 1)
    <3>1. stack'[i] = stack[i] /\ stack[i] \in Below
      BY <2>2, <1>1 DEF Below
    <3>2. CASE j \in 1..(Depth - 1)
      <4>1. i \in 1..Depth /\ j \in 1..Depth
        BY <2>2, <3>2, <1>2
      <4>2. Beneath(stack[i], stack[j])
        BY <4>1, <1>6 DEF Stacked
      <4> QED
        BY <3>1, <3>2, <4>2, <1>1
    <3>3. CASE j = Depth \/ j = Depth + 1
      BY <3>1, <3>3, <1>1
    <3> QED
      BY <3>2, <3>3, <1>4
  <2> QED
    BY <2>1, <2>2, <1>2, <1>4, <1>6
<1>7. ASSUME NEW i \in 2..(Depth + 1) PROVE Hands(stack'[i - 1], stack'[i])
  <2>1. CASE i = Depth + 1
    <3>1. i - 1 = Depth
      BY <2>1, <1>2
    <3> QED
      BY <2>1, <3>1, <1>1
  <2>2. CASE i = Depth
    <3>1. i - 1 \in 1..(Depth - 1) /\ Depth > 1
      BY <2>2, <1>2
    <3> QED
      BY <2>2, <3>1, <1>1, <1>2
  <2>3. CASE i \in 2..(Depth - 1)
    <3>1. i - 1 \in 1..(Depth - 1) /\ i \in 1..(Depth - 1) /\ i \in 2..Depth
      BY <2>3, <1>2
    <3>2. Hands(stack[i - 1], stack[i])
      BY <3>1 DEF Stacked
    <3> QED
      BY <3>1, <3>2, <1>1
  <2>4. i = Depth + 1 \/ i = Depth \/ i \in 2..(Depth - 1)
    BY <1>2
  <2> QED
    BY <2>1, <2>2, <2>3, <2>4
<1>8. Ready(Top)'
  BY <1>3
<1> QED
  BY <1>1, <1>5, <1>6, <1>7, <1>8 DEF Stacked

LEMMA ReturnStacked ==
  ASSUME Shape, Depth > 1, Stacked, NEW f \in Frames, Return(f),
         \A g \in Below : Sound(g)', Sound(f)', Ready(f)',
         \A g \in Below : Beneath(g, Caller) => Beneath(g, f),
         \A g : Hands(g, Caller) => Hands(g, f)
  PROVE  Stacked'
<1>0. stack # <<>>
  BY DEF Depth
<1>1. /\ stack' \in Seq(Frames) /\ stack' # <<>> /\ Depth' = Depth - 1
      /\ \A i \in 1..(Depth - 2) : stack'[i] = stack[i]
      /\ stack'[Depth - 1] = f
  BY Returning DEF Shape
<1>2. Depth \in Nat \ {0} /\ Caller = stack[Depth - 1]
  BY <1>0, TopIsPlaced
<1>3. Top' = f
  <2>1. Len(stack') = Depth - 1
    BY <1>1 DEF Depth
  <2> QED
    BY <1>1, <2>1 DEF Top, Last
<1>4. \A i \in 1..(Depth - 1) : i \in 1..(Depth - 2) \/ i = Depth - 1
  BY <1>2
<1>5. ASSUME NEW i \in 1..(Depth - 1) PROVE Sound(stack[i])'
  <2>1. CASE i = Depth - 1
    BY <2>1, <1>1
  <2>2. CASE i \in 1..(Depth - 2)
    <3>1. stack'[i] = stack[i] /\ stack[i] \in Below
      BY <2>2, <1>1 DEF Below
    <3> QED
      BY <3>1
  <2> QED
    BY <2>1, <2>2, <1>4
<1>6. ASSUME NEW i \in 1..(Depth - 1), NEW j \in 1..(Depth - 1), i < j
      PROVE  Beneath(stack'[i], stack'[j])
  <2>1. i \in 1..(Depth - 2) /\ i \in 1..Depth /\ j \in 1..Depth
    BY <1>2, <1>6
  <2>2. stack'[i] = stack[i] /\ stack[i] \in Below /\ Beneath(stack[i], stack[j])
    BY <2>1, <1>1, <1>6 DEF Below, Stacked
  <2>3. CASE j = Depth - 1
    BY <2>2, <2>3, <1>1, <1>2
  <2>4. CASE j \in 1..(Depth - 2)
    BY <2>2, <2>4, <1>1
  <2> QED
    BY <2>3, <2>4, <1>4
<1>7. ASSUME NEW i \in 2..(Depth - 1) PROVE Hands(stack'[i - 1], stack'[i])
  <2>1. i - 1 \in 1..(Depth - 2) /\ i \in 2..Depth
    BY <1>2
  <2>2. stack'[i - 1] = stack[i - 1] /\ Hands(stack[i - 1], stack[i])
    BY <2>1, <1>1 DEF Stacked
  <2>3. CASE i = Depth - 1
    BY <2>2, <2>3, <1>1, <1>2
  <2>4. CASE i \in 1..(Depth - 2)
    BY <2>2, <2>4, <1>1
  <2> QED
    BY <2>3, <2>4, <1>4
<1>8. Ready(Top)'
  BY <1>3
<1> QED
  BY <1>1, <1>5, <1>6, <1>7, <1>8 DEF Stacked

----------------------------------------------------------------------------
(* A rip is told to the calls below.                                       *)
LEMMA ToldHas ==
  ASSUME NEW f \in Frames, NEW m \in Nets
  PROVE  /\ Roots(Told(f, m)) = Roots(f) /\ Spared(Told(f, m)) = Spared(f)
         /\ Waiting(Told(f, m)) = Waiting(f) /\ InFlight(Told(f, m)) = InFlight(f)
         /\ Touched(f) \subseteq Touched(Told(f, m))
         /\ Touched(Told(f, m)) \subseteq Touched(f) \cup {m}
         /\ f.kind = "tap" => Told(f, m).subtree = f.subtree \cup {m}
         /\ f.kind # "tap" => Told(f, m) = f
<1>1. CASE f.kind # "tap"
  BY <1>1 DEF Told
<1>2. CASE f.kind = "tap"
  <2>1. f \in TapFrames
    BY <1>2 DEF Frames, NetFrames, RerouteFrames
  <2>2. PICK g : g = [f EXCEPT !.subtree = @ \cup {m}]
    OBVIOUS
  <2>3. /\ g.subtree = f.subtree \cup {m} /\ g.kind = "tap" /\ g.net = f.net
        /\ g.ancestors = f.ancestors /\ g.retry = f.retry /\ g.orig = f.orig
        /\ g.ripped = f.ripped
    BY <2>1, <2>2 DEF TapFrames
  <2>4. Told(f, m) = g
    BY <1>2, <2>2 DEF Told
  <2> QED
    BY <1>2, <2>3, <2>4 DEF Roots, Spared, Waiting, InFlight, Touched
<1> QED
  BY <1>1, <1>2

LEMMA ToldFields ==
  ASSUME NEW f \in Frames, NEW m \in Nets
  PROVE  /\ f.kind = "tap" => /\ Told(f, m).net = f.net /\ Told(f, m).orig = f.orig
                              /\ Told(f, m).retry = f.retry /\ Told(f, m).ripped = f.ripped
                              /\ Told(f, m).again = f.again
                              /\ Told(f, m).ancestors = f.ancestors
         /\ Told(f, m).kind = f.kind /\ Told(f, m).stage = f.stage
<1>1. CASE f.kind # "tap"
  BY <1>1 DEF Told
<1>2. CASE f.kind = "tap"
  <2>1. f \in TapFrames
    BY <1>2 DEF Frames, NetFrames, RerouteFrames
  <2>2. PICK g : g = [f EXCEPT !.subtree = @ \cup {m}]
    OBVIOUS
  <2>3. /\ g.kind = "tap" /\ g.net = f.net /\ g.stage = f.stage /\ g.again = f.again
        /\ g.ancestors = f.ancestors /\ g.retry = f.retry /\ g.orig = f.orig
        /\ g.ripped = f.ripped
    BY <2>1, <2>2 DEF TapFrames
  <2>4. Told(f, m) = g
    BY <1>2, <2>2 DEF Told
  <2> QED
    BY <1>2, <2>3, <2>4
<1> QED
  BY <1>1, <1>2

LEMMA ToldBeneath ==
  ASSUME NEW f \in Frames, NEW g \in Frames, NEW m \in Nets, Beneath(f, g), m \notin Waiting(f)
  PROVE  Beneath(Told(f, m), Told(g, m))
<1>1. PICK F \in Frames : F = Told(f, m)
  BY ToldFits
<1>2. PICK G \in Frames : G = Told(g, m)
  BY ToldFits
<1>3. /\ Spared(F) = Spared(f) /\ Waiting(F) = Waiting(f) /\ Guarded(F) = Guarded(f)
      /\ F.kind = f.kind /\ F.stage = f.stage
      /\ f.kind = "tap" => F.subtree = f.subtree \cup {m}
      /\ f.kind # "tap" => F = f
  BY <1>1, ToldHas, ToldFits
<1>4. /\ Roots(G) = Roots(g) /\ InFlight(G) = InFlight(g)
      /\ Touched(G) \subseteq Touched(g) \cup {m} /\ G.kind = g.kind
      /\ g.kind # "tap" => G = g
  BY <1>2, ToldHas, ToldFits
<1>5. Beneath(F, G)
  <2>1. Spared(F) \subseteq Roots(G)
    BY <1>3, <1>4 DEF Beneath
  <2>2. Waiting(F) \cap Touched(G) = {}
    BY <1>3, <1>4 DEF Beneath
  <2>3. F.kind = "tap" => Touched(G) \subseteq F.subtree
    BY <1>3, <1>4 DEF Beneath
  <2>4. InFlight(G) \cap Guarded(F) = {}
    BY <1>3, <1>4 DEF Beneath
  <2>5. F.kind = "net" /\ F.stage \notin {"taps", "commit"} =>
          G.kind = "reroute" /\ G.depth = MaxRip /\ ToSet(G.items) \subseteq {F.net}
    BY <1>3, <1>4 DEF Beneath
  <2> QED
    BY <2>1, <2>2, <2>3, <2>4, <2>5 DEF Beneath
<1> QED
  BY <1>1, <1>2, <1>5

LEMMA ToldHands ==
  ASSUME NEW f \in Frames, NEW g \in Frames, NEW m \in Nets, Hands(f, g),
         g.kind = "tap" => f.kind # "tap"
  PROVE  Hands(Told(f, m), Told(g, m))
<1>1. g.kind = "tap" => Told(f, m) = f
  BY ToldHas
<1> QED
  BY <1>1, ToldFields DEF Hands

LEMMA TellStacked ==
  ASSUME Shape, stack # <<>>, Stacked, NEW f \in Frames, NEW m \in Nets, BecomeAfterRip(f, m),
         \A g \in Below : Sound(Told(g, m))' /\ Beneath(Told(g, m), Told(f, m)),
         \A g \in Below : m \notin Waiting(g), f.kind = Top.kind,
         Sound(Told(f, m))', Ready(Told(f, m))', Depth > 1 => Hands(Caller, f)
  PROVE  Stacked'
<1>1. /\ stack' \in Seq(Frames) /\ stack' # <<>> /\ Depth' = Depth
      /\ \A i \in 1..(Depth - 1) : stack'[i] = Told(stack[i], m)
      /\ stack'[Depth] = Told(f, m)
  BY Telling DEF Shape
<1>2. Depth \in Nat \ {0} /\ (Depth > 1 => Caller = stack[Depth - 1])
      /\ \A i \in 1..Depth : stack[i] \in Frames /\ Placed(i)
  BY TopIsPlaced DEF Shape, Depth
<1>3. Top' = Told(f, m)
  BY <1>1 DEF Top, Last, Depth
<1>4. \A i \in 1..Depth : i \in 1..(Depth - 1) \/ i = Depth
  BY <1>2
<1>5. ASSUME NEW i \in 1..Depth PROVE Sound(stack[i])'
  <2>1. CASE i = Depth
    BY <2>1, <1>1
  <2>2. CASE i \in 1..(Depth - 1)
    <3>1. stack'[i] = Told(stack[i], m) /\ stack[i] \in Below
      BY <2>2, <1>1 DEF Below
    <3>2. PICK g : g = stack[i]
      OBVIOUS
    <3>3. PICK h : h = Told(g, m)
      OBVIOUS
    <3>4. Sound(h)' /\ stack'[i] = h
      BY <3>1, <3>2, <3>3
    <3> QED
      BY <3>4
  <2> QED
    BY <2>1, <2>2, <1>4
<1>6. ASSUME NEW i \in 1..Depth, NEW j \in 1..Depth, i < j
      PROVE  Beneath(stack'[i], stack'[j])
  <2>1. i \in 1..(Depth - 1) /\ stack'[i] = Told(stack[i], m) /\ stack[i] \in Below
    BY <1>1, <1>2, <1>6 DEF Below
  <2>2. CASE j = Depth
    BY <2>1, <2>2, <1>1
  <2>3. CASE j \in 1..(Depth - 1)
    <3>1. stack'[j] = Told(stack[j], m) /\ Beneath(stack[i], stack[j]) /\ m \notin Waiting(stack[i])
      BY <2>1, <2>3, <1>1, <1>6 DEF Stacked
    <3> QED
      BY <2>1, <3>1, <1>2, ToldBeneath
  <2> QED
    BY <2>2, <2>3, <1>4
<1>7. ASSUME NEW i \in 2..Depth PROVE Hands(stack'[i - 1], stack'[i])
  <2>1. i - 1 \in 1..(Depth - 1) /\ stack'[i - 1] = Told(stack[i - 1], m)
        /\ stack[i - 1] \in Frames /\ Placed(i) /\ i > 1
    BY <1>1, <1>2
  <2>2. stack[i].kind = "tap" => stack[i - 1].kind # "tap"
    BY <2>1 DEF Placed, Calls
  <2>3. CASE i = Depth
    <3>1. Hands(stack[i - 1], f) /\ stack[i] = Top
      BY <2>1, <2>3, <1>2, TopIsPlaced
    <3>2. f.kind = "tap" => stack[i - 1].kind # "tap"
      BY <2>2, <3>1
    <3> QED
      BY <2>1, <2>3, <3>1, <3>2, <1>1, ToldHands
  <2>4. CASE i \in 1..(Depth - 1)
    <3>1. stack'[i] = Told(stack[i], m) /\ Hands(stack[i - 1], stack[i]) /\ stack[i] \in Frames
      BY <2>4, <1>1, <1>2 DEF Stacked
    <3> QED
      BY <2>1, <2>2, <3>1, ToldHands
  <2> QED
    BY <2>3, <2>4, <1>2
<1>8. Ready(Top)'
  BY <1>3
<1> QED
  BY <1>1, <1>5, <1>6, <1>7, <1>8 DEF Stacked

----------------------------------------------------------------------------
(* The steps on the board, each about one net.                             *)
Only(n) == \A k \in Nets \ {n} : copper'[k] = copper[k] /\ routed'[k] = routed[k]

(* The write-list is what the dictionary says.                             *)
Listed == results = {routed[k] : k \in {m \in Nets : IsRouted(m)}}

LEMMA ListIs ==
  ASSUME \A n \in Nets : IsRouted(n) => ~routed[n].existing,
         routedIds = {n \in Nets : IsRouted(n)}
  PROVE  Listed <=> results = {routed[n] : n \in {m \in routedIds : ~routed[m].existing}}
<1>1. {m \in routedIds : ~routed[m].existing} = {m \in Nets : IsRouted(m)}
  OBVIOUS
<1> QED
  BY <1>1 DEF Listed

LEMMA BoardFitsAgain ==
  ASSUME Mapped, BoardFits, NEW n \in Nets, NEW C \in SUBSET Cells, NEW res,
         res = None \/ (res \in Results /\ res.net = n /\ ~res.existing /\ res.cells \subseteq C),
         copper' = [copper EXCEPT ![n] = C], Clear(C, n),
         routed' = [routed EXCEPT ![n] = res],
         routedIds' = IF res = None THEN routedIds \ {n} ELSE routedIds \cup {n},
         remaining' = IF res = None THEN remaining \cup {n} ELSE remaining \ {n},
         results' = (results \ {routed[n]}) \cup (IF res = None THEN {} ELSE {res}),
         UNCHANGED refused
  PROVE  BoardFits' /\ Only(n) /\ copper'[n] = C /\ routed'[n] = res
<1>1. /\ copper \in [Nets -> SUBSET Cells] /\ routed \in [Nets -> Results \cup {None}]
      /\ \A k \in Nets : IsRouted(k) => routed[k].net = k
  BY DEF Mapped, BoardTypeOK
<1>2. Only(n) /\ copper'[n] = C /\ routed'[n] = res
  BY <1>1 DEF Only
<1>3. (IsRouted(n)' <=> res # None) /\ \A k \in Nets \ {n} : IsRouted(k)' <=> IsRouted(k)
  BY <1>2 DEF IsRouted, Only
<1>4. NoShort'
  BY <1>2 DEF BoardFits, NoShort, Clear, Only
<1>5. \A k \in Nets : IsRouted(k)' => ~routed'[k].existing
  BY <1>2, <1>3 DEF BoardFits, Only
<1>6. routedIds' = {k \in Nets : IsRouted(k)'}
  BY <1>3 DEF BoardFits, LedgersAgree
<1>7. remaining' = Nets \ routedIds'
  BY DEF BoardFits, LedgersAgree
<1>8. \A k \in routedIds' : routed'[k].cells \subseteq copper'[k]
  BY <1>2, <1>3, <1>6 DEF BoardFits, LedgersAgree, Only
<1>9. results = {routed[k] : k \in {m \in Nets : IsRouted(m)}}
  BY ListIs DEF BoardFits, LedgersAgree, Listed
<1>10. Listed'
  <2>1. ASSUME NEW x \in results' PROVE \E k \in Nets : IsRouted(k)' /\ x = routed'[k]
    <3>1. CASE res # None /\ x = res
      BY <3>1, <1>2, <1>3
    <3>2. CASE ~(res # None /\ x = res)
      <4>1. x \in results /\ x # routed[n]
        BY <3>2
      <4>2. PICK k \in Nets : IsRouted(k) /\ x = routed[k]
        BY <4>1, <1>9
      <4>3. k # n
        BY <4>1, <4>2
      <4> QED
        BY <4>2, <4>3, <1>2, <1>3 DEF Only
    <3> QED
      BY <3>1, <3>2
  <2>2. ASSUME NEW k \in Nets, IsRouted(k)' PROVE routed'[k] \in results'
    <3>1. CASE k = n
      BY <3>1, <2>2, <1>2, <1>3
    <3>2. CASE k # n
      <4>1. IsRouted(k) /\ routed'[k] = routed[k] /\ routed[k] \in results
        BY <3>2, <2>2, <1>2, <1>3, <1>9 DEF Only
      <4>2. routed[k] # routed[n]
        <5>1. routed[k] # None /\ routed[k].net = k /\ (routed[n] # None => routed[n].net = n)
          BY <4>1, <1>1 DEF IsRouted
        <5> QED
          BY <5>1, <3>2
      <4> QED
        BY <4>1, <4>2
    <3> QED
      BY <3>1, <3>2
  <2> QED
    BY <2>1, <2>2 DEF Listed
<1>11. (\A k \in Nets : refused[k] = None)'
  BY DEF BoardFits
<1>12. {m \in routedIds' : ~routed'[m].existing} = {m \in Nets : IsRouted(m)'}
  BY <1>5, <1>6
<1>13. LedgersAgree'
  BY <1>6, <1>7, <1>8, <1>10, <1>12 DEF LedgersAgree, Listed
<1> QED
  BY <1>2, <1>4, <1>5, <1>11, <1>13 DEF BoardFits

LEMMA RoutedFits ==
  ASSUME Mapped, BoardFits, NEW n \in Nets, IsRouted(n)
  PROVE  /\ routed[n] \in Results /\ routed[n].net = n /\ ~routed[n].existing
         /\ routed[n].cells \in SUBSET Cells /\ routed[n].cells \subseteq copper[n]
         /\ routed[n] \in results /\ n \in routedIds
<1>1. routed[n] \in Results /\ routed[n].net = n
  BY DEF Mapped, BoardTypeOK, IsRouted
<1>2. n \in routedIds /\ ~routed[n].existing
  BY DEF BoardFits, LedgersAgree
<1> QED
  BY <1>1, <1>2 DEF BoardFits, LedgersAgree, Results

(* A rip: what is left of the net is what its result did not cover.        *)
LEMMA RipFits ==
  ASSUME Mapped, BoardFits, NEW n \in Nets, IsRouted(n), RipUp(n)
  PROVE  /\ BoardFits' /\ Only(n) /\ ~IsRouted(n)'
         /\ copper'[n] = copper[n] \ routed[n].cells
         /\ Residue(n)' = Residue(n)
         /\ \A p : p = Payload(n) => Good(p, n)' /\ p.saved.cells \subseteq copper[n]
<1>1. /\ routed[n] \in Results /\ routed[n].net = n /\ ~routed[n].existing
      /\ routed[n].cells \subseteq copper[n] /\ routed[n] \in results
  BY RoutedFits
<1>2. PICK C : C = copper[n] \ routed[n].cells
  OBVIOUS
<1>3. C \in SUBSET Cells /\ Clear(C, n)
  BY <1>2 DEF Mapped, BoardTypeOK, BoardFits, NoShort, Clear
<1>4. /\ copper' = [copper EXCEPT ![n] = C] /\ routed' = [routed EXCEPT ![n] = None]
      /\ routedIds' = routedIds \ {n} /\ remaining' = remaining \cup {n}
      /\ results' = results \ {routed[n]} /\ UNCHANGED refused
  BY <1>2 DEF RipUp, Restamp
<1>5. results' = (results \ {routed[n]}) \cup {}
  BY <1>4
<1>6. BoardFits' /\ Only(n) /\ copper'[n] = C /\ routed'[n] = None
  BY <1>3, <1>4, <1>5, BoardFitsAgain
<1>7. Residue(n)' = Residue(n)
  BY <1>2, <1>6 DEF Residue, IsRouted
<1>8. ASSUME NEW p, p = Payload(n)
      PROVE  Good(p, n)' /\ p.saved.cells \subseteq copper[n]
  <2>1. p.saved = routed[n] /\ p.wasIn
    BY <1>1, <1>8 DEF Payload
  <2>2. Clear(p.saved.cells, n)
    BY <1>1, <2>1 DEF BoardFits, NoShort, Clear
  <2>3. Clear(p.saved.cells, n)'
    BY <2>2, <1>6 DEF Clear, Only
  <2> QED
    BY <1>1, <2>1, <2>3 DEF Good
<1> QED
  BY <1>2, <1>6, <1>7, <1>8 DEF IsRouted

(* A main route lands where nothing else lies.                             *)
LEMMA LandFits ==
  ASSUME Mapped, BoardFits, NEW n \in Nets, ~IsRouted(n), NEW r \in SUBSET Cells,
         Clear(r, n), NEW kept \in SUBSET Cells, Clear(kept, n), RecordSuccess(n, r, kept)
  PROVE  /\ BoardFits' /\ Only(n) /\ routed'[n] = Found(n, r) /\ IsRouted(n)'
         /\ copper'[n] = kept \cup r /\ Residue(n)' = kept \ r
<1>1. PICK res : res = Found(n, r)
  OBVIOUS
<1>2. res \in Results /\ res.net = n /\ ~res.existing /\ res.cells = r
  BY <1>1 DEF Found, Results
<1>2n. res # None
  BY <1>2, NoneIsNoResult
<1>3. PICK C : C = kept \cup r
  OBVIOUS
<1>4. C \in SUBSET Cells /\ Clear(C, n)
  BY <1>3 DEF Mapped, BoardTypeOK, BoardFits, NoShort, Clear
<1>5. /\ copper' = [copper EXCEPT ![n] = C] /\ routed' = [routed EXCEPT ![n] = res]
      /\ routedIds' = routedIds \cup {n} /\ remaining' = remaining \ {n}
      /\ results' = results \cup {res} /\ UNCHANGED refused
  BY <1>1, <1>3 DEF RecordSuccess, Restamp, Books
<1>6. routed[n] = None /\ None \notin results
  BY NoneIsNoResult DEF IsRouted, Mapped, BoardTypeOK
<1>7. results' = (results \ {routed[n]}) \cup {res}
  BY <1>5, <1>6
<1>7a. /\ routedIds' = IF res = None THEN routedIds \ {n} ELSE routedIds \cup {n}
       /\ remaining' = IF res = None THEN remaining \cup {n} ELSE remaining \ {n}
       /\ results' = (results \ {routed[n]}) \cup (IF res = None THEN {} ELSE {res})
  BY <1>2n, <1>5, <1>7
<1>7b. res.cells \subseteq C
  BY <1>2, <1>3
<1>8. BoardFits' /\ Only(n) /\ copper'[n] = C /\ routed'[n] = res
  BY ONLY Mapped, BoardFits, n \in Nets, <1>2, <1>4, <1>5, <1>7a, <1>7b, BoardFitsAgain
<1>9. IsRouted(n)' /\ Residue(n)' = kept \ r
  BY <1>2, <1>2n, <1>3, <1>6, <1>8 DEF Residue, IsRouted
<1> QED
  BY <1>1, <1>3, <1>8, <1>9

(* Taps join the result they were found for.                               *)
LEMMA CommitFits ==
  ASSUME Mapped, BoardFits, NEW n \in Nets, IsRouted(n), NEW taps \in Taps,
         Clear(taps.cells, n), NEW known, known.net = n, NEW base, base = routed[n],
         CommitTaps(n, taps, known, base)
  PROVE  /\ BoardFits' /\ Only(n) /\ IsRouted(n)'
         /\ copper'[n] = copper[n] \cup taps.cells /\ Residue(n)' \subseteq Residue(n)
<1>1. /\ routed[n] \in Results /\ routed[n].net = n /\ ~routed[n].existing
      /\ routed[n].cells \subseteq copper[n] /\ routed[n].cells \in SUBSET Cells
      /\ taps.cells \in SUBSET Cells
  BY RoutedFits DEF Taps
<1>2. PICK res : res = Found(n, base.cells \cup taps.cells)
  OBVIOUS
<1>3. /\ res \in Results /\ res.net = n /\ ~res.existing
      /\ res.cells = routed[n].cells \cup taps.cells
  <2>1. base.cells \cup taps.cells \in SUBSET Cells
    BY <1>1
  <2> QED
    BY <1>2, <2>1 DEF Found, Results
<1>3n. res # None
  BY <1>3, NoneIsNoResult
<1>4. PICK C : C = copper[n] \cup taps.cells
  OBVIOUS
<1>5. C \in SUBSET Cells /\ Clear(C, n) /\ res.cells \subseteq C
  BY <1>1, <1>3, <1>4 DEF Mapped, BoardTypeOK, BoardFits, NoShort, Clear
<1>6. /\ copper' = [copper EXCEPT ![n] = C] /\ routed' = [routed EXCEPT ![n] = res]
      /\ routedIds' = routedIds /\ remaining' = remaining
      /\ results' = (results \ {known, routed[n]}) \cup {res} /\ UNCHANGED refused
  BY <1>2, <1>4 DEF CommitTaps, CommitResult, Restamp
<1>7. n \in routedIds /\ n \notin remaining
  BY DEF BoardFits, LedgersAgree
<1>8. routedIds' = routedIds \cup {n} /\ remaining' = remaining \ {n}
  BY <1>6, <1>7
<1>9. known \in results => known = routed[n]
  <2>1. results = {routed[k] : k \in {m \in Nets : IsRouted(m)}}
    BY ListIs DEF BoardFits, LedgersAgree, Listed
  <2>2. \A k \in Nets : IsRouted(k) => routed[k].net = k
    BY DEF Mapped, BoardTypeOK
  <2> QED
    BY <2>1, <2>2
<1>10. results' = (results \ {routed[n]}) \cup {res}
  BY <1>6, <1>9
<1>10a. /\ routedIds' = IF res = None THEN routedIds \ {n} ELSE routedIds \cup {n}
        /\ remaining' = IF res = None THEN remaining \cup {n} ELSE remaining \ {n}
        /\ results' = (results \ {routed[n]}) \cup (IF res = None THEN {} ELSE {res})
  BY <1>3n, <1>8, <1>10
<1>11. BoardFits' /\ Only(n) /\ copper'[n] = C /\ routed'[n] = res
  BY ONLY Mapped, BoardFits, n \in Nets, <1>3, <1>5, <1>6, <1>10a, BoardFitsAgain
<1>12. IsRouted(n)' /\ Residue(n)' \subseteq Residue(n)
  BY <1>3, <1>3n, <1>4, <1>11 DEF Residue, IsRouted
<1> QED
  BY <1>4, <1>11, <1>12

(* A good payload goes back: its corridor is free.                         *)
LEMMA RestoreFits ==
  ASSUME Mapped, BoardFits, NEW n \in Nets, ~IsRouted(n), NEW p \in Payloads,
         p.saved.net = n, Good(p, n), RestoreNet(n, p)
  PROVE  /\ BoardFits' /\ Only(n) /\ routed'[n] = p.saved /\ IsRouted(n)'
         /\ copper'[n] = copper[n] \cup p.saved.cells /\ Residue(n)' \subseteq Residue(n)
<1>1. PICK res : res = p.saved
  OBVIOUS
<1>2. /\ res \in Results /\ res.net = n /\ ~res.existing /\ res # None
      /\ res.cells \in SUBSET Cells /\ p.wasIn
  BY <1>1, NoneIsNoResult DEF Payloads, Results, Good
<1>3. ~Collides(n, res.cells)
  BY <1>1 DEF Good, Clear, Collides, OthersCopper
<1>4. PICK C : C = copper[n] \cup res.cells
  OBVIOUS
<1>5. C \in SUBSET Cells /\ Clear(C, n)
  BY <1>1, <1>2, <1>4 DEF Mapped, BoardTypeOK, BoardFits, NoShort, Clear, Good
<1>6. /\ copper' = [copper EXCEPT ![n] = C] /\ routed' = [routed EXCEPT ![n] = res]
      /\ routedIds' = routedIds \cup {n} /\ remaining' = remaining \ {n}
      /\ results' = results \cup {res} /\ UNCHANGED refused
  BY <1>1, <1>2, <1>3, <1>4 DEF RestoreNet, Restamp, Books
<1>7. routed[n] = None /\ None \notin results
  BY NoneIsNoResult DEF IsRouted, Mapped, BoardTypeOK
<1>8. results' = (results \ {routed[n]}) \cup {res}
  BY <1>6, <1>7
<1>9. BoardFits' /\ Only(n) /\ copper'[n] = C /\ routed'[n] = res
  BY <1>2, <1>4, <1>5, <1>6, <1>8, BoardFitsAgain
<1>10. IsRouted(n)' /\ Residue(n)' \subseteq Residue(n)
  BY <1>2, <1>4, <1>7, <1>9 DEF Residue, IsRouted
<1> QED
  BY <1>1, <1>4, <1>9, <1>10

(* What a search returns lies on no copper and in no guard.                *)
LEMMA SearchAvoids ==
  ASSUME CallsInv, NEW n \in Nets, NEW cells \in SUBSET Cells,
         NEW own, cells \cap (own \cup BlockedRows(PreparedMap(n))) = {}
  PROVE  /\ Clear(cells, n) /\ cells \cap own = {}
         /\ \A i \in 1..Depth : cells \cap Guarded(stack[i]) = {}
<1>1. Shape /\ Mapped /\ MapAccounts
  BY CallsAre
<1>2. ASSUME NEW m \in Nets \ {n}, NEW c \in cells PROVE c \notin copper[m]
  BY <1>1, <1>2, FreeRowsAreFree DEF Mapped
<1>3. ASSUME NEW i \in 1..Depth, NEW c \in cells PROVE c \notin Guarded(stack[i])
  <2> SUFFICES ASSUME c \in Guarded(stack[i]) PROVE FALSE
    OBVIOUS
  <2>1. i \in DOMAIN stack /\ stack \in Seq(Frames)
    BY <1>1 DEF Shape, Depth
  <2>2. i \in Guards(c) /\ IsFiniteSet(Guards(c)) /\ Cardinality(Guards(c)) \in Nat
    BY <2>1, GuardsAreCounted DEF Guards
  <2>3. Cardinality(Guards(c)) # 0
    BY <2>2, FS_EmptySet
  <2>4. work[c] = Cardinality(Stampers(c)) + Cardinality(Guards(c)) /\ c \in Cells
    BY <1>1 DEF MapAccounts, Guards
  <2>5. /\ IsFiniteSet(Stampers(c)) /\ Cardinality(Stampers(c)) \in Nat
        /\ c \in cache[n] => Cardinality(Stampers(c)) # 0
    <3>1. c \in cache[n] => n \in Stampers(c)
      BY DEF Stampers
    <3> QED
      BY <3>1, StampersAreCounted, FS_EmptySet
  <2>6. work \in [Cells -> Nat]
    BY <1>1 DEF Mapped, BoardTypeOK
  <2>7. PreparedMap(n)[c] > 0
    <3>1. PreparedMap(n)[c] = IF c \in cache[n] /\ work[c] > 0 THEN work[c] - 1 ELSE work[c]
      BY <2>4, <2>6 DEF PreparedMap, RemoveRows
    <3> QED
      BY <3>1, <2>2, <2>3, <2>4, <2>5
  <2>8. c \in DOMAIN PreparedMap(n)
    BY <2>4, <2>6 DEF PreparedMap, RemoveRows
  <2> QED
    BY <2>7, <2>8 DEF BlockedRows
<1> QED
  BY <1>2, <1>3 DEF Clear

(* A moved stub was checked against the board.                             *)
LEMMA SwitchedIsClear ==
  ASSUME Mapped, BoardFits, NEW n \in Nets, NEW kept \in {copper[n]} \cup SwitchedCopper(n)
  PROVE  kept \in SUBSET Cells /\ Clear(kept, n)
<1>1. kept \in SUBSET Cells
  BY SwitchedIsCopper DEF Mapped, BoardTypeOK
<1>2. \A m \in Nets \ {n} : copper[n] \cap copper[m] = {}
  BY DEF BoardFits, NoShort
<1>3. CASE kept = copper[n]
  BY <1>1, <1>2, <1>3 DEF Clear
<1>4. CASE kept \in SwitchedCopper(n)
  <2>1. PICK p \in StubPlaces(n), q \in StubSites[n] :
          ~Collides(n, q) /\ kept = (copper[n] \ p) \cup q
    BY <1>4 DEF SwitchedCopper
  <2>2. \A m \in Nets \ {n} : q \cap copper[m] = {}
    BY <2>1 DEF Collides, OthersCopper
  <2> QED
    BY <1>1, <1>2, <2>1, <2>2 DEF Clear
<1> QED
  BY <1>1, <1>3, <1>4

----------------------------------------------------------------------------
(* What a step about one net leaves of the other calls.                    *)
LEMMA SoundStays ==
  ASSUME NEW g \in Frames, Fits(g), Sound(g), g.stage # "undone", NEW n \in Nets, Only(n),
         n \notin Spared(g), n \notin Waiting(g),
         g.kind = "tap" => n \in g.subtree /\ Residue(n)' \cap g.orig.cells \subseteq Residue(n),
         g.stage \in {"arbitrate", "settled"} => copper'[n] \cap Guarded(g) = {},
         g.kind = "reroute" /\ Rips(g) => n # g.items[1],
         g.kind = "net" /\ g.stage = "reasked" => n = g.net
  PROVE  Sound(g)'
<1>1. \A k \in Nets \ {n} : /\ copper'[k] = copper[k] /\ routed'[k] = routed[k]
                            /\ IsRouted(k)' <=> IsRouted(k)
                            /\ Residue(k)' = Residue(k)
  BY DEF Only, IsRouted, Residue
<1>2. CASE g.kind = "net"
  <2>1. NetSound(g) /\ g.net \in Nets /\ g.stage \in Stages.net
    BY <1>2 DEF Sound, Fits, NetFits, NetFrames
  <2>2. g.stage \in {"taps", "commit"} => routed'[g.net] = g.lm
    BY <2>1, <1>1, <1>2 DEF NetSound, Spared
  <2>3. g.stage = "reask" => IsRouted(g.net)'
    BY <2>1, <1>1, <1>2 DEF NetSound, Spared
  <2>4. g.stage \in {"reasked", "undone"} => Good(g.saved, g.net)'
    BY <2>1, <1>1, <1>2 DEF NetSound, Good, Clear
  <2>5. NetSound(g)'
    BY <2>2, <2>3, <2>4 DEF NetSound
  <2> QED
    BY <2>5, <1>2 DEF Sound
<1>3. CASE g.kind = "tap"
  <2>1. TapSound(g) /\ g.net \in Nets /\ n # g.net
    BY <1>3 DEF Sound, Fits, TapFits, TapFrames, Spared, Roots
  <2>2. IsRouted(g.net)'
    BY <2>1, <1>1 DEF TapSound
  <2>3. \A m \in Nets \ {g.net} : /\ g.orig.cells \cap Residue(m)' = {}
                                  /\ m \notin g.subtree => g.orig.cells \cap copper'[m] = {}
    BY <2>1, <1>1, <1>3 DEF TapSound
  <2>4. g.stage = "arbitrate" => Clear(g.retry.cells, g.net)'
    BY <2>1, <1>1, <1>3 DEF TapSound, Clear, Guarded
  <2>5. g.stage = "settled" => Clear(g.orig.cells, g.net)'
    BY <2>1, <1>1, <1>3 DEF TapSound, Clear, Guarded
  <2>6. TapSound(g)'
    BY <2>1, <2>2, <2>3, <2>4, <2>5 DEF TapSound
  <2> QED
    BY <2>6, <1>3 DEF Sound
<1>4. CASE g.kind = "reroute"
  <2>1. RerouteSound(g) /\ g.items \in Seq(Nets) /\ (g.stage # "item" => g.items # <<>>)
    BY <1>4 DEF Sound, Fits, RerouteFits, RerouteFrames
  <2>2. g.items # <<>> => g.items[1] \in Nets
    BY <2>1
  <2>3. Waiting(g) \subseteq Nets
    <3>1. Tail(g.items) \in Seq(Nets) \/ g.stage = "item"
      BY <2>1
    <3>2. ToDo(g) \in Seq(Nets)
      BY <3>1, <2>1 DEF ToDo
    <3> QED
      BY <3>2, <1>4 DEF Waiting, ToSet
  <2>4. \A k \in Waiting(g) : ~IsRouted(k)'
    BY <2>1, <2>3, <1>1 DEF RerouteSound
  <2>5. g.stage \in {"taps", "commit"} => routed'[g.items[1]] = g.main
    BY <2>1, <2>2, <1>1, <1>4 DEF RerouteSound, Spared
  <2>6. g.stage \in {"level", "retry", "unwind"} => ~IsRouted(g.items[1])'
    BY <2>1, <2>2, <1>1, <1>4 DEF RerouteSound, Rips
  <2>7. RerouteSound(g)'
    BY <2>1, <2>4, <2>5, <2>6 DEF RerouteSound
  <2> QED
    BY <2>7, <1>4 DEF Sound
<1>5. g.kind \in {"net", "tap", "reroute"}
  BY DEF Frames, NetFrames, TapFrames, RerouteFrames
<1> QED
  BY <1>2, <1>3, <1>4, <1>5

LEMMA SoundSame ==
  ASSUME NEW g, UNCHANGED <<copper, routed>>
  PROVE  (Sound(g)' <=> Sound(g)) /\ (Ready(g)' <=> Ready(g))
  BY DEF Sound, NetSound, TapSound, RerouteSound, Ready, HeldFits, Good, Clear, Residue,
         IsRouted

----------------------------------------------------------------------------
(* What a step of the innermost call leaves to the calls below.            *)

BooksSame == UNCHANGED <<copper, routed, routedIds, results, remaining, refused>>

(* f takes the place of h: the same work, or less of it.                   *)
Succeeds(f, h) ==
  /\ f.kind = h.kind
  /\ Roots(f) = Roots(h)
  /\ f.kind = "tap" => f.orig = h.orig /\ f.net = h.net
  /\ f.kind = "reroute" => f.depth = h.depth /\ ToSet(f.items) \subseteq ToSet(h.items)

LEMMA BooksKept ==
  ASSUME BoardFits, BooksSame
  PROVE  BoardFits'
  BY DEF BoardFits, BooksSame, NoShort, LedgersAgree, IsRouted

LEMMA CascadeIs ==
  ASSUME CascadeInv
  PROVE  Shape /\ Lined /\ Mapped /\ MapAccounts /\ CallsInv /\ BoardFits /\ Stacked
  BY CallsAre DEF CascadeInv

LEMMA CallersAre ==
  ASSUME Shape, stack # <<>>, NEW g \in Below
  PROVE  /\ g \in Frames /\ Fits(g)
         /\ \E i \in 1..Depth : g = stack[i]
         /\ g.kind = "net" => g.stage \in {"commit", "reasked"}
         /\ g.kind = "tap" => g.stage \in {"arbitrate", "settled"}
         /\ g.kind = "reroute" => g.stage \in {"commit", "taps"}
<1>1. PICK i \in 1..(Depth - 1) : g = stack[i]
  BY DEF Below
<1>2. Depth \in Nat \ {0}
  BY TopIsPlaced
<1>3. i \in 1..Depth /\ i + 1 \in 1..Depth /\ i + 1 > 1 /\ (i + 1) - 1 = i
  BY <1>2
<1>4. g \in Frames /\ Fits(g) /\ Calls(g, stack[i + 1]) /\ stack[i + 1] \in Frames
  BY <1>1, <1>3 DEF Shape, Placed, Depth
<1>5. stack[i + 1].kind \in {"net", "tap", "reroute"}
  BY <1>4 DEF Frames, NetFrames, TapFrames, RerouteFrames
<1> QED
  BY <1>1, <1>3, <1>4, <1>5 DEF Calls

(* A search that a re-asked tree opened has no rip-ups.                    *)
LEMMA NoRipsWhenReasked ==
  ASSUME Shape, stack # <<>>, Stacked, NEW g \in Below, g.kind = "net", g.stage = "reasked"
  PROVE  /\ Top.kind = "reroute" /\ Top.depth = MaxRip /\ ToSet(Top.items) \subseteq {g.net}
         /\ ~Rips(Top) /\ Top.nested = <<>>
<1>1. Beneath(g, Top) /\ Top \in Frames /\ Fits(Top)
  BY BelowFacts, TopIsPlaced
<1>2. Top.kind = "reroute" /\ Top.depth = MaxRip /\ ToSet(Top.items) \subseteq {g.net}
  BY <1>1 DEF Beneath
<1>3. RerouteFits(Top)
  BY <1>1, <1>2 DEF Fits
<1>4. ~(Top.depth < MaxRip)
  BY <1>2, OrderFacts
<1> QED
  BY <1>2, <1>3, <1>4 DEF RerouteFits, Rips

LEMMA BeneathStays ==
  ASSUME NEW g, NEW h, NEW f, Beneath(g, h), Succeeds(f, h), Touched(f) \subseteq Touched(h),
         InFlight(f) \cap Guarded(g) = {}
  PROVE  Beneath(g, f)
  BY DEF Beneath, Succeeds

LEMMA BeneathTold ==
  ASSUME NEW g \in Frames, NEW h \in Frames, NEW f \in Frames, NEW m \in Nets,
         Beneath(g, h), Succeeds(f, h), Touched(f) \subseteq Touched(h) \cup {m},
         InFlight(f) \cap Guarded(g) = {}, m \notin Waiting(g)
  PROVE  Beneath(Told(g, m), Told(f, m))
<1>1. PICK F \in Frames : F = Told(f, m)
  BY ToldFits
<1>2. PICK G \in Frames : G = Told(g, m)
  BY ToldFits
<1>3. /\ Spared(G) = Spared(g) /\ Waiting(G) = Waiting(g) /\ Guarded(G) = Guarded(g)
      /\ G.kind = g.kind /\ G.stage = g.stage
      /\ g.kind = "tap" => G.subtree = g.subtree \cup {m}
      /\ g.kind # "tap" => G = g
  BY <1>2, ToldHas, ToldFits
<1>4. /\ Roots(F) = Roots(h) /\ InFlight(F) = InFlight(f)
      /\ Touched(F) \subseteq Touched(h) \cup {m} /\ F.kind = h.kind
      /\ f.kind # "tap" => F = f
  BY <1>1, ToldHas, ToldFits DEF Succeeds
<1>5. Beneath(G, F)
  <2>1. Spared(G) \subseteq Roots(F)
    BY <1>3, <1>4 DEF Beneath
  <2>2. Waiting(G) \cap Touched(F) = {}
    BY <1>3, <1>4 DEF Beneath
  <2>3. G.kind = "tap" => Touched(F) \subseteq G.subtree
    BY <1>3, <1>4 DEF Beneath
  <2>4. InFlight(F) \cap Guarded(G) = {}
    BY <1>3, <1>4
  <2>5. G.kind = "net" /\ G.stage \notin {"taps", "commit"} =>
          F.kind = "reroute" /\ F.depth = MaxRip /\ ToSet(F.items) \subseteq {G.net}
    BY <1>3, <1>4 DEF Beneath, Succeeds
  <2> QED
    BY <2>1, <2>2, <2>3, <2>4, <2>5 DEF Beneath
<1> QED
  BY <1>1, <1>2, <1>5

(* The copper of a net that may move is in no guard of a call below.       *)
LEMMA GuardsAreClear ==
  ASSUME Shape, stack # <<>>, Stacked, NEW m \in Nets, m \notin Roots(Top), NEW g \in Below
  PROVE  copper[m] \cap Guarded(g) = {}
<1>1. Sound(g) /\ Beneath(g, Top) /\ Fits(g) /\ g \in Frames
  BY BelowFacts
<1>2. CASE g.kind = "tap"
  <2>1. TapSound(g) /\ m # g.net
    BY <1>1, <1>2 DEF Sound, Beneath, Spared, Roots
  <2>2. g.stage \in {"arbitrate", "settled"}
    BY <1>2, CallersAre
  <2> QED
    BY <1>2, <2>1, <2>2 DEF TapSound, Clear, Guarded
<1>3. CASE g.kind # "tap"
  BY <1>3 DEF Guarded
<1> QED
  BY <1>2, <1>3

(* A step about a net the innermost call may touch leaves the others sound. *)
LEMMA OthersStaySound ==
  ASSUME Shape, stack # <<>>, Stacked, NEW n \in Nets, Only(n),
         n \in Touched(Top), n \notin Roots(Top),
         NEW g \in Below, g.kind = "tap" => Residue(n)' \cap g.orig.cells \subseteq Residue(n),
         copper'[n] \cap Guarded(g) = {},
         g.kind = "net" /\ g.stage = "reasked" => n = g.net
  PROVE  Sound(g)'
<1>1. g \in Frames /\ Fits(g) /\ Sound(g) /\ Beneath(g, Top)
  BY BelowFacts
<1>2. /\ g.kind = "net" => g.stage \in {"commit", "reasked"}
      /\ g.kind = "tap" => g.stage \in {"arbitrate", "settled"}
      /\ g.kind = "reroute" => g.stage \in {"commit", "taps"}
      /\ g.kind \in {"net", "tap", "reroute"}
  BY <1>1, CallersAre DEF Frames, NetFrames, TapFrames, RerouteFrames
<1>3. n \notin Spared(g) /\ n \notin Waiting(g) /\ (g.kind = "tap" => n \in g.subtree)
  BY <1>1 DEF Beneath
<1>4. g.stage # "undone" /\ (g.kind = "reroute" => ~Rips(g))
  BY <1>2 DEF Rips
<1> QED
  BY <1>1, <1>3, <1>4, SoundStays

LEMMA OthersSound ==
  ASSUME Shape, stack # <<>>, Stacked, NEW n \in Nets, Only(n),
         n \in Touched(Top), n \notin Roots(Top), Residue(n)' \subseteq Residue(n),
         NEW g \in Below, copper'[n] \cap Guarded(g) = {},
         g.kind = "net" /\ g.stage = "reasked" => n = g.net
  PROVE  Sound(g)'
<1>1. Residue(n)' \cap g.orig.cells \subseteq Residue(n)
  OBVIOUS
<1> QED
  BY <1>1, OthersStaySound

LEMMA ToldSound ==
  ASSUME NEW g \in Frames, Fits(g), Sound(g), NEW m \in Nets, m \notin Roots(g)
  PROVE  Sound(Told(g, m))
<1>1. CASE g.kind # "tap"
  BY <1>1 DEF Told
<1>2. CASE g.kind = "tap"
  <2>1. PICK f : f = Told(g, m)
    OBVIOUS
  <2>2. /\ f.kind = "tap" /\ f.stage = g.stage /\ f.net = g.net /\ f.orig = g.orig
        /\ f.retry = g.retry /\ f.ripped = g.ripped /\ f.again = g.again
        /\ Roots(f) = Roots(g) /\ f.subtree = g.subtree \cup {m}
    BY <1>2, <2>1, ToldFields, ToldHas
  <2>3. TapSound(g)
    BY <1>2 DEF Sound
  <2>4. TapSound(f)
    BY <2>2, <2>3 DEF TapSound
  <2> QED
    BY <2>1, <2>2, <2>4 DEF Sound
<1> QED
  BY <1>1, <1>2

(* A rip leaves the calls below sound, once they are told.                 *)
LEMMA ToldStaySound ==
  ASSUME Shape, stack # <<>>, Stacked, Mapped, BoardFits, NEW m \in Nets, IsRouted(m),
         RipUp(m), m \notin Roots(Top), Rips(Top) \/ Top.kind = "tap", NEW g \in Below
  PROVE  Sound(Told(g, m))' /\ m \notin Waiting(g)
<1>1. g \in Frames /\ Fits(g) /\ Sound(g) /\ Beneath(g, Top)
  BY BelowFacts
<1>2. /\ g.kind = "net" => g.stage \in {"commit", "reasked"}
      /\ g.kind = "tap" => g.stage \in {"arbitrate", "settled"}
      /\ g.kind = "reroute" => g.stage \in {"commit", "taps"}
      /\ g.kind \in {"net", "tap", "reroute"}
  BY <1>1, CallersAre DEF Frames, NetFrames, TapFrames, RerouteFrames
<1>3. ~(g.kind = "net" /\ g.stage = "reasked")
  BY NoRipsWhenReasked
<1>4. m \notin Spared(g) /\ m \notin Roots(g)
  BY <1>1 DEF Beneath, Spared
<1>5. m \notin Waiting(g)
  <2>1. g.kind = "reroute" => RerouteSound(g)
    BY <1>1 DEF Sound
  <2> QED
    BY <2>1 DEF RerouteSound, Waiting
<1>6. /\ Only(m) /\ Residue(m)' \subseteq Residue(m) /\ copper'[m] \subseteq copper[m]
  BY RipFits
<1>7. PICK f \in Frames : f = Told(g, m)
  BY <1>1, ToldFits
<1>8. /\ Fits(f) /\ Sound(f) /\ f.kind = g.kind /\ f.stage = g.stage
      /\ Guarded(f) = Guarded(g)
  BY <1>1, <1>4, <1>7, ToldFits, ToldSound
<1>9. /\ Spared(f) = Spared(g) /\ Waiting(f) = Waiting(g)
      /\ f.kind = "tap" => m \in f.subtree
  BY <1>1, <1>7, <1>8, ToldHas
<1>10. copper'[m] \cap Guarded(f) = {}
  BY <1>6, <1>8, GuardsAreClear
<1>11. f.stage # "undone" /\ (f.kind = "reroute" => ~Rips(f))
  BY <1>2, <1>8 DEF Rips
<1>11r. Residue(m)' \cap f.orig.cells \subseteq Residue(m)
  BY <1>6
<1>12. Sound(f)'
  BY <1>3, <1>4, <1>5, <1>6, <1>8, <1>9, <1>10, <1>11, <1>11r, SoundStays
<1> QED
  BY <1>5, <1>7, <1>12

(* The victims in hand: one more, one less.                                *)
LEMMA HeldMore ==
  ASSUME Mapped, BoardFits, NEW s \in Seq(Loads), HeldFits(s), NEW m \in Nets, IsRouted(m),
         RipUp(m), NEW q, q = Append(s, Victim(m))
  PROVE  /\ HeldFits(q)' /\ Carried(q) \subseteq Carried(s) \cup copper[m]
         /\ ToSet(NetsOf(q)) \subseteq ToSet(NetsOf(s)) \cup {m}
         /\ m \notin ToSet(NetsOf(s))
<1>1. /\ Only(m) /\ ~IsRouted(m)' /\ copper'[m] \subseteq copper[m]
      /\ \A p : p = Payload(m) => Good(p, m)' /\ p.saved.cells \subseteq copper[m]
  BY RipFits
<1>2. PICK p : p = Payload(m)
  OBVIOUS
<1>3. PICK v : v = Victim(m)
  OBVIOUS
<1>4. v.net = m /\ v.payload = p /\ Good(p, m)' /\ p.saved.cells \subseteq copper[m]
      /\ v \in Loads
  BY <1>1, <1>2, <1>3, VictimFits DEF Victim
<1>5. /\ DOMAIN s = 1..Len(s) /\ Len(s) \in Nat /\ q = Append(s, v)
      /\ DOMAIN q = 1..(Len(s) + 1) /\ q[Len(s) + 1] = v
      /\ \A i \in 1..Len(s) : q[i] = s[i]
  BY <1>3, <1>4
<1>6. \A i \in DOMAIN q : i \in DOMAIN s \/ i = Len(s) + 1
  BY <1>5
<1>7. \A i \in DOMAIN s : s[i] \in Loads /\ s[i].net \in Nets /\ s[i].net # m
  <2>1. \A i \in DOMAIN s : ~IsRouted(s[i].net)
    BY DEF HeldFits
  <2>2. \A i \in DOMAIN s : s[i] \in Loads
    OBVIOUS
  <2> QED
    BY <2>1, <2>2 DEF Loads
<1>8. ASSUME NEW i \in DOMAIN s
      PROVE  /\ ~IsRouted(s[i].net)' /\ Good(s[i].payload, s[i].net)'
             /\ s[i].payload.saved.cells \cap p.saved.cells = {}
  <2>1. ~IsRouted(s[i].net) /\ Good(s[i].payload, s[i].net)
    BY DEF HeldFits
  <2>2. ~IsRouted(s[i].net)'
    BY <2>1, <1>1, <1>7 DEF Only, IsRouted
  <2>3. PICK n \in Nets : n = s[i].net
    BY <1>7
  <2>4. PICK P : P = s[i].payload
    OBVIOUS
  <2>5. Good(P, n) /\ n # m
    BY <2>1, <2>3, <2>4, <1>7
  <2>6. Good(P, n)'
    BY <2>5, <1>1 DEF Good, Clear, Only
  <2>7. P.saved.cells \cap p.saved.cells = {}
    BY <2>5, <1>4 DEF Good, Clear
  <2> QED
    BY <2>2, <2>3, <2>4, <2>6, <2>7
<1>9. HeldFits(q)'
  <2>1. ASSUME NEW i \in DOMAIN q PROVE ~IsRouted(q[i].net)' /\ Good(q[i].payload, q[i].net)'
    <3>1. CASE i \in DOMAIN s
      <4>1. q[i] = s[i] /\ ~IsRouted(s[i].net)' /\ Good(s[i].payload, s[i].net)'
        BY <3>1, <1>5, <1>8
      <4> QED
        BY <4>1
    <3>2. CASE i = Len(s) + 1
      <4>1. q[i].net = m /\ q[i].payload = p
        BY <3>2, <1>4, <1>5
      <4> QED
        BY <4>1, <1>1, <1>4
    <3> QED
      BY <3>1, <3>2, <1>6
  <2>2. ASSUME NEW i \in DOMAIN q, NEW j \in DOMAIN q, i # j
        PROVE  /\ q[i].net # q[j].net
               /\ q[i].payload.saved.cells \cap q[j].payload.saved.cells = {}
    <3>1. CASE i \in DOMAIN s /\ j \in DOMAIN s
      BY <3>1, <2>2, <1>5 DEF HeldFits
    <3>2. CASE i \in DOMAIN s /\ j = Len(s) + 1
      BY <3>2, <1>4, <1>5, <1>7, <1>8
    <3>3. CASE i = Len(s) + 1 /\ j \in DOMAIN s
      BY <3>3, <1>4, <1>5, <1>7, <1>8
    <3> QED
      BY <3>1, <3>2, <3>3, <2>2, <1>6
  <2> QED
    BY <2>1, <2>2 DEF HeldFits
<1>10. Carried(q) \subseteq Carried(s) \cup copper[m]
  BY <1>4, <1>5, <1>6 DEF Carried
<1>11. ToSet(NetsOf(q)) \subseteq ToSet(NetsOf(s)) \cup {m}
  BY <1>4, <1>5, <1>6 DEF ToSet, NetsOf
<1>12. m \notin ToSet(NetsOf(s))
  BY <1>7 DEF ToSet, NetsOf
<1> QED
  BY <1>9, <1>10, <1>11, <1>12

LEMMA HeldLess ==
  ASSUME Mapped, BoardFits, NEW s \in Seq(Loads), s # <<>>, HeldFits(s),
         NEW v, v = Last(s), RestoreNet(v.net, v.payload)
  PROVE  /\ BoardFits' /\ Only(v.net) /\ v.net \in Nets /\ v.net \in ToSet(NetsOf(s))
         /\ copper'[v.net] = copper[v.net] \cup v.payload.saved.cells
         /\ Residue(v.net)' \subseteq Residue(v.net)
         /\ v.payload.saved.cells \subseteq Carried(s)
         /\ HeldFits(Front(s))' /\ Carried(Front(s)) \subseteq Carried(s)
         /\ ToSet(NetsOf(Front(s))) \subseteq ToSet(NetsOf(s))
<1>1. /\ DOMAIN s = 1..Len(s) /\ Len(s) \in Nat \ {0} /\ v = s[Len(s)]
      /\ Front(s) \in Seq(Loads) /\ DOMAIN Front(s) = 1..(Len(s) - 1)
      /\ \A i \in 1..(Len(s) - 1) : Front(s)[i] = s[i]
  BY FrontFacts DEF Last
<1>2. Len(s) \in DOMAIN s /\ \A i \in DOMAIN s : s[i] \in Loads
  BY <1>1
<1>3. /\ v \in Loads /\ v.net \in Nets /\ v.payload \in Payloads /\ v.payload.saved.net = v.net
      /\ ~IsRouted(v.net) /\ Good(v.payload, v.net)
  BY <1>1, <1>2 DEF HeldFits, Loads
<1>4. PICK n \in Nets : n = v.net
  BY <1>3
<1>5. PICK p \in Payloads : p = v.payload
  BY <1>3
<1>6. /\ BoardFits' /\ Only(n) /\ copper'[n] = copper[n] \cup p.saved.cells
      /\ Residue(n)' \subseteq Residue(n)
  BY <1>3, <1>4, <1>5, RestoreFits
<1>7. ASSUME NEW i \in 1..(Len(s) - 1)
      PROVE  /\ i \in DOMAIN s /\ ~IsRouted(s[i].net)' /\ Good(s[i].payload, s[i].net)'
  <2>0. PICK l \in Nat : l = Len(s)
    BY <1>1
  <2>1. i \in DOMAIN s /\ i # Len(s)
    <3>1. i \in 1..(l - 1) /\ DOMAIN s = 1..l
      BY <2>0, <1>1
    <3>2. i \in 1..l /\ i # l
      BY ONLY <3>1, l \in Nat
    <3> QED
      BY ONLY <2>0, <3>1, <3>2
  <2>2. PICK k \in Nets : k = s[i].net
    BY <2>1, <1>2 DEF Loads
  <2>3. PICK P : P = s[i].payload
    OBVIOUS
  <2>4. /\ ~IsRouted(k) /\ Good(P, k) /\ k # n
        /\ P.saved.cells \cap p.saved.cells = {}
    BY <2>1, <2>2, <2>3, <1>1, <1>2, <1>4, <1>5 DEF HeldFits
  <2>5. ~IsRouted(k)'
    BY <2>4, <1>6 DEF Only, IsRouted
  <2>6. Good(P, k)'
    BY <2>4, <1>6 DEF Good, Clear, Only
  <2> QED
    BY <2>1, <2>2, <2>3, <2>5, <2>6
<1>8. PICK q : q = Front(s)
  OBVIOUS
<1>9. HeldFits(q)'
  <2>1. ASSUME NEW i \in DOMAIN q PROVE ~IsRouted(q[i].net)' /\ Good(q[i].payload, q[i].net)'
    <3>1. i \in 1..(Len(s) - 1) /\ q[i] = s[i]
      BY <1>1, <1>8
    <3>2. ~IsRouted(s[i].net)' /\ Good(s[i].payload, s[i].net)'
      BY <3>1, <1>7
    <3> QED
      BY <3>1, <3>2
  <2>2. ASSUME NEW i \in DOMAIN q, NEW j \in DOMAIN q, i # j
        PROVE  /\ q[i].net # q[j].net
               /\ q[i].payload.saved.cells \cap q[j].payload.saved.cells = {}
    <3>1. q[i] = s[i] /\ q[j] = s[j] /\ i \in DOMAIN s /\ j \in DOMAIN s
      BY <1>1, <1>7, <1>8
    <3> QED
      BY <3>1, <2>2 DEF HeldFits
  <2> QED
    BY <2>1, <2>2 DEF HeldFits
<1>10. Carried(q) \subseteq Carried(s)
  BY <1>1, <1>7, <1>8 DEF Carried
<1>11. ToSet(NetsOf(q)) \subseteq ToSet(NetsOf(s))
  BY <1>1, <1>7, <1>8 DEF ToSet, NetsOf
<1>12. v.payload.saved.cells \subseteq Carried(s) /\ v.net \in ToSet(NetsOf(s))
  BY <1>1, <1>2 DEF Carried, ToSet, NetsOf
<1> QED
  BY <1>4, <1>5, <1>6, <1>8, <1>9, <1>10, <1>11, <1>12

LEMMA HeldIsInjective ==
  ASSUME NEW s \in Seq(Loads), HeldFits(s)
  PROVE  /\ IsInjective(NetsOf(s)) /\ NetsOf(s) \in Seq(Nets)
         /\ \A n \in ToSet(NetsOf(s)) : ~IsRouted(n)
<1>1. NetsOf(s) \in Seq(Nets) /\ DOMAIN NetsOf(s) = DOMAIN s
  BY LoadsFit DEF NetsOf
<1> QED
  BY <1>1 DEF HeldFits, IsInjective, NetsOf, ToSet

LEMMA NothingHeld ==
  ASSUME NEW s, s = <<>>
  PROVE  /\ HeldFits(s) /\ HeldFits(s)' /\ Carried(s) = {} /\ ToSet(NetsOf(s)) = {}
         /\ IsInjective(NetsOf(s)) /\ ToSet(s) = {}
<1>1. DOMAIN s = {} /\ DOMAIN NetsOf(s) = {}
  BY DEF NetsOf
<1> QED
  BY <1>1 DEF HeldFits, Carried, ToSet, NetsOf, IsInjective

----------------------------------------------------------------------------
(* The innermost call goes on, calls another, returns.                     *)
LEMMA GoesOn ==
  ASSUME Shape, stack # <<>>, Stacked, NEW f \in Frames, Become(f), Succeeds(f, Top),
         Touched(f) \subseteq Touched(Top), NEW X, InFlight(f) \subseteq InFlight(Top) \cup X,
         \A g \in Below : Sound(g)' /\ X \cap Guarded(g) = {}, Sound(f)', Ready(f)'
  PROVE  Stacked'
<1>1. \A g \in Below : Beneath(g, Top) /\ Sound(g)'
  BY BelowFacts
<1>2. ASSUME NEW g \in Below PROVE Sound(g)' /\ Beneath(g, f)
  <2>1. InFlight(f) \cap Guarded(g) = {}
    BY <1>1 DEF Beneath
  <2> QED
    BY <1>1, <2>1, BeneathStays
<1>3. Depth > 1 => Hands(Caller, f)
  BY BelowFacts DEF Hands, Succeeds
<1> QED
  BY <1>2, <1>3, BecomeStacked

LEMMA CallsOn ==
  ASSUME Shape, stack # <<>>, Stacked, NEW f \in Frames, NEW k \in Frames, Call(f, k),
         Succeeds(f, Top), Touched(f) \subseteq Touched(Top),
         NEW X, InFlight(f) \cup InFlight(k) \subseteq InFlight(Top) \cup X,
         \A g \in Below : Sound(g)' /\ X \cap Guarded(g) = {}, Sound(f)',
         Roots(Top) \subseteq Roots(k), Touched(k) \subseteq Touched(Top),
         \A g \in Below : ~(g.kind = "net" /\ g.stage = "reasked"),
         Sound(k)', Ready(k)', Beneath(f, k), Hands(f, k)
  PROVE  Stacked'
<1>1. \A g \in Below : Beneath(g, Top) /\ Sound(g)'
  BY BelowFacts
<1>2. ASSUME NEW g \in Below PROVE Sound(g)' /\ Beneath(g, f) /\ Beneath(g, k)
  <2>1. InFlight(f) \cap Guarded(g) = {} /\ InFlight(k) \cap Guarded(g) = {}
    BY <1>1 DEF Beneath
  <2>2. Beneath(g, f)
    BY <1>1, <2>1, BeneathStays
  <2>3. g.kind = "net" => g.stage \in {"taps", "commit"}
    BY CallersAre
  <2>4. Beneath(g, k)
    BY <1>1, <2>1, <2>3 DEF Beneath
  <2> QED
    BY <1>1, <2>2, <2>4
<1>3. Depth > 1 => Hands(Caller, f)
  BY BelowFacts DEF Hands, Succeeds
<1> QED
  BY <1>2, <1>3, CallStacked

LEMMA TellsOn ==
  ASSUME Shape, stack # <<>>, Stacked, Mapped, BoardFits, NEW f \in Frames, NEW m \in Nets,
         IsRouted(m), RipUp(m), m \notin Roots(Top), Rips(Top) \/ Top.kind = "tap",
         BecomeAfterRip(f, m), Succeeds(f, Top), Touched(f) \subseteq Touched(Top) \cup {m},
         InFlight(f) \subseteq InFlight(Top) \cup copper[m],
         Sound(Told(f, m))', Ready(Told(f, m))'
  PROVE  Stacked'
<1>1. \A g \in Below : Beneath(g, Top) /\ g \in Frames
  BY BelowFacts
<1>2. Top \in Frames
  BY TopIsPlaced
<1>3. ASSUME NEW g \in Below
      PROVE  Sound(Told(g, m))' /\ Beneath(Told(g, m), Told(f, m)) /\ m \notin Waiting(g)
  <2>1. Sound(Told(g, m))' /\ m \notin Waiting(g)
    BY ToldStaySound
  <2>2. InFlight(f) \cap Guarded(g) = {}
    BY <1>1, GuardsAreClear DEF Beneath
  <2>3. Beneath(Told(g, m), Told(f, m))
    BY <1>1, <1>2, <2>1, <2>2, BeneathTold
  <2> QED
    BY <2>1, <2>3
<1>4. Depth > 1 => Hands(Caller, f)
  BY BelowFacts DEF Hands, Succeeds
<1>5. f.kind = Top.kind
  BY DEF Succeeds
<1> QED
  BY <1>3, <1>4, <1>5, TellStacked

(* The steps that move no copper.                                          *)
LEMMA QuietlyGoesOn ==
  ASSUME CascadeInv, BooksSame, stack # <<>>, NEW f \in Frames, Become(f), Succeeds(f, Top),
         Touched(f) \subseteq Touched(Top), NEW X, InFlight(f) \subseteq InFlight(Top) \cup X,
         \A g \in Below : X \cap Guarded(g) = {}, Sound(f), Ready(f)
  PROVE  BoardFits' /\ Stacked'
<1>1. Shape /\ BoardFits /\ Stacked
  BY CascadeIs
<1>2. \A g : (Sound(g)' <=> Sound(g)) /\ (Ready(g)' <=> Ready(g))
  BY SoundSame DEF BooksSame
<1>3. \A g \in Below : Sound(g)'
  BY <1>1, <1>2, BelowFacts
<1>4. Sound(f)' /\ Ready(f)'
  BY <1>2
<1> QED
  BY <1>1, <1>3, <1>4, BooksKept, GoesOn

LEMMA QuietlyCalls ==
  ASSUME CascadeInv, BooksSame, stack # <<>>, NEW f \in Frames, NEW k \in Frames, Call(f, k),
         Succeeds(f, Top), Touched(f) \subseteq Touched(Top),
         NEW X, InFlight(f) \cup InFlight(k) \subseteq InFlight(Top) \cup X,
         \A g \in Below : X \cap Guarded(g) = {}, Sound(f),
         Roots(Top) \subseteq Roots(k), Touched(k) \subseteq Touched(Top),
         \A g \in Below : ~(g.kind = "net" /\ g.stage = "reasked"),
         Sound(k), Ready(k), Beneath(f, k), Hands(f, k)
  PROVE  BoardFits' /\ Stacked'
<1>1. Shape /\ BoardFits /\ Stacked
  BY CascadeIs
<1>2. \A g : (Sound(g)' <=> Sound(g)) /\ (Ready(g)' <=> Ready(g))
  BY SoundSame DEF BooksSame
<1>3. \A g \in Below : Sound(g)'
  BY <1>1, <1>2, BelowFacts
<1>4. Sound(f)' /\ Sound(k)' /\ Ready(k)'
  BY <1>2
<1> QED
  BY <1>1, <1>3, <1>4, BooksKept, CallsOn

LEMMA QuietlyReturns ==
  ASSUME CascadeInv, BooksSame, Depth > 1, NEW f \in Frames, Return(f), Sound(f), Ready(f),
         Succeeds(f, Caller), Touched(f) \subseteq Touched(Caller),
         NEW X, InFlight(f) \subseteq InFlight(Caller) \cup X,
         \A g \in Below : X \cap Guarded(g) = {}
  PROVE  BoardFits' /\ Stacked'
<1>1. Shape /\ BoardFits /\ Stacked /\ stack # <<>>
  BY CascadeIs DEF Depth
<1>2. \A g : (Sound(g)' <=> Sound(g)) /\ (Ready(g)' <=> Ready(g))
  BY SoundSame DEF BooksSame
<1>3. \A g \in Below : Sound(g)'
  BY <1>1, <1>2, BelowFacts
<1>4. Sound(f)' /\ Ready(f)'
  BY <1>2
<1>5. ASSUME NEW g \in Below, Beneath(g, Caller) PROVE Beneath(g, f)
  <2>1. InFlight(f) \cap Guarded(g) = {}
    BY <1>5 DEF Beneath
  <2> QED
    BY <1>5, <2>1, BeneathStays
<1>6. \A g : Hands(g, Caller) => Hands(g, f)
  BY DEF Hands, Succeeds
<1> QED
  BY <1>1, <1>3, <1>4, <1>5, <1>6, BooksKept, ReturnStacked

----------------------------------------------------------------------------
(* The main loop.                                                          *)
LEMMA BooksAre == UNCHANGED boardVars => BooksSame
  BY DEF boardVars, BooksSame

(* The loop's own call has none below it.                                  *)
LEMMA NetIsAlone ==
  ASSUME Shape, NEW s, In("net", s)
  PROVE  Below = {}
<1>1. Depth = 1
  BY TopIsNet
<1> QED
  BY <1>1 DEF Below

LEMMA LoopStepsOn ==
  ASSUME CascadeInv, Cancel \/ SkipNet
  PROVE  BoardFits' /\ Stacked'
<1>1. BooksSame /\ stack' = stack /\ BoardFits /\ Stacked
  BY CascadeIs DEF Cancel, SkipNet, BooksSame, boardVars
<1>2. \A g : (Sound(g)' <=> Sound(g)) /\ (Ready(g)' <=> Ready(g))
  BY <1>1, SoundSame DEF BooksSame
<1>3. ASSUME NEW i \in 1..Depth PROVE Sound(stack[i])'
  <2>1. PICK g : g = stack[i]
    OBVIOUS
  <2>2. Sound(g)' /\ stack'[i] = g
    BY <1>1, <1>2, <2>1 DEF Stacked
  <2> QED
    BY <2>2
<1>4. stack # <<>> => Ready(Top)'
  <2>1. PICK g : g = Top
    OBVIOUS
  <2>2. stack # <<>> => Ready(g)'
    BY <1>1, <1>2, <2>1 DEF Stacked
  <2>3. Top' = g
    BY <1>1, <2>1 DEF Top, Last
  <2> QED
    BY <2>2, <2>3
<1>5. Depth' = Depth
  BY <1>1 DEF Depth
<1>6. Stacked'
  BY <1>1, <1>3, <1>4, <1>5 DEF Stacked
<1> QED
  BY <1>1, <1>6, BooksKept

LEMMA OneCall ==
  ASSUME NEW f, stack' = <<f>>, Sound(f)', Ready(f)'
  PROVE  Stacked'
<1>1. Depth' = 1 /\ stack'[1] = f /\ Top' = f
  BY DEF Depth, Top, Last
<1>2. \A i \in 1..Depth' : i = 1
  BY <1>1
<1>3. Sound(stack[1])' /\ Ready(Top)'
  BY <1>1
<1>4. ~\E i, j \in 1..Depth' : i < j
  BY <1>1
<1>5. 2..Depth' = {}
  BY <1>1
<1> QED
  BY <1>1, <1>2, <1>3, <1>4, <1>5 DEF Stacked

LEMMA TakeNetOn ==
  ASSUME CascadeInv, TakeNet, NoGhost
  PROVE  BoardFits' /\ Stacked'
<1>1. PICK n : n = Order[at]
  OBVIOUS
<1>2. PICK lm : lm = routed[n]
  OBVIOUS
<1>3. BooksSame /\ BoardFits /\ stack' = <<NetFrame(n, lm)>> /\ IsRouted(n)
  BY <1>1, <1>2, BooksAre, CascadeIs DEF TakeNet, NoGhost
<1>4. PICK f : f = NetFrame(n, lm)
  OBVIOUS
<1>5. f.kind = "net" /\ f.stage = "taps" /\ f.net = n /\ f.lm = lm
  BY <1>4 DEF NetFrame
<1>6. Sound(f)' /\ Ready(f)'
  <2>1. routed'[n] = lm
    BY <1>2, <1>3 DEF BooksSame
  <2>2. NetSound(f)'
    BY <1>5, <2>1 DEF NetSound
  <2> QED
    BY <1>5, <2>2 DEF Sound, Ready
<1> QED
  BY <1>3, <1>4, <1>6, BooksKept, OneCall

(* Taps that were found keep clear of everything on the board.             *)
LEMMA TapsAvoid ==
  ASSUME CascadeInv, NEW n \in Nets, NEW t, t \in TapsOn(n, PreparedMap(n))
  PROVE  /\ t \in Taps /\ t.cells \in SUBSET Cells /\ Clear(t.cells, n)
         /\ \A i \in 1..Depth : t.cells \cap Guarded(stack[i]) = {}
         /\ CellsOf(t) = t.cells
<1>1. t \in Taps /\ t.cells \cap (copper[n] \cup BlockedRows(PreparedMap(n))) = {}
  BY OrderFacts DEF TapsOn
<1>2. t.cells \in SUBSET Cells
  BY <1>1 DEF Taps
<1>3. PICK C \in SUBSET Cells : C = t.cells
  BY <1>2
<1>4. Clear(C, n) /\ \A i \in 1..Depth : C \cap Guarded(stack[i]) = {}
  BY <1>1, <1>3, SearchAvoids DEF CascadeInv
<1> QED
  BY <1>1, <1>2, <1>3, <1>4 DEF CellsOf

(* A rip-up for taps opens.                                                *)
LEMMA NewTapIs ==
  ASSUME NEW n \in Nets, NEW t \in Taps, Clear(t.cells, n), IsRouted(n), NEW d \in Nat,
         d <= MaxRip, NEW anc \in SUBSET Nets, NEW k, k = TapFrame(n, t, d, anc)
  PROVE  /\ k \in Frames /\ k.kind = "tap" /\ k.net = n /\ k.orig = t
         /\ Roots(k) = {n} \cup anc /\ Touched(k) = {} /\ InFlight(k) = t.cells
         /\ Sound(k) /\ Ready(k)
<1>1. k \in Frames
  BY NewTap
<1>2. /\ k.kind = "tap" /\ k.stage = "level" /\ k.net = n /\ k.orig = t /\ k.retry = None
      /\ k.ancestors = anc /\ k.ripped = <<>> /\ k.subtree = {} /\ k.again = <<>>
  BY DEF TapFrame
<1>3. /\ HeldFits(k.ripped) /\ Carried(k.ripped) = {} /\ IsInjective(NetsOf(k.ripped))
  BY <1>2, NothingHeld
<1>4. CellsOf(k.retry) = {}
  BY <1>2, NoneIsNoTaps DEF CellsOf
<1>5. Roots(k) = {n} \cup anc /\ Touched(k) = {} /\ InFlight(k) = t.cells
  BY <1>2, <1>3, <1>4 DEF Roots, Touched, InFlight
<1>6. TapSound(k)
  BY <1>2, <1>3 DEF TapSound, Clear, Residue
<1>7. Ready(k)
  BY <1>2, <1>3 DEF Ready
<1> QED
  BY <1>1, <1>2, <1>5, <1>6, <1>7 DEF Sound

LEMMA RouteTapsOn ==
  ASSUME CascadeInv, NEW t, RouteTaps(t)
  PROVE  BoardFits' /\ Stacked'
<1>1. Shape /\ Stacked /\ Mapped /\ BooksSame /\ In("net", "taps")
  BY CascadeIs, BooksAre DEF RouteTaps
<1>2. /\ stack # <<>> /\ Top \in NetFrames /\ Top.kind = "net" /\ Top.stage = "taps"
      /\ Below = {} /\ Top \in Frames
  BY <1>1, TopIsNet, NetIsAlone
<1>3. PICK n \in Nets : n = Top.net
  BY <1>2 DEF NetFrames
<1>4. t \in Taps /\ t.cells \in SUBSET Cells /\ Clear(t.cells, n)
  BY <1>3, TapsAvoid DEF RouteTaps
<1>5. PICK f : f = [Top EXCEPT !.taps = t, !.stage = "commit"]
  OBVIOUS
<1>6. /\ f \in NetFrames /\ f.kind = "net" /\ f.stage = "commit" /\ f.taps = t
      /\ f.net = n /\ f.lm = Top.lm
  BY <1>2, <1>3, <1>4, <1>5 DEF NetFrames, Stages
<1>7. routed[n] = Top.lm /\ Top.lm \in Results /\ IsRouted(n)
  <2>1. Sound(Top)
    BY <1>1, <1>2, BelowFacts
  <2>2. routed[n] = Top.lm /\ Top.lm \in Results
    BY <2>1, <1>2, <1>3 DEF Sound, NetSound, NetFrames
  <2> QED
    BY <2>2, NoneIsNoResult DEF IsRouted
<1>8. f \in Frames /\ Sound(f) /\ Ready(f)
  BY <1>3, <1>4, <1>6, <1>7 DEF Frames, Sound, NetSound, Ready
<1>9. /\ Succeeds(f, Top) /\ Touched(f) = {} /\ InFlight(f) = {} /\ Roots(Top) = {}
      /\ Touched(Top) = {}
  BY <1>2, <1>6 DEF Succeeds, Touched, InFlight, Roots
<1>10. CASE Become(f)
  <2>1. InFlight(f) \subseteq InFlight(Top) \cup {} /\ \A g \in Below : {} \cap Guarded(g) = {}
    BY <1>9
  <2> QED
    BY <1>1, <1>2, <1>8, <1>9, <1>10, <2>1, QuietlyGoesOn
<1>11. CASE Call(f, TapFrame(n, t, 0, {}))
  <2>1. PICK k : k = TapFrame(n, t, 0, {})
    OBVIOUS
  <2>2. 0 \in Nat /\ 0 <= MaxRip /\ {} \in SUBSET Nets
    BY OrderFacts
  <2>3. /\ k \in Frames /\ k.kind = "tap" /\ k.net = n /\ k.orig = t
        /\ Roots(k) = {n} \cup {} /\ Touched(k) = {} /\ InFlight(k) = t.cells
        /\ Sound(k) /\ Ready(k)
    BY <1>4, <1>7, <2>1, <2>2, NewTapIs
  <2>4. Beneath(f, k)
    BY <1>6, <2>3 DEF Beneath, Spared, Roots, Waiting, Guarded
  <2>5. Hands(f, k)
    BY <1>6, <2>3 DEF Hands
  <2>6. InFlight(f) \cup InFlight(k) \subseteq InFlight(Top) \cup t.cells
    BY <1>9, <2>3
  <2>7. /\ Roots(Top) \subseteq Roots(k) /\ Touched(k) \subseteq Touched(Top)
        /\ Touched(f) \subseteq Touched(Top)
        /\ \A g \in Below : ~(g.kind = "net" /\ g.stage = "reasked")
        /\ \A g \in Below : t.cells \cap Guarded(g) = {}
    BY <1>2, <1>9, <2>3
  <2>8. Call(f, k)
    BY <1>11, <2>1
  <2> QED
    BY <1>1, <1>2, <1>8, <1>9, <2>3, <2>4, <2>5, <2>6, <2>7, <2>8, QuietlyCalls
<1> QED
  BY <1>3, <1>5, <1>10, <1>11 DEF RouteTaps

LEMMA CommitNetOn ==
  ASSUME CascadeInv, CommitNet
  PROVE  BoardFits' /\ Stacked'
<1>1. Shape /\ Stacked /\ Mapped /\ BoardFits /\ In("net", "commit")
  BY CascadeIs DEF CommitNet
<1>2. /\ stack # <<>> /\ Top \in NetFrames /\ Top.kind = "net" /\ Top.stage = "commit"
      /\ Below = {} /\ Top \in Frames /\ Top.taps \in Taps
  BY <1>1, TopIsNet, NetIsAlone DEF NetFits
<1>3. PICK n \in Nets : n = Top.net
  BY <1>2 DEF NetFrames
<1>4. /\ routed[n] = Top.lm /\ Top.lm \in Results /\ Clear(Top.taps.cells, n)
  BY <1>1, <1>2, <1>3, BelowFacts DEF Sound, NetSound, NetFrames, Ready
<1>5. IsRouted(n)
  BY <1>4, NoneIsNoResult DEF IsRouted
<1>6. PICK t \in Taps : t = Top.taps
  BY <1>2
<1>7. PICK known : known = Snapshot(n)
  OBVIOUS
<1>8. PICK base : base = Top.lm
  OBVIOUS
<1>9. known.net = n /\ base = routed[n] /\ Clear(t.cells, n) /\ CommitTaps(n, t, known, base)
  BY <1>3, <1>4, <1>6, <1>7, <1>8, OrderFacts DEF CommitNet
<1>10. BoardFits' /\ IsRouted(n)'
  BY ONLY <1>1, n \in Nets, <1>5, t \in Taps, <1>9, CommitFits
<1>11. PICK f : f = [Top EXCEPT !.stage = "reask"]
  OBVIOUS
<1>12. /\ f \in NetFrames /\ f.kind = "net" /\ f.stage = "reask" /\ f.net = n /\ Become(f)
  BY <1>2, <1>3, <1>11 DEF NetFrames, Stages, CommitNet, Goto
<1>13. f \in Frames /\ Sound(f)' /\ Ready(f)'
  BY <1>10, <1>12 DEF Frames, Sound, NetSound, Ready
<1>14. /\ Succeeds(f, Top) /\ Touched(f) \subseteq Touched(Top)
       /\ InFlight(f) \subseteq InFlight(Top) \cup {}
  BY <1>2, <1>12 DEF Succeeds, Touched, InFlight, Roots
<1>15. \A g \in Below : Sound(g)' /\ {} \cap Guarded(g) = {}
  BY <1>2
<1> QED
  BY <1>1, <1>2, <1>10, <1>12, <1>13, <1>14, <1>15, GoesOn

(* A reroute opens.                                                        *)
LEMMA NewRerouteIs ==
  ASSUME NEW items \in Seq(Nets), NEW d \in Nat, d <= MaxRip + 1, NEW anc \in SUBSET Nets,
         NEW k, k = RerouteFrame(items, d, anc)
  PROVE  /\ k \in Frames /\ k.kind = "reroute" /\ k.stage = "item" /\ k.items = items
         /\ k.depth = d /\ Roots(k) = anc /\ Touched(k) = ToSet(items)
         /\ Waiting(k) = ToSet(items) /\ InFlight(k) = {} /\ Ready(k)
         /\ Ready(k)' /\ k.nested = <<>>
<1>1. k \in Frames
  BY NewReroute
<1>2. /\ k.kind = "reroute" /\ k.stage = "item" /\ k.items = items /\ k.nested = <<>>
      /\ k.taps = None /\ k.ancestors = anc /\ k.depth = d
  BY DEF RerouteFrame
<1>3. Carried(k.nested) = {} /\ ToSet(NetsOf(k.nested)) = {}
  BY <1>2, NothingHeld
<1>4. CellsOf(k.taps) = {}
  BY <1>2, NoneIsNoTaps DEF CellsOf
<1>5. /\ Roots(k) = anc /\ Touched(k) = ToSet(items) /\ Waiting(k) = ToSet(items)
      /\ InFlight(k) = {}
  BY <1>2, <1>3, <1>4 DEF Roots, Touched, Waiting, ToDo, InFlight
<1>6. Ready(k) /\ Ready(k)'
  BY <1>2 DEF Ready, Rips
<1> QED
  BY <1>1, <1>2, <1>5, <1>6

LEMMA NewRerouteSound ==
  ASSUME NEW k, k.kind = "reroute", k.stage = "item", IsInjective(k.items),
         Touched(k) \cap Roots(k) = {}, \A n \in Waiting(k) : ~IsRouted(n)
  PROVE  Sound(k)
  BY DEF Sound, RerouteSound

LEMMA NewRerouteSoundNext ==
  ASSUME NEW k, k.kind = "reroute", k.stage = "item", IsInjective(k.items),
         Touched(k) \cap Roots(k) = {}, \A n \in Waiting(k) : ~IsRouted(n)'
  PROVE  Sound(k)'
  BY DEF Sound, RerouteSound

LEMMA ReaskOn ==
  ASSUME CascadeInv, Reask
  PROVE  BoardFits' /\ Stacked'
<1>1. Shape /\ Stacked /\ Mapped /\ BoardFits /\ In("net", "reask")
  BY CascadeIs DEF Reask
<1>2. /\ stack # <<>> /\ Top \in NetFrames /\ Top.kind = "net" /\ Top.stage = "reask"
      /\ Below = {} /\ Top \in Frames
  BY <1>1, TopIsNet, NetIsAlone
<1>3. PICK n \in Nets : n = Top.net
  BY <1>2 DEF NetFrames
<1>4. IsRouted(n) /\ RipUp(n)
  BY <1>3 DEF Reask
<1>5. PICK p : p = Payload(n)
  OBVIOUS
<1>6. BoardFits' /\ ~IsRouted(n)' /\ Good(p, n)'
  BY <1>1, <1>4, <1>5, RipFits
<1>7. p \in Payloads
  BY <1>1, <1>4, <1>5, RipUpKeepsMap
<1>8. PICK f : f = [Top EXCEPT !.stage = "reasked", !.saved = p]
  OBVIOUS
<1>9. /\ f \in NetFrames /\ f.kind = "net" /\ f.stage = "reasked" /\ f.saved = p /\ f.net = n
  BY <1>2, <1>3, <1>7, <1>8 DEF NetFrames, Stages
<1>10. f \in Frames /\ Sound(f)'
  BY <1>6, <1>9 DEF Frames, Sound, NetSound
<1>11a. PICK q \in Seq(Nets) : q = <<n>>
  <2>1. <<n>> \in Seq(Nets)
    OBVIOUS
  <2> QED
    BY <2>1, Zenon
<1>11. PICK k : k = RerouteFrame(q, MaxRip, {})
  OBVIOUS
<1>12. /\ k \in Frames /\ k.kind = "reroute" /\ k.stage = "item" /\ k.items = q
       /\ k.depth = MaxRip /\ Roots(k) = {} /\ Touched(k) = ToSet(q)
       /\ Waiting(k) = ToSet(q) /\ InFlight(k) = {} /\ Ready(k)'
  <2>1. {} \in SUBSET Nets /\ MaxRip \in Nat /\ MaxRip <= MaxRip + 1
    BY OrderFacts
  <2>2. PICK anc \in SUBSET Nets : anc = {}
    BY <2>1
  <2>3. k = RerouteFrame(q, MaxRip, anc) /\ q \in Seq(Nets)
    BY <1>11, <2>2
  <2> QED
    BY ONLY <2>1, <2>2, <2>3, NewRerouteIs
<1>13. ToSet(q) = {n} /\ IsInjective(q)
  BY <1>11a DEF ToSet, IsInjective
<1>14. Sound(k)'
  BY <1>6, <1>12, <1>13, NewRerouteSoundNext
<1>15. Beneath(f, k) /\ Hands(f, k)
  BY <1>9, <1>12, <1>13 DEF Beneath, Hands, Spared, Roots, Waiting, Guarded
<1>16. Call(f, k)
  BY <1>3, <1>5, <1>8, <1>11a, <1>11 DEF Reask
<1>17. \A h \in Below : Sound(h)' /\ Beneath(h, f) /\ Beneath(h, k)
  BY <1>2
<1>18. ~(Depth > 1)
  BY <1>1, TopIsNet
<1> QED
  BY <1>1, <1>2, <1>6, <1>10, <1>12, <1>14, <1>15, <1>16, <1>17, <1>18, CallStacked

LEMMA NoCalls == ASSUME stack' = <<>> PROVE Stacked'
<1>1. Depth' = 0
  BY DEF Depth
<1> QED
  BY <1>1 DEF Stacked

LEMMA NetDoneOn ==
  ASSUME CascadeInv, NetDone
  PROVE  BoardFits' /\ Stacked'
  BY CascadeIs, BooksAre, BooksKept, NoCalls DEF NetDone

LEMMA UndoReaskOn ==
  ASSUME CascadeInv, UndoReask
  PROVE  BoardFits' /\ Stacked'
<1>1. Shape /\ Stacked /\ Mapped /\ BoardFits /\ In("net", "reasked")
  BY CascadeIs DEF UndoReask
<1>2. /\ stack # <<>> /\ Top \in NetFrames /\ Top.kind = "net" /\ Top.stage = "reasked"
      /\ Below = {} /\ Top \in Frames
  BY <1>1, TopIsNet, NetIsAlone
<1>3. PICK n \in Nets : n = Top.net
  BY <1>2 DEF NetFrames
<1>4. IsRouted(n) /\ RipUp(n)
  BY <1>3 DEF UndoReask
<1>5. BoardFits' /\ ~IsRouted(n)' /\ Only(n)
  BY <1>1, <1>4, RipFits
<1>6. PICK p : p = Top.saved
  OBVIOUS
<1>7. Good(p, n)
  BY <1>1, <1>2, <1>3, <1>6, BelowFacts DEF Sound, NetSound
<1>8. Good(p, n)'
  BY <1>5, <1>7 DEF Good, Clear, Only
<1>9. PICK f : f = [Top EXCEPT !.stage = "undone"]
  OBVIOUS
<1>10. /\ f \in NetFrames /\ f.kind = "net" /\ f.stage = "undone" /\ f.net = n /\ Become(f)
       /\ f.saved = p
  BY <1>2, <1>3, <1>6, <1>9 DEF NetFrames, Stages, UndoReask, Goto
<1>11. f \in Frames /\ Sound(f)' /\ Ready(f)'
  BY <1>5, <1>8, <1>10 DEF Frames, Sound, NetSound, Ready
<1>12. /\ Succeeds(f, Top) /\ Touched(f) \subseteq Touched(Top)
       /\ InFlight(f) \subseteq InFlight(Top) \cup {}
  BY <1>2, <1>10 DEF Succeeds, Touched, InFlight, Roots
<1>13. \A g \in Below : Sound(g)' /\ {} \cap Guarded(g) = {}
  BY <1>2
<1> QED
  BY <1>1, <1>2, <1>5, <1>10, <1>11, <1>12, <1>13, GoesOn

LEMMA RestoreTreeOn ==
  ASSUME CascadeInv, RestoreTree
  PROVE  BoardFits' /\ Stacked' /\ \A n \in Nets : n = Top.net => IsRouted(n)'
<1>1. Shape /\ Stacked /\ Mapped /\ BoardFits
  BY CascadeIs
<1>2. PICK s \in {"reasked", "undone"} : In("net", s)
  BY DEF RestoreTree
<1>3. /\ stack # <<>> /\ Top.kind = "net" /\ Top.stage = s /\ Top \in NetFrames
      /\ Top.saved \in Payloads /\ Top.saved.saved.net = Top.net
  BY <1>1, <1>2, TopIsNet DEF NetFits
<1>4. PICK n \in Nets : n = Top.net
  BY <1>3 DEF NetFrames
<1>5. PICK p \in Payloads : p = Top.saved
  BY <1>3
<1>6. NetSound(Top)
  BY <1>1, <1>3, BelowFacts DEF Sound
<1>7. Good(p, n) /\ ~IsRouted(n)
  BY <1>2, <1>3, <1>4, <1>5, <1>6 DEF NetSound, RestoreTree, In
<1>8. p.saved.net = n /\ RestoreNet(n, p) /\ stack' = <<>>
  BY <1>3, <1>4, <1>5 DEF RestoreTree
<1>9. BoardFits' /\ IsRouted(n)'
  BY <1>1, <1>7, <1>8, RestoreFits
<1> QED
  BY <1>4, <1>8, <1>9, NoCalls

----------------------------------------------------------------------------
(* try_phase3_ripup.                                                       *)
LEMMA TapHas ==
  ASSUME CascadeInv, NEW s, In("tap", s)
  PROVE  /\ Shape /\ Stacked /\ Mapped /\ BoardFits /\ stack # <<>> /\ Depth > 1
         /\ Top \in Frames /\ Top \in TapFrames /\ Top.kind = "tap" /\ Top.stage = s
         /\ TapSound(Top) /\ Ready(Top) /\ Top.net \in Nets
         /\ Top.subtree \in SUBSET Nets /\ Top.ancestors \in SUBSET Nets
         /\ Top.ripped \in Seq(Loads) /\ Top.again \in Seq(Nets) /\ Top.orig \in Taps
         /\ Top.depth \in Nat /\ Top.depth <= MaxRip
         /\ Roots(Top) = {Top.net} \cup Top.ancestors /\ ExcludedBy(Top) = Roots(Top)
         /\ Touched(Top) = Top.subtree /\ CellsOf(Top.orig) = Top.orig.cells
         /\ InFlight(Top) = Carried(Top.ripped) \cup Top.orig.cells \cup CellsOf(Top.retry)
         /\ ToSet(NetsOf(Top.ripped)) \subseteq Top.subtree
         /\ \A g \in Below : ~(g.kind = "net" /\ g.stage = "reasked")
<1>1. Shape /\ Stacked /\ Mapped /\ BoardFits
  BY CascadeIs
<1>2. /\ stack # <<>> /\ Depth > 1 /\ Top \in Frames /\ Top \in TapFrames
      /\ Top.kind = "tap" /\ Top.stage = s /\ TapFits(Top)
  BY <1>1, TopIsTap
<1>3. Sound(Top) /\ Ready(Top)
  BY <1>1, <1>2, BelowFacts
<1>4. /\ Top.net \in Nets
      /\ Top.subtree \in SUBSET Nets /\ Top.ancestors \in SUBSET Nets
      /\ Top.ripped \in Seq(Loads) /\ Top.again \in Seq(Nets) /\ Top.orig \in Taps
      /\ Top.depth \in Nat /\ Top.depth <= MaxRip
  BY <1>2 DEF TapFrames, TapFits
<1>5. ToSet(NetsOf(Top.ripped)) \subseteq Top.subtree
  BY <1>2, <1>4 DEF TapFits, ToSet, NetsOf
<1>6. \A g \in Below : ~(g.kind = "net" /\ g.stage = "reasked")
  BY <1>1, <1>2, NoRipsWhenReasked
<1>7. /\ Roots(Top) = {Top.net} \cup Top.ancestors /\ ExcludedBy(Top) = Roots(Top)
      /\ Touched(Top) = Top.subtree /\ CellsOf(Top.orig) = Top.orig.cells
      /\ InFlight(Top) = Carried(Top.ripped) \cup Top.orig.cells \cup CellsOf(Top.retry)
  BY <1>2, <1>4 DEF Roots, ExcludedBy, Touched, CellsOf, InFlight
<1>8. TapSound(Top)
  BY <1>2, <1>3 DEF Sound
<1> QED
  BY <1>1, <1>2, <1>3, <1>4, <1>5, <1>6, <1>7, <1>8

(* A frame with the same taps, victims and tree.                           *)
LEMMA TapGoesOn ==
  ASSUME NEW h \in TapFrames, NEW f \in TapFrames, f.net = h.net, f.orig = h.orig,
         f.ancestors = h.ancestors
  PROVE  /\ f \in Frames /\ f.kind = "tap" /\ Succeeds(f, h) /\ Roots(f) = Roots(h)
         /\ Touched(f) = f.subtree /\ Touched(h) = h.subtree
         /\ InFlight(f) = Carried(f.ripped) \cup f.orig.cells \cup CellsOf(f.retry)
<1>1. f.kind = "tap" /\ h.kind = "tap"
  BY DEF TapFrames
<1> QED
  BY <1>1 DEF Frames, Succeeds, Roots, Touched, InFlight

LEMMA TapRipsOn ==
  ASSUME CascadeInv, NEW m \in Nets, TapRips(m)
  PROVE  BoardFits' /\ Stacked'
<1>1. In("tap", "level")
  BY DEF TapRips
<1>2. PICK h : h = Top
  OBVIOUS
<1>3. /\ Shape /\ Stacked /\ Mapped /\ BoardFits /\ stack # <<>>
      /\ h \in Frames /\ h \in TapFrames /\ h.kind = "tap" /\ h.stage = "level"
      /\ TapSound(h) /\ Ready(h) /\ h.net \in Nets /\ h.subtree \in SUBSET Nets
      /\ h.ripped \in Seq(Loads) /\ Roots(h) = {h.net} \cup h.ancestors
      /\ ExcludedBy(h) = Roots(h) /\ Touched(h) = h.subtree
      /\ InFlight(h) = Carried(h.ripped) \cup h.orig.cells \cup CellsOf(h.retry)
  BY <1>1, <1>2, TapHas
<1>4. IsRouted(m) /\ RipUp(m) /\ m \notin Roots(h)
  BY <1>2, <1>3 DEF TapRips, Rippable, Nameable
<1>5. PICK q : q = Append(h.ripped, Victim(m))
  OBVIOUS
<1>6. HeldFits(h.ripped) /\ Clear(h.orig.cells, h.net)
      /\ h.orig.cells \cap Carried(h.ripped) = {}
  BY <1>3 DEF Ready, Rips
<1>7. /\ HeldFits(q)' /\ Carried(q) \subseteq Carried(h.ripped) \cup copper[m]
  <2>1. PICK r \in Seq(Loads) : r = h.ripped
    BY <1>3
  <2>2. HeldFits(r) /\ q = Append(r, Victim(m))
    BY <1>5, <1>6, <2>1
  <2>3. HeldFits(q)' /\ Carried(q) \subseteq Carried(r) \cup copper[m]
    BY ONLY <1>3, <1>4, <2>2, r \in Seq(Loads), m \in Nets, HeldMore
  <2> QED
    BY <2>1, <2>3
<1>8. q \in Seq(Loads)
  BY <1>3, <1>4, <1>5, VictimFits
<1>9. PICK f : f = [h EXCEPT !.stage = "retry", !.ripped = q]
  OBVIOUS
<1>10. /\ f \in TapFrames /\ f.kind = "tap" /\ f.stage = "retry" /\ f.ripped = q
       /\ f.subtree = h.subtree /\ f.net = h.net /\ f.orig = h.orig
       /\ f.ancestors = h.ancestors /\ f.retry = h.retry
  BY <1>3, <1>8, <1>9 DEF TapFrames, Stages
<1>11. /\ f \in Frames /\ Succeeds(f, h) /\ Roots(f) = Roots(h) /\ Touched(f) = h.subtree
       /\ InFlight(f) = Carried(q) \cup h.orig.cells \cup CellsOf(h.retry)
  BY <1>3, <1>10, TapGoesOn
<1>12. BecomeAfterRip(f, m)
  BY <1>2, <1>5, <1>9 DEF TapRips
<1>13. PICK g : g = Told(f, m)
  OBVIOUS
<1>14. /\ g.kind = "tap" /\ g.stage = "retry" /\ g.net = h.net /\ g.orig = h.orig
       /\ g.ripped = q /\ Roots(g) = Roots(h) /\ g.subtree = h.subtree \cup {m}
  BY <1>10, <1>11, <1>13, ToldFields, ToldHas
<1>15. /\ BoardFits' /\ Only(m) /\ copper'[m] \subseteq copper[m] /\ Residue(m)' = Residue(m)
  BY <1>3, <1>4, RipFits
<1>16. TapSound(g)'
  <2>1. m # h.net
    BY <1>3, <1>4
  <2>2. IsRouted(g.net)'
    BY <1>3, <1>14, <1>15, <2>1 DEF TapSound, Only, IsRouted
  <2>3. g.subtree \cap Roots(g) = {}
    BY <1>3, <1>4, <1>14 DEF TapSound
  <2>4. ASSUME NEW k \in Nets \ {h.net}
        PROVE  /\ h.orig.cells \cap Residue(k)' = {}
               /\ k \notin g.subtree => h.orig.cells \cap copper'[k] = {}
    <3>1. Residue(k)' = Residue(k)
      BY <1>15 DEF Only, Residue, IsRouted
    <3> QED
      BY <3>1, <1>3, <1>14, <1>15 DEF TapSound, Only
  <2>5. IsInjective(NetsOf(q))
    BY <1>7, <1>8 DEF HeldFits, IsInjective, NetsOf
  <2> QED
    BY <1>14, <2>2, <2>3, <2>4, <2>5 DEF TapSound
<1>17. Ready(g)'
  <2>1. Clear(h.orig.cells, h.net)'
    BY <1>6, <1>15 DEF Clear, Only
  <2>2. h.orig.cells \cap Carried(q) = {}
    <3>1. m # h.net
      BY <1>3, <1>4
    <3> QED
      BY <3>1, <1>6, <1>7 DEF Clear
  <2> QED
    BY <1>7, <1>14, <2>1, <2>2 DEF Ready
<1>18. Sound(g)'
  BY <1>14, <1>16 DEF Sound
<1>19. /\ Touched(f) \subseteq Touched(h) \cup {m}
       /\ InFlight(f) \subseteq InFlight(h) \cup copper[m]
  BY <1>3, <1>7, <1>11
<1> QED
  BY ONLY <1>2, <1>3, <1>4, <1>11, <1>12, <1>13, <1>15, <1>17, <1>18, <1>19, m \in Nets, TellsOn

LEMMA RetryHelpsOn ==
  ASSUME CascadeInv, NEW t, RetryHelps(t)
  PROVE  BoardFits' /\ Stacked'
<1>1. In("tap", "retry") /\ BooksSame
  BY DEF RetryHelps, BooksSame
<1>2. PICK h : h = Top
  OBVIOUS
<1>3. /\ Shape /\ Stacked /\ Mapped /\ BoardFits /\ stack # <<>>
      /\ h \in Frames /\ h \in TapFrames /\ h.kind = "tap" /\ h.stage = "retry"
      /\ TapSound(h) /\ Ready(h) /\ h.net \in Nets /\ h.subtree \in SUBSET Nets
      /\ h.ancestors \in SUBSET Nets /\ h.depth \in Nat /\ h.depth <= MaxRip
      /\ h.ripped \in Seq(Loads) /\ Roots(h) = {h.net} \cup h.ancestors
      /\ ExcludedBy(h) = Roots(h) /\ Touched(h) = h.subtree
      /\ InFlight(h) = Carried(h.ripped) \cup h.orig.cells \cup CellsOf(h.retry)
      /\ ToSet(NetsOf(h.ripped)) \subseteq h.subtree
      /\ \A g \in Below : ~(g.kind = "net" /\ g.stage = "reasked")
  BY <1>1, <1>2, TapHas
<1>4. /\ t \in Taps /\ t.cells \in SUBSET Cells /\ Clear(t.cells, h.net)
      /\ \A i \in 1..Depth : t.cells \cap Guarded(stack[i]) = {}
      /\ CellsOf(t) = t.cells
  BY <1>2, <1>3, TapsAvoid DEF RetryHelps
<1>5. PICK f : f = [h EXCEPT !.stage = "arbitrate", !.retry = t]
  OBVIOUS
<1>6. /\ f \in TapFrames /\ f.kind = "tap" /\ f.stage = "arbitrate" /\ f.retry = t
      /\ f.ripped = h.ripped /\ f.subtree = h.subtree /\ f.net = h.net /\ f.orig = h.orig
      /\ f.ancestors = h.ancestors
  BY <1>3, <1>4, <1>5 DEF TapFrames, Stages
<1>7. /\ f \in Frames /\ Succeeds(f, h) /\ Roots(f) = Roots(h) /\ Touched(f) = h.subtree
      /\ InFlight(f) = Carried(h.ripped) \cup h.orig.cells \cup t.cells
  BY <1>3, <1>4, <1>6, TapGoesOn
<1>8. Sound(f)
  <2>1. TapSound(f)
    BY <1>3, <1>4, <1>6, <1>7 DEF TapSound
  <2> QED
    BY <1>6, <2>1 DEF Sound
<1>9. HeldFits(h.ripped)
  BY <1>3 DEF Ready, Rips
<1>10. PICK q \in Seq(Nets) : q = NetsOf(h.ripped)
  BY <1>3, LoadsFit
<1>11. IsInjective(q) /\ q \in Seq(Nets) /\ \A n \in ToSet(q) : ~IsRouted(n)
  BY <1>3, <1>9, <1>10, HeldIsInjective
<1>12. PICK anc \in SUBSET Nets : anc = Roots(h)
  BY <1>3
<1>13. PICK d \in Nat : d = h.depth + 1
  BY <1>3
<1>14. d <= MaxRip + 1
  BY <1>3, <1>13, OrderFacts
<1>15. PICK k : k = RerouteFrame(q, d, anc)
  OBVIOUS
<1>16. /\ k \in Frames /\ k.kind = "reroute" /\ k.stage = "item" /\ k.items = q
       /\ Roots(k) = anc /\ Touched(k) = ToSet(q) /\ Waiting(k) = ToSet(q)
       /\ InFlight(k) = {} /\ Ready(k)
  BY ONLY q \in Seq(Nets), d \in Nat, anc \in SUBSET Nets, <1>14, <1>15, NewRerouteIs
<1>17. Sound(k)
  <2>1. Touched(k) \cap Roots(k) = {}
    BY <1>3, <1>10, <1>12, <1>16 DEF TapSound
  <2> QED
    BY <1>11, <1>16, <2>1, NewRerouteSound
<1>18. Beneath(f, k) /\ Hands(f, k)
  <2>1. Spared(f) = Roots(f) /\ Waiting(f) = {}
    BY <1>6 DEF Spared, Waiting
  <2> QED
    BY <1>3, <1>6, <1>7, <1>10, <1>12, <1>16, <2>1 DEF Beneath, Hands
<1>19. Call(f, k)
  BY <1>2, <1>3, <1>5, <1>10, <1>12, <1>13, <1>15 DEF RetryHelps
<1>20. \A g \in Below : t.cells \cap Guarded(g) = {}
  BY <1>3, <1>4, CallersAre
<1>21. /\ Touched(f) \subseteq Touched(h) /\ Roots(h) \subseteq Roots(k)
       /\ Touched(k) \subseteq Touched(h)
       /\ InFlight(f) \cup InFlight(k) \subseteq InFlight(h) \cup t.cells
  BY <1>3, <1>7, <1>10, <1>12, <1>16
<1> QED
  BY ONLY CascadeInv, <1>1, <1>2, <1>3, <1>7, <1>8, <1>16, <1>17, <1>18, <1>19, <1>20, <1>21,
          QuietlyCalls

LEMMA TapTurnsOn ==
  ASSUME CascadeInv, NEW s \in {"level", "retry"}, NEW u \in {"level", "unwind"},
         In("tap", s), Goto(u), UNCHANGED boardVars
  PROVE  BoardFits' /\ Stacked'
<1>1. PICK h : h = Top
  OBVIOUS
<1>2. /\ stack # <<>> /\ h \in TapFrames /\ h.kind = "tap" /\ h.stage = s
      /\ TapSound(h) /\ Ready(h)
      /\ InFlight(h) = Carried(h.ripped) \cup h.orig.cells \cup CellsOf(h.retry)
  BY <1>1, TapHas
<1>3. PICK f : f = [h EXCEPT !.stage = u]
  OBVIOUS
<1>4. /\ f \in TapFrames /\ f.kind = "tap" /\ f.stage = u /\ f.retry = h.retry
      /\ f.ripped = h.ripped /\ f.subtree = h.subtree /\ f.net = h.net /\ f.orig = h.orig
      /\ f.ancestors = h.ancestors /\ f.again = h.again
  BY <1>2, <1>3 DEF TapFrames, Stages
<1>5. /\ f \in Frames /\ Succeeds(f, h) /\ Roots(f) = Roots(h) /\ Touched(f) = Touched(h)
      /\ InFlight(f) = InFlight(h)
  BY <1>2, <1>4, TapGoesOn
<1>6. TapSound(f)
  BY <1>2, <1>4, <1>5 DEF TapSound
<1>7. Sound(f) /\ Ready(f)
  BY <1>2, <1>4, <1>6 DEF Sound, Ready, Rips
<1>8. Become(f) /\ BooksSame
  BY <1>1, <1>3, BooksAre DEF Goto
<1>9. /\ InFlight(f) \subseteq InFlight(h) \cup {} /\ Touched(f) \subseteq Touched(h)
      /\ \A g \in Below : {} \cap Guarded(g) = {}
  BY <1>5
<1> QED
  BY ONLY CascadeInv, <1>1, <1>2, <1>5, <1>7, <1>8, <1>9, QuietlyGoesOn

LEMMA RetryDoesNotHelpOn ==
  ASSUME CascadeInv, RetryDoesNotHelp \/ TapGivesUp
  PROVE  BoardFits' /\ Stacked'
  BY TapTurnsOn DEF RetryDoesNotHelp, TapGivesUp

LEMMA TapUnwindsOn ==
  ASSUME CascadeInv, TapUnwinds
  PROVE  BoardFits' /\ Stacked'
<1>1. In("tap", "unwind")
  BY DEF TapUnwinds
<1>2. PICK h : h = Top
  OBVIOUS
<1>3. /\ Shape /\ Stacked /\ Mapped /\ BoardFits /\ stack # <<>>
      /\ h \in Frames /\ h \in TapFrames /\ h.kind = "tap" /\ h.stage = "unwind"
      /\ TapSound(h) /\ Ready(h) /\ h.net \in Nets /\ h.subtree \in SUBSET Nets
      /\ h.ripped \in Seq(Loads) /\ Roots(h) = {h.net} \cup h.ancestors
      /\ Touched(h) = h.subtree
      /\ InFlight(h) = Carried(h.ripped) \cup h.orig.cells \cup CellsOf(h.retry)
      /\ ToSet(NetsOf(h.ripped)) \subseteq h.subtree
      /\ \A g \in Below : ~(g.kind = "net" /\ g.stage = "reasked")
  BY <1>1, <1>2, TapHas
<1>4. h.ripped # <<>> /\ HeldFits(h.ripped) /\ Clear(h.orig.cells, h.net)
      /\ h.orig.cells \cap Carried(h.ripped) = {}
  BY <1>2, <1>3 DEF TapUnwinds, Ready, Rips
<1>5. PICK v : v = Last(h.ripped)
  OBVIOUS
<1>6. PICK q : q = Front(h.ripped)
  OBVIOUS
<1>7. RestoreNet(v.net, v.payload)
  BY <1>2, <1>5 DEF TapUnwinds
<1>8. /\ BoardFits' /\ Only(v.net) /\ v.net \in Nets /\ v.net \in ToSet(NetsOf(h.ripped))
      /\ copper'[v.net] = copper[v.net] \cup v.payload.saved.cells
      /\ Residue(v.net)' \subseteq Residue(v.net)
      /\ v.payload.saved.cells \subseteq Carried(h.ripped)
      /\ HeldFits(q)' /\ Carried(q) \subseteq Carried(h.ripped)
  BY <1>3, <1>4, <1>5, <1>6, <1>7, HeldLess
<1>9. PICK n \in Nets : n = v.net
  BY <1>8
<1>10. n \in h.subtree /\ n \notin Roots(h) /\ n # h.net
  BY <1>3, <1>8, <1>9 DEF TapSound
<1>11. q \in Seq(Loads)
  BY <1>3, <1>4, <1>6, LoadsFit
<1>12. PICK f : f = [h EXCEPT !.ripped = q]
  OBVIOUS
<1>13. /\ f \in TapFrames /\ f.kind = "tap" /\ f.stage = "unwind" /\ f.retry = h.retry
       /\ f.ripped = q /\ f.subtree = h.subtree /\ f.net = h.net /\ f.orig = h.orig
       /\ f.ancestors = h.ancestors
  BY <1>3, <1>11, <1>12 DEF TapFrames
<1>14. /\ f \in Frames /\ Succeeds(f, h) /\ Roots(f) = Roots(h) /\ Touched(f) = Touched(h)
       /\ InFlight(f) \subseteq InFlight(h)
  BY <1>3, <1>8, <1>13, TapGoesOn
<1>15. ASSUME NEW g \in Below PROVE Sound(g)'
  <2>1. Beneath(g, h) /\ copper[n] \cap Guarded(g) = {}
    BY <1>2, <1>3, <1>10, BelowFacts, GuardsAreClear
  <2>2. copper'[n] \cap Guarded(g) = {}
    BY <2>1, <1>3, <1>8, <1>9 DEF Beneath
  <2>3. Only(n) /\ n \in Touched(h) /\ Residue(n)' \subseteq Residue(n)
    BY <1>3, <1>8, <1>9, <1>10
  <2> QED
    BY <1>2, <1>3, <1>10, <2>2, <2>3, OthersSound
<1>16. TapSound(f)'
  <2>1. IsRouted(f.net)'
    BY <1>3, <1>8, <1>9, <1>10, <1>13 DEF TapSound, Only, IsRouted
  <2>2. ASSUME NEW k \in Nets \ {h.net}
        PROVE  /\ h.orig.cells \cap Residue(k)' = {}
               /\ k \notin h.subtree => h.orig.cells \cap copper'[k] = {}
    <3>1. Residue(k)' \subseteq Residue(k)
      <4>1. CASE k = n
        BY <4>1, <1>8, <1>9
      <4>2. CASE k # n
        BY <4>2, <1>8, <1>9 DEF Only, Residue, IsRouted
      <4> QED
        BY <4>1, <4>2
    <3>2. k \notin h.subtree => copper'[k] = copper[k]
      BY <1>8, <1>9, <1>10 DEF Only
    <3> QED
      BY <3>1, <3>2, <1>3 DEF TapSound
  <2>3. IsInjective(NetsOf(q))
    BY <1>8, <1>11 DEF HeldFits, IsInjective, NetsOf
  <2> QED
    BY <1>3, <1>13, <1>14, <2>1, <2>2, <2>3 DEF TapSound
<1>17. Ready(f)'
  <2>1. Clear(h.orig.cells, h.net)'
    <3>1. ASSUME NEW k \in Nets \ {h.net} PROVE h.orig.cells \cap copper'[k] = {}
      <4>1. CASE k = n
        BY <4>1, <1>4, <1>8, <1>9 DEF Clear
      <4>2. CASE k # n
        BY <4>2, <1>4, <1>8, <1>9 DEF Clear, Only
      <4> QED
        BY <4>1, <4>2
    <3> QED
      BY <3>1 DEF Clear
  <2>2. h.orig.cells \cap Carried(q) = {}
    BY <1>4, <1>8
  <2> QED
    BY <1>8, <1>13, <2>1, <2>2 DEF Ready
<1>18. Sound(f)'
  BY <1>13, <1>16 DEF Sound
<1>19. Become(f)
  BY <1>2, <1>6, <1>12 DEF TapUnwinds
<1>20. /\ Touched(f) \subseteq Touched(h) /\ InFlight(f) \subseteq InFlight(h) \cup {}
       /\ \A g \in Below : Sound(g)' /\ {} \cap Guarded(g) = {}
  BY <1>14, <1>15
<1> QED
  BY ONLY <1>2, <1>3, <1>8, <1>14, <1>17, <1>18, <1>19, <1>20, GoesOn

----------------------------------------------------------------------------
(* What a call that waits for a return has in hand.                        *)
LEMMA CallerHas ==
  ASSUME CascadeInv, Depth > 1
  PROVE  /\ stack # <<>> /\ Caller \in Frames /\ Caller \in Below /\ Fits(Caller)
         /\ Sound(Caller) /\ Hands(Caller, Top) /\ Beneath(Caller, Top)
<1>1. Shape /\ Stacked /\ stack # <<>>
  BY CascadeIs DEF Depth
<1> QED
  BY <1>1, BelowFacts, TopIsPlaced

LEMMA TapFailsOn ==
  ASSUME CascadeInv, TapFails \/ Abandoned
  PROVE  BoardFits' /\ Stacked'
<1>1. PICK s \in {"unwind", "settled"} : In("tap", s)
  BY DEF TapFails, Abandoned
<1>2. BooksSame /\ Return(Caller)
  BY DEF TapFails, Abandoned, BooksSame, boardVars
<1>3. /\ Shape /\ Depth > 1 /\ Top.kind = "tap" /\ Top.stage = s /\ TapSound(Top) /\ Ready(Top)
  BY <1>1, TapHas
<1>4. PICK f : f = Caller
  OBVIOUS
<1>5. f \in Frames /\ Sound(f) /\ Hands(f, Top)
  BY <1>3, <1>4, CallerHas
<1>6. f.kind \in {"net", "reroute"} /\ f.stage = "commit"
  BY <1>1, <1>3, <1>4, TopIsTap
<1>7. Clear(Top.orig.cells, Top.net)
  BY <1>3 DEF TapSound, Ready, Rips
<1>8. Ready(f)
  BY <1>3, <1>5, <1>6, <1>7 DEF Ready, Hands, Rips
<1>9. /\ Succeeds(f, Caller) /\ Touched(f) \subseteq Touched(Caller)
      /\ InFlight(f) \subseteq InFlight(Caller) \cup {}
      /\ \A g \in Below : {} \cap Guarded(g) = {}
  BY <1>4 DEF Succeeds
<1>10. Return(f)
  BY <1>2, <1>4
<1> QED
  BY ONLY CascadeInv, <1>2, <1>3, <1>5, <1>8, <1>9, <1>10, QuietlyReturns

LEMMA KeepRetryOn ==
  ASSUME CascadeInv, KeepRetry
  PROVE  BoardFits' /\ Stacked'
<1>1. In("tap", "arbitrate") /\ BooksSame
  BY DEF KeepRetry, BooksSame
<1>2. /\ Shape /\ Stacked /\ stack # <<>> /\ Depth > 1 /\ Top.kind = "tap"
      /\ Top.stage = "arbitrate" /\ TapSound(Top)
      /\ InFlight(Top) = Carried(Top.ripped) \cup Top.orig.cells \cup CellsOf(Top.retry)
  BY <1>1, TapHas
<1>3. PICK h : h = Caller
  OBVIOUS
<1>4. h \in Frames /\ Fits(h) /\ Sound(h) /\ Hands(h, Top)
  BY <1>2, <1>3, CallerHas
<1>5. /\ h.kind \in {"net", "reroute"} /\ h.stage = "commit" /\ TapFits(Top)
  BY <1>1, <1>2, <1>3, TopIsTap
<1>6. PICK t : t = Top.retry
  OBVIOUS
<1>7. t \in Taps /\ CellsOf(t) = t.cells /\ Clear(t.cells, Top.net)
  BY <1>2, <1>5, <1>6 DEF TapFits, CellsOf, TapSound
<1>8. PICK f : f = [h EXCEPT !.taps = t]
  OBVIOUS
<1>9. /\ f \in Frames /\ f.kind = h.kind /\ f.stage = "commit" /\ f.taps = t
      /\ f.kind = "net" => f.net = h.net /\ f.lm = h.lm
      /\ f.kind = "reroute" => /\ f.items = h.items /\ f.nested = h.nested
                               /\ f.ancestors = h.ancestors /\ f.depth = h.depth
                               /\ f.main = h.main
  <2>1. CASE h.kind = "net"
    <3>1. h \in NetFrames
      BY <1>4, <2>1 DEF Fits, NetFits
    <3>2. /\ f \in NetFrames /\ f.kind = "net" /\ f.stage = "commit" /\ f.taps = t
          /\ f.net = h.net /\ f.lm = h.lm
      BY <1>5, <1>7, <1>8, <2>1, <3>1 DEF NetFrames
    <3> QED
      BY <2>1, <3>2 DEF Frames
  <2>2. CASE h.kind = "reroute"
    <3>1. h \in RerouteFrames
      BY <1>4, <2>2 DEF Fits, RerouteFits
    <3>2. /\ f \in RerouteFrames /\ f.kind = "reroute" /\ f.stage = "commit" /\ f.taps = t
          /\ f.items = h.items /\ f.nested = h.nested /\ f.main = h.main
          /\ f.depth = h.depth /\ f.ancestors = h.ancestors
      BY <1>5, <1>7, <1>8, <2>2, <3>1 DEF RerouteFrames
    <3> QED
      BY <2>2, <3>2 DEF Frames
  <2> QED
    BY <1>5, <2>1, <2>2
<1>10. Sound(f)
  <2>1. CASE h.kind = "net"
    BY <2>1, <1>4, <1>5, <1>9 DEF Sound, NetSound
  <2>2. CASE h.kind = "reroute"
    <3>1. RerouteSound(h)
      BY <2>2, <1>4 DEF Sound
    <3>2. /\ Touched(f) = Touched(h) /\ Roots(f) = Roots(h) /\ Waiting(f) = Waiting(h)
      BY <2>2, <1>5, <1>9 DEF Touched, Roots, Waiting, ToDo
    <3>3. RerouteSound(f)
      BY <2>2, <1>5, <1>9, <3>1, <3>2 DEF RerouteSound
    <3> QED
      BY <2>2, <1>9, <3>3 DEF Sound
  <2> QED
    BY <1>5, <2>1, <2>2
<1>11. Ready(f)
  <2>1. Top.net = IF h.kind = "net" THEN h.net ELSE h.items[1]
    BY <1>2, <1>4 DEF Hands
  <2> QED
    BY <1>5, <1>7, <1>9, <2>1 DEF Ready, Rips
<1>12. /\ Succeeds(f, h) /\ Touched(f) \subseteq Touched(h)
       /\ InFlight(f) \subseteq InFlight(h) \cup t.cells
  <2>1. CASE h.kind = "net"
    BY <2>1, <1>9 DEF Succeeds, Touched, Roots, InFlight
  <2>2. CASE h.kind = "reroute"
    BY <2>2, <1>7, <1>9 DEF Succeeds, Touched, Roots, InFlight
  <2> QED
    BY <1>5, <2>1, <2>2
<1>13. ASSUME NEW g \in Below PROVE t.cells \cap Guarded(g) = {}
  <2>1. Beneath(g, Top)
    BY <1>2, BelowFacts
  <2> QED
    BY <2>1, <1>2, <1>6, <1>7 DEF Beneath
<1>14. Return(f)
  BY <1>3, <1>6, <1>8 DEF KeepRetry
<1> QED
  BY ONLY CascadeInv, <1>1, <1>2, <1>3, <1>9, <1>10, <1>11, <1>12, <1>13, <1>14, QuietlyReturns

LEMMA AbandonRetryOn ==
  ASSUME CascadeInv, AbandonRetry
  PROVE  BoardFits' /\ Stacked'
<1>1. In("tap", "arbitrate") /\ BooksSame
  BY DEF AbandonRetry, BooksSame
<1>2. PICK h : h = Top
  OBVIOUS
<1>3. /\ stack # <<>> /\ h \in TapFrames /\ h.kind = "tap" /\ h.stage = "arbitrate"
      /\ TapSound(h) /\ h.ripped \in Seq(Loads)
      /\ InFlight(h) = Carried(h.ripped) \cup h.orig.cells \cup CellsOf(h.retry)
      /\ ToSet(NetsOf(h.ripped)) \subseteq h.subtree
  BY <1>1, <1>2, TapHas
<1>4. PICK q \in Seq(Nets) : q = NetsOf(h.ripped)
  BY <1>3, LoadsFit
<1>5. PICK f : f = [h EXCEPT !.stage = "rerip", !.again = q]
  OBVIOUS
<1>6. /\ f \in TapFrames /\ f.kind = "tap" /\ f.stage = "rerip" /\ f.retry = h.retry
      /\ f.ripped = h.ripped /\ f.subtree = h.subtree /\ f.net = h.net /\ f.orig = h.orig
      /\ f.ancestors = h.ancestors /\ f.again = q
  BY <1>3, <1>5 DEF TapFrames, Stages
<1>7. /\ f \in Frames /\ Succeeds(f, h) /\ Roots(f) = Roots(h) /\ Touched(f) = Touched(h)
      /\ InFlight(f) = InFlight(h)
  BY <1>3, <1>6, TapGoesOn
<1>8. TapSound(f)
  BY <1>3, <1>4, <1>6, <1>7 DEF TapSound
<1>9. Sound(f) /\ Ready(f)
  BY <1>6, <1>8 DEF Sound, Ready, Rips
<1>10. Become(f)
  BY <1>2, <1>4, <1>5 DEF AbandonRetry
<1>11. /\ InFlight(f) \subseteq InFlight(h) \cup {} /\ Touched(f) \subseteq Touched(h)
       /\ \A g \in Below : {} \cap Guarded(g) = {}
  BY <1>7
<1> QED
  BY ONLY CascadeInv, <1>1, <1>2, <1>3, <1>7, <1>9, <1>10, <1>11, QuietlyGoesOn

LEMMA OneMoreAgain ==
  ASSUME NEW s \in Seq(Nets), IsInjective(s), NEW m \in Nets, m \notin ToSet(s)
  PROVE  /\ Append(s, m) \in Seq(Nets) /\ IsInjective(Append(s, m))
         /\ ToSet(Append(s, m)) = ToSet(s) \cup {m}
<1>1. PICK k \in Nat : k = Len(s)
  OBVIOUS
<1>2. PICK q : q = Append(s, m)
  OBVIOUS
<1>3. /\ DOMAIN s = 1..k /\ DOMAIN q = 1..(k + 1) /\ q[k + 1] = m /\ q \in Seq(Nets)
      /\ \A i \in 1..k : q[i] = s[i]
  BY <1>1, <1>2
<1>4. \A i \in 1..(k + 1) : i \in 1..k \/ i = k + 1
  OBVIOUS
<1>5. \A i \in 1..k : s[i] # m
  BY <1>3 DEF ToSet
<1>6. IsInjective(q)
  BY <1>3, <1>4, <1>5 DEF IsInjective
<1>7. ToSet(q) = ToSet(s) \cup {m}
  BY <1>3, <1>4 DEF ToSet
<1> QED
  BY <1>2, <1>3, <1>6, <1>7

LEMMA RipsAgainOn ==
  ASSUME CascadeInv, NEW m \in Nets, RipsAgain(m)
  PROVE  BoardFits' /\ Stacked'
<1>1. In("tap", "rerip")
  BY DEF RipsAgain
<1>2. PICK h : h = Top
  OBVIOUS
<1>3. /\ Shape /\ Stacked /\ Mapped /\ BoardFits /\ stack # <<>>
      /\ h \in Frames /\ h \in TapFrames /\ h.kind = "tap" /\ h.stage = "rerip"
      /\ TapSound(h) /\ h.net \in Nets /\ h.subtree \in SUBSET Nets
      /\ h.again \in Seq(Nets) /\ Roots(h) = {h.net} \cup h.ancestors
      /\ Touched(h) = h.subtree /\ ToSet(NetsOf(h.ripped)) \subseteq h.subtree
      /\ InFlight(h) = Carried(h.ripped) \cup h.orig.cells \cup CellsOf(h.retry)
  BY <1>1, <1>2, TapHas
<1>4. IsRouted(m) /\ RipUp(m) /\ m \in h.subtree
  BY <1>2, <1>3 DEF RipsAgain, ToRipAgain
<1>5. m \notin Roots(h) /\ m # h.net
  BY <1>3, <1>4 DEF TapSound
<1>6. PICK f : f = IF m \in ToSet(h.again) THEN h ELSE [h EXCEPT !.again = Append(@, m)]
  OBVIOUS
<1>7. /\ f \in TapFrames /\ f.kind = "tap" /\ f.stage = "rerip" /\ f.retry = h.retry
      /\ f.ripped = h.ripped /\ f.subtree = h.subtree /\ f.net = h.net /\ f.orig = h.orig
      /\ f.ancestors = h.ancestors
      /\ IsInjective(f.again) /\ ToSet(f.again) \subseteq h.subtree
  <2>1. IsInjective(h.again) /\ ToSet(h.again) \subseteq h.subtree
    BY <1>3 DEF TapSound
  <2>2. CASE m \in ToSet(h.again)
    BY <1>3, <1>6, <2>1, <2>2
  <2>3. CASE m \notin ToSet(h.again)
    <3>1. PICK q : q = Append(h.again, m)
      OBVIOUS
    <3>2. q \in Seq(Nets) /\ IsInjective(q) /\ ToSet(q) = ToSet(h.again) \cup {m}
      BY <1>3, <2>1, <2>3, <3>1, OneMoreAgain
    <3>3. f = [h EXCEPT !.again = q]
      BY <1>3, <1>6, <2>3, <3>1 DEF TapFrames
    <3>4. /\ f \in TapFrames /\ f.kind = "tap" /\ f.stage = "rerip" /\ f.retry = h.retry
          /\ f.ripped = h.ripped /\ f.subtree = h.subtree /\ f.net = h.net
          /\ f.orig = h.orig /\ f.ancestors = h.ancestors /\ f.again = q
      BY <1>3, <3>2, <3>3 DEF TapFrames
    <3> QED
      BY <1>4, <2>1, <3>2, <3>4
  <2> QED
    BY <2>2, <2>3
<1>8. /\ f \in Frames /\ Succeeds(f, h) /\ Roots(f) = Roots(h) /\ Touched(f) = h.subtree
      /\ InFlight(f) = InFlight(h)
  BY <1>3, <1>7, TapGoesOn
<1>9. BecomeAfterRip(f, m)
  BY <1>2, <1>6 DEF RipsAgain
<1>10. PICK g : g = Told(f, m)
  OBVIOUS
<1>11. /\ g.kind = "tap" /\ g.stage = "rerip" /\ g.net = h.net /\ g.orig = h.orig
       /\ g.ripped = h.ripped /\ g.again = f.again /\ Roots(g) = Roots(h)
       /\ g.subtree = h.subtree \cup {m}
  BY <1>7, <1>8, <1>10, ToldFields, ToldHas
<1>12. /\ BoardFits' /\ Only(m) /\ Residue(m)' = Residue(m)
  BY <1>3, <1>4, RipFits
<1>13. TapSound(g)'
  <2>1. IsRouted(g.net)'
    BY <1>3, <1>5, <1>11, <1>12 DEF TapSound, Only, IsRouted
  <2>2. g.subtree \cap Roots(g) = {}
    BY <1>3, <1>4, <1>11 DEF TapSound
  <2>3. ASSUME NEW k \in Nets \ {h.net}
        PROVE  /\ h.orig.cells \cap Residue(k)' = {}
               /\ k \notin g.subtree => h.orig.cells \cap copper'[k] = {}
    <3>1. Residue(k)' = Residue(k)
      BY <1>12 DEF Only, Residue, IsRouted
    <3> QED
      BY <3>1, <1>3, <1>11, <1>12 DEF TapSound, Only
  <2>4. IsInjective(NetsOf(h.ripped))
    BY <1>3 DEF TapSound
  <2> QED
    BY <1>7, <1>11, <2>1, <2>2, <2>3, <2>4 DEF TapSound
<1>14. Sound(g)' /\ Ready(g)'
  BY <1>11, <1>13 DEF Sound, Ready, Rips
<1>15. /\ Touched(f) \subseteq Touched(h) \cup {m}
       /\ InFlight(f) \subseteq InFlight(h) \cup copper[m]
  BY <1>3, <1>8
<1> QED
  BY ONLY <1>2, <1>3, <1>4, <1>5, <1>8, <1>9, <1>10, <1>12, <1>14, <1>15, m \in Nets, TellsOn

LEMMA ReroutesAgainOn ==
  ASSUME CascadeInv, ReroutesAgain
  PROVE  BoardFits' /\ Stacked'
<1>1. In("tap", "rerip") /\ BooksSame
  BY BooksAre DEF ReroutesAgain
<1>2. PICK h : h = Top
  OBVIOUS
<1>3. /\ Shape /\ Stacked /\ Mapped /\ BoardFits /\ stack # <<>>
      /\ h \in Frames /\ h \in TapFrames /\ h.kind = "tap" /\ h.stage = "rerip"
      /\ TapSound(h) /\ h.net \in Nets /\ h.subtree \in SUBSET Nets
      /\ h.ancestors \in SUBSET Nets /\ h.depth \in Nat /\ h.depth <= MaxRip
      /\ h.again \in Seq(Nets) /\ Roots(h) = {h.net} \cup h.ancestors
      /\ ExcludedBy(h) = Roots(h) /\ Touched(h) = h.subtree
      /\ InFlight(h) = Carried(h.ripped) \cup h.orig.cells \cup CellsOf(h.retry)
      /\ \A g \in Below : ~(g.kind = "net" /\ g.stage = "reasked")
  BY <1>1, <1>2, TapHas
<1>4. \A m \in h.subtree : ~IsRouted(m)
  BY <1>2, <1>3 DEF ReroutesAgain, ToRipAgain, TapSound
<1>5. PICK f : f = [h EXCEPT !.stage = "settled"]
  OBVIOUS
<1>6. /\ f \in TapFrames /\ f.kind = "tap" /\ f.stage = "settled" /\ f.retry = h.retry
      /\ f.ripped = h.ripped /\ f.subtree = h.subtree /\ f.net = h.net /\ f.orig = h.orig
      /\ f.ancestors = h.ancestors
  BY <1>3, <1>5 DEF TapFrames, Stages
<1>7. /\ f \in Frames /\ Succeeds(f, h) /\ Roots(f) = Roots(h) /\ Touched(f) = h.subtree
      /\ InFlight(f) = InFlight(h)
  BY <1>3, <1>6, TapGoesOn
<1>8. Clear(h.orig.cells, h.net)
  <2>1. ASSUME NEW k \in Nets \ {h.net} PROVE h.orig.cells \cap copper[k] = {}
    <3>1. CASE k \in h.subtree
      <4>1. Residue(k) = copper[k]
        BY <3>1, <1>4 DEF Residue
      <4> QED
        BY <4>1, <1>3 DEF TapSound
    <3>2. CASE k \notin h.subtree
      BY <3>2, <1>3 DEF TapSound
    <3> QED
      BY <3>1, <3>2
  <2> QED
    BY <2>1 DEF Clear
<1>9. Sound(f)
  <2>1. TapSound(f)
    BY <1>3, <1>6, <1>7, <1>8 DEF TapSound
  <2> QED
    BY <1>6, <2>1 DEF Sound
<1>10. PICK q \in Seq(Nets) : q = h.again
  BY <1>3
<1>11. IsInjective(q) /\ ToSet(q) \subseteq h.subtree
  BY <1>3, <1>10 DEF TapSound
<1>12. PICK anc \in SUBSET Nets : anc = Roots(h)
  BY <1>3
<1>13. PICK d \in Nat : d = h.depth + 1
  BY <1>3
<1>14. d <= MaxRip + 1
  BY <1>3, <1>13, OrderFacts
<1>15. PICK k : k = RerouteFrame(q, d, anc)
  OBVIOUS
<1>16. /\ k \in Frames /\ k.kind = "reroute" /\ k.stage = "item" /\ k.items = q
       /\ Roots(k) = anc /\ Touched(k) = ToSet(q) /\ Waiting(k) = ToSet(q)
       /\ InFlight(k) = {} /\ Ready(k)
  BY ONLY q \in Seq(Nets), d \in Nat, anc \in SUBSET Nets, <1>14, <1>15, NewRerouteIs
<1>17. Sound(k)
  <2>1. Touched(k) \cap Roots(k) = {} /\ \A n \in Waiting(k) : ~IsRouted(n)
    BY <1>3, <1>4, <1>11, <1>12, <1>16 DEF TapSound
  <2> QED
    BY <1>11, <1>16, <2>1, NewRerouteSound
<1>18. Beneath(f, k) /\ Hands(f, k)
  <2>1. Spared(f) = Roots(f) /\ Waiting(f) = {}
    BY <1>6 DEF Spared, Waiting
  <2> QED
    BY <1>6, <1>7, <1>11, <1>12, <1>16, <2>1 DEF Beneath, Hands
<1>19. Call(f, k)
  BY <1>2, <1>3, <1>5, <1>10, <1>12, <1>13, <1>15 DEF ReroutesAgain
<1>20. /\ Touched(f) \subseteq Touched(h) /\ Roots(h) \subseteq Roots(k)
       /\ Touched(k) \subseteq Touched(h)
       /\ InFlight(f) \cup InFlight(k) \subseteq InFlight(h) \cup {}
       /\ \A g \in Below : {} \cap Guarded(g) = {}
  BY <1>3, <1>7, <1>11, <1>12, <1>16
<1> QED
  BY ONLY CascadeInv, <1>1, <1>2, <1>3, <1>7, <1>9, <1>16, <1>17, <1>18, <1>19, <1>20,
          QuietlyCalls

----------------------------------------------------------------------------
(* _reroute_phase3_ripped_nets.                                            *)
LEMMA ItemParts ==
  ASSUME NEW s \in Seq(Nets), s # <<>>, IsInjective(s)
  PROVE  /\ s[1] \in Nets /\ s[1] \in ToSet(s) /\ Tail(s) \in Seq(Nets) /\ IsInjective(Tail(s))
         /\ ToSet(Tail(s)) \subseteq ToSet(s) \ {s[1]}
         /\ ToSet(s) \subseteq ToSet(Tail(s)) \cup {s[1]}
<1>1. PICK k \in Nat : k = Len(s)
  OBVIOUS
<1>2. k # 0 /\ DOMAIN s = 1..k
  BY <1>1
<1>3. PICK t : t = Tail(s)
  OBVIOUS
<1>4. /\ t \in Seq(Nets) /\ DOMAIN t = 1..(k - 1)
      /\ \A i \in 1..(k - 1) : t[i] = s[i + 1]
  BY <1>1, <1>2, <1>3
<1>5. \A i \in 1..(k - 1) : i + 1 \in 1..k /\ i + 1 # 1
  BY <1>1
<1>6. 1 \in 1..k /\ s[1] \in Nets
  BY <1>1, <1>2
<1>7. IsInjective(t)
  <2>1. ASSUME NEW i \in 1..(k - 1), NEW j \in 1..(k - 1), t[i] = t[j] PROVE i = j
    <3>1. s[i + 1] = s[j + 1] /\ i + 1 \in DOMAIN s /\ j + 1 \in DOMAIN s
      BY <2>1, <1>2, <1>4, <1>5
    <3>2. i + 1 = j + 1
      BY <3>1 DEF IsInjective
    <3> QED
      BY <3>2
  <2> QED
    BY <2>1, <1>4 DEF IsInjective
<1>8. \A i \in 1..(k - 1) : t[i] \in ToSet(s) /\ t[i] # s[1]
  BY <1>2, <1>4, <1>5, <1>6 DEF ToSet, IsInjective
<1>9. \A i \in 1..k : i # 1 => i - 1 \in 1..(k - 1) /\ s[i] = t[i - 1]
  BY <1>1, <1>4
<1>10. ToSet(t) \subseteq ToSet(s) \ {s[1]}
  BY <1>4, <1>8 DEF ToSet
<1>11. ToSet(s) \subseteq ToSet(t) \cup {s[1]}
  <2>1. ASSUME NEW i \in 1..k, i # 1 PROVE s[i] \in ToSet(t)
    <3>1. i - 1 \in DOMAIN t /\ s[i] = t[i - 1]
      BY <2>1, <1>4, <1>9
    <3> QED
      BY <3>1 DEF ToSet
  <2> QED
    BY <2>1, <1>2 DEF ToSet
<1>12. s[1] \in ToSet(s)
  BY <1>2, <1>6 DEF ToSet
<1> QED
  BY ONLY <1>3, <1>4, <1>6, <1>7, <1>10, <1>11, <1>12

LEMMA RerouteHas ==
  ASSUME CascadeInv, NEW s, In("reroute", s)
  PROVE  /\ Shape /\ Stacked /\ Mapped /\ BoardFits /\ stack # <<>> /\ Depth > 1
         /\ Top \in Frames /\ Top \in RerouteFrames /\ Top.kind = "reroute" /\ Top.stage = s
         /\ RerouteFits(Top) /\ RerouteSound(Top) /\ Ready(Top)
         /\ Top.items \in Seq(Nets) /\ IsInjective(Top.items)
         /\ Top.ancestors \in SUBSET Nets /\ Top.nested \in Seq(Loads) /\ Top.depth \in Nat
         /\ Roots(Top) = Top.ancestors
         /\ Touched(Top) = ToSet(Top.items) \cup ToSet(NetsOf(Top.nested))
         /\ InFlight(Top) = Carried(Top.nested) \cup CellsOf(Top.taps)
         /\ Waiting(Top) = ToSet(IF s = "item" THEN Top.items ELSE Tail(Top.items))
         /\ \A g \in Below : g.kind = "net" /\ g.stage = "reasked" =>
              ToSet(Top.items) \subseteq {g.net} /\ ~(Top.depth < MaxRip)
<1>1. Shape /\ Stacked /\ Mapped /\ BoardFits
  BY CascadeIs
<1>2. /\ stack # <<>> /\ Depth > 1 /\ Top \in Frames /\ Top \in RerouteFrames
      /\ Top.kind = "reroute" /\ Top.stage = s /\ RerouteFits(Top)
  BY <1>1, TopIsReroute
<1>3. Sound(Top) /\ Ready(Top)
  BY <1>1, <1>2, BelowFacts
<1>4. RerouteSound(Top)
  BY <1>2, <1>3 DEF Sound
<1>5. /\ Top.items \in Seq(Nets) /\ Top.ancestors \in SUBSET Nets /\ Top.nested \in Seq(Loads)
      /\ Top.depth \in Nat
  BY <1>2 DEF RerouteFrames
<1>6. /\ Roots(Top) = Top.ancestors
      /\ Touched(Top) = ToSet(Top.items) \cup ToSet(NetsOf(Top.nested))
      /\ InFlight(Top) = Carried(Top.nested) \cup CellsOf(Top.taps)
      /\ Waiting(Top) = ToSet(IF s = "item" THEN Top.items ELSE Tail(Top.items))
  BY <1>2 DEF Roots, Touched, InFlight, Waiting, ToDo
<1>7. ASSUME NEW g \in Below, g.kind = "net", g.stage = "reasked"
      PROVE  ToSet(Top.items) \subseteq {g.net} /\ ~(Top.depth < MaxRip)
  BY <1>1, <1>2, <1>7, NoRipsWhenReasked, OrderFacts
<1>8. IsInjective(Top.items)
  BY <1>4 DEF RerouteSound
<1> QED
  BY <1>1, <1>2, <1>3, <1>4, <1>5, <1>6, <1>7, <1>8

(* The net in hand.                                                        *)
LEMMA ItemHas ==
  ASSUME CascadeInv, NEW s, In("reroute", s), s # "item" \/ Top.items # <<>>
  PROVE  /\ Item \in Nets /\ Item \in Touched(Top) /\ Item \notin Roots(Top)
         /\ Item = Top.items[1] /\ Top.items # <<>> /\ Tail(Top.items) \in Seq(Nets)
         /\ IsInjective(Tail(Top.items)) /\ Item \in ToSet(Top.items)
         /\ ToSet(Tail(Top.items)) \subseteq ToSet(Top.items) \ {Item}
         /\ ToSet(Top.items) \subseteq ToSet(Tail(Top.items)) \cup {Item}
         /\ ToSet(Tail(Top.items)) \subseteq Waiting(Top)
         /\ ExcludedBy(Top) = {Item} \cup Roots(Top) /\ ExcludedBy(Top) \in SUBSET Nets
         /\ \A g \in Below : copper[Item] \cap Guarded(g) = {}
<1>1. PICK h : h = Top
  OBVIOUS
<1>2. /\ Shape /\ Stacked /\ stack # <<>> /\ h.kind = "reroute" /\ h.stage = s
      /\ RerouteFits(h) /\ RerouteSound(h) /\ h.items \in Seq(Nets) /\ IsInjective(h.items)
      /\ h.ancestors \in SUBSET Nets /\ Roots(h) = h.ancestors
      /\ Touched(h) = ToSet(h.items) \cup ToSet(NetsOf(h.nested))
      /\ Waiting(h) = ToSet(IF s = "item" THEN h.items ELSE Tail(h.items))
  BY <1>1, RerouteHas
<1>3. h.items # <<>>
  BY <1>1, <1>2 DEF RerouteFits
<1>4. PICK q \in Seq(Nets) : q = h.items
  BY <1>2
<1>5. /\ q[1] \in Nets /\ q[1] \in ToSet(q) /\ Tail(q) \in Seq(Nets) /\ IsInjective(Tail(q))
      /\ ToSet(Tail(q)) \subseteq ToSet(q) \ {q[1]} /\ ToSet(q) \subseteq ToSet(Tail(q)) \cup {q[1]}
  BY <1>2, <1>3, <1>4, ItemParts
<1>6. Item = q[1]
  BY <1>1, <1>4 DEF Item
<1>7. Item \in Touched(h) /\ Item \notin Roots(h)
  BY <1>2, <1>4, <1>5, <1>6 DEF RerouteSound
<1>8. ExcludedBy(h) = {Item} \cup Roots(h) /\ ExcludedBy(h) \in SUBSET Nets
  BY <1>2, <1>4, <1>5, <1>6 DEF ExcludedBy
<1>9. ToSet(Tail(q)) \subseteq Waiting(h)
  BY <1>2, <1>4, <1>5
<1>10. \A g \in Below : copper[Item] \cap Guarded(g) = {}
  <2>1. PICK n \in Nets : n = Item
    BY <1>5, <1>6
  <2>2. \A g \in Below : copper[n] \cap Guarded(g) = {}
    BY <1>1, <1>2, <1>7, <2>1, GuardsAreClear
  <2> QED
    BY <2>1, <2>2
<1> QED
  BY <1>1, <1>3, <1>4, <1>5, <1>6, <1>7, <1>8, <1>9, <1>10

(* A frame of the same reroute.                                            *)
LEMMA RerouteGoesOn ==
  ASSUME NEW h \in RerouteFrames, NEW f \in RerouteFrames, f.ancestors = h.ancestors,
         f.depth = h.depth, ToSet(f.items) \subseteq ToSet(h.items)
  PROVE  /\ f \in Frames /\ f.kind = "reroute" /\ Succeeds(f, h) /\ Roots(f) = Roots(h)
         /\ Touched(f) = ToSet(f.items) \cup ToSet(NetsOf(f.nested))
         /\ InFlight(f) = Carried(f.nested) \cup CellsOf(f.taps)
         /\ Waiting(f) = ToSet(IF f.stage = "item" THEN f.items ELSE Tail(f.items))
<1>1. f.kind = "reroute" /\ h.kind = "reroute"
  BY DEF RerouteFrames
<1> QED
  BY <1>1 DEF Frames, Succeeds, Roots, Touched, InFlight, Waiting, ToDo

LEMMA ItemsDoneOn ==
  ASSUME CascadeInv, ItemsDone
  PROVE  BoardFits' /\ Stacked'
<1>1. In("reroute", "item") /\ BooksSame
  BY BooksAre DEF ItemsDone
<1>2. /\ Shape /\ Depth > 1 /\ Top \in RerouteFrames
  BY <1>1, RerouteHas
<1>3. PICK h : h = Caller
  OBVIOUS
<1>4. h \in Frames /\ Sound(h) /\ h \in Below
  BY <1>2, <1>3, CallerHas
<1>5. h.stage \in {"arbitrate", "settled", "taps", "reasked"}
  BY <1>1, <1>2, <1>3, TopIsReroute DEF Calls
<1>6. Ready(h)
  BY <1>5 DEF Ready, Rips
<1>7. Return(h)
  BY <1>3 DEF ItemsDone
<1>8. /\ Succeeds(h, Caller) /\ Touched(h) \subseteq Touched(Caller)
      /\ InFlight(h) \subseteq InFlight(Caller) \cup {}
      /\ \A g \in Below : {} \cap Guarded(g) = {}
  BY <1>3 DEF Succeeds
<1> QED
  BY ONLY CascadeInv, <1>1, <1>2, <1>4, <1>6, <1>7, <1>8, QuietlyReturns

LEMMA MainLandsOn ==
  ASSUME CascadeInv, SwitchesSpareTaps, NEW r, MainLands(r)
  PROVE  BoardFits' /\ Stacked'
<1>1. PICK s \in {"item", "retry"} :
        In("reroute", s) /\ (s = "item" => Top.items # <<>> /\ ~IsRouted(Item))
  BY DEF MainLands
<1>2. PICK h : h = Top
  OBVIOUS
<1>3. /\ Shape /\ Stacked /\ Mapped /\ BoardFits /\ stack # <<>> /\ Depth > 1
      /\ h \in Frames /\ h \in RerouteFrames /\ h.kind = "reroute" /\ h.stage = s
      /\ RerouteFits(h) /\ RerouteSound(h) /\ Ready(h) /\ h.items \in Seq(Nets)
      /\ IsInjective(h.items) /\ h.nested \in Seq(Loads) /\ h.depth \in Nat
      /\ Touched(h) = ToSet(h.items) \cup ToSet(NetsOf(h.nested))
      /\ InFlight(h) = Carried(h.nested) \cup CellsOf(h.taps)
      /\ \A g \in Below : g.kind = "net" /\ g.stage = "reasked" =>
           ToSet(h.items) \subseteq {g.net} /\ ~(h.depth < MaxRip)
  BY <1>1, <1>2, RerouteHas
<1>4. PICK n \in Nets : n = Item
  BY <1>1, ItemHas
<1>5. /\ n \in Touched(h) /\ n \notin Roots(h) /\ n = h.items[1] /\ n \in ToSet(h.items)
      /\ ToSet(Tail(h.items)) \subseteq ToSet(h.items) \ {n}
      /\ ToSet(Tail(h.items)) \subseteq Waiting(h)
      /\ ExcludedBy(h) = {n} \cup Roots(h) /\ ExcludedBy(h) \in SUBSET Nets
      /\ \A g \in Below : copper[n] \cap Guarded(g) = {}
  BY <1>1, <1>2, <1>4, ItemHas
<1>6. ~IsRouted(n)
  BY <1>1, <1>3, <1>4, <1>5 DEF RerouteSound
<1>7. PICK kept \in {copper[n]} \cup SwitchedCopper(n) :
        r \cap (kept \cup BlockedRows(PreparedMap(n))) = {} /\ RecordSuccess(n, r, kept)
  BY <1>4 DEF MainLands
<1>8. PICK R \in SUBSET Cells : R = r
  BY <1>4, CopperAssumption DEF MainLands
<1>9. /\ Clear(R, n) /\ R \cap kept = {}
      /\ \A i \in 1..Depth : R \cap Guarded(stack[i]) = {}
  BY <1>7, <1>8, SearchAvoids DEF CascadeInv
<1>10. RecordSuccess(n, R, kept) /\ kept \in SUBSET Cells /\ Clear(kept, n)
  BY <1>3, <1>7, <1>8, SwitchedIsClear
<1>11. /\ BoardFits' /\ Only(n) /\ routed'[n] = Found(n, R) /\ IsRouted(n)'
       /\ copper'[n] = kept \cup R /\ Residue(n)' = kept \ R
  BY <1>3, <1>6, <1>9, <1>10, LandFits
<1>11k. Residue(n)' = kept /\ Residue(n) = copper[n]
  BY <1>6, <1>9, <1>11 DEF Residue
<1>12. PICK res \in Results : res = Found(n, R)
  BY FoundFits
<1>13. PICK f : f = [h EXCEPT !.stage = "taps", !.main = res]
  OBVIOUS
<1>14. /\ f \in RerouteFrames /\ f.kind = "reroute" /\ f.stage = "taps" /\ f.main = res
       /\ f.items = h.items /\ f.nested = h.nested /\ f.depth = h.depth
       /\ f.ancestors = h.ancestors /\ f.taps = h.taps
  BY <1>3, <1>13 DEF RerouteFrames, Stages
<1>15. /\ f \in Frames /\ Succeeds(f, h) /\ Roots(f) = Roots(h) /\ Touched(f) = Touched(h)
       /\ InFlight(f) = InFlight(h) /\ Waiting(f) = ToSet(Tail(h.items))
  <2>1. /\ f \in Frames /\ f.kind = "reroute" /\ Succeeds(f, h) /\ Roots(f) = Roots(h)
        /\ Touched(f) = ToSet(f.items) \cup ToSet(NetsOf(f.nested))
        /\ InFlight(f) = Carried(f.nested) \cup CellsOf(f.taps)
        /\ Waiting(f) = ToSet(IF f.stage = "item" THEN f.items ELSE Tail(f.items))
    BY <1>3, <1>14, RerouteGoesOn
  <2> QED
    BY <2>1, <1>3, <1>14
<1>16. RerouteSound(f)'
  <2>1. \A k \in Waiting(f) : ~IsRouted(k)'
    <3>1. ASSUME NEW k \in Waiting(f) PROVE ~IsRouted(k)'
      <4>1. k # n /\ k \in Waiting(h)
        BY <3>1, <1>5, <1>15
      <4>2. ~IsRouted(k) /\ k \in Nets
        <5>1. Tail(h.items) \in Seq(Nets)
          BY <1>1, <1>2, ItemHas
        <5>2. k \in Nets
          BY <3>1, <5>1, <1>15 DEF ToSet
        <5> QED
          BY <5>2, <4>1, <1>3 DEF RerouteSound
      <4> QED
        BY <4>1, <4>2, <1>11 DEF Only, IsRouted
    <3> QED
      BY <3>1
  <2>2. routed'[f.items[1]] = f.main
    BY <1>5, <1>11, <1>12, <1>14
  <2>3. Touched(f) \cap Roots(f) = {} /\ IsInjective(f.items)
    BY <1>3, <1>14, <1>15 DEF RerouteSound
  <2> QED
    BY <1>14, <2>1, <2>2, <2>3 DEF RerouteSound
<1>17. Sound(f)' /\ Ready(f)'
  BY <1>14, <1>16 DEF Sound, Ready, Rips
<1>18. ASSUME NEW g \in Below PROVE Sound(g)'
  <2>1. R \cap Guarded(g) = {}
    BY <1>3, <1>9, CallersAre
  <2>2. (kept \ copper[n]) \cap HeldBack(g) = {}
    <3>1. PICK i \in 1..Depth : g = stack[i]
      BY <1>3, TopIsPlaced DEF Below
    <3> QED
      BY <3>1, <1>11k DEF SwitchesSpareTaps
  <2>3. g.kind = "tap" => g.orig.cells \subseteq HeldBack(g)
    BY DEF HeldBack
  <2>4. g.kind # "tap" => Guarded(g) = {}
    BY DEF Guarded
  <2>5. g.kind = "tap" => Guarded(g) \subseteq HeldBack(g)
    BY DEF HeldBack
  <2>6. kept \cap Guarded(g) = {}
    BY <2>2, <2>4, <2>5, <1>5
  <2>7. copper'[n] \cap Guarded(g) = {}
    BY <2>1, <2>6, <1>11
  <2>8. g.kind = "tap" => Residue(n)' \cap g.orig.cells \subseteq Residue(n)
    BY <2>2, <2>3, <1>11k
  <2>9. g.kind = "net" /\ g.stage = "reasked" => n = g.net
    BY <1>3, <1>5
  <2> QED
    BY <1>2, <1>3, <1>5, <1>11, <2>7, <2>8, <2>9, OthersStaySound
<1>19. /\ Touched(f) \subseteq Touched(h) /\ InFlight(f) \subseteq InFlight(h) \cup {}
       /\ \A g \in Below : Sound(g)' /\ {} \cap Guarded(g) = {}
  BY <1>15, <1>18
<1>20. CASE h.nested = <<>>
  <2>1. Become(f)
    BY <1>2, <1>4, <1>8, <1>12, <1>13, <1>20 DEF MainLands
  <2> QED
    BY ONLY <1>2, <1>3, <1>11, <1>15, <1>17, <1>19, <2>1, GoesOn
<1>21. CASE h.nested # <<>>
  <2>1. s = "retry" /\ h.depth < MaxRip
    BY <1>1, <1>3, <1>21 DEF RerouteFits
  <2>2. HeldFits(h.nested) /\ \A i \in DOMAIN h.nested : h.nested[i].net \notin ToSet(h.items)
    BY <2>1, <1>3 DEF Ready, Rips
  <2>3. PICK q \in Seq(Nets) : q = NetsOf(h.nested)
    BY <1>3, LoadsFit
  <2>4. IsInjective(q) /\ \A k \in ToSet(q) : ~IsRouted(k)
    BY <1>3, <2>2, <2>3, HeldIsInjective
  <2>5. ToSet(q) \cap ToSet(h.items) = {} /\ ToSet(q) \subseteq Nets
    BY <2>2, <2>3 DEF ToSet, NetsOf
  <2>6. \A k \in ToSet(q) : ~IsRouted(k)'
    BY <2>4, <2>5, <1>5, <1>11 DEF Only, IsRouted
  <2>7. PICK anc \in SUBSET Nets : anc = ExcludedBy(h)
    BY <1>5
  <2>8. PICK d \in Nat : d = h.depth + 1
    BY <1>3
  <2>9. d <= MaxRip + 1
    BY <2>1, <2>8, <1>3, OrderFacts
  <2>10. PICK k : k = RerouteFrame(q, d, anc)
    OBVIOUS
  <2>11. /\ k \in Frames /\ k.kind = "reroute" /\ k.stage = "item" /\ k.items = q
         /\ Roots(k) = anc /\ Touched(k) = ToSet(q) /\ Waiting(k) = ToSet(q)
         /\ InFlight(k) = {} /\ Ready(k)'
    BY ONLY q \in Seq(Nets), d \in Nat, anc \in SUBSET Nets, <2>9, <2>10, NewRerouteIs
  <2>12. Touched(k) \cap Roots(k) = {}
    BY <1>3, <1>5, <2>3, <2>5, <2>7, <2>11 DEF RerouteSound
  <2>13. Sound(k)'
    BY <2>4, <2>6, <2>11, <2>12, NewRerouteSoundNext
  <2>14. Beneath(f, k) /\ Hands(f, k)
    <3>1. Spared(f) = Roots(f) \cup {n}
      BY <1>5, <1>14 DEF Spared
    <3>2. Waiting(f) \cap Touched(k) = {}
      BY <1>5, <1>15, <2>5, <2>11
    <3> QED
      BY <1>5, <1>14, <1>15, <2>7, <2>11, <3>1, <3>2 DEF Beneath, Hands
  <2>15. Call(f, k)
    BY <1>2, <1>4, <1>8, <1>12, <1>13, <1>21, <2>3, <2>7, <2>8, <2>10 DEF MainLands
  <2>16. /\ Roots(h) \subseteq Roots(k) /\ Touched(k) \subseteq Touched(h)
         /\ InFlight(f) \cup InFlight(k) \subseteq InFlight(h) \cup {}
         /\ \A g \in Below : ~(g.kind = "net" /\ g.stage = "reasked")
    BY <1>3, <1>5, <1>15, <2>1, <2>3, <2>7, <2>11
  <2> QED
    BY ONLY <1>2, <1>3, <1>11, <1>15, <1>17, <1>19, <2>11, <2>13, <2>14, <2>15, <2>16, CallsOn
<1> QED
  BY <1>20, <1>21

(* A reroute that only turns to another stage of its rip-up.               *)
LEMMA MainTurnsOn ==
  ASSUME CascadeInv, NEW s \in {"item", "level", "retry"}, NEW u \in {"level", "unwind"},
         In("reroute", s), s = "item" => Top.items # <<>> /\ ~IsRouted(Item),
         Goto(u), UNCHANGED boardVars
  PROVE  BoardFits' /\ Stacked'
<1>1. PICK h : h = Top
  OBVIOUS
<1>2. /\ stack # <<>> /\ h \in RerouteFrames /\ h.kind = "reroute" /\ h.stage = s
      /\ RerouteFits(h) /\ RerouteSound(h) /\ Ready(h) /\ h.items \in Seq(Nets)
      /\ h.nested \in Seq(Loads)
      /\ Touched(h) = ToSet(h.items) \cup ToSet(NetsOf(h.nested))
      /\ InFlight(h) = Carried(h.nested) \cup CellsOf(h.taps)
  BY <1>1, RerouteHas
<1>3. PICK f : f = [h EXCEPT !.stage = u]
  OBVIOUS
<1>4. /\ f \in RerouteFrames /\ f.kind = "reroute" /\ f.stage = u /\ f.main = h.main
      /\ f.items = h.items /\ f.nested = h.nested /\ f.depth = h.depth
      /\ f.ancestors = h.ancestors /\ f.taps = h.taps
  BY <1>2, <1>3 DEF RerouteFrames, Stages
<1>5. /\ f \in Frames /\ Succeeds(f, h) /\ Roots(f) = Roots(h) /\ Touched(f) = Touched(h)
      /\ InFlight(f) = InFlight(h) /\ Waiting(f) = ToSet(Tail(h.items))
  <2>1. /\ f \in Frames /\ f.kind = "reroute" /\ Succeeds(f, h) /\ Roots(f) = Roots(h)
        /\ Touched(f) = ToSet(f.items) \cup ToSet(NetsOf(f.nested))
        /\ InFlight(f) = Carried(f.nested) \cup CellsOf(f.taps)
        /\ Waiting(f) = ToSet(IF f.stage = "item" THEN f.items ELSE Tail(f.items))
    BY <1>2, <1>4, RerouteGoesOn
  <2> QED
    BY <2>1, <1>2, <1>4
<1>6. ToSet(Tail(h.items)) \subseteq Waiting(h) /\ Item = h.items[1]
  BY <1>1, ItemHas
<1>7. RerouteSound(f)
  <2>1. ~IsRouted(f.items[1])
    BY <1>2, <1>4, <1>6 DEF RerouteSound
  <2> QED
    BY <1>2, <1>4, <1>5, <1>6, <2>1 DEF RerouteSound
<1>8. Ready(f)
  <2>1. CASE s = "item"
    <3>1. h.nested = <<>>
      BY <2>1, <1>2 DEF RerouteFits
    <3>2. HeldFits(f.nested) /\ DOMAIN f.nested = {}
      BY <3>1, <1>4, NothingHeld
    <3> QED
      BY <3>2, <1>4 DEF Ready
  <2>2. CASE s # "item"
    BY <2>2, <1>2, <1>4 DEF Ready, Rips
  <2> QED
    BY <2>1, <2>2
<1>9. Sound(f)
  BY <1>4, <1>7 DEF Sound
<1>10. Become(f) /\ BooksSame
  BY <1>1, <1>3, BooksAre DEF Goto
<1>11. /\ InFlight(f) \subseteq InFlight(h) \cup {} /\ Touched(f) \subseteq Touched(h)
       /\ \A g \in Below : {} \cap Guarded(g) = {}
  BY <1>5
<1> QED
  BY ONLY CascadeInv, <1>1, <1>2, <1>5, <1>8, <1>9, <1>10, <1>11, QuietlyGoesOn

LEMMA MainOpensRipUpOn ==
  ASSUME CascadeInv, MainOpensRipUp \/ MainRetryFails \/ MainGivesUp
  PROVE  BoardFits' /\ Stacked'
  BY MainTurnsOn DEF MainOpensRipUp, MainRetryFails, MainGivesUp

LEMMA MainRipsOn ==
  ASSUME CascadeInv, NEW m \in Nets, MainRips(m)
  PROVE  BoardFits' /\ Stacked'
<1>1. In("reroute", "level")
  BY DEF MainRips
<1>2. PICK h : h = Top
  OBVIOUS
<1>3. /\ Shape /\ Stacked /\ Mapped /\ BoardFits /\ stack # <<>>
      /\ h \in Frames /\ h \in RerouteFrames /\ h.kind = "reroute" /\ h.stage = "level"
      /\ RerouteFits(h) /\ RerouteSound(h) /\ Ready(h) /\ h.items \in Seq(Nets)
      /\ IsInjective(h.items) /\ h.nested \in Seq(Loads)
      /\ Touched(h) = ToSet(h.items) \cup ToSet(NetsOf(h.nested))
      /\ InFlight(h) = Carried(h.nested) \cup CellsOf(h.taps)
      /\ Waiting(h) = ToSet(Tail(h.items))
  BY <1>1, <1>2, RerouteHas
<1>4. PICK n \in Nets : n = Item
  BY <1>1, ItemHas
<1>5. /\ n = h.items[1] /\ ToSet(h.items) \subseteq ToSet(Tail(h.items)) \cup {n}
      /\ ExcludedBy(h) = {n} \cup Roots(h) /\ Tail(h.items) \in Seq(Nets)
  BY <1>1, <1>2, <1>4, ItemHas
<1>6. IsRouted(m) /\ RipUp(m) /\ m \notin Roots(h) /\ m # n
  BY <1>2, <1>5 DEF MainRips, Rippable, Nameable
<1>7. m \notin ToSet(h.items)
  <2>1. m \notin Waiting(h)
    BY <1>3, <1>6 DEF RerouteSound
  <2> QED
    BY <2>1, <1>3, <1>5, <1>6
<1>8. HeldFits(h.nested) /\ \A i \in DOMAIN h.nested : h.nested[i].net \notin ToSet(h.items)
  BY <1>3 DEF Ready, Rips
<1>9. PICK q : q = Append(h.nested, Victim(m))
  OBVIOUS
<1>10. /\ HeldFits(q)' /\ Carried(q) \subseteq Carried(h.nested) \cup copper[m]
       /\ ToSet(NetsOf(q)) \subseteq ToSet(NetsOf(h.nested)) \cup {m}
  <2>1. PICK r \in Seq(Loads) : r = h.nested
    BY <1>3
  <2>2. HeldFits(r) /\ q = Append(r, Victim(m))
    BY <1>8, <1>9, <2>1
  <2>3. /\ HeldFits(q)' /\ Carried(q) \subseteq Carried(r) \cup copper[m]
        /\ ToSet(NetsOf(q)) \subseteq ToSet(NetsOf(r)) \cup {m}
    <3>1. Mapped /\ BoardFits /\ IsRouted(m) /\ RipUp(m)
      BY <1>3, <1>6
    <3> QED
      BY ONLY <3>1, <2>2, r \in Seq(Loads), m \in Nets, HeldMore
  <2> QED
    BY <2>1, <2>3
<1>11. q \in Seq(Loads)
  BY <1>3, <1>6, <1>9, VictimFits
<1>12. \A i \in DOMAIN q : q[i].net \notin ToSet(h.items)
  <2>1. \A i \in DOMAIN q : q[i].net \in ToSet(NetsOf(q))
    BY DEF ToSet, NetsOf
  <2>2. \A k \in ToSet(NetsOf(h.nested)) : k \notin ToSet(h.items)
    BY <1>8 DEF ToSet, NetsOf
  <2> QED
    BY <2>1, <2>2, <1>7, <1>10
<1>13. PICK f : f = [h EXCEPT !.stage = "retry", !.nested = q]
  OBVIOUS
<1>14. /\ f \in RerouteFrames /\ f.kind = "reroute" /\ f.stage = "retry" /\ f.main = h.main
       /\ f.items = h.items /\ f.nested = q /\ f.depth = h.depth
       /\ f.ancestors = h.ancestors /\ f.taps = h.taps
  BY <1>3, <1>11, <1>13 DEF RerouteFrames, Stages
<1>15. /\ f \in Frames /\ Succeeds(f, h) /\ Roots(f) = Roots(h)
       /\ Touched(f) = ToSet(h.items) \cup ToSet(NetsOf(q))
       /\ InFlight(f) = Carried(q) \cup CellsOf(h.taps) /\ Waiting(f) = Waiting(h)
  <2>1. /\ f \in Frames /\ f.kind = "reroute" /\ Succeeds(f, h) /\ Roots(f) = Roots(h)
        /\ Touched(f) = ToSet(f.items) \cup ToSet(NetsOf(f.nested))
        /\ InFlight(f) = Carried(f.nested) \cup CellsOf(f.taps)
        /\ Waiting(f) = ToSet(IF f.stage = "item" THEN f.items ELSE Tail(f.items))
    BY <1>3, <1>14, RerouteGoesOn
  <2> QED
    BY <2>1, <1>3, <1>14
<1>16. BecomeAfterRip(f, m)
  BY <1>2, <1>9, <1>13 DEF MainRips
<1>17. PICK g : g = Told(f, m)
  OBVIOUS
<1>18. g = f
  BY <1>14, <1>17 DEF Told
<1>19. /\ BoardFits' /\ Only(m)
  BY <1>3, <1>6, RipFits
<1>20. RerouteSound(f)'
  <2>1. \A k \in Waiting(f) : ~IsRouted(k)'
    <3>1. ASSUME NEW k \in Waiting(f) PROVE ~IsRouted(k)'
      <4>1. ~IsRouted(k) /\ k # m
        BY <3>1, <1>3, <1>6, <1>15 DEF RerouteSound
      <4>2. k \in Nets
        BY <3>1, <1>3, <1>5, <1>15 DEF ToSet
      <4> QED
        BY <4>1, <4>2, <1>19 DEF Only, IsRouted
    <3> QED
      BY <3>1
  <2>2. ~IsRouted(n)'
    BY <1>3, <1>5, <1>6, <1>19 DEF RerouteSound, Only, IsRouted
  <2>3. Touched(f) \cap Roots(f) = {} /\ IsInjective(f.items)
    BY <1>3, <1>6, <1>10, <1>14, <1>15 DEF RerouteSound
  <2> QED
    BY <1>5, <1>14, <2>1, <2>2, <2>3 DEF RerouteSound
<1>21. Sound(g)' /\ Ready(g)'
  BY <1>10, <1>12, <1>14, <1>18, <1>20 DEF Sound, Ready
<1>22. Rips(h)
  BY <1>3 DEF Rips
<1>23. /\ Touched(f) \subseteq Touched(h) \cup {m}
       /\ InFlight(f) \subseteq InFlight(h) \cup copper[m]
  BY <1>3, <1>10, <1>15
<1> QED
  BY ONLY <1>2, <1>3, <1>6, <1>15, <1>16, <1>17, <1>19, <1>21, <1>22, <1>23, m \in Nets,
          TellsOn

LEMMA MainUnwindsOn ==
  ASSUME CascadeInv, MainUnwinds
  PROVE  BoardFits' /\ Stacked'
<1>1. In("reroute", "unwind")
  BY DEF MainUnwinds
<1>2. PICK h : h = Top
  OBVIOUS
<1>3. /\ Shape /\ Stacked /\ Mapped /\ BoardFits /\ stack # <<>>
      /\ h \in Frames /\ h \in RerouteFrames /\ h.kind = "reroute" /\ h.stage = "unwind"
      /\ RerouteFits(h) /\ RerouteSound(h) /\ Ready(h) /\ h.items \in Seq(Nets)
      /\ IsInjective(h.items) /\ h.nested \in Seq(Loads)
      /\ Touched(h) = ToSet(h.items) \cup ToSet(NetsOf(h.nested))
      /\ InFlight(h) = Carried(h.nested) \cup CellsOf(h.taps)
      /\ Waiting(h) = ToSet(Tail(h.items))
      /\ \A g \in Below : g.kind = "net" /\ g.stage = "reasked" => ~(h.depth < MaxRip)
  BY <1>1, <1>2, RerouteHas
<1>4. PICK n \in Nets : n = Item
  BY <1>1, ItemHas
<1>5. /\ n = h.items[1] /\ ToSet(Tail(h.items)) \subseteq ToSet(h.items) /\ n \in ToSet(h.items)
      /\ Tail(h.items) \in Seq(Nets)
  BY <1>1, <1>2, <1>4, ItemHas
<1>6. h.nested # <<>> /\ HeldFits(h.nested) /\ h.depth < MaxRip
      /\ \A i \in DOMAIN h.nested : h.nested[i].net \notin ToSet(h.items)
  BY <1>2, <1>3 DEF MainUnwinds, Ready, Rips, RerouteFits
<1>7. PICK v : v = Last(h.nested)
  OBVIOUS
<1>8. PICK q : q = Front(h.nested)
  OBVIOUS
<1>9. RestoreNet(v.net, v.payload)
  BY <1>2, <1>7 DEF MainUnwinds
<1>10. /\ BoardFits' /\ Only(v.net) /\ v.net \in Nets /\ v.net \in ToSet(NetsOf(h.nested))
       /\ copper'[v.net] = copper[v.net] \cup v.payload.saved.cells
       /\ Residue(v.net)' \subseteq Residue(v.net)
       /\ v.payload.saved.cells \subseteq Carried(h.nested)
       /\ HeldFits(q)' /\ Carried(q) \subseteq Carried(h.nested)
       /\ ToSet(NetsOf(q)) \subseteq ToSet(NetsOf(h.nested))
  BY <1>3, <1>6, <1>7, <1>8, <1>9, HeldLess
<1>11. PICK k \in Nets : k = v.net
  BY <1>10
<1>12. \A j \in ToSet(NetsOf(h.nested)) : j \notin ToSet(h.items)
  BY <1>6 DEF ToSet, NetsOf
<1>13. k \in Touched(h) /\ k \notin Roots(h) /\ k \notin ToSet(h.items)
  BY <1>3, <1>10, <1>11, <1>12 DEF RerouteSound
<1>14. q \in Seq(Loads)
  BY <1>3, <1>6, <1>8, LoadsFit
<1>15. PICK f : f = [h EXCEPT !.nested = q]
  OBVIOUS
<1>16. /\ f \in RerouteFrames /\ f.kind = "reroute" /\ f.stage = "unwind" /\ f.main = h.main
       /\ f.items = h.items /\ f.nested = q /\ f.depth = h.depth
       /\ f.ancestors = h.ancestors /\ f.taps = h.taps
  BY <1>3, <1>14, <1>15 DEF RerouteFrames
<1>17. /\ f \in Frames /\ Succeeds(f, h) /\ Roots(f) = Roots(h)
       /\ Touched(f) = ToSet(h.items) \cup ToSet(NetsOf(q))
       /\ InFlight(f) = Carried(q) \cup CellsOf(h.taps) /\ Waiting(f) = Waiting(h)
  <2>1. /\ f \in Frames /\ f.kind = "reroute" /\ Succeeds(f, h) /\ Roots(f) = Roots(h)
        /\ Touched(f) = ToSet(f.items) \cup ToSet(NetsOf(f.nested))
        /\ InFlight(f) = Carried(f.nested) \cup CellsOf(f.taps)
        /\ Waiting(f) = ToSet(IF f.stage = "item" THEN f.items ELSE Tail(f.items))
    BY <1>3, <1>16, RerouteGoesOn
  <2> QED
    BY <2>1, <1>3, <1>16
<1>18. ASSUME NEW g \in Below PROVE Sound(g)'
  <2>1. Beneath(g, h) /\ copper[k] \cap Guarded(g) = {}
    BY <1>2, <1>3, <1>13, BelowFacts, GuardsAreClear
  <2>2. copper'[k] \cap Guarded(g) = {}
    BY <2>1, <1>3, <1>10, <1>11 DEF Beneath
  <2>3. Only(k) /\ k \in Touched(h) /\ Residue(k)' \subseteq Residue(k)
    BY <1>10, <1>11, <1>13
  <2>4. ~(g.kind = "net" /\ g.stage = "reasked")
    BY <1>3, <1>6
  <2> QED
    BY <1>2, <1>3, <1>13, <2>2, <2>3, <2>4, OthersSound
<1>19. RerouteSound(f)'
  <2>1. \A j \in Waiting(f) : ~IsRouted(j)'
    <3>1. ASSUME NEW j \in Waiting(f) PROVE ~IsRouted(j)'
      <4>1. ~IsRouted(j) /\ j # k
        BY <3>1, <1>3, <1>5, <1>13, <1>17 DEF RerouteSound
      <4>2. j \in Nets
        BY <3>1, <1>3, <1>5, <1>17 DEF ToSet
      <4> QED
        BY <4>1, <4>2, <1>10, <1>11 DEF Only, IsRouted
    <3> QED
      BY <3>1
  <2>2. ~IsRouted(n)'
    <3>1. n # k /\ ~IsRouted(n)
      BY <1>3, <1>5, <1>13 DEF RerouteSound
    <3> QED
      BY <3>1, <1>10, <1>11 DEF Only, IsRouted
  <2>3. Touched(f) \cap Roots(f) = {} /\ IsInjective(f.items)
    BY <1>3, <1>10, <1>16, <1>17 DEF RerouteSound
  <2> QED
    BY <1>5, <1>16, <2>1, <2>2, <2>3 DEF RerouteSound
<1>20. \A i \in DOMAIN q : q[i].net \notin ToSet(h.items)
  <2>1. \A i \in DOMAIN q : q[i].net \in ToSet(NetsOf(q))
    BY DEF ToSet, NetsOf
  <2> QED
    BY <2>1, <1>10, <1>12
<1>21. Sound(f)' /\ Ready(f)'
  BY <1>10, <1>16, <1>19, <1>20 DEF Sound, Ready
<1>22. Become(f)
  BY <1>2, <1>8, <1>15 DEF MainUnwinds
<1>23. /\ Touched(f) \subseteq Touched(h) /\ InFlight(f) \subseteq InFlight(h) \cup {}
       /\ \A g \in Below : Sound(g)' /\ {} \cap Guarded(g) = {}
  BY <1>3, <1>10, <1>17, <1>18
<1> QED
  BY ONLY <1>2, <1>3, <1>10, <1>17, <1>21, <1>22, <1>23, GoesOn

(* The next of the nets.                                                   *)
LEMMA NextItemIs ==
  ASSUME CascadeInv, NEW s, In("reroute", s), s # "item" \/ Top.items # <<>>,
         NextItem
  PROVE  \E f \in Frames :
           /\ Become(f) /\ Succeeds(f, Top) /\ Touched(f) \subseteq Touched(Top)
           /\ InFlight(f) = {} /\ f.kind = "reroute" /\ f.stage = "item"
           /\ IsInjective(f.items) /\ Touched(f) \cap Roots(f) = {}
           /\ Waiting(f) \subseteq Waiting(Top) /\ Item \notin Waiting(f)
           /\ Waiting(f) \subseteq Nets /\ f.items = Tail(Top.items)
<1>1. PICK h : h = Top
  OBVIOUS
<1>2. /\ h \in RerouteFrames /\ RerouteSound(h)
      /\ Touched(h) = ToSet(h.items) \cup ToSet(NetsOf(h.nested))
  BY <1>1, RerouteHas
<1>3. PICK n \in Nets : n = Item
  BY ItemHas
<1>4. PICK q \in Seq(Nets) : q = Tail(h.items)
  BY <1>1, ItemHas
<1>5. /\ IsInjective(q) /\ ToSet(q) \subseteq ToSet(h.items) \ {n} /\ ToSet(q) \subseteq Waiting(h)
  BY <1>1, <1>3, <1>4, ItemHas
<1>7. PICK e \in Seq(Loads) : e = <<>>
  <2>1. <<>> \in Seq(Loads)
    OBVIOUS
  <2> QED
    BY <2>1, Zenon
<1>8. PICK f : f = [h EXCEPT !.stage = "item", !.items = q, !.main = None,
                             !.nested = e, !.taps = None]
  OBVIOUS
<1>9. /\ f \in RerouteFrames /\ f.kind = "reroute" /\ f.stage = "item" /\ f.items = q
      /\ f.nested = e /\ f.depth = h.depth /\ f.ancestors = h.ancestors /\ f.taps = None
  BY <1>2, <1>8 DEF RerouteFrames, Stages
<1>10. f = [Top EXCEPT !.stage = "item", !.items = Tail(@), !.main = None,
                       !.nested = <<>>, !.taps = None]
  BY <1>1, <1>4, <1>7, <1>8
<1>11. Become(f)
  BY <1>10 DEF NextItem
<1>12. /\ f \in Frames /\ Succeeds(f, h) /\ Roots(f) = Roots(h)
       /\ Touched(f) = ToSet(q) \cup ToSet(NetsOf(e))
       /\ InFlight(f) = Carried(e) \cup CellsOf(None) /\ Waiting(f) = ToSet(q)
  <2>0. ToSet(f.items) \subseteq ToSet(h.items)
    BY <1>5, <1>9
  <2>1. /\ f \in Frames /\ f.kind = "reroute" /\ Succeeds(f, h) /\ Roots(f) = Roots(h)
        /\ Touched(f) = ToSet(f.items) \cup ToSet(NetsOf(f.nested))
        /\ InFlight(f) = Carried(f.nested) \cup CellsOf(f.taps)
        /\ Waiting(f) = ToSet(IF f.stage = "item" THEN f.items ELSE Tail(f.items))
    BY <1>2, <1>9, <2>0, RerouteGoesOn
  <2> QED
    BY <2>1, <1>9
<1>13. Carried(e) = {} /\ ToSet(NetsOf(e)) = {} /\ CellsOf(None) = {}
  BY <1>7, NothingHeld, NoneIsNoTaps DEF CellsOf
<1>14. Touched(f) \cap Roots(f) = {} /\ Touched(f) \subseteq Touched(h)
  BY <1>2, <1>5, <1>12, <1>13 DEF RerouteSound
<1>15. ToSet(q) \subseteq Nets
  BY <1>4 DEF ToSet
<1>16. /\ InFlight(f) = {} /\ Waiting(f) \subseteq Waiting(h) /\ n \notin Waiting(f)
       /\ Waiting(f) \subseteq Nets /\ IsInjective(f.items)
  BY <1>5, <1>9, <1>12, <1>13, <1>15
<1> QED
  BY ONLY <1>1, <1>3, <1>4, <1>9, <1>11, <1>12, <1>14, <1>16

LEMMA QuietlyNext ==
  ASSUME CascadeInv, NEW s, In("reroute", s), s # "item" \/ Top.items # <<>>,
         NextItem, UNCHANGED boardVars
  PROVE  BoardFits' /\ Stacked'
<1>1. PICK f \in Frames :
        /\ Become(f) /\ Succeeds(f, Top) /\ Touched(f) \subseteq Touched(Top)
        /\ InFlight(f) = {} /\ f.kind = "reroute" /\ f.stage = "item"
        /\ IsInjective(f.items) /\ Touched(f) \cap Roots(f) = {}
        /\ Waiting(f) \subseteq Waiting(Top)
  BY NextItemIs
<1>2. RerouteSound(Top) /\ stack # <<>>
  BY RerouteHas
<1>3. Sound(f)
  BY <1>1, <1>2 DEF Sound, RerouteSound
<1>4. Ready(f)
  BY <1>1 DEF Ready, Rips
<1>5. BooksSame
  BY BooksAre
<1>6. InFlight(f) \subseteq InFlight(Top) \cup {} /\ \A g \in Below : {} \cap Guarded(g) = {}
  BY <1>1
<1> QED
  BY ONLY CascadeInv, <1>1, <1>2, <1>3, <1>4, <1>5, <1>6, f \in Frames, QuietlyGoesOn

LEMMA ItemFailsOn ==
  ASSUME CascadeInv, ItemFails \/ ItemExhausted \/ ItemIsSimple
  PROVE  BoardFits' /\ Stacked'
<1>1. PICK s \in {"item", "unwind", "taps"} : In("reroute", s) /\ (s # "item" \/ Top.items # <<>>)
  BY DEF ItemFails, ItemExhausted, ItemIsSimple
<1>2. NextItem
  BY DEF ItemFails, ItemExhausted, ItemIsSimple
<1>3. UNCHANGED boardVars
  BY DEF ItemFails, ItemExhausted, ItemIsSimple
<1> QED
  BY <1>1, <1>2, <1>3, QuietlyNext

LEMMA ItemCommitsOn ==
  ASSUME CascadeInv, ItemCommits
  PROVE  BoardFits' /\ Stacked'
<1>1. In("reroute", "commit") /\ NextItem
  BY DEF ItemCommits
<1>2. PICK h : h = Top
  OBVIOUS
<1>3. /\ Shape /\ Stacked /\ Mapped /\ BoardFits /\ stack # <<>> /\ h.kind = "reroute"
      /\ h.stage = "commit" /\ RerouteFits(h) /\ RerouteSound(h) /\ Ready(h)
      /\ InFlight(h) = Carried(h.nested) \cup CellsOf(h.taps)
      /\ \A g \in Below : g.kind = "net" /\ g.stage = "reasked" =>
           ToSet(h.items) \subseteq {g.net}
  BY <1>1, <1>2, RerouteHas
<1>4. PICK n \in Nets : n = Item
  BY <1>1, ItemHas
<1>5. /\ n \in Touched(h) /\ n \notin Roots(h) /\ n = h.items[1] /\ n \in ToSet(h.items)
      /\ \A g \in Below : copper[n] \cap Guarded(g) = {}
  BY <1>1, <1>2, <1>4, ItemHas
<1>6. /\ routed[n] = h.main /\ h.main \in Results /\ h.taps \in Taps
      /\ Clear(h.taps.cells, n)
  BY <1>3, <1>5 DEF RerouteSound, RerouteFits, Ready
<1>7. IsRouted(n) /\ routed[n].net = n
  <2>1. IsRouted(n)
    BY <1>6, NoneIsNoResult DEF IsRouted
  <2> QED
    BY <2>1, <1>3, RoutedFits
<1>8. PICK t \in Taps : t = h.taps
  BY <1>6
<1>9. PICK base : base = h.main
  OBVIOUS
<1>10. base.net = n /\ base = routed[n] /\ Clear(t.cells, n) /\ CommitTaps(n, t, base, base)
  BY <1>2, <1>4, <1>6, <1>7, <1>8, <1>9 DEF ItemCommits
<1>11. /\ BoardFits' /\ Only(n) /\ IsRouted(n)'
       /\ copper'[n] = copper[n] \cup t.cells /\ Residue(n)' \subseteq Residue(n)
  BY ONLY <1>3, n \in Nets, <1>7, t \in Taps, <1>10, CommitFits
<1>12. PICK f \in Frames :
         /\ Become(f) /\ Succeeds(f, Top) /\ Touched(f) \subseteq Touched(Top)
         /\ InFlight(f) = {} /\ f.kind = "reroute" /\ f.stage = "item"
         /\ IsInjective(f.items) /\ Touched(f) \cap Roots(f) = {}
         /\ Waiting(f) \subseteq Waiting(Top) /\ Item \notin Waiting(f)
         /\ Waiting(f) \subseteq Nets
  BY <1>1, NextItemIs
<1>13. Sound(f)' /\ Ready(f)'
  <2>1. \A k \in Waiting(f) : ~IsRouted(k) /\ k # n /\ k \in Nets
    BY <1>2, <1>3, <1>4, <1>12 DEF RerouteSound
  <2>2. \A k \in Waiting(f) : ~IsRouted(k)'
    BY <2>1, <1>11 DEF Only, IsRouted
  <2>3. RerouteSound(f)'
    BY <1>12, <2>2 DEF RerouteSound
  <2> QED
    BY <1>12, <2>3 DEF Sound, Ready, Rips
<1>14. ASSUME NEW g \in Below PROVE Sound(g)'
  <2>1. Beneath(g, h) /\ g \in Frames
    BY <1>2, <1>3, BelowFacts
  <2>2. t.cells \cap Guarded(g) = {}
    <3>1. t.cells \subseteq InFlight(h)
      BY <1>3, <1>8 DEF CellsOf
    <3> QED
      BY <2>1, <3>1 DEF Beneath
  <2>3. copper'[n] \cap Guarded(g) = {}
    BY <2>2, <1>5, <1>11
  <2>4. g.kind = "net" /\ g.stage = "reasked" => n = g.net
    BY <1>3, <1>5
  <2> QED
    BY <1>2, <1>3, <1>5, <1>11, <2>3, <2>4, OthersSound
<1>15. /\ InFlight(f) \subseteq InFlight(Top) \cup {}
       /\ \A g \in Below : Sound(g)' /\ {} \cap Guarded(g) = {}
  BY <1>12, <1>14
<1> QED
  BY ONLY <1>3, <1>11, <1>12, <1>13, <1>15, f \in Frames, GoesOn

LEMMA ItemTapsOn ==
  ASSUME CascadeInv, NEW t, ItemTaps(t)
  PROVE  BoardFits' /\ Stacked'
<1>1. In("reroute", "taps") /\ BooksSame
  BY BooksAre DEF ItemTaps
<1>2. PICK h : h = Top
  OBVIOUS
<1>3. /\ Shape /\ Stacked /\ Mapped /\ stack # <<>> /\ h.kind = "reroute" /\ h.stage = "taps"
      /\ h \in Frames /\ h \in RerouteFrames
      /\ RerouteFits(h) /\ RerouteSound(h) /\ h.items \in Seq(Nets)
      /\ h.ancestors \in SUBSET Nets /\ h.depth \in Nat /\ Roots(h) = h.ancestors
      /\ Touched(h) = ToSet(h.items) \cup ToSet(NetsOf(h.nested))
      /\ InFlight(h) = Carried(h.nested) \cup CellsOf(h.taps)
      /\ \A g \in Below : g.kind = "net" /\ g.stage = "reasked" => ~(h.depth < MaxRip)
  BY <1>1, <1>2, RerouteHas
<1>4. PICK n \in Nets : n = Item
  BY <1>1, ItemHas
<1>5. n = h.items[1] /\ n \in ToSet(h.items)
  BY <1>1, <1>2, <1>4, ItemHas
<1>6. /\ t \in Taps /\ t.cells \in SUBSET Cells /\ Clear(t.cells, n)
      /\ \A i \in 1..Depth : t.cells \cap Guarded(stack[i]) = {}
      /\ CellsOf(t) = t.cells
  BY <1>4, TapsAvoid DEF ItemTaps
<1>7. IsRouted(n)
  BY <1>3, <1>5, NoneIsNoResult DEF RerouteSound, RerouteFits, IsRouted
<1>8. PICK f : f = [h EXCEPT !.taps = t, !.stage = "commit"]
  OBVIOUS
<1>9. /\ f \in RerouteFrames /\ f.kind = "reroute" /\ f.stage = "commit" /\ f.main = h.main
      /\ f.items = h.items /\ f.nested = h.nested /\ f.depth = h.depth
      /\ f.ancestors = h.ancestors /\ f.taps = t
  BY <1>3, <1>6, <1>8 DEF RerouteFrames, Stages
<1>10. /\ f \in Frames /\ Succeeds(f, h) /\ Roots(f) = Roots(h) /\ Touched(f) = Touched(h)
       /\ InFlight(f) = Carried(h.nested) \cup t.cells /\ Waiting(f) = Waiting(h)
  <2>1. /\ f \in Frames /\ f.kind = "reroute" /\ Succeeds(f, h) /\ Roots(f) = Roots(h)
        /\ Touched(f) = ToSet(f.items) \cup ToSet(NetsOf(f.nested))
        /\ InFlight(f) = Carried(f.nested) \cup CellsOf(f.taps)
        /\ Waiting(f) = ToSet(IF f.stage = "item" THEN f.items ELSE Tail(f.items))
    BY <1>3, <1>9, RerouteGoesOn
  <2> QED
    BY <2>1, <1>3, <1>6, <1>9 DEF Waiting, ToDo
<1>11. Sound(f) /\ Ready(f)
  <2>1. RerouteSound(f)
    BY <1>3, <1>9, <1>10 DEF RerouteSound
  <2> QED
    BY <2>1, <1>5, <1>6, <1>9 DEF Sound, Ready, Rips
<1>12. \A g \in Below : t.cells \cap Guarded(g) = {}
  BY <1>3, <1>6, CallersAre
<1>13. Touched(f) \subseteq Touched(h) /\ InFlight(f) \subseteq InFlight(h) \cup t.cells
  BY <1>3, <1>10
<1>14. CASE Become(f)
  BY ONLY CascadeInv, <1>1, <1>2, <1>3, <1>10, <1>11, <1>12, <1>13, <1>14, QuietlyGoesOn
<1>15. CASE h.depth < MaxRip /\ Call(f, TapFrame(n, t, h.depth + 1, h.ancestors))
  <2>1. PICK d \in Nat : d = h.depth + 1
    BY <1>3
  <2>2. d <= MaxRip
    BY <2>1, <1>3, <1>15, OrderFacts
  <2>3. PICK anc \in SUBSET Nets : anc = h.ancestors
    BY <1>3
  <2>4. PICK k : k = TapFrame(n, t, d, anc)
    OBVIOUS
  <2>5. /\ k \in Frames /\ k.kind = "tap" /\ k.net = n /\ k.orig = t
        /\ Roots(k) = {n} \cup anc /\ Touched(k) = {} /\ InFlight(k) = t.cells
        /\ Sound(k) /\ Ready(k)
    BY <1>6, <1>7, <2>2, <2>4, NewTapIs
  <2>6. Beneath(f, k) /\ Hands(f, k)
    <3>1. Spared(f) = Roots(f) \cup {n} /\ Guarded(f) = {}
      BY <1>5, <1>9 DEF Spared, Guarded
    <3> QED
      BY <1>3, <1>5, <1>9, <1>10, <2>3, <2>5, <3>1 DEF Beneath, Hands
  <2>7. Call(f, k)
    BY <1>15, <2>1, <2>3, <2>4
  <2>8. /\ Roots(h) \subseteq Roots(k) /\ Touched(k) \subseteq Touched(h)
        /\ InFlight(f) \cup InFlight(k) \subseteq InFlight(h) \cup t.cells
        /\ \A g \in Below : ~(g.kind = "net" /\ g.stage = "reasked")
    BY <1>3, <1>13, <1>15, <2>3, <2>5
  <2> QED
    BY ONLY CascadeInv, <1>1, <1>2, <1>3, <1>10, <1>11, <1>12, <1>13, <2>5, <2>6, <2>7, <2>8,
            QuietlyCalls
<1> QED
  BY <1>2, <1>4, <1>8, <1>14, <1>15 DEF ItemTaps

----------------------------------------------------------------------------
(* The phase.                                                              *)
LEMMA CascadeStarts ==
  ASSUME Init
  PROVE  CascadeInv
<1>1. CallsInv
  BY CallsStart
<1>2. \A n \in Nets : /\ copper[n] = StartCopper(n) /\ routed[n] = Found(n, Phase1[n])
                      /\ refused[n] = None
  BY DEF Init
<1>3. NoShort
  BY <1>2, PhaseStartsClean DEF NoShort
<1>4. \A n \in Nets : Found(n, Phase1[n]) \in Results
  BY CascadeAssumption, FoundFits
<1>5. \A n \in Nets : IsRouted(n) /\ ~routed[n].existing
  <2>1. \A n \in Nets : Found(n, Phase1[n]) # None
    BY <1>4, NoneIsNoResult
  <2>2. \A n \in Nets : Found(n, Phase1[n]).existing = FALSE
    BY DEF Found
  <2> QED
    BY <1>2, <2>1, <2>2 DEF IsRouted
<1>6. {n \in Nets : IsRouted(n)} = Nets
  BY <1>5
<1>7. {m \in routedIds : ~routed[m].existing} = Nets
  BY <1>5 DEF Init
<1>8. results = {routed[n] : n \in Nets}
  BY <1>2 DEF Init
<1>9. \A n \in Nets : routed[n].cells \subseteq copper[n]
  <2>1. \A n \in Nets : Found(n, Phase1[n]).cells = Phase1[n]
    BY DEF Found
  <2>2. \A n \in Nets : Phase1[n] \subseteq StartCopper(n)
    BY DEF StartCopper
  <2> QED
    BY <1>2, <2>1, <2>2
<1>10. LedgersAgree
  BY <1>6, <1>7, <1>8, <1>9 DEF LedgersAgree, Init
<1>11. Stacked
  <2>1. stack = <<>> /\ Depth = 0
    BY DEF Init, Depth
  <2> QED
    BY <2>1 DEF Stacked
<1> QED
  BY <1>1, <1>2, <1>3, <1>5, <1>10, <1>11 DEF CascadeInv, BoardFits

LEMMA CascadeStays ==
  ASSUME CascadeInv, UNCHANGED vars
  PROVE  BoardFits' /\ Stacked'
<1>1. BooksSame /\ stack' = stack /\ BoardFits /\ Stacked
  BY BooksAre, CascadeIs DEF vars, callVars
<1>2. BoardFits'
  BY <1>1, BooksKept
<1>3. \A g : (Sound(g)' <=> Sound(g)) /\ (Ready(g)' <=> Ready(g))
  BY <1>1, SoundSame DEF BooksSame
<1>4. ASSUME NEW i \in 1..Depth PROVE Sound(stack[i])'
  <2>1. PICK g : g = stack[i]
    OBVIOUS
  <2>2. Sound(g)' /\ stack'[i] = g
    BY <1>1, <1>3, <2>1 DEF Stacked
  <2> QED
    BY <2>2
<1>5. stack # <<>> => Ready(Top)'
  <2>1. PICK g : g = Top
    OBVIOUS
  <2>2. stack # <<>> => Ready(g)'
    BY <1>1, <1>3, <2>1 DEF Stacked
  <2>3. Top' = g
    BY <1>1, <2>1 DEF Top, Last
  <2> QED
    BY <2>2, <2>3
<1>6. Depth' = Depth
  BY <1>1 DEF Depth
<1>7. Stacked'
  BY <1>1, <1>4, <1>5, <1>6 DEF Stacked
<1> QED
  BY <1>2, <1>7

LEMMA CascadeSurvives ==
  ASSUME CascadeInv, [Next]_vars, NoGhost, SwitchesSpareTaps
  PROVE  CascadeInv'
<1>1. CallsInv'
  BY CallsSurvive DEF CascadeInv
<1>2. CASE Cancel
  BY <1>1, <1>2, LoopStepsOn DEF CascadeInv
<1>3. CASE NetStep
  <2>1. SkipNet \/ TakeNet \/ CommitNet \/ Reask \/ NetDone \/ UndoReask \/ RestoreTree
          => BoardFits' /\ Stacked'
    BY LoopStepsOn, TakeNetOn, CommitNetOn, ReaskOn, NetDoneOn, UndoReaskOn, RestoreTreeOn
  <2>2. (\E t \in AllTaps : RouteTaps(t)) => BoardFits' /\ Stacked'
    BY RouteTapsOn
  <2>3. BoardFits' /\ Stacked'
    BY <1>3, <2>1, <2>2 DEF NetStep
  <2> QED
    BY <1>1, <2>3 DEF CascadeInv
<1>4. CASE TapStep
  <2>1. (\E m \in Nets : TapRips(m) \/ RipsAgain(m)) => BoardFits' /\ Stacked'
    BY TapRipsOn, RipsAgainOn
  <2>2. (\E t \in AllTaps : RetryHelps(t)) => BoardFits' /\ Stacked'
    BY RetryHelpsOn
  <2>3. (\/ RetryDoesNotHelp \/ TapGivesUp \/ TapUnwinds \/ TapFails
         \/ KeepRetry \/ AbandonRetry \/ ReroutesAgain \/ Abandoned)
        => BoardFits' /\ Stacked'
    BY RetryDoesNotHelpOn, TapUnwindsOn, TapFailsOn, KeepRetryOn, AbandonRetryOn,
       ReroutesAgainOn
  <2>4. BoardFits' /\ Stacked'
    BY <1>4, <2>1, <2>2, <2>3 DEF TapStep
  <2> QED
    BY <1>1, <2>4 DEF CascadeInv
<1>5. CASE RerouteStep
  <2>1. (\E r \in AllRoutes : MainLands(r)) => BoardFits' /\ Stacked'
    BY MainLandsOn
  <2>2. (\E m \in Nets : MainRips(m)) => BoardFits' /\ Stacked'
    BY MainRipsOn
  <2>3. (\E t \in AllTaps : ItemTaps(t)) => BoardFits' /\ Stacked'
    BY ItemTapsOn
  <2>4. (\/ ItemsDone \/ MainOpensRipUp \/ MainRetryFails \/ MainGivesUp \/ MainUnwinds
         \/ ItemFails \/ ItemExhausted \/ ItemIsSimple \/ ItemCommits)
        => BoardFits' /\ Stacked'
    BY ItemsDoneOn, MainOpensRipUpOn, MainUnwindsOn, ItemFailsOn, ItemCommitsOn
  <2>5. BoardFits' /\ Stacked'
    BY <1>5, <2>1, <2>2, <2>3, <2>4 DEF RerouteStep
  <2> QED
    BY <1>1, <2>5 DEF CascadeInv
<1>6. CASE UNCHANGED vars
  BY <1>1, <1>6, CascadeStays DEF CascadeInv
<1> QED
  BY <1>2, <1>3, <1>4, <1>5, <1>6 DEF Next

(* What the invariant says of the properties.                              *)
LEMMA CascadeKeepsRoots ==
  ASSUME CascadeInv
  PROVE  OpenCallsAreSound
<1>1. CascadeTypeOK /\ Stacked
  BY CallsAreTyped DEF CascadeInv
<1>2. DOMAIN stack = 1..Depth
  BY CallsAre DEF CascadeInv, Shape, Depth
<1>3. \A i \in DOMAIN stack : Sound(stack[i])
  BY <1>1, <1>2 DEF Stacked
<1>4. RootsStayPut
  BY <1>3 DEF RootsStayPut, Sound, NetSound, TapSound, RerouteSound
<1> QED
  BY <1>1, <1>4 DEF OpenCallsAreSound

LEMMA CascadeKeepsItems ==
  ASSUME CascadeInv
  PROVE  ItemsAreUnrouted /\ RestoresFit /\ NoShort /\ LedgersAgree
<1>1. Shape /\ Stacked /\ BoardFits
  BY CascadeIs
<1>2. DOMAIN stack = 1..Depth /\ Depth \in Nat
  BY <1>1 DEF Shape, Depth
<1>3. ASSUME NEW i \in DOMAIN stack, stack[i].kind = "reroute"
      PROVE  /\ IsInjective(ToDo(stack[i]))
             /\ \A n \in ToSet(ToDo(stack[i])) :
                  /\ ~IsRouted(n)
                  /\ \A j \in i + 1 .. Len(stack) :
                       stack[j].kind = "reroute" => n \notin ToSet(stack[j].items)
  <2>1. PICK f : f = stack[i]
    OBVIOUS
  <2>2. /\ RerouteSound(f) /\ f.kind = "reroute" /\ Waiting(f) = ToSet(ToDo(f)) /\ Fits(f)
        /\ f \in Frames
    BY <1>1, <1>2, <1>3, <2>1 DEF Stacked, Sound, Waiting, Shape, Placed
  <2>3. f.items \in Seq(Nets) /\ (f.stage # "item" => f.items # <<>>) /\ IsInjective(f.items)
    BY <2>2 DEF Fits, RerouteFits, RerouteFrames, RerouteSound
  <2>4. IsInjective(ToDo(f))
    <3>1. CASE f.stage = "item"
      BY <3>1, <2>3 DEF ToDo
    <3>2. CASE f.stage # "item"
      <4>1. PICK q \in Seq(Nets) : q = f.items
        BY <2>3
      <4>2. IsInjective(Tail(q))
        BY <3>2, <4>1, <2>3, ItemParts
      <4> QED
        BY <3>2, <4>1, <4>2 DEF ToDo
    <3> QED
      BY <3>1, <3>2
  <2>5. ASSUME NEW n \in Waiting(f), NEW j \in i + 1 .. Len(stack), stack[j].kind = "reroute"
        PROVE  n \notin ToSet(stack[j].items)
    <3>1. j \in 1..Depth /\ i \in 1..Depth /\ i < j
      BY <1>2 DEF Depth
    <3>2. Beneath(f, stack[j])
      BY <3>1, <1>1, <2>1 DEF Stacked
    <3>3. ToSet(stack[j].items) \subseteq Touched(stack[j])
      BY <2>5 DEF Touched
    <3> QED
      BY <3>2, <3>3 DEF Beneath
  <2> QED
    BY <2>1, <2>2, <2>4, <2>5 DEF RerouteSound
<1> QED
  BY <1>1, <1>3 DEF ItemsAreUnrouted, RestoresFit, BoardFits

(* A turn of the loop ends with the net routed.                            *)
LEMMA CallsStayOpen ==
  ASSUME Shape, stack # <<>>, NEW f, NEW g, NEW m,
         Become(f) \/ Call(f, g) \/ BecomeAfterRip(f, m) \/ (Depth > 1 /\ Return(f))
  PROVE  stack' # <<>>
<1>1. Depth \in Nat \ {0} /\ DOMAIN stack = 1..Depth /\ stack \in Seq(Frames)
  BY StackFacts DEF Shape
<1>2. PICK s : s = Front(stack)
  OBVIOUS
<1>3. s \in Seq(Frames) /\ Len(s) = Depth - 1
  BY <1>1, <1>2, FrontFacts DEF Depth
<1>4. PICK F : F = Frames \cup {f, g}
  OBVIOUS
<1>5. f \in F /\ g \in F /\ s \in Seq(F) /\ Len(s) \in Nat
  BY <1>1, <1>3, <1>4
<1>6. CASE Become(f)
  <2>1. stack' = Append(s, f)
    BY <1>2, <1>6 DEF Become
  <2>2. Len(Append(s, f)) = Len(s) + 1
    BY <1>5
  <2> QED
    BY <2>1, <2>2, <1>5
<1>7. CASE Call(f, g)
  <2>1. stack' = s \o <<f, g>>
    BY <1>2, <1>7 DEF Call
  <2>2. Len(s \o <<f, g>>) = Len(s) + 2
    BY <1>5, TwoMore
  <2> QED
    BY <2>1, <2>2, <1>5
<1>8. CASE BecomeAfterRip(f, m)
  <2>1. DOMAIN stack' = DOMAIN stack
    BY <1>8 DEF BecomeAfterRip
  <2>2. 1 \in DOMAIN stack' /\ DOMAIN <<>> = {}
    BY <2>1, <1>1
  <2> QED
    BY <2>2
<1>9. CASE Depth > 1 /\ Return(f)
  <2>1. PICK t : t = Front(s)
    OBVIOUS
  <2>2. s # <<>>
    <3>1. PICK d \in Nat : d = Depth /\ d > 1
      BY <1>1, <1>9
    <3>2. Len(s) = d - 1 /\ Len(<<>>) = 0
      BY <1>3, <3>1
    <3>3. Len(s) # 0
      BY <3>1, <3>2
    <3> QED
      BY <3>2, <3>3
  <2>3. t \in Seq(Frames) /\ Len(t) = Len(s) - 1
    BY <2>1, <2>2, <1>3, FrontFacts
  <2>4. t \in Seq(F) /\ Len(t) \in Nat
    BY <2>3, <1>4
  <2>5. stack' = Append(t, f)
    BY <1>2, <2>1, <1>9 DEF Return
  <2>6. Len(Append(t, f)) = Len(t) + 1
    BY <2>4, <1>5
  <2> QED
    BY <2>4, <2>5, <2>6
<1> QED
  BY <1>6, <1>7, <1>8, <1>9

LEMMA TurnEndsRouted ==
  ASSUME CascadeInv, [Next]_vars, stack # <<>>, stack' = <<>>
  PROVE  routed'[stack[1].net] # None
<1>1. Shape /\ Stacked /\ BoardFits
  BY CascadeIs
<1>2. \A f, g, m : ~Become(f) /\ ~Call(f, g) /\ ~BecomeAfterRip(f, m)
  BY <1>1, CallsStayOpen
<1>3. \A f : ~(Depth > 1 /\ Return(f))
  BY <1>1, CallsStayOpen
<1>4. \A s : In("tap", s) \/ In("reroute", s) => Depth > 1
  BY <1>1, TopIsTap, TopIsReroute
<1>5. NetDone \/ RestoreTree
  <2>1. CASE Cancel \/ (Over /\ UNCHANGED vars) \/ UNCHANGED vars
    BY <2>1 DEF Cancel, AtLoopHead, Over, vars, callVars
  <2>2. CASE NetStep
    BY <2>2, <1>2 DEF NetStep, SkipNet, TakeNet, AtLoopHead, RouteTaps, CommitNet, Reask, UndoReask,
       Goto
  <2>3. CASE TapStep
    BY <2>3, <1>2, <1>3, <1>4 DEF TapStep, TapRips, RetryHelps, RetryDoesNotHelp, TapGivesUp,
       TapUnwinds, TapFails, KeepRetry, AbandonRetry, RipsAgain, ReroutesAgain, Abandoned, Goto
  <2>4. CASE RerouteStep
    BY <2>4, <1>2, <1>3, <1>4 DEF RerouteStep, ItemsDone, MainLands, MainOpensRipUp, MainRips,
       MainRetryFails, MainGivesUp, MainUnwinds, ItemFails, ItemExhausted, ItemIsSimple, ItemTaps,
       ItemCommits, NextItem, Goto
  <2> QED
    BY <2>1, <2>2, <2>3, <2>4 DEF Next
<1>6. PICK s : In("net", s) /\ (NetDone => s \in {"reask", "reasked"})
  BY <1>5 DEF NetDone, RestoreTree
<1>7. Top = stack[1] /\ Top \in NetFrames
  BY <1>1, <1>6, TopIsNet
<1>8. PICK n \in Nets : n = Top.net
  BY <1>7 DEF NetFrames
<1>9. CASE RestoreTree
  BY <1>7, <1>8, <1>9, RestoreTreeOn DEF IsRouted
<1>10. CASE NetDone
  <2>1. IsRouted(n)
    <3>1. CASE In("net", "reask")
      <4>1. Sound(Top) /\ Top.kind = "net" /\ Top.stage = "reask"
        BY <3>1, <1>1, BelowFacts DEF In
      <4> QED
        BY <4>1, <1>8 DEF Sound, NetSound
    <3>2. CASE ~In("net", "reask")
      BY <3>2, <1>8, <1>10 DEF NetDone
    <3> QED
      BY <3>1, <3>2
  <2>2. routed' = routed
    BY <1>10 DEF NetDone, boardVars
  <2> QED
    BY <2>1, <2>2, <1>7, <1>8 DEF IsRouted
<1> QED
  BY <1>5, <1>9, <1>10

----------------------------------------------------------------------------
(* The third part: the nets the loop has still to take.  A reroute that    *)
(* ends exhausted leaves the pending entry of a net without a route; that  *)
(* such a net had its turn before is what the theorems about the board     *)
(* suppose, and the ghost run shows what a net that had not leads to.      *)
ExhaustedAfterTurn == ItemExhausted => \A i \in at..Len(Order) : Order[i] # Item

(* Such a net has the route it came with, or a call has it in hand: ripped *)
(* with its payload, waiting for its reroute, or being rerouted.           *)
Start(n) == Found(n, Phase1[n])

Owed == {n \in Nets : pending[n] # None /\ \E i \in at..Len(Order) : Order[i] = n}

HeldBy(f) ==
  CASE f.kind = "tap" /\ Rips(f) -> ToSet(f.ripped)
    [] f.kind = "reroute" /\ Rips(f) -> ToSet(f.nested)
    [] OTHER -> {}

Grasp(f) ==
  {v.net : v \in HeldBy(f)} \cup
    (CASE f.kind = "reroute" -> ToSet(f.items)
       [] f.kind = "tap" /\ f.stage = "rerip" -> ToSet(f.again)
       [] OTHER -> {})

AsBefore(f) ==
  /\ \A v \in HeldBy(f) : v.net \in Owed => v.payload.saved = Start(v.net)
  /\ f.kind = "net" => f.net \notin Owed

Open == {stack[i] : i \in 1..Depth}

OwedInv ==
  /\ \A n \in Owed : routed[n] = Start(n) \/ \E f \in Open : n \in Grasp(f)
  /\ \A f \in Open : AsBefore(f)

(* The calls under the innermost one stay, and those of N take its place.  *)
Like(h, g) ==
  /\ Grasp(h) = Grasp(g) /\ HeldBy(h) = HeldBy(g)
  /\ h.kind = "net" => g.kind = "net" /\ h.net = g.net

Moves(N) ==
  /\ \A g \in Below \cup N : \E h \in Open' : Like(h, g)
  /\ \A h \in Open' : \E g \in Below \cup N : Like(h, g)

LEMMA OpenIs ==
  ASSUME Shape, stack # <<>>
  PROVE  Open = Below \cup {Top}
<1>1. Depth \in Nat \ {0} /\ Top = stack[Depth]
  BY TopIsPlaced
<1>2. \A i \in 1..Depth : i \in 1..(Depth - 1) \/ i = Depth
  BY <1>1
<1>3. \A i \in 1..(Depth - 1) : i \in 1..Depth
  BY <1>1
<1>4. Depth \in 1..Depth
  BY <1>1
<1> QED
  BY <1>1, <1>2, <1>3, <1>4 DEF Open, Below

LEMMA LikeItself == ASSUME NEW g PROVE Like(g, g)
  BY DEF Like

(* Whatever the frames are.                                                *)
LEMMA FrontIs ==
  ASSUME Shape, stack # <<>>, NEW F
  PROVE  /\ Depth \in Nat \ {0} /\ Front(stack) \in Seq(Frames \cup F)
         /\ Len(Front(stack)) = Depth - 1
         /\ \A i \in 1..(Depth - 1) : Front(stack)[i] = stack[i]
<1>1. stack \in Seq(Frames) /\ Depth \in Nat \ {0}
  BY StackFacts DEF Shape
<1>2. PICK s : s = Front(stack)
  OBVIOUS
<1>3. s \in Seq(Frames) /\ Len(s) = Depth - 1 /\ \A i \in 1..(Depth - 1) : s[i] = stack[i]
  BY <1>1, <1>2, FrontFacts DEF Depth
<1>4. s \in Seq(Frames \cup F)
  BY <1>3
<1> QED
  BY <1>1, <1>2, <1>3, <1>4

LEMMA BecomeMoves ==
  ASSUME Shape, stack # <<>>, NEW f, Become(f)
  PROVE  Moves({f})
<1>1. PICK s : s = Front(stack)
  OBVIOUS
<1>2. PICK F : F = Frames \cup {f}
  OBVIOUS
<1>3. PICK d \in Nat \ {0} : d = Depth
  BY FrontIs
<1>4. s \in Seq(F) /\ Len(s) = d - 1 /\ \A i \in 1..(d - 1) : s[i] = stack[i]
  BY <1>1, <1>2, <1>3, FrontIs
<1>5. stack' = Append(s, f) /\ f \in F
  BY <1>1, <1>2 DEF Become
<1>6. /\ Depth' = d /\ \A i \in 1..(d - 1) : stack'[i] = stack[i]
      /\ stack'[d] = f
  BY <1>4, <1>5 DEF Depth
<1>7. \A i \in 1..d : i \in 1..(d - 1) \/ i = d
  OBVIOUS
<1>8. d \in 1..d /\ \A i \in 1..(d - 1) : i \in 1..d
  OBVIOUS
<1>9. Open' = Below \cup {f}
  BY <1>3, <1>6, <1>7, <1>8 DEF Open, Below
<1> QED
  BY <1>9, LikeItself DEF Moves

LEMMA CallMoves ==
  ASSUME Shape, stack # <<>>, NEW f, NEW k, Call(f, k)
  PROVE  Moves({f, k})
<1>1. PICK s : s = Front(stack)
  OBVIOUS
<1>2. PICK F : F = Frames \cup {f, k}
  OBVIOUS
<1>3. PICK e \in Nat : e + 1 = Depth /\ Depth \in Nat
  <2>1. Depth \in Nat \ {0}
    BY FrontIs
  <2>2. Depth - 1 \in Nat /\ (Depth - 1) + 1 = Depth
    BY <2>1
  <2> QED
    BY <2>1, <2>2
<1>4. s \in Seq(F) /\ Len(s) = e /\ \A i \in 1..e : s[i] = stack[i]
  <2>1. Depth - 1 = e
    BY <1>3
  <2> QED
    BY <1>1, <1>2, <2>1, FrontIs
<1>5. stack' = s \o <<f, k>> /\ f \in F /\ k \in F
  BY <1>1, <1>2 DEF Call
<1>6. /\ Len(stack') = e + 2 /\ \A i \in 1..e : stack'[i] = stack[i]
      /\ stack'[e + 1] = f /\ stack'[e + 2] = k
  BY <1>4, <1>5, TwoMore
<1>7. \A i \in 1..(e + 2) : i \in 1..e \/ i = e + 1 \/ i = e + 2
  OBVIOUS
<1>8. e + 1 \in 1..(e + 2) /\ e + 2 \in 1..(e + 2) /\ \A i \in 1..e : i \in 1..(e + 2)
  OBVIOUS
<1>9. Below = {stack[i] : i \in 1..e}
  <2>1. Depth - 1 = e
    BY <1>3
  <2> QED
    BY <2>1 DEF Below
<1>10. Open' = Below \cup {f, k}
  BY <1>6, <1>7, <1>8, <1>9 DEF Open, Depth
<1> QED
  BY <1>10, LikeItself DEF Moves

LEMMA ReturnMoves ==
  ASSUME Shape, Depth > 1, NEW f, Return(f), Like(f, Caller)
  PROVE  Moves({})
<1>0. stack # <<>>
  BY DEF Depth
<1>1. PICK s : s = Front(stack)
  OBVIOUS
<1>2. PICK F : F = Frames \cup {f}
  OBVIOUS
<1>3. PICK e \in Nat \ {0} : e + 1 = Depth /\ Depth \in Nat
  <2>1. Depth \in Nat \ {0}
    BY <1>0, FrontIs
  <2>2. Depth - 1 \in Nat \ {0} /\ (Depth - 1) + 1 = Depth
    BY <2>1
  <2> QED
    BY <2>1, <2>2
<1>4. s \in Seq(F) /\ Len(s) = e /\ \A i \in 1..e : s[i] = stack[i]
  <2>1. Depth - 1 = e
    BY <1>3
  <2> QED
    BY <1>0, <1>1, <1>2, <2>1, FrontIs
<1>5. s # <<>>
  <2>1. Len(<<>>) = 0
    OBVIOUS
  <2> QED
    BY <1>4, <2>1
<1>6. PICK t : t = Front(s)
  OBVIOUS
<1>7. t \in Seq(F) /\ Len(t) = e - 1 /\ \A i \in 1..(e - 1) : t[i] = s[i]
  BY <1>4, <1>5, <1>6, FrontFacts
<1>8. stack' = Append(t, f) /\ f \in F
  BY <1>1, <1>2, <1>6 DEF Return
<1>9. \A i \in 1..e : i \in 1..(e - 1) \/ i = e
  OBVIOUS
<1>10. e \in 1..e /\ \A i \in 1..(e - 1) : i \in 1..e
  OBVIOUS
<1>11. /\ Len(stack') = e /\ \A i \in 1..(e - 1) : stack'[i] = stack[i]
       /\ stack'[e] = f
  BY <1>4, <1>7, <1>8, <1>10
<1>12. PICK h : h = Caller
  OBVIOUS
<1>13. PICK B : B = {stack[i] : i \in 1..(e - 1)}
  OBVIOUS
<1>14. h = stack[e] /\ Below = {stack[i] : i \in 1..e}
  <2>1. Depth - 1 = e
    BY <1>3
  <2> QED
    BY <1>12, <2>1 DEF Below, Depth, Caller
<1>15. Open' = B \cup {f} /\ Below = B \cup {h}
  BY <1>9, <1>10, <1>11, <1>13, <1>14 DEF Open, Depth
<1>16. Like(f, h)
  BY <1>12
<1> QED
  BY <1>15, <1>16, LikeItself DEF Moves

LEMMA ToldLike ==
  ASSUME NEW f \in Frames, NEW m \in Nets
  PROVE  Like(Told(f, m), f)
<1>1. PICK g : g = Told(f, m)
  OBVIOUS
<1>2. /\ g.kind = f.kind /\ g.stage = f.stage
      /\ f.kind = "tap" => g.ripped = f.ripped /\ g.again = f.again
      /\ f.kind # "tap" => g = f
  BY <1>1, ToldFields, ToldHas
<1>3. HeldBy(g) = HeldBy(f)
  BY <1>2 DEF HeldBy, Rips
<1>4. Grasp(g) = Grasp(f)
  BY <1>2, <1>3 DEF Grasp
<1> QED
  BY <1>1, <1>2, <1>3, <1>4 DEF Like

LEMMA TellMoves ==
  ASSUME Shape, stack # <<>>, NEW f \in Frames, NEW m \in Nets, BecomeAfterRip(f, m)
  PROVE  Moves({f})
<1>1. /\ Depth' = Depth /\ \A i \in 1..(Depth - 1) : stack'[i] = Told(stack[i], m)
      /\ stack'[Depth] = Told(f, m)
  BY Telling DEF Shape
<1>2. Depth \in Nat \ {0}
  BY TopIsPlaced
<1>3. \A i \in 1..Depth : i \in 1..(Depth - 1) \/ i = Depth
  BY <1>2
<1>4. Depth \in 1..Depth /\ \A i \in 1..(Depth - 1) : i \in 1..Depth
  BY <1>2
<1>5. Open' = {Told(g, m) : g \in Below \cup {f}}
  BY <1>1, <1>3, <1>4 DEF Open, Below
<1>6. \A g \in Below \cup {f} : Like(Told(g, m), g)
  BY ToldLike, CallersAre
<1> QED
  BY <1>5, <1>6 DEF Moves

LEMMA LastMoves ==
  ASSUME Shape, NEW s, In("net", s), stack' = <<>>
  PROVE  Moves({})
<1>1. Below = {}
  BY NetIsAlone
<1>2. Open' = {}
  BY DEF Open, Depth
<1> QED
  BY <1>1, <1>2 DEF Moves

(* What is left to show of a step.                                         *)
LEMMA OwedMoves ==
  ASSUME OwedInv, Shape, stack # <<>>, NEW N, Moves(N), Owed' \subseteq Owed,
         \A n \in Owed' : \/ routed'[n] = routed[n] \/ routed'[n] = Start(n)
                          \/ \E f \in N : n \in Grasp(f),
         \A n \in Owed' : n \in Grasp(Top) =>
                            routed'[n] = Start(n) \/ \E f \in N : n \in Grasp(f),
         \A f \in N : AsBefore(f)'
  PROVE  OwedInv'
<1>1. Open = Below \cup {Top}
  BY OpenIs
<1>2. ASSUME NEW n \in Owed', routed'[n] # Start(n)
      PROVE  \E h \in Open' : n \in Grasp(h)
  <2>1. \E g \in Below \cup N : n \in Grasp(g)
    <3>1. CASE \E f \in N : n \in Grasp(f)
      BY <3>1
    <3>2. CASE ~\E f \in N : n \in Grasp(f)
      <4>1. routed[n] # Start(n) /\ n \in Owed /\ n \notin Grasp(Top)
        BY <1>2, <3>2
      <4>2. PICK f \in Open : n \in Grasp(f)
        BY <4>1 DEF OwedInv
      <4>3. f # Top
        BY <4>1, <4>2
      <4> QED
        BY <4>2, <4>3, <1>1
    <3> QED
      BY <3>1, <3>2
  <2> QED
    BY <2>1 DEF Moves, Like
<1>3. ASSUME NEW h \in Open' PROVE AsBefore(h)'
  <2>1. PICK g \in Below \cup N : Like(h, g)
    BY <1>3 DEF Moves
  <2>2. AsBefore(g)'
    <3>1. CASE g \in N
      BY <3>1
    <3>2. CASE g \in Below
      <4>1. AsBefore(g)
        BY <3>2, <1>1 DEF OwedInv
      <4> QED
        BY <4>1 DEF AsBefore
    <3> QED
      BY <3>1, <3>2, <2>1
  <2> QED
    BY <2>1, <2>2 DEF AsBefore, Like
<1> QED
  BY <1>2, <1>3 DEF OwedInv

----------------------------------------------------------------------------
(* What the frames have in hand, by kind.                                  *)
LEMMA TapGrasps ==
  ASSUME NEW f, f.kind = "tap"
  PROVE  /\ HeldBy(f) = IF Rips(f) THEN ToSet(f.ripped) ELSE {}
         /\ Grasp(f) = {v.net : v \in HeldBy(f)} \cup
                       IF f.stage = "rerip" THEN ToSet(f.again) ELSE {}
  BY DEF HeldBy, Grasp

LEMMA RerouteGrasps ==
  ASSUME NEW f, f.kind = "reroute"
  PROVE  /\ HeldBy(f) = IF Rips(f) THEN ToSet(f.nested) ELSE {}
         /\ Grasp(f) = {v.net : v \in HeldBy(f)} \cup ToSet(f.items)
  BY DEF HeldBy, Grasp

LEMMA NetGrasps ==
  ASSUME NEW f, f.kind = "net"
  PROVE  HeldBy(f) = {} /\ Grasp(f) = {}
  BY DEF HeldBy, Grasp

LEMMA HeldNets ==
  ASSUME NEW s
  PROVE  {v.net : v \in ToSet(s)} = ToSet(NetsOf(s))
<1>1. DOMAIN NetsOf(s) = DOMAIN s /\ \A i \in DOMAIN s : NetsOf(s)[i] = s[i].net
  BY DEF NetsOf
<1> QED
  BY <1>1 DEF ToSet

LEMMA EndsOf ==
  ASSUME NEW S, NEW s \in Seq(S)
  PROVE  /\ \A v \in S : ToSet(Append(s, v)) = ToSet(s) \cup {v}
         /\ s # <<>> => /\ ToSet(s) = ToSet(Front(s)) \cup {Last(s)}
                        /\ Last(s) \in ToSet(s)
<1>1. Len(s) \in Nat /\ DOMAIN s = 1..Len(s)
  OBVIOUS
<1>2. ASSUME NEW v \in S PROVE ToSet(Append(s, v)) = ToSet(s) \cup {v}
  <2>1. PICK k \in Nat : k = Len(s)
    BY <1>1
  <2>2. PICK q : q = Append(s, v)
    OBVIOUS
  <2>3. /\ DOMAIN q = 1..(k + 1) /\ q[k + 1] = v /\ \A i \in 1..k : q[i] = s[i]
    BY <2>1, <2>2
  <2>4. \A i \in 1..(k + 1) : i \in 1..k \/ i = k + 1
    OBVIOUS
  <2>5. k + 1 \in 1..(k + 1) /\ \A i \in 1..k : i \in 1..(k + 1)
    OBVIOUS
  <2> QED
    BY <1>1, <2>1, <2>2, <2>3, <2>4, <2>5 DEF ToSet
<1>3. ASSUME s # <<>>
      PROVE  ToSet(s) = ToSet(Front(s)) \cup {Last(s)} /\ Last(s) \in ToSet(s)
  <2>1. PICK q : q = Front(s)
    OBVIOUS
  <2>2. DOMAIN q = 1..(Len(s) - 1) /\ \A i \in 1..(Len(s) - 1) : q[i] = s[i]
    BY <1>3, <2>1, FrontFacts
  <2>3. Last(s) = s[Len(s)] /\ Len(s) \in 1..Len(s)
    BY <1>1, <1>3 DEF Last
  <2>4. PICK k \in Nat : k = Len(s)
    BY <1>1
  <2>5. \A i \in 1..k : i \in 1..(k - 1) \/ i = k
    OBVIOUS
  <2>6. \A i \in 1..(k - 1) : i \in 1..k
    OBVIOUS
  <2> QED
    BY <1>1, <2>1, <2>2, <2>3, <2>4, <2>5, <2>6 DEF ToSet
<1> QED
  BY <1>2, <1>3

(* Who is still to be taken only gets less.                                *)
LEMMA OwedSame ==
  ASSUME UNCHANGED <<pending, at>>
  PROVE  Owed' = Owed
  BY DEF Owed

LEMMA OwedUpdated ==
  ASSUME Lined, NEW n \in Nets, NEW res, Update(n, res), UNCHANGED at
  PROVE  Owed' \subseteq Owed
<1>1. \A k \in Nets : pending[k] = None => pending'[k] = None
  BY DEF Update, Lined
<1> QED
  BY <1>1 DEF Owed

LEMMA OwedSettled ==
  ASSUME Lined, NEW n \in Nets, pending' = [pending EXCEPT ![n] = None], UNCHANGED at
  PROVE  Owed' \subseteq Owed \ {n}
<1>1. \A k \in Nets : pending'[k] = IF k = n THEN None ELSE pending[k]
  BY DEF Lined
<1> QED
  BY <1>1 DEF Owed

(* A net of the loop's list is multi-point and comes once.                 *)
LEMMA OrderIs ==
  /\ Len(Order) \in Nat /\ DOMAIN Order = 1..Len(Order)
  /\ \A i \in 1..Len(Order) : Order[i] \in Multipoint
  /\ \A i, j \in 1..Len(Order) : Order[i] = Order[j] => i = j
<1>1. Order \in Seq(Multipoint) /\ IsInjective(Order)
  BY CascadeAssumption
<1>2. Len(Order) \in Nat /\ DOMAIN Order = 1..Len(Order)
      /\ \A i \in 1..Len(Order) : Order[i] \in Multipoint
  BY <1>1
<1> QED
  BY <1>1, <1>2 DEF IsInjective

(* The routes of the other nets.                                           *)
Elsewhere(n) == \A k \in Nets \ {n} : routed'[k] = routed[k]

LEMMA RoutesElsewhere ==
  ASSUME Mapped, NEW n \in Nets, NEW p, NEW t, NEW known, NEW base,
         RipUp(n) \/ RestoreNet(n, p) \/ CommitTaps(n, t, known, base)
  PROVE  Elsewhere(n)
<1>1. routed \in [Nets -> Results \cup {None}]
  BY DEF Mapped, BoardTypeOK
<1>2. \/ routed' = routed
      \/ \E res : routed' = [routed EXCEPT ![n] = res]
  BY DEF RipUp, RestoreNet, CommitTaps, CommitResult, Books
<1> QED
  BY <1>1, <1>2 DEF Elsewhere

----------------------------------------------------------------------------
(* The main loop.                                                          *)
LEMMA LoopStepsOwed ==
  ASSUME CascadeInv, OwedInv, Cancel \/ SkipNet \/ UNCHANGED vars
  PROVE  OwedInv'
<1>1. stack' = stack /\ routed' = routed /\ pending' = pending /\ at' \in {at, at + 1}
  BY DEF Cancel, SkipNet, vars, boardVars, callVars
<1>2. Open' = Open
  BY <1>1 DEF Open, Depth
<1>3. Owed' \subseteq Owed
  <2>1. Lined
    BY CascadeIs
  <2>2. \A i \in at'..Len(Order) : i \in at..Len(Order)
    BY <1>1, <2>1, OrderIs DEF Lined
  <2> QED
    BY <1>1, <2>2 DEF Owed
<1> QED
  BY <1>1, <1>2, <1>3 DEF OwedInv, AsBefore

LEMMA TakeNetOwed ==
  ASSUME CascadeInv, OwedInv, TakeNet
  PROVE  OwedInv'
<1>1. Lined /\ stack = <<>> /\ at \in DOMAIN Order /\ routed' = routed /\ pending' = pending
      /\ at' = at + 1
  BY CascadeIs DEF TakeNet, AtLoopHead, boardVars
<1>2. PICK n : n = Order[at]
  OBVIOUS
<1>3. PICK f : f = NetFrame(n, IF IsRouted(n) THEN routed[n] ELSE Snapshot(n))
  OBVIOUS
<1>4. stack' = <<f>> /\ f.kind = "net" /\ f.net = n
  BY <1>2, <1>3 DEF TakeNet, NetFrame
<1>5. Open = {} /\ Open' = {f}
  BY <1>1, <1>4 DEF Open, Depth
<1>6. at \in 1..Len(Order)
  BY <1>1, OrderIs
<1>7. \A i \in at'..Len(Order) : i \in at..Len(Order) /\ i # at /\ i \in 1..Len(Order)
  BY <1>1, <1>6
<1>8. Owed' \subseteq Owed
  BY <1>1, <1>7 DEF Owed
<1>9. n \notin Owed'
  BY <1>1, <1>2, <1>6, <1>7, OrderIs DEF Owed
<1>10. AsBefore(f)'
  BY <1>4, <1>9, NetGrasps DEF AsBefore
<1> QED
  BY <1>1, <1>5, <1>8, <1>10 DEF OwedInv

(* What the loop does for the net in hand.                                 *)
LEMMA NetTurnOwed ==
  ASSUME CascadeInv, OwedInv, NEW s, In("net", s), UNCHANGED <<pending, at>>,
         Elsewhere(Top.net), NEW N, Moves(N),
         \A f \in N : HeldBy(f) = {} /\ (f.kind = "net" => f.net = Top.net)
  PROVE  OwedInv'
<1>1. Shape /\ stack # <<>> /\ Top.kind = "net"
  BY CascadeIs DEF In
<1>2. Owed' = Owed
  BY OwedSame
<1>3. PICK h : h = Top
  OBVIOUS
<1>4. h \in Open
  BY <1>1, <1>3, OpenIs
<1>5. h.net \notin Owed /\ Grasp(h) = {}
  BY <1>1, <1>3, <1>4, NetGrasps DEF OwedInv, AsBefore
<1>6. \A n \in Owed' : routed'[n] = routed[n]
  BY <1>2, <1>3, <1>5 DEF Elsewhere, Owed
<1>7. \A f \in N : AsBefore(f)'
  BY <1>2, <1>3, <1>5 DEF AsBefore
<1>8. \A n \in Owed' : n \notin Grasp(Top)
  BY <1>3, <1>5
<1> QED
  BY <1>1, <1>2, <1>6, <1>7, <1>8, OwedMoves

LEMMA NewRerouteHolds ==
  ASSUME NEW items, NEW d, NEW anc, NEW k, k = RerouteFrame(items, d, anc)
  PROVE  HeldBy(k) = {} /\ Grasp(k) = ToSet(items) /\ k.kind = "reroute"
<1>1. k.kind = "reroute" /\ k.stage = "item" /\ k.items = items
  BY DEF RerouteFrame
<1> QED
  BY <1>1 DEF HeldBy, Grasp, Rips

LEMMA NewTapHolds ==
  ASSUME NEW n, NEW t, NEW d, NEW anc, NEW k, k = TapFrame(n, t, d, anc)
  PROVE  HeldBy(k) = {} /\ Grasp(k) = {} /\ k.kind = "tap"
<1>1. k.kind = "tap" /\ k.stage = "level" /\ k.ripped = <<>>
  BY DEF TapFrame
<1>2. ToSet(k.ripped) = {}
  BY <1>1, NothingHeld
<1> QED
  BY <1>1, <1>2 DEF HeldBy, Grasp

LEMMA NetStepsOwed ==
  ASSUME CascadeInv, OwedInv,
         (\E t : RouteTaps(t)) \/ CommitNet \/ Reask \/ NetDone \/ UndoReask \/ RestoreTree
  PROVE  OwedInv'
<1>1. PICK s : In("net", s)
  BY DEF RouteTaps, CommitNet, Reask, NetDone, UndoReask, RestoreTree
<1>2. /\ Shape /\ Mapped /\ stack # <<>> /\ Top \in NetFrames /\ Top.kind = "net"
      /\ UNCHANGED <<pending, at>>
  BY <1>1, CascadeIs, TopIsNet
     DEF RouteTaps, CommitNet, Reask, NetDone, UndoReask, RestoreTree
<1>3. PICK h \in NetFrames : h = Top
  BY <1>2
<1>4. PICK n \in Nets : n = h.net
  BY DEF NetFrames
<1>5. Elsewhere(n)
  <2>1. CASE (\E t : RouteTaps(t)) \/ NetDone
    BY <2>1 DEF RouteTaps, NetDone, boardVars, Elsewhere
  <2>2. CASE Reask \/ UndoReask
    BY <2>2, <1>2, <1>3, <1>4, RoutesElsewhere DEF Reask, UndoReask
  <2>3. CASE CommitNet
    BY <2>3, <1>2, <1>3, <1>4, RoutesElsewhere DEF CommitNet
  <2>4. CASE RestoreTree
    BY <2>4, <1>2, <1>3, <1>4, RoutesElsewhere DEF RestoreTree
  <2> QED
    BY <2>1, <2>2, <2>3, <2>4
<1>6. Elsewhere(Top.net)
  BY <1>3, <1>4, <1>5
<1>7. ASSUME NEW f, f.kind = "net" PROVE HeldBy(f) = {}
  BY <1>7, NetGrasps
<1>8. CASE \E t : RouteTaps(t)
  <2>1. PICK t : RouteTaps(t)
    BY <1>8
  <2>2. PICK f : f = [h EXCEPT !.taps = t, !.stage = "commit"]
    OBVIOUS
  <2>3. f.kind = "net" /\ f.net = n /\ HeldBy(f) = {}
    BY <1>4, <1>7, <2>2 DEF NetFrames
  <2>4. PICK k : k = TapFrame(n, t, 0, {})
    OBVIOUS
  <2>5. k.kind = "tap" /\ HeldBy(k) = {}
    BY <2>4, NewTapHolds
  <2>6. Become(f) \/ Call(f, k)
    BY <1>3, <1>4, <2>1, <2>2, <2>4 DEF RouteTaps
  <2>7. Moves({f}) \/ Moves({f, k})
    BY <1>2, <2>6, BecomeMoves, CallMoves
  <2>8. Top.net = n
    BY <1>3, <1>4
  <2> QED
    BY <1>1, <1>2, <1>6, <2>3, <2>5, <2>7, <2>8, NetTurnOwed
<1>9. CASE CommitNet \/ UndoReask
  <2>1. PICK s2 : Goto(s2)
    BY <1>9 DEF CommitNet, UndoReask
  <2>2. PICK f : f = [h EXCEPT !.stage = s2]
    OBVIOUS
  <2>3. f.kind = "net" /\ f.net = n /\ HeldBy(f) = {}
    BY <1>4, <1>7, <2>2 DEF NetFrames
  <2>4. Become(f)
    BY <1>3, <2>1, <2>2 DEF Goto
  <2>5. Moves({f}) /\ Top.net = n
    BY <1>2, <1>3, <1>4, <2>4, BecomeMoves
  <2> QED
    BY <1>1, <1>2, <1>6, <2>3, <2>5, NetTurnOwed
<1>10. CASE Reask
  <2>1. PICK p : p = Payload(n)
    OBVIOUS
  <2>2. PICK f : f = [h EXCEPT !.stage = "reasked", !.saved = p]
    OBVIOUS
  <2>3. f.kind = "net" /\ f.net = n /\ HeldBy(f) = {}
    BY <1>4, <1>7, <2>2 DEF NetFrames
  <2>4. PICK k : k = RerouteFrame(<<n>>, MaxRip, {})
    OBVIOUS
  <2>5. k.kind = "reroute" /\ HeldBy(k) = {}
    BY <2>4, NewRerouteHolds
  <2>6. Call(f, k)
    BY <1>3, <1>4, <1>10, <2>1, <2>2, <2>4 DEF Reask
  <2>7. Moves({f, k}) /\ Top.net = n
    BY <1>2, <1>3, <1>4, <2>6, CallMoves
  <2> QED
    BY <1>1, <1>2, <1>6, <2>3, <2>5, <2>7, NetTurnOwed
<1>11. CASE NetDone \/ RestoreTree
  <2>1. stack' = <<>>
    BY <1>11 DEF NetDone, RestoreTree
  <2>2. Moves({})
    BY <1>1, <1>2, <2>1, LastMoves
  <2> QED
    BY <1>1, <1>2, <1>6, <2>2, NetTurnOwed
<1> QED
  BY <1>8, <1>9, <1>10, <1>11

----------------------------------------------------------------------------
(* A net the loop has still to take is ripped with the route it came with: *)
(* what a call below laid for it, the calls above spare.                   *)
LEMMA VictimsAsBefore ==
  ASSUME CascadeInv, OwedInv, NEW kind \in {"tap", "reroute"}, In(kind, "level"),
         NEW m \in Owed, IsRouted(m), m \notin ExcludedBy(Top)
  PROVE  routed[m] = Start(m)
<1>1. PICK h : h = Top
  OBVIOUS
<1>2. /\ Shape /\ Stacked /\ stack # <<>> /\ h.kind = kind /\ h.stage = "level" /\ Ready(h)
      /\ Roots(h) \subseteq ExcludedBy(h) /\ m \in Nets
      /\ kind = "reroute" => /\ RerouteSound(h) /\ h.items \in Seq(Nets) /\ h.items # <<>>
                             /\ Waiting(h) = ToSet(Tail(h.items))
                             /\ ToSet(h.items) \subseteq ToSet(Tail(h.items)) \cup {h.items[1]}
  <2>1. m \in Nets
    BY DEF Owed
  <2>2. CASE kind = "tap"
    BY <1>1, <2>1, <2>2, TapHas
  <2>3. CASE kind = "reroute"
    <3>1. /\ Shape /\ Stacked /\ stack # <<>> /\ h.kind = kind /\ h.stage = "level" /\ Ready(h)
          /\ RerouteSound(h) /\ h.items \in Seq(Nets) /\ Waiting(h) = ToSet(Tail(h.items))
      BY <1>1, <2>3, RerouteHas
    <3>2. /\ h.items # <<>> /\ Item = h.items[1] /\ ExcludedBy(h) = {Item} \cup Roots(h)
          /\ ToSet(h.items) \subseteq ToSet(Tail(h.items)) \cup {Item}
      BY <1>1, <2>3, ItemHas
    <3> QED
      BY <2>1, <3>1, <3>2
  <2> QED
    BY <2>2, <2>3
<1>3. m \notin Grasp(h)
  <2>1. CASE kind = "tap"
    <3>1. HeldFits(h.ripped)
      BY <1>2, <2>1 DEF Ready, Rips
    <3>2. \A v \in ToSet(h.ripped) : ~IsRouted(v.net)
      BY <3>1 DEF HeldFits, ToSet
    <3>3. Grasp(h) = {v.net : v \in ToSet(h.ripped)}
      BY <1>2, <2>1, TapGrasps DEF Rips
    <3> QED
      BY <3>2, <3>3
  <2>2. CASE kind = "reroute"
    <3>1. HeldFits(h.nested)
      BY <1>2, <2>2 DEF Ready, Rips
    <3>2. \A v \in ToSet(h.nested) : ~IsRouted(v.net)
      BY <3>1 DEF HeldFits, ToSet
    <3>3. Grasp(h) = {v.net : v \in ToSet(h.nested)} \cup ToSet(h.items)
      BY <1>2, <2>2, RerouteGrasps DEF Rips
    <3>4. m \notin ToSet(h.items)
      BY <1>2, <2>2 DEF RerouteSound
    <3> QED
      BY <3>2, <3>3, <3>4
  <2> QED
    BY <2>1, <2>2
<1>4. ASSUME NEW g \in Below, m \in Grasp(g) PROVE FALSE
  <2>1. /\ g \in Frames /\ Fits(g) /\ g.kind \in {"net", "tap", "reroute"}
        /\ Sound(g) /\ Beneath(g, h)
        /\ g.kind = "tap" => g.stage \in {"arbitrate", "settled"}
        /\ g.kind = "reroute" => g.stage \in {"commit", "taps"}
    BY <1>1, <1>2, CallersAre, BelowFacts DEF Frames, NetFrames, TapFrames, RerouteFrames
  <2>2. g.kind = "reroute"
    <3>1. g.kind # "net"
      BY <1>4, NetGrasps
    <3>2. g.kind # "tap"
      BY <1>4, <2>1, TapGrasps DEF Rips
    <3> QED
      BY <2>1, <3>1, <3>2
  <2>3. m \in ToSet(g.items)
    BY <1>4, <2>1, <2>2, RerouteGrasps DEF Rips
  <2>4. RerouteSound(g) /\ RerouteFits(g) /\ g.items \in Seq(Nets) /\ g.items # <<>>
    BY <2>1, <2>2 DEF Sound, Fits, RerouteFits, RerouteFrames
  <2>5. PICK q \in Seq(Nets) : q = g.items
    BY <2>4
  <2>6. ToSet(q) \subseteq ToSet(Tail(q)) \cup {q[1]}
    BY <2>4, <2>5, ItemParts DEF RerouteSound
  <2>7. Waiting(g) = ToSet(Tail(q))
    BY <2>1, <2>2, <2>5 DEF Waiting, ToDo
  <2>8. m = q[1]
    BY <2>3, <2>4, <2>5, <2>6, <2>7 DEF RerouteSound
  <2>9. m \in Spared(g)
    BY <2>1, <2>2, <2>5, <2>8 DEF Spared
  <2> QED
    BY <1>1, <1>2, <2>1, <2>9 DEF Beneath
<1>5. Open = Below \cup {h}
  BY <1>1, <1>2, OpenIs
<1> QED
  BY <1>3, <1>4, <1>5 DEF OwedInv

LEMMA RipsOwed ==
  ASSUME CascadeInv, OwedInv, NEW kind \in {"tap", "reroute"}, In(kind, "level"),
         NEW m \in Nets, IsRouted(m), m \notin ExcludedBy(Top), RipUp(m),
         UNCHANGED <<pending, at>>, NEW f \in Frames, BecomeAfterRip(f, m), f.kind # "net",
         NEW v, v = Victim(m), HeldBy(f) = HeldBy(Top) \cup {v},
         \A n \in Grasp(Top) : n \in Grasp(f)
  PROVE  OwedInv'
<1>1. Shape /\ Mapped /\ stack # <<>>
  BY CascadeIs DEF In
<1>2. Moves({f})
  BY <1>1, TellMoves
<1>3. Owed' = Owed
  BY OwedSame
<1>4. v.net = m /\ v.payload.saved = routed[m]
  BY DEF Victim, Payload
<1>5. m \in Grasp(f)
  BY <1>4 DEF Grasp
<1>6. PICK h : h = Top
  OBVIOUS
<1>7. AsBefore(h)
  BY <1>1, <1>6, OpenIs DEF OwedInv
<1>8. m \in Owed => v.payload.saved = Start(m)
  BY <1>4, VictimsAsBefore
<1>9. AsBefore(f)'
  BY <1>3, <1>4, <1>6, <1>7, <1>8 DEF AsBefore
<1>10. Elsewhere(m)
  BY <1>1, RoutesElsewhere
<1>11. \A n \in Owed' : routed'[n] = routed[n] \/ n \in Grasp(f)
  BY <1>5, <1>10 DEF Elsewhere, Owed
<1> QED
  BY <1>1, <1>2, <1>3, <1>9, <1>11, OwedMoves

(* A victim that goes back has the route it was ripped with.               *)
LEMMA PutsBackOwed ==
  ASSUME CascadeInv, OwedInv, stack # <<>>, UNCHANGED <<pending, at>>,
         NEW s \in Seq(Loads), s # <<>>, HeldFits(s), HeldBy(Top) = ToSet(s),
         NEW v, v = Last(s), RestoreNet(v.net, v.payload),
         NEW f, Become(f), f.kind # "net", HeldBy(f) = ToSet(Front(s)),
         \A n \in Grasp(Top) : n \in ToSet(NetsOf(s)) \/ n \in Grasp(f)
  PROVE  OwedInv'
<1>1. Shape /\ Mapped /\ BoardFits
  BY CascadeIs
<1>2. Moves({f})
  BY <1>1, BecomeMoves
<1>3. Owed' = Owed
  BY OwedSame
<1>4. ToSet(s) = ToSet(Front(s)) \cup {v} /\ v \in ToSet(s)
  BY EndsOf
<1>5. v \in Loads /\ v.net \in Nets /\ v.payload \in Payloads /\ v.payload.saved.net = v.net
  BY LoadsFit DEF Loads
<1>6. PICK n \in Nets : n = v.net
  BY <1>5
<1>7. PICK p \in Payloads : p = v.payload
  BY <1>5
<1>8. ~IsRouted(n) /\ Good(p, n) /\ RestoreNet(n, p) /\ p.saved.net = n
  BY <1>4, <1>5, <1>6, <1>7 DEF HeldFits, ToSet
<1>9. Only(n) /\ routed'[n] = p.saved
  BY <1>1, <1>8, RestoreFits
<1>10. PICK h : h = Top
  OBVIOUS
<1>11. AsBefore(h) /\ HeldBy(h) = ToSet(s)
  BY <1>1, <1>10, OpenIs DEF OwedInv
<1>12. n \in Owed => routed'[n] = Start(n)
  BY <1>4, <1>6, <1>7, <1>9, <1>11 DEF AsBefore
<1>13. AsBefore(f)'
  BY <1>3, <1>4, <1>11 DEF AsBefore
<1>14. ToSet(NetsOf(s)) = {w.net : w \in ToSet(Front(s))} \cup {n}
  BY <1>4, <1>6, HeldNets
<1>15. {w.net : w \in ToSet(Front(s))} \subseteq Grasp(f)
  BY DEF Grasp
<1>16. \A k \in Owed' : k \in Grasp(Top) => routed'[k] = Start(k) \/ k \in Grasp(f)
  BY <1>3, <1>12, <1>14, <1>15
<1>17. \A k \in Owed' : routed'[k] = routed[k] \/ routed'[k] = Start(k)
  BY <1>3, <1>9, <1>12 DEF Only, Owed
<1> QED
  BY <1>1, <1>2, <1>3, <1>13, <1>16, <1>17, OwedMoves

(* A step that leaves the board alone.                                     *)
LEMMA QuietlyOwed ==
  ASSUME CascadeInv, OwedInv, stack # <<>>, Owed' \subseteq Owed, UNCHANGED routed,
         NEW N, Moves(N),
         \A n \in Grasp(Top) : n \in Owed' => \E f \in N : n \in Grasp(f),
         \A f \in N : f.kind # "net" /\ HeldBy(f) \subseteq HeldBy(Top)
  PROVE  OwedInv'
<1>1. Shape
  BY CascadeIs
<1>2. PICK h : h = Top
  OBVIOUS
<1>3. AsBefore(h)
  BY <1>1, <1>2, OpenIs DEF OwedInv
<1>4. ASSUME NEW f \in N PROVE AsBefore(f)'
  BY <1>2, <1>3 DEF AsBefore
<1> QED
  BY <1>1, <1>4, OwedMoves

----------------------------------------------------------------------------
(* try_phase3_ripup.                                                       *)
LEMMA TapRipsOwed ==
  ASSUME CascadeInv, OwedInv, NEW m \in Nets, TapRips(m)
  PROVE  OwedInv'
<1>1. In("tap", "level") /\ UNCHANGED <<pending, at>>
  BY DEF TapRips
<1>2. PICK h : h = Top
  OBVIOUS
<1>3. Mapped /\ h \in TapFrames /\ h.kind = "tap" /\ h.stage = "level" /\ h.ripped \in Seq(Loads)
  BY <1>1, <1>2, TapHas
<1>4. IsRouted(m) /\ RipUp(m) /\ m \notin ExcludedBy(Top)
  BY DEF TapRips, Rippable, Nameable
<1>5. PICK v \in Loads : v = Victim(m)
  BY <1>3, <1>4, VictimFits
<1>6. PICK q \in Seq(Loads) : q = Append(h.ripped, v)
  <2>1. PICK r \in Seq(Loads) : r = h.ripped
    BY <1>3
  <2>2. Append(r, v) \in Seq(Loads)
    OBVIOUS
  <2> QED
    BY <2>1, <2>2, Zenon
<1>7. ToSet(q) = ToSet(h.ripped) \cup {v}
  BY <1>3, <1>6, EndsOf
<1>8. PICK f : f = [h EXCEPT !.stage = "retry", !.ripped = q]
  OBVIOUS
<1>9. f \in TapFrames /\ f.kind = "tap" /\ f.stage = "retry" /\ f.ripped = q
  BY <1>3, <1>8 DEF TapFrames, Stages
<1>10. BecomeAfterRip(f, m)
  BY <1>2, <1>5, <1>6, <1>8 DEF TapRips
<1>11. HeldBy(f) = HeldBy(h) \cup {v} /\ \A n \in Grasp(h) : n \in Grasp(f)
  BY <1>3, <1>7, <1>9, TapGrasps DEF Rips
<1>12. f \in Frames /\ f.kind # "net" /\ HeldBy(f) = HeldBy(Top) \cup {v}
       /\ \A n \in Grasp(Top) : n \in Grasp(f)
  BY <1>2, <1>9, <1>11 DEF Frames
<1> QED
  BY <1>1, <1>4, <1>5, <1>10, <1>12, RipsOwed

LEMMA RetryHelpsOwed ==
  ASSUME CascadeInv, OwedInv, NEW t, RetryHelps(t)
  PROVE  OwedInv'
<1>1. In("tap", "retry") /\ UNCHANGED <<pending, at, routed>>
  BY DEF RetryHelps
<1>2. PICK h : h = Top
  OBVIOUS
<1>3. /\ Shape /\ stack # <<>> /\ h \in TapFrames /\ h.kind = "tap" /\ h.stage = "retry"
  BY <1>1, <1>2, TapHas
<1>4. PICK f : f = [h EXCEPT !.stage = "arbitrate", !.retry = t]
  OBVIOUS
<1>5. f.kind = "tap" /\ f.stage = "arbitrate"
  BY <1>3, <1>4 DEF TapFrames
<1>6. PICK q : q = NetsOf(h.ripped)
  OBVIOUS
<1>7. PICK d : d = h.depth + 1
  OBVIOUS
<1>8. PICK anc : anc = ExcludedBy(h)
  OBVIOUS
<1>9. PICK k : k = RerouteFrame(q, d, anc)
  OBVIOUS
<1>10. HeldBy(k) = {} /\ Grasp(k) = ToSet(q) /\ k.kind = "reroute"
  BY <1>9, NewRerouteHolds
<1>11. Call(f, k)
  BY <1>2, <1>4, <1>6, <1>7, <1>8, <1>9 DEF RetryHelps
<1>12. Moves({f, k})
  BY <1>3, <1>11, CallMoves
<1>13. Grasp(h) = ToSet(q) /\ HeldBy(f) = {}
  BY <1>3, <1>5, <1>6, TapGrasps, HeldNets DEF Rips
<1>14. Owed' = Owed
  BY <1>1, OwedSame
<1> QED
  BY <1>1, <1>2, <1>3, <1>5, <1>10, <1>12, <1>13, <1>14, QuietlyOwed

LEMMA TapTurnsOwed ==
  ASSUME CascadeInv, OwedInv, RetryDoesNotHelp \/ TapGivesUp
  PROVE  OwedInv'
<1>1. PICK s \in {"retry", "level"}, s2 \in {"level", "unwind"} :
        In("tap", s) /\ Goto(s2) /\ UNCHANGED <<pending, at, routed>>
  BY DEF RetryDoesNotHelp, TapGivesUp, boardVars
<1>2. PICK h : h = Top
  OBVIOUS
<1>3. /\ Shape /\ stack # <<>> /\ h \in TapFrames /\ h.kind = "tap" /\ h.stage = s
  BY <1>1, <1>2, TapHas
<1>4. PICK f : f = [h EXCEPT !.stage = s2]
  OBVIOUS
<1>5. f.kind = "tap" /\ f.stage = s2 /\ f.ripped = h.ripped
  BY <1>3, <1>4 DEF TapFrames
<1>6. Moves({f})
  BY <1>1, <1>2, <1>3, <1>4, BecomeMoves DEF Goto
<1>7. HeldBy(f) = HeldBy(h) /\ Grasp(f) = Grasp(h)
  BY <1>1, <1>3, <1>5, TapGrasps DEF Rips
<1>8. Owed' = Owed
  BY <1>1, OwedSame
<1> QED
  BY <1>1, <1>2, <1>3, <1>5, <1>6, <1>7, <1>8, QuietlyOwed

LEMMA TapUnwindsOwed ==
  ASSUME CascadeInv, OwedInv, TapUnwinds
  PROVE  OwedInv'
<1>1. In("tap", "unwind") /\ UNCHANGED <<pending, at>>
  BY DEF TapUnwinds
<1>2. PICK h : h = Top
  OBVIOUS
<1>3. /\ Shape /\ stack # <<>> /\ h \in TapFrames /\ h.kind = "tap" /\ h.stage = "unwind"
      /\ Ready(h) /\ h.ripped \in Seq(Loads)
  BY <1>1, <1>2, TapHas
<1>4. PICK s \in Seq(Loads) : s = h.ripped
  BY <1>3
<1>5. s # <<>> /\ HeldFits(s)
  BY <1>2, <1>3, <1>4 DEF TapUnwinds, Ready, Rips
<1>6. PICK v : v = Last(s)
  OBVIOUS
<1>7. PICK q : q = Front(s)
  OBVIOUS
<1>8. PICK f : f = [h EXCEPT !.ripped = q]
  OBVIOUS
<1>9. f.kind = "tap" /\ f.stage = "unwind" /\ f.ripped = q
  BY <1>3, <1>8 DEF TapFrames
<1>10. Become(f) /\ RestoreNet(v.net, v.payload)
  BY <1>2, <1>4, <1>6, <1>7, <1>8 DEF TapUnwinds
<1>11. HeldBy(f) = ToSet(Front(s))
  BY <1>7, <1>9, TapGrasps DEF Rips
<1>12. HeldBy(h) = ToSet(s) /\ Grasp(h) = ToSet(NetsOf(s))
  BY <1>3, <1>4, TapGrasps, HeldNets DEF Rips
<1> QED
  BY <1>1, <1>2, <1>3, <1>5, <1>6, <1>9, <1>10, <1>11, <1>12, PutsBackOwed

(* The caller gets its frame back.                                         *)
LEMMA ReturnsOwed ==
  ASSUME CascadeInv, OwedInv, UNCHANGED <<pending, at, routed>>, Depth > 1, Grasp(Top) = {},
         NEW f, Return(f), Like(f, Caller)
  PROVE  OwedInv'
<1>1. Shape /\ stack # <<>>
  BY CascadeIs DEF Depth
<1>2. Moves({})
  BY <1>1, ReturnMoves
<1>3. Owed' = Owed
  BY OwedSame
<1> QED
  BY <1>1, <1>2, <1>3, QuietlyOwed

LEMMA StillLike ==
  ASSUME NEW h \in Frames, NEW t
  PROVE  h.kind \in {"net", "reroute"} => Like([h EXCEPT !.taps = t], h)
<1>1. ASSUME NEW f, h.kind \in {"net", "reroute"}, f = [h EXCEPT !.taps = t]
      PROVE  Like(f, h)
  <2>1. /\ f.kind = h.kind /\ f.stage = h.stage
        /\ h.kind = "net" => f.net = h.net
        /\ h.kind = "tap" => f.ripped = h.ripped /\ f.again = h.again
        /\ h.kind = "reroute" => f.nested = h.nested /\ f.items = h.items
    BY <1>1 DEF Frames, NetFrames, TapFrames, RerouteFrames
  <2>2. HeldBy(f) = HeldBy(h)
    BY <2>1 DEF HeldBy, Rips
  <2>3. Grasp(f) = Grasp(h)
    BY <2>1, <2>2 DEF Grasp
  <2> QED
    BY <2>1, <2>2, <2>3 DEF Like
<1> QED
  BY <1>1

LEMMA TapReturnsOwed ==
  ASSUME CascadeInv, OwedInv, TapFails \/ KeepRetry \/ Abandoned
  PROVE  OwedInv'
<1>1. PICK s \in {"unwind", "arbitrate", "settled"} :
        In("tap", s) /\ (s = "unwind" => Top.ripped = <<>>)
  BY DEF TapFails, KeepRetry, Abandoned
<1>2. UNCHANGED <<pending, at, routed>>
  BY DEF TapFails, KeepRetry, Abandoned, boardVars
<1>3. /\ Shape /\ Depth > 1 /\ Top.kind = "tap" /\ Top.stage = s
      /\ Caller \in Frames /\ Caller.kind \in {"net", "reroute"}
  BY <1>1, CascadeIs, TopIsTap
<1>4. Grasp(Top) = {}
  <2>1. PICK h : h = Top
    OBVIOUS
  <2>2. h.kind = "tap" /\ h.stage = s /\ (s = "unwind" => h.ripped = <<>>)
    BY <1>1, <1>3, <2>1
  <2>3. s = "unwind" => ToSet(h.ripped) = {}
    BY <2>2, NothingHeld
  <2>4. HeldBy(h) = {}
    BY <1>1, <2>2, <2>3, TapGrasps DEF Rips
  <2>5. Grasp(h) = {}
    BY <2>2, <2>4, TapGrasps
  <2> QED
    BY <2>1, <2>5
<1>5. PICK g \in Frames : g = Caller
  BY <1>3
<1>6. \E f : Return(f) /\ Like(f, g)
  <2>1. CASE TapFails \/ Abandoned
    BY <2>1, <1>5, LikeItself DEF TapFails, Abandoned
  <2>2. CASE KeepRetry
    <3>1. PICK t : t = Top.retry
      OBVIOUS
    <3>2. PICK f : f = [g EXCEPT !.taps = t]
      OBVIOUS
    <3>3. Return(f)
      BY <2>2, <1>5, <3>1, <3>2 DEF KeepRetry
    <3>4. Like(f, g)
      BY <1>3, <1>5, <3>2, StillLike
    <3> QED
      BY <3>3, <3>4
  <2> QED
    BY <2>1, <2>2
<1>7. PICK f : Return(f) /\ Like(f, Caller)
  BY <1>5, <1>6
<1> QED
  BY <1>2, <1>3, <1>4, <1>7, ReturnsOwed

LEMMA AbandonRetryOwed ==
  ASSUME CascadeInv, OwedInv, AbandonRetry
  PROVE  OwedInv'
<1>1. In("tap", "arbitrate") /\ UNCHANGED <<pending, at, routed>>
  BY DEF AbandonRetry
<1>2. PICK h : h = Top
  OBVIOUS
<1>3. /\ Shape /\ stack # <<>> /\ h \in TapFrames /\ h.kind = "tap" /\ h.stage = "arbitrate"
  BY <1>1, <1>2, TapHas
<1>4. PICK q : q = NetsOf(h.ripped)
  OBVIOUS
<1>5. PICK f : f = [h EXCEPT !.stage = "rerip", !.again = q]
  OBVIOUS
<1>6. f.kind = "tap" /\ f.stage = "rerip"
  BY <1>3, <1>5 DEF TapFrames
<1>7. Become(f)
  BY <1>2, <1>4, <1>5 DEF AbandonRetry
<1>8. Moves({f})
  BY <1>3, <1>7, BecomeMoves
<1>9. Grasp(h) = {} /\ HeldBy(f) = {}
  BY <1>3, <1>6, TapGrasps DEF Rips
<1>10. Owed' = Owed
  BY <1>1, OwedSame
<1> QED
  BY <1>1, <1>2, <1>3, <1>6, <1>8, <1>9, <1>10, QuietlyOwed

LEMMA RipsAgainOwed ==
  ASSUME CascadeInv, OwedInv, NEW m \in Nets, RipsAgain(m)
  PROVE  OwedInv'
<1>1. In("tap", "rerip") /\ RipUp(m) /\ UNCHANGED <<pending, at>>
  BY DEF RipsAgain
<1>2. PICK h : h = Top
  OBVIOUS
<1>3. /\ Shape /\ Mapped /\ stack # <<>> /\ h \in TapFrames /\ h.kind = "tap"
      /\ h.stage = "rerip" /\ h.again \in Seq(Nets)
  BY <1>1, <1>2, TapHas
<1>4. PICK f : f = IF m \in ToSet(h.again) THEN h ELSE [h EXCEPT !.again = Append(@, m)]
  OBVIOUS
<1>5. /\ f \in TapFrames /\ f.kind = "tap" /\ f.stage = "rerip"
      /\ ToSet(f.again) = ToSet(h.again) \cup {m}
  <2>1. CASE m \in ToSet(h.again)
    BY <2>1, <1>3, <1>4
  <2>2. CASE m \notin ToSet(h.again)
    <3>1. PICK q \in Seq(Nets) : q = Append(h.again, m)
      <4>1. PICK r \in Seq(Nets) : r = h.again
        BY <1>3
      <4>2. Append(r, m) \in Seq(Nets)
        OBVIOUS
      <4> QED
        BY <4>1, <4>2, Zenon
    <3>2. ToSet(q) = ToSet(h.again) \cup {m}
      BY <1>3, <3>1, EndsOf
    <3>3. f = [h EXCEPT !.again = q]
      BY <1>3, <1>4, <2>2, <3>1 DEF TapFrames
    <3> QED
      BY <1>3, <3>2, <3>3 DEF TapFrames
  <2> QED
    BY <2>1, <2>2
<1>6. BecomeAfterRip(f, m) /\ f \in Frames
  BY <1>2, <1>4, <1>5 DEF RipsAgain, Frames
<1>7. Moves({f})
  BY <1>3, <1>6, TellMoves
<1>8. /\ HeldBy(f) = {} /\ m \in Grasp(f) /\ \A n \in Grasp(h) : n \in Grasp(f)
  BY <1>3, <1>5, TapGrasps DEF Rips
<1>9. Owed' = Owed
  BY <1>1, OwedSame
<1>10. AsBefore(f)'
  BY <1>5, <1>8 DEF AsBefore
<1>11. Elsewhere(m)
  BY <1>1, <1>3, RoutesElsewhere
<1>12. \A n \in Owed' : routed'[n] = routed[n] \/ n \in Grasp(f)
  BY <1>8, <1>11 DEF Elsewhere, Owed
<1> QED
  BY <1>2, <1>3, <1>7, <1>8, <1>9, <1>10, <1>12, OwedMoves

LEMMA ReroutesAgainOwed ==
  ASSUME CascadeInv, OwedInv, ReroutesAgain
  PROVE  OwedInv'
<1>1. In("tap", "rerip") /\ UNCHANGED <<pending, at, routed>>
  BY DEF ReroutesAgain, boardVars
<1>2. PICK h : h = Top
  OBVIOUS
<1>3. /\ Shape /\ stack # <<>> /\ h \in TapFrames /\ h.kind = "tap" /\ h.stage = "rerip"
  BY <1>1, <1>2, TapHas
<1>4. PICK f : f = [h EXCEPT !.stage = "settled"]
  OBVIOUS
<1>5. f.kind = "tap" /\ f.stage = "settled"
  BY <1>3, <1>4 DEF TapFrames
<1>6. PICK q : q = h.again
  OBVIOUS
<1>7. PICK d : d = h.depth + 1
  OBVIOUS
<1>8. PICK anc : anc = ExcludedBy(h)
  OBVIOUS
<1>9. PICK k : k = RerouteFrame(q, d, anc)
  OBVIOUS
<1>10. HeldBy(k) = {} /\ Grasp(k) = ToSet(q) /\ k.kind = "reroute"
  BY <1>9, NewRerouteHolds
<1>11. Call(f, k)
  BY <1>2, <1>4, <1>6, <1>7, <1>8, <1>9 DEF ReroutesAgain
<1>12. Moves({f, k})
  BY <1>3, <1>11, CallMoves
<1>13. Grasp(h) = ToSet(q) /\ HeldBy(f) = {}
  BY <1>3, <1>5, <1>6, TapGrasps DEF Rips
<1>14. Owed' = Owed
  BY <1>1, OwedSame
<1> QED
  BY <1>1, <1>2, <1>3, <1>5, <1>10, <1>12, <1>13, <1>14, QuietlyOwed

----------------------------------------------------------------------------
(* _reroute_phase3_ripped_nets.                                            *)
LEMMA ItemsDoneOwed ==
  ASSUME CascadeInv, OwedInv, ItemsDone
  PROVE  OwedInv'
<1>1. In("reroute", "item") /\ UNCHANGED <<pending, at, routed>>
  BY DEF ItemsDone, boardVars
<1>2. PICK h : h = Top
  OBVIOUS
<1>3. Shape /\ Depth > 1 /\ h.kind = "reroute" /\ h.stage = "item" /\ Caller \in Frames
  BY <1>1, <1>2, CascadeIs, TopIsReroute
<1>4. ToSet(h.items) = {}
  <2>1. h.items = <<>>
    BY <1>2 DEF ItemsDone
  <2> QED
    BY <2>1, NothingHeld
<1>5. Grasp(h) = {}
  BY <1>3, <1>4, RerouteGrasps DEF Rips
<1>6. PICK g : g = Caller
  OBVIOUS
<1>7. Return(g)
  BY <1>6 DEF ItemsDone
<1>8. Like(g, Caller)
  BY <1>6 DEF Like
<1> QED
  BY <1>1, <1>2, <1>3, <1>5, <1>7, <1>8, ReturnsOwed

LEMMA MainLandsOwed ==
  ASSUME CascadeInv, OwedInv, NEW r, MainLands(r)
  PROVE  OwedInv'
<1>1. PICK s \in {"item", "retry"} : In("reroute", s) /\ (s = "item" => Top.items # <<>>)
  BY DEF MainLands
<1>2. PICK h : h = Top
  OBVIOUS
<1>3. /\ Shape /\ Mapped /\ stack # <<>> /\ h \in RerouteFrames /\ h.kind = "reroute"
      /\ h.stage = s /\ RerouteFits(h) /\ Lined
  BY <1>1, <1>2, RerouteHas, CascadeIs
<1>4. PICK n \in Nets : n = Item
  BY <1>1, ItemHas
<1>5. n \in ToSet(h.items)
  BY <1>1, <1>2, <1>4, ItemHas
<1>6. PICK res : res = Found(n, r)
  OBVIOUS
<1>7. Owed' \subseteq Owed
  <2>1. Update(n, res) /\ UNCHANGED at
    BY <1>4, <1>6 DEF MainLands
  <2> QED
    BY <1>3, <2>1, OwedUpdated
<1>8. Elsewhere(n)
  <2>1. PICK kept : RecordSuccess(n, r, kept)
    BY <1>4 DEF MainLands
  <2>2. routed \in [Nets -> Results \cup {None}]
    BY <1>3 DEF Mapped, BoardTypeOK
  <2> QED
    BY <2>1, <2>2 DEF RecordSuccess, Books, Elsewhere
<1>9. PICK f : f = [h EXCEPT !.stage = "taps", !.main = res]
  OBVIOUS
<1>10. f.kind = "reroute" /\ f.stage = "taps" /\ f.items = h.items
  BY <1>3, <1>9 DEF RerouteFrames
<1>11. HeldBy(f) = {} /\ Grasp(f) = ToSet(h.items)
  <2>1. ~Rips(f)
    BY <1>10 DEF Rips
  <2>2. HeldBy(f) = {}
    BY <1>10, <2>1, RerouteGrasps
  <2> QED
    BY <1>10, <2>2, RerouteGrasps
<1>12. PICK q : q = NetsOf(h.nested)
  OBVIOUS
<1>13. PICK k : k = RerouteFrame(q, h.depth + 1, ExcludedBy(h))
  OBVIOUS
<1>14. HeldBy(k) = {} /\ Grasp(k) = ToSet(q) /\ k.kind = "reroute"
  <2>1. PICK d : d = h.depth + 1
    OBVIOUS
  <2>2. PICK anc : anc = ExcludedBy(h)
    OBVIOUS
  <2>3. k = RerouteFrame(q, d, anc)
    BY <1>13, <2>1, <2>2
  <2> QED
    BY <2>3, NewRerouteHolds
<1>15. IF h.nested = <<>> THEN Become(f) ELSE Call(f, k)
  BY <1>2, <1>4, <1>6, <1>9, <1>12, <1>13 DEF MainLands
<1>16. Grasp(h) \subseteq ToSet(q) \cup ToSet(h.items)
  BY <1>3, <1>12, RerouteGrasps, HeldNets
<1>17. h.nested = <<>> => ToSet(q) = {}
  BY <1>12, NothingHeld
<1>18. PICK N : N = IF h.nested = <<>> THEN {f} ELSE {f, k}
  OBVIOUS
<1>19. Moves(N)
  BY <1>3, <1>15, <1>18, BecomeMoves, CallMoves
<1>20. \A g \in N : AsBefore(g)'
  BY <1>10, <1>11, <1>14, <1>18 DEF AsBefore
<1>21. \A j \in Owed' : j \in Grasp(Top) => \E g \in N : j \in Grasp(g)
  BY <1>2, <1>11, <1>14, <1>16, <1>17, <1>18
<1>22. \A j \in Owed' : routed'[j] = routed[j] \/ \E g \in N : j \in Grasp(g)
  BY <1>5, <1>8, <1>11, <1>18 DEF Elsewhere, Owed
<1> QED
  BY <1>3, <1>7, <1>19, <1>20, <1>21, <1>22, OwedMoves

LEMMA MainTurnsOwed ==
  ASSUME CascadeInv, OwedInv, MainOpensRipUp \/ MainRetryFails \/ MainGivesUp
  PROVE  OwedInv'
<1>1. PICK s \in {"item", "retry", "level"}, s2 \in {"level", "unwind"} :
        In("reroute", s) /\ Goto(s2) /\ UNCHANGED <<pending, at, routed>>
  BY DEF MainOpensRipUp, MainRetryFails, MainGivesUp, boardVars
<1>2. PICK h : h = Top
  OBVIOUS
<1>3. /\ Shape /\ stack # <<>> /\ h \in RerouteFrames /\ h.kind = "reroute" /\ h.stage = s
      /\ RerouteFits(h)
  BY <1>1, <1>2, RerouteHas
<1>4. PICK f : f = [h EXCEPT !.stage = s2]
  OBVIOUS
<1>5. f.kind = "reroute" /\ f.stage = s2 /\ f.nested = h.nested /\ f.items = h.items
  BY <1>3, <1>4 DEF RerouteFrames
<1>6. Moves({f})
  BY <1>1, <1>2, <1>3, <1>4, BecomeMoves DEF Goto
<1>7. s = "item" => ToSet(h.nested) = {}
  <2>1. s = "item" => h.nested = <<>>
    BY <1>3 DEF RerouteFits
  <2> QED
    BY <2>1, NothingHeld
<1>8. HeldBy(f) = HeldBy(h) /\ Grasp(f) = Grasp(h)
  <2>1. HeldBy(f) = ToSet(h.nested)
    BY <1>5, RerouteGrasps DEF Rips
  <2>2. HeldBy(h) = ToSet(h.nested)
    BY <1>1, <1>3, <1>7, RerouteGrasps DEF Rips
  <2> QED
    BY <1>3, <1>5, <2>1, <2>2, RerouteGrasps
<1>9. Owed' = Owed
  BY <1>1, OwedSame
<1> QED
  BY <1>1, <1>2, <1>3, <1>5, <1>6, <1>8, <1>9, QuietlyOwed

LEMMA MainRipsOwed ==
  ASSUME CascadeInv, OwedInv, NEW m \in Nets, MainRips(m)
  PROVE  OwedInv'
<1>1. In("reroute", "level") /\ UNCHANGED <<pending, at>>
  BY DEF MainRips
<1>2. PICK h : h = Top
  OBVIOUS
<1>3. /\ Mapped /\ h \in RerouteFrames /\ h.kind = "reroute" /\ h.stage = "level"
      /\ h.nested \in Seq(Loads)
  BY <1>1, <1>2, RerouteHas
<1>4. IsRouted(m) /\ RipUp(m) /\ m \notin ExcludedBy(Top)
  BY DEF MainRips, Rippable, Nameable
<1>5. PICK v \in Loads : v = Victim(m)
  BY <1>3, <1>4, VictimFits
<1>6. PICK q \in Seq(Loads) : q = Append(h.nested, v)
  <2>1. PICK r \in Seq(Loads) : r = h.nested
    BY <1>3
  <2>2. Append(r, v) \in Seq(Loads)
    OBVIOUS
  <2> QED
    BY <2>1, <2>2, Zenon
<1>7. ToSet(q) = ToSet(h.nested) \cup {v}
  BY <1>3, <1>6, EndsOf
<1>8. PICK f : f = [h EXCEPT !.stage = "retry", !.nested = q]
  OBVIOUS
<1>9. /\ f \in RerouteFrames /\ f.kind = "reroute" /\ f.stage = "retry" /\ f.nested = q
      /\ f.items = h.items
  BY <1>3, <1>8 DEF RerouteFrames, Stages
<1>10. BecomeAfterRip(f, m)
  BY <1>2, <1>5, <1>6, <1>8 DEF MainRips
<1>11. HeldBy(f) = HeldBy(h) \cup {v} /\ \A n \in Grasp(h) : n \in Grasp(f)
  BY <1>3, <1>7, <1>9, RerouteGrasps DEF Rips
<1>12. f \in Frames /\ f.kind # "net" /\ HeldBy(f) = HeldBy(Top) \cup {v}
       /\ \A n \in Grasp(Top) : n \in Grasp(f)
  BY <1>2, <1>9, <1>11 DEF Frames
<1> QED
  BY <1>1, <1>4, <1>5, <1>10, <1>12, RipsOwed

LEMMA MainUnwindsOwed ==
  ASSUME CascadeInv, OwedInv, MainUnwinds
  PROVE  OwedInv'
<1>1. In("reroute", "unwind") /\ UNCHANGED <<pending, at>>
  BY DEF MainUnwinds
<1>2. PICK h : h = Top
  OBVIOUS
<1>3. /\ Shape /\ stack # <<>> /\ h \in RerouteFrames /\ h.kind = "reroute"
      /\ h.stage = "unwind" /\ Ready(h) /\ h.nested \in Seq(Loads)
  BY <1>1, <1>2, RerouteHas
<1>4. PICK s \in Seq(Loads) : s = h.nested
  BY <1>3
<1>5. s # <<>> /\ HeldFits(s)
  BY <1>2, <1>3, <1>4 DEF MainUnwinds, Ready, Rips
<1>6. PICK v : v = Last(s)
  OBVIOUS
<1>7. PICK q : q = Front(s)
  OBVIOUS
<1>8. PICK f : f = [h EXCEPT !.nested = q]
  OBVIOUS
<1>9. f.kind = "reroute" /\ f.stage = "unwind" /\ f.nested = q /\ f.items = h.items
  BY <1>3, <1>8 DEF RerouteFrames
<1>10. Become(f) /\ RestoreNet(v.net, v.payload)
  BY <1>2, <1>4, <1>6, <1>7, <1>8 DEF MainUnwinds
<1>11. HeldBy(f) = ToSet(Front(s)) /\ ToSet(h.items) \subseteq Grasp(f)
  BY <1>7, <1>9, RerouteGrasps DEF Rips
<1>12. HeldBy(h) = ToSet(s) /\ Grasp(h) = ToSet(NetsOf(s)) \cup ToSet(h.items)
  BY <1>3, <1>4, RerouteGrasps, HeldNets DEF Rips
<1>13. \A n \in Grasp(h) : n \in ToSet(NetsOf(s)) \/ n \in Grasp(f)
  BY <1>11, <1>12
<1> QED
  BY <1>1, <1>2, <1>3, <1>5, <1>6, <1>9, <1>10, <1>11, <1>12, <1>13, PutsBackOwed

(* The item in hand is done with: the loop no longer waits for it.         *)
LEMMA NextItemOwed ==
  ASSUME CascadeInv, OwedInv, NEW s, In("reroute", s), s # "item" \/ Top.items # <<>>,
         NextItem, s \in {"item", "taps", "commit"} \/ Top.nested = <<>>,
         Owed' \subseteq Owed, Item \notin Owed', Elsewhere(Item)
  PROVE  OwedInv'
<1>1. PICK f \in Frames :
        /\ Become(f) /\ f.kind = "reroute" /\ f.stage = "item" /\ f.items = Tail(Top.items)
  BY NextItemIs
<1>2. PICK h : h = Top
  OBVIOUS
<1>3. /\ Shape /\ stack # <<>> /\ h.kind = "reroute" /\ h.stage = s
  BY <1>2, RerouteHas
<1>4. PICK n \in Nets : n = Item
  BY ItemHas
<1>5. ToSet(h.items) \subseteq ToSet(Tail(h.items)) \cup {n}
  BY <1>2, <1>4, ItemHas
<1>6. HeldBy(h) = {}
  <2>1. CASE s \in {"item", "taps", "commit"}
    BY <2>1, <1>3, RerouteGrasps DEF Rips
  <2>2. CASE h.nested = <<>>
    <3>1. ToSet(h.nested) = {}
      BY <2>2, NothingHeld
    <3> QED
      BY <3>1, <1>3, RerouteGrasps
  <2> QED
    BY <1>2, <2>1, <2>2
<1>7. Grasp(h) \subseteq Grasp(f) \cup {n} /\ HeldBy(f) = {}
  BY <1>1, <1>2, <1>3, <1>5, <1>6, RerouteGrasps DEF Rips
<1>8. Moves({f})
  BY <1>1, <1>3, BecomeMoves
<1>9. AsBefore(f)'
  BY <1>1, <1>7 DEF AsBefore
<1>10. \A j \in Owed' : routed'[j] = routed[j]
  BY <1>4 DEF Elsewhere, Owed
<1>11. \A j \in Owed' : j \in Grasp(Top) => j \in Grasp(f)
  BY <1>2, <1>4, <1>7
<1> QED
  BY <1>3, <1>8, <1>9, <1>10, <1>11, OwedMoves

LEMMA ItemEndsOwed ==
  ASSUME CascadeInv, OwedInv, ExhaustedAfterTurn,
         ItemFails \/ ItemExhausted \/ ItemIsSimple \/ ItemCommits
  PROVE  OwedInv'
<1>1. PICK s \in {"item", "unwind", "taps", "commit"} :
        /\ In("reroute", s) /\ (s # "item" \/ Top.items # <<>>)
        /\ s = "unwind" => Top.nested = <<>>
  BY DEF ItemFails, ItemExhausted, ItemIsSimple, ItemCommits
<1>2. PICK n \in Nets : n = Item
  BY <1>1, ItemHas
<1>3. NextItem
  BY DEF ItemFails, ItemExhausted, ItemIsSimple, ItemCommits
<1>4. Lined /\ Mapped
  BY CascadeIs
<1>5. Owed' \subseteq Owed /\ n \notin Owed'
  <2>1. CASE ItemFails \/ ItemCommits
    <3>1. pending' = [pending EXCEPT ![n] = None] /\ UNCHANGED at
      BY <1>2, <2>1 DEF ItemFails, ItemCommits
    <3>2. Owed' \subseteq Owed \ {n}
      BY <1>4, <3>1, OwedSettled
    <3> QED
      BY <3>2
  <2>2. CASE ItemExhausted
    <3>1. PICK res : res = Found(n, {})
      OBVIOUS
    <3>2. Update(n, res) /\ UNCHANGED at
      BY <1>2, <2>2, <3>1 DEF ItemExhausted
    <3>3. n \notin Owed
      BY <1>2, <2>2 DEF ExhaustedAfterTurn, Owed
    <3>4. Owed' \subseteq Owed
      BY <1>4, <3>2, OwedUpdated
    <3> QED
      BY <3>3, <3>4
  <2>3. CASE ItemIsSimple
    <3>1. UNCHANGED <<pending, at>> /\ n \notin Multipoint
      BY <1>2, <2>3 DEF ItemIsSimple
    <3>2. Owed' = Owed
      BY <3>1, OwedSame
    <3>3. \A i \in at..Len(Order) : Order[i] \in Multipoint
      BY <1>4, OrderIs DEF Lined
    <3>4. n \notin Owed
      BY <3>1, <3>3 DEF Owed
    <3> QED
      BY <3>2, <3>4
  <2> QED
    BY <2>1, <2>2, <2>3
<1>6. Elsewhere(n)
  <2>1. CASE ItemCommits
    <3>1. \E t, base : CommitTaps(n, t, base, base)
      BY <1>2, <2>1 DEF ItemCommits
    <3> QED
      BY <1>4, <3>1, RoutesElsewhere
  <2>2. CASE ~ItemCommits
    BY <2>2 DEF ItemFails, ItemExhausted, ItemIsSimple, boardVars, Elsewhere
  <2> QED
    BY <2>1, <2>2
<1>7. Item \notin Owed' /\ Elsewhere(Item)
  BY <1>2, <1>5, <1>6
<1> QED
  BY <1>1, <1>3, <1>5, <1>7, NextItemOwed

LEMMA ItemTapsOwed ==
  ASSUME CascadeInv, OwedInv, NEW t, ItemTaps(t)
  PROVE  OwedInv'
<1>1. In("reroute", "taps") /\ UNCHANGED <<pending, at, routed>>
  BY DEF ItemTaps, boardVars
<1>2. PICK h : h = Top
  OBVIOUS
<1>3. /\ Shape /\ stack # <<>> /\ h \in RerouteFrames /\ h.kind = "reroute"
      /\ h.stage = "taps"
  BY <1>1, <1>2, RerouteHas
<1>4. PICK n : n = Item
  OBVIOUS
<1>5. PICK f : f = [h EXCEPT !.taps = t, !.stage = "commit"]
  OBVIOUS
<1>6. f.kind = "reroute" /\ f.stage = "commit" /\ f.items = h.items
  BY <1>3, <1>5 DEF RerouteFrames
<1>7. PICK d : d = h.depth + 1
  OBVIOUS
<1>8. PICK anc : anc = h.ancestors
  OBVIOUS
<1>9. PICK k : k = TapFrame(n, t, d, anc)
  OBVIOUS
<1>10. HeldBy(k) = {} /\ k.kind = "tap"
  BY <1>9, NewTapHolds
<1>11. Become(f) \/ Call(f, k)
  BY <1>2, <1>4, <1>5, <1>7, <1>8, <1>9 DEF ItemTaps
<1>12. PICK N \in {{f}, {f, k}} : Moves(N)
  BY <1>3, <1>11, BecomeMoves, CallMoves
<1>13. Grasp(h) = Grasp(f) /\ HeldBy(f) = {}
  BY <1>3, <1>6, RerouteGrasps DEF Rips
<1>14. Owed' = Owed
  BY <1>1, OwedSame
<1>15. /\ \A j \in Grasp(Top) : j \in Owed' => \E g \in N : j \in Grasp(g)
       /\ \A g \in N : g.kind # "net" /\ HeldBy(g) \subseteq HeldBy(Top)
  BY <1>2, <1>6, <1>10, <1>12, <1>13
<1> QED
  BY <1>1, <1>3, <1>12, <1>14, <1>15, QuietlyOwed

----------------------------------------------------------------------------
(* The phase as a whole.                                                   *)
LEMMA OwedStarts ==
  ASSUME Init
  PROVE  OwedInv
<1>1. Open = {}
  BY DEF Init, Open, Depth
<1>2. \A n \in Owed : routed[n] = Start(n)
  BY DEF Init, Owed, Start
<1> QED
  BY <1>1, <1>2 DEF OwedInv

LEMMA OwedSurvives ==
  ASSUME CascadeInv, OwedInv, [Next]_vars, ExhaustedAfterTurn
  PROVE  OwedInv'
<1>1. CASE Cancel \/ UNCHANGED vars
  BY <1>1, LoopStepsOwed
<1>2. CASE NetStep
  BY <1>2, LoopStepsOwed, TakeNetOwed, NetStepsOwed DEF NetStep
<1>3. CASE TapStep
  BY <1>3, TapRipsOwed, RetryHelpsOwed, TapTurnsOwed, TapUnwindsOwed, TapReturnsOwed,
     AbandonRetryOwed, RipsAgainOwed, ReroutesAgainOwed DEF TapStep
<1>4. CASE RerouteStep
  BY <1>4, ItemsDoneOwed, MainLandsOwed, MainTurnsOwed, MainRipsOwed, MainUnwindsOwed,
     ItemEndsOwed, ItemTapsOwed DEF RerouteStep
<1> QED
  BY <1>1, <1>2, <1>3, <1>4 DEF Next

(* What the loop takes is on the board.                                    *)
LEMMA TakenNetsAreRouted ==
  ASSUME CascadeInv, OwedInv
  PROVE  NoGhost
<1> SUFFICES ASSUME TakeNet PROVE IsRouted(Order[at])
  BY DEF NoGhost
<1>1. stack = <<>> /\ at \in DOMAIN Order /\ pending[Order[at]] # None
  BY DEF TakeNet, AtLoopHead
<1>2. at \in at..Len(Order) /\ Order[at] \in Nets
  BY <1>1, OrderIs, CascadeAssumption
<1>3. PICK n \in Nets : n = Order[at]
  BY <1>2
<1>4. n \in Owed
  BY <1>1, <1>2, <1>3 DEF Owed
<1>5. Open = {}
  BY <1>1 DEF Open, Depth
<1>6. routed[n] = Start(n)
  BY <1>4, <1>5 DEF OwedInv
<1>7. Start(n) \in Results
  BY CascadeAssumption, FoundFits DEF Start
<1> QED
  BY <1>3, <1>6, <1>7, NoneIsNoResult DEF IsRouted

LEMMA OwedIsOnBoard ==
  ASSUME CascadeInv, OwedInv
  PROVE  PendingIsOnBoard
<1> SUFFICES ASSUME NEW i \in at..Len(Order), stack = <<>>, pending[Order[i]] # None,
                    Order[i] \notin Matched
             PROVE  /\ routed[Order[i]] = Snapshot(Order[i])
                    /\ Snapshot(Order[i]).cells \subseteq copper[Order[i]]
  BY DEF PendingIsOnBoard
<1>1. Lined /\ Mapped /\ BoardFits
  BY CascadeIs
<1>2. Order[i] \in Nets
  BY <1>1, OrderIs, CascadeAssumption DEF Lined
<1>3. PICK n \in Nets : n = Order[i]
  BY <1>2
<1>4. n \in Owed /\ n \notin Matched
  BY <1>3 DEF Owed
<1>5. Open = {}
  BY DEF Open, Depth
<1>6. routed[n] = Start(n) /\ Snapshot(n) = Start(n)
  BY <1>4, <1>5 DEF OwedInv, Snapshot, Start
<1>7. IsRouted(n)
  <2>1. Start(n) \in Results
    BY CascadeAssumption, FoundFits DEF Start
  <2> QED
    BY <1>6, <2>1, NoneIsNoResult DEF IsRouted
<1>8. routed[n].cells \subseteq copper[n]
  BY <1>1, <1>7, RoutedFits
<1> QED
  BY <1>3, <1>6, <1>8

PhaseInv == CascadeInv /\ OwedInv

(* What the theorems about the board suppose of the steps of the phase.    *)
Supposed == ExhaustedAfterTurn /\ SwitchesSpareTaps

LEMMA PhaseStarts ==
  ASSUME Init
  PROVE  PhaseInv
  BY CascadeStarts, OwedStarts DEF PhaseInv

LEMMA PhaseGoesOn ==
  ASSUME PhaseInv, [Next]_vars, [Supposed]_vars
  PROVE  PhaseInv'
<1>1. CASE ExhaustedAfterTurn /\ SwitchesSpareTaps
  <2>1. CascadeInv /\ OwedInv /\ NoGhost
    BY TakenNetsAreRouted DEF PhaseInv
  <2>2. CascadeInv'
    BY <1>1, <2>1, CascadeSurvives
  <2>3. OwedInv'
    BY <1>1, <2>1, OwedSurvives
  <2> QED
    BY <2>2, <2>3 DEF PhaseInv
<1>2. CASE UNCHANGED vars
  <2>1. CascadeInv /\ OwedInv
    BY DEF PhaseInv
  <2>2. CallsInv'
    BY <1>2, <2>1, CallsSurvive DEF CascadeInv
  <2>3. CascadeInv'
    BY <1>2, <2>1, <2>2, CascadeStays DEF CascadeInv
  <2>4. OwedInv'
    BY <1>2, <2>1, LoopStepsOwed
  <2> QED
    BY <2>3, <2>4 DEF PhaseInv
<1> QED
  BY <1>1, <1>2 DEF Supposed

LEMMA PhaseHolds == Spec /\ [][Supposed]_vars => []PhaseInv
<1>1. Init => PhaseInv
  BY PhaseStarts
<1>2. PhaseInv /\ [Next]_vars /\ [Supposed]_vars => PhaseInv'
  BY PhaseGoesOn
<1> QED
  BY <1>1, <1>2, PTL DEF Spec

(* The cycle guard: whatever a cascade rips, the net whose rip-up is in    *)
(* progress and the route laid in a call still open are where that call    *)
(* left them when it goes on (ancestor_net_ids).                           *)
THEOREM CallersKeepTheirRoots ==
  Spec /\ [][Supposed]_vars => []OpenCallsAreSound
<1>1. PhaseInv => OpenCallsAreSound
  BY CascadeKeepsRoots DEF PhaseInv
<1> QED
  BY <1>1, PhaseHolds, PTL

(* What is still to be done fits the board: the pending routes are there,  *)
(* no item of a reroute is routed or in two hands, and every restore of an *)
(* unwound rip-up or a re-asked tree finds its corridor free.              *)
THEOREM WorkMatchesTheBoard ==
  Spec /\ [][Supposed]_vars => []PendingWorkFits
<1>1. PhaseInv => PendingWorkFits
  BY CascadeKeepsItems, OwedIsOnBoard DEF PhaseInv, PendingWorkFits
<1> QED
  BY <1>1, PhaseHolds, PTL

(* Phase 3 adds no short and leaves the ledgers of the main loop agreeing, *)
(* however deep its cascades and whichever of them are abandoned.          *)
THEOREM PhaseKeepsTheBoard ==
  Spec /\ [][Supposed]_vars => [](NoShort /\ LedgersAgree)
<1>1. PhaseInv => NoShort /\ LedgersAgree
  BY CascadeKeepsItems DEF PhaseInv
<1> QED
  BY <1>1, PhaseHolds, PTL

(* A net that had its turn has a route: the taps commit on the route, and  *)
(* a tree that is asked about again is replaced or comes back.             *)
THEOREM TurnsLeaveARoute ==
  Spec /\ [][Supposed]_vars => TurnsEndRouted
<1>1. PhaseInv /\ [Next]_vars =>
        [stack # <<>> /\ stack' = <<>> => routed'[stack[1].net] # None]_vars
  BY TurnEndsRouted DEF PhaseInv
<1> QED
  BY <1>1, PhaseHolds, PTL DEF Spec, TurnsEndRouted

----------------------------------------------------------------------------
(* The fourth part: where no multi-point net has a stub, nothing is left   *)
(* to suppose.  What its result leaves of a net is input copper, so such a *)
(* net is off the board when it is ripped: it cannot come back exhausted,  *)
(* and there is no stub to move.                                           *)
NoStubs == \A n \in Multipoint : Stub[n] = {}

StubsRemain == \A n \in Nets : Residue(n) \subseteq Stub[n]

NoneGrows == \A n \in Nets : Residue(n)' \subseteq Residue(n)

BareInv == NoStubs => PhaseInv /\ StubsRemain

LEMMA StubsStay ==
  ASSUME NEW n \in Nets, Only(n), Residue(n)' \subseteq Residue(n)
  PROVE  NoneGrows
<1> SUFFICES ASSUME NEW k \in Nets PROVE Residue(k)' \subseteq Residue(k)
  BY DEF NoneGrows
<1>1. k # n => Residue(k)' = Residue(k)
  BY DEF Only, Residue, IsRouted
<1> QED
  BY <1>1

LEMMA QuietStubs ==
  ASSUME UNCHANGED <<copper, routed>>
  PROVE  NoneGrows
  BY DEF NoneGrows, Residue, IsRouted

LEMMA RipsLeaveStubs ==
  ASSUME CascadeInv, NEW n \in Nets, IsRouted(n), RipUp(n)
  PROVE  NoneGrows
<1>1. Mapped /\ BoardFits
  BY CascadeIs
<1>2. Only(n) /\ Residue(n)' \subseteq Residue(n)
  BY <1>1, RipFits
<1> QED
  BY <1>2, StubsStay

LEMMA NetLeavesStubs ==
  ASSUME CascadeInv, Reask \/ UndoReask \/ RestoreTree \/ CommitNet
  PROVE  NoneGrows
<1>1. Shape /\ Stacked /\ Mapped /\ BoardFits
  BY CascadeIs
<1>2. PICK s : In("net", s)
  BY DEF Reask, UndoReask, RestoreTree, CommitNet
<1>2a. RestoreTree => s \in {"reasked", "undone"}
  BY <1>2 DEF RestoreTree, In
<1>2b. CommitNet => s = "commit"
  BY <1>2 DEF CommitNet, In
<1>3. /\ stack # <<>> /\ Top \in NetFrames /\ Top.kind = "net" /\ Top.stage = s /\ NetFits(Top)
  BY <1>1, <1>2, TopIsNet
<1>4. PICK n \in Nets : n = Top.net
  BY <1>3 DEF NetFrames
<1>5. NetSound(Top) /\ Ready(Top)
  BY <1>1, <1>3, BelowFacts DEF Sound
<1>6. CASE Reask \/ UndoReask
  <2>1. IsRouted(n) /\ RipUp(n)
    BY <1>4, <1>6 DEF Reask, UndoReask
  <2> QED
    BY <2>1, RipsLeaveStubs
<1>7. CASE RestoreTree
  <2>1. PICK p \in Payloads : p = Top.saved
    BY <1>2a, <1>3, <1>7 DEF NetFits
  <2>2. Good(p, n) /\ ~IsRouted(n)
    BY <1>2a, <1>3, <1>4, <1>5, <1>7, <2>1 DEF NetSound, RestoreTree, In
  <2>3. p.saved.net = n /\ RestoreNet(n, p)
    BY <1>2a, <1>3, <1>4, <1>7, <2>1 DEF RestoreTree, NetFits
  <2>4. Only(n) /\ Residue(n)' \subseteq Residue(n)
    BY <1>1, <2>2, <2>3, RestoreFits
  <2> QED
    BY <2>4, StubsStay
<1>8. CASE CommitNet
  <2>1. PICK t \in Taps : t = Top.taps
    BY <1>2b, <1>3, <1>8 DEF NetFits
  <2>2. routed[n] = Top.lm /\ Top.lm \in Results /\ Clear(t.cells, n)
    BY <1>2b, <1>3, <1>4, <1>5, <1>8, <2>1 DEF NetSound, NetFrames, Ready
  <2>3. IsRouted(n)
    BY <2>2, NoneIsNoResult DEF IsRouted
  <2>4. PICK known : known = Snapshot(n)
    OBVIOUS
  <2>5. PICK base : base = Top.lm
    OBVIOUS
  <2>6. known.net = n /\ base = routed[n] /\ CommitTaps(n, t, known, base)
    BY <1>4, <1>8, <2>1, <2>2, <2>4, <2>5, OrderFacts DEF CommitNet
  <2>7. Only(n) /\ Residue(n)' \subseteq Residue(n)
    BY ONLY <1>1, n \in Nets, <2>2, <2>3, t \in Taps, <2>6, CommitFits
  <2> QED
    BY <2>7, StubsStay
<1> QED
  BY <1>6, <1>7, <1>8

LEMMA UnwindsLeaveStubs ==
  ASSUME CascadeInv, NEW s \in Seq(Loads), s # <<>>, HeldFits(s),
         RestoreNet(Last(s).net, Last(s).payload)
  PROVE  NoneGrows
<1>1. Mapped /\ BoardFits
  BY CascadeIs
<1>2. PICK v : v = Last(s)
  OBVIOUS
<1>3. RestoreNet(v.net, v.payload)
  BY <1>2
<1>4. Only(v.net) /\ v.net \in Nets /\ Residue(v.net)' \subseteq Residue(v.net)
  BY <1>1, <1>2, <1>3, HeldLess
<1>5. PICK n \in Nets : n = v.net
  BY <1>4
<1>6. Only(n) /\ Residue(n)' \subseteq Residue(n)
  BY <1>4, <1>5
<1> QED
  BY <1>6, StubsStay

LEMMA TapLeavesStubs ==
  ASSUME CascadeInv, TapStep
  PROVE  NoneGrows
<1>1. CASE \E m \in Nets : TapRips(m) \/ RipsAgain(m)
  <2>1. PICK m \in Nets : TapRips(m) \/ RipsAgain(m)
    BY <1>1
  <2>2. IsRouted(m) /\ RipUp(m)
    BY <2>1 DEF TapRips, RipsAgain, Rippable, Nameable, ToRipAgain
  <2> QED
    BY <2>2, RipsLeaveStubs
<1>2. CASE TapUnwinds
  <2>1. In("tap", "unwind") /\ Top.ripped # <<>>
    BY <1>2 DEF TapUnwinds
  <2>2. Top.kind = "tap" /\ Top.stage = "unwind" /\ Ready(Top) /\ Top.ripped \in Seq(Loads)
    BY <2>1, TapHas
  <2>3. PICK q \in Seq(Loads) : q = Top.ripped
    BY <2>2
  <2>4. q # <<>> /\ HeldFits(q) /\ RestoreNet(Last(q).net, Last(q).payload)
    BY <1>2, <2>1, <2>2, <2>3 DEF Ready, Rips, TapUnwinds
  <2> QED
    BY <2>4, UnwindsLeaveStubs
<1>3. CASE ~TapUnwinds /\ ~\E m \in Nets : TapRips(m) \/ RipsAgain(m)
  <2>1. UNCHANGED <<copper, routed>>
    BY <1>3 DEF TapStep, RetryHelps, RetryDoesNotHelp, TapGivesUp, TapFails, KeepRetry,
       AbandonRetry, ReroutesAgain, Abandoned, boardVars
  <2> QED
    BY <2>1, QuietStubs
<1> QED
  BY <1>1, <1>2, <1>3

LEMMA NoneIsMoved ==
  ASSUME NoStubs, StubsRemain, NEW n \in Nets, ~IsRouted(n)
  PROVE  SwitchedCopper(n) = {}
<1>1. CASE n \notin Multipoint
  BY <1>1 DEF SwitchedCopper
<1>2. CASE n \in Multipoint
  <2>1. copper[n] = {}
    BY <1>2 DEF NoStubs, StubsRemain, Residue
  <2>2. StubPlaces(n) = {}
    BY <2>1 DEF StubPlaces
  <2> QED
    BY <2>2 DEF SwitchedCopper
<1> QED
  BY <1>1, <1>2

LEMMA MainLeavesStubs ==
  ASSUME CascadeInv, NoStubs, StubsRemain, NEW r, MainLands(r)
  PROVE  NoneGrows
<1>1. PICK s \in {"item", "retry"} :
        In("reroute", s) /\ (s = "item" => Top.items # <<>> /\ ~IsRouted(Item))
  BY DEF MainLands
<1>2. PICK h : h = Top
  OBVIOUS
<1>3. Mapped /\ BoardFits /\ h.kind = "reroute" /\ h.stage = s /\ RerouteSound(h)
  BY <1>1, <1>2, RerouteHas
<1>4. PICK n \in Nets : n = Item
  BY <1>1, ItemHas
<1>5. n = h.items[1]
  BY <1>1, <1>2, <1>4, ItemHas
<1>6. ~IsRouted(n)
  BY <1>1, <1>3, <1>4, <1>5 DEF RerouteSound
<1>7. PICK kept \in {copper[n]} \cup SwitchedCopper(n) :
        r \cap (kept \cup BlockedRows(PreparedMap(n))) = {} /\ RecordSuccess(n, r, kept)
  BY <1>4 DEF MainLands
<1>8. PICK R \in SUBSET Cells : R = r
  BY <1>4, CopperAssumption DEF MainLands
<1>9. Clear(R, n)
  BY <1>7, <1>8, SearchAvoids DEF CascadeInv
<1>10. RecordSuccess(n, R, kept) /\ kept \in SUBSET Cells /\ Clear(kept, n)
  BY <1>3, <1>7, <1>8, SwitchedIsClear
<1>11a. Only(n) /\ Residue(n)' = kept \ R
  BY <1>3, <1>6, <1>9, <1>10, LandFits
<1>11b. kept = copper[n]
  BY <1>6, <1>7, NoneIsMoved
<1>11. Only(n) /\ Residue(n)' \subseteq Residue(n)
  BY <1>6, <1>11a, <1>11b DEF Residue
<1> QED
  BY <1>11, StubsStay

LEMMA CommitLeavesStubs ==
  ASSUME CascadeInv, ItemCommits
  PROVE  NoneGrows
<1>1. In("reroute", "commit")
  BY DEF ItemCommits
<1>2. PICK h : h = Top
  OBVIOUS
<1>3. /\ Mapped /\ BoardFits /\ h.kind = "reroute" /\ h.stage = "commit"
      /\ RerouteFits(h) /\ RerouteSound(h) /\ Ready(h)
  BY <1>1, <1>2, RerouteHas
<1>4. PICK n \in Nets : n = Item
  BY <1>1, ItemHas
<1>5. n = h.items[1]
  BY <1>1, <1>2, <1>4, ItemHas
<1>6. /\ routed[n] = h.main /\ h.main \in Results /\ h.taps \in Taps
      /\ Clear(h.taps.cells, n)
  BY <1>3, <1>5 DEF RerouteSound, RerouteFits, Ready
<1>7. IsRouted(n)
  BY <1>6, NoneIsNoResult DEF IsRouted
<1>8. routed[n].net = n
  BY <1>3, <1>7, RoutedFits
<1>9. PICK t \in Taps : t = h.taps
  BY <1>6
<1>10. PICK base : base = h.main
  OBVIOUS
<1>11. base.net = n /\ base = routed[n] /\ Clear(t.cells, n) /\ CommitTaps(n, t, base, base)
  BY <1>2, <1>4, <1>6, <1>8, <1>9, <1>10 DEF ItemCommits
<1>12. Only(n) /\ Residue(n)' \subseteq Residue(n)
  BY ONLY <1>3, n \in Nets, <1>7, t \in Taps, <1>11, CommitFits
<1> QED
  BY <1>12, StubsStay

LEMMA RerouteLeavesStubs ==
  ASSUME CascadeInv, NoStubs, StubsRemain, RerouteStep
  PROVE  NoneGrows
<1>1. CASE \E m \in Nets : MainRips(m)
  <2>1. PICK m \in Nets : MainRips(m)
    BY <1>1
  <2>2. IsRouted(m) /\ RipUp(m)
    BY <2>1 DEF MainRips, Rippable, Nameable
  <2> QED
    BY <2>2, RipsLeaveStubs
<1>2. CASE MainUnwinds
  <2>1. In("reroute", "unwind") /\ Top.nested # <<>>
    BY <1>2 DEF MainUnwinds
  <2>2. /\ Top.kind = "reroute" /\ Top.stage = "unwind" /\ Ready(Top)
        /\ Top.nested \in Seq(Loads)
    BY <2>1, RerouteHas
  <2>3. PICK q \in Seq(Loads) : q = Top.nested
    BY <2>2
  <2>4. q # <<>> /\ HeldFits(q) /\ RestoreNet(Last(q).net, Last(q).payload)
    BY <1>2, <2>1, <2>2, <2>3 DEF Ready, Rips, MainUnwinds
  <2> QED
    BY <2>4, UnwindsLeaveStubs
<1>3. CASE (\E r \in AllRoutes : MainLands(r)) \/ ItemCommits
  BY <1>3, MainLeavesStubs, CommitLeavesStubs
<1>4. CASE /\ ~MainUnwinds /\ ~ItemCommits /\ ~\E m \in Nets : MainRips(m)
           /\ ~\E r \in AllRoutes : MainLands(r)
  <2>1. UNCHANGED <<copper, routed>>
    BY <1>4 DEF RerouteStep, ItemsDone, MainOpensRipUp, MainRetryFails, MainGivesUp,
       ItemFails, ItemExhausted, ItemIsSimple, ItemTaps, boardVars
  <2> QED
    BY <2>1, QuietStubs
<1> QED
  BY <1>1, <1>2, <1>3, <1>4

LEMMA StubsSurvive ==
  ASSUME CascadeInv, NoStubs, StubsRemain, [Next]_vars
  PROVE  NoneGrows
<1>1. CASE Cancel \/ SkipNet \/ TakeNet \/ NetDone \/ (\E t \in AllTaps : RouteTaps(t))
           \/ UNCHANGED vars
  <2>1. UNCHANGED <<copper, routed>>
    BY <1>1 DEF Cancel, SkipNet, TakeNet, NetDone, RouteTaps, vars, boardVars
  <2> QED
    BY <2>1, QuietStubs
<1> QED
  BY <1>1, NetLeavesStubs, TapLeavesStubs, RerouteLeavesStubs DEF Next, NetStep

LEMMA NoneComesBackExhausted ==
  ASSUME NoStubs, CascadeInv, StubsRemain
  PROVE  ExhaustedAfterTurn
<1> SUFFICES ASSUME ItemExhausted, NEW i \in at..Len(Order), Order[i] = Item PROVE FALSE
  BY DEF ExhaustedAfterTurn
<1>1. In("reroute", "item") /\ Top.items # <<>> /\ ~IsRouted(Item) /\ copper[Item] # {}
  BY DEF ItemExhausted, Exhausts
<1>2. PICK n \in Nets : n = Item
  BY <1>1, ItemHas
<1>3. Lined
  BY CascadeIs
<1>4. i \in DOMAIN Order
  BY <1>3, OrderIs DEF Lined
<1>5. Stub[n] = {}
  BY <1>2, <1>4, OrderIs DEF NoStubs
<1>6. Residue(n) = copper[n]
  BY <1>1, <1>2 DEF Residue
<1> QED
  BY <1>1, <1>2, <1>5, <1>6 DEF StubsRemain

LEMMA BareInvariant == Spec => []BareInv
<1>1. Init => BareInv
  <2> SUFFICES ASSUME Init PROVE PhaseInv /\ StubsRemain
    BY DEF BareInv
  <2>1. ASSUME NEW n \in Nets PROVE Residue(n) \subseteq Stub[n]
    <3>1. copper[n] = Stub[n] \cup Phase1[n] /\ routed[n] = Found(n, Phase1[n])
      BY DEF Init, StartCopper
    <3>2. routed[n].cells = Phase1[n]
      BY <3>1 DEF Found
    <3>3. IsRouted(n)
      <4>1. Found(n, Phase1[n]) \in Results
        BY CascadeAssumption, FoundFits
      <4> QED
        BY <3>1, <4>1, NoneIsNoResult DEF IsRouted
    <3> QED
      BY <3>1, <3>2, <3>3 DEF Residue
  <2> QED
    BY <2>1, PhaseStarts DEF StubsRemain
<1>2. BareInv /\ [Next]_vars => BareInv'
  <2> SUFFICES ASSUME BareInv, [Next]_vars, NoStubs PROVE PhaseInv' /\ StubsRemain'
    BY DEF BareInv, NoStubs
  <2>1. PhaseInv /\ CascadeInv /\ StubsRemain
    BY DEF BareInv, PhaseInv
  <2>2. ExhaustedAfterTurn
    BY <2>1, NoneComesBackExhausted
  <2>3. NoneGrows
    BY <2>1, StubsSurvive
  <2>4. SwitchesSpareTaps
    BY <2>3 DEF NoneGrows, SwitchesSpareTaps
  <2>5. PhaseInv'
    BY <2>1, <2>2, <2>4, PhaseGoesOn DEF Supposed
  <2>6. StubsRemain'
    BY <2>1, <2>3 DEF NoneGrows, StubsRemain
  <2> QED
    BY <2>5, <2>6
<1> QED
  BY <1>1, <1>2, PTL DEF Spec

(* Where no multi-point net has a stub, all of it holds as it stands, and  *)
(* nothing that a rip took off the board is written (the ghost run has a   *)
(* stub on a net whose turn is still to come).                             *)
THEOREM PhasesWithoutStubsAreSound ==
  Spec => [](NoStubs =>
               OpenCallsAreSound /\ PendingWorkFits /\ NoShort /\ LedgersAgree
               /\ ResultsAreOnBoard)
<1>1. BareInv => (NoStubs =>
                    OpenCallsAreSound /\ PendingWorkFits /\ NoShort /\ LedgersAgree
                    /\ ResultsAreOnBoard)
  <2> SUFFICES ASSUME BareInv, NoStubs
               PROVE  OpenCallsAreSound /\ PendingWorkFits /\ NoShort /\ LedgersAgree
                      /\ ResultsAreOnBoard
    OBVIOUS
  <2>1. CascadeInv /\ OwedInv
    BY DEF BareInv, PhaseInv
  <2>2. OpenCallsAreSound
    BY <2>1, CascadeKeepsRoots
  <2>3. PendingWorkFits /\ NoShort /\ LedgersAgree
    BY <2>1, CascadeKeepsItems, OwedIsOnBoard DEF PendingWorkFits
  <2>4. ResultsAreOnBoard
    <3>1. Mapped
      BY <2>1, CascadeIs
    <3>2. \A n \in Nets : IsRouted(n) => routed[n].net = n
      BY <3>1 DEF Mapped, BoardTypeOK
    <3> QED
      BY <2>3, <3>2 DEF LedgersAgree, ResultsAreOnBoard
  <2> QED
    BY <2>2, <2>3, <2>4
<1> QED
  BY <1>1, BareInvariant, PTL
=================================================================================
