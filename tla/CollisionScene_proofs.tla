------------------------ MODULE CollisionScene_proofs ------------------------
(***************************************************************************)
(* Proofs about the collision scene with rectangles, for every number of   *)
(* circles and rectangles and every palette: the type invariant, that a    *)
(* lone collision leaves both objects with one colour, and that a step     *)
(* repaints only objects whose collision began in it.                      *)
(***************************************************************************)
EXTENDS CollisionScene, OrderedCalls_proofs, FiniteSetTheorems, TLAPS

(* While the scene is up, the listener is installed and every collider    *)
(* has CreateObjects' ID; while it is down, no collision is recorded as    *)
(* having begun.                                                           *)
IInv ==
    /\ TypeOK
    /\ live => /\ listener
               /\ ids = [s \in Slot |-> CreatedId(s)]
    /\ ~live => entered = {}


LEMMA PairFinite == IsFiniteSet(Pair) /\ Pair \subseteq SUBSET Slot
<1>1. IsFiniteSet(Slot)
  BY SceneAssumption, FS_Interval DEF Slot
<1>2. IsFiniteSet(SUBSET Slot)
  BY <1>1, FS_SUBSET
<1>3. Pair \subseteq SUBSET Slot
  BY DEF Pair
<1>. QED
  BY <1>2, <1>3, FS_Subset

(* With CreateObjects' IDs, OnCollisionEnter for a pair paints exactly the *)
(* two objects of the pair: the ID comparison matches no other object.     *)
LEMMA PaintsPair ==
  ASSUME ids = [s \in Slot |-> CreatedId(s)], NEW q \in SUBSET Slot, NEW c
  PROVE  /\ DOMAIN OnCollisionEnter(q, c) = q
         /\ \A t \in q : OnCollisionEnter(q, c)[t] = c
<1>1. \A t \in Slot : (\E x \in q : ids[x] = ids[t]) <=> t \in q
  BY SceneAssumption DEF CreatedId, Slot
<1>. QED
  BY <1>1 DEF OnCollisionEnter

(* The calls one SetUpdate makes, for the new pairs in the order given.   *)
Calls(order, pick) == [i \in DOMAIN order |-> OnCollisionEnter(order[i], pick[i])]

(* Each value a call writes is its colour.                                 *)
LEMMA CallsWrite ==
  ASSUME NEW order, NEW pick,
         NEW i \in DOMAIN order, NEW t \in DOMAIN Calls(order, pick)[i]
  PROVE  Calls(order, pick)[i][t] = pick[i]
BY DEF Calls, OnCollisionEnter

(* A SetUpdate in a reachable state: some set of live pairs overlaps now, *)
(* and the listener paints the new ones in some order.                     *)
LEMMA SetUpdateShape ==
  ASSUME IInv, SetUpdate
  PROVE  \E now \in SUBSET Pair :
           /\ overlaps' = now
           /\ entered' = now \ overlaps
           /\ \E order \in Orderings(now \ overlaps) :
              \E pick \in [DOMAIN order -> Palette] :
                 color' = Overwrite(color, Calls(order, pick))
BY DEF IInv, SetUpdate, WorldUpdate, LivePairs, Calls

-----------------------------------------------------------------------------
LEMMA InitIInv == Init => IInv
BY DEF Init, IInv, TypeOK, NoId, NoColour

LEMMA NextIInv == IInv /\ [Next]_vars => IInv'
<1> SUFFICES ASSUME IInv, [Next]_vars PROVE IInv'
  OBVIOUS
<1>1. CASE SetUp
  <2>1. \A s \in Slot : CreatedId(s) \in 0..(NCircles + NRects - 1)
    BY SceneAssumption DEF Slot, CreatedId
  <2>. QED
    BY <1>1, <2>1 DEF SetUp, CreateObjects, IInv, TypeOK
<1>2. CASE SetUpdate
  <2>1. PICK now \in SUBSET Pair :
           /\ overlaps' = now
           /\ entered' = now \ overlaps
           /\ \E order \in Orderings(now \ overlaps) :
              \E pick \in [DOMAIN order -> Palette] :
                 color' = Overwrite(color, Calls(order, pick))
    BY <1>2, SetUpdateShape
  <2>0. PICK order \in Orderings(now \ overlaps) :
           \E pick \in [DOMAIN order -> Palette] :
              color' = Overwrite(color, Calls(order, pick))
    BY <2>1
  <2>2. PICK pick \in [DOMAIN order -> Palette] :
           color' = Overwrite(color, Calls(order, pick))
    BY <2>0
  <2>3. Cardinality(now \ overlaps) \in Nat
    BY PairFinite, FS_Subset, FS_CardinalityType
  <2>4. DOMAIN order = 1..Cardinality(now \ overlaps)
    BY OrderingType
  <2>5. color' \in [Slot -> Palette \cup {NoColour}]
    <3>1. color \in [Slot -> Palette \cup {NoColour}]
      BY DEF IInv, TypeOK
    <3>2. DOMAIN Calls(order, pick) = 1..Cardinality(now \ overlaps)
      BY <2>4 DEF Calls
    <3>3. ASSUME NEW i \in 1..Cardinality(now \ overlaps),
                 NEW t \in DOMAIN Calls(order, pick)[i]
          PROVE  Calls(order, pick)[i][t] \in Palette \cup {NoColour}
      <4>1. i \in DOMAIN order
        BY <2>4
      <4>2. Calls(order, pick)[i][t] = pick[i]
        BY <4>1, CallsWrite
      <4>3. pick[i] \in Palette
        BY <4>1
      <4>. QED
        BY <4>2, <4>3
    <3>. QED
      BY <2>2, <2>3, <3>1, <3>2, <3>3, OverwriteType
  <2>. QED
    BY <1>2, <2>1, <2>5 DEF SetUpdate, IInv, TypeOK
<1>3. CASE TearDown
  BY <1>3 DEF TearDown, WorldClear, IInv, TypeOK, NoId, NoColour
<1>4. CASE UNCHANGED vars
  BY <1>4 DEF vars, IInv, TypeOK
<1>. QED
  BY <1>1, <1>2, <1>3, <1>4 DEF Next

(* Every reachable state is well typed: the objects' IDs, overlap sets,   *)
(* colours and entered pairs, for every number of circles and rectangles  *)
(* and every palette.                                                      *)
THEOREM TypeCorrect == Spec => []TypeOK
<1>1. IInv => TypeOK
  BY DEF IInv
<1>. QED
  BY <1>1, InitIInv, NextIInv, PTL DEF Spec


-----------------------------------------------------------------------------
(* In every state, when a collision that began in the last step is the    *)
(* only one that began for either of its objects, both objects show the    *)
(* colour drawn for it: the listener's ID comparison paints exactly the    *)
(* pair's objects (OnCollisionEnter in CollisionWithRectSample.cpp), for   *)
(* every number of circles and rectangles and every order of the calls.    *)
LEMMA LoneStep ==
  IInv /\ LoneCollisionSharesColour /\ [Next]_vars => LoneCollisionSharesColour'
<1> SUFFICES ASSUME IInv, LoneCollisionSharesColour, [Next]_vars
             PROVE  LoneCollisionSharesColour'
  OBVIOUS
<1>1. CASE SetUpdate
  <2>1. PICK now \in SUBSET Pair :
           /\ overlaps' = now
           /\ entered' = now \ overlaps
           /\ \E order \in Orderings(now \ overlaps) :
              \E pick \in [DOMAIN order -> Palette] :
                 color' = Overwrite(color, Calls(order, pick))
    BY <1>1, SetUpdateShape
  <2>0. now \ overlaps \in SUBSET Pair
    OBVIOUS
  <2>2. PICK order \in Orderings(now \ overlaps) :
           \E pick \in [DOMAIN order -> Palette] :
              color' = Overwrite(color, Calls(order, pick))
    BY <2>1
  <2>3. PICK pick \in [DOMAIN order -> Palette] :
           color' = Overwrite(color, Calls(order, pick))
    BY <2>2
  <2>4. ids = [s \in Slot |-> CreatedId(s)] /\ color \in [Slot -> Palette \cup {NoColour}]
    BY <1>1 DEF SetUpdate, IInv, TypeOK
  <2> SUFFICES ASSUME NEW p \in (now \ overlaps), \A q \in (now \ overlaps) \ {p} : p \cap q = {},
                      NEW a \in p, NEW b \in p
               PROVE  color'[a] = color'[b]
    BY <2>1 DEF LoneCollisionSharesColour
  <2>5. PICK k \in 1..Cardinality(now \ overlaps) :
           /\ order[k] = p
           /\ \A j \in 1..Cardinality(now \ overlaps) : order[j] = p => j = k
    BY DEF Orderings
  <2>6. p \subseteq Slot
    BY PairFinite
  <2>7. ASSUME NEW x \in p PROVE color'[x] = pick[k]
    (* The call for p sits at position k; every other call paints the     *)
    (* objects of its own pair, which share none with p.                   *)
    <3>1. Writers(Calls(order, pick), x) = {k}
      <4>1. order \in [1..Cardinality(now \ overlaps) -> now \ overlaps]
        BY DEF Orderings
      <4>2. ASSUME NEW i \in 1..Cardinality(now \ overlaps)
            PROVE  DOMAIN Calls(order, pick)[i] = order[i]
        <5>1. order[i] \in SUBSET Slot
          BY <4>1, PairFinite
        <5>. QED
          BY <2>4, <4>1, <5>1, PaintsPair DEF Calls
      <4>3. ASSUME NEW i \in 1..Cardinality(now \ overlaps), x \in order[i]
            PROVE  i = k
        <5>1. order[i] = p
          BY <4>1, <4>3
        <5>. QED
          BY <2>5, <5>1
      <4>4. DOMAIN Calls(order, pick) = 1..Cardinality(now \ overlaps)
        BY <4>1 DEF Calls
      <4>5. x \in DOMAIN Calls(order, pick)[k]
        BY <2>5, <4>2
      <4>6. \A i \in 1..Cardinality(now \ overlaps) :
               x \in DOMAIN Calls(order, pick)[i] => i = k
        BY <4>2, <4>3
      <4>7. ASSUME NEW i PROVE i \in Writers(Calls(order, pick), x) <=> i = k
        BY <4>4, <4>5, <4>6 DEF Writers
      <4>. QED
        BY <4>7, Zenon
    <3>2. color'[x] = Calls(order, pick)[k][x]
      BY <2>3, <2>4, <2>6, <3>1, OverwriteOne
    <3>3. k \in DOMAIN order /\ x \in DOMAIN Calls(order, pick)[k]
      BY <3>1 DEF Writers, Calls
    <3>. QED
      BY <3>2, <3>3, CallsWrite
  <2>. QED
    BY <2>7
<1>2. CASE SetUp
  BY <1>2 DEF SetUp, IInv, LoneCollisionSharesColour
<1>3. CASE TearDown
  BY <1>3 DEF TearDown, LoneCollisionSharesColour
<1>4. CASE UNCHANGED vars
  BY <1>4 DEF vars, LoneCollisionSharesColour
<1>. QED
  BY <1>1, <1>2, <1>3, <1>4 DEF Next

(* Every reachable state satisfies LoneCollisionSharesColour.              *)
THEOREM LoneCollisionHolds == Spec => []LoneCollisionSharesColour
<1>1. Init => LoneCollisionSharesColour
  BY DEF Init, LoneCollisionSharesColour
<1>. QED
  BY <1>1, InitIInv, NextIInv, LoneStep, PTL DEF Spec

(* Each step in which the scene stays up repaints only objects whose      *)
(* collision began in it, for every number of circles and rectangles:     *)
(* the calls OnCollisionEnter makes paint the objects of their own pairs,  *)
(* and those pairs are the new ones.                                       *)
LEMMA RecolourStep ==
  IInv /\ [Next]_vars =>
      [live /\ live' =>
          \A s \in Slot : color'[s] # color[s] => \E p \in entered' : s \in p]_vars
<1> SUFFICES ASSUME IInv, [Next]_vars, live, live', NEW s \in Slot,
                    color'[s] # color[s]
             PROVE  \E p \in entered' : s \in p
  OBVIOUS
<1>1. CASE SetUp
  BY <1>1 DEF SetUp
<1>2. CASE TearDown
  BY <1>2 DEF TearDown, WorldClear
<1>3. CASE UNCHANGED vars
  BY <1>3 DEF vars
<1>4. CASE SetUpdate
  <2>1. PICK now \in SUBSET Pair :
           /\ overlaps' = now
           /\ entered' = now \ overlaps
           /\ \E order \in Orderings(now \ overlaps) :
              \E pick \in [DOMAIN order -> Palette] :
                 color' = Overwrite(color, Calls(order, pick))
    BY <1>4, SetUpdateShape
  <2>0. now \ overlaps \in SUBSET Pair
    OBVIOUS
  <2>2. PICK order \in Orderings(now \ overlaps) :
           \E pick \in [DOMAIN order -> Palette] :
              color' = Overwrite(color, Calls(order, pick))
    BY <2>1
  <2>3. PICK pick \in [DOMAIN order -> Palette] :
           color' = Overwrite(color, Calls(order, pick))
    BY <2>2
  <2>4. ids = [t \in Slot |-> CreatedId(t)] /\ color \in [Slot -> Palette \cup {NoColour}]
    BY <1>4 DEF SetUpdate, IInv, TypeOK
  <2>5. Writers(Calls(order, pick), s) # {}
    BY <2>3, <2>4, OverwriteChanged
  <2>6. PICK i \in DOMAIN order : s \in DOMAIN Calls(order, pick)[i]
    BY <2>5 DEF Writers, Calls
  <2>7. order[i] \in (now \ overlaps)
    BY DEF Orderings
  <2>8. DOMAIN Calls(order, pick)[i] = order[i]
    BY <2>4, <2>7, PairFinite, PaintsPair DEF Calls
  <2>. QED
    BY <2>1, <2>6, <2>7, <2>8
<1>. QED
  BY <1>1, <1>2, <1>3, <1>4 DEF Next

THEOREM RecolourHolds == Spec => RecolourOnlyOnEnter
BY InitIInv, NextIInv, RecolourStep, PTL DEF Spec, RecolourOnlyOnEnter

=============================================================================
