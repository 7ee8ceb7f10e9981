------------------------- MODULE TriggerScene_proofs -------------------------
(***************************************************************************)
(* Proofs about TriggerScene for every number of circles and rectangles.  *)
(***************************************************************************)
EXTENDS TriggerScene, FiniteSetTheorems, TLAPS

-----------------------------------------------------------------------------
(* The pairs of the scene form a finite set, so every set of events has a  *)
(* natural-number cardinality.                                             *)
LEMMA PairFinite == IsFiniteSet(Pair)
<1>1. IsFiniteSet(Slot)
  BY CountsAssumption, FS_Interval DEF Slot
<1>2. IsFiniteSet(SUBSET Slot)
  BY <1>1, FS_SUBSET
<1>3. Pair \subseteq SUBSET Slot
  BY DEF Pair
<1>. QED
  BY <1>2, <1>3, FS_Subset

(* Any set of pairs is finite and has a cardinality in Nat.                *)
LEMMA PairSetCardinality ==
  ASSUME NEW E \in SUBSET Pair
  PROVE  IsFiniteSet(E) /\ Cardinality(E) \in Nat
BY PairFinite, FS_Subset, FS_CardinalityType

(* Hits counts a set of pairs.                                             *)
LEMMA HitsNat ==
  ASSUME NEW E \in SUBSET Pair, NEW s
  PROVE  Hits(E, s) \in Nat
<1>1. {p \in E : \E x \in p : ids[x] = ids[s]} \in SUBSET Pair
  OBVIOUS
<1>. QED
  BY <1>1, PairSetCardinality DEF Hits

-----------------------------------------------------------------------------
(* The inductive invariant behind CounterMatchesOverlaps and               *)
(* ColourLagsOneFrame.  While the scene is live, the listener is installed *)
(* and the colliders carry CreateObjects' distinct IDs and trigger flags,  *)
(* so OnTriggerEnter / OnTriggerExit count exactly the pairs touching an   *)
(* object; while it is torn down, the overlap sets are empty and the        *)
(* colours are SampleTearDown's defaults, so the next SetUp starts from    *)
(* counters that match.                                                    *)
LiveShape ==
    live => /\ listener
            /\ ids = [s \in Slot |-> CreatedId(s)]
            /\ trigger = [s \in Slot |-> TRUE]

DownShape ==
    ~live => /\ overlaps = {} /\ prevOverlaps = {}
             /\ color = [s \in Slot |-> "none"]

IInv ==
    /\ TypeOK
    /\ LiveShape
    /\ DownShape
    /\ CounterMatchesOverlaps
    /\ ColourLagsOneFrame

-----------------------------------------------------------------------------
(* Type correctness.                                                       *)
LEMMA InitTypeOK == Init => TypeOK
<1> SUFFICES ASSUME Init PROVE TypeOK
  OBVIOUS
<1>1. ids \in [Slot -> {NoId} \cup 0..(NCircles + NRects - 1)]
  BY DEF Init
<1>2. overlaps \in SUBSET Pair /\ prevOverlaps \in SUBSET Pair
  BY DEF Init
<1>3. collisionNbr \in [Slot -> Int] /\ color \in [Slot -> Colors]
  BY DEF Init, Colors
<1>. QED
  BY <1>1, <1>2, <1>3 DEF Init, TypeOK

LEMMA NextTypeOK == TypeOK /\ [Next]_vars => TypeOK'
<1> SUFFICES ASSUME TypeOK, [Next]_vars PROVE TypeOK'
  OBVIOUS
<1>1. CASE SetUp
  <2>1. \A s \in Slot : CreatedId(s) \in 0..(NCircles + NRects - 1)
    BY CountsAssumption DEF Slot, CreatedId
  <2>. QED
    BY <1>1, <2>1 DEF SetUp, SampleSetUp, CreateObjects, TypeOK, Colors
<1>2. CASE SetUpdate
  <2>1. PICK now \in SUBSET LivePairs :
          /\ collisionNbr' =
               IF listener
               THEN CountersAfter(TriggerEvents(now \ overlaps),
                                  TriggerEvents(overlaps \ now))
               ELSE collisionNbr
          /\ overlaps' = now
    BY <1>2 DEF SetUpdate, WorldUpdate
  <2>2. now \in SUBSET Pair
    BY DEF LivePairs
  <2>3. TriggerEvents(now \ overlaps) \in SUBSET Pair
    BY <2>2 DEF TriggerEvents
  <2>4. TriggerEvents(overlaps \ now) \in SUBSET Pair
    BY DEF TriggerEvents, TypeOK
  <2>5. collisionNbr' \in [Slot -> Int]
    <3>1. \A s \in Slot :
             /\ Hits(TriggerEvents(now \ overlaps), s) \in Nat
             /\ Hits(TriggerEvents(overlaps \ now), s) \in Nat
      BY <2>3, <2>4, HitsNat
    <3>2. ASSUME NEW s \in Slot
          PROVE  collisionNbr[s] + Hits(TriggerEvents(now \ overlaps), s)
                   - Hits(TriggerEvents(overlaps \ now), s) \in Int
      <4>1. collisionNbr[s] \in Int
        BY DEF TypeOK
      <4>2. /\ Hits(TriggerEvents(now \ overlaps), s) \in Nat
            /\ Hits(TriggerEvents(overlaps \ now), s) \in Nat
        BY <3>1
      <4>. QED
        BY <4>1, <4>2
    <3>3. CountersAfter(TriggerEvents(now \ overlaps),
                        TriggerEvents(overlaps \ now)) \in [Slot -> Int]
      BY <3>2 DEF CountersAfter
    <3>. QED
      BY <2>1, <3>3 DEF TypeOK
  <2>6. color' \in [Slot -> Colors]
    BY <1>2 DEF SetUpdate, SampleUpdate, ShownColour, Colors
  <2>. QED
    BY <1>2, <2>1, <2>2, <2>5, <2>6 DEF SetUpdate, TypeOK
<1>3. CASE TearDown
  <2>1. ids' \in [Slot -> {NoId} \cup 0..(NCircles + NRects - 1)]
    BY <1>3 DEF TearDown, WorldClear
  <2>2. color' \in [Slot -> Colors]
    BY <1>3 DEF TearDown, SampleTearDown, Colors
  <2>3. collisionNbr' \in [Slot -> Int]
    BY <1>3 DEF TearDown, SampleTearDown
  <2>5. listener' \in BOOLEAN
    BY <1>3, Zenon DEF TearDown, SampleTearDown
  <2>4. /\ live' \in BOOLEAN
        /\ trigger' \in [Slot -> BOOLEAN]
        /\ overlaps' \in SUBSET Pair
        /\ prevOverlaps' \in SUBSET Pair
    BY <1>3 DEF TearDown, WorldClear
  <2>. QED
    BY <2>1, <2>2, <2>3, <2>4, <2>5 DEF TypeOK
<1>4. CASE UNCHANGED vars
  BY <1>4 DEF vars, TypeOK
<1>. QED
  BY <1>1, <1>2, <1>3, <1>4 DEF Next

(* Every reachable state is well typed.                                    *)
THEOREM TypeCorrect == Spec => []TypeOK
BY InitTypeOK, NextTypeOK, PTL DEF Spec

-----------------------------------------------------------------------------
(* Counting lemmas.                                                        *)

(* Replacing a finite set A by B changes its size by what B adds minus     *)
(* what it drops: the arithmetic of one enter / exit dispatch.             *)
LEMMA CardShift ==
  ASSUME NEW A, NEW B, IsFiniteSet(A), IsFiniteSet(B)
  PROVE  Cardinality(B) =
           Cardinality(A) + Cardinality(B \ A) - Cardinality(A \ B)
<1>1. Cardinality(B \ A) = Cardinality(B) - Cardinality(B \cap A)
  BY FS_Difference
<1>2. Cardinality(A \ B) = Cardinality(A) - Cardinality(A \cap B)
  BY FS_Difference
<1>3. Cardinality(B \cap A) = Cardinality(A \cap B)
  <2>1. B \cap A = A \cap B
    OBVIOUS
  <2>. QED
    BY <2>1
<1>4. /\ Cardinality(A) \in Nat /\ Cardinality(B) \in Nat
      /\ Cardinality(A \cap B) \in Nat
  BY FS_Intersection, FS_CardinalityType
<1>. QED
  BY <1>1, <1>2, <1>3, <1>4, SMT

(* While the scene is live, CreateObjects' IDs tell the slots apart, so    *)
(* the listener's ID comparison counts exactly the pairs touching s.       *)
LEMMA HitsTouching ==
  ASSUME LiveShape, live, NEW E \in SUBSET Pair, NEW s \in Slot
  PROVE  Hits(E, s) = Cardinality(Touching(E, s))
<1>1. \A x \in Slot : ids[x] = ids[s] <=> x = s
  BY DEF LiveShape, CreatedId, Slot
<1>2. \A p \in E : p \subseteq Slot
  BY DEF Pair
<1>3. {p \in E : \E x \in p : ids[x] = ids[s]} = Touching(E, s)
  BY <1>1, <1>2 DEF Touching
<1>. QED
  BY <1>3 DEF Hits

(* While the scene is live every collider is a trigger, so every event is  *)
(* a trigger event.                                                        *)
LEMMA AllTriggerEvents ==
  ASSUME LiveShape, live, NEW E \in SUBSET Pair
  PROVE  TriggerEvents(E) = E
<1>1. \A p \in E : \E x \in p : x \in Slot
  BY DEF Pair
<1>. QED
  BY <1>1 DEF LiveShape, TriggerEvents

(* The pairs of a difference touching s are a difference of touching sets. *)
LEMMA TouchingDiff ==
  ASSUME NEW A, NEW B, NEW s
  PROVE  Touching(A \ B, s) = Touching(A, s) \ Touching(B, s)
BY DEF Touching

(* Touching sets are finite.                                               *)
LEMMA TouchingFinite ==
  ASSUME NEW E \in SUBSET Pair, NEW s
  PROVE  /\ Touching(E, s) \in SUBSET Pair
         /\ IsFiniteSet(Touching(E, s))
         /\ Cardinality(Touching(E, s)) \in Nat
<1>1. Touching(E, s) \in SUBSET Pair
  BY DEF Touching
<1>. QED
  BY <1>1, PairSetCardinality

-----------------------------------------------------------------------------
(* The inductive invariant.                                                *)

LEMMA InitIInv == Init => IInv
<1> SUFFICES ASSUME Init PROVE IInv
  OBVIOUS
<1>1. TypeOK
  BY InitTypeOK
<1>2. CounterMatchesOverlaps
  <2>1. \A s \in Slot : Touching(overlaps, s) = {}
    BY DEF Init, Touching
  <2>. QED
    BY <2>1, FS_EmptySet DEF Init, CounterMatchesOverlaps
<1>. QED
  BY <1>1, <1>2 DEF Init, IInv, LiveShape, DownShape, ColourLagsOneFrame

LEMMA NextIInv == IInv /\ [Next]_vars => IInv'
<1> SUFFICES ASSUME IInv, [Next]_vars PROVE IInv'
  OBVIOUS
<1>0. TypeOK'
  BY NextTypeOK DEF IInv
<1>1. CASE SetUp
  <2>1. overlaps = {} /\ prevOverlaps = {}
    BY <1>1 DEF SetUp, IInv, DownShape
  <2>2. LiveShape'
    BY <1>1 DEF SetUp, SampleSetUp, CreateObjects, LiveShape
  <2>3. CounterMatchesOverlaps'
    BY <1>1 DEF SetUp, IInv, CounterMatchesOverlaps, Touching
  <2>4. ColourLagsOneFrame'
    <3>1. \A s \in Slot : Touching(prevOverlaps', s) = {}
      BY <1>1, <2>1 DEF SetUp, Touching
    <3>. QED
      BY <1>1, <3>1 DEF SetUp, SampleSetUp, CreateObjects, ColourLagsOneFrame
  <2>5. DownShape'
    BY <1>1 DEF SetUp, SampleSetUp, CreateObjects, DownShape
  <2>. QED
    BY <1>0, <2>2, <2>3, <2>4, <2>5 DEF IInv
<1>2. CASE SetUpdate
  <2>0. live /\ LiveShape /\ TypeOK /\ CounterMatchesOverlaps
    BY <1>2 DEF SetUpdate, IInv
  <2>1. PICK now \in SUBSET LivePairs :
          /\ collisionNbr' =
               IF listener
               THEN CountersAfter(TriggerEvents(now \ overlaps),
                                  TriggerEvents(overlaps \ now))
               ELSE collisionNbr
          /\ overlaps' = now
    BY <1>2 DEF SetUpdate, WorldUpdate
  <2>2. now \in SUBSET Pair
    BY DEF LivePairs
  <2>3. listener
    BY <2>0 DEF LiveShape
  <2>4. /\ TriggerEvents(now \ overlaps) = now \ overlaps
        /\ TriggerEvents(overlaps \ now) = overlaps \ now
    BY <2>0, <2>2, AllTriggerEvents DEF TypeOK
  <2>5. collisionNbr' = CountersAfter(now \ overlaps, overlaps \ now)
    BY <2>1, <2>3, <2>4
  <2>6. CounterMatchesOverlaps'
    <3> SUFFICES ASSUME NEW s \in Slot
                 PROVE  collisionNbr'[s] = Cardinality(Touching(now, s))
      BY <2>1 DEF CounterMatchesOverlaps
    <3>1. collisionNbr'[s] = collisionNbr[s] + Hits(now \ overlaps, s)
                                            - Hits(overlaps \ now, s)
      BY <2>5 DEF CountersAfter
    <3>2. /\ Hits(now \ overlaps, s) = Cardinality(Touching(now \ overlaps, s))
          /\ Hits(overlaps \ now, s) = Cardinality(Touching(overlaps \ now, s))
      BY <2>0, <2>2, HitsTouching DEF TypeOK
    <3>3. collisionNbr[s] = Cardinality(Touching(overlaps, s))
      BY <2>0 DEF CounterMatchesOverlaps
    <3>4. /\ Touching(now \ overlaps, s) = Touching(now, s) \ Touching(overlaps, s)
          /\ Touching(overlaps \ now, s) = Touching(overlaps, s) \ Touching(now, s)
      BY TouchingDiff
    <3>5. IsFiniteSet(Touching(now, s)) /\ IsFiniteSet(Touching(overlaps, s))
      BY <2>0, <2>2, TouchingFinite DEF TypeOK
    <3>6. Cardinality(Touching(now, s)) =
            Cardinality(Touching(overlaps, s))
            + Cardinality(Touching(now, s) \ Touching(overlaps, s))
            - Cardinality(Touching(overlaps, s) \ Touching(now, s))
      BY <3>5, CardShift
    <3>. QED
      BY <3>1, <3>2, <3>3, <3>4, <3>6
  <2>7. ColourLagsOneFrame'
    <3> SUFFICES ASSUME NEW s \in Slot
                 PROVE  color'[s] = "onTrigger" <=> Touching(overlaps, s) # {}
      BY <1>2 DEF SetUpdate, ColourLagsOneFrame
    <3>1. color'[s] = ShownColour(collisionNbr[s])
      BY <1>2 DEF SetUpdate, SampleUpdate
    <3>2. collisionNbr[s] = Cardinality(Touching(overlaps, s))
      BY <2>0 DEF CounterMatchesOverlaps
    <3>3. /\ IsFiniteSet(Touching(overlaps, s))
          /\ Cardinality(Touching(overlaps, s)) \in Nat
      BY <2>0, TouchingFinite DEF TypeOK
    <3>4. Cardinality(Touching(overlaps, s)) > 0 <=> Touching(overlaps, s) # {}
      BY <3>3, FS_EmptySet
    <3>. QED
      BY <3>1, <3>2, <3>4 DEF ShownColour
  <2>8. LiveShape' /\ DownShape'
    BY <1>2, <2>0 DEF SetUpdate, LiveShape, DownShape
  <2>. QED
    BY <1>0, <2>6, <2>7, <2>8 DEF IInv
<1>3. CASE TearDown
  <2>1. live' = FALSE /\ overlaps' = {} /\ prevOverlaps' = {}
    BY <1>3 DEF TearDown, WorldClear
  <2>2. collisionNbr' = [s \in Slot |-> 0]
    BY <1>3 DEF TearDown, SampleTearDown
  <2>3. \A s \in Slot : Touching(overlaps', s) = {}
    BY <2>1 DEF Touching
  <2>4. CounterMatchesOverlaps'
    BY <2>2, <2>3, FS_EmptySet DEF CounterMatchesOverlaps
  <2>5. color' = [s \in Slot |-> "none"]
    BY <1>3 DEF TearDown, SampleTearDown
  <2>. QED
    BY <1>0, <2>1, <2>4, <2>5 DEF IInv, LiveShape, DownShape, ColourLagsOneFrame
<1>4. CASE UNCHANGED vars
  BY <1>4 DEF vars, IInv, TypeOK, LiveShape, DownShape,
              CounterMatchesOverlaps, ColourLagsOneFrame, Touching
<1>. QED
  BY <1>1, <1>2, <1>3, <1>4 DEF Next

(* OnTriggerEnter / OnTriggerExit keep every object's CollisionNbr equal   *)
(* to the number of colliders it overlaps, for any number of circles and   *)
(* rectangles and any sequence of SetUp, SetUpdate and TearDown.           *)
THEOREM CountersMatch == Spec => []CounterMatchesOverlaps
<1>1. IInv => CounterMatchesOverlaps
  BY DEF IInv
<1>. QED
  BY <1>1, InitIInv, NextIInv, PTL DEF Spec

(* The colour SampleUpdate paints is, in every reachable state, the        *)
(* overlap of the step before, for any scene size.                         *)
THEOREM ColourLags == Spec => []ColourLagsOneFrame
<1>1. IInv => ColourLagsOneFrame
  BY DEF IInv
<1>. QED
  BY <1>1, InitIInv, NextIInv, PTL DEF Spec

-----------------------------------------------------------------------------
(* Refinement of TriggerListener.                                          *)

(* TriggerListener's Cardinality, reached through the instance, is the     *)
(* same operator.                                                          *)
LEMMA ListenerCardinality ==
  ASSUME NEW X PROVE Listener!Cardinality(X) = Cardinality(X)
BY DEF Listener!Cardinality, Cardinality

LEMMA InitRefines == Init => Listener!Init
BY DEF Init, Listener!Init

(* Each step of the scene is a step of TriggerListener or leaves its       *)
(* variables alone; the Frame case rests on the invariant after the step   *)
(* (the counters match the new overlap set) and before it (the colour is   *)
(* taken from counters that matched the old one).                          *)
LEMMA NextRefines ==
  IInv /\ IInv' /\ [Next]_vars => [Listener!Next]_Listener!vars
<1> SUFFICES ASSUME IInv, IInv', [Next]_vars
             PROVE  [Listener!Next]_Listener!vars
  OBVIOUS
<1>1. CASE SetUp
  <2>1. ~live
    BY <1>1 DEF SetUp
  <2>2. Listener!Start
    BY <1>1, <2>1 DEF SetUp, SampleSetUp, CreateObjects, Listener!Start
  <2>. QED
    BY <2>2 DEF Listener!Next
<1>2. CASE SetUpdate
  <2>0. live /\ TypeOK /\ TypeOK' /\ CounterMatchesOverlaps
        /\ CounterMatchesOverlaps'
    BY <1>2 DEF SetUpdate, IInv
  <2>1. overlaps' \in SUBSET Listener!Pair
    BY <2>0 DEF TypeOK, Pair, Listener!Pair
  <2>2. collisionNbr' =
          [s \in Slot |-> Cardinality(Listener!Involving(overlaps', s))]
    BY <2>0 DEF TypeOK, CounterMatchesOverlaps, Touching, Listener!Involving
  <2>3. ASSUME NEW s \in Slot
        PROVE  color'[s] = IF Listener!Involving(overlaps, s) # {}
                           THEN "onTrigger" ELSE "noTrigger"
    <3>1. color'[s] = ShownColour(collisionNbr[s])
      BY <1>2 DEF SetUpdate, SampleUpdate
    <3>2. collisionNbr[s] = Cardinality(Touching(overlaps, s))
      BY <2>0 DEF CounterMatchesOverlaps
    <3>3. /\ IsFiniteSet(Touching(overlaps, s))
          /\ Cardinality(Touching(overlaps, s)) \in Nat
      BY <2>0, TouchingFinite DEF TypeOK
    <3>4. Cardinality(Touching(overlaps, s)) > 0 <=> Touching(overlaps, s) # {}
      BY <3>3, FS_EmptySet
    <3>. QED
      BY <3>1, <3>2, <3>4 DEF ShownColour, Touching, Listener!Involving
  <2>4. color' = [s \in Slot |->
                    IF Listener!Involving(overlaps, s) # {}
                    THEN "onTrigger" ELSE "noTrigger"]
    BY <2>0, <2>3 DEF TypeOK
  <2>5. \E now \in SUBSET Listener!Pair :
          /\ overlaps' = now
          /\ collisionNbr' =
               [s \in Slot |-> Cardinality(Listener!Involving(now, s))]
    BY <2>1, <2>2
  <2>6. live /\ live' = live
    BY <1>2 DEF SetUpdate
  <2>7. Listener!Frame
    BY <2>4, <2>5, <2>6, ListenerCardinality DEF Listener!Frame
  <2>. QED
    BY <2>7 DEF Listener!Next
<1>3. CASE TearDown
  <2>1. Listener!Stop
    BY <1>3 DEF TearDown, SampleTearDown, WorldClear, Listener!Stop
  <2>. QED
    BY <2>1 DEF Listener!Next
<1>4. CASE UNCHANGED vars
  BY <1>4 DEF vars, Listener!vars
<1>. QED
  BY <1>1, <1>2, <1>3, <1>4 DEF Next

(* TriggerSample with the engine's event dispatch implements               *)
(* TriggerListener for every number of circles and rectangles: whatever   *)
(* the sequence of SetUp, SetUpdate and TearDown, counters and colours are *)
(* the ones the abstract scene describes.                                  *)
THEOREM ListenerRefinement == Spec => ImplementsListener
<1>1. Spec => []IInv
  BY InitIInv, NextIInv, PTL DEF Spec
<1>2. []IInv /\ [][Next]_vars => [][Listener!Next]_Listener!vars
  BY NextRefines, PTL
<1>. QED
  BY <1>1, <1>2, InitRefines, PTL DEF Spec, ImplementsListener, Listener!Spec

=============================================================================
