------------------------- MODULE CircleScene_proofs -------------------------
(***************************************************************************)
(* Proofs about the circles-only collision scene, for every number of      *)
(* circles and every palette: the type invariant, that a lone collision    *)
(* leaves both circles with one colour, and that a step repaints only      *)
(* circles whose collision began in it.                                    *)
(***************************************************************************)
EXTENDS CircleScene, OrderedCalls_proofs, FiniteSetTheorems, TLAPS

(* While the scene is up, the listener is installed and every collider    *)
(* is CreateCircle's: the next ID and no trigger; while it is down, no     *)
(* collision is recorded as having begun.                                  *)
IInv ==
    /\ TypeOK
    /\ live => /\ listener
               /\ ids = [s \in Slot |-> CreatedId(s)]
               /\ trigger = [s \in Slot |-> FALSE]
    /\ ~live => entered = {}


LEMMA PairFinite == IsFiniteSet(Pair) /\ Pair \subseteq SUBSET Slot
<1>1. IsFiniteSet(Slot)
  BY CircleSceneAssumption, FS_Interval DEF Slot
<1>2. Pair \subseteq SUBSET Slot
  BY DEF Pair
<1>. QED
  BY <1>1, <1>2, FS_SUBSET, FS_Subset

(* With CreateCircle's IDs, the circles matching a pair are its two.      *)
LEMMA MatchingIsPair ==
  ASSUME ids = [s \in Slot |-> CreatedId(s)], NEW q \in SUBSET Slot
  PROVE  Matching(q) = q
<1>1. ASSUME NEW s \in Slot PROVE s \in Matching(q) <=> s \in q
  <2>1. \A x \in q : ids[x] = ids[s] <=> x = s
    BY CircleSceneAssumption DEF CreatedId, Slot
  <2>. QED
    BY <2>1 DEF Matching
<1>2. Matching(q) \subseteq Slot
  BY DEF Matching
<1>. QED
  BY <1>1, <1>2, Zenon

(* What any call writes: its colour to the colours, 0 or 1 to the         *)
(* counters.                                                               *)
LEMMA DispatchWrites ==
  ASSUME NEW ev, NEW c
  PROVE  /\ \A t \in DOMAIN Dispatch(ev, c).color : Dispatch(ev, c).color[t] = c
         /\ \A t \in DOMAIN Dispatch(ev, c).nbr : Dispatch(ev, c).nbr[t] \in {0, 1}
BY DEF Dispatch, OnTriggerEnter, OnTriggerExit, OnCollisionEnter, Call, NoWrite

(* With no trigger among the colliders and CreateCircle's IDs, an enter    *)
(* event paints the two circles of its pair and an exit event paints none. *)
LEMMA DispatchPaints ==
  ASSUME ids = [s \in Slot |-> CreatedId(s)], trigger = [s \in Slot |-> FALSE],
         NEW kind, NEW q \in SUBSET Slot, NEW c
  PROVE  DOMAIN Dispatch(<<kind, q>>, c).color = IF kind = "enter" THEN q ELSE {}
<1>1. ~IsTriggerPair(q)
  BY DEF IsTriggerPair
<1>2. Matching(q) = q
  BY MatchingIsPair
<1>. QED
  BY <1>1, <1>2 DEF Dispatch, OnCollisionEnter, Call, NoWrite

(* The colour and counter writes of the calls one SetUpdate makes.         *)
ColourCalls(order, pick) == [i \in DOMAIN order |-> Dispatch(order[i], pick[i]).color]
NbrCalls(order, pick) == [i \in DOMAIN order |-> Dispatch(order[i], pick[i]).nbr]

(* The events of a step that makes the overlap set now.                   *)
Events(now) == {<<"enter", p>> : p \in now \ overlaps}
               \cup {<<"exit", p>> : p \in overlaps \ now}

(* In a step of the live scene, an event's call paints the pair of an     *)
(* enter event, which is a pair that began, and nothing for an exit.       *)
LEMMA EventPaints ==
  ASSUME ids = [s \in Slot |-> CreatedId(s)], trigger = [s \in Slot |-> FALSE],
         overlaps \in SUBSET Pair, NEW now \in SUBSET Pair,
         NEW ev \in Events(now), NEW c
  PROVE  /\ DOMAIN Dispatch(ev, c).color = IF ev[1] = "enter" THEN ev[2] ELSE {}
         /\ ev[1] = "enter" => ev[2] \in now \ overlaps
<1>1. CASE ev \in {<<"enter", p>> : p \in now \ overlaps}
  <2>1. PICK q \in now \ overlaps : ev = <<"enter", q>>
    BY <1>1
  <2>2. q \in SUBSET Slot
    BY PairFinite
  <2>. QED
    BY <2>1, <2>2, DispatchPaints
<1>2. CASE ev \in {<<"exit", p>> : p \in overlaps \ now}
  <2>1. PICK q \in overlaps \ now : ev = <<"exit", q>>
    BY <1>2
  <2>2. q \in SUBSET Slot
    BY PairFinite
  <2>. QED
    BY <2>1, <2>2, DispatchPaints
<1>. QED
  BY <1>1, <1>2 DEF Events

(* A SetUpdate of the live scene: no collider is a trigger, so every pair *)
(* that began is entered.                                                  *)
LEMMA LiveStep ==
  ASSUME IInv, SetUpdate
  PROVE  /\ ids = [s \in Slot |-> CreatedId(s)]
         /\ trigger = [s \in Slot |-> FALSE]
         /\ overlaps \in SUBSET Pair
         /\ color \in [Slot -> Palette \cup {NoColour}]
         /\ \A now \in SUBSET Pair :
               {p \in now \ overlaps : ~IsTriggerPair(p)} = now \ overlaps
<1>1. trigger = [s \in Slot |-> FALSE]
  BY DEF SetUpdate, IInv
<1>2. ASSUME NEW now \in SUBSET Pair
      PROVE  {p \in now \ overlaps : ~IsTriggerPair(p)} = now \ overlaps
  <2>1. \A p \in now : ~IsTriggerPair(p)
    BY <1>1, PairFinite DEF IsTriggerPair
  <2>. QED
    BY <2>1
<1>. QED
  BY <1>1, <1>2 DEF SetUpdate, IInv, TypeOK

(* A SetUpdate in a reachable state: some set of live pairs overlaps now, *)
(* and the listener handles the events in some order.                      *)
LEMMA SetUpdateShape ==
  ASSUME IInv, SetUpdate
  PROVE  \E now \in SUBSET Pair :
           /\ overlaps' = now
           /\ entered' = {p \in now \ overlaps : ~IsTriggerPair(p)}
           /\ \E order \in Orderings(Events(now)) :
              \E pick \in [DOMAIN order -> Palette] :
                 /\ color' = Overwrite(color, ColourCalls(order, pick))
                 /\ collisionNbr' = Overwrite(collisionNbr, NbrCalls(order, pick))
<1>1. listener
  BY DEF IInv, SetUpdate
<1>2. PICK now \in SUBSET Pair :
         /\ overlaps' = now
         /\ entered' = {p \in now \ overlaps : ~IsTriggerPair(p)}
         /\ \E order \in Orderings(Events(now)) :
            \E pick \in [DOMAIN order -> Palette] :
              LET calls == [i \in DOMAIN order |-> Dispatch(order[i], pick[i])]
              IN  /\ color' = Overwrite(color, [i \in DOMAIN order |-> calls[i].color])
                  /\ collisionNbr' = Overwrite(collisionNbr,
                                               [i \in DOMAIN order |-> calls[i].nbr])
  BY <1>1 DEF SetUpdate, WorldUpdate, LivePairs, Events
<1>. QED
  BY <1>2 DEF ColourCalls, NbrCalls

-----------------------------------------------------------------------------
LEMMA InitIInv == Init => IInv
BY DEF Init, IInv, TypeOK, NoId, NoColour

LEMMA NextIInv == IInv /\ [Next]_vars => IInv'
<1> SUFFICES ASSUME IInv, [Next]_vars PROVE IInv'
  OBVIOUS
<1>1. CASE SetUp
  <2>1. \A s \in Slot : CreatedId(s) \in 0..(NCircles - 1)
    BY CircleSceneAssumption DEF Slot, CreatedId
  <2>. QED
    BY <1>1, <2>1 DEF SetUp, SampleSetUp, CreateCircle, IInv, TypeOK
<1>2. CASE SetUpdate
  <2>1. PICK now \in SUBSET Pair :
           /\ overlaps' = now
           /\ entered' = {p \in now \ overlaps : ~IsTriggerPair(p)}
           /\ \E order \in Orderings(Events(now)) :
              \E pick \in [DOMAIN order -> Palette] :
                 /\ color' = Overwrite(color, ColourCalls(order, pick))
                 /\ collisionNbr' = Overwrite(collisionNbr, NbrCalls(order, pick))
    BY <1>2, SetUpdateShape
  <2>2. PICK order \in Orderings(Events(now)) :
           \E pick \in [DOMAIN order -> Palette] :
              /\ color' = Overwrite(color, ColourCalls(order, pick))
              /\ collisionNbr' = Overwrite(collisionNbr, NbrCalls(order, pick))
    BY <2>1
  <2>3. PICK pick \in [DOMAIN order -> Palette] :
           /\ color' = Overwrite(color, ColourCalls(order, pick))
           /\ collisionNbr' = Overwrite(collisionNbr, NbrCalls(order, pick))
    BY <2>2
  <2>4. Cardinality(Events(now)) \in Nat
    <3>1. IsFiniteSet(Pair)
      BY PairFinite
    <3>2. IsFiniteSet({"enter", "exit"})
      <4>1. IsFiniteSet({"exit"})
        BY FS_Singleton
      <4>2. IsFiniteSet({"exit"} \cup {"enter"})
        BY <4>1, FS_AddElement
      <4>. QED
        BY <4>2, Zenon
    <3>3. IsFiniteSet({"enter", "exit"} \X Pair)
      BY <3>1, <3>2, FS_Product
    <3>4. now \subseteq Pair /\ overlaps \subseteq Pair
      BY DEF IInv, TypeOK
    <3>5. Events(now) \subseteq {"enter", "exit"} \X Pair
      BY <3>4 DEF Events
    <3>. QED
      BY <3>3, <3>5, FS_Subset, FS_CardinalityType
  <2>5. DOMAIN order = 1..Cardinality(Events(now))
    BY DEF Orderings
  <2>6. color' \in [Slot -> Palette \cup {NoColour}]
    <3>1. color \in [Slot -> Palette \cup {NoColour}]
      BY DEF IInv, TypeOK
    <3>2. DOMAIN ColourCalls(order, pick) = 1..Cardinality(Events(now))
      BY <2>5 DEF ColourCalls
    <3>3. ASSUME NEW i \in 1..Cardinality(Events(now)),
                 NEW t \in DOMAIN ColourCalls(order, pick)[i]
          PROVE  ColourCalls(order, pick)[i][t] \in Palette \cup {NoColour}
      <4>1. i \in DOMAIN order
        BY <2>5
      <4>2. ColourCalls(order, pick)[i][t] = pick[i]
        BY <4>1, DispatchWrites DEF ColourCalls
      <4>3. pick[i] \in Palette
        BY <4>1
      <4>. QED
        BY <4>2, <4>3
    <3>. QED
      BY <2>3, <2>4, <3>1, <3>2, <3>3, OverwriteType
  <2>7. collisionNbr' \in [Slot -> {0, 1}]
    <3>1. collisionNbr \in [Slot -> {0, 1}]
      BY DEF IInv, TypeOK
    <3>2. DOMAIN NbrCalls(order, pick) = 1..Cardinality(Events(now))
      BY <2>5 DEF NbrCalls
    <3>3. ASSUME NEW i \in 1..Cardinality(Events(now)),
                 NEW t \in DOMAIN NbrCalls(order, pick)[i]
          PROVE  NbrCalls(order, pick)[i][t] \in {0, 1}
      <4>1. i \in DOMAIN order
        BY <2>5
      <4>. QED
        BY <4>1, DispatchWrites DEF NbrCalls
    <3>. QED
      BY <2>3, <2>4, <3>1, <3>2, <3>3, OverwriteType
  <2>8. entered' \in SUBSET Pair
    BY <2>1
  <2>. QED
    BY <1>2, <2>1, <2>6, <2>7, <2>8 DEF SetUpdate, IInv, TypeOK
<1>3. CASE TearDown
  BY <1>3 DEF TearDown, IInv, TypeOK, NoId, NoColour
<1>4. CASE UNCHANGED vars
  BY <1>4 DEF vars, IInv, TypeOK
<1>. QED
  BY <1>1, <1>2, <1>3, <1>4 DEF Next

(* The circles' IDs, triggers, overlap sets, colours and counters are     *)
(* typed correctly in every state, for every number of circles and every   *)
(* palette.                                                                *)
THEOREM TypeCorrect == Spec => []TypeOK
<1>1. IInv => TypeOK
  BY DEF IInv
<1>. QED
  BY <1>1, InitIInv, NextIInv, PTL DEF Spec


(* A collision that began alone keeps both circles on one colour, for     *)
(* every number of circles: the call for its enter event is the only call *)
(* of the step that paints either circle (other enter calls paint their    *)
(* own, disjoint pairs, exit calls paint nothing), so both end with the   *)
(* colour it drew, whatever the order of the events.                       *)
LEMMA LoneStep ==
  IInv /\ LoneCollisionSharesColour /\ [Next]_vars => LoneCollisionSharesColour'
<1> SUFFICES ASSUME IInv, LoneCollisionSharesColour, [Next]_vars
             PROVE  LoneCollisionSharesColour'
  OBVIOUS
<1>1. CASE SetUpdate
  <2>1. PICK now \in SUBSET Pair :
           /\ overlaps' = now
           /\ entered' = {p \in now \ overlaps : ~IsTriggerPair(p)}
           /\ \E order \in Orderings(Events(now)) :
              \E pick \in [DOMAIN order -> Palette] :
                 color' = Overwrite(color, ColourCalls(order, pick))
    BY <1>1, SetUpdateShape
  <2>2. PICK order \in Orderings(Events(now)) :
           \E pick \in [DOMAIN order -> Palette] :
              color' = Overwrite(color, ColourCalls(order, pick))
    BY <2>1
  <2>3. PICK pick \in [DOMAIN order -> Palette] :
           color' = Overwrite(color, ColourCalls(order, pick))
    BY <2>2
  <2>4. /\ ids = [s \in Slot |-> CreatedId(s)]
        /\ trigger = [s \in Slot |-> FALSE]
        /\ overlaps \in SUBSET Pair
        /\ color \in [Slot -> Palette \cup {NoColour}]
        /\ entered' = now \ overlaps
    BY <1>1, <2>1, LiveStep
  <2> SUFFICES ASSUME NEW p \in (now \ overlaps), \A q \in (now \ overlaps) \ {p} : p \cap q = {},
                      NEW a \in p, NEW b \in p
               PROVE  color'[a] = color'[b]
    BY <2>4 DEF LoneCollisionSharesColour
  <2>5. <<"enter", p>> \in Events(now)
    BY DEF Events
  <2>6. PICK k \in 1..Cardinality(Events(now)) :
           /\ order[k] = <<"enter", p>>
           /\ \A j \in 1..Cardinality(Events(now)) : order[j] = <<"enter", p>> => j = k
    BY <2>5 DEF Orderings
  <2>7. p \subseteq Slot
    BY PairFinite
  <2>8. ASSUME NEW x \in p PROVE color'[x] = pick[k]
    <3>1. Writers(ColourCalls(order, pick), x) = {k}
      <4>1. order \in [1..Cardinality(Events(now)) -> Events(now)]
        BY DEF Orderings
      <4>2. ASSUME NEW i \in 1..Cardinality(Events(now))
            PROVE  /\ DOMAIN ColourCalls(order, pick)[i] =
                          IF order[i][1] = "enter" THEN order[i][2] ELSE {}
                   /\ order[i][1] = "enter" => order[i][2] \in now \ overlaps
        BY <2>4, <4>1, EventPaints DEF ColourCalls
      <4>3. ASSUME NEW i \in 1..Cardinality(Events(now)),
                   x \in DOMAIN ColourCalls(order, pick)[i]
            PROVE  i = k
        <5>1. order[i][1] = "enter" /\ x \in order[i][2]
          BY <4>2, <4>3
        <5>2. order[i][2] \in now \ overlaps
          BY <4>2, <5>1
        <5>3. order[i][2] = p
          BY <5>1, <5>2
        <5>4. order[i] = <<"enter", p>>
          BY <4>1, <5>1, <5>3 DEF Events
        <5>. QED
          BY <2>6, <5>4
      <4>4. DOMAIN ColourCalls(order, pick) = 1..Cardinality(Events(now))
        BY <4>1 DEF ColourCalls
      <4>5. x \in DOMAIN ColourCalls(order, pick)[k]
        BY <2>6, <4>2
      <4>7. ASSUME NEW i PROVE i \in Writers(ColourCalls(order, pick), x) <=> i = k
        BY <4>3, <4>4, <4>5 DEF Writers
      <4>. QED
        BY <4>7, Zenon
    <3>2. color'[x] = ColourCalls(order, pick)[k][x]
      BY <2>3, <2>4, <2>7, <3>1, OverwriteOne
    <3>3. k \in DOMAIN order /\ x \in DOMAIN ColourCalls(order, pick)[k]
      BY <3>1 DEF Writers, ColourCalls
    <3>. QED
      BY <3>2, <3>3, DispatchWrites DEF ColourCalls
  <2>. QED
    BY <2>8
<1>2. CASE SetUp
  BY <1>2 DEF SetUp, IInv, LoneCollisionSharesColour
<1>3. CASE TearDown
  BY <1>3 DEF TearDown, LoneCollisionSharesColour
<1>4. CASE UNCHANGED vars
  BY <1>4 DEF vars, LoneCollisionSharesColour
<1>. QED
  BY <1>1, <1>2, <1>3, <1>4 DEF Next

(* Every reachable state of the circles' scene satisfies                  *)
(* LoneCollisionSharesColour, for every number of circles and palette.     *)
THEOREM LoneCollisionHolds == Spec => []LoneCollisionSharesColour
<1>1. Init => LoneCollisionSharesColour
  BY DEF Init, LoneCollisionSharesColour
<1>. QED
  BY <1>1, InitIInv, NextIInv, LoneStep, PTL DEF Spec

(* Each step in which the scene stays up repaints only circles whose      *)
(* collision began in it: a colour is written only by the call for an      *)
(* enter event, to the circles of that event's pair, which began.          *)
LEMMA RecolourStep ==
  IInv /\ [Next]_vars =>
      [live /\ live' =>
          \A s \in Slot : color'[s] # color[s] => \E p \in entered' : s \in p]_vars
<1> SUFFICES ASSUME IInv, [Next]_vars, live, live', NEW s \in Slot,
                    color'[s] # color[s]
             PROVE  \E p \in entered' : s \in p
  OBVIOUS
<1>1. CASE SetUp
  BY <1>1 DEF SetUp
<1>2. CASE TearDown
  BY <1>2 DEF TearDown
<1>3. CASE UNCHANGED vars
  BY <1>3 DEF vars
<1>4. CASE SetUpdate
  <2>1. PICK now \in SUBSET Pair :
           /\ overlaps' = now
           /\ entered' = {p \in now \ overlaps : ~IsTriggerPair(p)}
           /\ \E order \in Orderings(Events(now)) :
              \E pick \in [DOMAIN order -> Palette] :
                 color' = Overwrite(color, ColourCalls(order, pick))
    BY <1>4, SetUpdateShape
  <2>2. PICK order \in Orderings(Events(now)) :
           \E pick \in [DOMAIN order -> Palette] :
              color' = Overwrite(color, ColourCalls(order, pick))
    BY <2>1
  <2>3. PICK pick \in [DOMAIN order -> Palette] :
           color' = Overwrite(color, ColourCalls(order, pick))
    BY <2>2
  <2>4. /\ ids = [t \in Slot |-> CreatedId(t)]
        /\ trigger = [t \in Slot |-> FALSE]
        /\ overlaps \in SUBSET Pair
        /\ color \in [Slot -> Palette \cup {NoColour}]
        /\ entered' = now \ overlaps
    BY <1>4, <2>1, LiveStep
  <2>5. Writers(ColourCalls(order, pick), s) # {}
    BY <2>3, <2>4, OverwriteChanged
  <2>6. PICK i \in DOMAIN order : s \in DOMAIN ColourCalls(order, pick)[i]
    BY <2>5 DEF Writers, ColourCalls
  <2>7. order[i] \in Events(now)
    BY DEF Orderings
  <2>8. /\ DOMAIN ColourCalls(order, pick)[i] =
             IF order[i][1] = "enter" THEN order[i][2] ELSE {}
        /\ order[i][1] = "enter" => order[i][2] \in now \ overlaps
    BY <2>4, <2>7, EventPaints DEF ColourCalls
  <2>. QED
    BY <2>4, <2>6, <2>8
<1>. QED
  BY <1>1, <1>2, <1>3, <1>4 DEF Next

(* RecolourOnlyOnEnter holds of every behaviour of the circles' scene.    *)
THEOREM RecolourHolds == Spec => RecolourOnlyOnEnter
BY InitIInv, NextIInv, RecolourStep, PTL DEF Spec, RecolourOnlyOnEnter

=============================================================================
