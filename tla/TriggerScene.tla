---------------------------- MODULE TriggerScene ----------------------------
(***************************************************************************)
(* The trigger demo scene (src/samples/src/TriggerSample.cpp) together     *)
(* with the part of the engine's World::Update it depends on: the diff of  *)
(* the overlap set against the previous step and the dispatch of           *)
(* OnTriggerEnter / OnTriggerExit to the installed contact listener.       *)
(*                                                                         *)
(* A scene object (circle or rectangle) is a slot; its collider carries    *)
(* the user-assigned ID that the listener compares colliders by.  Motion   *)
(* and the narrow phase are abstracted: each world step may produce any    *)
(* set of overlapping pairs of live colliders.                             *)
(***************************************************************************)
EXTENDS Integers, FiniteSets

CONSTANTS
    NCircles,   \* TriggerSample::CirclesInTheWorld (500 in the code)
    NRects      \* TriggerSample::RectsInTheWorld (500 in the code)

ASSUME CountsAssumption == NCircles \in Nat /\ NRects \in Nat

(* circles[0..] are slots 1..NCircles, rectangles[0..] follow them.        *)
Slot == 1..(NCircles + NRects)

(* Unordered pairs of distinct colliders: the engine's overlap keys.       *)
Pair == {{a, b} : a, b \in Slot} \ {{a} : a \in Slot}

(* ID of a collider that does not exist (the world was cleared).           *)
NoId == -1

(* noTriggerColor, onTriggerColor, and SDL_Color{} left by fill(Circle()).  *)
Colors == {"noTrigger", "onTrigger", "none"}

VARIABLES
    live,          \* the world holds the scene's bodies and colliders
    listener,      \* _sampleWorld.contactListener == this
    ids,           \* ids[s]: Collider::ID of slot s's collider
    trigger,       \* trigger[s]: Collider::isTrigger of slot s's collider
    overlaps,      \* the world's overlap set from the previous step
    collisionNbr,  \* circle.CollisionNbr / rect.CollisionNbr
    color,         \* circle.color / rect.color
    prevOverlaps   \* history: overlaps as they were before the last step

vars == <<live, listener, ids, trigger, overlaps, collisionNbr, color,
          prevOverlaps>>

-----------------------------------------------------------------------------
(* Engine side (World, modelled from the spec): pairs of the colliders     *)
(* present, the trigger variant of an event, and World::Clear.             *)

LivePairs == IF live THEN Pair ELSE {}

(* Events of a set whose variant is trigger (either side is a trigger).    *)
TriggerEvents(E) == {p \in E : \E x \in p : trigger[x]}

(* World::Clear: frees every body and collider and the overlap records.    *)
WorldClear ==
    /\ live' = FALSE
    /\ ids' = [s \in Slot |-> NoId]
    /\ trigger' = [s \in Slot |-> FALSE]
    /\ overlaps' = {}

-----------------------------------------------------------------------------
(* Sample side (TriggerSample, Sample).                                    *)

(* The static TriggerSample before any scene is launched: empty world,     *)
(* default-constructed arrays.                                             *)
Init ==
    /\ live = FALSE
    /\ listener = FALSE
    /\ ids = [s \in Slot |-> NoId]
    /\ trigger = [s \in Slot |-> FALSE]
    /\ overlaps = {}
    /\ collisionNbr = [s \in Slot |-> 0]
    /\ color = [s \in Slot |-> "none"]
    /\ prevOverlaps = {}

(* Mutants of CreatedId: currentID restarted for the rectangles' loop, and *)
(* ID = ++currentID instead of currentID++.                                *)
CreatedIdPerLoop(s) == IF s <= NCircles THEN s - 1 ELSE s - NCircles - 1
CreatedIdPreIncrement(s) == s

(* The ID CreateObjects gives slot s: currentID++ over circles, then rects. *)
CreatedId(s) == s - 1

(* Mutant of CreateObjects: the objects keep the colour they had.          *)
CreateObjectsUncoloured ==
    /\ live' = TRUE
    /\ ids' = [s \in Slot |-> CreatedId(s)]
    /\ trigger' = [s \in Slot |-> TRUE]
    /\ UNCHANGED color

(* CreateObjects: one body and one trigger collider per circle and per     *)
(* rectangle, each with the next ID; every object starts noTriggerColor.   *)
(* CollisionNbr is not touched.                                            *)
CreateObjects ==
    /\ live' = TRUE
    /\ ids' = [s \in Slot |-> CreatedId(s)]
    /\ trigger' = [s \in Slot |-> TRUE]
    /\ color' = [s \in Slot |-> "noTrigger"]

(* SampleSetUp: install this scene as the listener, then CreateObjects.     *)
SampleSetUp ==
    /\ listener' = TRUE
    /\ CreateObjects

(* Sample::SetUp: World::Init (leaves the cleared world empty), then       *)
(* SampleSetUp.  SampleManager only sets up a scene that is torn down.     *)
SetUp ==
    /\ ~live
    /\ SampleSetUp
    /\ UNCHANGED <<overlaps, collisionNbr, prevOverlaps>>

(* Mutant of ShownColour: CollisionNbr >= 0 instead of > 0.               *)
ShownColourAtLeastZero(n) == IF n >= 0 THEN "onTrigger" ELSE "noTrigger"

(* The colour SampleUpdate gives an object from its CollisionNbr.          *)
ShownColour(n) == IF n > 0 THEN "onTrigger" ELSE "noTrigger"

(* SampleUpdate: refresh shapes (motion is abstracted), colour each object *)
(* from its counter, reflect bodies at the borders (BorderReflect).        *)
SampleUpdate ==
    color' = [s \in Slot |-> ShownColour(collisionNbr[s])]

(* How many events of E name a collider equal (by ID) to slot s's: the     *)
(* loops of OnTriggerEnter / OnTriggerExit over circles and rectangles.    *)
Hits(E, s) == Cardinality({p \in E : \E x \in p : ids[x] = ids[s]})

(* The listener's counters after World::Update has called OnTriggerEnter  *)
(* for every entered and OnTriggerExit for every exited trigger pair       *)
(* (OnCollisionEnter / OnCollisionExit do nothing in this scene).          *)
CountersAfter(enters, exits) ==
    [s \in Slot |-> collisionNbr[s] + Hits(enters, s) - Hits(exits, s)]

(* World::Update (modelled from the spec): step the bodies, find the new   *)
(* overlap set, diff it with the previous one and, when a listener is      *)
(* installed, dispatch one enter / exit per pair before replacing the set. *)
WorldUpdate ==
    \E now \in SUBSET LivePairs :
       LET enters == TriggerEvents(now \ overlaps)
           exits  == TriggerEvents(overlaps \ now)
       IN  /\ collisionNbr' = IF listener THEN CountersAfter(enters, exits)
                                         ELSE collisionNbr
           /\ overlaps' = now

(* Sample::SetUpdate: SampleUpdate, then World::Update.                     *)
SetUpdate ==
    /\ live
    /\ SampleUpdate
    /\ WorldUpdate
    /\ prevOverlaps' = overlaps
    /\ UNCHANGED <<live, listener, ids, trigger>>

(* Mutant of SampleTearDown: the arrays are not refilled.                  *)
SampleTearDownKeepingArrays ==
    /\ listener' = FALSE
    /\ UNCHANGED <<collisionNbr, color>>

(* SampleTearDown: clear the listener, reset both arrays to default        *)
(* objects (CollisionNbr 0, colour SDL_Color{}).                           *)
SampleTearDown ==
    /\ listener' = FALSE
    /\ collisionNbr' = [s \in Slot |-> 0]
    /\ color' = [s \in Slot |-> "none"]

(* Sample::TearDown: SampleTearDown, drop the refs, World::Clear.  It has   *)
(* no precondition: tearing down an empty scene leaves it empty.           *)
TearDown ==
    /\ SampleTearDown
    /\ WorldClear
    /\ prevOverlaps' = {}

Next == SetUp \/ SetUpdate \/ TearDown

Spec == Init /\ [][Next]_vars

-----------------------------------------------------------------------------
TypeOK ==
    /\ live \in BOOLEAN
    /\ listener \in BOOLEAN
    /\ ids \in [Slot -> {NoId} \cup 0..(NCircles + NRects - 1)]
    /\ trigger \in [Slot -> BOOLEAN]
    /\ overlaps \in SUBSET Pair
    /\ collisionNbr \in [Slot -> Int]
    /\ color \in [Slot -> Colors]
    /\ prevOverlaps \in SUBSET Pair

(* The pairs of a set that involve slot s.                                 *)
Touching(E, s) == {p \in E : s \in p}

(* OnTriggerEnter / OnTriggerExit keep each object's CollisionNbr equal to *)
(* the number of colliders it currently overlaps, across any number of    *)
(* steps and scene relaunches: the listener matches colliders by ID, so    *)
(* this needs CreateObjects' IDs to be distinct, TearDown to reset the     *)
(* counters and World::Clear to drop the overlap set.                      *)
CounterMatchesOverlaps ==
    \A s \in Slot : collisionNbr[s] = Cardinality(Touching(overlaps, s))

(* The colour SampleUpdate paints shows overlap one frame late: after a    *)
(* step, an object is green exactly when it overlapped something before    *)
(* that step, because the colour is taken from the counter before          *)
(* World::Update runs.                                                     *)
ColourLagsOneFrame ==
    live => \A s \in Slot :
              color[s] = "onTrigger" <=> Touching(prevOverlaps, s) # {}

(* The scene description says "Red != overlap. Green == overlap": the      *)
(* colour shown after a frame is green exactly when the object overlaps.   *)
ColourShowsOverlap ==
    live => \A s \in Slot :
              color[s] = "onTrigger" <=> Touching(overlaps, s) # {}

-----------------------------------------------------------------------------
(* The scene seen through TriggerListener: the world's overlap set is what *)
(* touches, CollisionNbr is the counter, the colour is what is shown.      *)
Listener == INSTANCE TriggerListener
              WITH Obj <- Slot, up <- live, touching <- overlaps,
                   count <- collisionNbr, shown <- color

(* TriggerSample with World::Update implements TriggerListener: every      *)
(* SetUp, SetUpdate and TearDown is a Start, Frame or Stop of it (or       *)
(* leaves it unchanged), so the counters OnTriggerEnter / OnTriggerExit    *)
(* maintain and the colours SampleUpdate paints are the ones it describes. *)
ImplementsListener == Listener!Spec

=============================================================================
