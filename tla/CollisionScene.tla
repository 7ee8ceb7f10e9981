--------------------------- MODULE CollisionScene ---------------------------
(***************************************************************************)
(* The collision demo scene with circles and rectangles                    *)
(* (src/samples/src/CollisionWithRectSample.cpp; CollisionSample.cpp is    *)
(* the same scene without rectangles) together with the part of           *)
(* World::Update it depends on: the diff of the overlap set and the        *)
(* dispatch of OnCollisionEnter / OnCollisionExit, one call per pair, in   *)
(* an order the spec leaves unspecified.                                   *)
(*                                                                         *)
(* No collider of this scene is a trigger, so OnTriggerEnter / Exit are    *)
(* never called.  Motion, the narrow phase and contact resolution are      *)
(* abstracted: each step may produce any set of overlapping pairs.         *)
(***************************************************************************)
EXTENDS Integers, FiniteSets, OrderedCalls

CONSTANTS
    NCircles,  \* CollisionWithRectSample::CirclesInTheWorld (20)
    NRects,    \* CollisionWithRectSample::RectsInTheWorld (50)
    Palette    \* the colours Display::RandomColor can return

ASSUME SceneAssumption ==
    /\ NCircles \in Nat /\ NRects \in Nat
    /\ IsFiniteSet(Palette) /\ Palette # {}

(* circles[0..] are slots 1..NCircles, rectangles[0..] follow them.        *)
Slot == 1..(NCircles + NRects)

IsCircle(s) == s <= NCircles

Pair == {{a, b} : a, b \in Slot} \ {{a} : a \in Slot}

NoId == -1

(* SDL_Color{} of a default-constructed Circle / Rect.                    *)
NoColour == "none"

VARIABLES
    live,      \* the world holds the scene's bodies and colliders
    listener,  \* _sampleWorld.contactListener == this
    ids,       \* ids[s]: Collider::ID of slot s's collider
    overlaps,  \* the world's overlap set from the previous step
    color,     \* circle.color / rect.color
    entered    \* history: the pairs whose collision began in the last step

vars == <<live, listener, ids, overlaps, color, entered>>

-----------------------------------------------------------------------------
(* Engine side (modelled from the spec).                                   *)

LivePairs == IF live THEN Pair ELSE {}

WorldClear ==
    /\ live' = FALSE
    /\ ids' = [s \in Slot |-> NoId]
    /\ overlaps' = {}

-----------------------------------------------------------------------------
(* Sample side.                                                            *)

Init ==
    /\ live = FALSE
    /\ listener = FALSE
    /\ ids = [s \in Slot |-> NoId]
    /\ overlaps = {}
    /\ color = [s \in Slot |-> NoColour]
    /\ entered = {}

(* Mutants of CreatedId: ID = ++currentID, and currentID restarted for    *)
(* the rectangles' loop.                                                   *)
CreatedIdPreIncrement(s) == s
CreatedIdPerLoop(s) == IF IsCircle(s) THEN s - 1 ELSE s - NCircles - 1

(* The ID CreateObjects gives slot s: one currentID++ over both loops.     *)
CreatedId(s) == s - 1

(* CreateObjects: a body and a non-trigger collider per object, a random   *)
(* colour each.                                                            *)
CreateObjects ==
    /\ live' = TRUE
    /\ ids' = [s \in Slot |-> CreatedId(s)]
    /\ color' \in [Slot -> Palette]

(* Sample::SetUp: World::Init, then SampleSetUp (listener, CreateObjects). *)
SetUp ==
    /\ ~live
    /\ listener' = TRUE
    /\ CreateObjects
    /\ UNCHANGED <<overlaps, entered>>

(* Mutant of OnCollisionEnter: only colliderA is compared.                 *)
OnCollisionEnterColliderAOnly(p, c) ==
    LET a == CHOOSE x \in p : \A y \in p : ids[x] <= ids[y]
    IN  [s \in {t \in Slot : ids[t] = ids[a]} |-> c]

(* What OnCollisionEnter for pair p writes, with the colour c drawn once  *)
(* for the call: the circle loop runs when either side is a circle, the    *)
(* rectangle loop when either side is a rectangle, and each paints the     *)
(* objects whose collider equals (by ID) one side of the pair.             *)
OnCollisionEnter(p, c) ==
    [s \in {t \in Slot : /\ \E x \in p : IsCircle(x) = IsCircle(t)
                         /\ \E x \in p : ids[x] = ids[t]} |-> c]

(* World::Update (spec): a new overlap set of live pairs; when a listener  *)
(* is installed, one OnCollisionEnter per new pair, in some order, each    *)
(* with its own RandomColor (OnCollisionExit does nothing here).           *)
WorldUpdate ==
    \E now \in SUBSET LivePairs :
       /\ overlaps' = now
       /\ entered' = now \ overlaps
       /\ IF listener
          THEN \E order \in Orderings(now \ overlaps) :
               \E pick \in [DOMAIN order -> Palette] :
                 color' = Overwrite(color, [i \in DOMAIN order |->
                                              OnCollisionEnter(order[i], pick[i])])
          ELSE UNCHANGED color

(* Sample::SetUpdate: SampleUpdate (shape refresh and ReverseForceOnBorder *)
(* touch only the abstracted motion), then World::Update.                  *)
SetUpdate ==
    /\ live
    /\ WorldUpdate
    /\ UNCHANGED <<live, listener, ids>>

(* Sample::TearDown: SampleTearDown (listener cleared, arrays refilled),   *)
(* then World::Clear.                                                      *)
TearDown ==
    /\ listener' = FALSE
    /\ color' = [s \in Slot |-> NoColour]
    /\ WorldClear
    /\ entered' = {}

Next == SetUp \/ SetUpdate \/ TearDown

Spec == Init /\ [][Next]_vars

-----------------------------------------------------------------------------
TypeOK ==
    /\ live \in BOOLEAN
    /\ listener \in BOOLEAN
    /\ ids \in [Slot -> {NoId} \cup 0..(NCircles + NRects - 1)]
    /\ overlaps \in SUBSET Pair
    /\ color \in [Slot -> Palette \cup {NoColour}]
    /\ entered \in SUBSET Pair

(* The scene description says "Two objects that collide will take on the  *)
(* same new color": after a step, both objects of every pair whose         *)
(* collision began in it have the same colour.                             *)
CollidersShareColour ==
    \A p \in entered : \A a, b \in p : color[a] = color[b]

(* What OnCollisionEnter does guarantee: when a collision that began in a  *)
(* step is the only one that began for either of its objects, both show   *)
(* the colour drawn for it.                                                *)
LoneCollisionSharesColour ==
    \A p \in entered :
        (\A q \in entered \ {p} : p \cap q = {}) =>
            \A a, b \in p : color[a] = color[b]

(* A step recolours only objects whose collision began in it: the         *)
(* listener's ID comparison never paints a bystander.                      *)
RecolourOnlyOnEnter ==
    [][live /\ live' =>
         \A s \in Slot : color'[s] # color[s] => \E p \in entered' : s \in p
      ]_vars

=============================================================================
