---------------------------- MODULE CircleScene ----------------------------
(***************************************************************************)
(* The circles-only collision demo scene (src/samples/src/CollisionSample  *)
(* .cpp) with the part of World::Update it depends on (modelled from the   *)
(* spec): the diff of the overlap set and one event per entered or exited  *)
(* pair, all dispatched in one order the spec leaves unspecified, the      *)
(* trigger variant when either collider is a trigger.                      *)
(*                                                                         *)
(* Unlike the scene with rectangles, this one also implements the trigger  *)
(* handlers (they set Circle::CollisionNbr, an int, to true / false); they *)
(* are modelled although CreateCircle makes no trigger.  Motion is         *)
(* abstracted: each step may produce any set of overlapping pairs.         *)
(***************************************************************************)
EXTENDS Integers, FiniteSets, OrderedCalls

CONSTANTS
    NCircles,  \* CollisionSample::CirclesInTheWorld (200)
    Palette    \* the colours Display::RandomColor can return

ASSUME CircleSceneAssumption ==
    NCircles \in Nat /\ IsFiniteSet(Palette) /\ Palette # {}

(* circles[0..] are slots 1..NCircles.                                     *)
Slot == 1..NCircles

Pair == {{a, b} : a, b \in Slot} \ {{a} : a \in Slot}

NoId == -1

(* SDL_Color{} of a default-constructed Circle.                            *)
NoColour == "none"

VARIABLES
    live,          \* the world holds the circles' bodies and colliders
    listener,      \* _sampleWorld.contactListener == this
    ids,           \* ids[s]: Collider::ID of circle s's collider
    trigger,       \* trigger[s]: Collider::isTrigger of circle s's collider
    overlaps,      \* the world's overlap set from the previous step
    color,         \* circle.color
    collisionNbr,  \* circle.CollisionNbr
    entered        \* history: the non-trigger pairs that began in the last step

vars == <<live, listener, ids, trigger, overlaps, color, collisionNbr, entered>>

-----------------------------------------------------------------------------
LivePairs == IF live THEN Pair ELSE {}

(* The event variant is trigger when either side is a trigger.             *)
IsTriggerPair(p) == \E x \in p : trigger[x]

Init ==
    /\ live = FALSE
    /\ listener = FALSE
    /\ ids = [s \in Slot |-> NoId]
    /\ trigger = [s \in Slot |-> FALSE]
    /\ overlaps = {}
    /\ color = [s \in Slot |-> NoColour]
    /\ collisionNbr = [s \in Slot |-> 0]
    /\ entered = {}

(* Mutants of CreatedId: currentID++ dropped, every collider gets ID 0;    *)
(* ID = ++currentID.                                                       *)
CreatedIdNoIncrement(s) == 0
CreatedIdPreIncrement(s) == s

(* The ID CreateCircle gives circle s: currentID++ from a local 0.         *)
CreatedId(s) == s - 1

(* CreateCircle: per circle a body, a random colour and a non-trigger      *)
(* collider with the next ID.                                              *)
CreateCircle ==
    /\ live' = TRUE
    /\ ids' = [s \in Slot |-> CreatedId(s)]
    /\ trigger' = [s \in Slot |-> FALSE]
    /\ color' \in [Slot -> Palette]

(* SampleSetUp: install the listener, then CreateCircle.                   *)
SampleSetUp ==
    /\ listener' = TRUE
    /\ CreateCircle

(* Sample::SetUp: World::Init, then SampleSetUp.                           *)
SetUp ==
    /\ ~live
    /\ SampleSetUp
    /\ UNCHANGED <<overlaps, collisionNbr, entered>>

(* The circles whose collider equals (by ID) one side of pair p.           *)
Matching(p) == {s \in Slot : \E x \in p : ids[x] = ids[s]}

(* What a handler call writes: to the circles' colours and to their      *)
(* CollisionNbr.                                                           *)
Call(colourWrites, nbrWrites) == [color |-> colourWrites, nbr |-> nbrWrites]

(* OnTriggerEnter / OnTriggerExit: CollisionNbr = true / false (1 / 0) for *)
(* the matching circles.                                                   *)
OnTriggerEnter(p) == Call(NoWrite, [s \in Matching(p) |-> 1])
OnTriggerExit(p) == Call(NoWrite, [s \in Matching(p) |-> 0])

(* Mutant of OnCollisionEnter: the loop breaks after the first match.      *)
OnCollisionEnterFirstOnly(p, c) ==
    LET first == CHOOSE s \in Matching(p) : \A t \in Matching(p) : s <= t
    IN  Call([s \in {first} |-> c], NoWrite)

(* OnCollisionEnter: one RandomColor c for the call, given to every        *)
(* matching circle.                                                        *)
OnCollisionEnter(p, c) == Call([s \in Matching(p) |-> c], NoWrite)

(* One event <<kind, p>> handed to the listener; OnCollisionExit is empty. *)
Dispatch(ev, c) ==
    CASE IsTriggerPair(ev[2]) /\ ev[1] = "enter" -> OnTriggerEnter(ev[2])
      [] IsTriggerPair(ev[2]) /\ ev[1] = "exit"  -> OnTriggerExit(ev[2])
      [] ev[1] = "enter"                          -> OnCollisionEnter(ev[2], c)
      [] OTHER                                    -> Call(NoWrite, NoWrite)

(* World::Update (spec): a new overlap set of live pairs; with a listener  *)
(* installed, one event per entered or exited pair in some order; each     *)
(* OnCollisionEnter draws its colour (pick[i]).                            *)
WorldUpdate ==
    \E now \in SUBSET LivePairs :
       LET events == {<<"enter", p>> : p \in now \ overlaps}
                     \cup {<<"exit", p>> : p \in overlaps \ now}
       IN
       /\ overlaps' = now
       /\ entered' = {p \in now \ overlaps : ~IsTriggerPair(p)}
       /\ IF listener
          THEN \E order \in Orderings(events) :
               \E pick \in [DOMAIN order -> Palette] :
                 LET calls == [i \in DOMAIN order |-> Dispatch(order[i], pick[i])]
                 IN  /\ color' = Overwrite(color, [i \in DOMAIN order |-> calls[i].color])
                     /\ collisionNbr' = Overwrite(collisionNbr,
                                                  [i \in DOMAIN order |-> calls[i].nbr])
          ELSE UNCHANGED <<color, collisionNbr>>

(* Sample::SetUpdate: SampleUpdate (shape refresh and ReverseForceOnBorder *)
(* touch only the abstracted motion), then World::Update.                  *)
SetUpdate ==
    /\ live
    /\ WorldUpdate
    /\ UNCHANGED <<live, listener, ids, trigger>>

(* Sample::TearDown: SampleTearDown (listener cleared, circles refilled    *)
(* with default objects), then World::Clear.                               *)
TearDown ==
    /\ listener' = FALSE
    /\ color' = [s \in Slot |-> NoColour]
    /\ collisionNbr' = [s \in Slot |-> 0]
    /\ live' = FALSE
    /\ ids' = [s \in Slot |-> NoId]
    /\ trigger' = [s \in Slot |-> FALSE]
    /\ overlaps' = {}
    /\ entered' = {}

Next == SetUp \/ SetUpdate \/ TearDown

Spec == Init /\ [][Next]_vars

-----------------------------------------------------------------------------
TypeOK ==
    /\ live \in BOOLEAN /\ listener \in BOOLEAN
    /\ ids \in [Slot -> {NoId} \cup 0..(NCircles - 1)]
    /\ trigger \in [Slot -> BOOLEAN]
    /\ overlaps \in SUBSET Pair
    /\ color \in [Slot -> Palette \cup {NoColour}]
    /\ collisionNbr \in [Slot -> {0, 1}]
    /\ entered \in SUBSET Pair

(* When a collision that began in a step is the only one that began for    *)
(* either of its circles, both circles show the one colour                 *)
(* OnCollisionEnter drew for it (an exit event recolours nothing).         *)
LoneCollisionSharesColour ==
    \A p \in entered :
        (\A q \in entered \ {p} : p \cap q = {}) =>
            \A a, b \in p : color[a] = color[b]

(* A step recolours only circles whose collision began in it: the         *)
(* listener's ID comparison never paints a bystander.                      *)
RecolourOnlyOnEnter ==
    [][live /\ live' =>
         \A s \in Slot : color'[s] # color[s] => \E p \in entered' : s \in p
      ]_vars

=============================================================================
