---------------------------- MODULE StaticScene ----------------------------
(***************************************************************************)
(* The static-ground demo scene (src/samples/src/CollisionStaticSample.cpp)*)
(* with the engine steps it relies on (modelled from the spec): the        *)
(* integrator, which leaves Static bodies alone, and contact resolution,   *)
(* which moves each body of an approaching non-trigger pair along the      *)
(* normal in proportion to its inverse mass, without branching on kind.    *)
(*                                                                         *)
(* Circles fall onto the ground in separate columns (CreateObjects spaces  *)
(* them WIDTH / (CirclesInTheWorld + 1) apart, more than a diameter), so   *)
(* the only contacts are circle-ground.  Positions are abstracted to which *)
(* circles touch the ground and whether the ground has been displaced.     *)
(***************************************************************************)
EXTENDS Integers, FiniteSets

CONSTANT NCircles  \* CollisionStaticSample::CirclesInTheWorld (20)

(* circles[0..] are bodies 1..NCircles; staticRect is created after them.  *)
Circles == 1..NCircles
Ground == NCircles + 1
Body == Circles \cup {Ground}

VARIABLES
    live,         \* the world holds the scene's bodies
    kind,         \* Body::type ("None" once World::Clear freed the body)
    invMass,      \* the body's inverse mass
    contacts,     \* circles overlapping the ground after the last step
    groundMoved   \* the ground is no longer where CreateObjects put it

vars == <<live, kind, invMass, contacts, groundMoved>>

Init ==
    /\ live = FALSE
    /\ kind = [b \in Body |-> "None"]
    /\ invMass = [b \in Body |-> 0]
    /\ contacts = {}
    /\ groundMoved = FALSE

(* SetMass(m), spec 4.3: inverse mass 1 / m; m = 0 is mapped to Static.    *)
InvMassOf(m) == IF m = 0 THEN 0 ELSE 1 \div m

(* CreateObjects: every body gets SetMass(1); the circles' type is then    *)
(* set to DYNAMIC and the ground's to STATIC by plain assignment, which    *)
(* leaves the inverse mass SetMass gave.                                   *)
CreateObjects ==
    /\ invMass' = [b \in Body |-> InvMassOf(1)]
    /\ kind' = [b \in Body |-> IF b = Ground THEN "Static" ELSE "Dynamic"]

(* Sample::SetUp: World::Init, SampleSetUp (listener, CreateObjects).      *)
SetUp ==
    /\ ~live
    /\ live' = TRUE
    /\ CreateObjects
    /\ UNCHANGED <<contacts, groundMoved>>

(* Contact resolution (spec 4.7) of the approaching pairs {c, Ground}:     *)
(* the ground is moved by penetration * im_ground / im, which is nonzero   *)
(* exactly when its inverse mass is.                                       *)
Resolve(approaching) ==
    groundMoved' = (groundMoved \/ (approaching # {} /\ invMass[Ground] # 0))

(* Sample::SetUpdate: SampleUpdate adds ForceToApply downwards to every    *)
(* circle and refreshes the shapes; World::Update integrates the Dynamic   *)
(* bodies (the Static ground is skipped), finds the circles now touching   *)
(* the ground, dispatches OnCollisionEnter (colours only) and resolves     *)
(* the pairs whose circle is still falling.                                *)
SetUpdate ==
    /\ live
    /\ \E now \in SUBSET Circles :
         /\ contacts' = now
         /\ \E approaching \in SUBSET now : Resolve(approaching)
    /\ UNCHANGED <<live, kind, invMass>>

(* Sample::TearDown: SampleTearDown, then World::Clear frees every body.   *)
TearDown ==
    /\ live' = FALSE
    /\ kind' = [b \in Body |-> "None"]
    /\ invMass' = [b \in Body |-> 0]
    /\ contacts' = {}
    /\ groundMoved' = FALSE

Next == SetUp \/ SetUpdate \/ TearDown

Spec == Init /\ [][Next]_vars

-----------------------------------------------------------------------------
(* Spec invariant 4: a Static body has inverse mass zero, so the            *)
(* integrator and resolution never move it: the ground stays where         *)
(* CreateObjects put it while the scene runs.                              *)
GroundStaysPut == ~groundMoved

=============================================================================
