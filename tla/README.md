# Formal models of MiaouEngine's sample harness and demo scenes

The repository holds the demo programs of a 2D physics engine: `src/main.cpp`
and `SampleManager` (an SDL/ImGui window with a scene chooser), the `Sample`
base class, and five scenes (`PlanetsSample`, `TriggerSample`,
`CollisionSample`, `CollisionStaticSample`, `CollisionWithRectSample`). The
engine itself (`World`, bodies, colliders, the quadtree, contact dispatch) is
not under `src/`; it is described by `spec.md`, and the parts of it the scenes
depend on are modelled from that text (marked `spec_modelled` in
`PROJECT.json`).

## 1. Inventory

### Components and how they interact

| Component | Source | State | Operations |
|---|---|---|---|
| main / SampleManager | `src/main.cpp`, `SampleManager.{h,cpp}` | `_item_current`, `_sceneLaunchName`, `oldScene` (a local of the Launch branch), Run's `quit`, the five scene objects | `InitSDL` (three failure exits, then `ImguiInit` which sets up the initial scene), `Run` (poll events, `Update` = `ImguiUpdate`, `Render`, loop until quit), the Launch branch of `ImguiUpdate` (tear down `oldScene`, set up `_sceneLaunchName`), the `SetUpdate` of the playing scene, `DeInit` |
| Sample | `Sample.{h,cpp}` | `_sampleWorld`, `_bodyRefs`, `_colRefs`, `_timer` | `SetUp` = timer start, `World::Init`, `SampleSetUp`; `SetUpdate` = `SampleUpdate`, `World::Update(dt)`; `TearDown` = `SampleTearDown`, clear refs, `World::Clear` |
| TriggerSample | `TriggerSample.{h,cpp}` | `circles`, `rectangles` (body / collider refs, colour, `CollisionNbr`) | `CreateObjects` (IDs from one `currentID++` counter, every collider a trigger), `SampleUpdate` (colour from counter, then `ReverseForceOnBorder`), `OnTriggerEnter` / `OnTriggerExit` (++ / -- the counter of every object whose collider equals, by ID, one side of the event), `SampleTearDown` (listener to null, arrays refilled) |
| ReverseForceOnBorder | `TriggerSample.cpp:99`, `CollisionSample.cpp:71`, `CollisionWithRectSample.cpp` | body position, velocity | four border tests on copies of position and velocity |
| Other scenes | `PlanetsSample`, `CollisionSample`, `CollisionStaticSample`, `CollisionWithRectSample` | their arrays and worlds | same lifecycle; gravity, colour exchange on collision, a static ground |
| World (spec) | not in `src/` | bodies, colliders, overlap set, listener | `Init`, `Update(dt)` (integrate, refresh shapes, rebuild quadtree, diff the overlap set and dispatch enter / exit, resolve contacts), `Clear` |
| Display | `Display.{h,cpp}` | none | drawing only |

Everything runs on one thread: the only concurrency is the order of calls
inside a frame and across frames. The listener callbacks run inside
`World::Update`, that is inside `Sample::SetUpdate`, after `SampleUpdate`.

### The hard behaviours

- **Order inside a frame.** `SampleUpdate` reads the counters and paints
  before `World::Update` dispatches this frame's events.
- **Counting by identity.** The listener compares colliders by their
  user-assigned ID. The counters are right only if the IDs are distinct, the
  world drops its overlap set on `Clear`, and the arrays are reset on
  `SampleTearDown`.
- **Scene switching.** The Launch branch tears the old scene down and sets
  the new one up, possibly the same scene. It must read `oldScene` before it
  overwrites `_sceneLaunchName`. `Render` then draws whatever
  `_sceneLaunchName` names; `RenderNodes` reads `tree.nodes[0]`.
- **Stale copies.** `ReverseForceOnBorder` tests and writes from copies of the
  position and velocity taken once. At a corner the later branch undoes the
  earlier one.
- **Numeric edges.** A frame of `dt = 0`, and gravity at `r = 0`. The
  inclusive border tests matter only through the stale copies above.

### Correctness properties per component

- **TriggerSample + dispatch:**
  - each `CollisionNbr` equals the number of colliders the object overlaps;
  - the colour shows overlap (the scene text says so; it holds only one frame
    late).
- **SampleManager:**
  - exactly the launched scene's world is populated whenever the frame loop
    runs;
  - `SetUp` only runs on an empty world;
  - the above survives any sequence of launches.
- **ReverseForceOnBorder:** after it runs, a body is inside the border box
  (false). Weaker, and true for positive `dt`: the body never gets more than
  two frames' travel outside the box.
- **Collision scenes:**
  - two objects that collide take on the same new colour (the scene text
    says so; false when one object begins two collisions at once);
  - a lone new collision does share a colour;
  - no bystander is ever recoloured.
- **CollisionStaticSample:** the static ground has zero inverse mass and is
  never moved by resolution (spec invariant 4; false).

## 2. Plan

Module order, leaves first:

1. `TriggerScene`: the trigger scene with the dispatch half of `World::Update`
   and `World::Clear`. Done, with proofs.
2. `BorderReflect`: one body under `ReverseForceOnBorder` and the force-free
   integrator. Done.
3. `SampleManager`: the harness. It composes `TriggerScene` through
   `INSTANCE` and drives it through `SetUp` / `SetUpdate` / `TearDown`; the
   other four scenes are abstracted to "world populated". Done.
4. `CollisionScene`: `CollisionWithRectSample` (and `CollisionSample`,
   the same code without rectangles) with the collision variant of the
   dispatch, in any order. Done.
5. `StaticScene`: `CollisionStaticSample`'s static ground with the spec's
   integrator and the inverse-mass rule of resolution. Done; planned next is
   a quantitative 1D version of resolution (restitution, impulse) so that
   the circles' bounce can be checked too.
6. `TriggerListener`: the abstract specification of what the trigger scene
   promises (counters are overlap counts, colours show the previous frame's
   overlap). `TriggerScene` implements it through `INSTANCE ... WITH`.
   Done, with a proof.
7. `CircleScene`: `CollisionSample` on its own. It has circles only, and
   its trigger handlers are modelled too. Enter and exit events of both
   variants are dispatched in any order. Done.
8. Liveness: the harness exits after `SDL_QUIT`, and a body outside the
   border box comes back. Checked under weak fairness.

Runs and bounds are described in section 4. Theorems are described in
section 5.

## 3. Modules and their correspondence to the code

### `TriggerScene.tla`

Constants `NCircles`, `NRects` (500 each in the code). A slot is an object:
circles first, then rectangles.

Variables:
- `live` (the world holds the scene's bodies);
- `listener` (`contactListener == this`);
- `ids`, `trigger` (the collider fields);
- `overlaps` (the world's overlap set);
- `collisionNbr`, `color`;
- the history variable `prevOverlaps`.

Actions, each a whole method:
- `SetUp` is `Sample::SetUp`: `SampleSetUp`, which sets the listener and runs
  `CreateObjects`.
- `SetUpdate` is `Sample::SetUpdate`: `SampleUpdate`, then `WorldUpdate`.
  `WorldUpdate` is any new overlap set of live pairs, with one enter per new
  trigger pair and one exit per vanished one. `CountersAfter` and `Hits` are
  the loops of `OnTriggerEnter` / `OnTriggerExit`.
- `TearDown` is `Sample::TearDown`: `SampleTearDown` and `WorldClear`.

Shape refresh and rendering only read state and are left out. `SetUp` is
guarded by `~live`: the harness never sets up a populated scene, which
`SampleManager`'s `SetUpOnEmptyWorld` checks.

### `SampleManager.tla`

`pc` follows the main thread through `main`, `Run` and `ImguiUpdate`:

init → poll → ui → (update | teardown → setup → update) → render → poll | deinit → exit

The Launch branch is split into three steps, in the code's order:
1. `Launch`: the combo value, `oldScene`, `_sceneLaunchName`;
2. `LaunchTearDown`: the if-chain over `oldScene`;
3. `LaunchSetUp`: the if-chain over `_sceneLaunchName`.

The if-chains are the `Scene*` dispatch operators. An `SDL_QUIT` only sets
`quit`; the frame still updates and renders (`PollEvents`, `Render`).
`InitSDLFails` stands for the three early returns of `InitSDL`.

### `BorderReflect.tla`

One body with integer position and velocity on a scaled-down screen.
- `Branches` lists the four tests of `ReverseForceOnBorder` with the vectors
  each writes, all from the copies `p`, `v`. The last branch that fires wins
  (`LastFired`).
- `WorldStep` is the spec's integrator for a force-free Dynamic body:
  `p += v * dt`, with `dt` a number of time units in `DtMin..DtMax`.
  `DtMin = 1` for real frames, and `DtMin = 0` for the zero-length frames the
  spec allows.
- `InBox` says that the body is inside the border box. `ComesBack` says that
  a body outside it is eventually back inside after a world step.

### `TriggerListener.tla`

The abstract trigger scene. It has no IDs, listener or event bookkeeping.
- Variables: `up`, `touching` (the pairs that touch now), `count`, `shown`.
- `Start` paints every object "noTrigger".
- `Frame` takes any new set of touching pairs. Each count becomes the number
  of pairs involving the object, and each colour says whether the object
  touched something in the frame before.
- `Stop` forgets everything.

`TriggerScene` defines `Listener == INSTANCE TriggerListener WITH Obj <- Slot,
up <- live, touching <- overlaps, count <- collisionNbr, shown <- color`.
`ImplementsListener == Listener!Spec` is checked by TLC and proved.

### `CollisionScene.tla`

Same shape as `TriggerScene`: slots, IDs, the overlap set, `color`, and the
history `entered` (the pairs whose collision began in the last step).

- `WorldUpdate` picks a new overlap set, an order for the new pairs
  (`Orderings`, see `OrderedCalls.tla`), and one `RandomColor` per call from
  `Palette`. The colours after the calls are `Overwrite(color, calls)`:
  each object keeps the colour of the last call that paints it.
- `OnCollisionEnter` is the method: the circle loop runs when either side is
  a circle, the rectangle loop when either side is a rectangle, and each loop
  paints the objects whose ID equals one side's.
- `OnCollisionExit` is empty. No collider is a trigger, so the
  `OnTrigger*` methods never run.

### `CircleScene.tla`

`CollisionSample.cpp`. It has the same state as `CollisionScene` for circles
only, plus `trigger` and `collisionNbr`.
- `CreateCircle`: the IDs come from a local `currentID++` restarted on every
  `SetUp`, every collider is a non-trigger, and each colour is a random one.
- `WorldUpdate` builds one event per entered and per exited pair. It
  dispatches all of them in one order (`Orderings`), each with its own
  `RandomColor` draw, through `Dispatch`. A call is a `Call` record of what
  it assigns to `color` and to `CollisionNbr`, and each field after the
  calls is `Overwrite` of its old value:
  - `OnTriggerEnter` / `OnTriggerExit` set `CollisionNbr` to 1 / 0;
  - `OnCollisionEnter` paints the matching circles;
  - `OnCollisionExit` does nothing.

Since `CreateCircle` makes no trigger, the trigger handlers are modelled but
never reached; `collisionNbr` stays 0. The motion (`SampleUpdate`'s shape
refresh and `ReverseForceOnBorder`) is abstracted to "any overlap set". The
border code is `BorderReflect`.

### `OrderedCalls.tla`

The effect of World::Update's dispatch loop on a scene, in closed form. Every
handler of the demo scenes only assigns: it sets a field of the matching
objects to a value drawn before its loop and reads no field it writes. So a
call is the function from the objects it assigns to their new values, and a
run of calls leaves each object with the value of the last call that assigns
it, or its old value when none does.
- `Orderings(E)`: the orders of the events of `E`, each at exactly one
  position;
- `Writers(ws, s)`, `LastWriter(ws, s)`: the calls that assign `s`, and the
  last of them;
- `Overwrite(old, ws)`: the field after the calls.

These definitions are not recursive, so the scenes that use them can carry
theorems. `MCCollisionScene` and `MCCircleScene` check them against the
sequential reference with two `ASSUME`s, evaluated by TLC on every run:
- `Orderings(E) = SetToSeqs(E)` for every set of pairs (or of events) of
  the instance;
- `Overwrite(old, ws) = FoldLeft(ApplyCall, old, ws)`, one call applied after
  the other, for every sequence of up to three calls of the instance.

An `Overwrite` that keeps the first writer instead of the last fails the
second `ASSUME`.

### `StaticScene.tla`

State: the bodies' `kind` and `invMass`, the circles touching the ground, and
whether the ground has been displaced.

- `CreateObjects` is the method: `SetMass(1)` on every body, then the `type`
  assignment.
- `SetUpdate` is `SampleUpdate`'s downward force, then the spec's step:
  - the integrator skips Static bodies;
  - resolution moves each body of an approaching pair by
    `penetration * im_i / im`, which is nonzero exactly when `im_i` is.

## 4. Runs

| Run | Checks | Result |
|---|---|---|
| `trigger_counters` (`MCTriggerScene.cfg`, 2 circles + 2 rectangles, 4097 states) | `TypeOK`, `CounterMatchesOverlaps`, `ColourLagsOneFrame`, `ImplementsListener` (refinement of `TriggerListener`) | pass |
| `trigger_colour` (`MCTriggerScene_colour.cfg`) | `ColourShowsOverlap` | violation in 3 states: SetUp, then a frame whose step makes objects 1 and 2 overlap; they are still red |
| `sample_manager` (`MCSampleManager.cfg`, 1 circle + 2 rectangles, 16032 states) | `TypeOK`, `OnlyLaunchedSceneLive`, `SetUpOnEmptyWorld` | pass |
| `border_excursion` (`MCBorderReflect.cfg`, 10x10 box, border 2, start margin 3, \|v\| <= 2, dt in 1..2) | `ExcursionBounded` | pass |
| `collision_colours` (`MCCollisionScene.cfg`, 2 circles + 2 rectangles, 2 colours under symmetry, 4253 states) | `TypeOK`, `LoneCollisionSharesColour`, `RecolourOnlyOnEnter` (action property) | pass |
| `collision_share` (`MCCollisionScene_share.cfg`) | `CollidersShareColour` | violation: object 1 begins collisions with 2 and 3 in one step and ends with 3's colour |
| `static_ground` (`MCStaticScene_ground.cfg`, 2 circles) | `GroundStaysPut` | violation: after SetUp the ground has inverse mass 1; the first step with a falling circle in contact moves it |
| `border_inside` (`MCBorderReflect_inside.cfg`) | `InsideAfterReflect` | violation: a body crosses a corner (e.g. (3,3) to (1,1) or (-1,-1) with velocity (-2,-2)); the reflect clamps y to the border with the Y branch, which keeps the stale vx = -2 and leaves x outside. The trace TLC prints varies between runs with two workers; each is this mechanism |
| `border_return` (`MCBorderReflect_return.cfg`, dt in 1..2, `FairSpec`, 2202 states) | `ComesBack` | pass |
| `border_zero_frame` (`MCBorderReflect_zeroframe.cfg`, dt in 0..2, `FairSpec`) | `ComesBack` | violation: at a corner, frames of length 0 and 2 alternate; each reflect fires the Y branch again, which keeps the outward vx, so x falls by 4 every two frames for ever (e.g. 1, -3, -7, -11, ...; the printed trace varies between runs) |
| `manager_exit` (`MCSampleManager_exit.cfg`, `FairSpec`, 16032 states) | `QuitLeadsToExit` | pass |
| `circle_colours` (`MCCircleScene.cfg`, 3 circles, 3 colours, 394 states) | `TypeOK`, `LoneCollisionSharesColour`, `RecolourOnlyOnEnter` | pass |

Why the bounds are enough:
- **Trigger scene.** Four objects give six pairs. An object can overlap
  several others at once, of both shapes, and every subset of pairs can
  appear or vanish in one step. An off-by-one or a shared ID shows up with
  two objects. With 2 + 2, the per-loop ID restart (`CreatedIdPerLoop`) makes
  a circle and a rectangle share an ID.
- **Harness.** It has five scenes. Three trigger objects keep the product of
  the state spaces small. Every launch order, relaunch of the same scene and
  quit frame is reached within depth 20.
- **Collision scene.** Two circles and two rectangles give circle-circle,
  circle-rectangle and rectangle-rectangle pairs. An object can begin up to
  three collisions in one step, and every order of up to six calls is
  explored. Two colours tell two draws apart, and they are symmetric.
- **Border box.** With speeds up to 2 and two frame lengths, the body reaches
  both borders of each axis and all four corners. The worst excursion found
  (7 < 2·2·2) shows that the bound is tight. Adding `dt = 0` is the smallest
  change that lets a frame leave the position where the previous reflect put
  it.
- **Circles.** Three circles give three pairs that share circles, so a circle
  can begin two collisions in one step. Exits and enters mix in one order.
  Three colours keep the draws apart. No symmetry is used: the circles'
  IDs are ordered, and the run needs its 394 states.

Every property of a passing run has a mutant in `PROJECT.json`: a plausible
bug in the mapped code (an ID counter restarted per loop, pre-increment,
`>= 0` for `> 0`, arrays not reset on teardown, `oldScene` read after the
assignment, teardown skipped on relaunch, a combo given one item too many,
a pasted `position.X` test). TLC
finds each mutant violating its property.

Fairness. The safety runs use `Spec` and assume nothing. The liveness runs
use `FairSpec == Spec /\ WF_vars(Next)`:
- in `SampleManager`, the main thread's loop never blocks. `PollEvents`
  returns at once, and no step waits on input. So, while the process has not
  exited, some step is always enabled and is taken. What the user does
  (quit, Launch) stays nondeterministic: fairness on `Next` does not force
  any particular choice;
- in `BorderReflect`, the frame loop calls `SetUpdate` every frame, which is
  `SampleUpdate` (the reflect) followed by `World::Update`. Weak fairness
  only says that frames keep coming.

The liveness results:
- `QuitLeadsToExit`: once `quit` is set, `pc` reaches `exit`. The flag is
  re-tested only at the top of `Run`'s loop, after the frame (a Launch
  included) has finished;
- `ComesBack`: a body outside the box is inside it again after some world
  step.

`CHECK_DEADLOCK` is left on: the exited process stutters in `Exited`.

## 5. Proofs (`TriggerScene_proofs.tla`, `SampleManager_proofs.tla`, `BorderReflect_proofs.tla`, `OrderedCalls_proofs.tla`, `CollisionScene_proofs.tla`, `CircleScene_proofs.tla`, checked by tlapm)

Assumption: `CountsAssumption` (both counts are natural numbers, as the
`std::size_t` constants are).

- `TypeCorrect`: `Spec => []TypeOK`.
- `CountersMatch`: `Spec => []CounterMatchesOverlaps`.
- `ColourLags`: `Spec => []ColourLagsOneFrame`.

`CounterMatchesOverlaps` is not inductive alone. A step's enter and exit
events are counted by ID, so the proof needs the inductive invariant `IInv`:

- `TypeOK`;
- `LiveShape`: while live, the listener is installed, the IDs are
  `CreateObjects`' `s - 1`, and every collider is a trigger;
- `DownShape`: while torn down, both overlap sets are empty and every colour
  is "none" (the colour part is needed by the refinement);
- the two properties themselves.

TLC checked `IInv` as an invariant on the 2 + 2 instance before the proof.
The step case `SetUpdate` rests on four lemmas:
- `HitsTouching`: with distinct IDs, the ID comparison counts exactly the
  pairs touching the object;
- `AllTriggerEvents`;
- `TouchingDiff`;
- `CardShift`: |B| = |A| + |B \ A| - |A \ B| for finite sets, from
  `FS_Difference`.

The colour step uses `FS_EmptySet`: a finite set has cardinality 0 exactly
when it is empty.

`ListenerRefinement`: `Spec => ImplementsListener`, for all counts.
- `InitRefines`: the initial states map to `Listener!Init`.
- `NextRefines`: under `IInv` in both states, each step maps to an abstract
  step:
  - `SetUp` maps to `Start`;
  - `SetUpdate` maps to `Frame`, with witness `now = overlaps'`;
  - `TearDown` maps to `Stop`;
  - anything else is a stutter.

  The `Frame` case uses `CounterMatchesOverlaps` and `ColourLagsOneFrame`
  from `IInv`. The instance's `Cardinality` is bridged to the module's by a
  one-line lemma.
- The temporal step combines `Spec => []IInv` with `NextRefines` by PTL.

`SampleManager_proofs.tla` (assumption `ManagerAssumption`: both counts are
naturals) proves three theorems:
- `OnlyLaunchedLive`: `Spec => []OnlyLaunchedSceneLive`.
- `SetUpOnEmpty`: `Spec => []SetUpOnEmptyWorld`.
- `TypeCorrect`: `Spec => []TypeOK`. It combines three invariants:
  - `LaunchInv` (below);
  - `LoopVarsOK`: `quit` is Boolean and `_item_current` indexes `_items`.
    This is a lemma of its own;
  - the trigger scene's `IInv`, carried into the harness by
    `TriggerInvariant`. The harness drives the trigger scene only through
    `SetUp`, `SetUpdate` and `TearDown`. Each harness step is a
    `TriggerScene` step or leaves the scene's variables unchanged
    (`TriggerStep`). So `TriggerScene_proofs`' inductive invariant, used
    through an `INSTANCE`, holds along every harness behaviour.

  `SameTriggerInit`, `SameTriggerNext` and `SameTypeOK` identify the
  harness's instance of `TriggerScene` with the proofs' instance.

The trigger scene's own properties (`CounterMatchesOverlaps`,
`ImplementsListener`) are not restated for the harness. `TriggerStep` shows
that the harness only adds orders of `SetUp`, `SetUpdate` and `TearDown`
that `TriggerScene`'s `Spec` already allows. So those properties carry over
unchanged, and `trigger_counters` already checks them, relaunches included.

All three rest on the inductive invariant `LaunchInv`, which ties `pc` to
the set of live scenes:
- before the first `SetUp`, none is live;
- in the frame loop, exactly `_sceneLaunchName` is live;
- between `LaunchTearDown` and `LaunchSetUp`, exactly `oldScene` is live.

The invariant is needed because `OnlyLaunchedSceneLive` says nothing in the
middle of a Launch, and `SetUpOnEmptyWorld` needs to know what the
tear-down just emptied. `LaunchInv` has one step case per action.

`BorderReflect_proofs.tla` proves `ExcursionBoundedHolds`:
`ShortFrames => (Spec => []ExcursionBounded)`, for every box, border,
margin, speed bound and frame length that `BoxAssumption` allows (naturals,
the margin not below the border, and `MaxCoord`, the model's coordinate
bound, off screen). `ShortFrames` states the frames the property is about.
Each conjunct is needed, and TLC finds a counterexample without it:
- `DtMin >= 1`: a frame has positive length. With zero-length frames,
  `border_zero_frame` shows the body running off at a corner. The code's
  `Timer::DeltaTime` of a real frame is positive;
- `VMax >= 1`;
- `Border < Margin`: bodies start strictly inside the box (100 > 50 in
  the code). With `Border = Margin`, a body on the border with `vy = 0`
  escapes;
- `VMax * DtMax < Height - 2 * Border`: one frame's travel is shorter than
  the box's height (60 px/s over a few ms against hundreds of px).
  Otherwise the Y branch can fire on consecutive frames at opposite
  borders.

`ExcursionBounded` is not inductive. Its proof uses the invariant `IInv`:
- after the reflect (`phase = "world"`), Y is inside its range and moving
  away from a border it sits on. X is the same, or it is at a corner: Y on
  a border, X at most one frame's travel out and still moving out. There
  the Y branch fired last and kept `vx`;
- before the reflect, each coordinate is less than one frame's travel out
  and moving out if past a border. X may be up to two frames' travel out,
  but only if Y is strictly inside: the frame after a corner.

TLC checked `IInv` as an invariant on the MC instance and on two other box
sizes before the proof. The lemmas are:
- `ProductBounds`: `v * dt` lies in `-D..D`, with its sign;
- `SettledMove`, `SettledEdgeMove`, `OutwardMove`: one world step on one
  axis, linear arithmetic;
- `ReflectOutcome`: in each of the five regions (above, below, left,
  right, inside), which branches of `ReverseForceOnBorder` fire and what
  the last one writes.

`ReflectIInv` and `WorldIInv` are the two step cases.

### The collision scenes (`OrderedCalls_proofs`, `CollisionScene_proofs`, `CircleScene_proofs`)

Assumptions: `SceneAssumption` and `CircleSceneAssumption` (the counts are
natural numbers; the palette is finite and nonempty, as `RandomColor`
always returns a colour).

`OrderedCalls_proofs` holds the lemmas about the dispatch loop:
- `LastWriterIsLast`: among calls at positions `1..n`, the calls that assign
  `s`, when there are any, have a last one. The proof applies `WFMin` of
  `WellFoundedInduction` to the distances `n - i`, since `<` on the
  naturals is well founded;
- `OverwriteNone`, `OverwriteOne`, `OverwriteChanged`: an object no call
  assigns keeps its value; one that exactly one call assigns ends with that
  call's value; one whose value changed is assigned by some call;
- `OverwriteType`: when the old values and every written value lie in `V`,
  so do the new ones.

For each scene, both `TypeCorrect` (`Spec => []TypeOK`) and
`LoneCollisionHolds` (`Spec => []LoneCollisionSharesColour`) are proved,
with the action property `RecolourHolds` (`Spec => RecolourOnlyOnEnter`).
Neither property is inductive alone: with stale IDs, a call for one pair
could paint other objects. The inductive invariant `IInv` is:
- `TypeOK`;
- while live, the listener is installed and the IDs are `CreatedId`'s
  `s - 1`; in `CircleScene` also no collider is a trigger;
- while torn down, `entered` is empty.

TLC checked each `IInv` as an invariant on the run's instance before the
proof. The step lemmas say:
- `PaintsPair` / `DispatchPaints` / `EventPaints`: with those IDs, the call
  for an enter event paints exactly the objects of its pair. In
  `CircleScene`, an exit event paints nothing, and with no trigger every
  pair that began is entered;
- `LoneStep`: for an object of a pair that began alone, the writers of its
  colour are exactly the call for that pair, at position `k` of the order
  (`OverwriteOne`). This holds whatever the order is;
- `RecolourStep`: a changed colour has a writer (`OverwriteChanged`), and
  that writer is the call for a pair that began.

Only model-checked:
- that `OrderedCalls`' closed form equals the sequential dispatch
  (`SetToSeqs`, `FoldLeft`). The reference definitions are RECURSIVE, and
  induction over a sequence needs an operator parameter the provers cannot
  instantiate, so the equality is checked by the MC modules' `ASSUME`s
  over the instances' inputs;
- `StaticScene`, whose only property is a violation;
- the liveness properties `QuitLeadsToExit` and `ComesBack`. Liveness under
  fairness and `ENABLED` are outside the prover's reach;
- the violation runs.

## 6. Not modelled, and why

- **Engine internals** (not in `src/`): math, arenas and handles, the
  quadtree, the broad and narrow phases, and the integrator with forces. The
  scenes only see their result: the overlap set, and `p += v * dt` with no
  force.
- **PlanetsSample's gravity.** This is real-valued and out of TLC's reach.
  It is listed as a hazard: a division by zero at r = 0
  (`PlanetsSample.cpp:13`).
  - Every planet starts at least 50 units from the sun, with the speed of a
    circular orbit.
  - Whether r ever reaches 0 is decided by the float integration of that
    orbit. An integer model would decide it by its own rounding.

  `SampleManager` keeps the scene's lifecycle (populated or not).
- **Quantitative contact resolution.** Normals, impulses and restitution are
  not modelled. `StaticScene` keeps only whether a body with nonzero inverse
  mass is moved. The colours of `CollisionStaticSample` are not modelled;
  its `OnCollisionEnter` is the circle loop of `CollisionScene`'s.
- **`ExcursionBounded` with zero-length frames.** The bound holds for real
  frames (`DtMin = 1`). With `dt = 0` there is no bound, as
  `border_zero_frame` shows.
- **CircleScene in the harness.** `SampleManager` abstracts the four other
  scenes to "world populated". `CircleScene`'s properties are proved for
  the scene on its own, under any sequence of `SetUp`, `SetUpdate` and
  `TearDown`. This covers every order in which the harness drives it.
- **Display, ImGui drawing and the scene description window.** These are
  output only.

## 7. Findings

1. `ReverseForceOnBorder` (`TriggerSample.cpp:99-164`, the same code in
   `CollisionSample.cpp:71-104` and `CollisionWithRectSample.cpp`) can leave
   a body outside the border box at a corner. Its header promises it
   "reverses the force on objects that reach the fictive borders". The
   body's excursion stays below two frames' travel when frames have positive
   length. With zero-length frames alternating with real ones, which the
   spec allows, the body never comes back: it drifts out for ever
   (`border_zero_frame`).
2. The trigger scene's colours lag the overlaps by one frame. This
   contradicts the scene description ("Green == overlap"), because
   `SampleUpdate` runs before `World::Update`. `ColourLagsOneFrame` states
   the exact behaviour and is proved.
3. In the collision scenes, an object that begins two collisions in one
   frame keeps only the later colour, so it does not share a colour with its
   first partner. The scene description says "Two objects that collide will
   take on the same new color". `LoneCollisionSharesColour` states what does
   hold.
4. `CollisionStaticSample` makes its ground static by assigning
   `type = STATIC` after `SetMass(1)` (`CollisionStaticSample.cpp:36-39`).
   The ground keeps inverse mass 1, against spec invariant 4. The spec's
   branch-free resolution then displaces the ground whenever a falling
   circle hits it.
