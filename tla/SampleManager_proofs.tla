------------------------ MODULE SampleManager_proofs ------------------------
(***************************************************************************)
(* Proofs about SampleManager for every size of the trigger scene: the     *)
(* harness drives the trigger scene only through its SetUp, SetUpdate and  *)
(* TearDown, so TriggerScene's inductive invariant carries over; and the   *)
(* order of Launch's calls keeps exactly the launched scene populated.     *)
(***************************************************************************)
EXTENDS SampleManager, TLAPS

(* TriggerScene's proof module, on the harness's trigger-scene variables.  *)
TSP == INSTANCE TriggerScene_proofs

LEMMA TSPAssumption == TSP!CountsAssumption
BY ManagerAssumption DEF TSP!CountsAssumption

(* TS and TSP are two instances of TriggerScene with the same              *)
(* substitutions: their initial predicates and steps are the same.         *)
LEMMA SameTriggerInit == TS!Init <=> TSP!Init
BY DEF TS!Init, TSP!Init, TS!Slot, TSP!Slot, TS!NoId, TSP!NoId

LEMMA SameTriggerNext == [TS!Next]_TS!vars <=> [TSP!Next]_TSP!vars
BY DEF TS!Next, TSP!Next, TS!vars, TSP!vars, TS!SetUp, TSP!SetUp,
       TS!SampleSetUp, TSP!SampleSetUp, TS!CreateObjects, TSP!CreateObjects,
       TS!CreatedId, TSP!CreatedId, TS!Slot, TSP!Slot, TS!SetUpdate,
       TSP!SetUpdate, TS!SampleUpdate, TSP!SampleUpdate, TS!ShownColour,
       TSP!ShownColour, TS!WorldUpdate, TSP!WorldUpdate, TS!LivePairs,
       TSP!LivePairs, TS!Pair, TSP!Pair, TS!TriggerEvents, TSP!TriggerEvents,
       TS!CountersAfter, TSP!CountersAfter, TS!Hits, TSP!Hits, TS!TearDown,
       TSP!TearDown, TS!SampleTearDown, TSP!SampleTearDown, TS!WorldClear,
       TSP!WorldClear, TS!NoId, TSP!NoId, TS!Cardinality, TSP!Cardinality

(* Every step of the harness is a step of the trigger scene or leaves its  *)
(* variables alone.                                                        *)
LEMMA SceneSetUpStep ==
  ASSUME NEW sc, SceneSetUp(sc) PROVE [TS!Next]_TS!vars
BY DEF SceneSetUp, TS!Next, TS!vars, triggerVars

LEMMA SceneSetUpdateStep ==
  ASSUME NEW sc, SceneSetUpdate(sc) PROVE [TS!Next]_TS!vars
BY DEF SceneSetUpdate, TS!Next, TS!vars, triggerVars

LEMMA SceneTearDownStep ==
  ASSUME NEW sc, SceneTearDown(sc) PROVE [TS!Next]_TS!vars
BY DEF SceneTearDown, TS!Next, TS!vars, triggerVars

LEMMA TriggerStep == [Next]_vars => [TS!Next]_TS!vars
<1> SUFFICES ASSUME [Next]_vars PROVE [TS!Next]_TS!vars
  OBVIOUS
<1>1. CASE ImguiInit
  BY <1>1, SceneSetUpStep DEF ImguiInit
<1>2. CASE LaunchTearDown
  BY <1>2, SceneTearDownStep DEF LaunchTearDown
<1>3. CASE LaunchSetUp
  BY <1>3, SceneSetUpStep DEF LaunchSetUp
<1>4. CASE UpdateScene
  BY <1>4, SceneSetUpdateStep DEF UpdateScene
<1>5. CASE \/ InitSDLFails \/ PollEvents \/ ChooseScene \/ Launch \/ Render
           \/ DeInit \/ Exited \/ UNCHANGED vars
  BY <1>5 DEF InitSDLFails, PollEvents, ChooseScene, Launch, Render, DeInit,
              Exited, vars, TS!vars, triggerVars
<1>. QED
  BY <1>1, <1>2, <1>3, <1>4, <1>5 DEF Next

(* TriggerScene's inductive invariant holds in the harness.                *)
LEMMA TriggerInvariant == Spec => []TSP!IInv
<1>1. Init => TSP!IInv
  BY TSP!InitIInv, TSPAssumption, SameTriggerInit DEF Init
<1>2. TSP!IInv /\ [Next]_vars => TSP!IInv'
  BY TSP!NextIInv, TSPAssumption, TriggerStep, SameTriggerNext
<1>. QED
  BY <1>1, <1>2, PTL DEF Spec

-----------------------------------------------------------------------------
(* The scenes whose worlds are populated, at each point of the frame loop. *)

(* Exactly the scenes of X are populated.                                  *)
LiveIs(X) == \A sc \in Scenes : Live(sc) <=> sc \in X

(* Before ImguiInit and between Launch's TearDown and SetUp no world is    *)
(* populated; during Launch's TearDown only the old scene's; elsewhere in  *)
(* the loop only the launched scene's.                                     *)
LaunchInv ==
    /\ pc \in {"init", "poll", "ui", "teardown", "setup", "update", "render",
               "deinit", "exit"}
    /\ sceneLaunchName \in Scenes /\ oldScene \in Scenes
    /\ up \in [OtherScenes -> BOOLEAN]
    /\ pc \in {"init", "setup"} => LiveIs({})
    /\ pc \in {"poll", "ui", "update", "render", "deinit"} =>
           LiveIs({sceneLaunchName})
    /\ pc = "teardown" => LiveIs({oldScene})

LEMMA ItemsInScenes ==
  ASSUME NEW i \in 0..(Len(Items) - 1) PROVE Items[i + 1] \in Scenes
BY DEF Items, Scenes

(* SetUp of a scene on an empty world populates exactly that scene.        *)
LEMMA SetUpLive ==
  ASSUME NEW sc \in Scenes, up \in [OtherScenes -> BOOLEAN], LiveIs({}),
         SceneSetUp(sc)
  PROVE  LiveIs({sc})' /\ up' \in [OtherScenes -> BOOLEAN]
<1>1. CASE sc = "Trigger"
  <2>1. live' = TRUE /\ up' = up
    BY <1>1 DEF SceneSetUp, TS!SetUp, TS!SampleSetUp, TS!CreateObjects
  <2>. QED
    BY <1>1, <2>1 DEF LiveIs, Live, OtherScenes
<1>2. CASE sc # "Trigger"
  <2>1. up' = [up EXCEPT ![sc] = TRUE] /\ live' = live
    BY <1>2 DEF SceneSetUp, triggerVars
  <2>2. sc \in OtherScenes
    BY <1>2 DEF OtherScenes
  <2>. QED
    BY <2>1, <2>2 DEF LiveIs, Live, OtherScenes
<1>. QED
  BY <1>1, <1>2

(* TearDown of the only populated scene leaves no world populated.         *)
LEMMA TearDownLive ==
  ASSUME NEW sc \in Scenes, up \in [OtherScenes -> BOOLEAN], LiveIs({sc}),
         SceneTearDown(sc)
  PROVE  LiveIs({})' /\ up' \in [OtherScenes -> BOOLEAN]
<1>1. CASE sc = "Trigger"
  <2>1. live' = FALSE /\ up' = up
    BY <1>1 DEF SceneTearDown, TS!TearDown, TS!WorldClear
  <2>. QED
    BY <1>1, <2>1 DEF LiveIs, Live, OtherScenes
<1>2. CASE sc # "Trigger"
  <2>1. up' = [up EXCEPT ![sc] = FALSE] /\ live' = live
    BY <1>2 DEF SceneTearDown, triggerVars
  <2>2. sc \in OtherScenes
    BY <1>2 DEF OtherScenes
  <2>. QED
    BY <2>1, <2>2 DEF LiveIs, Live, OtherScenes
<1>. QED
  BY <1>1, <1>2

(* A scene's SetUpdate populates and frees nothing.                        *)
LEMMA SetUpdateLive ==
  ASSUME NEW sc, NEW X, LiveIs(X), SceneSetUpdate(sc)
  PROVE  LiveIs(X)' /\ up' = up
<1>1. live' = live /\ up' = up
  BY DEF SceneSetUpdate, TS!SetUpdate, triggerVars
<1>. QED
  BY <1>1 DEF LiveIs, Live

LEMMA InitLaunchInv == Init => LaunchInv
<1> SUFFICES ASSUME Init PROVE LaunchInv
  OBVIOUS
<1>1. sceneLaunchName \in Scenes /\ oldScene \in Scenes
  BY DEF Init, Items, Scenes
<1>2. LiveIs({})
  BY DEF Init, TS!Init, LiveIs, Live, OtherScenes
<1>. QED
  BY <1>1, <1>2 DEF Init, LaunchInv

LEMMA NextLaunchInv == LaunchInv /\ [Next]_vars => LaunchInv'
<1> SUFFICES ASSUME LaunchInv, [Next]_vars PROVE LaunchInv'
  OBVIOUS
<1>1. CASE ImguiInit
  <2>1. LiveIs({sceneLaunchName})' /\ up' \in [OtherScenes -> BOOLEAN]
    BY <1>1, SetUpLive DEF ImguiInit, LaunchInv
  <2>. QED
    BY <1>1, <2>1 DEF ImguiInit, LaunchInv
<1>2. CASE Launch
  <2>1. sceneLaunchName' \in Scenes
    BY <1>2, ItemsInScenes DEF Launch
  <2>2. LiveIs({oldScene})'
    BY <1>2 DEF Launch, LaunchInv, LiveIs, Live, triggerVars
  <2>. QED
    BY <1>2, <2>1, <2>2 DEF Launch, LaunchInv
<1>3. CASE LaunchTearDown
  <2>1. LiveIs({})' /\ up' \in [OtherScenes -> BOOLEAN]
    BY <1>3, TearDownLive DEF LaunchTearDown, LaunchInv
  <2>. QED
    BY <1>3, <2>1 DEF LaunchTearDown, LaunchInv
<1>4. CASE LaunchSetUp
  <2>1. LiveIs({sceneLaunchName})' /\ up' \in [OtherScenes -> BOOLEAN]
    BY <1>4, SetUpLive DEF LaunchSetUp, LaunchInv
  <2>. QED
    BY <1>4, <2>1 DEF LaunchSetUp, LaunchInv
<1>5. CASE UpdateScene
  <2>1. LiveIs({sceneLaunchName})' /\ up' = up
    BY <1>5, SetUpdateLive DEF UpdateScene, LaunchInv
  <2>. QED
    BY <1>5, <2>1 DEF UpdateScene, LaunchInv
<1>6. CASE ChooseScene
  BY <1>6 DEF ChooseScene, LaunchInv, LiveIs, Live, triggerVars
<1>7. CASE InitSDLFails
  BY <1>7 DEF InitSDLFails, LaunchInv, LiveIs, Live, triggerVars
<1>8. CASE PollEvents
  BY <1>8 DEF PollEvents, LaunchInv, LiveIs, Live, triggerVars
<1>9. CASE Render
  BY <1>9 DEF Render, LaunchInv, LiveIs, Live, triggerVars
<1>10. CASE DeInit
  BY <1>10 DEF DeInit, LaunchInv, LiveIs, Live, triggerVars
<1>11. CASE Exited \/ UNCHANGED vars
  BY <1>11 DEF Exited, vars, LaunchInv, LiveIs, Live, triggerVars
<1>. QED
  BY <1>1, <1>2, <1>3, <1>4, <1>5, <1>6, <1>7, <1>8, <1>9, <1>10, <1>11
  DEF Next

(* Once the frame loop runs, the one populated world is the scene          *)
(* _sceneLaunchName names, for any scene size and any sequence of          *)
(* launches: Launch tears down the playing scene before setting up the     *)
(* chosen one.                                                             *)
THEOREM OnlyLaunchedLive == Spec => []OnlyLaunchedSceneLive
<1>1. LaunchInv => OnlyLaunchedSceneLive
  BY DEF LaunchInv, OnlyLaunchedSceneLive, LiveIs, LiveScenes
<1>. QED
  BY <1>1, InitLaunchInv, NextLaunchInv, PTL DEF Spec

(* SetUp is only ever called on a scene whose world is empty.              *)
THEOREM SetUpOnEmpty == Spec => []SetUpOnEmptyWorld
<1>1. LaunchInv => SetUpOnEmptyWorld
  BY DEF LaunchInv, SetUpOnEmptyWorld, LiveIs
<1>. QED
  BY <1>1, InitLaunchInv, NextLaunchInv, PTL DEF Spec

-----------------------------------------------------------------------------
(* Type correctness of the harness.                                        *)

LEMMA SameTypeOK == TSP!TypeOK <=> TS!TypeOK
BY DEF TS!TypeOK, TSP!TypeOK, TS!Slot, TSP!Slot, TS!NoId, TSP!NoId,
       TS!Pair, TSP!Pair, TS!Colors, TSP!Colors

(* Run's quit flag and the combo's index keep their types.                 *)
LoopVarsOK == quit \in BOOLEAN /\ itemCurrent \in 0..(Len(Items) - 1)

LEMMA LoopVarsType == Spec => []LoopVarsOK
<1>0. Len(Items) = 5
  BY DEF Items
<1>1. ASSUME Init PROVE LoopVarsOK
  <2>1. quit = FALSE /\ itemCurrent = 0
    BY <1>1 DEF Init
  <2>2. quit \in BOOLEAN
    BY <2>1, Zenon
  <2>3. itemCurrent \in 0..(Len(Items) - 1)
    BY <1>0, <2>1
  <2>. QED
    BY <2>2, <2>3 DEF LoopVarsOK
<1>2. LoopVarsOK /\ [Next]_vars => LoopVarsOK'
  BY DEF LoopVarsOK, Next, vars, InitSDLFails, ImguiInit, PollEvents,
         ChooseScene, Launch, LaunchTearDown, LaunchSetUp, UpdateScene,
         Render, DeInit, Exited
<1>. QED
  BY <1>1, <1>2, PTL DEF Spec

(* Every variable of the harness keeps its type, the trigger scene's       *)
(* included, for any scene size and any sequence of frames and launches.   *)
THEOREM TypeCorrect == Spec => []TypeOK
<1>1. LaunchInv /\ LoopVarsOK /\ TSP!IInv => TypeOK
  BY SameTypeOK DEF LaunchInv, LoopVarsOK, TSP!IInv, TypeOK
<1>. QED
  BY <1>1, LoopVarsType, TriggerInvariant, InitLaunchInv, NextLaunchInv,
     PTL DEF Spec

=============================================================================
