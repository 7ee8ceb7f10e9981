--------------------------- MODULE SampleManager ---------------------------
(***************************************************************************)
(* The demo harness (src/main.cpp, src/samples/src/SampleManager.cpp):     *)
(* InitSDL and ImguiInit set up the first scene, then Run loops over       *)
(* frames: poll events, ImguiUpdate (scene combo, the Launch button that   *)
(* tears the old scene down and sets the new one up, the active scene's    *)
(* SetUpdate), Render; DeInit after a quit event.                          *)
(*                                                                         *)
(* The trigger scene is the TriggerScene component, driven through its     *)
(* SetUp / SetUpdate / TearDown; the four other scenes are abstracted to   *)
(* whether their world is populated.  The Launch branch runs over several  *)
(* steps, one per call it makes, in the code's order.                      *)
(***************************************************************************)
EXTENDS Integers, Sequences

CONSTANTS NCircles, NRects

(* The trigger scene's sizes (TriggerScene's CountsAssumption).            *)
ASSUME ManagerAssumption == NCircles \in Nat /\ NRects \in Nat

(* _items, in the code's order; _item_current indexes it from 0.           *)
Items == <<"Planets", "Trigger", "Collision", "CollisionStatic",
           "CollisionWithRect">>
Scenes == {Items[i] : i \in 1..Len(Items)}
OtherScenes == Scenes \ {"Trigger"}

VARIABLES
    pc,               \* where the main thread is in main / Run / ImguiUpdate
    quit,             \* Run's local quit flag
    itemCurrent,      \* _item_current
    sceneLaunchName,  \* _sceneLaunchName
    oldScene,         \* ImguiUpdate's local oldScene
    up,               \* up[sc]: scene sc's world is populated (sc # Trigger)
    live, listener, ids, trigger, overlaps, collisionNbr, color, prevOverlaps

triggerVars == <<live, listener, ids, trigger, overlaps, collisionNbr, color,
                 prevOverlaps>>
vars == <<pc, quit, itemCurrent, sceneLaunchName, oldScene, up, triggerVars>>

TS == INSTANCE TriggerScene

(* Whether scene sc's world holds its objects.                             *)
Live(sc) == IF sc = "Trigger" THEN live ELSE up[sc]

LiveScenes == {sc \in Scenes : Live(sc)}

-----------------------------------------------------------------------------
(* sc.SetUp(), sc.SetUpdate(), sc.TearDown() for any of the five scenes.    *)
SceneSetUp(sc) ==
    IF sc = "Trigger"
    THEN TS!SetUp /\ UNCHANGED up
    ELSE up' = [up EXCEPT ![sc] = TRUE] /\ UNCHANGED triggerVars

SceneSetUpdate(sc) ==
    IF sc = "Trigger"
    THEN TS!SetUpdate /\ UNCHANGED up
    ELSE UNCHANGED <<up>> /\ UNCHANGED triggerVars

SceneTearDown(sc) ==
    IF sc = "Trigger"
    THEN TS!TearDown /\ UNCHANGED up
    ELSE up' = [up EXCEPT ![sc] = FALSE] /\ UNCHANGED triggerVars

-----------------------------------------------------------------------------
(* Static construction: nothing set up, _item_current = 0 and              *)
(* _sceneLaunchName = _items[1] (the trigger scene).                       *)
Init ==
    /\ pc = "init"
    /\ quit = FALSE
    /\ itemCurrent = 0
    /\ sceneLaunchName = Items[2]
    /\ oldScene = Items[2]
    /\ up = [sc \in OtherScenes |-> FALSE]
    /\ TS!Init

(* InitSDL fails at SDL_Init, window or renderer creation: main exits.     *)
InitSDLFails ==
    /\ pc = "init"
    /\ pc' = "exit"
    /\ UNCHANGED <<quit, itemCurrent, sceneLaunchName, oldScene, up>>
    /\ UNCHANGED triggerVars

(* InitSDL succeeds and calls ImguiInit, which sets up _sceneLaunchName.   *)
ImguiInit ==
    /\ pc = "init"
    /\ pc' = "poll"
    /\ SceneSetUp(sceneLaunchName)
    /\ UNCHANGED <<quit, itemCurrent, sceneLaunchName, oldScene>>

(* Run: drain SDL events; an SDL_QUIT sets quit, the frame still runs.     *)
PollEvents ==
    /\ pc = "poll"
    /\ pc' = "ui"
    /\ quit' \in {quit, TRUE}
    /\ UNCHANGED <<itemCurrent, sceneLaunchName, oldScene, up>>
    /\ UNCHANGED triggerVars

(* Mutant of ChooseScene: the combo is given one item more than _items    *)
(* holds.                                                                  *)
ChooseSceneCountPlusOne ==
    /\ pc = "ui"
    /\ pc' = "update"
    /\ itemCurrent' \in 0..Len(Items)
    /\ UNCHANGED <<quit, sceneLaunchName, oldScene, up>>
    /\ UNCHANGED triggerVars

(* ImguiUpdate: the combo may change _item_current; without a click on    *)
(* Launch the frame goes on to the active scene's update.                  *)
ChooseScene ==
    /\ pc = "ui"
    /\ pc' = "update"
    /\ itemCurrent' \in 0..(Len(Items) - 1)
    /\ UNCHANGED <<quit, sceneLaunchName, oldScene, up>>
    /\ UNCHANGED triggerVars

(* Mutant of Launch: oldScene read after _sceneLaunchName is assigned.     *)
LaunchReadingNewName ==
    /\ pc = "ui"
    /\ pc' = "teardown"
    /\ itemCurrent' \in 0..(Len(Items) - 1)
    /\ sceneLaunchName' = Items[itemCurrent' + 1]
    /\ oldScene' = sceneLaunchName'
    /\ UNCHANGED <<quit, up>>
    /\ UNCHANGED triggerVars

(* The Launch button: remember the playing scene, make the combo's item   *)
(* the one to play.                                                        *)
Launch ==
    /\ pc = "ui"
    /\ pc' = "teardown"
    /\ itemCurrent' \in 0..(Len(Items) - 1)
    /\ oldScene' = sceneLaunchName
    /\ sceneLaunchName' = Items[itemCurrent' + 1]
    /\ UNCHANGED <<quit, up>>
    /\ UNCHANGED triggerVars

(* Mutant of LaunchTearDown: relaunching the playing scene skips TearDown. *)
LaunchTearDownOnlyOnChange ==
    /\ pc = "teardown"
    /\ pc' = "setup"
    /\ IF oldScene # sceneLaunchName
       THEN SceneTearDown(oldScene)
       ELSE UNCHANGED <<up>> /\ UNCHANGED triggerVars
    /\ UNCHANGED <<quit, itemCurrent, sceneLaunchName, oldScene>>

(* Launch, continued: the old scene's TearDown.                            *)
LaunchTearDown ==
    /\ pc = "teardown"
    /\ pc' = "setup"
    /\ SceneTearDown(oldScene)
    /\ UNCHANGED <<quit, itemCurrent, sceneLaunchName, oldScene>>

(* Launch, continued: the new scene's SetUp.                               *)
LaunchSetUp ==
    /\ pc = "setup"
    /\ pc' = "update"
    /\ SceneSetUp(sceneLaunchName)
    /\ UNCHANGED <<quit, itemCurrent, sceneLaunchName, oldScene>>

(* End of ImguiUpdate: SetUpdate of the scene _sceneLaunchName names.      *)
UpdateScene ==
    /\ pc = "update"
    /\ pc' = "render"
    /\ SceneSetUpdate(sceneLaunchName)
    /\ UNCHANGED <<quit, itemCurrent, sceneLaunchName, oldScene>>

(* Mutant of Render: the loop condition is not re-tested after a frame.    *)
RenderIgnoringQuit ==
    /\ pc = "render"
    /\ pc' = "poll"
    /\ UNCHANGED <<quit, itemCurrent, sceneLaunchName, oldScene, up>>
    /\ UNCHANGED triggerVars

(* Render draws the active scene (reads only); the loop ends after a quit. *)
Render ==
    /\ pc = "render"
    /\ pc' = IF quit THEN "deinit" ELSE "poll"
    /\ UNCHANGED <<quit, itemCurrent, sceneLaunchName, oldScene, up>>
    /\ UNCHANGED triggerVars

(* DeInit shuts ImGui and SDL down; main returns.                          *)
DeInit ==
    /\ pc = "deinit"
    /\ pc' = "exit"
    /\ UNCHANGED <<quit, itemCurrent, sceneLaunchName, oldScene, up>>
    /\ UNCHANGED triggerVars

(* The process has exited.                                                 *)
Exited == pc = "exit" /\ UNCHANGED vars

Next ==
    \/ InitSDLFails \/ ImguiInit \/ PollEvents \/ ChooseScene \/ Launch
    \/ LaunchTearDown \/ LaunchSetUp \/ UpdateScene \/ Render \/ DeInit
    \/ Exited

Spec == Init /\ [][Next]_vars

(* The main thread never blocks: SDL_PollEvent returns at once and every   *)
(* call of a frame returns, so a step that stays enabled is taken.         *)
FairSpec == Spec /\ WF_vars(Next)

-----------------------------------------------------------------------------
TypeOK ==
    /\ pc \in {"init", "poll", "ui", "teardown", "setup", "update", "render",
               "deinit", "exit"}
    /\ quit \in BOOLEAN
    /\ itemCurrent \in 0..(Len(Items) - 1)
    /\ sceneLaunchName \in Scenes
    /\ oldScene \in Scenes
    /\ up \in [OtherScenes -> BOOLEAN]
    /\ TS!TypeOK

(* Between Launch's calls and once the frame loop runs, exactly one scene  *)
(* world is populated and it is the one _sceneLaunchName names, the one    *)
(* that ImguiUpdate updates and Render draws: Launch tears down the scene  *)
(* that was playing, not the one just chosen.                              *)
OnlyLaunchedSceneLive ==
    pc \in {"poll", "ui", "update", "render", "deinit"} =>
        LiveScenes = {sceneLaunchName}

(* SetUp is only ever called on a scene whose world is empty, also when    *)
(* Launch relaunches the scene that is playing (CreateObjects on a         *)
(* populated world would add a second set of objects with the same IDs).   *)
SetUpOnEmptyWorld ==
    pc = "setup" => ~Live(sceneLaunchName)

(* After SDL_QUIT has been seen, the frame being run completes and the     *)
(* process reaches the end of main (through DeInit), whatever the user    *)
(* chose or launched in that frame.                                        *)
QuitLeadsToExit == quit ~> pc = "exit"

=============================================================================
