--------------------------- MODULE TriggerListener ---------------------------
(***************************************************************************)
(* What the trigger demo scene promises, stated without counters or IDs:   *)
(* while the scene is up, each frame the world reports a new set of        *)
(* touching pairs; every object's counter is the number of objects it      *)
(* touches now, and the colour it is drawn with says whether it touched    *)
(* anything in the frame before.  Starting the scene paints every object   *)
(* "noTrigger"; stopping it forgets everything.                            *)
(*                                                                         *)
(* TriggerScene implements this specification (see ImplementsListener      *)
(* there): the listener's enter / exit bookkeeping is invisible at this    *)
(* level.                                                                  *)
(***************************************************************************)
EXTENDS Naturals, FiniteSets

CONSTANT Obj   \* the scene's objects

Pair == {{a, b} : a, b \in Obj} \ {{a} : a \in Obj}

VARIABLES
    up,        \* the scene is running
    touching,  \* the pairs of objects that touch in the current frame
    count,     \* the counter shown for each object
    shown      \* the colour each object is drawn with

vars == <<up, touching, count, shown>>

(* The pairs of E that involve object s.                                   *)
Involving(E, s) == {p \in E : s \in p}

Init ==
    /\ up = FALSE
    /\ touching = {}
    /\ count = [s \in Obj |-> 0]
    /\ shown = [s \in Obj |-> "none"]

Start ==
    /\ ~up
    /\ up' = TRUE
    /\ shown' = [s \in Obj |-> "noTrigger"]
    /\ UNCHANGED <<touching, count>>

Frame ==
    /\ up
    /\ \E now \in SUBSET Pair :
         /\ touching' = now
         /\ count' = [s \in Obj |-> Cardinality(Involving(now, s))]
    /\ shown' = [s \in Obj |->
                   IF Involving(touching, s) # {} THEN "onTrigger"
                                                  ELSE "noTrigger"]
    /\ UNCHANGED up

Stop ==
    /\ up' = FALSE
    /\ touching' = {}
    /\ count' = [s \in Obj |-> 0]
    /\ shown' = [s \in Obj |-> "none"]

Next == Start \/ Frame \/ Stop

Spec == Init /\ [][Next]_vars

=============================================================================
