---------------------------- MODULE OrderedCalls ----------------------------
(***************************************************************************)
(* World::Update hands the listener one call per event, in an order the   *)
(* spec leaves unspecified, and every handler of the demo scenes only      *)
(* assigns: it sets a field of the objects whose collider matches the      *)
(* event to a value computed before its loop, and reads no field it        *)
(* writes.  A call is therefore described by what it writes, a function    *)
(* from the objects it assigns to the value each receives, and a run of    *)
(* calls leaves each object with the value of the last call that assigns   *)
(* it, or with its old value when none does.                               *)
(*                                                                         *)
(* MCCollisionScene and MCCircleScene check these definitions against the  *)
(* sequential ones (SetToSeqs, and a FoldLeft that applies one call after  *)
(* the other) on every input of their instances.                           *)
(***************************************************************************)
EXTENDS Integers, FiniteSets

(* The orders in which World::Update may make one call for each event of  *)
(* E: every event of E at exactly one position.                            *)
Orderings(E) ==
    {o \in [1..Cardinality(E) -> E] :
        \A e \in E : \E i \in 1..Cardinality(E) :
            /\ o[i] = e
            /\ \A j \in 1..Cardinality(E) : o[j] = e => j = i}

(* The positions of the calls in ws that assign object s.                 *)
Writers(ws, s) == {i \in DOMAIN ws : s \in DOMAIN ws[i]}

(* The last of them.                                                       *)
LastWriter(ws, s) ==
    CHOOSE i \in Writers(ws, s) : \A j \in Writers(ws, s) : j <= i

(* The field after the calls ws, made in order, on its old value old.     *)
Overwrite(old, ws) ==
    [s \in DOMAIN old |->
        IF Writers(ws, s) = {} THEN old[s] ELSE ws[LastWriter(ws, s)][s]]

(* A call that assigns nothing.                                            *)
NoWrite == [s \in {} |-> 0]

=============================================================================
