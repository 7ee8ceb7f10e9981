-------------------------- MODULE MCCollisionScene --------------------------
(* Model-checking instance of CollisionScene: two circles and two         *)
(* rectangles give six pairs, so one object can begin several collisions   *)
(* in one step, and circle-rectangle pairs run both loops of               *)
(* OnCollisionEnter.  Two colours are enough to tell two draws apart; they *)
(* are interchangeable.                                                    *)
EXTENDS CollisionScene, TLC, SequencesExt

CONSTANTS c1, c2

MCNCircles == 2
MCNRects == 2
MCPalette == {c1, c2}
MCSymmetry == Permutations(MCPalette)

(* One call made after the others: what it writes replaces the old value. *)
ApplyCall(col, w) == [s \in DOMAIN col |-> IF s \in DOMAIN w THEN w[s] ELSE col[s]]

(* What one OnCollisionEnter can write: one colour to a set of objects.   *)
MCWrites == {[s \in D |-> c] : D \in SUBSET Slot, c \in MCPalette}

(* World::Update's orders are SequencesExt's SetToSeqs: every sequence    *)
(* of the distinct events of E, for every set of new pairs E.             *)
ASSUME OrderingsAreSetToSeqs == \A E \in SUBSET Pair : Orderings(E) = SetToSeqs(E)

(* Overwrite is the calls made one after the other, for every run of up   *)
(* to three calls and an object set before, or not set up.                *)
ASSUME OverwriteIsSequential ==
    \A n \in 0..3 : \A ws \in [1..n -> MCWrites] :
    \A old \in {[s \in Slot |-> NoColour], [s \in Slot |-> c1]} :
        Overwrite(old, ws) = FoldLeft(ApplyCall, old, ws)
=============================================================================
