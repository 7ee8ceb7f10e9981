---------------------------- MODULE MCCircleScene ----------------------------
(* Three circles (three pairs, so a circle can enter two collisions in one *)
(* step) and three colours.                                               *)
EXTENDS CircleScene, SequencesExt

CONSTANTS c1, c2, c3

MCNCircles == 3
MCPalette == {c1, c2, c3}

(* One handler call made after the others, on the colours and counters.  *)
ApplyWrites(old, w) == [s \in DOMAIN old |-> IF s \in DOMAIN w THEN w[s] ELSE old[s]]
ApplyCall(st, call) ==
    [color |-> ApplyWrites(st.color, call.color), nbr |-> ApplyWrites(st.nbr, call.nbr)]

(* What one handler can write: a colour or a CollisionNbr to a set of      *)
(* circles.                                                                *)
MCCalls == {Call([s \in D |-> c], NoWrite) : D \in SUBSET Slot, c \in MCPalette}
           \cup {Call(NoWrite, [s \in D |-> v]) : D \in SUBSET Slot, v \in {0, 1}}

(* World::Update's orders are SequencesExt's SetToSeqs, for every set of   *)
(* enter and exit events.                                                  *)
ASSUME EventOrderingsAreSetToSeqs ==
    \A E \in SUBSET ({"enter", "exit"} \X Pair) : Orderings(E) = SetToSeqs(E)

(* Overwriting each field with the calls' writes is the calls made one     *)
(* after the other, for every run of up to three calls on set-up circles. *)
ASSUME OverwriteIsSequential ==
    LET old == [color |-> [s \in Slot |-> c1], nbr |-> [s \in Slot |-> 0]]
    IN  \A n \in 0..3 : \A ws \in [1..n -> MCCalls] :
            LET final == FoldLeft(ApplyCall, old, ws)
            IN  /\ Overwrite(old.color, [i \in 1..n |-> ws[i].color]) = final.color
                /\ Overwrite(old.nbr, [i \in 1..n |-> ws[i].nbr]) = final.nbr
=============================================================================
