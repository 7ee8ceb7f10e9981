--------------------------- MODULE BorderReflect ---------------------------
(***************************************************************************)
(* One body of the trigger scene bouncing inside the screen: each frame,   *)
(* ReverseForceOnBorder (src/samples/src/TriggerSample.cpp, called at the  *)
(* end of SampleUpdate) clamps the body to the border box and reverses the *)
(* velocity component that points out, then World::Update integrates it   *)
(* (modelled from the spec: no force acts in this scene, p += v * dt).     *)
(*                                                                         *)
(* The four border tests read the position and velocity copied once at    *)
(* the top of the loop body, and each fired branch writes a whole vector   *)
(* built from those copies, so the last branch that fires wins.            *)
(* Coordinates are integers on a scaled-down screen; a frame's dt is a     *)
(* number of time units in DtMin..DtMax (Timer::DeltaTime; the spec        *)
(* allows a zero-length frame).                                            *)
(***************************************************************************)
EXTENDS Integers, FiniteSets

CONSTANTS
    Width,     \* Metrics::WIDTH
    Height,    \* Metrics::HEIGHT
    Border,    \* BorderSizeForElements (50 in the code)
    Margin,    \* CreateObjects places bodies in [100, WIDTH - 100]
    VMax,      \* VelocityMaxOnStart (60 in the code)
    DtMin,     \* shortest frame, in time units (0: a zero-length frame)
    DtMax,     \* longest frame, in time units
    MaxCoord   \* model bound: coordinates stay within [-MaxCoord, MaxCoord]

ASSUME BoxAssumption ==
    /\ Border \in Nat /\ Margin \in Nat /\ VMax \in Nat /\ MaxCoord \in Nat
    /\ DtMin \in Nat /\ DtMax \in Nat \ {0} /\ DtMin <= DtMax
    /\ Width \in Nat /\ Height \in Nat
    /\ Border <= Margin
    /\ Margin <= Width - Margin /\ Margin <= Height - Margin
    /\ Width <= MaxCoord /\ Height <= MaxCoord   \* the model bound lies off screen

Vec(X, Y) == [x : X, y : Y]

VARIABLES
    pos,    \* body.Position()
    vel,    \* body.Velocity()
    phase   \* "sample": SampleUpdate runs next; "world": World::Update next

vars == <<pos, vel, phase>>

-----------------------------------------------------------------------------
(* Mutant of Branches: the third test, pasted from the first, still reads *)
(* position.X.                                                             *)
BranchesPastedTest(p, v) ==
    << [fires |-> p.x >= Width - Border,
        p |-> [x |-> Width - Border, y |-> p.y], v |-> [x |-> -v.x, y |-> v.y]],
       [fires |-> p.x <= Border,
        p |-> [x |-> Border, y |-> p.y],         v |-> [x |-> -v.x, y |-> v.y]],
       [fires |-> p.x >= Height - Border,
        p |-> [x |-> p.x, y |-> Height - Border], v |-> [x |-> v.x, y |-> -v.y]],
       [fires |-> p.y <= Border,
        p |-> [x |-> p.x, y |-> Border],         v |-> [x |-> v.x, y |-> -v.y]] >>

(* Mutant of Branches: the top-border branch writes the velocity of the    *)
(* X branches, reversing X instead of Y.                                   *)
BranchesTopFlipsX(p, v) ==
    << [fires |-> p.x >= Width - Border,
        p |-> [x |-> Width - Border, y |-> p.y], v |-> [x |-> -v.x, y |-> v.y]],
       [fires |-> p.x <= Border,
        p |-> [x |-> Border, y |-> p.y],         v |-> [x |-> -v.x, y |-> v.y]],
       [fires |-> p.y >= Height - Border,
        p |-> [x |-> p.x, y |-> Height - Border], v |-> [x |-> -v.x, y |-> v.y]],
       [fires |-> p.y <= Border,
        p |-> [x |-> p.x, y |-> Border],         v |-> [x |-> v.x, y |-> -v.y]] >>

(* ReverseForceOnBorder's four tests, in order, each with the position and *)
(* velocity it writes, all computed from the copies p and v.               *)
Branches(p, v) ==
    << [fires |-> p.x >= Width - Border,
        p |-> [x |-> Width - Border, y |-> p.y], v |-> [x |-> -v.x, y |-> v.y]],
       [fires |-> p.x <= Border,
        p |-> [x |-> Border, y |-> p.y],         v |-> [x |-> -v.x, y |-> v.y]],
       [fires |-> p.y >= Height - Border,
        p |-> [x |-> p.x, y |-> Height - Border], v |-> [x |-> v.x, y |-> -v.y]],
       [fires |-> p.y <= Border,
        p |-> [x |-> p.x, y |-> Border],         v |-> [x |-> v.x, y |-> -v.y]] >>

(* The branches of ReverseForceOnBorder that fire for copies p, v.         *)
Fired(p, v) == {i \in 1..4 : Branches(p, v)[i].fires}

(* The last of them: its writes are the ones that remain.                  *)
LastFired(p, v) ==
    CHOOSE i \in Fired(p, v) : \A j \in Fired(p, v) : j <= i

(* ReverseForceOnBorder for this body.                                     *)
ReverseForceOnBorder ==
    /\ phase = "sample"
    /\ IF Fired(pos, vel) = {}
       THEN UNCHANGED <<pos, vel>>
       ELSE /\ pos' = Branches(pos, vel)[LastFired(pos, vel)].p
            /\ vel' = Branches(pos, vel)[LastFired(pos, vel)].v
    /\ phase' = "world"

(* World::Update's integration of a Dynamic body with no force: velocity   *)
(* unchanged, p += v * dt.                                                 *)
WorldStep ==
    /\ phase = "world"
    /\ \E dt \in DtMin..DtMax :
         pos' = [x |-> pos.x + vel.x * dt, y |-> pos.y + vel.y * dt]
    /\ pos'.x \in -MaxCoord..MaxCoord /\ pos'.y \in -MaxCoord..MaxCoord
    /\ phase' = "sample"
    /\ UNCHANGED vel

(* CreateObjects: a random position away from the edges and a random      *)
(* velocity in [-VelocityMaxOnStart, VelocityMaxOnStart] on each axis.     *)
Init ==
    /\ pos \in Vec(Margin..(Width - Margin), Margin..(Height - Margin))
    /\ vel \in Vec(-VMax..VMax, -VMax..VMax)
    /\ phase = "sample"

Next == ReverseForceOnBorder \/ WorldStep

Spec == Init /\ [][Next]_vars

(* Sample::SetUpdate runs once per frame of SampleManager's loop, which    *)
(* never blocks while the scene is up: a step that stays enabled happens.  *)
FairSpec == Spec /\ WF_vars(Next)

-----------------------------------------------------------------------------
TypeOK ==
    /\ pos \in Vec(-MaxCoord..MaxCoord, -MaxCoord..MaxCoord)
    /\ vel \in Vec(-VMax..VMax, -VMax..VMax)
    /\ phase \in {"sample", "world"}

(* How far c lies outside [lo, hi].                                        *)
Excess(c, lo, hi) == IF c < lo THEN lo - c ELSE IF c > hi THEN c - hi ELSE 0

(* A body never gets two full frames' travel past the border box: one     *)
(* frame to cross it, and at most one more when at a corner the Y branch   *)
(* undoes the X branch; ReverseForceOnBorder always brings it back after.  *)
ExcursionBounded ==
    /\ Excess(pos.x, Border, Width - Border) < 2 * VMax * DtMax
    /\ Excess(pos.y, Border, Height - Border) < 2 * VMax * DtMax

(* The frames ExcursionBounded is about: every frame has a positive length *)
(* (Timer::DeltaTime of a real frame), bodies start strictly inside the    *)
(* border box and with a nonzero speed bound (100 > 50 and 60 in the       *)
(* code), and one frame's travel is shorter than the box's height (60 px/s *)
(* over a frame of a few milliseconds, against a box of hundreds of px).   *)
ShortFrames ==
    /\ DtMin >= 1 /\ VMax >= 1
    /\ Border < Margin
    /\ VMax * DtMax < Height - 2 * Border

(* ReverseForceOnBorder "reverses the force on objects that reach the      *)
(* fictive borders of the screen": after it, the body is inside the        *)
(* border box.                                                             *)
InsideAfterReflect ==
    phase = "world" =>
        /\ Excess(pos.x, Border, Width - Border) = 0
        /\ Excess(pos.y, Border, Height - Border) = 0

(* The body lies inside the border box.                                   *)
InBox ==
    /\ Excess(pos.x, Border, Width - Border) = 0
    /\ Excess(pos.y, Border, Height - Border) = 0

(* A body outside the border box is eventually put back inside it by      *)
(* ReverseForceOnBorder: the corner case (the Y branch undoing the X       *)
(* branch) may delay this by a frame, never for ever.                      *)
ComesBack ==
    ~InBox ~> (phase = "world" /\ InBox)

=============================================================================
