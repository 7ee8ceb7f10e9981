------------------------ MODULE BorderReflect_proofs ------------------------
(***************************************************************************)
(* Proof that a body of the trigger scene never gets two frames' travel   *)
(* past the border box, for every screen, border and speed bound, when     *)
(* frames have a positive length and are short (ShortFrames).              *)
(***************************************************************************)
EXTENDS BorderReflect, TLAPS

(* One frame's longest travel along an axis.                               *)
D == VMax * DtMax

XHi == Width - Border
YHi == Height - Border

(* Before ReverseForceOnBorder: a coordinate on or past a border moves out *)
(* through it (it got there by the last world step).                       *)
Outward(c, v, lo, hi) == (c >= hi => v > 0) /\ (c <= lo => v < 0)

(* After ReverseForceOnBorder fixed an axis: the coordinate is inside the  *)
(* box, and on a border it moves strictly back in.                         *)
Settled(c, v, lo, hi) ==
    /\ lo <= c /\ c <= hi
    /\ c = hi => v < 0
    /\ c = lo => v > 0

(* The inductive invariant.  The Y axis is always fixed by the reflect.    *)
(* The X axis is too, except at a corner, where the Y branch wins and      *)
(* leaves X outside and moving out; the body is then on a Y border moving  *)
(* in, so the next frame takes it strictly inside on Y and the X branch    *)
(* wins that frame: X gets at most two frames' travel out.                 *)
IInv ==
    /\ TypeOK
    /\ phase = "world" =>
         /\ Settled(pos.y, vel.y, Border, YHi)
         /\ \/ Settled(pos.x, vel.x, Border, XHi)
            \/ /\ pos.y \in {Border, YHi}
               /\ Outward(pos.x, vel.x, Border, XHi)
               /\ Excess(pos.x, Border, XHi) < D
    /\ phase = "sample" =>
         /\ Outward(pos.y, vel.y, Border, YHi)
         /\ Excess(pos.y, Border, YHi) < D
         /\ Outward(pos.x, vel.x, Border, XHi)
         /\ \/ Excess(pos.x, Border, XHi) < D
            \/ /\ Border < pos.y /\ pos.y < YHi
               /\ Excess(pos.x, Border, XHi) < 2 * D

-----------------------------------------------------------------------------
(* The move v * dt of one frame is at most one frame's travel, and it has  *)
(* the sign of v and a magnitude of at least one unit when v is nonzero.   *)
LEMMA ProductBounds ==
  ASSUME ShortFrames, NEW v \in -VMax..VMax, NEW dt \in DtMin..DtMax
  PROVE  /\ v * dt \in -D..D
         /\ v > 0 => v * dt >= 1
         /\ v < 0 => v * dt <= -1
         /\ v = 0 => v * dt = 0
BY BoxAssumption DEF ShortFrames, D

(* A coordinate ReverseForceOnBorder settled stays within one frame's      *)
(* travel of the box and, if it ends on or past a border, moves out.       *)
LEMMA SettledMove ==
  ASSUME NEW lo \in Int, NEW hi \in Int, lo < hi, NEW d \in Nat, d >= 1,
         NEW c \in Int, NEW v \in Int, NEW m \in -d..d,
         v > 0 => m >= 1, v < 0 => m <= -1, v = 0 => m = 0,
         Settled(c, v, lo, hi)
  PROVE  /\ Outward(c + m, v, lo, hi)
         /\ Excess(c + m, lo, hi) < d
BY DEF Settled, Outward, Excess

(* From a border it moves strictly inside when a frame's travel is shorter *)
(* than the box.                                                           *)
LEMMA SettledEdgeMove ==
  ASSUME NEW lo \in Int, NEW hi \in Int, NEW d \in Nat, d < hi - lo,
         NEW c \in {lo, hi}, NEW v \in Int, NEW m \in -d..d,
         v > 0 => m >= 1, v < 0 => m <= -1, v = 0 => m = 0,
         Settled(c, v, lo, hi)
  PROVE  lo < c + m /\ c + m < hi
BY DEF Settled

(* A coordinate left moving out gains at most one more frame's travel.     *)
LEMMA OutwardMove ==
  ASSUME NEW lo \in Int, NEW hi \in Int, lo < hi, NEW d \in Nat, d >= 1,
         NEW c \in Int, NEW v \in Int, NEW m \in -d..d,
         v > 0 => m >= 1, v < 0 => m <= -1, v = 0 => m = 0,
         Outward(c, v, lo, hi), Excess(c, lo, hi) < d
  PROVE  /\ Outward(c + m, v, lo, hi)
         /\ Excess(c + m, lo, hi) < 2 * d
BY DEF Outward, Excess

-----------------------------------------------------------------------------
(* The border box is not empty on either axis.                             *)
LEMMA BoxWide == ShortFrames => Border < XHi /\ Border < YHi /\ D >= 1
BY BoxAssumption DEF ShortFrames, XHi, YHi, D

(* A branch that fires after every other fired one is the one that wins.   *)
LEMMA LastFiredIs ==
  ASSUME NEW p, NEW v, NEW k \in Fired(p, v), \A j \in Fired(p, v) : j <= k
  PROVE  LastFired(p, v) = k
<1>1. /\ LastFired(p, v) \in Fired(p, v)
      /\ \A j \in Fired(p, v) : j <= LastFired(p, v)
  BY DEF LastFired
<1>. QED
  BY <1>1 DEF Fired

(* What ReverseForceOnBorder leaves, by where the body is: a Y border wins *)
(* over an X border; a body strictly inside is left alone.                 *)
LEMMA ReflectOutcome ==
  ASSUME TypeOK, ShortFrames, ReverseForceOnBorder
  PROVE  /\ pos.y >= YHi =>
              /\ pos' = [x |-> pos.x, y |-> YHi]
              /\ vel' = [x |-> vel.x, y |-> -vel.y]
         /\ pos.y <= Border =>
              /\ pos' = [x |-> pos.x, y |-> Border]
              /\ vel' = [x |-> vel.x, y |-> -vel.y]
         /\ Border < pos.y /\ pos.y < YHi /\ pos.x <= Border =>
              /\ pos' = [x |-> Border, y |-> pos.y]
              /\ vel' = [x |-> -vel.x, y |-> vel.y]
         /\ Border < pos.y /\ pos.y < YHi /\ pos.x >= XHi =>
              /\ pos' = [x |-> XHi, y |-> pos.y]
              /\ vel' = [x |-> -vel.x, y |-> vel.y]
         /\ Border < pos.y /\ pos.y < YHi /\ Border < pos.x /\ pos.x < XHi =>
              pos' = pos /\ vel' = vel
<1>. DEFINE F == Fired(pos, vel)
<1>0. /\ Border < XHi /\ Border < YHi
      /\ pos \in [x : Int, y : Int] /\ vel \in [x : Int, y : Int]
  BY BoxWide DEF TypeOK, Vec
<1>1. \A i : i \in F <=> \/ (i = 1 /\ pos.x >= XHi) \/ (i = 2 /\ pos.x <= Border)
                         \/ (i = 3 /\ pos.y >= YHi) \/ (i = 4 /\ pos.y <= Border)
  <2>1. /\ Branches(pos, vel)[1].fires = (pos.x >= XHi)
        /\ Branches(pos, vel)[2].fires = (pos.x <= Border)
        /\ Branches(pos, vel)[3].fires = (pos.y >= YHi)
        /\ Branches(pos, vel)[4].fires = (pos.y <= Border)
    BY DEF Branches, XHi, YHi
  <2>2. 1..4 = {1, 2, 3, 4}
    OBVIOUS
  <2>. QED
    BY <2>1, <2>2, Zenon DEF Fired
<1>2. ASSUME pos.y >= YHi
      PROVE  pos' = [x |-> pos.x, y |-> YHi] /\ vel' = [x |-> vel.x, y |-> -vel.y]
  <2>1. 3 \in F /\ \A j \in F : j <= 3
    BY <1>0, <1>1, <1>2, BoxAssumption DEF XHi, YHi
  <2>2. LastFired(pos, vel) = 3 /\ F # {}
    BY <2>1, LastFiredIs
  <2>3. /\ pos' = Branches(pos, vel)[3].p
        /\ vel' = Branches(pos, vel)[3].v
    BY <2>2, Zenon DEF ReverseForceOnBorder
  <2>4. /\ Branches(pos, vel)[3].p = [x |-> pos.x, y |-> YHi]
        /\ Branches(pos, vel)[3].v = [x |-> vel.x, y |-> -vel.y]
    BY DEF Branches, XHi, YHi
  <2>. QED
    BY <2>3, <2>4
<1>3. ASSUME pos.y <= Border
      PROVE  pos' = [x |-> pos.x, y |-> Border] /\ vel' = [x |-> vel.x, y |-> -vel.y]
  <2>1. 4 \in F /\ \A j \in F : j <= 4
    BY <1>0, <1>1, <1>3, BoxAssumption DEF XHi, YHi
  <2>2. LastFired(pos, vel) = 4 /\ F # {}
    BY <2>1, LastFiredIs
  <2>3. /\ pos' = Branches(pos, vel)[4].p
        /\ vel' = Branches(pos, vel)[4].v
    BY <2>2, Zenon DEF ReverseForceOnBorder
  <2>4. /\ Branches(pos, vel)[4].p = [x |-> pos.x, y |-> Border]
        /\ Branches(pos, vel)[4].v = [x |-> vel.x, y |-> -vel.y]
    BY DEF Branches, XHi, YHi
  <2>. QED
    BY <2>3, <2>4
<1>4. ASSUME Border < pos.y, pos.y < YHi, pos.x <= Border
      PROVE  pos' = [x |-> Border, y |-> pos.y] /\ vel' = [x |-> -vel.x, y |-> vel.y]
  <2>1. 2 \in F /\ \A j \in F : j <= 2
    BY <1>0, <1>1, <1>4, BoxAssumption DEF XHi, YHi
  <2>2. LastFired(pos, vel) = 2 /\ F # {}
    BY <2>1, LastFiredIs
  <2>3. /\ pos' = Branches(pos, vel)[2].p
        /\ vel' = Branches(pos, vel)[2].v
    BY <2>2, Zenon DEF ReverseForceOnBorder
  <2>4. /\ Branches(pos, vel)[2].p = [x |-> Border, y |-> pos.y]
        /\ Branches(pos, vel)[2].v = [x |-> -vel.x, y |-> vel.y]
    BY DEF Branches, XHi, YHi
  <2>. QED
    BY <2>3, <2>4
<1>5. ASSUME Border < pos.y, pos.y < YHi, pos.x >= XHi
      PROVE  pos' = [x |-> XHi, y |-> pos.y] /\ vel' = [x |-> -vel.x, y |-> vel.y]
  <2>1. 1 \in F /\ \A j \in F : j <= 1
    BY <1>0, <1>1, <1>5, BoxAssumption DEF XHi, YHi
  <2>2. LastFired(pos, vel) = 1 /\ F # {}
    BY <2>1, LastFiredIs
  <2>3. /\ pos' = Branches(pos, vel)[1].p
        /\ vel' = Branches(pos, vel)[1].v
    BY <2>2, Zenon DEF ReverseForceOnBorder
  <2>4. /\ Branches(pos, vel)[1].p = [x |-> XHi, y |-> pos.y]
        /\ Branches(pos, vel)[1].v = [x |-> -vel.x, y |-> vel.y]
    BY DEF Branches, XHi, YHi
  <2>. QED
    BY <2>3, <2>4
<1>6. ASSUME Border < pos.y, pos.y < YHi, Border < pos.x, pos.x < XHi
      PROVE  pos' = pos /\ vel' = vel
  <2>1. F = {}
    BY <1>0, <1>1, <1>6, BoxAssumption DEF XHi, YHi
  <2>. QED
    BY <2>1 DEF ReverseForceOnBorder
<1>. QED
  BY <1>2, <1>3, <1>4, <1>5, <1>6

-----------------------------------------------------------------------------
(* The constants as the arithmetic of the steps below uses them.           *)
LEMMA Bounds ==
  ASSUME ShortFrames
  PROVE  /\ Border \in Int /\ XHi \in Int /\ YHi \in Int
         /\ Border < XHi /\ Border < YHi
         /\ D \in Nat /\ D >= 1 /\ D < YHi - Border
         /\ 2 * VMax * DtMax = 2 * D
         /\ MaxCoord \in Nat /\ VMax \in Nat
BY BoxAssumption DEF ShortFrames, XHi, YHi, D

LEMMA InitIInv == ShortFrames /\ Init => IInv
<1> SUFFICES ASSUME ShortFrames, Init PROVE IInv
  OBVIOUS
<1>1. /\ Border < pos.y /\ pos.y < YHi /\ Border < pos.x /\ pos.x < XHi
      /\ pos \in [x : Int, y : Int]
  BY BoxAssumption DEF Init, Vec, ShortFrames, XHi, YHi
<1>2. TypeOK
  BY BoxAssumption DEF Init, TypeOK, Vec
<1>. QED
  BY <1>1, <1>2, Bounds DEF Init, IInv, Outward, Excess

(* ReverseForceOnBorder takes a state before it to one after it.          *)
LEMMA ReflectIInv ==
  ASSUME ShortFrames, IInv, ReverseForceOnBorder
  PROVE  IInv'
<1>0. /\ TypeOK /\ phase = "sample" /\ phase' = "world"
      /\ pos \in [x : -MaxCoord..MaxCoord, y : -MaxCoord..MaxCoord]
      /\ vel \in [x : -VMax..VMax, y : -VMax..VMax]
  BY DEF IInv, ReverseForceOnBorder, TypeOK, Vec
<1>1. /\ Outward(pos.y, vel.y, Border, YHi)
      /\ Outward(pos.x, vel.x, Border, XHi)
      /\ \/ Excess(pos.x, Border, XHi) < D
         \/ Border < pos.y /\ pos.y < YHi
  BY <1>0 DEF IInv
<1>2. /\ Border \in Int /\ XHi \in Int /\ YHi \in Int
      /\ Border < XHi /\ Border < YHi /\ D \in Nat
      /\ Border >= 0 /\ XHi <= MaxCoord /\ YHi <= MaxCoord /\ MaxCoord \in Nat
      /\ VMax \in Nat
  BY Bounds, BoxAssumption DEF XHi, YHi
<1>3. CASE pos.y >= YHi
  <2>1. pos' = [x |-> pos.x, y |-> YHi] /\ vel' = [x |-> vel.x, y |-> -vel.y]
    BY <1>0, <1>3, ReflectOutcome
  <2>2. Excess(pos.x, Border, XHi) < D
    BY <1>0, <1>1, <1>2, <1>3
  <2>3. Settled(pos'.y, vel'.y, Border, YHi) /\ pos'.y \in {Border, YHi}
    BY <1>0, <1>1, <1>2, <1>3, <2>1 DEF Outward, Settled
  <2>4. TypeOK'
    BY <1>0, <1>2, <2>1 DEF TypeOK, Vec
  <2>5. /\ Outward(pos'.x, vel'.x, Border, XHi)
        /\ Excess(pos'.x, Border, XHi) < D
    BY <1>1, <2>1, <2>2
  <2>. QED
    BY <1>0, <2>3, <2>4, <2>5 DEF IInv
<1>4. CASE pos.y <= Border
  <2>1. pos' = [x |-> pos.x, y |-> Border] /\ vel' = [x |-> vel.x, y |-> -vel.y]
    BY <1>0, <1>4, ReflectOutcome
  <2>2. Excess(pos.x, Border, XHi) < D
    BY <1>0, <1>1, <1>2, <1>4
  <2>3. Settled(pos'.y, vel'.y, Border, YHi) /\ pos'.y \in {Border, YHi}
    BY <1>0, <1>1, <1>2, <1>4, <2>1 DEF Outward, Settled
  <2>4. TypeOK'
    BY <1>0, <1>2, <2>1 DEF TypeOK, Vec
  <2>5. /\ Outward(pos'.x, vel'.x, Border, XHi)
        /\ Excess(pos'.x, Border, XHi) < D
    BY <1>1, <2>1, <2>2
  <2>. QED
    BY <1>0, <2>3, <2>4, <2>5 DEF IInv
<1>5. CASE Border < pos.y /\ pos.y < YHi /\ pos.x <= Border
  <2>1. pos' = [x |-> Border, y |-> pos.y] /\ vel' = [x |-> -vel.x, y |-> vel.y]
    BY <1>0, <1>5, ReflectOutcome
  <2>2. Settled(pos'.y, vel'.y, Border, YHi) /\ Settled(pos'.x, vel'.x, Border, XHi)
    BY <1>0, <1>1, <1>2, <1>5, <2>1 DEF Outward, Settled
  <2>3. TypeOK'
    BY <1>0, <1>2, <2>1 DEF TypeOK, Vec
  <2>. QED
    BY <1>0, <2>2, <2>3 DEF IInv
<1>6. CASE Border < pos.y /\ pos.y < YHi /\ pos.x >= XHi
  <2>1. pos' = [x |-> XHi, y |-> pos.y] /\ vel' = [x |-> -vel.x, y |-> vel.y]
    BY <1>0, <1>6, ReflectOutcome
  <2>2. Settled(pos'.y, vel'.y, Border, YHi) /\ Settled(pos'.x, vel'.x, Border, XHi)
    BY <1>0, <1>1, <1>2, <1>6, <2>1 DEF Outward, Settled
  <2>3. TypeOK'
    BY <1>0, <1>2, <2>1 DEF TypeOK, Vec
  <2>. QED
    BY <1>0, <2>2, <2>3 DEF IInv
<1>7. CASE Border < pos.y /\ pos.y < YHi /\ Border < pos.x /\ pos.x < XHi
  <2>1. pos' = pos /\ vel' = vel
    BY <1>0, <1>7, ReflectOutcome
  <2>. QED
    BY <1>0, <1>2, <1>7, <2>1 DEF IInv, TypeOK, Vec, Settled
<1>. QED
  BY <1>0, <1>2, <1>3, <1>4, <1>5, <1>6, <1>7

(* World::Update's integration takes a state after the reflect to one      *)
(* before the next.                                                        *)
LEMMA WorldIInv ==
  ASSUME ShortFrames, IInv, WorldStep
  PROVE  IInv'
<1>0. /\ TypeOK /\ phase = "world" /\ phase' = "sample" /\ vel' = vel
      /\ pos \in [x : -MaxCoord..MaxCoord, y : -MaxCoord..MaxCoord]
      /\ vel \in [x : -VMax..VMax, y : -VMax..VMax]
      /\ pos'.x \in -MaxCoord..MaxCoord /\ pos'.y \in -MaxCoord..MaxCoord
  BY DEF IInv, WorldStep, TypeOK, Vec
<1>1. PICK dt \in DtMin..DtMax :
        pos' = [x |-> pos.x + vel.x * dt, y |-> pos.y + vel.y * dt]
  BY DEF WorldStep
<1>. DEFINE mx == vel.x * dt
            my == vel.y * dt
<1>9. /\ pos.x \in Int /\ pos.y \in Int /\ vel.x \in Int /\ vel.y \in Int
      /\ mx \in Int /\ my \in Int
  BY <1>0, <1>1, BoxAssumption
<1>2. /\ Border \in Int /\ XHi \in Int /\ YHi \in Int
      /\ Border < XHi /\ Border < YHi
      /\ D \in Nat /\ D >= 1 /\ D < YHi - Border
  BY Bounds
<1>3. /\ mx \in -D..D /\ (vel.x > 0 => mx >= 1) /\ (vel.x < 0 => mx <= -1)
      /\ (vel.x = 0 => mx = 0)
      /\ my \in -D..D /\ (vel.y > 0 => my >= 1) /\ (vel.y < 0 => my <= -1)
      /\ (vel.y = 0 => my = 0)
  BY <1>0, ProductBounds
<1>4. /\ Settled(pos.y, vel.y, Border, YHi)
      /\ \/ Settled(pos.x, vel.x, Border, XHi)
         \/ /\ pos.y \in {Border, YHi}
            /\ Outward(pos.x, vel.x, Border, XHi)
            /\ Excess(pos.x, Border, XHi) < D
  BY <1>0 DEF IInv
<1>5. /\ Outward(pos.y + my, vel.y, Border, YHi)
      /\ Excess(pos.y + my, Border, YHi) < D
  BY <1>2, <1>3, <1>4, <1>9, SettledMove
<1>6. TypeOK'
  BY <1>0, <1>1 DEF TypeOK, Vec
<1>7. /\ Outward(pos.x + mx, vel.x, Border, XHi)
      /\ \/ Excess(pos.x + mx, Border, XHi) < D
         \/ /\ Border < pos.y + my /\ pos.y + my < YHi
            /\ Excess(pos.x + mx, Border, XHi) < 2 * D
  <2>1. CASE Settled(pos.x, vel.x, Border, XHi)
    BY <1>2, <1>3, <1>9, <2>1, SettledMove
  <2>2. CASE /\ pos.y \in {Border, YHi}
             /\ Outward(pos.x, vel.x, Border, XHi)
             /\ Excess(pos.x, Border, XHi) < D
    <3>1. Border < pos.y + my /\ pos.y + my < YHi
      BY <1>2, <1>3, <1>4, <1>9, <2>2, SettledEdgeMove
    <3>2. /\ Outward(pos.x + mx, vel.x, Border, XHi)
          /\ Excess(pos.x + mx, Border, XHi) < 2 * D
      BY <1>2, <1>3, <1>9, <2>2, OutwardMove
    <3>. QED
      BY <3>1, <3>2
  <2>. QED
    BY <1>4, <2>1, <2>2
<1>. QED
  BY <1>0, <1>1, <1>5, <1>6, <1>7 DEF IInv

LEMMA NextIInv == ShortFrames /\ IInv /\ [Next]_vars => IInv'
<1> SUFFICES ASSUME ShortFrames, IInv, [Next]_vars PROVE IInv'
  OBVIOUS
<1>1. CASE ReverseForceOnBorder
  BY <1>1, ReflectIInv
<1>2. CASE WorldStep
  BY <1>2, WorldIInv
<1>3. CASE UNCHANGED vars
  BY <1>3 DEF IInv, TypeOK, Vec, Settled, Outward, Excess, vars
<1>. QED
  BY <1>1, <1>2, <1>3 DEF Next

LEMMA IInvExcursion == ShortFrames /\ IInv => ExcursionBounded
<1> SUFFICES ASSUME ShortFrames, IInv PROVE ExcursionBounded
  OBVIOUS
<1>1. /\ pos.x \in Int /\ pos.y \in Int /\ phase \in {"sample", "world"}
  BY BoxAssumption DEF IInv, TypeOK, Vec
<1>2. /\ Border \in Int /\ XHi \in Int /\ YHi \in Int
      /\ D \in Nat /\ D >= 1 /\ 2 * VMax * DtMax = 2 * D
  BY Bounds
<1>3. CASE phase = "world"
  BY <1>1, <1>2, <1>3 DEF IInv, Settled, ExcursionBounded, Excess, XHi, YHi
<1>4. CASE phase = "sample"
  BY <1>1, <1>2, <1>4 DEF IInv, ExcursionBounded, Excess, XHi, YHi
<1>. QED
  BY <1>1, <1>3, <1>4

-----------------------------------------------------------------------------
(* ExcursionBounded holds for every screen, border, start margin, speed    *)
(* bound and frame length that satisfy ShortFrames: however the corner     *)
(* case of ReverseForceOnBorder (the Y branch overwriting the X branch's   *)
(* clamp and flip) plays out, a body never gets two frames' travel past    *)
(* the border box.                                                         *)
THEOREM ExcursionBoundedHolds == ShortFrames => (Spec => []ExcursionBounded)
<1> SUFFICES ASSUME ShortFrames PROVE Spec => []ExcursionBounded
  OBVIOUS
<1>1. Init => IInv
  BY InitIInv
<1>2. IInv /\ [Next]_vars => IInv'
  BY NextIInv
<1>3. IInv => ExcursionBounded
  BY IInvExcursion
<1>. QED
  BY <1>1, <1>2, <1>3, PTL DEF Spec

=============================================================================
