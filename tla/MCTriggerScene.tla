--------------------------- MODULE MCTriggerScene ---------------------------
(* Model-checking instance of TriggerScene: two circles and two rectangles  *)
(* give six pairs, so an object can overlap several others at once and a   *)
(* circle can overlap both a circle and a rectangle.                       *)
EXTENDS TriggerScene

MCNCircles == 2
MCNRects == 2
=============================================================================
