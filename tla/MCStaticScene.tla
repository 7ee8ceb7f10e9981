--------------------------- MODULE MCStaticScene ---------------------------
(* Model-checking instance of StaticScene: two circles over the ground.    *)
EXTENDS StaticScene

MCNCircles == 2
=============================================================================
