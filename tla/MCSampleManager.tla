-------------------------- MODULE MCSampleManager --------------------------
(* Model-checking instance of SampleManager: the trigger scene with one     *)
(* circle and two rectangles (three pairs, so an object can overlap two    *)
(* others) under every order of frames, scene choices and relaunches.      *)
EXTENDS SampleManager

MCNCircles == 1
MCNRects == 2
=============================================================================
