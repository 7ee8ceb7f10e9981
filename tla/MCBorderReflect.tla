-------------------------- MODULE MCBorderReflect --------------------------
(* A 10 x 10 screen with a border of 2, speeds up to 2 and frames of 1 or *)
(* 2 time units: a body can overshoot the border box by up to four units *)
(* and reach a corner with both coordinates past it or on it.             *)
(* MaxCoord is far enough out that it never binds in the model of the     *)
(* code.                                                                   *)
EXTENDS BorderReflect

MCWidth == 10
MCHeight == 10
MCBorder == 2
MCMargin == 3
MCVMax == 2
MCDtMin == 1
MCDtMax == 2

(* A zero-length frame allowed (Timer::DeltaTime returning 0).             *)
MCDtMinZero == 0
MCMaxCoord == 24
=============================================================================
