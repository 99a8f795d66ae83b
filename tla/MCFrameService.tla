---------------------------- MODULE MCFrameService ----------------------------
(***************************************************************************)
(* FrameService for TLC.  A block is named after the variable it was       *)
(* allocated for, and numbered: enough numbers that no allocation has to   *)
(* fail while its earlier blocks live on in the latest frames.             *)
(***************************************************************************)
EXTENDS FrameService

CONSTANT PerVariable

MCBlocks(t, x) == {t} \X {x} \X (1 .. PerVariable)
=============================================================================
