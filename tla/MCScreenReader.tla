--------------------------- MODULE MCScreenReader ---------------------------
(***************************************************************************)
(* Bounds for model checking ScreenReader.                                 *)
(***************************************************************************)
EXTENDS ScreenReader

MCTaskBound == 3
MCAbandonBound == 2
=============================================================================
