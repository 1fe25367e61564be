------------------------------ MODULE MCViewer ------------------------------
(***************************************************************************)
(* The viewer for TLC: a start inside a short list, one beyond every list  *)
(* and a negative one.                                                     *)
(***************************************************************************)
EXTENDS Viewer

MCStarts == {-1, 5, 20}
=============================================================================
