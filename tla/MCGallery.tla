----------------------------- MODULE MCGallery -----------------------------
(***************************************************************************)
(* The upload script and the gallery for TLC: the last request carries the *)
(* picture of the one before it again.                                     *)
(***************************************************************************)
EXTENDS Gallery

MCPictureOf == [r \in 1 .. N |-> IF r = N /\ N > 1 THEN N - 1 ELSE r]
=============================================================================
