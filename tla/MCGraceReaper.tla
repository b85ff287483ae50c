--------------------------- MODULE MCGraceReaper ---------------------------
(* Instances of GraceReaper.                                                 *)
EXTENDS GraceReaper
=============================================================================
