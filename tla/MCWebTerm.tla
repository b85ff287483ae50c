----------------------------- MODULE MCWebTerm -----------------------------
(* Instances of WebTerm.                                                     *)
EXTENDS WebTerm

CONSTANTS v1, v2, r1, r2

(* v1's session is seen by both responders, v2's by the first only.          *)
BothAndOne == {<<r1, v1>>, <<r2, v1>>, <<r1, v2>>}
=============================================================================
