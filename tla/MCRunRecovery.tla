---------------------------- MODULE MCRunRecovery ----------------------------
(* Instances of RunRecovery.                                                   *)
EXTENDS RunRecovery

CONSTANTS api1, none

(* No run ID is part of another one.                                           *)
Distinct == {<<r, r>> : r \in Run}
=============================================================================
