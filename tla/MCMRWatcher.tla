---------------------------- MODULE MCMRWatcher ----------------------------
(* Instances of MRWatcher; each .cfg lets another part of the forge move.      *)
EXTENDS MRWatcher

CONSTANTS s1, p1, none

EveryNote == 1..MaxNote
=============================================================================
