---------------------------- MODULE AtomicStore ----------------------------
(* What internal/state promises its callers: a map from keys to entries in    *)
(* which every mutation takes effect at once and none is forgotten.  An entry  *)
(* is represented by a counter (0: no such key), and bumps is the history: how *)
(* many acknowledged mutations the key has seen since it was last deleted.     *)
EXTENDS Naturals

CONSTANT Key
VARIABLES db, bumps

AtomicInit ==
    /\ db = [k \in Key |-> 0]
    /\ bumps = [k \in Key |-> 0]

AtomicBump(k) ==
    /\ db' = [db EXCEPT ![k] = @ + 1]
    /\ bumps' = [bumps EXCEPT ![k] = @ + 1]

AtomicDelete(k) ==
    /\ db' = [db EXCEPT ![k] = 0]
    /\ bumps' = [bumps EXCEPT ![k] = 0]

AtomicNext == \E k \in Key : AtomicBump(k) \/ AtomicDelete(k)

AtomicSpec == AtomicInit /\ [][AtomicNext]_<<db, bumps>>

(* The stored entry shows every acknowledged mutation.                         *)
AtomicExact == \A k \in Key : db[k] = bumps[k]
=============================================================================
