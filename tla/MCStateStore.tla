---------------------------- MODULE MCStateStore ----------------------------
(* Instances of StateStore.  Goroutines are named after what runs them: two    *)
(* watcher goroutines of the daemon, and an aoc command line process.          *)
EXTENDS StateStore, TLC

CONSTANTS daemon, cli, mrWatcher, orphanRecovery, trackMR, k1, k2

OneProcOwner == mrWatcher :> daemon @@ orphanRecovery :> daemon
TwoProcOwner == mrWatcher :> daemon @@ trackMR :> cli
=============================================================================
