----------------------------- MODULE Schedules -----------------------------
(* internal/watcher/scheduler.go and the aoc spawn it starts (cmd_spawn.go):   *)
(* from a due schedule to a running worker.                                    *)
(*                                                                             *)
(* One schedule.  Its n-th firing falls due at some moment of period n (due is *)
(* any moment from which ShouldFire holds afresh, the echo of a weekly job a   *)
(* day later included), and a worker is named after the period in which it is  *)
(* spawned; name, worktree, branch and tmux session are one and the same.  The *)
(* daemon, the aoc process and the collector of finished workers run at their  *)
(* own pace.                                                                   *)
EXTENDS Naturals, FiniteSets

CONSTANTS
    MaxPeriod,   \* bound: periods, and so firings that fall due
    Slot,        \* scheduler passes that may overlap
    MaxFaults    \* bound: restarts, passes over 2 minutes

ASSUME BoundsAssumption == MaxPeriod \in Nat \ {0} /\ MaxFaults \in Nat
ASSUME SlotAssumption == IsFiniteSet(Slot)

VARIABLES
    once,      \* Schedule.Once
    enabled,   \* Schedule.Enabled, in the daemon's memory
    period,    \* the current period
    due,       \* the last firing that fell due, period or period - 1
    served,    \* the last firing that SchedulerRuns has as done
    pass,      \* pass[p]: a run of Scheduler.Run, or an aoc spawn left behind by one
    tree,      \* names with a worktree
    worker,    \* worker[n]: the tmux session n: alive, and still with its worktree
    listed,    \* names with an entry in pinard-agents
    reap,      \* names whose session was killed, and entry and worktree not yet removed
    fires,     \* history: spawns started and those that worked; a name was late
    faults

vars == <<once, enabled, period, due, served, pass, tree, worker, listed, reap, fires, faults>>

Period == 1..MaxPeriod

(* by: "tick" waits for the pass; "late": no more; "orphan": the daemon that   *)
(* started it is gone.                                                         *)
Free == [pc |-> "free", due |-> 0, name |-> 0, by |-> "tick"]
NoWorker == [alive |-> FALSE, home |-> FALSE]

Init ==
    /\ once \in BOOLEAN /\ enabled = TRUE
    /\ period = 1 /\ due = 0 /\ served = 0
    /\ pass = [p \in Slot |-> Free]
    /\ tree = {} /\ listed = {} /\ reap = {}
    /\ worker = [n \in Period |-> NoWorker]
    /\ fires = [all |-> 0, ok |-> 0, late |-> FALSE]
    /\ faults = 0

(* Counters stop above anything the properties tell apart.                     *)
Count(k) == IF k <= MaxPeriod + 2 * MaxFaults THEN k + 1 ELSE k

Fault == faults < MaxFaults /\ faults' = faults + 1

-----------------------------------------------------------------------------
(* The clock.                                                                  *)

DueComes ==
    /\ due < period
    /\ due' = period
    /\ UNCHANGED <<once, enabled, period, served, pass, tree, worker, listed, reap, fires, faults>>

PeriodPasses ==
    /\ due = period /\ period < MaxPeriod
    /\ period' = period + 1
    /\ UNCHANGED <<once, enabled, due, served, pass, tree, worker, listed, reap, fires, faults>>

-----------------------------------------------------------------------------
(* Scheduler.Run, and the aoc spawn it waits for.                              *)

(* Mutant of StartPass: the ticker starts one a minute, whatever runs.         *)
StartPassAnyway(p) ==
    /\ pass[p] = Free
    /\ enabled /\ served < due
    /\ pass' = [pass EXCEPT ![p] = [Free EXCEPT !.pc = "name", !.due = due]]
    /\ UNCHANGED <<once, enabled, period, due, served, tree, worker, listed, reap, fires, faults>>

(* The tick starts no pass while it waits for one; ShouldFire looks back from  *)
(* the pass's own `now` to the last run on record.                             *)
StartPass(p) ==
    /\ pass[p] = Free
    /\ \A q \in Slot : pass[q].pc = "free" \/ pass[q].by # "tick"
    /\ enabled /\ served < due
    /\ pass' = [pass EXCEPT ![p] = [Free EXCEPT !.pc = "name", !.due = due]]
    /\ UNCHANGED <<once, enabled, period, due, served, tree, worker, listed, reap, fires, faults>>

(* Scheduler.spawn: PeriodSuffix of time.Now(), not of the pass's `now`.       *)
NameIt(p) ==
    /\ pass[p].pc = "name"
    /\ pass' = [pass EXCEPT ![p].pc = "tree", ![p].name = period]
    /\ fires' = [fires EXCEPT !.all = Count(@), !.late = @ \/ pass[p].due # period]
    /\ UNCHANGED <<once, enabled, period, due, served, tree, worker, listed, reap, faults>>

(* The worktree and branch of that name, whoever has them, are removed first.  *)
SpawnTree(p) ==
    /\ pass[p].pc = "tree"
    /\ pass' = [pass EXCEPT ![p].pc = "session"]
    /\ tree' = tree \cup {pass[p].name}
    /\ worker' = [worker EXCEPT ![pass[p].name].home = FALSE]
    /\ UNCHANGED <<once, enabled, period, due, served, listed, reap, fires, faults>>

(* git fails, or the project or its branch is not there.                       *)
SpawnFails(p) ==
    /\ pass[p].pc = "tree"
    /\ pass' = [pass EXCEPT ![p].pc = "failed"]
    /\ UNCHANGED <<once, enabled, period, due, served, tree, worker, listed, reap, fires, faults>>

(* tmux refuses a second session of one name.                                  *)
SpawnSession(p) ==
    LET n == pass[p].name IN
    /\ pass[p].pc = "session"
    /\ IF worker[n].alive
         THEN /\ pass' = [pass EXCEPT ![p].pc = "failed"]
              /\ UNCHANGED worker
         ELSE /\ pass' = [pass EXCEPT ![p].pc = "put"]
              /\ worker' = [worker EXCEPT ![n] = [alive |-> TRUE, home |-> n \in tree]]
    /\ UNCHANGED <<once, enabled, period, due, served, tree, listed, reap, fires, faults>>

SpawnPut(p) ==
    /\ pass[p].pc = "put"
    /\ pass' = [pass EXCEPT ![p].pc = "done"]
    /\ listed' = listed \cup {pass[p].name}
    /\ UNCHANGED <<once, enabled, period, due, served, tree, worker, reap, fires, faults>>

Ended(p) ==
    /\ pass[p].pc \in {"done", "failed"}
    /\ pass' = [pass EXCEPT ![p] = Free]
    /\ fires' = IF pass[p].pc = "done" THEN [fires EXCEPT !.ok = Count(@)] ELSE fires

(* Mutant of RecordRun: only a spawn that worked is recorded.                  *)
RecordIfDone(p) ==
    /\ Ended(p)
    /\ pass[p].by # "orphan"
    /\ served' = IF pass[p].pc = "done" THEN pass[p].due ELSE served
    /\ enabled' = (enabled /\ ~(once /\ pass[p].pc = "done"))
    /\ UNCHANGED <<once, period, due, tree, worker, listed, reap, faults>>

(* Mutant of RecordRun: the period by now is recorded, due or not.             *)
RecordPeriod(p) ==
    /\ Ended(p)
    /\ pass[p].by # "orphan"
    /\ served' = period
    /\ enabled' = (enabled /\ ~(once /\ pass[p].pc = "done"))
    /\ UNCHANGED <<once, period, due, tree, worker, listed, reap, faults>>

(* Runs.Update with the pass's own `now`, whether the spawn worked or not and  *)
(* whatever a later pass has recorded; Once is only remembered in memory.      *)
RecordRun(p) ==
    /\ Ended(p)
    /\ pass[p].by # "orphan"
    /\ served' = pass[p].due
    /\ enabled' = (enabled /\ ~(once /\ pass[p].pc = "done"))
    /\ UNCHANGED <<once, period, due, tree, worker, listed, reap, faults>>

OrphanEnds(p) ==
    /\ Ended(p)
    /\ pass[p].by = "orphan"
    /\ UNCHANGED <<once, enabled, period, due, served, tree, worker, listed, reap, faults>>

(* tick: a pass over two minutes is not waited for, and goes on.               *)
GiveUpPass(p) ==
    /\ Fault
    /\ pass[p].pc # "free" /\ pass[p].by = "tick"
    /\ pass' = [pass EXCEPT ![p].by = "late"]
    /\ UNCHANGED <<once, enabled, period, due, served, tree, worker, listed, reap, fires>>

(* The daemon is killed, or re-executes itself for a new configuration: an aoc *)
(* spawn goes on and nobody records it, a teardown stops half way.             *)
DaemonRestart ==
    /\ Fault
    /\ enabled' = TRUE
    /\ pass' = [p \in Slot |->
                  IF pass[p].pc \in {"tree", "session", "put"}
                  THEN [pass[p] EXCEPT !.by = "orphan"] ELSE Free]
    /\ reap' = {}
    /\ UNCHANGED <<once, period, due, served, tree, worker, listed, fires>>

-----------------------------------------------------------------------------
(* The end of a worker (GraceReaper says when).                                *)

WorkerEnds(n) ==
    /\ worker[n].alive
    /\ worker' = [worker EXCEPT ![n] = NoWorker]
    /\ UNCHANGED <<once, enabled, period, due, served, pass, tree, listed, reap, fires, faults>>

(* reapAgentNow: the session first,                                            *)
Kill(n) ==
    /\ n \in listed \ reap
    /\ reap' = reap \cup {n}
    /\ worker' = [worker EXCEPT ![n] = NoWorker]
    /\ UNCHANGED <<once, enabled, period, due, served, pass, tree, listed, fires, faults>>

(* then the entry and the worktree, whoever has them by now.                   *)
Forget(n) ==
    /\ n \in reap
    /\ reap' = reap \ {n}
    /\ listed' = listed \ {n}
    /\ tree' = tree \ {n}
    /\ worker' = [worker EXCEPT ![n].home = FALSE]
    /\ UNCHANGED <<once, enabled, period, due, served, pass, fires, faults>>

-----------------------------------------------------------------------------

Step(p) ==
    \/ StartPass(p) \/ NameIt(p) \/ SpawnTree(p) \/ SpawnSession(p) \/ SpawnPut(p)
    \/ RecordRun(p) \/ OrphanEnds(p)

Next ==
    \/ DueComes \/ PeriodPasses \/ DaemonRestart
    \/ \E p \in Slot : Step(p) \/ SpawnFails(p) \/ GiveUpPass(p)
    \/ \E n \in Period : WorkerEnds(n) \/ Kill(n) \/ Forget(n)

Spec == Init /\ [][Next]_vars

(* The ticker ticks, and every aoc spawn comes to an end.                      *)
FairSpec == Spec /\ \A p \in Slot : WF_vars(Step(p))

-----------------------------------------------------------------------------

Passes == [pc : {"free", "name", "tree", "session", "put", "done", "failed"},
           due : 0..MaxPeriod, name : 0..MaxPeriod, by : {"tick", "late", "orphan"}]

TypeOK ==
    /\ once \in BOOLEAN /\ enabled \in BOOLEAN
    /\ period \in Period /\ due \in {period - 1, period} /\ served \in 0..due
    /\ pass \in [Slot -> Passes]
    /\ tree \subseteq Period /\ listed \subseteq Period /\ reap \subseteq Period
    /\ worker \in [Period -> [alive : BOOLEAN, home : BOOLEAN]]
    /\ fires \in [all : Nat, ok : Nat, late : BOOLEAN]
    /\ faults \in 0..MaxFaults

(* A schedule fires once for each time it falls due, and a Once schedule runs  *)
(* once: a restart or a pass over two minutes costs at most two more firings   *)
(* (the second because a late pass records its older `now` over a newer one).  *)
BoundedFires ==
    /\ fires.all <= due + 2 * faults
    /\ once => fires.ok <= 1 + 2 * faults

(* Whatever fails, a firing that fell due is served or made up for.            *)
DueIsServed == \A d \in Period : due >= d ~> served >= d \/ ~enabled

(* A running worker loses its worktree under its feet only when a firing was   *)
(* run twice, or was named after a later period than the one it fell due in.   *)
WipedForCause == [][\A n \in Period :
    worker[n].home /\ worker'[n].alive /\ ~worker'[n].home
    => faults > 0 \/ fires.late]_vars

(* A schedule runs for a reason, and takes nothing from a worker without one.  *)
FiresForCause == [](TypeOK /\ BoundedFires) /\ WipedForCause
=============================================================================
