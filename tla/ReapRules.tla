------------------------------ MODULE ReapRules ------------------------------
(* Which workers the garbage collector may take: the decisions of             *)
(* cmd/aoc/cmd_gc.go and cmd/aoc/gc_watch.go on one entry of the              *)
(* pinard-agents bucket.  An entry is a record                                *)
(*   [vignoble, kind, tempo, ephemeral, dated, process, standalone, age,      *)
(*    state, mr, session]                                                     *)
(* kind: "conductor", "reserved" (the regisseur's window) or "worker";        *)
(* dated: the name ends as a scheduled worker's (scheduleNameRe);             *)
(* age: "never" (no lastSeen), or time since the last heartbeat, "fresh",     *)
(* "grace" (at least the grace period) or "ttl" (beyond abandonedTTL);        *)
(* mr: the watched merge request's State, "untracked" without one;            *)
(* session: a tmux session of that name exists.                               *)
EXTENDS Naturals

Vignobles == {"", "ours", "theirs"}
Tempos == {"", "active", "blocked", "awaiting", "completed", "failed"}
Ages == {"never", "fresh", "grace", "ttl"}
States == {"", "running", "stopped", "done"}
MRStates == {"untracked", "", "watched", "post_merge"}

Entries == [vignoble : Vignobles, kind : {"conductor", "reserved", "worker"},
            tempo : Tempos, ephemeral : BOOLEAN, dated : BOOLEAN,
            process : BOOLEAN, standalone : BOOLEAN, age : Ages, state : States,
            mr : MRStates, session : BOOLEAN]

(* hasOpenMR: a tracked entry without a state counts as finished.             *)
HasOpenMR(e) == e.mr \notin {"untracked", "", "post_merge"}

MRIsDone(e) == e.mr = "post_merge"

Foreign(e) == e.vignoble = "theirs"
IsScheduled(e) == e.ephemeral \/ e.dated

(* An entry without lastSeen counts as idle for no time at all.               *)
IdleForGrace(e) == e.age \in {"grace", "ttl"}

(* Mutant of Guarded: a worker in the middle of a turn may be taken.          *)
GuardedIdleOnly(e) ==
    \/ Foreign(e)
    \/ e.kind # "worker"
    \/ HasOpenMR(e)

(* gcWorkers and gcBackstopWorkers: never looked at.                          *)
Guarded(e) ==
    \/ Foreign(e)
    \/ e.kind # "worker"
    \/ e.tempo = "active"
    \/ HasOpenMR(e)

(* gcWorkers: the three criteria, with the grace period reached or not.       *)
Finished(e) == IsScheduled(e) /\ IdleForGrace(e)

(* Mutant of Abandoned: only an entry nobody ever refreshed.                   *)
AbandonedAtBirth(e) ==
    /\ ~e.standalone /\ ~IsScheduled(e) /\ ~e.process
    /\ ~e.session
    /\ e.age = "never"

Abandoned(e) ==
    /\ ~e.standalone /\ ~IsScheduled(e) /\ ~e.process
    /\ ~e.session
    /\ e.age \in {"never", "ttl"}

Stopped(e) == e.state \in {"stopped", "done"} /\ IdleForGrace(e)

SweepReaps(e) ==
    /\ ~Guarded(e)
    /\ e.standalone => e.age = "ttl"
    /\ Finished(e) \/ Abandoned(e) \/ Stopped(e)

(* gcBackstopWorkers: a process worker whose merge request is through.        *)
BackstopReaps(e) ==
    /\ ~Guarded(e)
    /\ e.process /\ MRIsDone(e)
    /\ e.age \in {"never", "ttl"}

(* handle of gc_watch.go: what an update of the entry does to its timer.      *)
WatchVerdict(e) ==
    IF Foreign(e) \/ e.kind # "worker" THEN "ignore"
    ELSE IF e.tempo = "active" THEN "cancel"
    ELSE IF ~IsScheduled(e) THEN "ignore"
    ELSE IF HasOpenMR(e) THEN "cancel"
    ELSE IF e.tempo = "blocked" THEN "schedule" ELSE "ignore"

(* Mutant of GraceReaps: the timer trusts what was known when it was set.     *)
GraceReapsBlindly(e) == ~Foreign(e) /\ IsScheduled(e) /\ ~HasOpenMR(e)

(* fire of gc_watch.go: the check once the grace period is over.              *)
GraceReaps(e) ==
    /\ ~Foreign(e)
    /\ IsScheduled(e) /\ e.tempo = "blocked"
    /\ ~HasOpenMR(e)
=============================================================================
