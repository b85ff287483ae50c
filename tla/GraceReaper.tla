---------------------------- MODULE GraceReaper ----------------------------
(* The end of a scheduled worker: what pi-extension/worker publishes of its    *)
(* turns, and how blockedGraceWatcher (gc_watch.go) and the sweeps of          *)
(* cmd_gc.go decide from that, and from the merge request, that it is done.    *)
(*                                                                             *)
(* One name, which may be spawned again.  The worker's publications, the aoc   *)
(* that spawned it, the watcher's timers and the merge request watcher all     *)
(* run at their own pace and meet in one entry of the pinard-agents bucket.    *)
EXTENDS Naturals

CONSTANTS
    MaxSpawns,     \* bound: workers spawned under the name
    MaxTurns,      \* bound: turns of each of them
    MaxFailures    \* bound: restarts of the daemon, workers that die

ASSUME ReaperAssumption == MaxSpawns \in Nat /\ MaxTurns \in Nat /\ MaxFailures \in Nat

VARIABLES
    dated,    \* the name matches scheduleNameRe
    spawns,   \* workers spawned so far
    put,      \* aoc spawn has not written its entry yet
    agent,    \* the tmux session and the pi agent in it
    sent,     \* sent[l]: a publishState between its get and its put
    entry,    \* the entry in pinard-agents
    mr,       \* the worker's merge request, as the watcher tracks it
    timer,    \* blockedGraceWatcher.pending
    stray,    \* a timer runs that is no longer in pending
    teardown, \* how far a teardown is
    failures

gc == <<timer, stray, teardown>>
reaperVars == <<dated, spawns, put, agent, sent, entry, mr, gc, failures>>

Lane == {"turn", "beat"}
Nothing == [tempo |-> "none"]

Rules == INSTANCE ReapRules

(* turn: in the middle of one; steady: a heartbeat of this turn has landed.    *)
Dead == [alive |-> FALSE, turn |-> FALSE, steady |-> FALSE, turns |-> 0]

ReaperInit ==
    /\ dated \in BOOLEAN
    /\ spawns = 0 /\ put = FALSE
    /\ agent = Dead
    /\ sent = [l \in Lane |-> Nothing]
    /\ entry = Nothing
    /\ mr = "untracked"
    /\ timer = "none" /\ stray = FALSE /\ teardown = "none"
    /\ failures = 0

Failure == failures < MaxFailures /\ failures' = failures + 1

-----------------------------------------------------------------------------
(* aoc spawn: the session, then the entry.                                     *)

SpawnAgent ==
    /\ ~agent.alive /\ ~put
    /\ spawns < MaxSpawns
    /\ spawns' = spawns + 1
    /\ agent' = [Dead EXCEPT !.alive = TRUE]
    /\ put' = TRUE
    /\ UNCHANGED <<dated, sent, entry, mr, gc, failures>>

(* Without lastSeen, over what the worker may have published by now.           *)
PutEntry ==
    /\ put
    /\ put' = FALSE
    /\ entry' = [tempo |-> "active", ephemeral |-> TRUE, age |-> "never"]
    /\ UNCHANGED <<dated, spawns, agent, sent, mr, gc, failures>>

-----------------------------------------------------------------------------
(* The worker.  publishState reads the entry, keeps what it does not own, and  *)
(* writes; the handlers of a turn wait for it, heartbeats do not.              *)

Publication(tempo) ==
    [tempo |-> tempo, ephemeral |-> entry # Nothing /\ entry.ephemeral,
     turn |-> IF agent.turn THEN agent.turns ELSE 0]

TurnStarts ==
    /\ agent.alive /\ ~agent.turn /\ agent.turns < MaxTurns
    /\ sent["turn"] = Nothing
    /\ agent' = [agent EXCEPT !.turn = TRUE, !.steady = FALSE, !.turns = @ + 1]
    /\ sent' = [sent EXCEPT !["turn"] = Publication("active")]
    /\ UNCHANGED <<dated, spawns, put, entry, mr, gc, failures>>

TurnEnds ==
    /\ agent.turn
    /\ sent["turn"] = Nothing
    /\ agent' = [agent EXCEPT !.turn = FALSE, !.steady = FALSE]
    /\ sent' = [sent EXCEPT !["turn"] = Publication("blocked")]
    /\ UNCHANGED <<dated, spawns, put, entry, mr, gc, failures>>

(* Mutant of Heartbeat: lastStateTempo is set by turn_end only.                *)
HeartbeatBlocked ==
    /\ agent.alive /\ agent.turns > 0
    /\ sent["beat"] = Nothing
    /\ sent' = [sent EXCEPT !["beat"] = Publication("blocked")]
    /\ UNCHANGED <<dated, spawns, put, agent, entry, mr, gc, failures>>

(* Every minute, with lastStateTempo.                                          *)
Heartbeat ==
    /\ agent.alive /\ agent.turns > 0
    /\ sent["beat"] = Nothing
    /\ sent' = [sent EXCEPT !["beat"] =
                  Publication(IF agent.turn THEN "active" ELSE "blocked")]
    /\ UNCHANGED <<dated, spawns, put, agent, entry, mr, gc, failures>>

Land(l) ==
    LET p == sent[l] IN
    /\ p # Nothing
    /\ entry' = [tempo |-> p.tempo, ephemeral |-> p.ephemeral, age |-> "fresh"]
    /\ sent' = [sent EXCEPT ![l] = Nothing]
    /\ agent' = [agent EXCEPT !.steady =
                    @ \/ (l = "beat" /\ agent.turn /\ p.turn = agent.turns)]
    /\ UNCHANGED <<dated, spawns, put, mr, gc, failures>>

(* What a killed worker had not sent yet.                                      *)
Drop(l) ==
    /\ sent[l] # Nothing /\ ~agent.alive
    /\ sent' = [sent EXCEPT ![l] = Nothing]
    /\ UNCHANGED <<dated, spawns, put, agent, entry, mr, gc, failures>>

(* session_shutdown on "quit".                                                 *)
Quit ==
    /\ agent.alive /\ ~agent.turn /\ agent.turns > 0
    /\ agent' = Dead
    /\ entry' = Nothing
    /\ UNCHANGED <<dated, spawns, put, sent, mr, gc, failures>>

Dies ==
    /\ agent.alive
    /\ Failure
    /\ agent' = Dead
    /\ UNCHANGED <<dated, spawns, put, sent, entry, mr, gc>>

MROpens ==
    /\ agent.turn /\ mr = "untracked"
    /\ mr' = "watched"
    /\ UNCHANGED <<dated, spawns, put, agent, sent, entry, gc, failures>>

MRIsOver ==
    /\ mr = "watched"
    /\ mr' = "post_merge"
    /\ UNCHANGED <<dated, spawns, put, agent, sent, entry, gc, failures>>

-----------------------------------------------------------------------------
(* blockedGraceWatcher, and the startup and daily sweeps.                      *)

(* The entry as the rules read it.                                             *)
Seen == [vignoble |-> "ours", kind |-> "worker", tempo |-> entry.tempo,
         ephemeral |-> entry.ephemeral, dated |-> dated, process |-> FALSE,
         standalone |-> FALSE, age |-> entry.age, state |-> "running", mr |-> mr,
         session |-> agent.alive]

(* The watch brings the newest value of a key: after each write, and of every  *)
(* key with each subscription, which lasts ten minutes.                        *)
Handle ==
    LET verdict == IF entry = Nothing THEN "cancel" ELSE Rules!WatchVerdict(Seen) IN
    /\ timer' = IF verdict = "cancel" THEN "none"
                ELSE IF verdict = "schedule" /\ timer = "none" THEN "armed" ELSE timer
    /\ UNCHANGED <<dated, spawns, put, agent, sent, entry, mr, stray, teardown, failures>>

(* The grace period is minutes, a teardown seconds: none is under way.         *)
Expire ==
    /\ teardown = "none"
    /\ timer = "armed" /\ timer' = "spent"
    /\ teardown' = "due"
    /\ UNCHANGED <<dated, spawns, put, agent, sent, entry, mr, stray, failures>>

StrayExpires ==
    /\ teardown = "none"
    /\ stray /\ stray' = FALSE
    /\ teardown' = "due"
    /\ UNCHANGED <<dated, spawns, put, agent, sent, entry, mr, timer, failures>>

(* Mutant of FireCheck: the fired timer is left in pending.                    *)
FireKeepsPending ==
    /\ teardown = "due"
    /\ teardown' = IF entry # Nothing /\ Rules!GraceReaps(Seen) THEN "condemned" ELSE "none"
    /\ UNCHANGED <<dated, spawns, put, agent, sent, entry, mr, timer, stray, failures>>

(* Mutant of FireCheck: the entry is not looked at again.                      *)
FireBlind ==
    /\ teardown = "due"
    /\ stray' = (stray \/ timer = "armed")
    /\ timer' = "none"
    /\ teardown' = IF entry # Nothing THEN "condemned" ELSE "none"
    /\ UNCHANGED <<dated, spawns, put, agent, sent, entry, mr, failures>>

(* fire: what pending holds by now goes, a timer set meanwhile included, which *)
(* runs on; then the entry and the merge request are looked at again.          *)
FireCheck ==
    /\ teardown = "due"
    /\ stray' = (stray \/ timer = "armed")
    /\ timer' = "none"
    /\ teardown' = IF entry # Nothing /\ Rules!GraceReaps(Seen) THEN "condemned" ELSE "none"
    /\ UNCHANGED <<dated, spawns, put, agent, sent, entry, mr, failures>>

SweepCheck ==
    /\ teardown = "none"
    /\ entry # Nothing /\ Rules!SweepReaps(Seen)
    /\ teardown' = "condemned"
    /\ UNCHANGED <<dated, spawns, put, agent, sent, entry, mr, timer, stray, failures>>

(* reapAgentNow: the session first, then the entry.                            *)
KillSession ==
    /\ teardown = "condemned"
    /\ teardown' = "killed"
    /\ agent' = Dead
    /\ UNCHANGED <<dated, spawns, put, sent, entry, mr, timer, stray, failures>>

DeleteEntry ==
    /\ teardown = "killed"
    /\ teardown' = "none"
    /\ entry' = Nothing
    /\ UNCHANGED <<dated, spawns, put, agent, sent, mr, timer, stray, failures>>

(* No heartbeat from a dead worker: its entry gets older.                      *)
Age ==
    /\ ~agent.alive /\ \A l \in Lane : sent[l] = Nothing
    /\ entry # Nothing /\ entry.age \in {"fresh", "grace"}
    /\ entry' = [entry EXCEPT !.age = IF @ = "fresh" THEN "grace" ELSE "ttl"]
    /\ UNCHANGED <<dated, spawns, put, agent, sent, mr, gc, failures>>

(* Timers and a teardown under way are gone; the watch starts anew.            *)
WatchRestart ==
    /\ Failure
    /\ timer' = "none" /\ stray' = FALSE /\ teardown' = "none"
    /\ UNCHANGED <<dated, spawns, put, agent, sent, entry, mr>>

-----------------------------------------------------------------------------

Turns == TurnStarts \/ TurnEnds \/ Quit \/ Dies \/ MROpens
Collect == Expire \/ StrayExpires \/ FireCheck \/ SweepCheck \/ KillSession \/ DeleteEntry

ReaperNext ==
    \/ SpawnAgent \/ PutEntry \/ Turns \/ Heartbeat \/ MRIsOver
    \/ \E l \in Lane : Land(l) \/ Drop(l)
    \/ Handle \/ Collect \/ Age \/ WatchRestart

ReaperSpec == ReaperInit /\ [][ReaperNext]_reaperVars

(* aoc spawn, heartbeats, the connection, the watch and its timers go on.      *)
ReaperFairSpec ==
    /\ ReaperSpec
    /\ WF_reaperVars(PutEntry) /\ WF_reaperVars(Heartbeat) /\ \A l \in Lane : WF_reaperVars(Land(l))
    /\ WF_reaperVars(Handle) /\ WF_reaperVars(Collect) /\ WF_reaperVars(Age)

-----------------------------------------------------------------------------

Sends == [tempo : {"active", "blocked"}, ephemeral : BOOLEAN, turn : 0..MaxTurns]
EntryType == [tempo : {"active", "blocked"}, ephemeral : BOOLEAN,
              age : {"never", "fresh", "grace", "ttl"}]

ReaperTypes ==
    /\ dated \in BOOLEAN /\ spawns \in 0..MaxSpawns /\ put \in BOOLEAN
    /\ agent \in [alive : BOOLEAN, turn : BOOLEAN, steady : BOOLEAN, turns : 0..MaxTurns]
    /\ sent \in [Lane -> Sends \cup {Nothing}]
    /\ entry \in EntryType \cup {Nothing}
    /\ mr \in {"untracked", "watched", "post_merge"}
    /\ timer \in {"none", "armed", "spent"} /\ stray \in BOOLEAN
    /\ teardown \in {"none", "due", "condemned", "killed"}
    /\ failures \in 0..MaxFailures

(* A worker is condemned while idle, or so early in a turn that no heartbeat   *)
(* of that turn is in the bucket: the window in which the publications of two  *)
(* turns and of a heartbeat may overtake each other closes with a heartbeat.   *)
CondemnedIdle ==
    [][teardown # "condemned" /\ teardown' = "condemned" => ~agent.steady]_reaperVars

(* A scheduled worker that has nothing more to do is collected, although the   *)
(* aoc that spawned it or a late heartbeat may write its entry over, timers    *)
(* may be cancelled and lost, and the daemon restarted: unless the mark that   *)
(* it is ephemeral was lost, or it has an open merge request.                  *)
Waiting ==
    /\ agent.alive /\ ~agent.turn /\ agent.turns > 0
    /\ entry # Nothing /\ Rules!IsScheduled(Seen) /\ ~Rules!HasOpenMR(Seen)

IdleIsReaped == Waiting ~> ~Waiting

(* An entry of a worker that is gone does not stay, even if a publication      *)
(* comes after the entry was deleted: unless it says that a turn is going on.  *)
Left ==
    /\ ~agent.alive /\ entry # Nothing /\ entry.tempo # "active"
    /\ ~Rules!HasOpenMR(Seen)

LeftIsForgotten == Left ~> ~Left

(* The collector takes nobody at work.                                         *)
ReapsIdle == []ReaperTypes /\ CondemnedIdle

(* Neither a worker that is done nor the entry of one that is gone stays.      *)
NothingStays == IdleIsReaped /\ LeftIsForgotten
=============================================================================
