----------------------------- MODULE RunRecovery -----------------------------
(* internal/watcher/orphan_recovery.go with the spawn of cmd/aoc/cmd_spawn.go: *)
(* every two minutes the daemon walks the run directories of the parcelles,    *)
(* gives an unfinished run that lost its worker a new one, and writes the runs *)
(* off that need none or that died too often.                                  *)
(*                                                                             *)
(* Which workers live is read once per scan from /proc; the journal, the merge *)
(* request watcher's entry and the forge are read run by run afterwards.       *)
(* Workers start, die and finish, merge requests move and the daemon restarts  *)
(* at any step in between.                                                     *)
EXTENDS Naturals, FiniteSets

CONSTANTS
    Run,         \* run IDs, each also the key of its watched merge request
    NoRun,
    Contains,    \* pairs <<a, b>>: a is a substring of b, as strings.Contains
    MaxRetries,  \* maxOrphanRetries, 3
    MaxSpawns, MaxErrors, MaxCrashes   \* environment bounds

ASSUME RunAssumption == NoRun \notin Run
ASSUME ContainsAssumption ==
    Contains \subseteq Run \X Run /\ \A r \in Run : <<r, r>> \in Contains
ASSUME LimitAssumption ==
    /\ MaxRetries \in Nat /\ MaxSpawns \in Nat
    /\ MaxErrors \in Nat /\ MaxCrashes \in Nat

VARIABLES
    journal,  \* journal[r]: "none" until the worker creates the run; its end
    mr,       \* mr[r]: the merge request, as the forge has it
    entry,    \* entry[r]: State of the WatchedMR entry
    procs,    \* procs[r]: live workers of the run
    spawner,  \* the run for which an `aoc spawn` without --force passed its guard
    retries,  \* retries[r]: OrphanRecovery.retries, in memory only
    scan,     \* local variables of OrphanRecovery.Run
    hist,     \* hist[r]: history
    budget    \* environment steps used

vars == <<journal, mr, entry, procs, spawner, retries, scan, hist, budget>>

Ended == {"completed", "failed"}
Done == {"merged", "closed"}

IdleScan == [pc |-> "idle", live |-> {}, over |-> {}, todo |-> {}, cur |-> NoRun]

Init ==
    /\ journal = [r \in Run |-> "none"]
    /\ mr = [r \in Run |-> "none"]
    /\ entry = [r \in Run |-> "absent"]
    /\ procs = [r \in Run |-> 0]
    /\ spawner = NoRun
    /\ retries = [r \in Run |-> 0]
    /\ scan = IdleScan
    /\ hist = [r \in Run |-> [respawns |-> 0, wasted |-> 0, told |-> FALSE,
                              cause |-> "none"]]
    /\ budget = [spawns |-> 0, errors |-> 0, crashes |-> 0]

Use(what, limit) == budget[what] < limit /\ budget' = [budget EXCEPT ![what] = @ + 1]
CallFails == Use("errors", MaxErrors)

At(pc) == scan.pc = pc
Goto(pc) == scan' = [scan EXCEPT !.pc = pc]
NextRun == scan' = [scan EXCEPT !.pc = "next", !.cur = NoRun]

-----------------------------------------------------------------------------
(* OrphanRecovery.Run.  scan.over is history: the runs that had ended, or      *)
(* whose merge request had, when the scan began.                               *)

StartScan ==
    /\ At("idle")
    /\ scan' = [pc |-> "next", live |-> {r \in Run : procs[r] > 0},
                over |-> {r \in Run : mr[r] \in Done \/ journal[r] \in Ended},
                todo |-> Run, cur |-> NoRun]
    /\ UNCHANGED <<journal, mr, entry, procs, spawner, retries, hist, budget>>

(* isRunFinished: a run without a journal counts as finished.                  *)
TakeRun ==
    /\ At("next")
    /\ \E r \in scan.todo :
        scan' = IF journal[r] = "open"
                THEN [scan EXCEPT !.todo = @ \ {r}, !.cur = r, !.pc = "entry"]
                ELSE [scan EXCEPT !.todo = @ \ {r}]
    /\ UNCHANGED <<journal, mr, entry, procs, spawner, retries, hist, budget>>

(* isRunMRDone accepts every key that is part of the run ID or has it as part. *)
Matches(key, r) == <<key, r>> \in Contains \/ <<r, key>> \in Contains

(* Mutant of IsRunMRDone: an entry that is gone counts as merged.              *)
IsEntryGone(r) == \E key \in Run : Matches(key, r) /\ entry[key] # "watched"

IsRunMRDone(r) == \E key \in Run : Matches(key, r) /\ entry[key] = "post_merge"

CheckEntry ==
    /\ At("entry")
    /\ IF IsRunMRDone(scan.cur) THEN Goto("markDone")
       ELSE IF scan.cur \in scan.live THEN NextRun ELSE Goto("forge")
    /\ UNCHANGED <<journal, mr, entry, procs, spawner, retries, hist, budget>>

(* Mutants of Retry and GiveUp: attempts are not counted; a run that died too  *)
(* often is skipped.                                                           *)
RetryUncounted ==
    /\ retries[scan.cur] < MaxRetries
    /\ UNCHANGED retries
    /\ Goto("respawn")

GiveUpSilently ==
    /\ retries[scan.cur] >= MaxRetries
    /\ NextRun
    /\ UNCHANGED retries

Retry ==
    /\ retries[scan.cur] < MaxRetries
    /\ retries' = [retries EXCEPT ![scan.cur] = @ + 1]
    /\ Goto("respawn")

GiveUp ==
    /\ retries[scan.cur] >= MaxRetries
    /\ Goto("notify")
    /\ UNCHANGED retries

(* Mutant of AskForge: a closed merge request does not end its run.            *)
AskForgeMerged ==
    /\ At("forge")
    /\ \/ /\ mr[scan.cur] = "merged"
          /\ Goto("markDone")
          /\ UNCHANGED <<retries, budget>>
       \/ /\ IF mr[scan.cur] = "merged" THEN CallFails ELSE UNCHANGED budget
          /\ Retry \/ GiveUp
    /\ UNCHANGED <<journal, mr, entry, procs, spawner, hist>>

(* runMRState: no answer counts as an open merge request.                      *)
AskForge ==
    /\ At("forge")
    /\ \/ /\ mr[scan.cur] \in Done
          /\ Goto("markDone")
          /\ UNCHANGED <<retries, budget>>
       \/ /\ IF mr[scan.cur] \in Done THEN CallFails ELSE UNCHANGED budget
          /\ Retry \/ GiveUp
    /\ UNCHANGED <<journal, mr, entry, procs, spawner, hist>>

(* `aoc spawn --force` does not look for a live worker.                        *)
Respawn ==
    /\ At("respawn")
    /\ procs' = [procs EXCEPT ![scan.cur] = @ + 1]
    /\ hist' = [hist EXCEPT ![scan.cur].respawns = @ + 1,
                            ![scan.cur].wasted = @ + (IF scan.cur \in scan.over THEN 1 ELSE 0)]
    /\ NextRun
    /\ UNCHANGED <<journal, mr, entry, spawner, retries, budget>>

RespawnFails ==
    /\ At("respawn") /\ CallFails
    /\ NextRun
    /\ UNCHANGED <<journal, mr, entry, procs, spawner, retries, hist>>

NotifyExhausted ==
    /\ At("notify")
    /\ hist' = [hist EXCEPT ![scan.cur].told = TRUE]
    /\ Goto("markExhausted")
    /\ UNCHANGED <<journal, mr, entry, procs, spawner, retries, budget>>

(* markRunCompleted writes RUN_FAILED, also behind a RUN_COMPLETED.            *)
MarkRunCompleted ==
    /\ At("markDone") \/ At("markExhausted")
    /\ journal' = [journal EXCEPT ![scan.cur] = "failed"]
    /\ hist' = [hist EXCEPT ![scan.cur].cause = scan.pc]
    /\ Goto("reap")
    /\ UNCHANGED <<mr, entry, procs, spawner, retries, budget>>

(* reapLiveSession kills the first session that runs it.                       *)
ReapLiveSession ==
    /\ At("reap")
    /\ procs' = [procs EXCEPT ![scan.cur] = IF @ = 0 THEN 0 ELSE @ - 1]
    /\ NextRun
    /\ UNCHANGED <<journal, mr, entry, spawner, retries, hist, budget>>

EndScan ==
    /\ At("next") /\ scan.todo = {}
    /\ scan' = IdleScan
    /\ UNCHANGED <<journal, mr, entry, procs, spawner, retries, hist, budget>>

-----------------------------------------------------------------------------
(* `aoc spawn` by the issue watcher or the conductor: the guard, and then      *)
(* everything up to the tmux session.                                          *)

SpawnGuard ==
    /\ spawner = NoRun
    /\ \E r \in Run : procs[r] = 0 /\ spawner' = r
    /\ Use("spawns", MaxSpawns)
    /\ UNCHANGED <<journal, mr, entry, procs, retries, scan, hist>>

SpawnStart ==
    /\ spawner # NoRun
    /\ procs' = [procs EXCEPT ![spawner] = @ + 1]
    /\ spawner' = NoRun
    /\ UNCHANGED <<journal, mr, entry, retries, scan, hist, budget>>

-----------------------------------------------------------------------------
(* The workers, the forge, the merge request watcher and the daemon.           *)

CreateRun ==
    /\ \E r \in Run :
        /\ procs[r] > 0 /\ journal[r] = "none"
        /\ journal' = [journal EXCEPT ![r] = "open"]
    /\ UNCHANGED <<mr, entry, procs, spawner, retries, scan, hist, budget>>

OpenMR ==
    /\ \E r \in Run :
        /\ procs[r] > 0 /\ journal[r] = "open" /\ mr[r] = "none"
        /\ mr' = [mr EXCEPT ![r] = "opened"]
        /\ entry' = [entry EXCEPT ![r] = "watched"]
    /\ UNCHANGED <<journal, procs, spawner, retries, scan, hist, budget>>

(* RUN_COMPLETED, or the RUN_FAILED of a process that throws.                  *)
CompleteRun ==
    /\ \E r \in Run, end \in Ended :
        /\ procs[r] > 0 /\ journal[r] = "open"
        /\ journal' = [journal EXCEPT ![r] = end]
    /\ UNCHANGED <<mr, entry, procs, spawner, retries, scan, hist, budget>>

WorkerEnds ==
    /\ \E r \in Run : procs[r] > 0 /\ procs' = [procs EXCEPT ![r] = @ - 1]
    /\ UNCHANGED <<journal, mr, entry, spawner, retries, scan, hist, budget>>

(* A request that is reopened afterwards is not modelled.                      *)
FinishMR ==
    /\ \E r \in Run, to \in Done :
        mr[r] = "opened" /\ mr' = [mr EXCEPT ![r] = to]
    /\ UNCHANGED <<journal, entry, procs, spawner, retries, scan, hist, budget>>

(* MRWatcher: a merge is followed on the target branch or the entry goes, a    *)
(* closed one goes.  The worker it reaps then is one of WorkerEnds.            *)
WatchMR ==
    /\ \E r \in Run :
        \/ entry[r] = "watched" /\ mr[r] = "merged" /\ entry' = [entry EXCEPT ![r] = "post_merge"]
        \/ entry[r] = "watched" /\ mr[r] \in Done /\ entry' = [entry EXCEPT ![r] = "absent"]
        \/ entry[r] = "post_merge" /\ entry' = [entry EXCEPT ![r] = "absent"]
    /\ UNCHANGED <<journal, mr, procs, spawner, retries, scan, hist, budget>>

DaemonRestarts ==
    /\ scan' = IdleScan
    /\ retries' = [r \in Run |-> 0]
    /\ Use("crashes", MaxCrashes)
    /\ UNCHANGED <<journal, mr, entry, procs, spawner, hist>>

-----------------------------------------------------------------------------
Scan ==
    \/ StartScan \/ TakeRun \/ CheckEntry \/ AskForge \/ Respawn \/ RespawnFails
    \/ NotifyExhausted \/ MarkRunCompleted \/ ReapLiveSession \/ EndScan

Environment ==
    \/ SpawnGuard \/ SpawnStart \/ CreateRun \/ OpenMR \/ CompleteRun \/ WorkerEnds
    \/ FinishMR \/ WatchMR \/ DaemonRestarts

Next == Scan \/ Environment

Spec == Init /\ [][Next]_vars

(* tick() starts a scan every two minutes and a scan does not stop.            *)
FairSpec == Spec /\ WF_vars(Scan)

-----------------------------------------------------------------------------
(* Every table has its type, and the scan has a run at hand when it needs one. *)
TypeOK ==
    /\ journal \in [Run -> {"none", "open"} \cup Ended]
    /\ mr \in [Run -> {"none", "opened"} \cup Done]
    /\ entry \in [Run -> {"absent", "watched", "post_merge"}]
    /\ procs \in [Run -> Nat] /\ spawner \in Run \cup {NoRun}
    /\ retries \in [Run -> 0..MaxRetries]
    /\ scan.live \subseteq Run /\ scan.todo \subseteq Run
    /\ scan.pc \in {"idle", "next", "entry", "forge", "respawn", "notify",
                    "markDone", "markExhausted", "reap"}
    /\ scan.pc \in {"idle", "next"} \/ scan.cur \in Run

(* isRunMRDone, runMRState and notifyExhausted: a run that the scan writes off *)
(* is one whose own merge request is merged or closed, or one whose failure    *)
(* the conductor was told of.                                                  *)
WrittenOffForCause ==
    \A r \in Run :
        /\ hist[r].cause = "markDone" => mr[r] \in Done
        /\ hist[r].cause = "markExhausted" => hist[r].told

(* maxOrphanRetries: a daemon gives a run so many workers and no more.         *)
BoundedRespawns ==
    \A r \in Run : hist[r].respawns <= MaxRetries * (1 + budget.crashes)

(* isRunFinished and runMRState: a run that had ended before the scan began,   *)
(* or whose merge request had been merged or closed, gets no worker from it,   *)
(* unless the forge failed to say so.                                          *)
DoneIsNotRespawned ==
    \A r \in Run : hist[r].wasted > 0 => budget.errors > 0

(* A run is given workers only while it needs them, and so many of them.       *)
RespawnsForCause == BoundedRespawns /\ DoneIsNotRespawned

(* Run: an unfinished run does not stay without a worker.                      *)
OrphanIsHandled ==
    \A r \in Run : []<>~(journal[r] = "open" /\ procs[r] = 0)
=============================================================================
