-------------------------- MODULE RunRecoveryProofs --------------------------
(* Proofs about RunRecovery for any number of runs, retries and faults.        *)
EXTENDS RunRecovery, TLAPS

Pc == {"idle", "next", "entry", "forge", "respawn", "notify", "markDone",
       "markExhausted", "reap"}
Cause == {"none", "markDone", "markExhausted"}
ScanRec == [pc : Pc, live : SUBSET Run, over : SUBSET Run, todo : SUBSET Run,
            cur : Run \cup {NoRun}]
HistRec == [respawns : Nat, wasted : Nat, told : BOOLEAN, cause : Cause]
BudgetRec == [spawns : Nat, errors : Nat, crashes : Nat]

TypeInv ==
    /\ journal \in [Run -> {"none", "open"} \cup Ended]
    /\ mr \in [Run -> {"none", "opened"} \cup Done]
    /\ entry \in [Run -> {"absent", "watched", "post_merge"}]
    /\ procs \in [Run -> Nat] /\ spawner \in Run \cup {NoRun}
    /\ retries \in [Run -> 0..MaxRetries]
    /\ scan \in ScanRec /\ (scan.pc \in {"idle", "next"} \/ scan.cur \in Run)
    /\ hist \in [Run -> HistRec]
    /\ budget \in BudgetRec

-----------------------------------------------------------------------------
(* The helpers keep their types.                                               *)

(* Use counts one field of the budget up.                                      *)
LEMMA UseType ==
    ASSUME budget \in BudgetRec, NEW limit \in Nat,
           NEW what \in {"spawns", "errors", "crashes"}, Use(what, limit)
    PROVE  /\ budget' \in BudgetRec
           /\ what # "crashes" => budget'.crashes = budget.crashes
           /\ what = "crashes" => budget'.crashes = budget.crashes + 1
BY DEF Use, BudgetRec

(* NextRun and Goto move the program counter.                                  *)
LEMMA NextRunType ==
    ASSUME scan \in ScanRec, NextRun
    PROVE  scan' \in ScanRec /\ scan'.pc = "next"
BY DEF NextRun, ScanRec, Pc

LEMMA GotoType ==
    ASSUME scan \in ScanRec, NEW pc \in Pc, Goto(pc)
    PROVE  scan' \in ScanRec /\ scan'.pc = pc /\ scan'.cur = scan.cur
BY DEF Goto, ScanRec

(* A failing call only spends an error.                                        *)
LEMMA CallFailsType ==
    ASSUME budget \in BudgetRec, CallFails
    PROVE  budget' \in BudgetRec /\ budget'.crashes = budget.crashes
BY UseType, LimitAssumption DEF CallFails

(* Retry and GiveUp leave the run at hand and keep the counts in range.        *)
LEMMA RetryType ==
    ASSUME TypeInv, scan.cur \in Run, Retry \/ GiveUp
    PROVE  /\ retries' \in [Run -> 0..MaxRetries]
           /\ scan' \in ScanRec /\ scan'.cur = scan.cur
           /\ \/ /\ scan'.pc = "respawn"
                 /\ retries' = [retries EXCEPT ![scan.cur] = @ + 1]
              \/ scan'.pc = "notify" /\ UNCHANGED retries
<1>1. CASE Retry
  <2>1. scan' \in ScanRec /\ scan'.pc = "respawn" /\ scan'.cur = scan.cur
    BY <1>1, GotoType DEF Retry, Pc, TypeInv
  <2>2. retries' \in [Run -> 0..MaxRetries]
    BY <1>1, LimitAssumption DEF Retry, TypeInv
  <2> QED BY <1>1, <2>1, <2>2 DEF Retry
<1>2. CASE GiveUp
  BY <1>2, GotoType DEF GiveUp, Pc, TypeInv
<1> QED BY <1>1, <1>2

(* TakeRun goes on, or takes a run whose journal is open.                      *)
LEMMA TakeRunMoves ==
    ASSUME TypeInv, TakeRun
    PROVE  /\ scan'.pc \in {"next", "entry"} /\ scan'.over = scan.over
           /\ scan'.pc = "entry" => scan'.cur \in Run /\ journal[scan'.cur] = "open"
<1>1. PICK r \in scan.todo :
        scan' = IF journal[r] = "open"
                THEN [scan EXCEPT !.todo = @ \ {r}, !.cur = r, !.pc = "entry"]
                ELSE [scan EXCEPT !.todo = @ \ {r}]
  BY DEF TakeRun
<1>2. scan \in ScanRec /\ r \in Run /\ scan.pc = "next"
  BY <1>1 DEF TakeRun, At, TypeInv, ScanRec
<1>3. CASE journal[r] = "open"
  BY <1>1, <1>2, <1>3 DEF ScanRec
<1>4. CASE journal[r] # "open"
  BY <1>1, <1>2, <1>4 DEF ScanRec
<1> QED BY <1>3, <1>4

-----------------------------------------------------------------------------
(* Types.                                                                      *)

LEMMA InitType == Init => TypeInv
BY LimitAssumption DEF Init, TypeInv, IdleScan, ScanRec, HistRec, BudgetRec, Pc, Cause

LEMMA ScanType == ASSUME TypeInv, Scan PROVE TypeInv'
<1>1. CASE StartScan
  BY <1>1 DEF StartScan, TypeInv, ScanRec, Pc
<1>2. CASE TakeRun
  <2>1. PICK r \in scan.todo :
          scan' = IF journal[r] = "open"
                  THEN [scan EXCEPT !.todo = @ \ {r}, !.cur = r, !.pc = "entry"]
                  ELSE [scan EXCEPT !.todo = @ \ {r}]
    BY <1>2 DEF TakeRun
  <2>2. scan \in ScanRec /\ r \in Run
    BY <2>1 DEF TypeInv, ScanRec
  <2>3. [scan EXCEPT !.todo = @ \ {r}, !.cur = r, !.pc = "entry"] \in ScanRec
    BY <2>2 DEF ScanRec, Pc
  <2>4. [scan EXCEPT !.todo = @ \ {r}] \in ScanRec
    BY <2>2 DEF ScanRec
  <2>5. scan' \in ScanRec /\ (scan'.pc \in {"idle", "next"} \/ scan'.cur \in Run)
    BY <1>2, <2>1, <2>2, <2>3, <2>4 DEF TakeRun, At, ScanRec
  <2> QED BY <1>2, <2>5 DEF TakeRun, TypeInv
<1>3. CASE CheckEntry
  <2>1. scan.cur \in Run /\ scan \in ScanRec
    BY <1>3 DEF CheckEntry, At, TypeInv
  <2>2. scan' \in ScanRec /\ (scan'.pc = "next" \/ scan'.cur = scan.cur)
    BY <1>3, <2>1, GotoType, NextRunType DEF CheckEntry, Pc
  <2> QED BY <1>3, <2>1, <2>2 DEF CheckEntry, TypeInv
<1>4. CASE AskForge
  <2>1. scan.cur \in Run /\ scan \in ScanRec
    BY <1>4 DEF AskForge, At, TypeInv
  <2>2. budget' \in BudgetRec
    BY <1>4, CallFailsType DEF AskForge, TypeInv
  <2>3. /\ scan' \in ScanRec /\ scan'.cur = scan.cur
        /\ retries' \in [Run -> 0..MaxRetries]
    <3>1. CASE Goto("markDone") /\ UNCHANGED retries
      BY <3>1, <2>1, GotoType DEF Pc, TypeInv
    <3>2. CASE Retry \/ GiveUp
      BY <3>2, <2>1, RetryType
    <3> QED BY <1>4, <3>1, <3>2 DEF AskForge
  <2> QED BY <1>4, <2>1, <2>2, <2>3 DEF AskForge, TypeInv
<1>5. CASE Respawn
  <2>1. scan.cur \in Run /\ scan \in ScanRec
    BY <1>5 DEF Respawn, At, TypeInv
  <2>2. procs' \in [Run -> Nat]
    BY <1>5, <2>1 DEF Respawn, TypeInv
  <2>3. hist' \in [Run -> HistRec]
    BY <1>5, <2>1 DEF Respawn, TypeInv, HistRec
  <2> QED BY <1>5, <2>1, <2>2, <2>3, NextRunType DEF Respawn, TypeInv
<1>6. CASE RespawnFails
  BY <1>6, NextRunType, CallFailsType DEF RespawnFails, TypeInv
<1>7. CASE NotifyExhausted
  <2>1. scan.cur \in Run
    BY <1>7 DEF NotifyExhausted, At, TypeInv
  <2>2. hist' \in [Run -> HistRec]
    BY <1>7, <2>1 DEF NotifyExhausted, TypeInv, HistRec
  <2> QED BY <1>7, <2>1, <2>2, GotoType DEF NotifyExhausted, TypeInv, Pc
<1>8. CASE MarkRunCompleted
  <2>1. scan.cur \in Run /\ scan.pc \in Cause
    BY <1>8 DEF MarkRunCompleted, At, TypeInv, Cause
  <2>2. hist' \in [Run -> HistRec]
    BY <1>8, <2>1 DEF MarkRunCompleted, TypeInv, HistRec
  <2>3. journal' \in [Run -> {"none", "open"} \cup Ended]
    BY <1>8, <2>1 DEF MarkRunCompleted, TypeInv, Ended
  <2> QED BY <1>8, <2>1, <2>2, <2>3, GotoType DEF MarkRunCompleted, TypeInv, Pc
<1>9. CASE ReapLiveSession
  <2>1. scan.cur \in Run
    BY <1>9 DEF ReapLiveSession, At, TypeInv
  <2>2. procs' \in [Run -> Nat]
    BY <1>9, <2>1 DEF ReapLiveSession, TypeInv
  <2> QED BY <1>9, <2>1, <2>2, NextRunType DEF ReapLiveSession, TypeInv
<1>10. CASE EndScan
  BY <1>10 DEF EndScan, IdleScan, TypeInv, ScanRec, Pc
<1> QED BY <1>1, <1>2, <1>3, <1>4, <1>5, <1>6, <1>7, <1>8, <1>9, <1>10 DEF Scan

LEMMA EnvironmentType == ASSUME TypeInv, Environment PROVE TypeInv'
<1>1. CASE SpawnGuard
  BY <1>1, UseType, LimitAssumption DEF SpawnGuard, TypeInv
<1>2. CASE SpawnStart
  BY <1>2 DEF SpawnStart, TypeInv
<1>3. CASE CreateRun
  BY <1>3 DEF CreateRun, TypeInv
<1>4. CASE OpenMR
  BY <1>4 DEF OpenMR, TypeInv
<1>5. CASE CompleteRun
  BY <1>5 DEF CompleteRun, TypeInv, Ended
<1>6. CASE WorkerEnds
  BY <1>6 DEF WorkerEnds, TypeInv
<1>7. CASE FinishMR
  BY <1>7 DEF FinishMR, TypeInv
<1>8. CASE WatchMR
  BY <1>8 DEF WatchMR, TypeInv
<1>9. CASE DaemonRestarts
  <2>1. budget' \in BudgetRec
    BY <1>9, UseType, LimitAssumption DEF DaemonRestarts, TypeInv
  <2> QED BY <1>9, <2>1, LimitAssumption
          DEF DaemonRestarts, TypeInv, IdleScan, ScanRec, Pc
<1> QED BY <1>1, <1>2, <1>3, <1>4, <1>5, <1>6, <1>7, <1>8, <1>9 DEF Environment

LEMMA StepType == TypeInv /\ [Next]_vars => TypeInv'
<1> SUFFICES ASSUME TypeInv, [Next]_vars PROVE TypeInv'
  OBVIOUS
<1>1. CASE Next
  BY <1>1, ScanType, EnvironmentType DEF Next
<1>2. CASE UNCHANGED vars
  BY <1>2 DEF vars, TypeInv
<1> QED BY <1>1, <1>2

(* The tables of the recovery have their types for any runs and bounds, and    *)
(* the scan has a run at hand whenever a step of OrphanRecovery.Run needs one. *)
THEOREM TypeCorrect == Spec => []TypeOK
<1>1. TypeInv => TypeOK
  BY DEF TypeInv, TypeOK, ScanRec, Pc
<1> QED BY <1>1, InitType, StepType, PTL DEF Spec

-----------------------------------------------------------------------------
(* What a scan writes off.                                                     *)

OwnEntry == \A a, b \in Run : <<a, b>> \in Contains => a = b

CauseInv ==
    /\ \A r \in Run : entry[r] = "post_merge" => mr[r] \in Done
    /\ scan.pc = "markDone" => mr[scan.cur] \in Done
    /\ scan.pc = "markExhausted" => hist[scan.cur].told
    /\ WrittenOffForCause

(* A request that is merged or closed stays so, and a cause stays justified,   *)
(* as long as the journal is not written.                                      *)
LEMMA CauseStays ==
    ASSUME TypeInv, WrittenOffForCause,
           \A r \in Run : mr[r] \in Done => mr'[r] \in Done,
           \A r \in Run : /\ hist'[r].cause = hist[r].cause
                          /\ hist[r].told => hist'[r].told
    PROVE  WrittenOffForCause'
BY DEF WrittenOffForCause

LEMMA ScanCause == ASSUME OwnEntry, TypeInv, TypeInv', CauseInv, Scan PROVE CauseInv'
<1> USE DEF CauseInv
<1>1. CASE StartScan \/ EndScan
  <2>1. scan'.pc \in {"idle", "next"}
    BY <1>1 DEF StartScan, EndScan, IdleScan
  <2> QED BY <1>1, <2>1 DEF StartScan, EndScan, WrittenOffForCause
<1>2. CASE TakeRun
  <2>1. scan'.pc \in {"next", "entry"}
    BY <1>2, TakeRunMoves
  <2> QED BY <1>2, <2>1 DEF TakeRun, WrittenOffForCause
<1>3. CASE CheckEntry
  <2>1. scan.cur \in Run /\ scan \in ScanRec
    BY <1>3 DEF CheckEntry, At, TypeInv
  <2>2. CASE IsRunMRDone(scan.cur)
    <3>1. PICK key \in Run : Matches(key, scan.cur) /\ entry[key] = "post_merge"
      BY <2>2 DEF IsRunMRDone
    <3>2. key = scan.cur
      BY <2>1, <3>1 DEF OwnEntry, Matches
    <3>3. mr[scan.cur] \in Done
      BY <3>1, <3>2
    <3>4. scan'.pc = "markDone" /\ scan'.cur = scan.cur
      BY <1>3, <2>1, <2>2, GotoType DEF CheckEntry, Pc
    <3> QED BY <1>3, <3>3, <3>4 DEF CheckEntry, WrittenOffForCause
  <2>3. CASE ~IsRunMRDone(scan.cur)
    <3>1. scan'.pc \in {"next", "forge"}
      BY <1>3, <2>1, <2>3, GotoType, NextRunType DEF CheckEntry, Pc
    <3> QED BY <1>3, <3>1 DEF CheckEntry, WrittenOffForCause
  <2> QED BY <2>2, <2>3
<1>4. CASE AskForge
  <2>1. scan.cur \in Run /\ scan \in ScanRec
    BY <1>4 DEF AskForge, At, TypeInv
  <2>2. CASE mr[scan.cur] \in Done /\ Goto("markDone")
    <3>1. scan'.pc = "markDone" /\ scan'.cur = scan.cur
      BY <2>1, <2>2, GotoType DEF Pc
    <3> QED BY <1>4, <2>2, <3>1 DEF AskForge, WrittenOffForCause
  <2>3. CASE Retry \/ GiveUp
    <3>1. scan'.pc \in {"respawn", "notify"}
      BY <2>1, <2>3, RetryType
    <3> QED BY <1>4, <3>1 DEF AskForge, WrittenOffForCause
  <2> QED BY <1>4, <2>2, <2>3 DEF AskForge
<1>5. CASE Respawn
  <2>1. scan.cur \in Run /\ scan'.pc = "next"
    BY <1>5, NextRunType DEF Respawn, At, TypeInv
  <2>2. \A r \in Run : hist'[r].cause = hist[r].cause /\ hist'[r].told = hist[r].told
    BY <1>5, <2>1 DEF Respawn, TypeInv, HistRec
  <2>3. WrittenOffForCause'
    BY <1>5, <2>2, CauseStays DEF Respawn
  <2> QED BY <1>5, <2>1, <2>3 DEF Respawn
<1>6. CASE RespawnFails
  <2>1. scan'.pc = "next"
    BY <1>6, NextRunType DEF RespawnFails, TypeInv
  <2> QED BY <1>6, <2>1 DEF RespawnFails, WrittenOffForCause
<1>7. CASE NotifyExhausted
  <2>1. scan.cur \in Run /\ scan'.pc = "markExhausted" /\ scan'.cur = scan.cur
    BY <1>7, GotoType DEF NotifyExhausted, At, TypeInv, Pc
  <2>2. /\ \A r \in Run : hist'[r].cause = hist[r].cause /\ (hist[r].told => hist'[r].told)
        /\ hist'[scan.cur].told
    BY <1>7, <2>1 DEF NotifyExhausted, TypeInv, HistRec
  <2>3. WrittenOffForCause'
    BY <1>7, <2>2, CauseStays DEF NotifyExhausted
  <2> QED BY <1>7, <2>1, <2>2, <2>3 DEF NotifyExhausted
<1>8. CASE MarkRunCompleted
  <2>1. scan.cur \in Run /\ scan'.pc = "reap"
    BY <1>8, GotoType DEF MarkRunCompleted, At, TypeInv, Pc
  <2>2. /\ \A r \in Run \ {scan.cur} : hist'[r] = hist[r]
        /\ hist'[scan.cur].cause = scan.pc /\ hist'[scan.cur].told = hist[scan.cur].told
    BY <1>8, <2>1 DEF MarkRunCompleted, TypeInv, HistRec
  <2>3. WrittenOffForCause'
    BY <1>8, <2>1, <2>2 DEF MarkRunCompleted, At, WrittenOffForCause
  <2> QED BY <1>8, <2>1, <2>3 DEF MarkRunCompleted
<1>9. CASE ReapLiveSession
  <2>1. scan'.pc = "next"
    BY <1>9, NextRunType DEF ReapLiveSession, TypeInv
  <2> QED BY <1>9, <2>1 DEF ReapLiveSession, WrittenOffForCause
<1> QED BY <1>1, <1>2, <1>3, <1>4, <1>5, <1>6, <1>7, <1>8, <1>9 DEF Scan

LEMMA EnvironmentCause == ASSUME TypeInv, CauseInv, Environment PROVE CauseInv'
<1> USE DEF CauseInv
<1>1. CASE SpawnGuard \/ SpawnStart \/ CreateRun \/ CompleteRun \/ WorkerEnds
  BY <1>1 DEF SpawnGuard, SpawnStart, CreateRun, CompleteRun, WorkerEnds, WrittenOffForCause
<1>2. CASE OpenMR \/ FinishMR
  <2>1. \A r \in Run : mr[r] \in Done => mr'[r] \in Done
    BY <1>2 DEF OpenMR, FinishMR, TypeInv, Done
  <2>2. WrittenOffForCause'
    BY <1>2, <2>1 DEF OpenMR, FinishMR, WrittenOffForCause
  <2>3. \A r \in Run : entry'[r] = "post_merge" => entry[r] = "post_merge"
    BY <1>2 DEF OpenMR, FinishMR, TypeInv
  <2>4. scan' = scan /\ hist' = hist
    BY <1>2 DEF OpenMR, FinishMR
  <2>5. scan.pc = "markDone" => scan.cur \in Run
    BY DEF TypeInv
  <2> QED BY <2>1, <2>2, <2>3, <2>4, <2>5
<1>3. CASE WatchMR
  <2>1. \A r \in Run : entry'[r] = "post_merge" => mr[r] \in Done
    BY <1>3 DEF WatchMR, TypeInv, Done
  <2> QED BY <1>3, <2>1 DEF WatchMR, WrittenOffForCause
<1>4. CASE DaemonRestarts
  BY <1>4 DEF DaemonRestarts, IdleScan, WrittenOffForCause
<1> QED BY <1>1, <1>2, <1>3, <1>4 DEF Environment

(* Where no run ID is a part of another one, a run is written off only when    *)
(* its own merge request is finished or the conductor was told.  Only          *)
(* isRunMRDone (orphan_recovery.go:417) needs the assumption.                  *)
THEOREM WrittenOffForOwnCause ==
    ASSUME OwnEntry PROVE Spec => []WrittenOffForCause
<1>1. Init => CauseInv
  BY DEF Init, CauseInv, WrittenOffForCause, IdleScan
<1>2. TypeInv /\ CauseInv /\ [Next]_vars => CauseInv'
  <2> SUFFICES ASSUME TypeInv, CauseInv, [Next]_vars PROVE CauseInv'
    OBVIOUS
  <2>1. CASE Scan
    BY <2>1, OwnEntry, ScanCause, ScanType
  <2>2. CASE Environment
    BY <2>2, EnvironmentCause
  <2>3. CASE UNCHANGED vars
    BY <2>3 DEF vars, CauseInv, WrittenOffForCause
  <2> QED BY <2>1, <2>2, <2>3 DEF Next
<1>3. CauseInv => WrittenOffForCause
  BY DEF CauseInv
<1> QED BY <1>1, <1>2, <1>3, InitType, StepType, PTL DEF Spec

-----------------------------------------------------------------------------
(* How often a run is respawned.  An attempt is counted in `retries` before    *)
(* the worker starts, and a restart forgets at most MaxRetries attempts.       *)

Begun(r) == IF scan.pc = "respawn" /\ scan.cur = r THEN 1 ELSE 0

AttemptInv ==
    \A r \in Run :
        hist[r].respawns + Begun(r) <= MaxRetries * budget.crashes + retries[r]

(* Steps that begin no attempt and forget none.                                *)
LEMMA AttemptStays ==
    ASSUME TypeInv, AttemptInv, UNCHANGED retries,
           budget'.crashes = budget.crashes,
           \A r \in Run : hist'[r].respawns = hist[r].respawns,
           scan' = scan \/ scan'.pc # "respawn"
    PROVE  AttemptInv'
<1> SUFFICES ASSUME NEW r \in Run
             PROVE  hist'[r].respawns + Begun(r)' <= MaxRetries * budget'.crashes + retries'[r]
  BY DEF AttemptInv
<1>1. Begun(r)' <= Begun(r) /\ Begun(r) \in Nat /\ Begun(r)' \in Nat
  BY DEF Begun
<1>2. hist[r].respawns \in Nat /\ retries[r] \in Nat /\ MaxRetries * budget.crashes \in Nat
  BY LimitAssumption DEF TypeInv, HistRec, BudgetRec
<1>3. hist[r].respawns + Begun(r) <= MaxRetries * budget.crashes + retries[r]
  BY DEF AttemptInv
<1> QED BY <1>1, <1>2, <1>3

LEMMA ScanAttempt == ASSUME TypeInv, AttemptInv, Scan PROVE AttemptInv'
<1>1. CASE StartScan \/ TakeRun \/ EndScan
  <2>1. CASE TakeRun
    BY <2>1, TakeRunMoves, AttemptStays DEF TakeRun
  <2>2. CASE StartScan \/ EndScan
    BY <2>2, AttemptStays DEF StartScan, EndScan, IdleScan
  <2> QED BY <1>1, <2>1, <2>2
<1>2. CASE CheckEntry
  <2>1. scan'.pc # "respawn"
    BY <1>2, GotoType, NextRunType DEF CheckEntry, TypeInv, Pc
  <2> QED BY <1>2, <2>1, AttemptStays DEF CheckEntry
<1>3. CASE AskForge
  <2>1. scan.cur \in Run /\ scan \in ScanRec /\ scan.pc # "respawn"
    BY <1>3 DEF AskForge, At, TypeInv
  <2>2. budget'.crashes = budget.crashes /\ hist' = hist
    BY <1>3, CallFailsType DEF AskForge, TypeInv
  <2>3. CASE scan'.pc # "respawn" /\ UNCHANGED retries
    BY <2>2, <2>3, AttemptStays
  <2>4. CASE /\ scan'.pc = "respawn" /\ scan'.cur = scan.cur
             /\ retries' = [retries EXCEPT ![scan.cur] = @ + 1]
    <3> SUFFICES ASSUME NEW r \in Run
                 PROVE  hist[r].respawns + Begun(r)'
                           <= MaxRetries * budget.crashes + retries'[r]
      BY <2>2 DEF AttemptInv
    <3>1. hist[r].respawns \in Nat /\ retries[r] \in Nat /\ MaxRetries * budget.crashes \in Nat
      BY LimitAssumption DEF TypeInv, HistRec, BudgetRec
    <3>2. hist[r].respawns + 0 <= MaxRetries * budget.crashes + retries[r]
      BY <2>1 DEF AttemptInv, Begun
    <3>3. CASE r = scan.cur
      <4>1. Begun(r)' = 1 /\ retries'[r] = retries[r] + 1
        BY <2>1, <2>4, <3>3 DEF Begun, TypeInv
      <4> QED BY <3>1, <3>2, <4>1
    <3>4. CASE r # scan.cur
      <4>1. Begun(r)' = 0 /\ retries'[r] = retries[r]
        BY <2>1, <2>4, <3>4 DEF Begun, TypeInv
      <4> QED BY <3>1, <3>2, <4>1
    <3> QED BY <3>3, <3>4
  <2>5. CASE Goto("markDone") /\ UNCHANGED retries
    BY <2>1, <2>3, <2>5, GotoType DEF Pc
  <2>6. CASE Retry \/ GiveUp
    BY <2>1, <2>3, <2>4, <2>6, RetryType
  <2> QED BY <1>3, <2>5, <2>6 DEF AskForge
<1>4. CASE Respawn
  <2>1. scan.cur \in Run /\ scan.pc = "respawn" /\ scan'.pc = "next"
    BY <1>4, NextRunType DEF Respawn, At, TypeInv
  <2> SUFFICES ASSUME NEW r \in Run
               PROVE  hist'[r].respawns + Begun(r)' <= MaxRetries * budget.crashes + retries[r]
    BY <1>4 DEF AttemptInv, Respawn
  <2>2. Begun(r)' = 0
    BY <2>1 DEF Begun
  <2>3. hist'[r].respawns = hist[r].respawns + Begun(r)
    BY <1>4, <2>1 DEF Respawn, Begun, TypeInv, HistRec
  <2>4. hist[r].respawns + Begun(r) \in Nat
    BY DEF Begun, TypeInv, HistRec
  <2> QED BY <2>2, <2>3, <2>4 DEF AttemptInv
<1>5. CASE RespawnFails
  <2>1. scan'.pc # "respawn" /\ budget'.crashes = budget.crashes
    BY <1>5, NextRunType, CallFailsType DEF RespawnFails, TypeInv
  <2> QED BY <1>5, <2>1, AttemptStays DEF RespawnFails
<1>6. CASE NotifyExhausted
  <2>1. scan'.pc # "respawn"
    BY <1>6, GotoType DEF NotifyExhausted, TypeInv, Pc
  <2>2. \A r \in Run : hist'[r].respawns = hist[r].respawns
    BY <1>6 DEF NotifyExhausted, TypeInv, HistRec
  <2> QED BY <1>6, <2>1, <2>2, AttemptStays DEF NotifyExhausted
<1>7. CASE MarkRunCompleted
  <2>1. scan'.pc # "respawn"
    BY <1>7, GotoType DEF MarkRunCompleted, TypeInv, Pc
  <2>2. \A r \in Run : hist'[r].respawns = hist[r].respawns
    BY <1>7 DEF MarkRunCompleted, TypeInv, HistRec
  <2> QED BY <1>7, <2>1, <2>2, AttemptStays DEF MarkRunCompleted
<1>8. CASE ReapLiveSession
  <2>1. scan'.pc # "respawn"
    BY <1>8, NextRunType DEF ReapLiveSession, TypeInv
  <2> QED BY <1>8, <2>1, AttemptStays DEF ReapLiveSession
<1> QED BY <1>1, <1>2, <1>3, <1>4, <1>5, <1>6, <1>7, <1>8 DEF Scan

LEMMA EnvironmentAttempt == ASSUME TypeInv, AttemptInv, Environment PROVE AttemptInv'
<1>1. CASE DaemonRestarts
  <2> SUFFICES ASSUME NEW r \in Run
               PROVE  hist[r].respawns + Begun(r)' <= MaxRetries * budget'.crashes + retries'[r]
    BY <1>1 DEF AttemptInv, DaemonRestarts
  <2>1. Begun(r)' = 0 /\ retries'[r] = 0
    BY <1>1 DEF DaemonRestarts, IdleScan, Begun
  <2>2. budget'.crashes = budget.crashes + 1
    BY <1>1, UseType, LimitAssumption DEF DaemonRestarts, TypeInv
  <2>3. /\ hist[r].respawns \in Nat /\ budget.crashes \in Nat /\ MaxRetries \in Nat
        /\ retries[r] \in 0..MaxRetries /\ Begun(r) \in Nat
    BY LimitAssumption DEF TypeInv, HistRec, BudgetRec, Begun
  <2>4. MaxRetries * (budget.crashes + 1) = MaxRetries * budget.crashes + MaxRetries
    BY <2>3
  <2>5. hist[r].respawns + Begun(r) <= MaxRetries * budget.crashes + retries[r]
    BY DEF AttemptInv
  <2>6. MaxRetries * budget.crashes \in Nat
    BY <2>3
  <2> QED BY <2>1, <2>2, <2>3, <2>4, <2>5, <2>6
<1>2. CASE SpawnGuard
  <2>1. budget'.crashes = budget.crashes
    BY <1>2, UseType, LimitAssumption DEF SpawnGuard, TypeInv
  <2> QED BY <1>2, <2>1, AttemptStays DEF SpawnGuard
<1>3. CASE SpawnStart \/ CreateRun \/ OpenMR \/ CompleteRun \/ WorkerEnds \/ FinishMR \/ WatchMR
  BY <1>3, AttemptStays
     DEF SpawnStart, CreateRun, OpenMR, CompleteRun, WorkerEnds, FinishMR, WatchMR
<1> QED BY <1>1, <1>2, <1>3 DEF Environment

(* maxOrphanRetries: per start of the daemon, a run gets at most MaxRetries    *)
(* workers from the recovery.                                                  *)
THEOREM RespawnsBounded == Spec => []BoundedRespawns
<1>1. Init => AttemptInv
  BY LimitAssumption DEF Init, AttemptInv, Begun, IdleScan
<1>2. TypeInv /\ AttemptInv /\ [Next]_vars => AttemptInv'
  <2> SUFFICES ASSUME TypeInv, AttemptInv, [Next]_vars PROVE AttemptInv'
    OBVIOUS
  <2>1. CASE UNCHANGED vars
    BY <2>1, AttemptStays DEF vars
  <2> QED BY <2>1, ScanAttempt, EnvironmentAttempt DEF Next
<1>3. TypeInv /\ AttemptInv => BoundedRespawns
  <2> SUFFICES ASSUME TypeInv, AttemptInv, NEW r \in Run
               PROVE  hist[r].respawns <= MaxRetries * (1 + budget.crashes)
    BY DEF BoundedRespawns
  <2>1. /\ hist[r].respawns \in Nat /\ budget.crashes \in Nat /\ MaxRetries \in Nat
        /\ retries[r] \in 0..MaxRetries /\ Begun(r) \in Nat
    BY LimitAssumption DEF TypeInv, HistRec, BudgetRec, Begun
  <2>2. MaxRetries * (1 + budget.crashes) = MaxRetries * budget.crashes + MaxRetries
    BY <2>1
  <2>3. hist[r].respawns + Begun(r) <= MaxRetries * budget.crashes + retries[r]
    BY DEF AttemptInv
  <2>4. MaxRetries * budget.crashes \in Nat
    BY <2>1
  <2> QED BY <2>1, <2>2, <2>3, <2>4
<1> QED BY <1>1, <1>2, <1>3, InitType, StepType, PTL DEF Spec

-----------------------------------------------------------------------------
(* Runs that need no worker.  scan.over only holds runs that are over for      *)
(* good; one of them with an open journal has a finished merge request, so     *)
(* only a failed answer of the forge leads on to a respawn.                    *)

OverInv ==
    /\ \A r \in scan.over : mr[r] \in Done \/ journal[r] \in Ended
    /\ scan.pc \in {"entry", "forge"} /\ scan.cur \in scan.over => mr[scan.cur] \in Done
    /\ scan.pc = "respawn" /\ scan.cur \in scan.over => budget.errors > 0
    /\ DoneIsNotRespawned

(* What is over stays over and errors are not forgotten.                       *)
LEMMA OverStays ==
    ASSUME TypeInv, OverInv, scan'.over = scan.over, budget'.errors >= budget.errors,
           budget' \in BudgetRec,
           \A r \in Run : mr[r] \in Done => mr'[r] \in Done,
           \A r \in Run : journal[r] \in Ended => journal'[r] \in Ended,
           \A r \in Run : hist'[r].wasted = hist[r].wasted
    PROVE  /\ \A r \in scan'.over : mr'[r] \in Done \/ journal'[r] \in Ended
           /\ DoneIsNotRespawned'
<1>1. scan.over \subseteq Run /\ budget \in BudgetRec
  BY DEF TypeInv, ScanRec
<1> QED BY <1>1 DEF OverInv, DoneIsNotRespawned, BudgetRec

LEMMA UseErrors ==
    ASSUME budget \in BudgetRec, NEW limit \in Nat,
           NEW what \in {"spawns", "errors", "crashes"}, Use(what, limit)
    PROVE  budget'.errors >= budget.errors /\ (what = "errors" => budget'.errors > 0)
BY DEF Use, BudgetRec

LEMMA ScanOver == ASSUME TypeInv, TypeInv', OverInv, Scan PROVE OverInv'
<1> DEFINE Rest == /\ \A r \in scan'.over : mr'[r] \in Done \/ journal'[r] \in Ended
                   /\ DoneIsNotRespawned'
<1>b. budget \in BudgetRec /\ budget' \in BudgetRec /\ scan \in ScanRec
  BY DEF TypeInv
<1>1. CASE StartScan \/ EndScan
  <2>1. scan'.pc \in {"idle", "next"} /\ UNCHANGED <<mr, journal, hist, budget>>
    BY <1>1 DEF StartScan, EndScan, IdleScan
  <2>2. \A r \in scan'.over : mr[r] \in Done \/ journal[r] \in Ended
    BY <1>1 DEF StartScan, EndScan, IdleScan
  <2> QED BY <2>1, <2>2 DEF OverInv, DoneIsNotRespawned
<1>2. CASE TakeRun
  <2>1. UNCHANGED <<mr, journal, hist, budget>>
    BY <1>2 DEF TakeRun
  <2>2. /\ scan'.pc \in {"next", "entry"} /\ scan'.over = scan.over
        /\ scan'.pc = "entry" => journal[scan'.cur] \notin Ended
    BY <1>2, TakeRunMoves DEF Ended
  <2> QED BY <2>1, <2>2 DEF OverInv, DoneIsNotRespawned
<1>3. CASE CheckEntry
  <2>1. UNCHANGED <<mr, journal, hist, budget>> /\ scan.pc = "entry"
    BY <1>3 DEF CheckEntry, At
  <2>2. /\ scan'.over = scan.over
        /\ scan'.pc \in {"next", "markDone"} \/ (scan'.pc = "forge" /\ scan'.cur = scan.cur)
    BY <1>3, <1>b DEF CheckEntry, Goto, NextRun, ScanRec
  <2> QED BY <2>1, <2>2 DEF OverInv, DoneIsNotRespawned
<1>4. CASE AskForge
  <2>1. UNCHANGED <<mr, journal, hist>> /\ scan.pc = "forge"
    BY <1>4 DEF AskForge, At
  <2>2. scan'.over = scan.over /\ scan'.cur = scan.cur
    BY <1>4, <1>b DEF AskForge, Retry, GiveUp, Goto, ScanRec
  <2>3. budget'.errors >= budget.errors
    BY <1>4, <1>b, UseErrors, LimitAssumption DEF AskForge, CallFails, BudgetRec
  <2>4. Rest
    BY <1>b, <2>1, <2>2, <2>3, OverStays
  <2>5. scan'.pc = "respawn" /\ mr[scan.cur] \in Done => budget'.errors > 0
    <3>1. CASE mr[scan.cur] \in Done /\ Goto("markDone")
      BY <3>1, <1>b, GotoType DEF Pc
    <3>2. CASE mr[scan.cur] \in Done /\ CallFails
      BY <3>2, <1>b, UseErrors, LimitAssumption DEF CallFails
    <3> QED BY <1>4, <3>1, <3>2 DEF AskForge
  <2>6. scan'.pc \in {"markDone", "respawn", "notify"}
    <3>1. CASE Goto("markDone")
      BY <3>1, <1>b, GotoType DEF Pc
    <3>2. CASE Retry \/ GiveUp
      <4>1. scan.cur \in Run
        BY <2>1 DEF TypeInv
      <4> QED BY <3>2, <4>1, RetryType
    <3> QED BY <1>4, <3>1, <3>2 DEF AskForge
  <2> QED BY <2>1, <2>2, <2>4, <2>5, <2>6 DEF OverInv
<1>5. CASE Respawn
  <2>1. /\ UNCHANGED <<mr, journal, budget>> /\ scan.pc = "respawn" /\ scan.cur \in Run
        /\ scan'.pc = "next" /\ scan'.over = scan.over
    BY <1>5, <1>b DEF Respawn, At, NextRun, ScanRec, TypeInv
  <2>2. /\ \A r \in Run \ {scan.cur} : hist'[r].wasted = hist[r].wasted
        /\ hist'[scan.cur].wasted
              = hist[scan.cur].wasted + (IF scan.cur \in scan.over THEN 1 ELSE 0)
    BY <1>5, <2>1 DEF Respawn, TypeInv, HistRec
  <2>3. hist[scan.cur].wasted \in Nat
    BY <2>1 DEF TypeInv, HistRec
  <2>4. DoneIsNotRespawned'
    <3> SUFFICES ASSUME NEW r \in Run, hist'[r].wasted > 0 PROVE budget.errors > 0
      BY <2>1 DEF DoneIsNotRespawned
    <3>1. CASE r # scan.cur
      BY <2>2, <3>1 DEF OverInv, DoneIsNotRespawned
    <3>2. CASE r = scan.cur /\ scan.cur \in scan.over
      BY <2>1, <3>2 DEF OverInv
    <3>3. CASE r = scan.cur /\ scan.cur \notin scan.over
      <4>1. hist[r].wasted > 0
        BY <2>2, <2>3, <3>3
      <4> QED BY <4>1 DEF OverInv, DoneIsNotRespawned
    <3> QED BY <3>1, <3>2, <3>3
  <2> QED BY <2>1, <2>4 DEF OverInv
<1>6. CASE RespawnFails
  <2>1. /\ UNCHANGED <<mr, journal, hist>> /\ scan'.pc = "next" /\ scan'.over = scan.over
        /\ budget'.errors >= budget.errors
    BY <1>6, <1>b, UseErrors, LimitAssumption DEF RespawnFails, CallFails, NextRun, ScanRec
  <2> QED BY <1>b, <2>1, OverStays DEF OverInv
<1>7. CASE NotifyExhausted
  <2>1. /\ UNCHANGED <<mr, journal, budget>> /\ scan'.pc = "markExhausted"
        /\ scan'.over = scan.over
    BY <1>7, <1>b DEF NotifyExhausted, Goto, ScanRec
  <2>2. \A r \in Run : hist'[r].wasted = hist[r].wasted
    BY <1>7 DEF NotifyExhausted, TypeInv, HistRec
  <2>3. budget'.errors >= budget.errors
    BY <1>b, <2>1 DEF BudgetRec
  <2> QED BY <1>b, <2>1, <2>2, <2>3, OverStays DEF OverInv
<1>8. CASE MarkRunCompleted
  <2>1. /\ UNCHANGED <<mr, budget>> /\ scan'.pc = "reap" /\ scan'.over = scan.over
    BY <1>8, <1>b DEF MarkRunCompleted, Goto, ScanRec
  <2>2. \A r \in Run : hist'[r].wasted = hist[r].wasted
    BY <1>8 DEF MarkRunCompleted, TypeInv, HistRec
  <2>3. \A r \in Run : journal[r] \in Ended => journal'[r] \in Ended
    BY <1>8 DEF MarkRunCompleted, TypeInv, Ended
  <2>4. budget'.errors >= budget.errors
    BY <1>b, <2>1 DEF BudgetRec
  <2> QED BY <1>b, <2>1, <2>2, <2>3, <2>4, OverStays DEF OverInv
<1>9. CASE ReapLiveSession
  <2>1. /\ UNCHANGED <<mr, journal, hist, budget>> /\ scan'.pc = "next"
        /\ scan'.over = scan.over
    BY <1>9, <1>b DEF ReapLiveSession, NextRun, ScanRec
  <2> QED BY <2>1 DEF OverInv, DoneIsNotRespawned
<1> QED BY <1>1, <1>2, <1>3, <1>4, <1>5, <1>6, <1>7, <1>8, <1>9 DEF Scan

LEMMA EnvironmentOver ==
    ASSUME TypeInv, TypeInv', OverInv, Environment PROVE OverInv'
<1>b. budget \in BudgetRec /\ budget' \in BudgetRec /\ scan \in ScanRec
  BY DEF TypeInv
<1>1. CASE DaemonRestarts
  <2>1. scan'.pc = "idle" /\ scan'.over = {} /\ hist' = hist
    BY <1>1 DEF DaemonRestarts, IdleScan
  <2>2. budget'.errors >= budget.errors
    BY <1>1, <1>b, UseErrors, LimitAssumption DEF DaemonRestarts
  <2> QED BY <1>b, <2>1, <2>2 DEF OverInv, DoneIsNotRespawned, BudgetRec
<1>2. CASE ~DaemonRestarts
  <2>1. scan' = scan /\ hist' = hist
    BY <1>2 DEF Environment, SpawnGuard, SpawnStart, CreateRun, OpenMR, CompleteRun,
                WorkerEnds, FinishMR, WatchMR
  <2>2. budget'.errors >= budget.errors
    <3>1. CASE SpawnGuard
      BY <3>1, <1>b, UseErrors, LimitAssumption DEF SpawnGuard
    <3>2. CASE UNCHANGED budget
      BY <3>2, <1>b DEF BudgetRec
    <3> QED BY <1>2, <3>1, <3>2 DEF Environment, SpawnStart, CreateRun, OpenMR,
                CompleteRun, WorkerEnds, FinishMR, WatchMR
  <2>3. \A r \in Run : mr[r] \in Done => mr'[r] \in Done
    BY <1>2 DEF Environment, SpawnGuard, SpawnStart, CreateRun, OpenMR, CompleteRun,
                WorkerEnds, FinishMR, WatchMR, TypeInv, Done
  <2>4. \A r \in Run : journal[r] \in Ended => journal'[r] \in Ended
    BY <1>2 DEF Environment, SpawnGuard, SpawnStart, CreateRun, OpenMR, CompleteRun,
                WorkerEnds, FinishMR, WatchMR, TypeInv, Ended
  <2>5. scan.pc \in {"idle", "next"} \/ scan.cur \in Run
    BY DEF TypeInv
  <2> QED BY <1>b, <2>1, <2>2, <2>3, <2>4, <2>5, OverStays DEF OverInv, BudgetRec
<1> QED BY <1>1, <1>2

(* The incident behind runMRState: a run whose merge request was finished, or  *)
(* that was finished itself, when a scan began is not given a worker by it,    *)
(* unless the forge failed to answer.                                          *)
THEOREM DoneNeverRespawned == Spec => []DoneIsNotRespawned
<1>1. Init => OverInv
  BY DEF Init, OverInv, DoneIsNotRespawned, IdleScan
<1>2. TypeInv /\ TypeInv' /\ OverInv /\ [Next]_vars => OverInv'
  <2> SUFFICES ASSUME TypeInv, TypeInv', OverInv, [Next]_vars PROVE OverInv'
    OBVIOUS
  <2>1. CASE UNCHANGED vars
    BY <2>1 DEF vars, OverInv, DoneIsNotRespawned
  <2> QED BY <2>1, ScanOver, EnvironmentOver DEF Next
<1>3. OverInv => DoneIsNotRespawned
  BY DEF OverInv
<1> QED BY <1>1, <1>2, <1>3, InitType, StepType, PTL DEF Spec

(* Both together: the recovery's workers go only to runs that need them, and   *)
(* so many to each.                                                            *)
THEOREM RespawnsJustified == Spec => []RespawnsForCause
<1>1. BoundedRespawns /\ DoneIsNotRespawned => RespawnsForCause BY DEF RespawnsForCause
<1> QED BY <1>1, RespawnsBounded, DoneNeverRespawned, PTL
=============================================================================
