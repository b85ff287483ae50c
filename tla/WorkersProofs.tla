---------------------------- MODULE WorkersProofs ----------------------------
(* Proofs about workers.  Of Schedules, for any number of periods, overlapping *)
(* passes and faults: how often a schedule can run, and that no worker loses   *)
(* its worktree without a cause.  Of GraceReaper, for any number of workers,   *)
(* turns and faults: none is taken at work.  Of ProcessDriver, for any process,*)
(* any messages and any number of deaths, failed calls and changes: a message  *)
(* resolves one step for each time it is handled, a wait is ended by an event  *)
(* of a type it waits for, and a worker only stands still for cause.  Of the   *)
(* rules in Decisions, for any calendar and any question: when a schedule fires*)
(* and what its worker is called, who pays for a worker, what is collected.    *)
EXTENDS Schedules, GraceReaper, ProcessDriver, DecisionsProofs

-----------------------------------------------------------------------------
(* Schedules.                                                                  *)

(* Of a pass: what it serves fell due, a free one is Free, an orphan has its   *)
(* name, and the tick waits for one only.                                      *)
Ticks(p) == pass[p].pc # "free" /\ pass[p].by = "tick"

PassesSound ==
    /\ \A p \in Slot : pass[p].due <= due
    /\ \A p \in Slot : pass[p].pc = "free" => pass[p] = Free
    /\ \A p \in Slot : pass[p].pc = "name" => pass[p].by # "orphan"
    /\ \A p \in Slot : pass[p].pc \notin {"free", "name"} => pass[p].name \in Period
    /\ \A p, q \in Slot : Ticks(p) /\ Ticks(q) => p = q

Basic == TypeOK /\ PassesSound

(* How often the schedule can still run, in the state it is in, before it      *)
(* falls due again or something fails: once for each pass without a name, once *)
(* for each late pass, whose older `now` may cover a newer one, and once if    *)
(* the last firing that fell due is neither served nor being served.           *)
Unnamed == {p \in Slot : pass[p].pc = "name"}
Late == {p \in Slot : pass[p].by = "late"}
Missed ==
    IF \E p \in Slot : Ticks(p) THEN \E p \in Slot : Ticks(p) /\ pass[p].due < due
                                ELSE served < due
Refire == IF Missed THEN 1 ELSE 0

AllBound == fires.all + Cardinality(Unnamed) + Cardinality(Late) + Refire <= due + 2 * faults

(* How often a Once schedule can still work: once for each spawn nobody waits  *)
(* for, and once if it is enabled or its pass is running.                      *)
Loose == {p \in Slot : pass[p].pc # "free" /\ pass[p].by # "tick"}
Spare == IF enabled \/ \E p \in Slot : Ticks(p) THEN 1 ELSE 0

OkBound == once => fires.ok + Cardinality(Loose) + Spare <= 1 + 2 * faults

(* As long as nothing failed and no name was late: a pass serves the period it *)
(* is named after, and whatever bears a name belongs to a firing that is       *)
(* served, or to the pass that has come that far with it.                      *)
Past(n, pcs) == n <= served \/ \E p \in Slot : pass[p].name = n /\ pass[p].pc \in pcs

Calm ==
    faults = 0 /\ ~fires.late =>
        /\ \A p \in Slot : pass[p].by = "tick"
        /\ \A p \in Slot : Ticks(p) => served < pass[p].due
        /\ \A p \in Slot : pass[p].pc \notin {"free", "name"} => pass[p].name = pass[p].due
        /\ \A n \in Period : worker[n].alive \/ worker[n].home => Past(n, {"put", "done"})
        /\ \A n \in listed : Past(n, {"done"})
        /\ \A n \in reap : Past(n, {"done"}) /\ worker[n] = NoWorker

(* The inductive invariant.                                                    *)
IInv == Basic /\ AllBound /\ OkBound /\ Calm

-----------------------------------------------------------------------------

LEMMA Finite ==
    /\ IsFiniteSet(Unnamed) /\ Cardinality(Unnamed) \in Nat
    /\ IsFiniteSet(Late) /\ Cardinality(Late) \in Nat
    /\ IsFiniteSet(Loose) /\ Cardinality(Loose) \in Nat
<1>1. Unnamed \subseteq Slot /\ Late \subseteq Slot /\ Loose \subseteq Slot
  BY DEF Unnamed, Late, Loose
<1> QED BY <1>1, SlotAssumption, FS_Subset, FS_CardinalityType

LEMMA FiniteNext ==
    /\ IsFiniteSet(Unnamed') /\ Cardinality(Unnamed') \in Nat
    /\ IsFiniteSet(Late') /\ Cardinality(Late') \in Nat
    /\ IsFiniteSet(Loose') /\ Cardinality(Loose') \in Nat
<1>1. Unnamed' \subseteq Slot /\ Late' \subseteq Slot /\ Loose' \subseteq Slot
  BY DEF Unnamed, Late, Loose
<1> QED BY <1>1, SlotAssumption, FS_Subset, FS_CardinalityType

LEMMA CountBounds == \A k \in Nat : Count(k) \in Nat /\ Count(k) <= k + 1
BY BoundsAssumption DEF Count

LEMMA InitInv == Init => IInv
<1> SUFFICES ASSUME Init PROVE IInv OBVIOUS
<1>1. TypeOK BY BoundsAssumption DEF Init, TypeOK, Passes, Free, NoWorker, Period
<1>2. PassesSound BY DEF Init, PassesSound, Free, Ticks
<1>3. Unnamed = {} /\ Late = {} /\ Loose = {} BY DEF Init, Unnamed, Late, Loose, Free
<1>4. ~Missed BY DEF Init, Missed, Ticks, Free
<1>5. AllBound BY <1>3, <1>4, FS_EmptySet DEF Init, AllBound, Refire
<1>6. OkBound BY <1>3, FS_EmptySet DEF Init, OkBound, Spare
<1>7. Calm BY DEF Init, Calm, Free, Ticks, NoWorker
<1> QED BY <1>1, <1>2, <1>5, <1>6, <1>7 DEF IInv, Basic

-----------------------------------------------------------------------------
(* Types, and what a pass is.                                                  *)

LEMMA Reowned == \A r \in Passes : \A b \in {"late", "orphan"} : [r EXCEPT !.by = b] \in Passes
BY DEF Passes

LEMMA Advanced ==
    \A r \in Passes :
        /\ [r EXCEPT !.pc = "session"] \in Passes
        /\ [r EXCEPT !.pc = "put"] \in Passes
        /\ [r EXCEPT !.pc = "failed"] \in Passes
        /\ [r EXCEPT !.pc = "done"] \in Passes
BY DEF Passes

LEMMA Named == \A r \in Passes, n \in 0..MaxPeriod : [r EXCEPT !.pc = "tree", !.name = n] \in Passes
BY DEF Passes

LEMMA FreeIsPass == Free \in Passes
BY BoundsAssumption DEF Passes, Free

LEMMA Begun == \A d \in 0..MaxPeriod : [Free EXCEPT !.pc = "name", !.due = d] \in Passes
<1>1. \A r \in Passes, d \in 0..MaxPeriod : [r EXCEPT !.pc = "name", !.due = d] \in Passes
  BY DEF Passes
<1> QED BY <1>1, FreeIsPass

LEMMA Started == \A n : [alive |-> TRUE, home |-> n \in tree] \in [alive : BOOLEAN, home : BOOLEAN]
OBVIOUS

LEMMA StepBasic == Basic /\ [Next]_vars => Basic'
<1> SUFFICES ASSUME Basic, [Next]_vars PROVE Basic' OBVIOUS
<1> USE BoundsAssumption DEF Basic, TypeOK, PassesSound, Ticks, Period
<1>D. due \in 0..MaxPeriod /\ period \in 0..MaxPeriod OBVIOUS
<1>P. ASSUME NEW p \in Slot, NEW q \in Passes, pass' = [pass EXCEPT ![p] = q]
      PROVE  pass' \in [Slot -> Passes]
  BY <1>P
<1>DueComes. CASE DueComes BY <1>DueComes DEF DueComes, Free, Passes
<1>PeriodPasses. CASE PeriodPasses BY <1>PeriodPasses DEF PeriodPasses
<1>DaemonRestart. CASE DaemonRestart
  <2>0. \A p \in Slot : [pass[p] EXCEPT !.by = "orphan"] \in Passes BY Reowned
  <2>0a. pass' \in [Slot -> Passes] BY <1>DaemonRestart, FreeIsPass, <2>0 DEF DaemonRestart
  <2>1. TypeOK' BY <1>DaemonRestart, <2>0a DEF DaemonRestart, Fault
  <2>2. PassesSound' BY <1>DaemonRestart DEF DaemonRestart, Fault, Free, Passes
  <2> QED BY <2>1, <2>2
<1>StartPass. ASSUME NEW p \in Slot, StartPass(p) PROVE Basic'
  <2>0. [Free EXCEPT !.pc = "name", !.due = due] \in Passes BY <1>D, Begun
  <2>0a. pass' \in [Slot -> Passes] BY <1>StartPass, <1>P, <2>0 DEF StartPass
  <2>1. TypeOK' BY <1>StartPass, <2>0a DEF StartPass
  <2>2. PassesSound' BY <1>StartPass DEF StartPass, Free, Passes
  <2> QED BY <2>1, <2>2
<1>NameIt. ASSUME NEW p \in Slot, NameIt(p) PROVE Basic'
  <2>1. Count(fires.all) \in Nat BY CountBounds
  <2>0. [pass[p] EXCEPT !.pc = "tree", !.name = period] \in Passes BY <1>D, Named
  <2>0a. pass' \in [Slot -> Passes] BY <1>NameIt, <1>P, <2>0 DEF NameIt
  <2>2. TypeOK' BY <1>NameIt, <2>0a, <2>1 DEF NameIt
  <2>3. PassesSound' BY <1>NameIt DEF NameIt, Free, Passes
  <2> QED BY <2>2, <2>3
<1>SpawnTree. ASSUME NEW p \in Slot, SpawnTree(p) PROVE Basic'
  <2>0. [pass[p] EXCEPT !.pc = "session"] \in Passes BY Advanced
  <2>0a. pass' \in [Slot -> Passes] BY <1>SpawnTree, <1>P, <2>0 DEF SpawnTree
  <2>0b. pass[p].name \in Period BY <1>SpawnTree DEF SpawnTree
  <2>0c. worker' \in [Period -> [alive : BOOLEAN, home : BOOLEAN]] BY <1>SpawnTree DEF SpawnTree
  <2>1. TypeOK' BY <1>SpawnTree, <2>0a, <2>0b, <2>0c DEF SpawnTree
  <2>2. PassesSound' BY <1>SpawnTree, SMTT(20) DEF SpawnTree, Free, Passes
  <2> QED BY <2>1, <2>2
<1>SpawnFails. ASSUME NEW p \in Slot, SpawnFails(p) PROVE Basic'
  BY <1>SpawnFails, SMTT(20) DEF SpawnFails, Free, Passes
<1>SpawnSession. ASSUME NEW p \in Slot, SpawnSession(p) PROVE Basic'
  <2>0. \A pc \in {"failed", "put"} : [pass[p] EXCEPT !.pc = pc] \in Passes BY Advanced
  <2>0a. PICK pc \in {"failed", "put"} : pass' = [pass EXCEPT ![p] = [@ EXCEPT !.pc = pc]]
    <3>1. CASE worker[pass[p].name].alive BY <1>SpawnSession, <3>1 DEF SpawnSession
    <3>2. CASE ~worker[pass[p].name].alive BY <1>SpawnSession, <3>2 DEF SpawnSession
    <3> QED BY <3>1, <3>2
  <2>0b. pass' \in [Slot -> Passes] BY <2>0a, <1>P, <2>0
  <2>0c. worker' \in [Period -> [alive : BOOLEAN, home : BOOLEAN]]
    <3>1. CASE worker[pass[p].name].alive BY <1>SpawnSession, <3>1 DEF SpawnSession
    <3>2. CASE ~worker[pass[p].name].alive
      <4>1. worker' = [worker EXCEPT ![pass[p].name] = [alive |-> TRUE, home |-> pass[p].name \in tree]]
        BY <1>SpawnSession, <3>2 DEF SpawnSession
      <4>2. [alive |-> TRUE, home |-> pass[p].name \in tree] \in [alive : BOOLEAN, home : BOOLEAN]
        BY Started
      <4> QED BY <4>1, <4>2
    <3> QED BY <3>1, <3>2
  <2>1. TypeOK' BY <1>SpawnSession, <2>0b, <2>0c DEF SpawnSession
  <2>2. PassesSound'
    <3>1. \A q \in Slot : /\ pass'[q].due = pass[q].due /\ pass'[q].by = pass[q].by
                          /\ pass'[q].name = pass[q].name
                          /\ q # p => pass'[q] = pass[q]
      BY <2>0a DEF Passes
    <3>2. pass[p].pc = "session" /\ pass'[p].pc \in {"failed", "put"}
      BY <1>SpawnSession, <2>0a DEF SpawnSession, Passes
    <3>3. due' = due BY <1>SpawnSession DEF SpawnSession
    <3>4. \A q \in Slot : pass'[q].pc \in {"free", "name"} => pass'[q] = pass[q] /\ q # p
      BY <3>1, <3>2
    <3>5. \A q \in Slot : pass'[q].pc \notin {"free", "name"} => pass'[q].name \in Period
      BY <3>1, <3>2
    <3>6. \A q \in Slot : Ticks(q)' => Ticks(q) BY <3>1, <3>2
    <3>7. \A q \in Slot : pass'[q].due <= due' BY <3>1, <3>3
    <3> QED BY <3>4, <3>5, <3>6, <3>7
  <2> QED BY <2>1, <2>2
<1>SpawnPut. ASSUME NEW p \in Slot, SpawnPut(p) PROVE Basic'
  BY <1>SpawnPut, SMTT(20) DEF SpawnPut, Free, Passes
<1>Ended. ASSUME NEW p \in Slot, Ended(p) PROVE fires' \in [all : Nat, ok : Nat, late : BOOLEAN]
  <2>1. Count(fires.ok) \in Nat BY CountBounds
  <2> QED BY <1>Ended, <2>1 DEF Ended
<1>RecordRun. ASSUME NEW p \in Slot, RecordRun(p) PROVE Basic'
  <2>1. fires' \in [all : Nat, ok : Nat, late : BOOLEAN] BY <1>RecordRun, <1>Ended DEF RecordRun
  <2>2. TypeOK' BY <1>RecordRun, <2>1 DEF RecordRun, Ended, Free, Passes
  <2>3. PassesSound' BY <1>RecordRun DEF RecordRun, Ended, Free, Passes
  <2> QED BY <2>2, <2>3
<1>OrphanEnds. ASSUME NEW p \in Slot, OrphanEnds(p) PROVE Basic'
  <2>1. fires' \in [all : Nat, ok : Nat, late : BOOLEAN] BY <1>OrphanEnds, <1>Ended DEF OrphanEnds
  <2>2. TypeOK' BY <1>OrphanEnds, <2>1 DEF OrphanEnds, Ended, Free, Passes
  <2>3. PassesSound' BY <1>OrphanEnds DEF OrphanEnds, Ended, Free, Passes
  <2> QED BY <2>2, <2>3
<1>GiveUpPass. ASSUME NEW p \in Slot, GiveUpPass(p) PROVE Basic'
  <2>0. [pass[p] EXCEPT !.by = "late"] \in Passes BY Reowned
  <2>0a. pass' \in [Slot -> Passes] BY <1>GiveUpPass, <1>P, <2>0 DEF GiveUpPass
  <2>1. TypeOK' BY <1>GiveUpPass, <2>0a DEF GiveUpPass, Fault
  <2>2. PassesSound' BY <1>GiveUpPass DEF GiveUpPass, Fault, Free, Passes
  <2> QED BY <2>1, <2>2
<1>WorkerEnds. ASSUME NEW n \in Period, WorkerEnds(n) PROVE Basic'
  BY <1>WorkerEnds DEF WorkerEnds, NoWorker
<1>Kill. ASSUME NEW n \in Period, Kill(n) PROVE Basic'
  BY <1>Kill DEF Kill, NoWorker
<1>Forget. ASSUME NEW n \in Period, Forget(n) PROVE Basic'
  BY <1>Forget DEF Forget
<1>Stutter. CASE UNCHANGED vars BY <1>Stutter DEF vars
<1> QED
  BY <1>DueComes, <1>PeriodPasses, <1>DaemonRestart, <1>StartPass, <1>NameIt, <1>SpawnTree,
     <1>SpawnFails, <1>SpawnSession, <1>SpawnPut, <1>RecordRun, <1>OrphanEnds, <1>GiveUpPass,
     <1>WorkerEnds, <1>Kill, <1>Forget, <1>Stutter DEF Next, Step

-----------------------------------------------------------------------------
(* How often it runs.                                                          *)

Quiet ==
    /\ Unnamed' = Unnamed /\ Late' = Late /\ Loose' = Loose
    /\ Refire' = Refire /\ Spare' = Spare
    /\ fires' = fires /\ faults' = faults /\ due' = due /\ once' = once

LEMMA QuietKeeps == Basic /\ AllBound /\ OkBound /\ Quiet => AllBound' /\ OkBound'
BY DEF Quiet, AllBound, OkBound

(* A step that leaves the passes and what they are measured by alone.          *)
LEMMA LeftAlone ==
    ASSUME UNCHANGED <<once, enabled, due, served, pass, fires, faults>>
    PROVE  Quiet
BY DEF Quiet, Unnamed, Late, Loose, Refire, Missed, Spare, Ticks

(* A pass that has its name comes further.                                     *)
LEMMA Onward ==
    ASSUME Basic, NEW p \in Slot, NEW pc \in {"session", "put", "done", "failed"},
           pass[p].pc \notin {"free", "name"},
           pass' = [pass EXCEPT ![p] = [@ EXCEPT !.pc = pc]],
           UNCHANGED <<once, enabled, due, served, fires, faults>>
    PROVE  Quiet
<1>1. \A q \in Slot : /\ pass'[q].due = pass[q].due /\ pass'[q].by = pass[q].by
                      /\ pass'[q].pc = "name" <=> pass[q].pc = "name"
                      /\ pass'[q].pc = "free" <=> pass[q].pc = "free"
  BY DEF Basic, TypeOK, Passes
<1>2. Unnamed' = Unnamed /\ Late' = Late /\ Loose' = Loose BY <1>1 DEF Unnamed, Late, Loose
<1>3. \A q \in Slot : Ticks(q)' <=> Ticks(q) BY <1>1 DEF Ticks
<1>4. Refire' = Refire BY <1>1, <1>3 DEF Refire, Missed
<1>5. Spare' = Spare BY <1>3 DEF Spare
<1> QED BY <1>2, <1>4, <1>5 DEF Quiet

LEMMA RefireBit == Refire \in {0, 1} /\ Refire' \in {0, 1} /\ Spare \in {0, 1} /\ Spare' \in {0, 1}
BY DEF Refire, Spare

LEMMA StepBounds == Basic /\ Basic' /\ AllBound /\ OkBound /\ [Next]_vars => AllBound' /\ OkBound'
<1> SUFFICES ASSUME Basic, Basic', AllBound, OkBound, [Next]_vars PROVE AllBound' /\ OkBound'
  OBVIOUS
<1>T. /\ fires \in [all : Nat, ok : Nat, late : BOOLEAN] /\ fires' \in [all : Nat, ok : Nat, late : BOOLEAN]
      /\ faults \in Nat /\ faults' \in Nat /\ due \in Nat /\ due' \in Nat
      /\ served \in Nat /\ served' \in Nat
      /\ once \in BOOLEAN /\ enabled \in BOOLEAN /\ enabled' \in BOOLEAN
  BY BoundsAssumption DEF Basic, TypeOK, Period
<1>DueComes. CASE DueComes
  <2>1. Unnamed' = Unnamed /\ Late' = Late /\ Loose' = Loose /\ Spare' = Spare
    BY <1>DueComes DEF DueComes, Unnamed, Late, Loose, Spare, Ticks
  <2>2. due' >= due + 1 BY <1>DueComes DEF DueComes, Basic, TypeOK, Period
  <2>3. fires' = fires /\ faults' = faults /\ once' = once BY <1>DueComes DEF DueComes
  <2> QED BY <2>1, <2>2, <2>3, <1>T, RefireBit, Finite DEF AllBound, OkBound
<1>PeriodPasses. CASE PeriodPasses
  BY <1>PeriodPasses, LeftAlone, QuietKeeps DEF PeriodPasses
<1>DaemonRestart. CASE DaemonRestart
  <2>1. faults' = faults + 1 /\ fires' = fires /\ due' = due /\ once' = once
    BY <1>DaemonRestart DEF DaemonRestart, Fault
  <2>2. \A q \in Slot : /\ pass'[q].pc # "name"
                        /\ pass'[q].by # "late" /\ ~Ticks(q)'
                        /\ pass'[q].pc # "free" => pass[q].pc # "free"
    BY <1>DaemonRestart DEF DaemonRestart, Ticks, Free, Basic, TypeOK, Passes
  <2>3. Unnamed' = {} /\ Late' = {} BY <2>2 DEF Unnamed, Late
  <2>4. AllBound' BY <2>1, <2>3, <1>T, RefireBit, Finite, FS_EmptySet DEF AllBound
  <2>5. CASE \E p \in Slot : Ticks(p)
    <3> PICK p \in Slot : Ticks(p) BY <2>5
    <3>1. Loose' \subseteq Loose \cup {p} BY <2>2 DEF Loose, Ticks, Basic, PassesSound
    <3>2. p \notin Loose BY DEF Loose, Ticks
    <3>3. Cardinality(Loose \cup {p}) = Cardinality(Loose) + 1 /\ IsFiniteSet(Loose \cup {p})
      BY <3>2, Finite, FS_AddElement
    <3>4. Cardinality(Loose') <= Cardinality(Loose) + 1 BY <3>1, <3>3, FS_Subset
    <3>5. Spare = 1 BY DEF Spare
    <3> QED BY <2>1, <2>4, <3>4, <3>5, <1>T, RefireBit, Finite, FiniteNext DEF OkBound
  <2>6. CASE ~\E p \in Slot : Ticks(p)
    <3>1. Loose' \subseteq Loose BY <2>2, <2>6 DEF Loose, Ticks
    <3>2. Cardinality(Loose') <= Cardinality(Loose) BY <3>1, Finite, FS_Subset
    <3> QED BY <2>1, <2>4, <3>2, <1>T, RefireBit, Finite, FiniteNext DEF OkBound
  <2> QED BY <2>5, <2>6
<1>StartPass. ASSUME NEW p \in Slot, StartPass(p) PROVE AllBound' /\ OkBound'
  <2>1. /\ fires' = fires /\ faults' = faults /\ due' = due /\ once' = once
        /\ served < due /\ enabled
    BY <1>StartPass DEF StartPass
  <2>2. /\ pass[p].pc = "free" /\ pass[p].by = "tick"
        /\ pass'[p].pc = "name" /\ pass'[p].by = "tick" /\ pass'[p].due = due
        /\ \A q \in Slot : q # p => pass'[q] = pass[q]
    BY <1>StartPass DEF StartPass, Free, Basic, TypeOK
  <2>3. \A q \in Slot : ~Ticks(q) BY <1>StartPass DEF StartPass, Ticks
  <2>4. \A q \in Slot : Ticks(q)' <=> q = p BY <2>2, <2>3 DEF Ticks
  <2>5. Refire = 1 BY <2>1, <2>3 DEF Refire, Missed
  <2>6. Refire' = 0 BY <2>1, <2>2, <2>4, <1>T DEF Refire, Missed
  <2>7. Unnamed' = Unnamed \cup {p} /\ p \notin Unnamed BY <2>2 DEF Unnamed
  <2>8. Late' = Late /\ Loose' = Loose BY <2>2 DEF Late, Loose
  <2>9. Cardinality(Unnamed') = Cardinality(Unnamed) + 1 BY <2>7, Finite, FS_AddElement
  <2>10. AllBound' BY <2>1, <2>5, <2>6, <2>8, <2>9, <1>T, Finite DEF AllBound
  <2>11. Spare = 1 BY <2>1 DEF Spare
  <2> QED BY <2>1, <2>8, <2>10, <2>11, <1>T, RefireBit, Finite DEF OkBound
<1>NameIt. ASSUME NEW p \in Slot, NameIt(p) PROVE AllBound' /\ OkBound'
  <2>1. /\ faults' = faults /\ due' = due /\ once' = once /\ enabled' = enabled /\ served' = served
        /\ fires'.ok = fires.ok /\ fires'.all <= fires.all + 1
    BY <1>NameIt, <1>T, CountBounds DEF NameIt
  <2>2. /\ pass[p].pc = "name" /\ pass'[p].pc = "tree"
        /\ pass'[p].by = pass[p].by /\ pass'[p].due = pass[p].due
        /\ \A q \in Slot : q # p => pass'[q] = pass[q]
    BY <1>NameIt DEF NameIt, Basic, TypeOK, Passes
  <2>3. \A q \in Slot : Ticks(q)' <=> Ticks(q) BY <2>2 DEF Ticks
  <2>4. Refire' = Refire BY <2>1, <2>2, <2>3 DEF Refire, Missed
  <2>5. Spare' = Spare BY <2>1, <2>3 DEF Spare
  <2>6. Unnamed' = Unnamed \ {p} /\ p \in Unnamed BY <2>2 DEF Unnamed
  <2>7. Late' = Late /\ Loose' = Loose BY <2>2 DEF Late, Loose
  <2>8. Cardinality(Unnamed') = Cardinality(Unnamed) - 1 BY <2>6, Finite, FS_RemoveElement
  <2>9. AllBound' BY <2>1, <2>4, <2>7, <2>8, <1>T, RefireBit, Finite, FiniteNext DEF AllBound
  <2> QED BY <2>1, <2>5, <2>7, <2>9 DEF OkBound
<1>SpawnTree. ASSUME NEW p \in Slot, SpawnTree(p) PROVE AllBound' /\ OkBound'
  BY <1>SpawnTree, Onward, QuietKeeps DEF SpawnTree
<1>SpawnFails. ASSUME NEW p \in Slot, SpawnFails(p) PROVE AllBound' /\ OkBound'
  BY <1>SpawnFails, Onward, QuietKeeps DEF SpawnFails
<1>SpawnSession. ASSUME NEW p \in Slot, SpawnSession(p) PROVE AllBound' /\ OkBound'
  BY <1>SpawnSession, Onward, QuietKeeps DEF SpawnSession
<1>SpawnPut. ASSUME NEW p \in Slot, SpawnPut(p) PROVE AllBound' /\ OkBound'
  BY <1>SpawnPut, Onward, QuietKeeps DEF SpawnPut
<1>Ended. ASSUME NEW p \in Slot, Ended(p)
          PROVE  /\ pass[p].pc \in {"done", "failed"} /\ pass'[p] = Free
                 /\ \A q \in Slot : q # p => pass'[q] = pass[q]
                 /\ Unnamed' = Unnamed
                 /\ fires'.all = fires.all
                 /\ fires'.ok <= fires.ok + 1
                 /\ pass[p].pc = "failed" => fires'.ok = fires.ok
  <2>1. /\ pass[p].pc \in {"done", "failed"} /\ pass'[p] = Free
        /\ \A q \in Slot : q # p => pass'[q] = pass[q]
    BY <1>Ended DEF Ended, Basic, TypeOK
  <2>2. Unnamed' = Unnamed BY <2>1 DEF Unnamed, Free
  <2>3. /\ fires'.all = fires.all /\ fires'.ok <= fires.ok + 1
        /\ pass[p].pc = "failed" => fires'.ok = fires.ok
    BY <1>Ended, <1>T, CountBounds DEF Ended
  <2> QED BY <2>1, <2>2, <2>3
<1>RecordRun. ASSUME NEW p \in Slot, RecordRun(p) PROVE AllBound' /\ OkBound'
  <2>0. Ended(p) BY <1>RecordRun DEF RecordRun
  <2>1. /\ faults' = faults /\ due' = due /\ once' = once /\ served' = pass[p].due
        /\ pass[p].by # "orphan"
        /\ enabled' => enabled /\ ~(once /\ pass[p].pc = "done")
    BY <1>RecordRun, <1>T DEF RecordRun
  <2>2. CASE pass[p].by = "tick"
    <3>1. Ticks(p) BY <2>0, <2>2, <1>Ended DEF Ticks
    <3>2. \A q \in Slot : Ticks(q) <=> q = p BY <3>1 DEF Basic, PassesSound
    <3>3. \A q \in Slot : ~Ticks(q)' BY <2>0, <3>2, <1>Ended DEF Ticks, Free
    <3>4. Refire' = Refire BY <2>1, <3>2, <3>3 DEF Refire, Missed
    <3>5. Late' = Late /\ Loose' = Loose BY <2>0, <2>2, <1>Ended DEF Late, Loose, Free
    <3>6. AllBound' BY <2>0, <2>1, <3>4, <3>5, <1>Ended DEF AllBound
    <3>7. Spare = 1 BY <3>1 DEF Spare
    <3>8. once /\ pass[p].pc = "done" => Spare' = 0 BY <2>1, <3>3 DEF Spare
    <3>9. fires'.ok + Spare' <= fires.ok + Spare \/ ~once
      BY <2>0, <3>7, <3>8, <1>Ended, <1>T, RefireBit
    <3> QED BY <2>1, <3>5, <3>6, <3>9, <1>T, RefireBit, Finite DEF OkBound
  <2>3. CASE pass[p].by = "late"
    <3>1. \A q \in Slot : Ticks(q)' <=> Ticks(q) BY <2>0, <2>3, <1>Ended DEF Ticks, Free
    <3>2. Late' = Late \ {p} /\ p \in Late BY <2>0, <2>3, <1>Ended DEF Late, Free
    <3>3. Loose' = Loose \ {p} /\ p \in Loose BY <2>0, <2>3, <1>Ended DEF Loose, Free
    <3>4. /\ Cardinality(Late') = Cardinality(Late) - 1
          /\ Cardinality(Loose') = Cardinality(Loose) - 1
      BY <3>2, <3>3, Finite, FS_RemoveElement
    <3>5. Spare' <= Spare BY <2>1, <3>1 DEF Spare
    <3>6. AllBound' BY <2>0, <2>1, <3>4, <1>Ended, <1>T, RefireBit, Finite, FiniteNext DEF AllBound
    <3> QED BY <2>0, <2>1, <3>4, <3>5, <3>6, <1>Ended, <1>T, RefireBit, Finite, FiniteNext DEF OkBound
  <2> QED BY <2>1, <2>2, <2>3 DEF Basic, TypeOK, Passes
<1>OrphanEnds. ASSUME NEW p \in Slot, OrphanEnds(p) PROVE AllBound' /\ OkBound'
  <2>0. Ended(p) BY <1>OrphanEnds DEF OrphanEnds
  <2>1. /\ faults' = faults /\ due' = due /\ once' = once /\ served' = served
        /\ pass[p].by = "orphan" /\ enabled' = enabled
    BY <1>OrphanEnds DEF OrphanEnds
  <2>2. \A q \in Slot : Ticks(q)' <=> Ticks(q) BY <2>0, <2>1, <1>Ended DEF Ticks, Free
  <2>3. \A q \in Slot : Ticks(q) => pass'[q] = pass[q] BY <2>0, <2>1, <1>Ended DEF Ticks
  <2>4. Refire' = Refire /\ Spare' = Spare BY <2>1, <2>2, <2>3 DEF Refire, Missed, Spare
  <2>5. Late' = Late BY <2>0, <2>1, <1>Ended DEF Late, Free
  <2>6. Loose' = Loose \ {p} /\ p \in Loose BY <2>0, <2>1, <1>Ended DEF Loose, Free
  <2>7. Cardinality(Loose') = Cardinality(Loose) - 1 BY <2>6, Finite, FS_RemoveElement
  <2>8. AllBound' BY <2>0, <2>1, <2>4, <2>5, <1>Ended DEF AllBound
  <2> QED BY <2>0, <2>1, <2>4, <2>7, <2>8, <1>Ended, <1>T, RefireBit, Finite, FiniteNext DEF OkBound
<1>GiveUpPass. ASSUME NEW p \in Slot, GiveUpPass(p) PROVE AllBound' /\ OkBound'
  <2>1. faults' = faults + 1 /\ fires' = fires /\ due' = due /\ once' = once /\ enabled' = enabled
    BY <1>GiveUpPass DEF GiveUpPass, Fault
  <2>2. /\ Ticks(p) /\ pass'[p].by = "late" /\ pass'[p].pc = pass[p].pc
        /\ \A q \in Slot : q # p => pass'[q] = pass[q]
    BY <1>GiveUpPass DEF GiveUpPass, Ticks, Basic, TypeOK, Passes
  <2>3. Unnamed' = Unnamed BY <2>2 DEF Unnamed
  <2>4. Late' = Late \cup {p} /\ p \notin Late BY <2>2 DEF Late, Ticks
  <2>5. Loose' = Loose \cup {p} /\ p \notin Loose BY <2>2 DEF Loose, Ticks
  <2>6. /\ Cardinality(Late') = Cardinality(Late) + 1
        /\ Cardinality(Loose') = Cardinality(Loose) + 1
    BY <2>4, <2>5, Finite, FS_AddElement
  <2>7. Spare = 1 BY <2>2 DEF Spare
  <2>8. AllBound' BY <2>1, <2>3, <2>6, <1>T, RefireBit, Finite DEF AllBound
  <2> QED BY <2>1, <2>6, <2>7, <2>8, <1>T, RefireBit, Finite DEF OkBound
<1>WorkerEnds. ASSUME NEW n \in Period, WorkerEnds(n) PROVE AllBound' /\ OkBound'
  BY <1>WorkerEnds, LeftAlone, QuietKeeps DEF WorkerEnds
<1>Kill. ASSUME NEW n \in Period, Kill(n) PROVE AllBound' /\ OkBound'
  BY <1>Kill, LeftAlone, QuietKeeps DEF Kill
<1>Forget. ASSUME NEW n \in Period, Forget(n) PROVE AllBound' /\ OkBound'
  BY <1>Forget, LeftAlone, QuietKeeps DEF Forget
<1>Stutter. CASE UNCHANGED vars BY <1>Stutter, LeftAlone, QuietKeeps DEF vars
<1> QED
  BY <1>DueComes, <1>PeriodPasses, <1>DaemonRestart, <1>StartPass, <1>NameIt, <1>SpawnTree,
     <1>SpawnFails, <1>SpawnSession, <1>SpawnPut, <1>RecordRun, <1>OrphanEnds, <1>GiveUpPass,
     <1>WorkerEnds, <1>Kill, <1>Forget, <1>Stutter DEF Next, Step

-----------------------------------------------------------------------------
(* What bears a name.                                                          *)

Untroubled == faults = 0 /\ ~fires.late

(* The pass that is about to make n is the first to have that name.            *)
LEMMA NameIsNew ==
    ASSUME Basic, Calm, Untroubled, NEW p \in Slot, pass[p].pc \in {"tree", "session"}
    PROVE  /\ pass[p].name \in Period
           /\ ~worker[pass[p].name].alive /\ ~worker[pass[p].name].home
           /\ pass[p].name \notin reap
<1>1. pass[p].name \in Period BY DEF Basic, PassesSound
<1>2. Ticks(p) /\ pass[p].name = pass[p].due /\ served < pass[p].due
  BY DEF Calm, Untroubled, Ticks
<1>3. \A q \in Slot : pass[q].pc \in {"put", "done"} => q # p /\ Ticks(q)
  BY DEF Calm, Untroubled, Ticks
<1>4. \A q \in Slot : pass[q].pc \notin {"put", "done"}
  BY <1>2, <1>3 DEF Basic, PassesSound
<1>5. served \in Nat /\ pass[p].name \in Nat BY <1>1 DEF Basic, TypeOK, Period
<1>6. ~Past(pass[p].name, {"put", "done"}) /\ ~Past(pass[p].name, {"done"})
  BY <1>2, <1>4, <1>5 DEF Past
<1> QED BY <1>1, <1>6 DEF Calm, Untroubled

(* A step by which no pass falls back and served does not shrink.              *)
LEMMA PastKept ==
    ASSUME NEW n \in Nat, NEW pcs, served \in Nat, served' \in Nat, served <= served', Past(n, pcs),
           \A p \in Slot : pass[p].name = n /\ pass[p].pc \in pcs
                => n <= served' \/ (pass'[p].name = n /\ pass'[p].pc \in pcs)
    PROVE  Past(n, pcs)'
BY DEF Past

LEMMA StepCalm == Basic /\ Basic' /\ Calm /\ [Next]_vars => Calm'
<1> SUFFICES ASSUME Basic, Basic', Calm, [Next]_vars, Untroubled' PROVE Calm'
  BY DEF Calm, Untroubled
<1>T. /\ served \in Nat /\ served' \in Nat /\ period \in Nat /\ faults \in Nat /\ Period \subseteq Nat
      /\ listed \subseteq Period /\ reap \subseteq Period
      /\ pass \in [Slot -> Passes] /\ worker \in [Period -> [alive : BOOLEAN, home : BOOLEAN]]
  BY BoundsAssumption DEF Basic, TypeOK, Period
<1>Apart. ASSUME UNCHANGED <<served, pass, faults, fires>>,
                 \A n \in Period : worker'[n].alive => worker[n].alive,
                 \A n \in Period : worker'[n].home => worker[n].home,
                 listed' \subseteq listed, reap' \subseteq listed \cup reap,
                 \A n \in reap' : worker'[n] = NoWorker
          PROVE  Calm'
  <2>1. Untroubled BY <1>Apart DEF Untroubled
  <2>2. \A n : \A pcs : Past(n, pcs)' <=> Past(n, pcs) BY <1>Apart DEF Past
  <2>3. \A n \in listed \cup reap : Past(n, {"done"}) BY <2>1 DEF Calm, Untroubled
  <2> QED BY <1>Apart, <1>T, <2>1, <2>2, <2>3 DEF Calm, Untroubled, Ticks
<1>DueComes. CASE DueComes
  <2>1. \A n \in reap : worker[n] = NoWorker
    BY <1>DueComes DEF DueComes, Calm, Untroubled
  <2> QED BY <1>DueComes, <1>Apart, <2>1 DEF DueComes
<1>PeriodPasses. CASE PeriodPasses
  <2>1. \A n \in reap : worker[n] = NoWorker
    BY <1>PeriodPasses DEF PeriodPasses, Calm, Untroubled
  <2> QED BY <1>PeriodPasses, <1>Apart, <2>1 DEF PeriodPasses
<1>DaemonRestart. CASE DaemonRestart
  BY <1>DaemonRestart, <1>T DEF DaemonRestart, Fault, Untroubled
<1>StartPass. ASSUME NEW p \in Slot, StartPass(p) PROVE Calm'
  <2>1. Untroubled BY <1>StartPass DEF StartPass, Untroubled
  <2>2. /\ pass[p].pc = "free" /\ pass'[p].pc = "name" /\ pass'[p].by = "tick"
        /\ pass'[p].due = due /\ served < due
        /\ \A q \in Slot : q # p => pass'[q] = pass[q]
    BY <1>StartPass, <1>T DEF StartPass, Free
  <2>3. UNCHANGED <<served, worker, listed, reap>> BY <1>StartPass DEF StartPass
  <2>0. \A q \in Slot : pass[q].pc \in {"put", "done"} => pass'[q] = pass[q]
    BY <2>2
  <2>4. \A n \in Period : Past(n, {"put", "done"}) => Past(n, {"put", "done"})'
    BY <2>0, <2>3, <1>T DEF Past
  <2>5. \A n \in Period : Past(n, {"done"}) => Past(n, {"done"})'
    BY <2>0, <2>3, <1>T DEF Past
  <2> QED BY <2>1, <2>2, <2>3, <2>4, <2>5, <1>T DEF Calm, Untroubled, Ticks
<1>NameIt. ASSUME NEW p \in Slot, NameIt(p) PROVE Calm'
  <2>1. faults' = faults /\ fires'.late = (fires.late \/ pass[p].due # period)
    BY <1>NameIt DEF NameIt, Basic, TypeOK
  <2>2. Untroubled /\ pass[p].due = period BY <2>1 DEF Untroubled
  <2>3. /\ pass[p].pc = "name" /\ pass'[p].pc = "tree" /\ pass'[p].by = pass[p].by
        /\ pass'[p].due = pass[p].due /\ pass'[p].name = period
        /\ \A q \in Slot : q # p => pass'[q] = pass[q]
    BY <1>NameIt, <1>T DEF NameIt, Passes
  <2>4. UNCHANGED <<served, worker, listed, reap>> BY <1>NameIt DEF NameIt
  <2>5. \A n \in Period : Past(n, {"put", "done"}) => Past(n, {"put", "done"})'
    BY <2>3, <2>4, <1>T, PastKept
  <2>6. \A n \in Period : Past(n, {"done"}) => Past(n, {"done"})'
    BY <2>3, <2>4, <1>T, PastKept
  <2> QED BY <2>2, <2>3, <2>4, <2>5, <2>6, <1>T DEF Calm, Untroubled, Ticks
<1>Onward. ASSUME NEW p \in Slot, NEW pc \in {"session", "put", "done", "failed"},
                  pass[p].pc \in {"tree", "session", "put"}, pass[p].pc = "put" => pc = "done",
                  pass' = [pass EXCEPT ![p] = [@ EXCEPT !.pc = pc]],
                  UNCHANGED <<served, fires, faults, reap>>,
                  \A n \in Period : worker'[n].alive =>
                      worker[n].alive \/ (n = pass[p].name /\ pc = "put"),
                  \A n \in Period : worker'[n].home =>
                      worker[n].home \/ (n = pass[p].name /\ pc = "put"),
                  \A n \in listed' : n \in listed \/ (n = pass[p].name /\ pc = "done"),
                  \A n \in reap : worker'[n] = NoWorker
           PROVE  Calm'
  <2>1. Untroubled BY <1>Onward DEF Untroubled
  <2>2. /\ pass'[p].pc = pc /\ pass'[p].by = pass[p].by
        /\ pass'[p].due = pass[p].due /\ pass'[p].name = pass[p].name
        /\ \A q \in Slot : q # p => pass'[q] = pass[q]
    BY <1>Onward, <1>T DEF Passes
  <2>3. \A n \in Period : Past(n, {"put", "done"}) => Past(n, {"put", "done"})'
    BY <2>2, <1>Onward, <1>T, PastKept
  <2>4. \A n \in Period : Past(n, {"done"}) => Past(n, {"done"})'
    BY <2>2, <1>Onward, <1>T, PastKept
  <2>5. pc = "put" => Past(pass[p].name, {"put", "done"})' BY <2>2 DEF Past
  <2>6. pc = "done" => Past(pass[p].name, {"done"})' BY <2>2 DEF Past
  <2>7. listed' \subseteq Period BY DEF Basic, TypeOK
  <2>8. \A q \in Slot : pass'[q].by = "tick" BY <2>1, <2>2 DEF Calm, Untroubled
  <2>9. \A q \in Slot : Ticks(q)' => served' < pass'[q].due
    BY <2>1, <2>2, <1>Onward DEF Calm, Untroubled, Ticks
  <2>10. \A q \in Slot : pass'[q].pc \notin {"free", "name"} => pass'[q].name = pass'[q].due
    BY <2>1, <2>2, <1>Onward DEF Calm, Untroubled
  <2>11. \A n \in Period : worker'[n].alive \/ worker'[n].home => Past(n, {"put", "done"})'
    BY <2>1, <2>3, <2>5, <1>Onward DEF Calm, Untroubled
  <2>12. \A n \in listed' : Past(n, {"done"})'
    BY <2>1, <2>4, <2>6, <2>7, <1>Onward DEF Calm, Untroubled
  <2>13. \A n \in reap' : Past(n, {"done"})' /\ worker'[n] = NoWorker
    BY <2>1, <2>4, <1>Onward, <1>T, SMTT(20) DEF Calm, Untroubled
  <2> QED BY <2>8, <2>9, <2>10, <2>11, <2>12, <2>13 DEF Calm
<1>SpawnTree. ASSUME NEW p \in Slot, SpawnTree(p) PROVE Calm'
  <2>1. Untroubled BY <1>SpawnTree DEF SpawnTree, Untroubled
  <2>2. pass[p].pc = "tree" BY <1>SpawnTree DEF SpawnTree
  <2>3. \A n \in Period : worker'[n].alive = worker[n].alive /\ (worker'[n].home => worker[n].home)
    BY <1>SpawnTree, <1>T DEF SpawnTree
  <2>4. \A n \in reap : worker'[n] = NoWorker
    BY <1>SpawnTree, <1>T, <2>1, <2>2, NameIsNew DEF SpawnTree, Calm, Untroubled
  <2> QED BY <1>SpawnTree, <1>Onward, <2>2, <2>3, <2>4 DEF SpawnTree
<1>SpawnFails. ASSUME NEW p \in Slot, SpawnFails(p) PROVE Calm'
  <2>1. \A n \in reap : worker[n] = NoWorker
    BY <1>SpawnFails DEF SpawnFails, Calm, Untroubled
  <2> QED BY <1>SpawnFails, <1>Onward, <2>1 DEF SpawnFails
<1>SpawnSession. ASSUME NEW p \in Slot, SpawnSession(p) PROVE Calm'
  <2>1. Untroubled BY <1>SpawnSession DEF SpawnSession, Untroubled
  <2>2. pass[p].pc = "session" BY <1>SpawnSession DEF SpawnSession
  <2>3. ~worker[pass[p].name].alive /\ pass[p].name \notin reap BY <2>1, <2>2, NameIsNew
  <2>4. /\ pass' = [pass EXCEPT ![p].pc = "put"]
        /\ UNCHANGED <<served, fires, faults, reap, listed>>
    BY <1>SpawnSession, <2>3 DEF SpawnSession
  <2>5. \A n \in Period : n # pass[p].name => worker'[n] = worker[n]
    BY <1>SpawnSession, <2>3, <1>T DEF SpawnSession
  <2>6. \A n \in reap : worker'[n] = NoWorker BY <2>1, <2>3, <2>5, <1>T DEF Calm, Untroubled
  <2> QED BY <1>Onward, <2>2, <2>4, <2>5, <2>6
<1>SpawnPut. ASSUME NEW p \in Slot, SpawnPut(p) PROVE Calm'
  <2>1. \A n \in reap : worker[n] = NoWorker
    BY <1>SpawnPut DEF SpawnPut, Calm, Untroubled
  <2> QED BY <1>SpawnPut, <1>Onward, <2>1 DEF SpawnPut
<1>RecordRun. ASSUME NEW p \in Slot, RecordRun(p) PROVE Calm'
  <2>1. faults' = faults /\ fires'.late = fires.late
    BY <1>RecordRun DEF RecordRun, Ended, Basic, TypeOK
  <2>2. Untroubled BY <2>1 DEF Untroubled
  <2>3. /\ pass[p].pc \in {"done", "failed"} /\ pass'[p] = Free /\ served' = pass[p].due
        /\ \A q \in Slot : q # p => pass'[q] = pass[q]
    BY <1>RecordRun, <1>T DEF RecordRun, Ended
  <2>4. UNCHANGED <<worker, listed, reap>> BY <1>RecordRun DEF RecordRun
  <2>5. /\ \A q \in Slot : Ticks(q) => q = p
        /\ served < served' /\ pass[p].name = served'
    BY <2>2, <2>3 DEF Calm, Untroubled, Ticks, Basic, PassesSound
  <2>6. \A n \in Period : Past(n, {"put", "done"}) => Past(n, {"put", "done"})'
    BY <2>3, <2>5, <1>T, PastKept
  <2>7. \A n \in Period : Past(n, {"done"}) => Past(n, {"done"})'
    BY <2>3, <2>5, <1>T, PastKept
  <2>8. \A q \in Slot : pass'[q].by = "tick" /\ ~Ticks(q)'
    BY <2>2, <2>3, <2>5 DEF Calm, Untroubled, Ticks, Free
  <2>9. \A q \in Slot : pass'[q].pc \notin {"free", "name"} => pass'[q].name = pass'[q].due
    BY <2>2, <2>3 DEF Calm, Untroubled, Free
  <2> QED BY <2>2, <2>4, <2>6, <2>7, <2>8, <2>9, <1>T DEF Calm, Untroubled
<1>OrphanEnds. ASSUME NEW p \in Slot, OrphanEnds(p) PROVE Calm'
  <2>1. faults' = faults /\ fires'.late = fires.late
    BY <1>OrphanEnds DEF OrphanEnds, Ended, Basic, TypeOK
  <2> QED BY <1>OrphanEnds, <2>1 DEF OrphanEnds, Calm, Untroubled
<1>GiveUpPass. ASSUME NEW p \in Slot, GiveUpPass(p) PROVE Calm'
  BY <1>GiveUpPass, <1>T DEF GiveUpPass, Fault, Untroubled
<1>WorkerEnds. ASSUME NEW n \in Period, WorkerEnds(n) PROVE Calm'
  <2>1. \A m \in Period : worker'[m] = worker[m] \/ worker'[m] = NoWorker
    BY <1>WorkerEnds, <1>T DEF WorkerEnds
  <2>2. \A m \in reap : worker[m] = NoWorker
    BY <1>WorkerEnds DEF WorkerEnds, Calm, Untroubled
  <2> QED BY <1>WorkerEnds, <1>Apart, <1>T, <2>1, <2>2 DEF WorkerEnds, NoWorker
<1>Kill. ASSUME NEW n \in Period, Kill(n) PROVE Calm'
  <2>1. \A m \in Period : worker'[m] = IF m = n THEN NoWorker ELSE worker[m]
    BY <1>Kill, <1>T DEF Kill
  <2>2. \A m \in reap : worker[m] = NoWorker BY <1>Kill DEF Kill, Calm, Untroubled
  <2>3. \A m \in reap' : worker'[m] = NoWorker BY <1>Kill, <1>T, <2>1, <2>2 DEF Kill
  <2> QED BY <1>Kill, <1>Apart, <1>T, <2>1, <2>3 DEF Kill, NoWorker
<1>Forget. ASSUME NEW n \in Period, Forget(n) PROVE Calm'
  <2>1. \A m \in reap : worker[m] = NoWorker BY <1>Forget DEF Forget, Calm, Untroubled
  <2>2. /\ \A m \in Period : m # n => worker'[m] = worker[m]
        /\ worker'[n].alive = worker[n].alive /\ ~worker'[n].home
    BY <1>Forget, <1>T DEF Forget
  <2>3. \A m \in reap' : worker'[m] = NoWorker BY <1>Forget, <1>T, <2>1, <2>2 DEF Forget
  <2> QED BY <1>Forget, <1>Apart, <1>T, <2>2, <2>3 DEF Forget
<1>Stutter. CASE UNCHANGED vars
  <2>1. \A n \in reap : worker[n] = NoWorker BY <1>Stutter DEF vars, Calm, Untroubled
  <2> QED BY <1>Stutter, <1>Apart, <2>1 DEF vars
<1> QED
  BY <1>DueComes, <1>PeriodPasses, <1>DaemonRestart, <1>StartPass, <1>NameIt, <1>SpawnTree,
     <1>SpawnFails, <1>SpawnSession, <1>SpawnPut, <1>RecordRun, <1>OrphanEnds, <1>GiveUpPass,
     <1>WorkerEnds, <1>Kill, <1>Forget, <1>Stutter DEF Next, Step

-----------------------------------------------------------------------------

LEMMA StepInv == IInv /\ [Next]_vars => IInv'
BY StepBasic, StepBounds, StepCalm DEF IInv

LEMMA Invariant == Spec => []IInv
<1>1. IInv /\ [Next]_vars => IInv' BY StepInv
<1> QED BY <1>1, InitInv, PTL DEF Spec

(* The bounds, from what can still happen.                                     *)
LEMMA Bounded == IInv => BoundedFires
<1> SUFFICES ASSUME IInv PROVE BoundedFires OBVIOUS
<1>1. /\ fires.all \in Nat /\ fires.ok \in Nat /\ faults \in Nat /\ due \in Nat
  BY BoundsAssumption DEF IInv, Basic, TypeOK, Period
<1>2. fires.all <= due + 2 * faults BY <1>1, Finite, RefireBit DEF IInv, AllBound
<1>3. once => fires.ok <= 1 + 2 * faults BY <1>1, Finite, RefireBit DEF IInv, OkBound
<1> QED BY <1>2, <1>3 DEF BoundedFires

(* Only a new worktree of the same name and the end of a teardown take a       *)
(* worktree away, and neither meets a worker while nothing failed.             *)
Wiped(n) == worker[n].home /\ worker'[n].alive /\ ~worker'[n].home

LEMMA NotWiped ==
    ASSUME IInv, [Next]_vars, NEW n \in Period, Wiped(n)
    PROVE  faults > 0 \/ fires.late
<1> SUFFICES ASSUME Untroubled PROVE FALSE
  BY BoundsAssumption DEF IInv, Basic, TypeOK, Untroubled
<1>T. worker \in [Period -> [alive : BOOLEAN, home : BOOLEAN]] BY DEF IInv, Basic, TypeOK
<1>1. UNCHANGED worker => FALSE BY DEF Wiped
<1>SpawnTree. ASSUME NEW p \in Slot, SpawnTree(p) PROVE FALSE
  <2>1. ~worker[pass[p].name].home BY <1>SpawnTree, NameIsNew DEF SpawnTree, IInv
  <2> QED BY <1>SpawnTree, <1>T, <2>1 DEF SpawnTree, Wiped
<1>SpawnSession. ASSUME NEW p \in Slot, SpawnSession(p) PROVE FALSE
  <2>1. ~worker[pass[p].name].alive /\ ~worker[pass[p].name].home
    BY <1>SpawnSession, NameIsNew DEF SpawnSession, IInv
  <2>2. worker'[n] = worker[n] \/ n = pass[p].name
    BY <1>SpawnSession, <2>1, <1>T DEF SpawnSession
  <2> QED BY <2>1, <2>2 DEF Wiped
<1>WorkerEnds. ASSUME NEW m \in Period, WorkerEnds(m) PROVE FALSE
  BY <1>WorkerEnds, <1>T DEF WorkerEnds, NoWorker, Wiped
<1>Kill. ASSUME NEW m \in Period, Kill(m) PROVE FALSE
  BY <1>Kill, <1>T DEF Kill, NoWorker, Wiped
<1>Forget. ASSUME NEW m \in Period, Forget(m) PROVE FALSE
  <2>1. worker[m] = NoWorker BY <1>Forget, SMTT(20) DEF Forget, IInv, Calm, Untroubled
  <2> QED BY <1>Forget, <1>T, <2>1 DEF Forget, NoWorker, Wiped
<1>Others. \/ UNCHANGED worker
           \/ \E p \in Slot : SpawnTree(p) \/ SpawnSession(p)
           \/ \E m \in Period : WorkerEnds(m) \/ Kill(m) \/ Forget(m)
  BY DEF Next, Step, vars, DueComes, PeriodPasses, DaemonRestart, StartPass, NameIt, SpawnFails,
         SpawnPut, RecordRun, OrphanEnds, GiveUpPass
<1> QED BY <1>1, <1>SpawnTree, <1>SpawnSession, <1>WorkerEnds, <1>Kill, <1>Forget, <1>Others

(* For any number of periods, passes and faults, whatever order the daemon's   *)
(* passes, the aoc processes they left behind, restarts and teardowns take: a  *)
(* schedule runs once for each time it fell due and at most twice more for     *)
(* each restart or late pass, a Once schedule likewise, and a running worker   *)
(* keeps its worktree as long as nothing failed and no name was late.          *)
THEOREM RunsForCause == Spec => FiresForCause
<1>1. IInv => TypeOK /\ BoundedFires BY Bounded DEF IInv, Basic
<1>2. IInv /\ [Next]_vars
      => [\A n \in Period : worker[n].home /\ worker'[n].alive /\ ~worker'[n].home
                            => faults > 0 \/ fires.late]_vars
  BY NotWiped DEF Wiped
<1> QED BY <1>1, <1>2, Invariant, PTL DEF Spec, FiresForCause, WipedForCause

-----------------------------------------------------------------------------
(* GraceReaper.                                                                *)

(* Nothing, or that a turn is going on.                                        *)
Says(p) == p = Nothing \/ p.tempo = "active"

(* Within a turn only its own start can be on its way in the lane of the turns;*)
(* what was sent within some turn says so; and once a heartbeat of this turn   *)
(* has landed, so do the bucket and the next heartbeat.                        *)
GraceInv ==
    /\ agent.turn => agent.alive /\ agent.turns > 0 /\ Says(sent["turn"])
    /\ sent["beat"] # Nothing /\ sent["beat"].turn > 0 => Says(sent["beat"])
    /\ agent.steady => agent.turn /\ Says(sent["beat"]) /\ Says(entry)

LEMMA GraceInit == ReaperInit => ReaperTypes /\ GraceInv
<1> SUFFICES ASSUME ReaperInit PROVE ReaperTypes /\ GraceInv
  OBVIOUS
<1>1. agent = Dead /\ ~agent.turn /\ ~agent.steady
  BY DEF ReaperInit, Dead
<1>2. Dead \in [alive : BOOLEAN, turn : BOOLEAN, steady : BOOLEAN, turns : 0..MaxTurns]
  BY ReaperAssumption DEF Dead
<1>3. \A l \in Lane : sent[l] = Nothing
  BY DEF ReaperInit
<1>4. sent \in [Lane -> Sends \cup {Nothing}]
  BY DEF ReaperInit
<1>5. spawns \in 0..MaxSpawns /\ failures \in 0..MaxFailures
  BY ReaperAssumption DEF ReaperInit
<1>6. ReaperTypes
  BY <1>1, <1>2, <1>4, <1>5 DEF ReaperInit, ReaperTypes
<1> QED BY <1>1, <1>3, <1>6 DEF GraceInv, Lane

(* What a publication is, whatever there is in the bucket.                     *)
LEMMA PublicationType ==
  ASSUME ReaperTypes, NEW tempo \in {"active", "blocked"}
  PROVE  /\ Publication(tempo) \in Sends
         /\ Publication(tempo).tempo = tempo
         /\ Publication(tempo) # Nothing
         /\ Publication(tempo).turn > 0 => agent.turn
<1>1. Publication(tempo) \in Sends
  <2>1. (entry # Nothing /\ entry.ephemeral) \in BOOLEAN
    OBVIOUS
  <2>2. (IF agent.turn THEN agent.turns ELSE 0) \in 0..MaxTurns
    BY ReaperAssumption DEF ReaperTypes
  <2> QED BY <2>1, <2>2 DEF Publication, Sends
<1>2. Publication(tempo).tempo = tempo
  BY DEF Publication
<1>3. Publication(tempo).turn > 0 => agent.turn
  BY DEF Publication
<1> QED BY <1>1, <1>2, <1>3 DEF Nothing

LEMMA GraceTypeStep == ReaperTypes /\ [ReaperNext]_reaperVars => ReaperTypes'
<1> SUFFICES ASSUME ReaperTypes, [ReaperNext]_reaperVars PROVE ReaperTypes'
  OBVIOUS
<1> DEFINE Agents == [alive : BOOLEAN, turn : BOOLEAN, steady : BOOLEAN, turns : 0..MaxTurns]
<1>d. Dead \in Agents /\ [Dead EXCEPT !.alive = TRUE] \in Agents
  <2>1. Dead \in Agents
    BY ReaperAssumption DEF Dead
  <2> QED BY <2>1
<1>0. /\ dated \in BOOLEAN /\ spawns \in 0..MaxSpawns /\ put \in BOOLEAN
      /\ agent \in Agents /\ sent \in [Lane -> Sends \cup {Nothing}]
      /\ entry \in EntryType \cup {Nothing}
      /\ mr \in {"untracked", "watched", "post_merge"}
      /\ timer \in {"none", "armed", "spent"} /\ stray \in BOOLEAN
      /\ teardown \in {"none", "due", "condemned", "killed"}
      /\ failures \in 0..MaxFailures
  BY DEF ReaperTypes
<1>s. \A tempo \in {"active", "blocked"} : \A l \in Lane :
        [sent EXCEPT ![l] = Publication(tempo)] \in [Lane -> Sends \cup {Nothing}]
  BY <1>0, PublicationType
<1>n. \A l \in Lane :
        [sent EXCEPT ![l] = Nothing] \in [Lane -> Sends \cup {Nothing}]
  BY <1>0
<1>1. CASE UNCHANGED reaperVars
  BY <1>0, <1>1 DEF ReaperTypes, reaperVars, gc
<1>2. CASE SpawnAgent
  BY <1>0, <1>d, <1>2, ReaperAssumption DEF ReaperTypes, SpawnAgent, gc
<1>3. CASE PutEntry
  <2>1. entry' \in EntryType
    BY <1>3 DEF PutEntry, EntryType
  <2> QED BY <1>0, <1>3, <2>1 DEF ReaperTypes, PutEntry, gc
<1>4. CASE TurnStarts
  <2>1. agent' \in Agents
    <3>1. agent.turns + 1 \in 0..MaxTurns
      BY <1>0, <1>4, ReaperAssumption DEF TurnStarts
    <3> QED BY <1>0, <1>4, <3>1 DEF TurnStarts
  <2>2. sent' \in [Lane -> Sends \cup {Nothing}]
    BY <1>4, <1>s DEF TurnStarts, Lane
  <2> QED BY <1>0, <1>4, <2>1, <2>2 DEF ReaperTypes, TurnStarts, gc
<1>5. CASE TurnEnds
  <2>1. agent' \in Agents
    BY <1>0, <1>5 DEF TurnEnds
  <2>2. sent' \in [Lane -> Sends \cup {Nothing}]
    BY <1>5, <1>s DEF TurnEnds, Lane
  <2> QED BY <1>0, <1>5, <2>1, <2>2 DEF ReaperTypes, TurnEnds, gc
<1>6. CASE Quit
  BY <1>0, <1>d, <1>6 DEF ReaperTypes, Quit, gc
<1>7. CASE Dies
  BY <1>0, <1>d, <1>7, ReaperAssumption DEF ReaperTypes, Dies, Failure, gc
<1>8. CASE MROpens
  BY <1>0, <1>8 DEF ReaperTypes, MROpens, gc
<1>9. CASE Heartbeat
  <2>1. sent' \in [Lane -> Sends \cup {Nothing}]
    BY <1>9, <1>s DEF Heartbeat, Lane
  <2> QED BY <1>0, <1>9, <2>1 DEF ReaperTypes, Heartbeat, gc
<1>10. CASE MRIsOver
  BY <1>0, <1>10 DEF ReaperTypes, MRIsOver, gc
<1>11. ASSUME NEW l \in Lane, Land(l) PROVE ReaperTypes'
  <2>1. sent[l] \in Sends
    BY <1>0, <1>11 DEF Land
  <2>2. entry' \in EntryType
    BY <1>11, <2>1 DEF Land, Sends, EntryType
  <2>3. agent' \in Agents
    BY <1>0, <1>11 DEF Land
  <2> QED BY <1>0, <1>n, <1>11, <2>2, <2>3 DEF ReaperTypes, Land, gc
<1>12. ASSUME NEW l \in Lane, Drop(l) PROVE ReaperTypes'
  BY <1>0, <1>n, <1>12 DEF ReaperTypes, Drop, gc
<1>13. CASE Handle
  BY <1>0, <1>13 DEF ReaperTypes, Handle, gc
<1>14. CASE Expire \/ StrayExpires
  BY <1>0, <1>14 DEF ReaperTypes, Expire, StrayExpires, gc
<1>15. CASE FireCheck
  BY <1>0, <1>15 DEF ReaperTypes, FireCheck, gc
<1>16. CASE SweepCheck \/ KillSession \/ DeleteEntry
  BY <1>0, <1>d, <1>16 DEF ReaperTypes, SweepCheck, KillSession, DeleteEntry, gc
<1>17. CASE Age
  <2>1. entry \in EntryType
    BY <1>0, <1>17 DEF Age
  <2>2. entry' \in EntryType
    BY <1>17, <2>1 DEF Age, EntryType
  <2> QED BY <1>0, <1>17, <2>2 DEF ReaperTypes, Age, gc
<1>18. CASE WatchRestart
  <2>1. failures' \in 0..MaxFailures
    BY <1>0, <1>18, ReaperAssumption DEF WatchRestart, Failure
  <2> QED BY <1>0, <1>18, <2>1 DEF ReaperTypes, WatchRestart
<1> QED
  BY <1>1, <1>2, <1>3, <1>4, <1>5, <1>6, <1>7, <1>8, <1>9, <1>10, <1>11, <1>12, <1>13,
     <1>14, <1>15, <1>16, <1>17, <1>18
  DEF ReaperNext, Turns, Collect

LEMMA GraceInvStep ==
  ReaperTypes /\ GraceInv /\ [ReaperNext]_reaperVars => GraceInv'
<1> SUFFICES ASSUME ReaperTypes, GraceInv, [ReaperNext]_reaperVars PROVE GraceInv'
  OBVIOUS
<1>0. /\ \A l \in Lane : sent[l] \in Sends \cup {Nothing}
      /\ DOMAIN sent = Lane /\ "turn" \in Lane /\ "beat" \in Lane
      /\ agent \in [alive : BOOLEAN, turn : BOOLEAN, steady : BOOLEAN, turns : Nat]
  BY ReaperAssumption DEF ReaperTypes, Lane
<1>d. ~Dead.turn /\ ~Dead.steady
  BY DEF Dead
<1>1. CASE UNCHANGED <<agent, sent, entry>>
  BY <1>1 DEF GraceInv, Says
<1>2. CASE SpawnAgent
  <2>1. ~agent'.turn /\ ~agent'.steady /\ sent' = sent
    BY <1>d, <1>2 DEF SpawnAgent, Dead
  <2> QED BY <2>1 DEF GraceInv
<1>3. CASE PutEntry
  <2>1. Says(entry)' /\ agent' = agent /\ sent' = sent
    BY <1>3 DEF PutEntry, Says
  <2> QED BY <2>1 DEF GraceInv, Says
<1>4. CASE TurnStarts
  <2> DEFINE p == Publication("active")
  <2>1. p.tempo = "active"
    BY PublicationType
  <2>2. /\ agent'.turn = TRUE /\ agent'.steady = FALSE /\ agent'.alive = agent.alive
        /\ agent'.turns = agent.turns + 1 /\ agent.alive
    BY <1>0, <1>4 DEF TurnStarts
  <2>3. sent'["turn"] = p /\ sent'["beat"] = sent["beat"]
    BY <1>0, <1>4 DEF TurnStarts
  <2> HIDE DEF p
  <2> QED BY <1>0, <2>1, <2>2, <2>3 DEF GraceInv, Says
<1>5. CASE TurnEnds
  <2>1. agent'.turn = FALSE /\ agent'.steady = FALSE
    BY <1>0, <1>5 DEF TurnEnds
  <2>2. sent'["beat"] = sent["beat"]
    BY <1>0, <1>5 DEF TurnEnds
  <2> QED BY <2>1, <2>2 DEF GraceInv, Says
<1>6. CASE Quit \/ Dies \/ KillSession
  <2>1. ~agent'.turn /\ ~agent'.steady /\ sent' = sent
    BY <1>d, <1>6 DEF Quit, Dies, KillSession
  <2> QED BY <2>1 DEF GraceInv, Says
<1>7. CASE Heartbeat
  <2> DEFINE tempo == IF agent.turn THEN "active" ELSE "blocked"
             p == Publication(tempo)
  <2>1. p.tempo = tempo /\ (p.turn > 0 => agent.turn)
    BY PublicationType
  <2>2. sent'["turn"] = sent["turn"] /\ sent'["beat"] = p
    BY <1>0, <1>7 DEF Heartbeat
  <2>3. agent' = agent /\ entry' = entry
    BY <1>7 DEF Heartbeat
  <2>4. agent.turn => p.tempo = "active"
    BY <2>1
  <2> HIDE DEF p
  <2> QED BY <2>1, <2>2, <2>3, <2>4 DEF GraceInv, Says
<1>8. ASSUME NEW l \in Lane, Land(l) PROVE GraceInv'
  <2>1. /\ entry'.tempo = sent[l].tempo /\ sent[l] # Nothing
        /\ sent'[l] = Nothing /\ \A k \in Lane : k # l => sent'[k] = sent[k]
    BY <1>0, <1>8 DEF Land
  <2>2. /\ agent'.alive = agent.alive /\ agent'.turn = agent.turn /\ agent'.turns = agent.turns
        /\ agent'.steady => \/ agent.steady
                            \/ l = "beat" /\ agent.turn /\ sent[l].turn = agent.turns
    BY <1>0, <1>8 DEF Land
  <2>3. \A k \in Lane : Says(sent[k]) => Says(sent[k])'
    BY <2>1 DEF Says
  <2>4. (agent.turn => agent.alive /\ agent.turns > 0 /\ Says(sent["turn"]))'
    BY <1>0, <2>2, <2>3 DEF GraceInv
  <2>5. (sent["beat"] # Nothing /\ sent["beat"].turn > 0 => Says(sent["beat"]))'
    BY <1>0, <2>1, <2>3 DEF GraceInv, Says
  <2>6. (agent.steady => agent.turn /\ Says(sent["beat"]) /\ Says(entry))'
    <3>1. SUFFICES ASSUME agent'.steady
                   PROVE  agent.turn /\ Says(sent["beat"]) /\ sent[l].tempo = "active"
      BY <1>0, <2>1, <2>2, <2>3 DEF Says
    <3>2. l \in {"turn", "beat"}
      BY DEF Lane
    <3>3. CASE agent.steady
      BY <2>1, <3>2, <3>3 DEF GraceInv, Says
    <3>4. CASE l = "beat" /\ agent.turn /\ sent[l].turn = agent.turns
      BY <1>0, <2>1, <3>4 DEF GraceInv, Says
    <3> QED BY <2>2, <3>1, <3>3, <3>4
  <2> QED BY <2>4, <2>5, <2>6 DEF GraceInv
<1>9. ASSUME NEW l \in Lane, Drop(l) PROVE GraceInv'
  <2>1. /\ agent' = agent /\ entry' = entry
        /\ sent'[l] = Nothing /\ \A k \in Lane : k # l => sent'[k] = sent[k]
    BY <1>0, <1>9 DEF Drop
  <2>2. \A k \in Lane : Says(sent[k]) => Says(sent[k])'
    BY <2>1 DEF Says
  <2> QED BY <1>0, <2>1, <2>2 DEF GraceInv, Says
<1>10. CASE DeleteEntry
  BY <1>10 DEF GraceInv, Says, DeleteEntry
<1>11. CASE Age
  <2>1. entry'.tempo = entry.tempo /\ entry # Nothing
    BY <1>11 DEF ReaperTypes, EntryType, Age
  <2> QED BY <1>11, <2>1 DEF GraceInv, Says, Age
<1> QED
  BY <1>1, <1>2, <1>3, <1>4, <1>5, <1>6, <1>7, <1>8, <1>9, <1>10, <1>11
  DEF ReaperNext, Turns, Collect, MROpens, MRIsOver, Handle,
      Expire, StrayExpires, FireCheck, SweepCheck, WatchRestart,
      reaperVars

(* Whom a rule of the collector takes is not in a turn by what the bucket says.*)
LEMMA CondemnsTheQuiet ==
  ASSUME FireCheck \/ SweepCheck, teardown' = "condemned"
  PROVE  entry # Nothing /\ entry.tempo # "active"
<1>1. Seen.tempo = entry.tempo
  BY DEF Seen
<1>2. CASE FireCheck
  BY <1>1, <1>2 DEF FireCheck, Rules!GraceReaps
<1>3. CASE SweepCheck
  BY <1>1, <1>3 DEF SweepCheck, Rules!SweepReaps, Rules!Guarded
<1> QED BY <1>2, <1>3

(* For any number of workers under the name, turns and faults: neither the     *)
(* timer of gc_watch.go nor the sweeps of cmd_gc.go condemn a worker once a    *)
(* heartbeat of the turn it is in has reached the bucket, in whatever order the*)
(* publications of turns and heartbeats, of this worker and of those before it,*)
(* land.                                                                       *)
THEOREM ReapedIdle == ReaperSpec => ReapsIdle
<1>1. GraceInv /\ [ReaperNext]_reaperVars =>
        [teardown # "condemned" /\ teardown' = "condemned" => ~agent.steady]_reaperVars
  <2> SUFFICES ASSUME GraceInv, ReaperNext, teardown # "condemned", teardown' = "condemned"
               PROVE  ~agent.steady
    OBVIOUS
  <2>1. CASE FireCheck \/ SweepCheck
    BY <2>1, CondemnsTheQuiet DEF GraceInv, Says
  <2>2. CASE Expire \/ StrayExpires \/ KillSession \/ DeleteEntry \/ WatchRestart
    BY <2>2 DEF Expire, StrayExpires, KillSession, DeleteEntry, WatchRestart
  <2>3. CASE teardown' = teardown
    BY <2>3
  <2> QED
    BY <2>1, <2>2, <2>3
    DEF ReaperNext, Turns, Collect, SpawnAgent, PutEntry, TurnStarts,
        TurnEnds, Quit, Dies, MROpens, Heartbeat, MRIsOver,
        Land, Drop, Handle, Age, gc
<1>2. ReaperSpec => [](ReaperTypes /\ GraceInv)
  BY GraceInit, GraceTypeStep, GraceInvStep, PTL DEF ReaperSpec
<1> QED
  BY <1>1, <1>2, PTL DEF ReaperSpec, ReapsIdle, CondemnedIdle

-----------------------------------------------------------------------------
(* The calendar, of any size.                                                  *)
LEMMA Calendar ==
    /\ Tick \in Nat /\ Tick > 1
    /\ MinutesPerHour \in Nat \ {0} /\ HoursPerDay \in Nat \ {0}
BY CalendarAssumption

(* What division is, for the provers.                                          *)
LEMMA Division ==
  ASSUME NEW t \in Int, NEW n \in Nat \ {0}
  PROVE  /\ t \div n \in Int /\ t % n \in 0..(n - 1)
         /\ t = n * (t \div n) + (t % n)
  OBVIOUS

LEMMA Quotient ==
  ASSUME NEW n \in Nat \ {0}, NEW q \in Int, NEW r \in 0..(n - 1)
  PROVE  (n * q + r) \div n = q /\ (n * q + r) % n = r
  OBVIOUS

LEMMA Times ==
  ASSUME NEW a \in Int, NEW b \in Int, NEW n \in Nat, a <= b
  PROVE  n * a <= n * b
  OBVIOUS

(* A minute is Tick instants from its first one.                               *)
LEMMA MinuteIs ==
  ASSUME NEW t \in Int
  PROVE  /\ Cron!Minute(t) \in Int
         /\ Tick * Cron!Minute(t) <= t
         /\ t < Tick * Cron!Minute(t) + Tick
  BY Division, Calendar DEF Cron!Minute

LEMMA MinuteMono ==
  ASSUME NEW t \in Int, NEW u \in Int, t <= u
  PROVE  Cron!Minute(t) <= Cron!Minute(u)
<1> DEFINE m == Cron!Minute(t)
           n == Cron!Minute(u)
<1>1. m \in Int /\ n \in Int /\ Tick * m <= t /\ u < Tick * n + Tick /\ Tick \in Nat
  BY MinuteIs, Calendar
<1> HIDE DEF m, n
<1>2. CASE n + 1 <= m
  <2>1. Tick * (n + 1) <= Tick * m
    BY <1>1, <1>2, Times
  <2>2. Tick * (n + 1) = Tick * n + Tick
    BY <1>1
  <2> QED BY <1>1, <2>1, <2>2
<1> QED BY <1>1, <1>2 DEF m, n

LEMMA MinuteOn ==
  ASSUME NEW m \in Int, NEW r \in 0..(Tick - 1)
  PROVE  Cron!Minute(m * Tick + r) = m
<1>1. m * Tick = Tick * m /\ Tick \in Nat \ {0}
  BY Calendar
<1>2. (Tick * m + r) \div Tick = m
  BY <1>1, Quotient
<1> QED BY <1>1, <1>2 DEF Cron!Minute

LEMMA MinuteNext ==
  ASSUME NEW t \in Int
  PROVE  Cron!Minute(t + Tick) = Cron!Minute(t) + 1
<1> DEFINE m == Cron!Minute(t)
           r == t % Tick
<1>1. m \in Int /\ r \in 0..(Tick - 1) /\ t = Tick * m + r /\ Tick \in Nat \ {0}
  BY Division, Calendar DEF Cron!Minute
<1>2. t + Tick = (m + 1) * Tick + r
  BY <1>1
<1> HIDE DEF m, r
<1>3. \A n \in Int : Cron!Minute(n * Tick + r) = n
  BY <1>1, MinuteOn
<1>4. Cron!Minute((m + 1) * Tick + r) = m + 1
  BY <1>1, <1>3
<1> QED BY <1>2, <1>4 DEF m

(* The instants of a minute are due together.                                  *)
LEMMA DueTogether ==
  ASSUME NEW expr, NEW t, NEW u, Cron!Minute(t) = Cron!Minute(u)
  PROVE  Cron!Matches(expr, t) = Cron!Matches(expr, u)
  BY DEF Cron!Matches, Cron!MinuteOf, Cron!HourOf, Cron!WeekdayOf,
         Cron!DateOf

LEMMA DueMinute ==
  ASSUME NEW expr, NEW t \in Int, NEW from \in Int, NEW to \in Int,
         Cron!Matches(expr, t), from <= Cron!Minute(t), Cron!Minute(t) <= to
  PROVE  Cron!DueMinutes(expr, from, to) # {}
<1> DEFINE m == Cron!Minute(t)
<1>1. m \in from..to
  BY MinuteIs
<1>2. Cron!Minute(m * Tick) = m
  <2>1. 0 \in 0..(Tick - 1) /\ m * Tick + 0 = m * Tick
    BY <1>1, Calendar
  <2> QED BY <1>1, <2>1, MinuteOn
<1>3. Cron!Matches(expr, m * Tick)
  BY <1>2, DueTogether
<1> QED BY <1>1, <1>3 DEF Cron!DueMinutes

(* A day has more than one instant of a minute; where a walk begins.           *)
LEMMA DayIs == Cron!Day \in Nat /\ Cron!Day >= Tick
<1>1. /\ Tick \in Nat /\ MinutesPerHour \in Nat /\ HoursPerDay \in Nat
      /\ MinutesPerHour >= 1 /\ HoursPerDay >= 1
  BY Calendar
<1>2. Tick * MinutesPerHour >= Tick /\ Tick * MinutesPerHour \in Nat
  BY <1>1, Times
<1>3. (Tick * MinutesPerHour) * HoursPerDay >= Tick * MinutesPerHour
      /\ (Tick * MinutesPerHour) * HoursPerDay \in Nat
  BY <1>1, <1>2, Times
<1> QED BY <1>1, <1>2, <1>3 DEF Cron!Day

(* The walk from t comes by every minute that begins after t and is over.      *)
LEMMA WalkMeets ==
  ASSUME NEW t \in Int, NEW now \in Int, NEW m \in Int,
         Cron!Minute(t) <= m, m < Cron!Minute(now)
  PROVE  \E u \in Cron!Walk(t, now) : Cron!Minute(u) = m
<1> DEFINE k == Cron!Minute(t)
           r == t % Tick
           u == m * Tick + r
<1>1. k \in Int /\ r \in 0..(Tick - 1) /\ t = Tick * k + r /\ Tick \in Nat \ {0} /\ k <= m
  BY Division, Calendar DEF Cron!Minute
<1>2. Cron!Minute(u) = m
  BY <1>1, MinuteOn
<1>3. u - t = Tick * (m - k) + 0
  BY <1>1
<1>4. (u - t) % Tick = 0
  <2>1. m - k \in Int /\ 0 \in 0..(Tick - 1)
    BY <1>1
  <2>2. (Tick * (m - k) + 0) % Tick = 0
    BY <1>1, <2>1, Quotient
  <2> QED BY <1>3, <2>2
<1>5. t <= u
  BY <1>1, Times
<1>6. u < now
  <2>1. Tick * (m + 1) <= Tick * Cron!Minute(now)
    <3>1. m + 1 \in Int /\ Cron!Minute(now) \in Int /\ m + 1 <= Cron!Minute(now)
      BY MinuteIs
    <3> QED BY <1>1, <3>1, Times
  <2>2. u < Tick * (m + 1)
    BY <1>1
  <2> QED BY <1>1, <2>1, <2>2, MinuteIs
<1>7. u \in t..(now - 1)
  BY <1>1, <1>5, <1>6
<1> QED BY <1>2, <1>4, <1>7 DEF Cron!Walk

(* A schedule that fires has a due minute it was not run for.                  *)
LEMMA FiresForADue ==
  ASSUME NEW expr, NEW last \in Int, NEW now \in Int,
         Cron!ShouldFire(expr, last, now)
  PROVE  Cron!ForADue(expr, last, now)
<1> DEFINE from == IF last = Cron!Never \/ Cron!Minute(last) < Cron!Minute(now - Cron!Day)
                   THEN Cron!Minute(now - Cron!Day) ELSE Cron!Minute(last) + 1
           begin == IF last = Cron!Never \/ now - last > Cron!Day
                    THEN now - Cron!Day ELSE last + Tick
           echo == /\ last # Cron!Never /\ now - last > Cron!Day
                   /\ Cron!Minute(now - Cron!Day) = Cron!Minute(last)
<1>0. /\ Cron!Day \in Nat /\ Cron!Day >= Tick /\ Tick \in Nat
      /\ \A t \in Int : Cron!Minute(t) \in Int
      /\ now - Cron!Day \in Int /\ last + Tick \in Int
  BY DayIs, MinuteIs, Calendar
<1>1. from \in Int /\ begin \in Int
  BY <1>0
<1>2. Cron!Minute(now - Cron!Day) <= Cron!Minute(now)
  BY <1>0, MinuteMono
<1>3. CASE Cron!Matches(expr, now)
  <2>1. last = Cron!Never \/ now - last > Tick
    BY <1>3 DEF Cron!ShouldFire
  <2>2. now - last > Tick => Cron!Minute(last) + 1 <= Cron!Minute(now)
    <3>1. Cron!Minute(last + Tick) = Cron!Minute(last) + 1
      BY MinuteNext
    <3> QED BY <1>0, <3>1, MinuteMono
  <2>3. from <= Cron!Minute(now)
    BY <1>0, <1>2, <2>1, <2>2
  <2>4. Cron!DueMinutes(expr, from, Cron!Minute(now)) # {}
    BY <1>0, <1>1, <1>3, <2>3, DueMinute
  <2> QED BY <2>4 DEF Cron!ForADue
<1>4. CASE ~Cron!Matches(expr, now)
  <2>1. PICK u \in Cron!Walk(begin, now) : Cron!Matches(expr, u)
    BY <1>4 DEF Cron!ShouldFire
  <2>2. u \in Int /\ begin <= u /\ u <= now
    BY <1>1, <2>1 DEF Cron!Walk
  <2>3. Cron!Minute(u) <= Cron!Minute(now) /\ Cron!Minute(begin) <= Cron!Minute(u)
    BY <1>1, <2>2, MinuteMono
  <2>4. from <= Cron!Minute(begin) \/ echo
    <3>1. CASE last = Cron!Never
      BY <1>0, <3>1
    <3>2. CASE last # Cron!Never /\ now - last > Cron!Day
      <4>1. Cron!Minute(last) <= Cron!Minute(now - Cron!Day)
        BY <1>0, <3>2, MinuteMono
      <4> QED BY <1>0, <3>2, <4>1
    <3>3. CASE last # Cron!Never /\ ~(now - last > Cron!Day)
      <4>1. Cron!Minute(now - Cron!Day) <= Cron!Minute(last)
        BY <1>0, <3>3, MinuteMono
      <4>2. Cron!Minute(last + Tick) = Cron!Minute(last) + 1
        BY MinuteNext
      <4> QED BY <1>0, <3>3, <4>1, <4>2
    <3> QED BY <3>1, <3>2, <3>3
  <2>5. CASE echo
    BY <2>5 DEF Cron!ForADue
  <2>6. CASE from <= Cron!Minute(begin)
    <3>1. from <= Cron!Minute(u)
      BY <1>0, <1>1, <2>2, <2>3, <2>6
    <3>2. Cron!DueMinutes(expr, from, Cron!Minute(now)) # {}
      BY <1>0, <1>1, <2>1, <2>2, <2>3, <3>1, DueMinute
    <3> QED BY <3>2 DEF Cron!ForADue
  <2> QED BY <2>4, <2>5, <2>6
<1> QED BY <1>3, <1>4

(* A schedule with a due minute that is over and was not served fires.         *)
LEMMA OverdueFires ==
  ASSUME NEW expr, NEW last \in Int, NEW now \in Int,
         Cron!Overdue(expr, last, now)
  PROVE  Cron!ShouldFire(expr, last, now)
<1> DEFINE far == last = Cron!Never \/ now - last > Cron!Day
           begin == IF far THEN now - Cron!Day ELSE last + Tick
           from == IF far THEN Cron!Minute(now - Cron!Day) + 1 ELSE Cron!Minute(last) + 1
<1>0. /\ Cron!Day \in Nat /\ Cron!Day >= Tick /\ Tick \in Nat /\ Tick > 1
      /\ \A t \in Int : Cron!Minute(t) \in Int
      /\ now - Cron!Day \in Int /\ last + Tick \in Int
  BY DayIs, MinuteIs, Calendar
<1>1. begin \in Int /\ from \in Int
  BY <1>0
<1>2. PICK m \in from..(Cron!Minute(now) - 1) : Cron!Matches(expr, m * Tick)
  BY DEF Cron!Overdue, Cron!DueMinutes
<1>3. m \in Int /\ from <= m /\ m < Cron!Minute(now)
  BY <1>0, <1>1, <1>2
<1>4. Cron!Minute(begin) <= m
  <2>1. Cron!Minute(last + Tick) = Cron!Minute(last) + 1
    BY MinuteNext
  <2> QED BY <1>0, <1>3, <2>1
<1>5. PICK u \in Cron!Walk(begin, now) : Cron!Minute(u) = m
  BY <1>1, <1>3, <1>4, WalkMeets
<1>6. Cron!Matches(expr, u)
  <2>1. 0 \in 0..(Tick - 1) /\ m * Tick + 0 = m * Tick
    BY <1>0, <1>3
  <2>2. Cron!Minute(m * Tick) = m
    BY <1>3, <2>1, MinuteOn
  <2> QED BY <1>2, <1>5, <2>2, DueTogether
<1>7. CASE Cron!Matches(expr, now)
  <2>1. SUFFICES ASSUME last # Cron!Never, ~(now - last > Cron!Day) PROVE now - last > Tick
    BY <1>0, <1>7 DEF Cron!ShouldFire
  <2>2. Cron!Minute(last) + 2 <= Cron!Minute(now)
    BY <1>0, <1>3, <2>1
  <2>3. Cron!Minute(last + Tick) = Cron!Minute(last) + 1
    BY MinuteNext
  <2>4. CASE now <= last + Tick
    BY <1>0, <2>2, <2>3, <2>4, MinuteMono
  <2> QED BY <1>0, <2>4
<1> QED BY <1>5, <1>6, <1>7 DEF Cron!ShouldFire

(* A field with one value only has that value.                                 *)
LEMMA FixedValue ==
  ASSUME NEW field, Cron!IsFixed(field), NEW v, NEW w,
         Cron!FieldMatches(field, v), Cron!FieldMatches(field, w)
  PROVE  v = w
<1>1. PICK x \in 0..60 : field = {[k |-> "value", v |-> x]}
  BY DEF Cron!IsFixed
<1>2. field # Cron!Any
  <2>1. [k |-> "value", v |-> x].k # [k |-> "any"].k
    OBVIOUS
  <2> QED BY <1>1, <2>1 DEF Cron!Any
<1>3. \A y : Cron!FieldMatches(field, y) => y = x
  <2> SUFFICES ASSUME NEW y, Cron!FieldMatches(field, y) PROVE y = x
    OBVIOUS
  <2>1. Cron!PartMatches([k |-> "value", v |-> x], y)
    BY <1>1, <1>2 DEF Cron!FieldMatches
  <2> QED BY <2>1 DEF Cron!PartMatches
<1> QED BY <1>3

(* Date, hour and minute make the instant's minute.                            *)
LEMMA FieldsMakeTheMinute ==
  ASSUME NEW t \in Int, NEW u \in Int,
         Cron!MinuteOf(t) = Cron!MinuteOf(u),
         Cron!HourOf(t) = Cron!HourOf(u),
         Cron!DateOf(t) = Cron!DateOf(u)
  PROVE  Cron!Minute(t) = Cron!Minute(u)
<1> DEFINE M == MinutesPerHour
           H == HoursPerDay
<1>1. M \in Nat \ {0} /\ H \in Nat \ {0}
  BY Calendar
<1>2. \A m \in Int : m \div (M * H) = (m \div M) \div H
  <2> SUFFICES ASSUME NEW m \in Int PROVE m \div (M * H) = (m \div M) \div H
    OBVIOUS
  <2> DEFINE h == m \div M
             d == h \div H
             r == (m % M) + M * (h % H)
  <2>1. h \in Int /\ (m % M) \in 0..(M - 1) /\ m = M * h + (m % M)
    BY <1>1, Division
  <2>2. d \in Int /\ (h % H) \in 0..(H - 1) /\ h = H * d + (h % H)
    BY <1>1, <2>1, Division
  <2> HIDE DEF h, d
  <2>3. M * h = (M * H) * d + M * (h % H)
    <3>1. M * h = M * (H * d + (h % H))
      BY <2>2
    <3>2. M * (H * d + (h % H)) = M * (H * d) + M * (h % H)
      BY <1>1, <2>2
    <3>3. M * (H * d) = (M * H) * d
      BY <1>1, <2>2
    <3> QED BY <3>1, <3>2, <3>3
  <2>4. m = (M * H) * d + r
    BY <1>1, <2>1, <2>2, <2>3
  <2>5. M * H \in Nat \ {0}
    BY <1>1
  <2>6. r \in 0..((M * H) - 1)
    <3>0. (h % H) \in Int /\ H - 1 \in Int /\ 0 \in Int /\ h % H <= H - 1 /\ 0 <= h % H /\ M \in Nat
      BY <1>1, <2>2
    <3>1. M * (h % H) <= M * (H - 1) /\ M * 0 <= M * (h % H)
      BY <3>0, Times
    <3>2. M * (H - 1) = M * H - M
      BY <1>1
    <3> QED BY <1>1, <2>1, <2>2, <3>1, <3>2
  <2>7. ((M * H) * d + r) \div (M * H) = d
    BY <2>2, <2>5, <2>6, Quotient
  <2> QED BY <2>4, <2>7 DEF d, h
<1>3. Cron!Minute(t) \in Int /\ Cron!Minute(u) \in Int
  BY MinuteIs
<1>4. \A m \in Int : m = M * (H * (m \div (M * H)) + ((m \div M) % H)) + (m % M)
  <2> SUFFICES ASSUME NEW m \in Int
               PROVE  m = M * (H * (m \div (M * H)) + ((m \div M) % H)) + (m % M)
    OBVIOUS
  <2> DEFINE h == m \div M
  <2>1. h \in Int /\ m = M * h + (m % M)
    BY <1>1, Division
  <2>2. h = H * (h \div H) + (h % H)
    BY <1>1, <2>1, Division
  <2> QED BY <1>2, <2>1, <2>2
<1> QED BY <1>3, <1>4 DEF Cron!MinuteOf, Cron!HourOf, Cron!DateOf

(* Two due minutes never share the name of their worker.                       *)
LEMMA NamesDiffer ==
  ASSUME NEW expr, NEW t \in Int, NEW u \in Int,
         Cron!Matches(expr, t), Cron!Matches(expr, u),
         Cron!PeriodSuffix(expr, t) = Cron!PeriodSuffix(expr, u)
  PROVE  Cron!Minute(t) = Cron!Minute(u)
<1>0. /\ expr.fields = 5
      /\ \A x \in {t, u} : /\ Cron!FieldMatches(expr.minute, Cron!MinuteOf(x))
                           /\ Cron!FieldMatches(expr.hour, Cron!HourOf(x))
  BY DEF Cron!Matches
<1>1. Cron!DateOf(t) = Cron!DateOf(u)
  BY DEF Cron!PeriodSuffix
<1>2. Cron!HourOf(t) = Cron!HourOf(u)
  <2>1. CASE Cron!IsFixed(expr.minute) /\ Cron!IsFixed(expr.hour)
    BY <1>0, <2>1, FixedValue
  <2> QED BY <1>0, <2>1 DEF Cron!PeriodSuffix
<1>3. Cron!MinuteOf(t) = Cron!MinuteOf(u)
  <2>1. CASE Cron!IsFixed(expr.minute)
    BY <1>0, <2>1, FixedValue
  <2> QED BY <1>0, <2>1 DEF Cron!PeriodSuffix
<1> QED BY <1>1, <1>2, <1>3, FieldsMakeTheMinute

(* For a calendar of any size, any expression and any two instants (cron.go):  *)
(* a schedule that fires has a due minute it was not run for, one with a due   *)
(* minute that is over and was not served fires, and two due minutes never     *)
(* share the name of their worker, whatever fields of the expression are fixed.*)
THEOREM DueFires == DecisionSpec => []DueIsFired
<1>1. Answer => DueIsFired
  <2> SUFFICES ASSUME Answer, decision.rule = "cron" PROVE DueIsFired
    BY DEF DueIsFired, Of
  <2> DEFINE q == decision.in
  <2>1. /\ q.last \in Int /\ q.now \in Int
        /\ decision.out.fires = Cron!ShouldFire(q.expr, q.last, q.now)
        /\ decision.out.names[1] = Cron!PeriodSuffix(q.expr, q.last)
        /\ decision.out.names[2] = Cron!PeriodSuffix(q.expr, q.now)
    BY CasesAssumption DEF Answer, WorkerAnswers, Gave, OnCron, CasesTypes, CalendarCases
  <2>2. Cron!ShouldFire(q.expr, q.last, q.now) => Cron!ForADue(q.expr, q.last, q.now)
    BY <2>1, FiresForADue
  <2>3. Cron!Overdue(q.expr, q.last, q.now) => Cron!ShouldFire(q.expr, q.last, q.now)
    BY <2>1, OverdueFires
  <2>4. /\ Cron!Matches(q.expr, q.last) /\ Cron!Matches(q.expr, q.now)
        /\ Cron!Minute(q.last) # Cron!Minute(q.now)
        => Cron!PeriodSuffix(q.expr, q.last) # Cron!PeriodSuffix(q.expr, q.now)
    BY <2>1, NamesDiffer
  <2> QED BY <2>1, <2>2, <2>3, <2>4 DEF DueIsFired, Of
<1> QED BY <1>1, AnswerInv, PTL

-----------------------------------------------------------------------------
(* The questions about workers.                                                *)

(* The first answer that is not transient.                                     *)
LEMMA SettledFirst ==
  ASSUME NEW says \in [1..3 -> Spawn!Contracts], NEW w, w # "transient"
  PROVE  Spawn!Settled(says) = w <=> FirstSure(says, w)
<1> DEFINE sure == {n \in 1..3 : says[n] # "transient"}
           first == CHOOSE n \in sure : \A m \in sure : n <= m
<1>1. CASE sure = {}
  BY <1>1 DEF Spawn!Settled, FirstSure
<1>2. CASE sure # {}
  <2>1. \E n \in sure : \A m \in sure : n <= m
    <3>1. CASE 1 \in sure
      BY <3>1
    <3>2. CASE 1 \notin sure /\ 2 \in sure
      BY <3>2
    <3>3. CASE 1 \notin sure /\ 2 \notin sure
      BY <1>2, <3>3
    <3> QED BY <3>1, <3>2, <3>3
  <2>2. first \in sure /\ \A m \in sure : first <= m
    BY <2>1
  <2>3. Spawn!Settled(says) = says[first]
    BY <1>2 DEF Spawn!Settled
  <2> HIDE DEF first
  <2>4. says[first] = w => FirstSure(says, w)
    BY <2>2 DEF FirstSure
  <2>5. FirstSure(says, w) => says[first] = w
    <3> SUFFICES ASSUME NEW n \in 1..3, says[n] = w, \A m \in 1..(n - 1) : says[m] = "transient"
                 PROVE  first = n
      BY DEF FirstSure
    <3>1. n \in sure /\ first <= n
      BY <2>2
    <3>2. first \in 1..(n - 1) => FALSE
      BY <2>2
    <3> QED BY <2>2, <3>1, <3>2
  <2> QED BY <2>3, <2>4, <2>5
<1> QED BY <1>1, <1>2

(* Who pays, by the questions.                                                 *)
LEMMA SpawnPaid ==
  ASSUME NEW c \in Cases["spawn"]
  PROVE  LET a == OnSpawn(c)
             asked == c.issue /\ c.fetched /\ ~c.noCapsule /\ ~c.explicit IN
        /\ asked => /\ (a.payer = "contract") <=> FirstSure(c.says, "funded")
                    /\ (a.payer = "operator") <=> FirstSure(c.says, "none")
        /\ c.explicit => a.payer = "contract"
        /\ ("PINARD_CAPSULE_CONTRACT" \in a.env) <=> a.payer = "contract"
        /\ "GITHUB_TOKEN" \in a.env => c.provider = "github"
        /\ a.payer = "contract" => a.again # "operator" /\ (a.again = "parked" <=> ~c.funded)
<1> DEFINE payer == Spawn!Payer(c)
           a == OnSpawn(c)
<1>1. /\ c.issue \in BOOLEAN /\ c.explicit \in BOOLEAN /\ c.noCapsule \in BOOLEAN
      /\ c.fetched \in BOOLEAN /\ c.funded \in BOOLEAN /\ c.says \in [1..3 -> Spawn!Contracts]
  BY CasesAssumption DEF CasesTypes, WorkerCases
<1>2. /\ a.payer = payer
      /\ a.env = Spawn!WorkerEnv(payer, c.runtime, c.provider, {"GITLAB_TOKEN", "GITHUB_TOKEN", "NATS"})
      /\ a.again = Spawn!RespawnPayer(Spawn!SpawnMeta("absent", payer), c.funded)
  BY DEF OnSpawn
<1>3. c.explicit => payer = "contract"
  BY DEF Spawn!Payer
<1>4. c.issue /\ c.fetched /\ ~c.noCapsule /\ ~c.explicit =>
        /\ payer = "contract" <=> Spawn!Settled(c.says) = "funded"
        /\ payer = "operator" <=> Spawn!Settled(c.says) = "none"
  BY <1>1 DEF Spawn!Payer
<1>5. /\ Spawn!Settled(c.says) = "funded" <=> FirstSure(c.says, "funded")
      /\ Spawn!Settled(c.says) = "none" <=> FirstSure(c.says, "none")
  BY <1>1, SettledFirst
<1> HIDE DEF payer, a
<1>6. /\ "PINARD_CAPSULE_CONTRACT" \in a.env <=> payer = "contract"
      /\ "GITHUB_TOKEN" \in a.env => c.provider = "github"
  BY <1>2 DEF Spawn!WorkerEnv
<1>7. payer = "contract" => a.again # "operator" /\ (a.again = "parked" <=> ~c.funded)
  BY <1>1, <1>2 DEF Spawn!RespawnPayer, Spawn!SpawnMeta
<1> QED BY <1>2, <1>3, <1>4, <1>5, <1>6, <1>7 DEF a

(* Work starts from the target branch wherever there is one.                   *)
LEMMA BranchFound ==
  ASSUME NEW q
  PROVE  LET a == OnBranch(q) IN
        /\ a.ready => a.target \in a.repo.origin
        /\ a.base # <<>> /\ a.base[2] # a.target =>
                a.target \notin a.repo.remote /\ a.target \notin a.repo.local
        /\ q.flag # "" => a.target = q.flag
<1> DEFINE target == Spawn!TargetBranch(q.flag, q.configured, q.repo.head)
           cuvee == target = "cuv"
           repo == IF cuvee THEN Spawn!EnsureRemoteBranch(q.repo, target, q.pushed) ELSE q.repo
           ready == Spawn!TargetReady(q.repo, target, cuvee, q.pushed)
           base == Spawn!Base(repo, target)
           a == OnBranch(q)
<1>1. /\ a.target = target /\ a.ready = ready /\ a.repo = repo
      /\ a.base = IF ready THEN base ELSE <<>>
  BY DEF OnBranch
<1>2. q.flag # "" => target = q.flag
  BY DEF Spawn!TargetBranch
<1>3. ready => target \in repo.origin
  BY DEF Spawn!TargetReady, Spawn!EnsureRemoteBranch
<1> HIDE DEF target, repo, ready, a
<1>4. base # <<>> /\ base[2] # target => target \notin repo.remote /\ target \notin repo.local
  BY DEF Spawn!Base
<1> HIDE DEF base
<1>5. ready \in BOOLEAN
  BY DEF ready, Spawn!TargetReady
<1> QED BY <1>1, <1>2, <1>3, <1>4, <1>5 DEF a

(* Two workers have one key only if they are one worker by name or by run.     *)
LEMMA KeysDiffer ==
  ASSUME NEW q, OnKeys(q)[1] = OnKeys(q)[2]
  PROVE  \/ q[1].name = q[2].name
         \/ q[1].process = q[2].process /\ (q[1].run = q[2].run \/ q[1].issue = q[2].issue)
         \/ q[1].run = q[2].run
<1> DEFINE key(i) == Spawn!AgentKey(q[i].process, q[i].run, q[i].issue, q[i].name)
<1>1. key(1) = key(2)
  BY DEF OnKeys
<1>2. \A s, t, u, v, w : <<s, t>> # <<u, v, w>>
  <2> SUFFICES ASSUME NEW s, NEW t, NEW u, NEW v, NEW w, <<s, t>> = <<u, v, w>> PROVE FALSE
    OBVIOUS
  <2>1. Len(<<s, t>>) = 2 /\ Len(<<u, v, w>>) = 3
    OBVIOUS
  <2> QED BY <2>1
<1>3. ASSUME NEW i \in {1, 2}
      PROVE  /\ q[i].process = "" => key(i) = <<"session", q[i].name>>
             /\ q[i].process # "" /\ q[i].run # "" => key(i) = <<"run", q[i].run>>
             /\ q[i].process # "" /\ q[i].run = "" => \E x : key(i) = <<"run", q[i].process, x>>
  BY DEF Spawn!AgentKey
<1> HIDE DEF key
<1>7. /\ \A s, t : <<"session", s>> # <<"run", t>>
      /\ \A u, s, t : <<u, s>> = <<u, t>> => s = t
  OBVIOUS
<1>4. CASE q[1].process = "" \/ q[2].process = ""
  <2>1. ASSUME NEW i \in {1, 2}, NEW j \in {1, 2}, key(i) = key(j), q[i].process = ""
        PROVE  q[i].name = q[j].name
    <3>1. key(j) = <<"session", q[i].name>>
      BY <1>3, <2>1
    <3>2. q[j].process = ""
      <4>1. CASE q[j].process # "" /\ q[j].run # ""
        <5>1. key(j) = <<"run", q[j].run>>
          BY <1>3, <4>1
        <5> QED BY <1>7, <3>1, <5>1
      <4>2. CASE q[j].process # "" /\ q[j].run = ""
        <5>1. PICK x : key(j) = <<"run", q[j].process, x>>
          BY <1>3, <4>2
        <5> QED BY <1>2, <3>1, <5>1
      <4> QED BY <4>1, <4>2
    <3>3. key(j) = <<"session", q[j].name>>
      BY <1>3, <3>2
    <3> QED BY <1>7, <3>1, <3>3
  <2> QED BY <1>1, <1>4, <2>1
<1>5. CASE q[1].process # "" /\ q[2].process # "" /\ (q[1].run # "" \/ q[2].run # "")
  <2>1. ASSUME NEW i \in {1, 2}, NEW j \in {1, 2}, key(i) = key(j), q[i].run # ""
        PROVE  q[i].run = q[j].run
    <3>1. key(j) = <<"run", q[i].run>>
      BY <1>3, <1>5, <2>1
    <3>2. q[j].run # ""
      <4>1. ASSUME q[j].run = "" PROVE FALSE
        <5>1. PICK x : key(j) = <<"run", q[j].process, x>>
          BY <1>3, <1>5, <4>1
        <5> QED BY <1>2, <3>1, <5>1
      <4> QED BY <4>1
    <3>3. key(j) = <<"run", q[j].run>>
      BY <1>3, <1>5, <3>2
    <3> QED BY <1>7, <3>1, <3>3
  <2> QED BY <1>1, <1>5, <2>1
<1>6. CASE q[1].run = "" /\ q[2].run = ""
  BY <1>6
<1> QED BY <1>4, <1>5, <1>6

(* The guard against a second worker and the recovery agree on what lives.     *)
LEMMA GuardAgrees ==
  ASSUME NEW q
  PROVE  LET a == OnGuard(q) IN q.process # "" /\ ~q.force => (a.refused <=> "r1" \in a.live)
  BY DEF OnGuard, Spawn!SpawnRefused, Spawn!WorkersForRun, Spawn!LiveRunIDs

(* No rule of the collector takes a worker of another vignoble, the conductor, *)
(* a worker in the middle of a turn or with a merge request that is open.      *)
LEMMA ReapedWithReason ==
  ASSUME NEW e
  PROVE  LET a == OnReap(e) IN
        /\ (a.sweep \/ a.backstop \/ a.grace) =>
            /\ e.vignoble # "theirs" /\ e.tempo # "active"
            /\ e.mr \in {"untracked", "", "post_merge"}
        /\ a.sweep \/ a.backstop => e.kind = "worker"
        /\ a.sweep /\ e.standalone => e.age = "ttl"
        /\ (a.sweep \/ a.backstop) => e.age # "fresh"
        /\ a.grace /\ e.kind = "worker" => a.watch = "schedule"
<1> DEFINE a == OnReap(e)
<1>0. /\ a.sweep = Gc!SweepReaps(e) /\ a.backstop = Gc!BackstopReaps(e)
      /\ a.grace = Gc!GraceReaps(e) /\ a.watch = Gc!WatchVerdict(e)
  BY DEF OnReap
<1>1. Gc!SweepReaps(e) =>
        /\ e.vignoble # "theirs" /\ e.tempo # "active" /\ e.kind = "worker"
        /\ e.mr \in {"untracked", "", "post_merge"}
        /\ e.standalone => e.age = "ttl"
        /\ e.age # "fresh"
  BY DEF Gc!SweepReaps, Gc!Guarded, Gc!Foreign, Gc!HasOpenMR,
         Gc!Finished, Gc!Abandoned, Gc!Stopped, Gc!IdleForGrace
<1>2. Gc!BackstopReaps(e) =>
        /\ e.vignoble # "theirs" /\ e.tempo # "active" /\ e.kind = "worker"
        /\ e.mr \in {"untracked", "", "post_merge"}
        /\ e.age # "fresh"
  BY DEF Gc!BackstopReaps, Gc!Guarded, Gc!Foreign, Gc!HasOpenMR
<1>3. Gc!GraceReaps(e) =>
        /\ e.vignoble # "theirs" /\ e.tempo # "active"
        /\ e.mr \in {"untracked", "", "post_merge"}
        /\ e.kind = "worker" => Gc!WatchVerdict(e) = "schedule"
  BY DEF Gc!GraceReaps, Gc!WatchVerdict, Gc!Foreign, Gc!HasOpenMR
<1>4. /\ a.sweep => Gc!SweepReaps(e)
      /\ a.backstop => Gc!BackstopReaps(e)
      /\ a.grace => Gc!GraceReaps(e)
  BY <1>0
<1> QED BY <1>0, <1>1, <1>2, <1>3, <1>4 DEF a

(* What is in use stays.                                                       *)
LEMMA CleanedWithReason ==
  ASSUME NEW q
  PROVE  LET a == OnCleanup(q) IN
        /\ a.cleans => ~q.tree.live
        /\ a.window => q.window.status = "archived" /\ q.window.name # "regisseur"
        /\ a.socket => ~q.socket.sessions
        /\ q.vigneHasOne => a.policy # "default"
  BY DEF OnCleanup, Spawn!CleanRemoves, Spawn!KillsWindow,
         Spawn!RemovesSocket, Spawn!PolicyFile

(* A change is archived once all of its tasks are done: its percentage, rounded*)
(* down, is 100 only then.                                                     *)
LEMMA ArchivedWhenDone ==
  ASSUME NEW done \in Nat, NEW total \in Nat, done <= total
  PROVE  Spawn!ReviewChange(done, total) = "archived" <=> total > 0 /\ done = total
<1>1. CASE total = 0
  BY <1>1 DEF Spawn!ReviewChange
<1>2. CASE total > 0
  <2> DEFINE p == (done * 100) \div total
  <2>1. p \in Int /\ (done * 100) % total \in 0..(total - 1)
        /\ done * 100 = total * p + ((done * 100) % total)
    BY <1>2, Division
  <2> HIDE DEF p
  <2>2. p = 100 => done = total
    BY <1>2, <2>1
  <2>3. done = total => p = 100
    <3>1. total \in Nat \ {0} /\ 100 \in Int /\ 0 \in 0..(total - 1)
      BY <1>2
    <3>2. (total * 100 + 0) \div total = 100
      BY <3>1, Quotient
    <3> QED BY <3>2 DEF p
  <2> QED BY <1>2, <2>2, <2>3 DEF p, Spawn!ReviewChange
<1> QED BY <1>1, <1>2

(* For any repository, name, entry, worktree and number of tasks: what a worker*)
(* is started with (cmd_spawn.go, git.go, liveness.go), and what is collected  *)
(* of it (cmd_gc.go, gc_watch.go, cmd_cleanup.go).                             *)
THEOREM WorkersAreSound == DecisionSpec => []WorkersSound
<1>1. Answer => WorkersSound
  <2> SUFFICES ASSUME Answer PROVE SpawnSound /\ ReapSafe
    BY DEF WorkersSound
  <2> DEFINE q == decision.in
             a == decision.out
  <2>1. CASE decision.rule = "spawn"
    <3>1. q \in Cases["spawn"] /\ a = OnSpawn(q)
      BY <2>1 DEF Answer, WorkerAnswers, Gave
    <3> QED BY <2>1, <3>1, SpawnPaid DEF SpawnSound, ReapSafe, Of
  <2>2. CASE decision.rule = "branch"
    <3>1. a = OnBranch(q)
      BY <2>2 DEF Answer, WorkerAnswers, Gave
    <3> QED BY <2>2, <3>1, BranchFound DEF SpawnSound, ReapSafe, Of
  <2>3. CASE decision.rule = "keys"
    <3>1. a = OnKeys(q)
      BY <2>3 DEF Answer, WorkerAnswers, Gave
    <3> QED BY <2>3, <3>1, KeysDiffer DEF SpawnSound, ReapSafe, Of
  <2>4. CASE decision.rule = "guard"
    <3>1. a = OnGuard(q)
      BY <2>4 DEF Answer, WorkerAnswers, Gave
    <3> QED BY <2>4, <3>1, GuardAgrees DEF SpawnSound, ReapSafe, Of
  <2>5. CASE decision.rule = "reap"
    <3>1. a = OnReap(q)
      BY <2>5 DEF Answer, WorkerAnswers, Gave
    <3> QED BY <2>5, <3>1, ReapedWithReason DEF SpawnSound, ReapSafe, Of
  <2>6. CASE decision.rule = "cleanup"
    <3>1. a = OnCleanup(q)
      BY <2>6 DEF Answer, WorkerAnswers, Gave
    <3> QED BY <2>6, <3>1, CleanedWithReason DEF SpawnSound, ReapSafe, Of
  <2>7. CASE decision.rule = "review"
    <3>1. a = Spawn!ReviewChange(q.done, q.total) /\ q.done \in Nat /\ q.total \in Nat /\ q.done <= q.total
      BY <2>7, CasesAssumption DEF Answer, WorkerAnswers, Gave, OnReview, CasesTypes, WorkerCases
    <3> QED BY <2>7, <3>1, ArchivedWhenDone DEF SpawnSound, ReapSafe, Of
  <2>8. CASE decision.rule \notin {"spawn", "branch", "keys", "guard", "reap", "cleanup", "review"}
    BY <2>8 DEF SpawnSound, ReapSafe, Of
  <2> QED BY <2>1, <2>2, <2>3, <2>4, <2>5, <2>6, <2>7, <2>8
<1> QED BY <1>1, AnswerInv, PTL

-----------------------------------------------------------------------------
(* The process driver.                                                         *)

(* Messages are told apart, and one that was not sent resolved nothing.        *)
MailSound ==
    /\ \A m \in stream : m.id <= numSent
    /\ \A m, o \in stream : m.id = o.id => m = o
    /\ inbox.id <= numSent
    /\ \A k \in Msg : k > numSent => uses[k] = 0

(* A message that may be delivered again has resolved a step only if the       *)
(* worker died after that; the one in the worker's hands is not yet one.       *)
FreshInStream == \A m \in stream : m.id # inbox.id => uses[m.id] <= crashes

(* Between two messages a step is pending only if one was set aside for it.    *)
PendingSound ==
    /\ pending # NoWait /\ inbox = NoMsg => pending.step \in mixed
    /\ inbox.stage = "unlinked" => pending = NoWait

(* The inductive invariant.                                                    *)
DriverIInv == DriverTypes /\ OneStepPerEvent /\ ResolvedInKind /\ MailSound /\ FreshInStream /\ PendingSound

-----------------------------------------------------------------------------

LEMMA ProcessTypes ==
    /\ Len(Process) \in Nat
    /\ \A k \in Steps : Process[k] \in [kind : Kind, types : SUBSET Type]
<1>1. Process \in Seq([kind : Kind, types : SUBSET Type]) BY ProcessAssumption
<1> QED BY <1>1, LenProperties, ElementOfSeq DEF Steps

(* NoWait and NoMsg are what they look like, and no step or message.           *)
LEMMA Nobody ==
    /\ \A e \in Effect : e # NoWait /\ e.run \in Run /\ e.step \in Steps
    /\ NoMsg.id = 0 /\ NoMsg.stage = "none" /\ \A k \in Msg : k # NoMsg.id
    /\ Steps \subseteq 0..Len(Process) /\ 0 \notin Steps /\ NoRun \notin Run
    /\ Msg \subseteq Nat
BY ProcessTypes, ProcessAssumption DEF Effect, NoWait, Run, NoRun, Steps, NoMsg, Msg

Drivers == [up : BOOLEAN, run : Run \cup {NoRun}, effect : 0..Len(Process),
            waiting : BOOLEAN, finished : BOOLEAN, dispatched : BOOLEAN,
            ready : BOOLEAN, forking : BOOLEAN]

LEMMA DownIsDriver == Down \in Drivers
BY ProcessTypes DEF Down, Drivers

LEMMA DriverInitInv == DriverInit => DriverIInv
<1> SUFFICES ASSUME DriverInit PROVE DriverIInv OBVIOUS
<1>1. DriverTypes
  <2>1. driver \in Drivers BY DownIsDriver DEF DriverInit
  <2>2. journal \in [Run -> [asked : 0..Len(Process), done : 0..Len(Process)]]
    BY ProcessTypes DEF DriverInit
  <2>3. by \in [Steps -> SUBSET (Type \cup {"chat"})] /\ uses \in [Msg -> Nat] BY DEF DriverInit
  <2>4. numSent \in 0..MaxSend /\ crashes \in 0..MaxCrashes /\ slips \in 0..MaxSlips
    BY ProcessAssumption DEF DriverInit
  <2> QED BY <2>1, <2>2, <2>3, <2>4 DEF DriverInit, DriverTypes, Drivers
<1>2. OneStepPerEvent BY DEF DriverInit, OneStepPerEvent
<1>3. ResolvedInKind BY DEF DriverInit, ResolvedInKind
<1>4. MailSound BY DEF DriverInit, MailSound, NoMsg
<1>5. FreshInStream /\ PendingSound BY SMTT(20) DEF DriverInit, FreshInStream, PendingSound, NoMsg
<1> QED BY <1>1, <1>2, <1>3, <1>4, <1>5 DEF DriverIInv

-----------------------------------------------------------------------------
(* The driver: types only, for it touches no message.                          *)

LEMMA Touched ==
    \A d \in Drivers :
        /\ \A k \in 0..Len(Process) :
              /\ [d EXCEPT !.effect = k, !.waiting = TRUE] \in Drivers
              /\ [d EXCEPT !.effect = k, !.dispatched = TRUE] \in Drivers
        /\ [d EXCEPT !.finished = TRUE, !.up = FALSE] \in Drivers
        /\ [d EXCEPT !.forking = TRUE, !.run = "fork"] \in Drivers
        /\ [d EXCEPT !.forking = TRUE, !.finished = TRUE] \in Drivers
        /\ \A b \in BOOLEAN : [d EXCEPT !.finished = b] \in Drivers
BY DEF Drivers, Run

LEMMA Rearmed ==
    \A d \in Drivers :
        [d EXCEPT !.ready = TRUE, !.waiting = FALSE, !.dispatched = FALSE, !.effect = 0] \in Drivers
<1> TAKE d \in Drivers
<1>1. 0 \in 0..Len(Process) BY ProcessTypes
<1> QED BY <1>1 DEF Drivers

Machine ==
    /\ journal \in [Run -> [asked : 0..Len(Process), done : 0..Len(Process)]]
    /\ forked \in BOOLEAN /\ edited \in BOOLEAN
    /\ driver \in Drivers
    /\ file \in Effect \cup {NoWait} /\ pending \in Effect \cup {NoWait}
    /\ turn \in BOOLEAN /\ prompts \in BOOLEAN
    /\ slips \in 0..MaxSlips

Mail ==
    /\ stream \subseteq [id : Msg, type : Type \cup {"chat"}, n : Nat]
    /\ inbox \in [id : Msg, stage : {"posted", "unlinked"}] \cup {NoMsg}
    /\ numSent \in 0..MaxSend /\ crashes \in 0..MaxCrashes
    /\ by \in [Steps -> SUBSET (Type \cup {"chat"})]
    /\ uses \in [Msg -> Nat] /\ mixed \subseteq Steps /\ torn \in BOOLEAN

LEMMA TypeSplit == DriverTypes <=> Machine /\ Mail
BY DEF DriverTypes, Machine, Mail, Drivers

LEMMA Slipped == Machine /\ Slip => slips' \in 0..MaxSlips
BY ProcessAssumption DEF Machine, Slip

LEMMA Resolved ==
    ASSUME Machine, NEW r \in Run, NEW k \in 0..Len(Process), journal' = [journal EXCEPT ![r].done = k]
    PROVE  journal' \in [Run -> [asked : 0..Len(Process), done : 0..Len(Process)]]
BY DEF Machine

LEMMA Asked ==
    ASSUME Machine, NEW r, NEW a \in 0..Len(Process), NEW b \in 0..Len(Process),
           journal' = [journal EXCEPT ![r] = [asked |-> a, done |-> b]]
    PROVE  journal' \in [Run -> [asked : 0..Len(Process), done : 0..Len(Process)]]
BY DEF Machine

LEMMA UnresolvedTypes ==
    ASSUME Machine, NEW e, Unresolved(e), e.step \in 0..Len(Process)
    PROVE  e.run \in Run /\ e.step \in Steps
BY ProcessTypes DEF Machine, Unresolved, Steps

LEMMA DriveTypes == ASSUME Machine, NEW d \in Drivers, d.run \in Run, Drive(d) PROVE Machine'
<1>0. Len(Process) \in 0..Len(Process) BY ProcessTypes
<1>Complete. CASE Complete(d)
  <2>1. driver' \in Drivers BY <1>Complete, Touched DEF Complete
  <2>2. journal' \in [Run -> [asked : 0..Len(Process), done : 0..Len(Process)]]
    BY <1>0, <1>Complete, Asked DEF Complete
  <2> QED BY <1>Complete, <2>1, <2>2 DEF Complete, Machine
<1>Asks. ASSUME NEW k \in Steps, journal' = [journal EXCEPT ![d.run] = [asked |-> k, done |-> k - 1]]
         PROVE  /\ k \in 0..Len(Process)
                /\ journal' \in [Run -> [asked : 0..Len(Process), done : 0..Len(Process)]]
  <2>1. k \in 0..Len(Process) /\ k - 1 \in 0..Len(Process) BY ProcessTypes DEF Steps
  <2> QED BY <1>Asks, <2>1, Asked
<1>AwaitEvent. CASE AwaitEvent(d) /\ turn' = FALSE
  <2> DEFINE k == Reached(d.run)
  <2>1. /\ k \in Steps
        /\ journal' = [journal EXCEPT ![d.run] = [asked |-> k, done |-> k - 1]]
        /\ driver' = [d EXCEPT !.effect = k, !.waiting = TRUE]
        /\ file' = [run |-> d.run, step |-> k]
        /\ UNCHANGED <<forked, edited, prompts, slips, pending>>
    BY <1>AwaitEvent, Zenon DEF AwaitEvent
  <2> HIDE DEF k
  <2>2. k \in 0..Len(Process) /\ journal' \in [Run -> [asked : 0..Len(Process), done : 0..Len(Process)]]
    BY <2>1, <1>Asks
  <2>3. driver' \in Drivers BY <2>1, <2>2, Touched
  <2>4. file' \in Effect BY <2>1 DEF Effect
  <2> QED BY <1>AwaitEvent, <2>1, <2>2, <2>3, <2>4, Zenon DEF Machine
<1>Dispatch. CASE Dispatch(d) /\ turn' = FALSE
  <2> DEFINE k == Reached(d.run)
  <2>1. /\ k \in Steps
        /\ journal' = [journal EXCEPT ![d.run] = [asked |-> k, done |-> k - 1]]
        /\ driver' = [d EXCEPT !.effect = k, !.dispatched = TRUE]
        /\ prompts' = TRUE
        /\ UNCHANGED <<forked, edited, file, slips, pending>>
    BY <1>Dispatch, Zenon DEF Dispatch
  <2> HIDE DEF k
  <2>2. k \in 0..Len(Process) /\ journal' \in [Run -> [asked : 0..Len(Process), done : 0..Len(Process)]]
    BY <2>1, <1>Asks
  <2>3. driver' \in Drivers BY <2>1, <2>2, Touched
  <2> QED BY <1>Dispatch, <2>1, <2>2, <2>3, Zenon DEF Machine
<1>Fork. CASE Fork(d) /\ turn' = FALSE
  <2>1. driver' \in Drivers BY <1>Fork, Touched DEF Fork
  <2> QED BY <1>Fork, <2>1 DEF Fork, Machine
<1>IterateFails. CASE IterateFails(d) /\ turn' = FALSE
  <2>1. driver' \in Drivers BY <1>IterateFails, Touched DEF IterateFails
  <2> QED BY <1>IterateFails, <2>1, Slipped DEF IterateFails, engine, Machine
<1> QED BY <1>Complete, <1>AwaitEvent, <1>Dispatch, <1>Fork, <1>IterateFails DEF Drive

(* A step of the driver leaves the messages alone.                             *)
LEMMA Away ==
    ASSUME DriverIInv, UNCHANGED <<mail, crashes, hist>>, pending' \in {pending, NoWait}
    PROVE  /\ Mail' /\ OneStepPerEvent' /\ ResolvedInKind'
           /\ MailSound' /\ FreshInStream' /\ PendingSound'
<1>1. UNCHANGED <<stream, inbox, numSent, crashes, by, uses, mixed, torn>> BY DEF mail, hist
<1>2. Mail BY TypeSplit DEF DriverIInv
<1>3. Mail' BY <1>1, <1>2 DEF Mail
<1>4. OneStepPerEvent' /\ ResolvedInKind' BY <1>1 DEF DriverIInv, OneStepPerEvent, ResolvedInKind
<1>5. MailSound' /\ FreshInStream' BY <1>1 DEF DriverIInv, MailSound, FreshInStream
<1>6. PendingSound' BY <1>1 DEF DriverIInv, PendingSound
<1> QED BY <1>3, <1>4, <1>5, <1>6

-----------------------------------------------------------------------------
(* The messages.  What may happen to one that is delivered.                    *)

LEMMA Redelivered ==
    ASSUME Mail, NEW m \in stream
    PROVE  /\ m.id \in Msg /\ m.type \in Type \cup {"chat"}
           /\ [m EXCEPT !.n = @ + 1] \in [id : Msg, type : Type \cup {"chat"}, n : Nat]
           /\ [m EXCEPT !.n = @ + 1].id = m.id
BY DEF Mail

(* A message that stays in the stream, at a later delivery or not at all.      *)
LEMMA StreamKept ==
    ASSUME Mail, MailSound, NEW m \in stream,
           stream' = stream \ {m} \/ stream' = (stream \ {m}) \cup {[m EXCEPT !.n = @ + 1]},
           numSent' = numSent
    PROVE  /\ stream' \subseteq [id : Msg, type : Type \cup {"chat"}, n : Nat]
           /\ \A o \in stream' : o.id <= numSent'
           /\ \A o, q \in stream' : o.id = q.id => o = q
           /\ \A o \in stream' : o.id # m.id => o \in stream
           /\ stream' = stream \ {m} => \A o \in stream' : o.id # m.id
<1>1. /\ [m EXCEPT !.n = @ + 1] \in [id : Msg, type : Type \cup {"chat"}, n : Nat]
      /\ [m EXCEPT !.n = @ + 1].id = m.id
  BY Redelivered
<1>2. stream \subseteq [id : Msg, type : Type \cup {"chat"}, n : Nat] BY DEF Mail
<1>3. \A o \in stream \ {m} : o.id # m.id BY DEF MailSound
<1>4. \A o \in stream : o.id <= numSent BY DEF MailSound
<1>5. \A o, q \in stream : o.id = q.id => o = q BY DEF MailSound
<1> DEFINE again == [m EXCEPT !.n = @ + 1]
<1>6. again \in [id : Msg, type : Type \cup {"chat"}, n : Nat] /\ again.id = m.id BY <1>1
<1> HIDE DEF again
<1>7. stream' = stream \ {m} \/ stream' = (stream \ {m}) \cup {again} BY DEF again
<1> QED BY <1>2, <1>3, <1>4, <1>5, <1>6, <1>7

(* Every message that resolves nothing, waits on, or is given up.              *)
LEMMA NoUse ==
    ASSUME DriverIInv, NEW m \in stream, inbox = NoMsg,
           stream' = stream \ {m} \/ stream' = (stream \ {m}) \cup {[m EXCEPT !.n = @ + 1]},
           UNCHANGED <<inbox, numSent, crashes, by, uses, torn>>,
           mixed \subseteq mixed', mixed' \subseteq Steps,
           pending' # NoWait => pending'.step \in mixed',
           pending' # NoWait => pending' \in Effect
    PROVE  /\ Mail' /\ OneStepPerEvent' /\ ResolvedInKind'
           /\ MailSound' /\ FreshInStream' /\ PendingSound'
<1>0. Mail BY TypeSplit DEF DriverIInv
<1>1. /\ stream' \subseteq [id : Msg, type : Type \cup {"chat"}, n : Nat]
      /\ \A o \in stream' : o.id <= numSent'
      /\ \A o, q \in stream' : o.id = q.id => o = q
      /\ \A o \in stream' : o.id # m.id => o \in stream
  BY <1>0, StreamKept DEF DriverIInv
<1>2. Mail' BY <1>0, <1>1 DEF Mail
<1>3. OneStepPerEvent' BY DEF DriverIInv, OneStepPerEvent
<1>4. ResolvedInKind'
  <2> SUFFICES ASSUME NEW k \in Steps
               PROVE  by[k] \subseteq (IF k \in mixed' \/ Process[k].types = {}
                                       THEN Type ELSE Process[k].types)
    BY DEF ResolvedInKind
  <2>1. Process[k].types \subseteq Type BY ProcessTypes
  <2> QED BY <2>1 DEF DriverIInv, ResolvedInKind
<1>5. MailSound' BY <1>1 DEF DriverIInv, MailSound
<1>6. FreshInStream'
  <2>1. uses[m.id] <= crashes
    BY <1>0, Redelivered, Nobody DEF DriverIInv, FreshInStream
  <2> QED BY <1>1, <2>1 DEF DriverIInv, FreshInStream
<1>7. PendingSound' BY Nobody DEF PendingSound
<1> QED BY <1>2, <1>3, <1>4, <1>5, <1>6, <1>7

(* The message resolves the step it is handled for: it is in the worker's      *)
(* hands by then, or gone from the stream.                                     *)
LEMMA Use ==
    ASSUME DriverIInv, NEW m \in stream, inbox = NoMsg,
           Waited # NoWait, Matches(m), Resolve(m), pending' = Waited,
           UNCHANGED <<numSent, crashes, torn>>,
           \/ /\ inbox' = [id |-> m.id, stage |-> "posted"]
              /\ stream' = (stream \ {m}) \cup {[m EXCEPT !.n = @ + 1]}
              /\ mixed' = mixed
           \/ /\ inbox' = inbox /\ stream' = stream \ {m}
              /\ mixed' = mixed \cup {Waited.step}
    PROVE  /\ Mail' /\ OneStepPerEvent' /\ ResolvedInKind'
           /\ MailSound' /\ FreshInStream' /\ PendingSound'
<1>0. Mail /\ Machine BY TypeSplit DEF DriverIInv
<1>m. m.id \in Msg /\ m.type \in Type /\ m.id # NoMsg.id /\ m.id <= numSent
  BY <1>0, Redelivered, Nobody DEF Matches, DriverIInv, MailSound
<1>w. Waited \in Effect /\ Waited.step \in Steps BY <1>0, Nobody DEF Waited, Machine
<1>s. mixed' \subseteq Steps /\ mixed \subseteq mixed' BY <1>0, <1>w DEF Mail
<1>1. /\ stream' \subseteq [id : Msg, type : Type \cup {"chat"}, n : Nat]
      /\ \A o \in stream' : o.id <= numSent'
      /\ \A o, q \in stream' : o.id = q.id => o = q
      /\ \A o \in stream' : o.id # m.id => o \in stream
      /\ stream' = stream \ {m} => \A o \in stream' : o.id # m.id
  BY <1>0, StreamKept DEF DriverIInv
<1>2. uses' = [uses EXCEPT ![m.id] = uses[m.id] + 1] /\ uses \in [Msg -> Nat]
  BY <1>0 DEF Resolve, Mail
<1>3. uses' \in [Msg -> Nat] /\ uses'[m.id] = uses[m.id] + 1
      /\ \A k \in Msg : k # m.id => uses'[k] = uses[k]
  BY <1>2, <1>m
<1>4. by' \in [Steps -> SUBSET (Type \cup {"chat"})]
  BY <1>0, <1>m, <1>w DEF Resolve, Mail
<1>5. inbox' \in [id : Msg, stage : {"posted", "unlinked"}] \cup {NoMsg} BY <1>m
<1>6. Mail' BY <1>0, <1>1, <1>3, <1>4, <1>5, <1>s DEF Mail
<1>7. uses[m.id] <= crashes BY <1>m DEF DriverIInv, FreshInStream
<1>8. crashes \in Nat /\ numSent \in Nat /\ Msg \subseteq Nat BY <1>0, ProcessAssumption DEF Mail, Msg
<1>9. OneStepPerEvent'
  <2>1. ASSUME NEW k \in Msg PROVE uses'[k] <= 1 + crashes
    <3>1. CASE k = m.id BY <3>1, <1>2, <1>3, <1>7, <1>8, <1>m
    <3>2. CASE k # m.id BY <3>2, <1>3 DEF DriverIInv, OneStepPerEvent
    <3> QED BY <3>1, <3>2
  <2> QED BY <2>1 DEF OneStepPerEvent
<1>10. MailSound'
  <2>1. inbox'.id <= numSent' BY <1>m, <1>8, Nobody
  <2> QED BY <1>1, <1>3, <1>8, <1>m, <2>1 DEF DriverIInv, MailSound
<1>11. FreshInStream'
  <2>1. \A o \in stream' : o.id # inbox'.id => o.id # m.id /\ o \in stream
    BY <1>1
  <2>2. \A o \in stream : o.id \in Msg BY <1>0 DEF Mail
  <2>3. \A o \in stream : o.id # inbox.id BY <2>2, Nobody
  <2> QED BY <1>3, <2>1, <2>2, <2>3 DEF DriverIInv, FreshInStream
<1>12. PendingSound' BY Nobody DEF PendingSound
<1>13. ResolvedInKind'
  <2> SUFFICES ASSUME NEW k \in Steps
               PROVE  by'[k] \subseteq (IF k \in mixed' \/ Process[k].types = {}
                                        THEN Type ELSE Process[k].types)
    BY DEF ResolvedInKind
  <2>1. Process[k].types \subseteq Type BY ProcessTypes
  <2>2. by[k] \subseteq (IF k \in mixed' \/ Process[k].types = {} THEN Type ELSE Process[k].types)
    BY <2>1, <1>s DEF DriverIInv, ResolvedInKind
  <2>3. by'[k] = IF k = Waited.step THEN by[k] \cup {m.type} ELSE by[k]
    BY <1>0, <1>w DEF Resolve, Mail
  <2>4. ASSUME k = Waited.step, k \notin mixed', Process[k].types # {} PROVE m.type \in Process[k].types
    <3>1. pending = NoWait BY <2>4, <1>s DEF DriverIInv, PendingSound, Waited
    <3>2. Waited = file BY <3>1 DEF Waited
    <3> QED BY <2>4, <3>1, <3>2 DEF Matches
  <2> QED BY <2>2, <2>3, <2>4, <1>m
<1> QED BY <1>6, <1>9, <1>10, <1>11, <1>12, <1>13

-----------------------------------------------------------------------------
(* Every step.                                                                 *)

Kept ==
    /\ OneStepPerEvent' /\ ResolvedInKind'
    /\ MailSound' /\ FreshInStream' /\ PendingSound'

LEMMA DriverStepInv == DriverIInv /\ [DriverNext]_driverVars => DriverIInv'
<1> SUFFICES ASSUME DriverIInv, [DriverNext]_driverVars PROVE Machine' /\ Mail' /\ Kept
  BY DEF DriverIInv, Kept, DriverTypes, Machine, Mail, Drivers
<1>T. Machine /\ Mail /\ driver \in Drivers BY TypeSplit DEF DriverIInv, Machine
<1>N. MaxSend \in Nat /\ MaxCrashes \in Nat BY ProcessAssumption
<1>Start. CASE Start
  <2>1. \A a, b \in BOOLEAN : \A k \in 0..Len(Process) :
          [Down EXCEPT !.up = TRUE, !.run = "base", !.waiting = a, !.ready = b, !.effect = k] \in Drivers
    <3>1. \A d \in Drivers : \A a, b \in BOOLEAN : \A k \in 0..Len(Process) :
            [d EXCEPT !.up = TRUE, !.run = "base", !.waiting = a, !.ready = b, !.effect = k] \in Drivers
      BY DEF Drivers, Run
    <3> QED BY <3>1, DownIsDriver
  <2> DEFINE j == journal["base"]
             parked == j.asked > j.done /\ Process[j.asked].kind = "event"
  <2>2. j.asked \in 0..Len(Process) /\ j.done \in 0..Len(Process) BY <1>T DEF Machine, Run
  <2>3. 0 \in 0..Len(Process) BY ProcessTypes
  <2>4. CASE parked
    <3>1. j.asked \in Steps BY <2>2, <2>4, ProcessTypes DEF Steps
    <3>2. driver' = [Down EXCEPT !.up = TRUE, !.run = "base", !.waiting = TRUE,
                                 !.ready = TRUE, !.effect = j.asked]
          /\ file' = [run |-> "base", step |-> j.asked]
      BY <1>Start, <2>4 DEF Start
    <3>3. driver' \in Drivers /\ file' \in Effect BY <2>1, <2>2, <3>1, <3>2 DEF Effect, Run
    <3> QED BY <1>Start, <1>T, <3>3, Away DEF Start, engine, Machine, Kept
  <2>5. CASE ~parked
    <3>1. driver' = [Down EXCEPT !.up = TRUE, !.run = "base", !.waiting = FALSE,
                                 !.ready = FALSE, !.effect = 0] /\ file' = file
      BY <1>Start, <2>5 DEF Start
    <3>2. driver' \in Drivers BY <2>1, <2>3, <3>1
    <3> QED BY <1>Start, <1>T, <3>1, <3>2, Away DEF Start, engine, Machine, Kept
  <2> QED BY <2>4, <2>5
<1>StartBlind. CASE StartBlind
  <2>1. driver' \in Drivers
    <3>1. \A d \in Drivers : [d EXCEPT !.up = TRUE] \in Drivers BY DEF Drivers
    <3> QED BY <3>1, <1>StartBlind, DownIsDriver DEF StartBlind
  <2> QED BY <1>StartBlind, <1>T, <2>1, Slipped, Away DEF StartBlind, engine, Machine, Kept
<1>BeginTurn. CASE BeginTurn
  BY <1>BeginTurn, <1>T, Away DEF BeginTurn, engine, Machine, Kept
<1>PostResult. CASE PostResult
  <2>1. driver.run \in Run /\ driver.effect \in 0..Len(Process)
    BY <1>PostResult, <1>T, UnresolvedTypes DEF PostResult, Current, Drivers
  <2>2. journal' \in [Run -> [asked : 0..Len(Process), done : 0..Len(Process)]]
    BY <1>PostResult, <1>T, <2>1, Resolved DEF PostResult
  <2> QED BY <1>PostResult, <1>T, <2>2, Away DEF PostResult, atWork, Machine, Kept
<1>EndTurn. CASE EndTurn
  <2>0. UNCHANGED <<mail, crashes, hist>> BY <1>EndTurn DEF EndTurn
  <2>1. CASE Idles
    <3>1. turn' = FALSE /\ UNCHANGED <<engine, driver, file, pending, prompts, slips>>
      BY <1>EndTurn, <2>1 DEF EndTurn
    <3> QED BY <1>T, <2>0, <3>1, Away DEF engine, Machine, Kept
  <2>2. CASE ~Idles
    <3> DEFINE d == [driver EXCEPT !.ready = TRUE, !.waiting = FALSE,
                                   !.dispatched = FALSE, !.effect = 0]
    <3>1. d \in Drivers BY <1>T, Rearmed
    <3>2. d.run \in Run BY <1>T, <2>2 DEF Idles, Drivers
    <3>3. Drive(d) BY <1>EndTurn, <2>2 DEF EndTurn
    <3>4. pending' \in {pending, NoWait}
      BY <3>3 DEF Drive, Complete, AwaitEvent, Dispatch, Fork, IterateFails
    <3> HIDE DEF d
    <3> QED BY <1>T, <2>0, <3>1, <3>2, <3>3, <3>4, DriveTypes, Away DEF Kept
  <2> QED BY <2>1, <2>2
<1>Deliver. CASE Deliver
  <2>1. inbox = NoMsg /\ UNCHANGED <<driver, file, turn, numSent, crashes>>
    BY <1>Deliver DEF Deliver, DriverFree
  <2>2. PICK m \in stream : NotWaiting(m) \/ SetAside(m) \/ Post(m) \/ PostFails(m)
    BY <1>Deliver DEF Deliver
  <2>w. /\ Waited \in Effect \cup {NoWait} /\ (pending # NoWait => Waited = pending)
        /\ Waited # NoWait => Waited.run \in Run /\ Waited.step \in Steps /\ Waited.step \in 0..Len(Process)
        /\ mixed \subseteq Steps
        /\ pending # NoWait => pending.step \in mixed
    BY <1>T, <2>1, Nobody DEF Waited, Machine, Mail, DriverIInv, PendingSound
  <2>r. ASSUME Waited # NoWait, Resolve(m)
        PROVE  journal' \in [Run -> [asked : 0..Len(Process), done : 0..Len(Process)]]
    BY <1>T, <2>w, <2>r, Resolved DEF Resolve
  <2>3. CASE NotWaiting(m)
    <3>1. pending = NoWait BY <2>3, <2>w DEF NotWaiting
    <3>2. UNCHANGED <<journal, forked, edited, prompts, pending, inbox, slips, by, uses, mixed, torn>>
      BY <2>3 DEF NotWaiting, engine, hist
    <3>3. stream' = stream \ {m} \/ stream' = (stream \ {m}) \cup {[m EXCEPT !.n = @ + 1]}
      BY <2>3 DEF NotWaiting
    <3> QED BY <1>T, <2>1, <2>w, <3>1, <3>2, <3>3, NoUse DEF Machine, Kept
  <2>4. CASE SetAside(m)
    <3>1. /\ UNCHANGED <<journal, forked, edited, inbox, slips, by, uses, torn>>
          /\ stream' = stream \ {m} /\ pending' = Waited
          /\ mixed' = mixed \cup ({Waited.step} \ {0})
          /\ prompts' \in BOOLEAN
      BY <2>4, <1>T DEF SetAside, engine, Machine
    <3>2. mixed \subseteq mixed' /\ mixed' \subseteq Steps
      BY <2>w, <3>1 DEF NoWait
    <3>3. pending' # NoWait => pending'.step \in mixed' /\ pending' \in Effect
      BY <2>w, <3>1, Nobody
    <3> QED BY <1>T, <2>1, <2>w, <3>1, <3>2, <3>3, NoUse DEF Machine, Kept
  <2>5. CASE Post(m)
    <3>1. /\ UNCHANGED <<forked, edited, prompts, slips, mixed, torn>>
          /\ Waited # NoWait /\ Matches(m) /\ Resolve(m) /\ pending' = Waited
          /\ inbox' = [id |-> m.id, stage |-> "posted"]
          /\ stream' = (stream \ {m}) \cup {[m EXCEPT !.n = @ + 1]}
      BY <2>5 DEF Post
    <3> QED BY <1>T, <2>1, <2>w, <2>r, <3>1, Use DEF Machine, Kept
  <2>6. CASE PostFails(m)
    <3>1. /\ UNCHANGED <<forked, edited, prompts, inbox, torn>>
          /\ Waited # NoWait /\ Matches(m) /\ pending' = Waited
          /\ stream' = stream \ {m} /\ mixed' = mixed \cup {Waited.step}
      BY <2>6 DEF PostFails
    <3>2. slips' \in 0..MaxSlips BY <1>T, <2>6, Slipped DEF PostFails, Machine
    <3>3. CASE UNCHANGED <<journal, by, uses>>
      <4>1. Waited \in Effect BY <2>w, <3>1
      <4> QED BY <1>T, <2>1, <2>w, <3>1, <3>2, <3>3, <4>1, NoUse DEF Machine, Kept
    <3>4. CASE Resolve(m)
      BY <1>T, <2>1, <2>w, <2>r, <3>1, <3>2, <3>4, Use DEF Machine, Kept
    <3> QED BY <2>6, <3>3, <3>4 DEF PostFails
  <2> QED BY <2>2, <2>3, <2>4, <2>5, <2>6
<1>Unlink. CASE Unlink
  <2>1. /\ UNCHANGED <<journal, forked, edited, driver, turn, slips>>
        /\ UNCHANGED <<stream, numSent, crashes, by, uses, mixed, torn>>
        /\ pending' = NoWait /\ file' = NoWait /\ prompts' = TRUE
        /\ inbox.stage = "posted" /\ inbox' = [inbox EXCEPT !.stage = "unlinked"]
    BY <1>Unlink DEF Unlink, engine, hist
  <2>2. /\ inbox' \in [id : Msg, stage : {"posted", "unlinked"}]
        /\ inbox'.id = inbox.id
    BY <1>T, <2>1, Nobody DEF Mail
  <2>3. Machine' /\ Mail' BY <1>T, <2>1, <2>2 DEF Machine, Mail
  <2>4. OneStepPerEvent' /\ ResolvedInKind' BY <2>1 DEF DriverIInv, OneStepPerEvent, ResolvedInKind
  <2>5. MailSound' /\ FreshInStream' /\ PendingSound'
    BY <2>1, <2>2 DEF DriverIInv, MailSound, FreshInStream, PendingSound
  <2> QED BY <2>3, <2>4, <2>5 DEF Kept
<1>Ack. CASE Ack
  <2>1. /\ UNCHANGED <<journal, forked, edited, driver, file, pending, turn, prompts, slips>>
        /\ UNCHANGED <<numSent, crashes, by, uses, mixed, torn>>
        /\ inbox.stage = "unlinked" /\ inbox' = NoMsg
        /\ stream' = {m \in stream : m.id # inbox.id}
    BY <1>Ack DEF Ack, engine, atWork, hist
  <2>2. Machine' /\ Mail' BY <1>T, <2>1 DEF Machine, Mail
  <2>3. OneStepPerEvent' /\ ResolvedInKind' BY <2>1 DEF DriverIInv, OneStepPerEvent, ResolvedInKind
  <2>4. inbox'.id <= numSent' BY <1>T, <1>N, <2>1, Nobody DEF Mail
  <2>5. MailSound' /\ FreshInStream' BY <2>1, <2>4 DEF DriverIInv, MailSound, FreshInStream
  <2>6. PendingSound' BY <2>1, Nobody DEF DriverIInv, PendingSound
  <2> QED BY <2>2, <2>3, <2>5, <2>6 DEF Kept
<1>Send. CASE Send
  <2>1. /\ UNCHANGED <<journal, forked, edited, driver, file, pending, turn, prompts, slips>>
        /\ UNCHANGED <<inbox, crashes, by, uses, mixed, torn>>
        /\ numSent < MaxSend /\ numSent' = numSent + 1
    BY <1>Send DEF Send, engine, atWork, hist
  <2>2. PICK t \in Type \cup {"chat"} : stream' = stream \cup {[id |-> numSent', type |-> t, n |-> 0]}
    BY <1>Send DEF Send
  <2>3. numSent \in Nat /\ numSent' \in Msg /\ numSent' \in 0..MaxSend
    BY <1>T, <1>N, <2>1 DEF Mail, Msg
  <2> DEFINE new == [id |-> numSent', type |-> t, n |-> 0]
  <2>4. new \in [id : Msg, type : Type \cup {"chat"}, n : Nat] /\ new.id = numSent'
    BY <2>3
  <2> HIDE DEF new
  <2>5. stream' = stream \cup {new} BY <2>2 DEF new
  <2>6. Machine' /\ Mail' BY <1>T, <2>1, <2>3, <2>4, <2>5 DEF Machine, Mail
  <2>7. OneStepPerEvent' /\ ResolvedInKind' BY <2>1 DEF DriverIInv, OneStepPerEvent, ResolvedInKind
  <2>8. \A m \in stream : m.id \in Nat /\ m.id <= numSent BY <1>T, Nobody DEF DriverIInv, MailSound, Mail
  <2>9. MailSound'
    <3>0. inbox.id \in Msg \/ inbox.id = 0 BY <1>T, Nobody DEF Mail
    <3>1. inbox.id \in Nat /\ inbox.id <= numSent
      <4>1. inbox.id \in Nat BY <3>0 DEF Msg
      <4>2. inbox.id <= numSent BY DEF DriverIInv, MailSound
      <4> QED BY <4>1, <4>2
    <3> QED BY <2>1, <2>3, <2>4, <2>5, <2>8, <3>1, Nobody DEF DriverIInv, MailSound
  <2>10. uses[numSent'] = 0 BY <2>1, <2>3 DEF DriverIInv, MailSound
  <2>11. FreshInStream'
    BY <1>T, <1>N, <2>1, <2>4, <2>5, <2>10 DEF DriverIInv, FreshInStream, Mail
  <2>12. PendingSound' BY <2>1 DEF DriverIInv, PendingSound
  <2> QED BY <2>6, <2>7, <2>9, <2>11, <2>12 DEF Kept
<1>Crash. CASE Crash
  <2>1. /\ UNCHANGED <<journal, forked, edited, file, stream, numSent, slips, by, uses, mixed>>
        /\ crashes < MaxCrashes /\ crashes' = crashes + 1
        /\ torn' = (torn \/ inbox.stage = "posted") /\ driver' = Down
        /\ turn' = FALSE /\ prompts' = FALSE /\ pending' = NoWait /\ inbox' = NoMsg
    BY <1>Crash DEF Crash, engine
  <2>2. crashes \in Nat /\ crashes' \in 0..MaxCrashes BY <1>T, <1>N, <2>1 DEF Mail
  <2>3. Machine' BY <1>T, <2>1, DownIsDriver DEF Machine
  <2>4. torn' \in BOOLEAN BY <1>T, <2>1 DEF Mail
  <2>5. Mail' BY <1>T, <2>1, <2>2, <2>4 DEF Mail
  <2>6. \A k \in Msg : uses[k] \in Nat /\ uses[k] <= 1 + crashes
    BY <1>T DEF DriverIInv, OneStepPerEvent, Mail
  <2>7. OneStepPerEvent' BY <2>1, <2>2, <2>6 DEF OneStepPerEvent
  <2>8. ResolvedInKind' BY <2>1 DEF DriverIInv, ResolvedInKind
  <2>9. FreshInStream' BY <1>T, <2>1, <2>2, <2>6 DEF FreshInStream, Mail
  <2>10. MailSound' BY <1>T, <1>N, <2>1, Nobody DEF DriverIInv, MailSound, Mail
  <2>11. PendingSound' BY <2>1 DEF PendingSound
  <2> QED BY <2>3, <2>5, <2>7, <2>8, <2>9, <2>10, <2>11 DEF Kept
<1>Edit. CASE Edit
  BY <1>Edit, <1>T, Away DEF Edit, atWork, Machine, Kept
<1>Stutter. CASE UNCHANGED driverVars
  BY <1>Stutter, <1>T, Away DEF driverVars, engine, atWork, Machine, Kept
<1> QED
  BY <1>Start, <1>StartBlind, <1>BeginTurn, <1>PostResult, <1>EndTurn, <1>Deliver, <1>Unlink,
     <1>Ack, <1>Send, <1>Crash, <1>Edit, <1>Stutter DEF DriverNext, Worker

LEMMA DriverInvariant == DriverSpec => []DriverIInv
<1>1. DriverIInv /\ [DriverNext]_driverVars => DriverIInv' BY DriverStepInv
<1> QED BY <1>1, DriverInitInv, PTL DEF DriverSpec

(* For any process and any messages, in any order, with deaths of the worker,  *)
(* failed calls and changed processes: journal, driver and inbox keep their    *)
(* types, and a message resolves one step, and one more for each death.        *)
THEOREM EventsUsedOnce == DriverSpec => []DriverInv
<1>1. DriverIInv => DriverInv BY DEF DriverIInv, DriverInv
<1> QED BY <1>1, DriverInvariant, PTL

(* And a step that waits for some types of events is resolved by no other,     *)
(* unless another message was handled during the wait.                         *)
THEOREM WaitsEndInKind == DriverSpec => []ResolvedInKind
<1>1. DriverIInv => ResolvedInKind BY DEF DriverIInv
<1> QED BY <1>1, DriverInvariant, PTL

-----------------------------------------------------------------------------
(* Why a worker stands still.  Excused are the ends of the run, its fork and   *)
(* failed calls.  Otherwise a run that waits has the signal file of its step,  *)
(* not resolved yet or in the inbox's hands, and between two turns with no     *)
(* message for the agent the run waits or the agent has a task (CauseInv).     *)
Excused == driver.finished \/ driver.forking \/ slips > 0
Parked == driver.waiting /\ file = Current /\ Unresolved(file)
Tasked == driver.dispatched /\ Unresolved(Current)
Posting == inbox.stage = "posted"

Reasons ==
    /\ driver.run \in Run
    /\ ~(driver.waiting /\ driver.dispatched)
    /\ driver.waiting /\ file # NoWait => Parked \/ Posting
    /\ ~turn /\ ~prompts => Parked \/ Tasked \/ Posting

CauseInv ==
    /\ ~driver.up => inbox = NoMsg
    /\ inbox.stage = "unlinked" => prompts
    /\ driver.up /\ ~Excused => Reasons

(* No worker is up at the start.                                               *)
LEMMA InitCause == DriverInit => CauseInv
BY DEF DriverInit, CauseInv, Down, NoMsg

(* Steps that leave the driver, its file and the inbox alone.                  *)
LEMMA CauseFrame ==
    ASSUME CauseInv, slips \in Nat, UNCHANGED <<journal, driver, file, turn, inbox>>,
           prompts => prompts', slips' = slips \/ slips' = slips + 1
    PROVE  CauseInv'
BY DEF CauseInv, Reasons, Excused, Parked, Tasked, Posting, Current, Unresolved

(* driveIteration gives a reason, or the driver is down or excused.            *)
LEMMA CauseDrive ==
    ASSUME Machine, inbox = NoMsg, inbox' = NoMsg, slips \in Nat, NEW d \in Drivers, d.run \in Run,
           ~d.waiting, ~d.dispatched, d.up, Drive(d)
    PROVE  CauseInv'
<1>0. inbox.stage = "none" /\ inbox'.stage = "none" BY Nobody
<1>1. CASE Complete(d)
  <2>1. ~driver'.up BY <1>1 DEF Complete, Drivers
  <2> QED BY <1>0, <2>1 DEF CauseInv
<1>2. CASE AwaitEvent(d)
  <2> DEFINE k == Reached(d.run)
  <2>1. /\ k \in Steps /\ driver' = [d EXCEPT !.effect = k, !.waiting = TRUE]
        /\ file' = [run |-> d.run, step |-> k]
        /\ journal' = [journal EXCEPT ![d.run] = [asked |-> k, done |-> k - 1]]
    BY <1>2 DEF AwaitEvent
  <2> HIDE DEF k
  <2>2. /\ driver'.run = d.run /\ driver'.effect = k /\ driver'.waiting /\ ~driver'.dispatched
    BY <2>1 DEF Drivers
  <2>3. journal'[d.run].done = k - 1 BY <2>1 DEF Machine
  <2>4. k - 1 < k BY <2>1, ProcessTypes DEF Steps
  <2>5. Parked'
    <3>1. file' = Current' BY <2>1, <2>2 DEF Current
    <3>2. file'.run \in Run /\ journal'[file'.run].done < file'.step
      <4>1. file'.run = d.run /\ file'.step = k BY <2>1
      <4> QED BY <2>3, <2>4, <4>1
    <3> QED BY <2>2, <3>1, <3>2, Zenon DEF Parked, Unresolved
  <2> QED BY <1>0, <2>2, <2>5 DEF CauseInv, Reasons, Drivers
<1>3. CASE Dispatch(d)
  <2>1. driver'.run = d.run /\ ~driver'.waiting /\ driver'.up /\ prompts' BY <1>3 DEF Dispatch, Drivers
  <2> QED BY <1>0, <2>1 DEF CauseInv, Reasons
<1>4. CASE Fork(d)
  <2>1. driver'.forking /\ driver'.up BY <1>4 DEF Fork, Drivers
  <2> QED BY <1>0, <2>1 DEF CauseInv, Excused
<1>5. CASE IterateFails(d)
  <2>1. slips' > 0 /\ driver'.up BY <1>5 DEF IterateFails, Slip, Drivers
  <2> QED BY <1>0, <2>1 DEF CauseInv, Excused
<1> QED BY <1>1, <1>2, <1>3, <1>4, <1>5 DEF Drive

(* Every step keeps the reasons.                                               *)
LEMMA CauseStep == DriverIInv /\ CauseInv /\ [DriverNext]_driverVars => CauseInv'
<1> SUFFICES ASSUME DriverIInv, CauseInv, [DriverNext]_driverVars PROVE CauseInv' OBVIOUS
<1>T. Machine /\ Mail /\ driver \in Drivers /\ slips \in Nat
  BY TypeSplit, ProcessAssumption DEF DriverIInv, Machine
<1>Start. CASE Start
  <2>1. /\ ~driver.up /\ prompts' = TRUE /\ UNCHANGED <<inbox, journal>>
        /\ LET j == journal["base"]
               parked == j.asked > j.done /\ Process[j.asked].kind = "event"
           IN  /\ driver' = [Down EXCEPT !.up = TRUE, !.run = "base", !.waiting = parked,
                                 !.ready = parked, !.effect = IF parked THEN j.asked ELSE 0]
               /\ file' = IF parked THEN [run |-> "base", step |-> j.asked] ELSE file
    BY <1>Start DEF Start, mail, engine
  <2>2. /\ driver'.up /\ driver'.run = "base" /\ ~driver'.dispatched
        /\ driver'.waiting =>
              /\ file' = [run |-> "base", step |-> journal["base"].asked]
              /\ driver'.effect = journal["base"].asked
              /\ journal["base"].asked > journal["base"].done
    BY <2>1 DEF Down
  <2>3. journal["base"].asked \in Nat /\ journal["base"].done \in Nat
    BY <1>T, ProcessTypes DEF Machine, Run
  <2>4. driver'.waiting => Parked' BY <2>1, <2>2, <2>3 DEF Parked, Current, Unresolved, Run
  <2> QED BY <2>1, <2>2, <2>4 DEF CauseInv, Reasons, Run
<1>StartBlind. CASE StartBlind
  <2>1. /\ ~driver.up /\ prompts' /\ UNCHANGED inbox /\ slips' > 0 /\ driver'.up
    BY <1>StartBlind, <1>T DEF StartBlind, mail, Slip, Down
  <2> QED BY <2>1 DEF CauseInv, Excused
<1>BeginTurn. CASE BeginTurn
  <2>1. /\ inbox = NoMsg /\ turn' /\ UNCHANGED <<journal, driver, file, inbox, slips>>
    BY <1>BeginTurn DEF BeginTurn, DriverFree, engine, mail
  <2> QED BY <2>1, Nobody DEF CauseInv, Reasons, Excused, Parked, Posting, Current, Unresolved
<1>PostResult. CASE PostResult
  <2>1. /\ turn /\ driver.dispatched /\ UNCHANGED <<driver, file, turn, prompts, inbox, slips>>
    BY <1>PostResult DEF PostResult, atWork, mail
  <2> QED BY <2>1 DEF CauseInv, Reasons, Excused
<1>EndTurn. CASE EndTurn
  <2>1. /\ driver.up /\ inbox = NoMsg /\ inbox' = NoMsg BY <1>EndTurn DEF EndTurn, DriverFree, mail
  <2>2. CASE Idles
    <3>1. turn' = FALSE /\ UNCHANGED <<journal, driver, file, prompts, slips>>
      BY <1>EndTurn, <2>2 DEF EndTurn, engine
    <3>2. ~Excused => Parked \/ Tasked
      BY <2>1, <2>2, Nobody DEF CauseInv, Reasons, Idles, Excused, Parked, Tasked, Posting
    <3> QED BY <2>1, <3>1, <3>2, Nobody
         DEF CauseInv, Reasons, Excused, Parked, Tasked, Posting, Current, Unresolved
  <2>3. CASE ~Idles
    <3> DEFINE d == [driver EXCEPT !.ready = TRUE, !.waiting = FALSE,
                                   !.dispatched = FALSE, !.effect = 0]
    <3>1. d \in Drivers BY <1>T, Rearmed
    <3>2. d.run \in Run BY <1>T, <2>3 DEF Idles, Drivers
    <3>3. ~d.waiting /\ ~d.dispatched /\ d.up BY <1>T, <2>1 DEF Drivers
    <3>4. Drive(d) BY <1>EndTurn, <2>3 DEF EndTurn
    <3> HIDE DEF d
    <3> QED BY <1>T, <2>1, <3>1, <3>2, <3>3, <3>4, CauseDrive
  <2> QED BY <2>2, <2>3
<1>Deliver. CASE Deliver
  <2>1. driver.up /\ inbox = NoMsg /\ UNCHANGED <<driver, file, turn>> BY <1>Deliver DEF Deliver, DriverFree
  <2>2. PICK m \in stream : NotWaiting(m) \/ SetAside(m) \/ Post(m) \/ PostFails(m)
    BY <1>Deliver DEF Deliver
  <2>3. CASE NotWaiting(m) \/ SetAside(m)
    <3>1. UNCHANGED <<journal, inbox, slips>> BY <2>3 DEF NotWaiting, SetAside, engine
    <3>2. prompts' = prompts \/ prompts' = (prompts \/ m.type = "chat")
      BY <2>3 DEF NotWaiting, SetAside
    <3>3. prompts => prompts' BY <3>2
    <3> QED BY <1>T, <2>1, <3>1, <3>3, CauseFrame
  <2>4. CASE Post(m)
    <3>1. inbox'.stage = "posted" /\ UNCHANGED <<prompts, slips>> BY <2>4 DEF Post
    <3> QED BY <2>1, <3>1 DEF CauseInv, Reasons, Excused, Posting
  <2>5. CASE PostFails(m)
    <3>1. UNCHANGED <<prompts, inbox>> /\ (slips' = slips \/ slips' = slips + 1)
      BY <2>5 DEF PostFails, Slip
    <3>2. CASE UNCHANGED journal BY <1>T, <2>1, <3>1, <3>2, CauseFrame
    <3>3. CASE Slip
      <4>1. slips' > 0 BY <1>T, <3>3 DEF Slip
      <4> QED BY <2>1, <3>1, <4>1, Nobody DEF CauseInv, Excused
    <3> QED BY <2>5, <3>2, <3>3 DEF PostFails
  <2> QED BY <2>2, <2>3, <2>4, <2>5
<1>Unlink. CASE Unlink
  <2>1. /\ driver.up /\ file' = NoWait /\ prompts' /\ UNCHANGED <<driver, slips>>
    BY <1>Unlink DEF Unlink
  <2> QED BY <2>1 DEF CauseInv, Reasons, Excused
<1>Ack. CASE Ack
  <2>1. /\ driver.up /\ inbox.stage = "unlinked" /\ inbox' = NoMsg
        /\ UNCHANGED <<journal, driver, file, turn, prompts, slips>>
    BY <1>Ack DEF Ack, engine, atWork
  <2> QED BY <2>1, Nobody DEF CauseInv, Reasons, Excused, Parked, Tasked, Posting, Current, Unresolved
<1>Crash. CASE Crash
  <2>1. ~driver'.up /\ inbox' = NoMsg BY <1>Crash DEF Crash, Down
  <2> QED BY <2>1, Nobody DEF CauseInv
<1>Else. CASE Send \/ Edit \/ UNCHANGED driverVars
  <2>1. UNCHANGED <<journal, driver, file, turn, inbox, prompts, slips>>
    BY <1>Else DEF Send, Edit, driverVars, engine, atWork, mail
  <2> QED BY <1>T, <2>1, CauseFrame
<1> QED BY <1>Start, <1>StartBlind, <1>BeginTurn, <1>PostResult, <1>EndTurn, <1>Deliver, <1>Unlink,
           <1>Ack, <1>Crash, <1>Else DEF DriverNext, Worker

(* A worker that stands still has a reason, whatever the process, however the  *)
(* messages, deaths, failed calls and changes of the process fall: no wait is  *)
(* left without its signal file, and none ends without a turn.                 *)
THEOREM StandsForCause == DriverSpec => []ParkedForCause
<1>1. CauseInv => ParkedForCause
  BY Nobody DEF CauseInv, Reasons, ParkedForCause, DriverFree, Excused, Parked, Tasked, Posting
<1> QED BY <1>1, DriverInvariant, InitCause, CauseStep, PTL DEF DriverSpec
=============================================================================
