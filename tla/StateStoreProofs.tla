-------------------------- MODULE StateStoreProofs --------------------------
(* Proofs about StateStore.  For any number of processes: its two locks        *)
(* exclude, so a half-written file is never published, and a commit that no    *)
(* foreign one overlapped undoes nothing.  For one process whose writes do not *)
(* fail: it implements the atomic store.                                       *)
EXTENDS StateStore, TLAPS

SafeInv == TypeOK /\ LockInv /\ NeverTorn

LEMMA ApplyType ==
    ASSUME NEW o \in Op, NEW c \in Content
    PROVE  Apply(o, c) \in Content
BY DEF Op, Content, Apply

LEMMA MergeType ==
    ASSUME NEW c \in Content, NEW d \in Content
    PROVE  Merge(c, d) \in Content
BY DEF Content, Merge

(* Typing of the initial operation: a key exists.                              *)
LEMMA NoOpType ==
    ASSUME NEW t \in Thread, NEW o \in Op
    PROVE  NoOp \in Op
<1>1. o.key \in Key BY DEF Op
<1>2. (CHOOSE k \in Key : TRUE) \in Key BY <1>1
<1> QED BY <1>2 DEF NoOp, Op

(* The step below needs some operation to exist: the initial state is typed    *)
(* only when there is a key.                                                   *)
LEMMA InitSafe == Key # {} /\ Init => SafeInv
<1> SUFFICES ASSUME Key # {}, Init PROVE SafeInv OBVIOUS
<1>1. NoOp \in Op BY DEF NoOp, Op
<1>2. Empty \in Content BY DEF Empty, Content
<1>3. TypeOK
  BY <1>1, <1>2, NoThreadAssumption DEF Init, TypeOK, Empty, Content
<1>4. LockInv BY DEF Init, LockInv, InUpdate, InFlush
<1>5. NeverTorn BY DEF Init, NeverTorn
<1> QED BY <1>3, <1>4, <1>5 DEF SafeInv

(* Every action keeps the variables typed.                                     *)
LEMMA StepTypes == Key # {} /\ TypeOK /\ [Next]_vars => TypeOK'
<1> SUFFICES ASSUME Key # {}, TypeOK, [Next]_vars PROVE TypeOK' OBVIOUS
<1> USE OwnerAssumption, NoThreadAssumption
<1>n. NoOp \in Op BY DEF NoOp, Op
<1>e. Empty \in Content BY DEF Empty, Content
<1>1. ASSUME NEW t \in Thread, NEW o \in Op, Begin(t, o) PROVE TypeOK'
  BY <1>1 DEF TypeOK, Begin, Goto
<1>2. ASSUME NEW t \in Thread, Reload(t) PROVE TypeOK'
  <2>1. Merge(file, mem[Owner[t]]) \in Content BY MergeType DEF TypeOK
  <2> QED BY <1>2, <2>1 DEF TypeOK, Reload, Goto
<1>3. ASSUME NEW t \in Thread, RunFn(t) PROVE TypeOK'
  <2>1. Apply(op[t], mem[Owner[t]]) \in Content BY ApplyType DEF TypeOK
  <2> QED BY <1>3, <2>1 DEF TypeOK, RunFn, Goto
<1>4. ASSUME NEW t \in Thread, FlushLock(t) PROVE TypeOK'
  BY <1>4 DEF TypeOK, FlushLock, Goto
<1>5. ASSUME NEW t \in Thread, OpenTmp(t) PROVE TypeOK'
  BY <1>5 DEF TypeOK, OpenTmp, Goto
<1>6. ASSUME NEW t \in Thread, WriteTmp(t) PROVE TypeOK'
  BY <1>6 DEF TypeOK, WriteTmp, Goto
<1>7. ASSUME NEW t \in Thread, WriteFails(t) PROVE TypeOK'
  BY <1>7, <1>n, <1>e DEF TypeOK, WriteFails, Finish, Goto
<1>8. ASSUME NEW t \in Thread, Rename(t) PROVE TypeOK'
  <2>1. Apply(op[t], bumps) \in Content BY ApplyType DEF TypeOK
  <2> QED BY <1>8, <2>1, <1>n, <1>e DEF TypeOK, Rename, Finish, Goto
<1>9. ASSUME NEW t \in Thread, Return(t) PROVE TypeOK'
  BY <1>9, <1>n, <1>e DEF TypeOK, Return, Finish, Goto
<1>10. ASSUME NEW p \in Proc, Stop(p) PROVE TypeOK'
  BY <1>10, <1>n, <1>e DEF TypeOK, Stop
<1>11. ASSUME NEW p \in Proc, Load(p) PROVE TypeOK'
  BY <1>11 DEF TypeOK, Load
<1>12. CASE UNCHANGED vars BY <1>12 DEF TypeOK, vars
<1> QED
  BY <1>1, <1>2, <1>3, <1>4, <1>5, <1>6, <1>7, <1>8, <1>9, <1>10, <1>11, <1>12
  DEF Next, Step

(* Every action keeps the two locks exclusive and a published file whole.      *)
LEMMA StepLocks == SafeInv /\ [Next]_vars => LockInv' /\ NeverTorn'
<1> SUFFICES ASSUME SafeInv, [Next]_vars PROVE LockInv' /\ NeverTorn' OBVIOUS
<1> USE OwnerAssumption, NoThreadAssumption DEF SafeInv, TypeOK, LockInv, NeverTorn, InUpdate, InFlush
<1>1. ASSUME NEW t \in Thread, NEW o \in Op, Begin(t, o) PROVE LockInv' /\ NeverTorn'
  BY <1>1 DEF Begin, Goto
<1>2. ASSUME NEW t \in Thread, Reload(t) PROVE LockInv' /\ NeverTorn'
  BY <1>2 DEF Reload, Goto
<1>3. ASSUME NEW t \in Thread, RunFn(t) PROVE LockInv' /\ NeverTorn'
  BY <1>3 DEF RunFn, Goto
<1>4. ASSUME NEW t \in Thread, FlushLock(t) PROVE LockInv' /\ NeverTorn'
  BY <1>4 DEF FlushLock, Goto
<1>5. ASSUME NEW t \in Thread, OpenTmp(t) PROVE LockInv' /\ NeverTorn'
  BY <1>5 DEF OpenTmp, Goto
<1>6. ASSUME NEW t \in Thread, WriteTmp(t) PROVE LockInv' /\ NeverTorn'
  BY <1>6 DEF WriteTmp, Goto
<1>7. ASSUME NEW t \in Thread, WriteFails(t) PROVE LockInv' /\ NeverTorn'
  BY <1>7 DEF WriteFails, Finish, Goto
<1>8. ASSUME NEW t \in Thread, Rename(t) PROVE LockInv' /\ NeverTorn'
  BY <1>8 DEF Rename, Finish, Goto
<1>9. ASSUME NEW t \in Thread, Return(t) PROVE LockInv' /\ NeverTorn'
  BY <1>9 DEF Return, Finish, Goto
<1>10. ASSUME NEW p \in Proc, Stop(p) PROVE LockInv' /\ NeverTorn'
  BY <1>10 DEF Stop
<1>11. ASSUME NEW p \in Proc, Load(p) PROVE LockInv' /\ NeverTorn'
  BY <1>11 DEF Load
<1>12. CASE UNCHANGED vars BY <1>12 DEF vars
<1> QED
  BY <1>1, <1>2, <1>3, <1>4, <1>5, <1>6, <1>7, <1>8, <1>9, <1>10, <1>11, <1>12
  DEF Next, Step

(* Whatever processes and goroutines share the file, and however they fail:    *)
(* the mutex and the flock exclude, and the file is never half-written.        *)
THEOREM StoreSafe == Key # {} => (Spec => [](TypeOK /\ LockInv /\ NeverTorn))
<1> SUFFICES ASSUME Key # {} PROVE Spec => [](TypeOK /\ LockInv /\ NeverTorn)
  OBVIOUS
<1>1. Init => SafeInv BY InitSafe
<1>2. SafeInv /\ [Next]_vars => SafeInv'
  BY StepTypes, StepLocks DEF SafeInv
<1> QED BY <1>1, <1>2, PTL DEF Spec, SafeInv

-----------------------------------------------------------------------------
(* One process whose writes succeed (the daemon alone on its state files).     *)
OneProcess == Key # {} /\ (\E p \in Proc : Proc = {p}) /\ MaxFails = 0

LEMMA MergeSame ==
    ASSUME NEW c \in Content
    PROVE  Merge(c, c) = c
BY DEF Content, Merge

LEMMA InitSync == OneProcess /\ Init => SyncInv
BY DEF OneProcess, Init, SyncInv, Ahead

(* The in-memory copy is the file, or the file with the running fn applied.    *)
LEMMA StepSync == OneProcess /\ SafeInv /\ SyncInv /\ [Next]_vars => SyncInv'
<1> SUFFICES ASSUME OneProcess, SafeInv, SyncInv, [Next]_vars PROVE SyncInv' OBVIOUS
<1>0. PICK p \in Proc : Proc = {p} BY DEF OneProcess
<1>o. \A t \in Thread : Owner[t] = p BY <1>0, OwnerAssumption
<1>u. \A t, u \in Thread : InUpdate(t) /\ InUpdate(u) => t = u
  BY <1>o DEF SafeInv, LockInv
<1>s. \A t \in Thread : InUpdate(t) /\ ~Ahead(t) => mem[p] = file
  BY <1>0, <1>o, <1>u DEF SyncInv, InUpdate, Ahead
<1>m. mem \in [Proc -> Content] /\ file \in Content /\ op \in [Thread -> Op]
  BY DEF SafeInv, TypeOK
<1>pc. pc \in [Thread -> {"idle", "reload", "fn", "flock", "open", "write",
                         "rename", "return", "off"}]
  BY DEF SafeInv, TypeOK
<1>1. ASSUME NEW t \in Thread, NEW o \in Op, Begin(t, o) PROVE SyncInv'
  BY <1>1, <1>0, <1>o, <1>m, <1>pc DEF SyncInv, Ahead, Begin, Goto
<1>2. ASSUME NEW t \in Thread, Reload(t) PROVE SyncInv'
  <2>1. mem[p] = file BY <1>2, <1>s DEF Reload, InUpdate, Ahead
  <2>2. Merge(file, mem[p]) = mem[p] BY <2>1, <1>m, MergeSame
  <2>3. mem' = mem BY <1>2, <2>2, <1>o, <1>m DEF Reload
  <2> QED BY <1>2, <2>3, <1>o, <1>pc DEF SyncInv, Ahead, Reload, Goto
<1>3. ASSUME NEW t \in Thread, RunFn(t) PROVE SyncInv'
  <2>1. mem[p] = file BY <1>3, <1>s DEF RunFn, InUpdate, Ahead
  <2>2. mem'[p] = Apply(op[t], file) BY <1>3, <2>1, <1>o, <1>m DEF RunFn
  <2>3. op[t].kind = "read" => mem'[p] = file BY <2>2 DEF Apply
  <2>4. \A u \in Thread : u # t => pc'[u] \in {"idle", "off"}
    BY <1>3, <1>u, <1>pc DEF RunFn, Goto, InUpdate
  <2> QED
    BY <1>3, <2>2, <2>3, <2>4, <1>0, <1>o, <1>pc DEF SyncInv, Ahead, RunFn, Goto
<1>4. ASSUME NEW t \in Thread, FlushLock(t) PROVE SyncInv'
  BY <1>4, <1>o, <1>pc DEF SyncInv, Ahead, FlushLock, Goto
<1>5. ASSUME NEW t \in Thread, OpenTmp(t) PROVE SyncInv'
  BY <1>5, <1>o, <1>pc DEF SyncInv, Ahead, OpenTmp, Goto
<1>6. ASSUME NEW t \in Thread, WriteTmp(t) PROVE SyncInv'
  <2>1. \A u \in Thread : pc'[u] = "rename" => u = t
    BY <1>6, <1>u, <1>pc DEF WriteTmp, Goto, InUpdate
  <2> QED BY <1>6, <2>1, <1>o, <1>pc DEF SyncInv, Ahead, WriteTmp, Goto
<1>7. ASSUME NEW t \in Thread, WriteFails(t) PROVE SyncInv'
  BY <1>7 DEF WriteFails, OneProcess, SafeInv, TypeOK
<1>8. ASSUME NEW t \in Thread, Rename(t) PROVE SyncInv'
  <2>1. tmp = mem[p] BY <1>8, <1>o DEF SyncInv, Rename
  <2>2. \A u \in Thread : ~Ahead(u)'
    BY <1>8, <1>u, <1>pc DEF Rename, Finish, Goto, Ahead, InUpdate
  <2> QED
    BY <1>8, <2>1, <2>2, <1>0, <1>o, <1>pc DEF SyncInv, Ahead, Rename, Finish, Goto
<1>9. ASSUME NEW t \in Thread, Return(t) PROVE SyncInv'
  <2>1. \A u \in Thread : ~Ahead(u) /\ ~Ahead(u)'
    BY <1>9, <1>u, <1>pc DEF Return, Finish, Goto, Ahead, InUpdate
  <2> QED
    BY <1>9, <2>1, <1>0, <1>o, <1>pc DEF SyncInv, Ahead, Return, Finish, Goto
<1>10. ASSUME NEW q \in Proc, Stop(q) PROVE SyncInv'
  <2>1. q = p BY <1>0
  <2>2. \A t \in Thread : pc'[t] = "off" BY <1>10, <2>1, <1>o DEF Stop
  <2>3. \E t \in Thread : TRUE BY <1>10 DEF Stop
  <2> QED BY <2>2, <2>3, <1>0, <1>o DEF SyncInv, Ahead
<1>11. ASSUME NEW q \in Proc, Load(q) PROVE SyncInv'
  <2>1. q = p BY <1>0
  <2>2. \A t \in Thread : pc'[t] = "idle" BY <1>11, <2>1, <1>o DEF Load
  <2>3. mem'[p] = file' BY <1>11, <2>1, <1>m DEF Load
  <2> QED BY <2>2, <2>3, <1>0, <1>o DEF SyncInv, Ahead
<1>12. CASE UNCHANGED vars BY <1>12 DEF SyncInv, Ahead, vars
<1> QED
  BY <1>1, <1>2, <1>3, <1>4, <1>5, <1>6, <1>7, <1>8, <1>9, <1>10, <1>11, <1>12
  DEF Next, Step

(* Every step of the store is an atomic mutation of the file, or invisible.    *)
LEMMA StepAtomic ==
    OneProcess /\ SafeInv /\ SyncInv /\ [Next]_vars =>
        [Atomic!AtomicNext]_<<file, bumps>>
<1> SUFFICES ASSUME OneProcess, SafeInv, SyncInv, [Next]_vars
             PROVE  [Atomic!AtomicNext]_<<file, bumps>>
  OBVIOUS
<1>1. ASSUME NEW t \in Thread, Rename(t) PROVE [Atomic!AtomicNext]_<<file, bumps>>
  <2>1. file' = Apply(op[t], file) /\ bumps' = Apply(op[t], bumps)
    BY <1>1 DEF Rename, SyncInv, Ahead
  <2>2. op[t] \in Op /\ op[t].key \in Key BY DEF SafeInv, TypeOK, Op
  <2>3. CASE op[t].kind = "bump"
    <3>1. Atomic!AtomicBump(op[t].key) BY <2>1, <2>3 DEF Apply, Atomic!AtomicBump
    <3> QED BY <3>1, <2>2 DEF Atomic!AtomicNext
  <2>4. CASE op[t].kind = "delete"
    <3>1. Atomic!AtomicDelete(op[t].key)
      BY <2>1, <2>4 DEF Apply, Atomic!AtomicDelete
    <3> QED BY <3>1, <2>2 DEF Atomic!AtomicNext
  <2>5. CASE op[t].kind = "read" BY <2>1, <2>5 DEF Apply
  <2> QED BY <2>2, <2>3, <2>4, <2>5 DEF Op
<1>2. ASSUME NEW t \in Thread, Step(t), ~Rename(t) PROVE UNCHANGED <<file, bumps>>
  BY <1>2 DEF Step, Begin, Reload, RunFn, FlushLock, OpenTmp, WriteTmp, WriteFails, Return
<1>3. ASSUME NEW p \in Proc, Stop(p) \/ Load(p) PROVE UNCHANGED <<file, bumps>>
  BY <1>3 DEF Stop, Load
<1>4. CASE UNCHANGED vars BY <1>4 DEF vars
<1> QED BY <1>1, <1>2, <1>3, <1>4 DEF Next

(* With one process the two-lock store implements the atomic one, through any  *)
(* interleaving of its goroutines and any number of restarts.                  *)
THEOREM OneProcessAtomic == OneProcess => (Spec => ImplementsAtomic)
<1> SUFFICES ASSUME OneProcess PROVE Spec => ImplementsAtomic OBVIOUS
<1>1. Spec => []SafeInv BY StoreSafe DEF OneProcess, SafeInv
<1>2. Init => SyncInv BY InitSync
<1>3. SafeInv /\ SyncInv /\ [Next]_vars => SyncInv' BY StepSync
<1>4. Init => Atomic!AtomicInit BY DEF Init, Empty, Atomic!AtomicInit
<1>5. SafeInv /\ SyncInv /\ [Next]_vars => [Atomic!AtomicNext]_<<file, bumps>>
  BY StepAtomic
<1> QED
  BY <1>1, <1>2, <1>3, <1>4, <1>5, PTL DEF Spec, ImplementsAtomic, Atomic!AtomicSpec

(* ... and therefore forgets no acknowledged mutation.                         *)
THEOREM OneProcessNoLostUpdate == OneProcess => (Spec => []NoLostUpdate)
<1> SUFFICES ASSUME OneProcess PROVE Spec => []NoLostUpdate OBVIOUS
<1>1. Spec => ImplementsAtomic BY OneProcessAtomic
<1>2. Spec => []SafeInv BY StoreSafe DEF OneProcess, SafeInv
<1>3. Atomic!AtomicInit => NoLostUpdate BY DEF Atomic!AtomicInit, NoLostUpdate
<1>4. SafeInv /\ NoLostUpdate /\ [Atomic!AtomicNext]_<<file, bumps>> => NoLostUpdate'
  BY DEF SafeInv, TypeOK, Content, NoLostUpdate, Atomic!AtomicNext,
         Atomic!AtomicBump, Atomic!AtomicDelete
<1> QED BY <1>1, <1>2, <1>3, <1>4, PTL DEF ImplementsAtomic, Atomic!AtomicSpec

-----------------------------------------------------------------------------
(* Several processes.  From reload() on, the goroutine's process holds every   *)
(* key that it found in the file, with its fn applied once that ran; nobody    *)
(* else touches the copy, for the goroutine holds the mutex, nor <path>.tmp    *)
(* before the rename, for it holds the flock.                                  *)
CommitInv ==
    /\ \A t \in Thread : \A k \in Key : base[t][k] # 0 =>
          /\ pc[t] = "fn" => mem[Owner[t]][k] = base[t][k]
          /\ Ahead(t) => mem[Owner[t]][k] = Apply(op[t], base[t])[k]
    /\ \A t \in Thread : pc[t] = "rename" => tmp = mem[Owner[t]]
    /\ \A t, u \in Thread : pc[t] = "off" /\ Owner[u] = Owner[t] => pc[u] = "off"

(* Nobody is in an update at the start.                                        *)
LEMMA InitCommit == Init => CommitInv
BY DEF Init, CommitInv, Ahead

(* Applying a mutation to a part of a copy is a part of applying it.           *)
LEMMA ApplyPart ==
    ASSUME NEW o \in Op, NEW c \in Content, NEW d \in Content, NEW k \in Key, c[k] = d[k]
    PROVE  Apply(o, c)[k] = Apply(o, d)[k]
BY DEF Op, Content, Apply

(* Goroutines in the middle of Update or Read do not get into another's way.   *)
LEMMA StepCommit == SafeInv /\ CommitInv /\ [Next]_vars => CommitInv'
<1> SUFFICES ASSUME SafeInv, CommitInv, [Next]_vars PROVE CommitInv' OBVIOUS
<1>u. \A t, u \in Thread : InUpdate(t) /\ InUpdate(u) /\ Owner[t] = Owner[u] => t = u
  BY DEF SafeInv, LockInv
<1>f. \A t, u \in Thread : InFlush(t) /\ InFlush(u) => t = u BY DEF SafeInv, LockInv
<1>m. /\ mem \in [Proc -> Content] /\ file \in Content /\ op \in [Thread -> Op]
      /\ base \in [Thread -> Content] /\ \A t \in Thread : Owner[t] \in Proc
      /\ pc \in [Thread -> {"idle", "reload", "fn", "flock", "open", "write",
                            "rename", "return", "off"}]
  BY OwnerAssumption DEF SafeInv, TypeOK
<1>1. ASSUME NEW t \in Thread, NEW o \in Op, Begin(t, o) PROVE CommitInv'
  BY <1>1, <1>m DEF CommitInv, Ahead, Begin, Goto
<1>2. ASSUME NEW t \in Thread, Reload(t) PROVE CommitInv'
  <2>1. /\ pc[t] = "reload" /\ pc' = [pc EXCEPT ![t] = "fn"] /\ UNCHANGED <<tmp, op>>
        /\ base' = [base EXCEPT ![t] = file]
        /\ mem' = [mem EXCEPT ![Owner[t]] = Merge(file, mem[Owner[t]])]
    BY <1>2 DEF Reload, Goto
  <2>2. \A u \in Thread : u # t /\ Owner[u] = Owner[t] => ~Ahead(u) /\ pc[u] # "fn" /\ pc[u] # "off"
    BY <1>u, <1>m, <2>1 DEF InUpdate, Ahead, CommitInv
  <2>3. \A u \in Thread : u # t => base'[u] = base[u] /\ pc'[u] = pc[u]
    BY <1>m, <2>1
  <2>4. \A u \in Thread : Owner[u] # Owner[t] => mem'[Owner[u]] = mem[Owner[u]] BY <1>m, <2>1
  <2>5. mem'[Owner[t]] = Merge(file, mem[Owner[t]]) /\ base'[t] = file /\ pc'[t] = "fn" BY <1>m, <2>1
  <2>6. \A k \in Key : file[k] # 0 => mem'[Owner[t]][k] = file[k] BY <2>5 DEF Merge
  <2>7. ASSUME NEW u \in Thread
        PROVE  /\ \A k \in Key : base'[u][k] # 0 =>
                    /\ pc'[u] = "fn" => mem'[Owner[u]][k] = base'[u][k]
                    /\ Ahead(u)' => mem'[Owner[u]][k] = Apply(op'[u], base'[u])[k]
               /\ pc'[u] = "rename" => tmp' = mem'[Owner[u]]
    <3>1. CASE u = t BY <2>5, <2>6, <3>1 DEF Ahead
    <3>2. CASE u # t /\ Owner[u] = Owner[t] BY <2>2, <2>3, <3>2 DEF Ahead
    <3>3. CASE Owner[u] # Owner[t] BY <2>1, <2>3, <2>4, <3>3 DEF CommitInv, Ahead
    <3> QED BY <3>1, <3>2, <3>3
  <2>8. \A v, u \in Thread : pc'[v] = "off" /\ Owner[u] = Owner[v] => pc'[u] = "off"
    BY <2>1, <2>3, <2>5 DEF CommitInv
  <2> QED BY <2>7, <2>8 DEF CommitInv
<1>3. ASSUME NEW t \in Thread, RunFn(t) PROVE CommitInv'
  <2>1. /\ pc[t] = "fn" /\ UNCHANGED <<tmp, op, base>>
        /\ pc' = [pc EXCEPT ![t] = IF op[t].kind = "read" THEN "return" ELSE "flock"]
        /\ mem' = [mem EXCEPT ![Owner[t]] = Apply(op[t], mem[Owner[t]])]
    BY <1>3 DEF RunFn, Goto
  <2>2. \A u \in Thread : u # t /\ Owner[u] = Owner[t] => ~Ahead(u) /\ pc[u] # "fn" /\ pc[u] # "off"
    BY <1>u, <1>m, <2>1 DEF InUpdate, Ahead, CommitInv
  <2>3. \A u \in Thread : u # t => pc'[u] = pc[u] BY <1>m, <2>1
  <2>4. \A u \in Thread : Owner[u] # Owner[t] => mem'[Owner[u]] = mem[Owner[u]] BY <1>m, <2>1
  <2>5. mem'[Owner[t]] = Apply(op[t], mem[Owner[t]]) /\ pc'[t] \in {"return", "flock"} BY <1>m, <2>1
  <2>6. \A k \in Key : base[t][k] # 0 => mem'[Owner[t]][k] = Apply(op[t], base[t])[k]
    <3> SUFFICES ASSUME NEW k \in Key, base[t][k] # 0
                 PROVE  mem'[Owner[t]][k] = Apply(op[t], base[t])[k]
      OBVIOUS
    <3>1. mem[Owner[t]][k] = base[t][k] BY <2>1 DEF CommitInv
    <3> QED BY <1>m, <2>5, <3>1, ApplyPart
  <2>7. ASSUME NEW u \in Thread
        PROVE  /\ \A k \in Key : base'[u][k] # 0 =>
                    /\ pc'[u] = "fn" => mem'[Owner[u]][k] = base'[u][k]
                    /\ Ahead(u)' => mem'[Owner[u]][k] = Apply(op'[u], base'[u])[k]
               /\ pc'[u] = "rename" => tmp' = mem'[Owner[u]]
    <3>1. CASE u = t BY <2>1, <2>5, <2>6, <3>1
    <3>2. CASE u # t /\ Owner[u] = Owner[t] BY <2>2, <2>3, <3>2 DEF Ahead
    <3>3. CASE Owner[u] # Owner[t] BY <2>1, <2>3, <2>4, <3>3 DEF CommitInv, Ahead
    <3> QED BY <3>1, <3>2, <3>3
  <2>8. \A v, u \in Thread : pc'[v] = "off" /\ Owner[u] = Owner[v] => pc'[u] = "off"
    BY <2>1, <2>3, <2>5 DEF CommitInv
  <2> QED BY <2>7, <2>8 DEF CommitInv
<1>4. ASSUME NEW t \in Thread, FlushLock(t) PROVE CommitInv'
  BY <1>4, <1>m DEF CommitInv, Ahead, FlushLock, Goto
<1>5. ASSUME NEW t \in Thread, OpenTmp(t) PROVE CommitInv'
  BY <1>5, <1>m DEF CommitInv, Ahead, OpenTmp, Goto
<1>6. ASSUME NEW t \in Thread, WriteTmp(t) PROVE CommitInv'
  <2>1. \A u \in Thread : pc'[u] = "rename" => u = t
    BY <1>6, <1>f, <1>m DEF WriteTmp, Goto, InFlush
  <2> QED BY <1>6, <1>m, <2>1 DEF CommitInv, Ahead, WriteTmp, Goto
<1>7. ASSUME NEW t \in Thread, WriteFails(t) PROVE CommitInv'
  BY <1>7, <1>m DEF CommitInv, Ahead, WriteFails, Finish, Goto
<1>8. ASSUME NEW t \in Thread, Rename(t) PROVE CommitInv'
  BY <1>8, <1>m DEF CommitInv, Ahead, Rename, Finish, Goto
<1>9. ASSUME NEW t \in Thread, Return(t) PROVE CommitInv'
  BY <1>9, <1>m DEF CommitInv, Ahead, Return, Finish, Goto
<1>10. ASSUME NEW p \in Proc, Stop(p) PROVE CommitInv'
  BY <1>10, <1>m DEF CommitInv, Ahead, Stop
<1>11. ASSUME NEW p \in Proc, Load(p) PROVE CommitInv'
  <2>1. \A u \in Thread : Owner[u] = p => pc[u] = "off" /\ pc'[u] = "idle"
    BY <1>11, <1>m DEF Load, CommitInv
  <2>2. \A u \in Thread : Owner[u] # p => pc'[u] = pc[u] /\ mem'[Owner[u]] = mem[Owner[u]]
    BY <1>11, <1>m DEF Load
  <2> QED BY <1>11, <2>1, <2>2 DEF CommitInv, Ahead, Load
<1>12. CASE UNCHANGED vars BY <1>12 DEF CommitInv, Ahead, vars
<1> QED
  BY <1>1, <1>2, <1>3, <1>4, <1>5, <1>6, <1>7, <1>8, <1>9, <1>10, <1>11, <1>12
  DEF Next, Step

(* Whatever processes and goroutines share the file, and however they fail or  *)
(* stop: a commit that no foreign one overlapped undoes nothing it found.      *)
THEOREM CommitsClean == Key # {} => (Spec => CleanCommit)
<1> SUFFICES ASSUME Key # {} PROVE Spec => CleanCommit OBVIOUS
<1>1. Spec => []SafeInv BY StoreSafe DEF SafeInv
<1>2. SafeInv /\ CommitInv /\ [Next]_vars =>
        [\A t \in Thread :
            pc[t] = "rename" /\ pc'[t] = "idle" /\ base[t] = file =>
                \A k \in Key : file[k] # 0 => file'[k] = Apply(op[t], file)[k]]_vars
  <2> SUFFICES ASSUME SafeInv, CommitInv, Next, NEW t \in Thread,
                      pc[t] = "rename", pc'[t] = "idle", base[t] = file, NEW k \in Key, file[k] # 0
               PROVE  file'[k] = Apply(op[t], file)[k]
    OBVIOUS
  <2>0. pc \in [Thread -> {"idle", "reload", "fn", "flock", "open", "write",
                           "rename", "return", "off"}]
    BY DEF SafeInv, TypeOK
  <2>1. Rename(t)
    <3>1. ASSUME NEW u \in Thread, Step(u), u # t PROVE FALSE
      BY <2>0, <3>1 DEF Step, Begin, Reload, RunFn, FlushLock, OpenTmp, WriteTmp, WriteFails,
                        Rename, Return, Finish, Goto
    <3>2. ASSUME Step(t), ~Rename(t) PROVE FALSE
      BY <3>2 DEF Step, Begin, Reload, RunFn, FlushLock, OpenTmp, WriteTmp, WriteFails, Return
    <3>3. ASSUME NEW p \in Proc, Stop(p) PROVE FALSE BY <3>3 DEF Stop
    <3>4. ASSUME NEW p \in Proc, Load(p) PROVE FALSE BY <3>4 DEF Load, CommitInv
    <3> QED BY <3>1, <3>2, <3>3, <3>4 DEF Next
  <2>2. file' = mem[Owner[t]] BY <2>1 DEF Rename, CommitInv
  <2> QED BY <2>2 DEF CommitInv, Ahead
<1> QED BY <1>1, <1>2, InitCommit, StepCommit, PTL DEF Spec, CleanCommit
=============================================================================
