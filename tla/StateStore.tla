----------------------------- MODULE StateStore -----------------------------
(* internal/state/state.go: the write-through YAML store.  Each process that   *)
(* opens a state file (the daemon, `aoc track-mr`, `aoc untrack-mr`, ...) has  *)
(* its own Store: an in-memory copy guarded by a mutex that only its own       *)
(* goroutines share.  The file is guarded by an flock that is taken once for   *)
(* reload() and, separately, once more for flush().                            *)
(*                                                                             *)
(* A YAML map entry is a counter: 0 is an absent key, and a mutation of the    *)
(* entry is an increment, so a forgotten mutation shows as a smaller number.   *)
EXTENDS Naturals

CONSTANTS Proc,        \* processes that open the file
          Thread,      \* goroutines
          Owner,       \* Owner[t]: the process goroutine t runs in
          Key,         \* keys of the YAML map
          NoThread,    \* nobody holds the lock
          MaxVal,      \* bound: mutations per key
          MaxFails,    \* bound: failed writes
          MaxStops     \* bound: process exits

ASSUME OwnerAssumption == Owner \in [Thread -> Proc]
ASSUME NoThreadAssumption == NoThread \notin Thread
ASSUME BoundsAssumption == MaxVal \in Nat /\ MaxFails \in Nat /\ MaxStops \in Nat

VARIABLES
    file,       \* the published state file
    fileWhole,  \* FALSE: the published file is a half-written one
    tmp,        \* <path>.tmp
    tmpWhole,   \* FALSE: .tmp is truncated or half written
    mem,        \* mem[p]: Store.Data of process p
    mu,         \* mu[p]: goroutine holding Store.mu of process p
    flk,        \* goroutine holding the flock on <path>.lock
    pc,         \* where each goroutine is in Update or Read
    op,         \* the operation it runs
    base,       \* history: the file as it was at the goroutine's reload()
    bumps,      \* history: acknowledged mutations per key since its deletion
    fails, stops

vars == <<file, fileWhole, tmp, tmpWhole, mem, mu, flk, pc, op, base, bumps,
          fails, stops>>

Content == [Key -> Nat]
Empty == [k \in Key |-> 0]

Op == [kind : {"bump", "delete", "read"}, key : Key]

(* The fn that callers pass to Update: s.Watched[k].F++ or delete(s.Watched, k) *)
Apply(o, c) ==
    CASE o.kind = "bump"   -> [c EXCEPT ![o.key] = @ + 1]
      [] o.kind = "delete" -> [c EXCEPT ![o.key] = 0]
      [] OTHER             -> c

(* yaml.Unmarshal into the map the process already has: keys of the file       *)
(* replace the ones in memory, keys the file lacks stay.                       *)
Merge(disk, own) == [k \in Key |-> IF disk[k] # 0 THEN disk[k] ELSE own[k]]

(* Goroutines without an operation carry this one.                             *)
NoOp == [kind |-> "read", key |-> CHOOSE k \in Key : TRUE]

Init ==
    /\ file = Empty /\ fileWhole = TRUE
    /\ tmp = Empty /\ tmpWhole = TRUE
    /\ mem = [p \in Proc |-> Empty]
    /\ mu = [p \in Proc |-> NoThread]
    /\ flk = NoThread
    /\ pc = [t \in Thread |-> "idle"]
    /\ op = [t \in Thread |-> NoOp]
    /\ base = [t \in Thread |-> Empty]
    /\ bumps = [k \in Key |-> 0]
    /\ fails = 0 /\ stops = 0

Goto(t, l) == pc' = [pc EXCEPT ![t] = l]

(* Update or Read returns: s.mu is released.                                   *)
Finish(t) ==
    /\ mu' = [mu EXCEPT ![Owner[t]] = NoThread]
    /\ Goto(t, "idle")
    /\ op' = [op EXCEPT ![t] = NoOp]
    /\ base' = [base EXCEPT ![t] = Empty]

BeginWithoutLock(t, o) ==
    /\ pc[t] = "idle"
    /\ o.kind = "bump" => \A p \in Proc : mem[p][o.key] < MaxVal /\ file[o.key] < MaxVal
    /\ mu' = [mu EXCEPT ![Owner[t]] = t]
    /\ op' = [op EXCEPT ![t] = o]
    /\ Goto(t, "reload")
    /\ UNCHANGED <<file, fileWhole, tmp, tmpWhole, mem, flk, base, bumps, fails, stops>>

(* s.mu.Lock()                                                                 *)
Begin(t, o) ==
    /\ pc[t] = "idle"
    /\ mu[Owner[t]] = NoThread
    /\ o.kind = "bump" => \A p \in Proc : mem[p][o.key] < MaxVal /\ file[o.key] < MaxVal
    /\ mu' = [mu EXCEPT ![Owner[t]] = t]
    /\ op' = [op EXCEPT ![t] = o]
    /\ Goto(t, "reload")
    /\ UNCHANGED <<file, fileWhole, tmp, tmpWhole, mem, flk, base, bumps, fails, stops>>

ReloadSkipped(t) ==
    /\ pc[t] = "reload" /\ flk = NoThread
    /\ base' = [base EXCEPT ![t] = file]
    /\ Goto(t, "fn")
    /\ UNCHANGED <<file, fileWhole, tmp, tmpWhole, mem, mu, flk, op, bumps, fails, stops>>

(* reload(): flock, read, merge, funlock.  Waits while a flush holds the lock. *)
Reload(t) ==
    /\ pc[t] = "reload" /\ flk = NoThread
    /\ mem' = [mem EXCEPT ![Owner[t]] = Merge(file, @)]
    /\ base' = [base EXCEPT ![t] = file]
    /\ Goto(t, "fn")
    /\ UNCHANGED <<file, fileWhole, tmp, tmpWhole, mu, flk, op, bumps, fails, stops>>

RunFnOnCopy(t) ==
    /\ pc[t] = "fn"
    /\ Goto(t, "flock")
    /\ UNCHANGED <<file, fileWhole, tmp, tmpWhole, mem, mu, flk, op, base, bumps, fails, stops>>

(* fn(&s.Data), then yaml.Marshal of the result.                               *)
RunFn(t) ==
    /\ pc[t] = "fn"
    /\ mem' = [mem EXCEPT ![Owner[t]] = Apply(op[t], @)]
    /\ Goto(t, IF op[t].kind = "read" THEN "return" ELSE "flock")
    /\ UNCHANGED <<file, fileWhole, tmp, tmpWhole, mu, flk, op, base, bumps, fails, stops>>

FlushWithoutLock(t) ==
    /\ pc[t] = "flock"
    /\ flk' = t
    /\ Goto(t, "open")
    /\ UNCHANGED <<file, fileWhole, tmp, tmpWhole, mem, mu, op, base, bumps, fails, stops>>

(* flush() takes the flock again ...                                           *)
FlushLock(t) ==
    /\ pc[t] = "flock" /\ flk = NoThread
    /\ flk' = t
    /\ Goto(t, "open")
    /\ UNCHANGED <<file, fileWhole, tmp, tmpWhole, mem, mu, op, base, bumps, fails, stops>>

(* ... os.WriteFile truncates <path>.tmp ...                                   *)
OpenTmp(t) ==
    /\ pc[t] = "open"
    /\ tmpWhole' = FALSE
    /\ Goto(t, "write")
    /\ UNCHANGED <<file, fileWhole, tmp, mem, mu, flk, op, base, bumps, fails, stops>>

(* ... and writes it ...                                                       *)
WriteTmp(t) ==
    /\ pc[t] = "write"
    /\ tmp' = mem[Owner[t]] /\ tmpWhole' = TRUE
    /\ Goto(t, "rename")
    /\ UNCHANGED <<file, fileWhole, mem, mu, flk, op, base, bumps, fails, stops>>

WriteFailsButRenames(t) ==
    /\ pc[t] \in {"open", "write"} /\ fails < MaxFails
    /\ fails' = fails + 1
    /\ Goto(t, "rename")
    /\ UNCHANGED <<file, fileWhole, tmp, tmpWhole, mem, mu, flk, op, base, bumps, stops>>

(* ... or returns the error, with .tmp as it is and Data already mutated.      *)
WriteFails(t) ==
    /\ pc[t] \in {"open", "write"} /\ fails < MaxFails
    /\ fails' = fails + 1
    /\ flk' = NoThread
    /\ Finish(t)
    /\ UNCHANGED <<file, fileWhole, tmp, tmpWhole, mem, bumps, stops>>

(* os.Rename, then both locks are released and Update returns.                 *)
Rename(t) ==
    /\ pc[t] = "rename"
    /\ file' = tmp /\ fileWhole' = tmpWhole
    /\ bumps' = Apply(op[t], bumps)
    /\ flk' = NoThread
    /\ Finish(t)
    /\ UNCHANGED <<tmp, tmpWhole, mem, fails, stops>>

(* Read: fn sees Data, nothing is written.                                     *)
Return(t) ==
    /\ pc[t] = "return"
    /\ Finish(t)
    /\ UNCHANGED <<file, fileWhole, tmp, tmpWhole, mem, flk, bumps, fails, stops>>

(* The process exits or is killed at any point: the kernel drops its flock,    *)
(* and the goroutines and the in-memory copy are gone.                         *)
Stop(p) ==
    /\ stops < MaxStops
    /\ \E t \in Thread : Owner[t] = p /\ pc[t] # "off"
    /\ stops' = stops + 1
    /\ pc' = [t \in Thread |-> IF Owner[t] = p THEN "off" ELSE pc[t]]
    /\ mu' = [mu EXCEPT ![p] = NoThread]
    /\ flk' = IF flk \in Thread /\ Owner[flk] = p THEN NoThread ELSE flk
    /\ op' = [t \in Thread |-> IF Owner[t] = p THEN NoOp ELSE op[t]]
    /\ base' = [t \in Thread |-> IF Owner[t] = p THEN Empty ELSE base[t]]
    /\ mem' = [mem EXCEPT ![p] = Empty]
    /\ UNCHANGED <<file, fileWhole, tmp, tmpWhole, bumps, fails>>

(* Load[T]: a new process reads the file, without any lock.                    *)
Load(p) ==
    /\ \E t \in Thread : Owner[t] = p /\ pc[t] = "off"
    /\ mem' = [mem EXCEPT ![p] = file]
    /\ pc' = [t \in Thread |-> IF Owner[t] = p THEN "idle" ELSE pc[t]]
    /\ UNCHANGED <<file, fileWhole, tmp, tmpWhole, mu, flk, op, base, bumps, fails, stops>>

Step(t) ==
    \/ \E o \in Op : Begin(t, o)
    \/ Reload(t) \/ RunFn(t) \/ FlushLock(t) \/ OpenTmp(t) \/ WriteTmp(t)
    \/ WriteFails(t) \/ Rename(t) \/ Return(t)

Next == (\E t \in Thread : Step(t)) \/ (\E p \in Proc : Stop(p) \/ Load(p))

Spec == Init /\ [][Next]_vars

-----------------------------------------------------------------------------
TypeOK ==
    /\ file \in Content /\ tmp \in Content /\ bumps \in Content
    /\ fileWhole \in BOOLEAN /\ tmpWhole \in BOOLEAN
    /\ mem \in [Proc -> Content] /\ base \in [Thread -> Content]
    /\ mu \in [Proc -> Thread \cup {NoThread}] /\ flk \in Thread \cup {NoThread}
    /\ pc \in [Thread -> {"idle", "reload", "fn", "flock", "open", "write",
                          "rename", "return", "off"}]
    /\ op \in [Thread -> Op]
    /\ fails \in Nat /\ stops \in Nat

(* Goroutines between Lock and Unlock, and inside the second flock section.    *)
InUpdate(t) == pc[t] \notin {"idle", "off"}
InFlush(t) == pc[t] \in {"open", "write", "rename"}

LockInv ==
    /\ \A t \in Thread : InUpdate(t) => mu[Owner[t]] = t
    /\ \A t \in Thread : InFlush(t) => flk = t
    /\ \A t \in Thread : pc[t] = "rename" => tmpWhole

(* No reader of the state file ever sees a half-written one, whatever          *)
(* processes write it concurrently, fail to write it or die writing it         *)
(* (flush: .tmp, os.Rename, both inside the flock).                            *)
NeverTorn == fileWhole

(* Every mutation acknowledged by Update is in the file (write-through).       *)
NoLostUpdate == \A k \in Key : file[k] = bumps[k]

(* A commit whose reload-to-rename window saw no foreign commit keeps all the  *)
(* other keys it found in the file: overlap is the only way to undo another    *)
(* process's mutation of an existing key.                                      *)
CleanCommit ==
    [][\A t \in Thread :
         pc[t] = "rename" /\ pc'[t] = "idle" /\ base[t] = file =>
           \A k \in Key : file[k] # 0 => file'[k] = Apply(op[t], file)[k]]_vars

Atomic == INSTANCE AtomicStore WITH db <- file
ImplementsAtomic == Atomic!AtomicSpec

-----------------------------------------------------------------------------
(* The strengthening that makes NoLostUpdate inductive when one process opens  *)
(* the file and its writes do not fail: the in-memory copy equals the file     *)
(* whenever no goroutine has run its fn, and is exactly one fn ahead after it. *)
Ahead(t) == pc[t] \in {"flock", "open", "write", "rename"}

SyncInv ==
    /\ \A p \in Proc : (\A t \in Thread : Owner[t] = p => ~Ahead(t) /\ pc[t] # "off")
                         => mem[p] = file
    /\ \A t \in Thread : Ahead(t) => mem[Owner[t]] = Apply(op[t], file)
    /\ \A t \in Thread : pc[t] = "rename" => tmp = mem[Owner[t]]
    /\ \A t, u \in Thread : pc[t] = "off" /\ Owner[u] = Owner[t] => pc[u] = "off"

OneProcInv == TypeOK /\ LockInv /\ SyncInv
=============================================================================
