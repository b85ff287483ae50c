--------------------------- MODULE SupervisionRules ---------------------------
(* What the daemon keeps running beside itself, and how it is started: the     *)
(* `engram serve` of the vignoble, the replication of its store, the mirrors   *)
(* of remote workers, and `aoc daemon start` and `stop`.                       *)
EXTENDS Integers, Sequences, FiniteSets, SequencesExt

CONSTANTS
    Ports,      \* number of ports PortForVignoble chooses from
    OldestNode      \* first version of node that will do

-----------------------------------------------------------------------------
(* EngramServer.  The holder of the port is "free", "ours" (our data dir),     *)
(* "foreign" (another one), "silent" (its environment cannot be read or names  *)
(* none).  A server e is [proc, adopted]; proc is what it supervises.          *)

Holders == {"free", "ours", "foreign", "silent"}

PortForVignoble(checksum) == checksum % Ports

Idle == [proc |-> "none", adopted |-> FALSE]
Adopt(holder) == [proc |-> holder, adopted |-> TRUE]

(* Mutant of Start: only what is known to be ours is adopted.                  *)
StartSuspicious(holder, launched) ==
    IF holder = "ours" THEN [server |-> Adopt(holder), killed |-> {}]
    ELSE [server |-> IF launched THEN [proc |-> "child", adopted |-> FALSE] ELSE Idle,
          killed |-> {holder} \ {"free"}]

(* Start: freed is whether the port came free after the kill, launched whether *)
(* the new process could be started (it is not waited for to be healthy).      *)
Start(holder, launched) ==
    CASE holder \in {"ours", "silent"} -> [server |-> Adopt(holder), killed |-> {}]
      [] holder \in {"free", "foreign"} ->
            [server |-> IF launched THEN [proc |-> "child", adopted |-> FALSE] ELSE Idle,
             killed |-> {holder} \ {"free"}]

(* One round of Supervise: what happens to the supervised process, and Start   *)
(* again when it is gone.  kill(pid, 0) sees any process of that number.       *)
Supervise(server, gone, reused, holder, launched) ==
    LET seen == gone /\ (server.adopted => ~reused)
    IN  IF server.proc = "none" \/ seen THEN Start(holder, launched)
        ELSE [server |-> server, killed |-> {}]

Stop(server) == {server.proc} \ {"none"}

-----------------------------------------------------------------------------
(* EngramSyncer.  A line of output is "done", "noise" or "other".              *)

(* Mutant of Exec: a success line outweighs whatever else is said.             *)
ExecOptimistic(exit, lines) == exit = 0 \/ "done" \in lines \/ lines = {"noise"}

Exec(exit, lines) ==
    \/ exit = 0
    \/ "done" \in lines /\ lines \subseteq {"done", "noise"}
    \/ lines = {"noise"}

(* listProjectsWithData over the mutations of the store.                       *)
ListProjectsWithData(store) ==
    IF store.exists /\ store.table
    THEN {m.project : m \in {x \in store.mutations : ~x.acked}} \ {""} ELSE {}

(* Mutant of EnrollAndSyncAll: the first failure ends the drain.               *)
EnrollUntilError(baseline, projects, fails) ==
    LET all == {baseline} \cup (projects \ {""})
        bad == {p \in all : <<"enroll", p>> \in fails \/ <<"sync", p>> \in fails}
    IN  [tried |-> IF bad = {} THEN all ELSE {CHOOSE p \in bad : TRUE}, error |-> bad # {}]

(* enrollAndSyncAll: every project is tried whatever became of the others.     *)
(* fails are the <<step, project>> that fail.                                  *)
EnrollAndSyncAll(baseline, projects, fails) ==
    LET all == {baseline} \cup (projects \ {""})
    IN  [tried |-> all, error |-> \E p \in all : <<"enroll", p>> \in fails \/ <<"sync", p>> \in fails]

(* QueryStatus and IsDegraded, of the store: state is the lifecycle of its     *)
(* cloud row ("" without one).                                                 *)
QueryStatus(store) ==
    [exists |-> store.exists,
     unacked |-> IF store.exists /\ store.table THEN Cardinality({m \in store.mutations : ~m.acked}) ELSE 0,
     degraded |-> store.exists /\ store.state = "degraded"]

(* Run of the syncer, and Setup with its config step: the record that is put.  *)
SyncRun(baseline, store, fails) ==
    LET drain == EnrollAndSyncAll(baseline, ListProjectsWithData(store), fails)
        status == QueryStatus(store)
    IN  [tried |-> drain.tried, fresh |-> ~drain.error,
         result |-> IF drain.error THEN "error" ELSE "ok",
         pending |-> IF drain.error THEN 0 ELSE status.unacked,
         degraded |-> ~drain.error /\ status.degraded]
SyncSetup(configured, baseline, store, fails) ==
    IF configured THEN SyncRun(baseline, store, fails)
    ELSE [tried |-> {}, fresh |-> FALSE, result |-> "error", pending |-> 0, degraded |-> FALSE]

-----------------------------------------------------------------------------
(* RemoteMirrorWatcher.  host[n] is what the local socket has under a name:    *)
(* "nothing", "mirror" or "worker"; records are those of pinard-agents.        *)

States == {"working", "stopped", "completed", "failed"}  \* "working": any that is not over

Wanted(records, vignoble, host) ==
    {r.name : r \in {x \in records : /\ x.vignoble = vignoble /\ x.safe
                                     /\ x.state \notin {"stopped", "completed", "failed"}
                                     /\ host[x.name] = "nothing"}}

(* Mutant of RunMirror: a mirror of a record that is gone stays.               *)
RunMirrorOnly(m, records, vignoble, listed, failed) ==
    LET new == Wanted(records, vignoble, m.host) \ failed
    IN  [mirrored |-> m.mirrored \cup new,
         host |-> [n \in DOMAIN m.host |-> IF n \in new THEN "mirror" ELSE m.host[n]]]

(* Run: what is not wanted any more is killed whatever it is, then what is     *)
(* wanted is started; a mirror that stands counts as local, so as not wanted.  *)
RunMirror(m, records, vignoble, listed, failed) ==
    LET want == Wanted(records, vignoble, m.host)
        torn == m.mirrored \ want
        host == [n \in DOMAIN m.host |-> IF n \in torn THEN "nothing" ELSE m.host[n]]
        new == want \ failed
    IN  IF ~listed THEN m
        ELSE [mirrored |-> new,
              host |-> [n \in DOMAIN host |-> IF n \in new THEN "mirror" ELSE host[n]]]

-----------------------------------------------------------------------------
(* `aoc daemon`.  file is the process the pid file names (0 for none), alive   *)
(* the processes there are, d the next one.                                    *)

ProcessAlive(alive, pid) == pid > 0 /\ pid \in alive

(* Mutant of DaemonStart: a pid file is proof enough of nothing.               *)
DaemonStartAlways(file, alive, d) == [file |-> d, alive |-> alive \cup {d}]

DaemonStart(file, alive, d) ==
    IF ProcessAlive(alive, file) THEN [file |-> file, alive |-> alive]
    ELSE [file |-> d, alive |-> alive \cup {d}]

(* stop: obeys are the processes that end on SIGTERM within the five seconds.  *)
DaemonStop(file, alive, obeys) ==
    CASE ~ProcessAlive(alive, file) -> [file |-> 0, alive |-> alive, ok |-> TRUE]
      [] ProcessAlive(alive, file) /\ file \in obeys ->
            [file |-> 0, alive |-> alive \ {file}, ok |-> TRUE]
      [] OTHER -> [file |-> file, alive |-> alive, ok |-> FALSE]

DaemonRestart(file, alive, obeys, d) ==
    LET s == DaemonStop(file, alive, obeys)
    IN  IF s.ok THEN DaemonStart(s.file, s.alive, d) ELSE [file |-> s.file, alive |-> s.alive]

(* nodeVersionOK over a version, a triple; "none" cannot be run.               *)
NodeVersionOK(v) ==
    /\ v # <<>>
    /\ \/ v[1] > OldestNode[1]
       \/ v[1] = OldestNode[1] /\ v[2] > OldestNode[2]
       \/ v[1] = OldestNode[1] /\ v[2] = OldestNode[2] /\ v[3] >= OldestNode[3]

(* Mutant of BuildDaemonPATH: the first that has pi.                           *)
FirstWithPi(given, versions) ==
    LET able == {i \in DOMAIN versions : versions[i].pi}
    IN  IF able = {} THEN 0 ELSE CHOOSE i \in able : \A o \in able : i <= o

(* buildDaemonPATH: the directory of node that goes into the path, of the nvm  *)
(* versions in their order, each [pi, version]; 0 is none, -1 is PINARD_NODE.  *)
BuildDaemonPATH(given, versions) ==
    LET able == {i \in DOMAIN versions : versions[i].pi}
        good == {i \in able : NodeVersionOK(versions[i].version)}
        first(s) == CHOOSE i \in s : \A o \in s : i <= o
    IN  CASE given = "file" -> -1
          [] given = "missing" -> 0
          [] given = "" /\ good # {} -> first(good)
          [] given = "" /\ good = {} /\ able # {} -> first(able)
          [] OTHER -> 0

(* daemonChildEnv: the secrets file over the environment, under what is set.   *)
DaemonChildEnv(env, secrets, set) ==
    [k \in DOMAIN env \cup DOMAIN secrets \cup DOMAIN set |->
        IF k \in DOMAIN set THEN set[k] ELSE IF k \in DOMAIN secrets THEN secrets[k] ELSE env[k]]
=============================================================================
