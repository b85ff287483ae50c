----------------------------- MODULE SpawnRules ------------------------------
(* What aoc spawn decides before a worker runs (cmd/aoc/cmd_spawn.go with      *)
(* internal/git and internal/liveness): who pays, which branch, which session  *)
(* name, where the work is done and what the worker may know; and what aoc     *)
(* cleanup (cmd_cleanup.go) and aoc gc (cmd_gc.go) remove afterwards.          *)
EXTENDS Naturals, Sequences, FiniteSets, SequencesExt

(* What ResolveIssueContract can say of an issue: no contract, Mnemosyne out   *)
(* of reach, contract gone, not funded, funded for another key, funded.        *)
Contracts == {"none", "transient", "gone", "unfunded", "mismatch", "funded"}

(* issue: --issue is given; explicit: --contract-id; noCapsule: --no-capsule;  *)
(* fetched: the issue could be read; says: the answers, one for each attempt.  *)
CapsuleCases == [issue : BOOLEAN, explicit : BOOLEAN, noCapsule : BOOLEAN,
                 fetched : BOOLEAN, says : [1..3 -> Contracts]]

(* The loop keeps the first answer that is not transient, or the last.         *)
Settled(says) ==
    LET sure == {n \in 1..3 : says[n] # "transient"} IN
    IF sure = {} THEN "transient" ELSE says[CHOOSE n \in sure : \A m \in sure : n <= m]

(* Mutant of Payer: a contract that cannot be verified does not stop a spawn.  *)
PayerFailOpen(c) ==
    IF c.explicit THEN "contract"
    ELSE IF ~c.issue \/ c.noCapsule \/ ~c.fetched THEN "operator"
    ELSE CASE Settled(c.says) \in {"none", "transient"} -> "operator"
           [] Settled(c.says) = "funded" -> "contract"
           [] OTHER -> "refused"

(* Who pays for the worker, "contract" or "operator"; or "refused".            *)
Payer(c) ==
    IF c.explicit THEN "contract"
    ELSE IF ~c.issue \/ c.noCapsule \/ ~c.fetched THEN "operator"
    ELSE CASE Settled(c.says) = "none" -> "operator"
           [] Settled(c.says) = "funded" -> "contract"
           [] OTHER -> "refused"

(* The environment the worker is started with, by what each variable gives it; *)
(* the daemon's own variables are not passed on.                               *)
WorkerEnv(payer, runtime, provider, creds) ==
    {"HOME", "PATH", "GITLAB_HOST"}
        \cup (creds \cap {"GITLAB_TOKEN", "GIT_SSH_COMMAND", "NATS", "author", "committer"})
        \cup (IF provider = "github" THEN creds \cap {"GITHUB_TOKEN"} ELSE {})
        \cup (IF payer = "contract" THEN {"PINARD_CAPSULE_CONTRACT"} ELSE {})
        \cup (IF payer = "contract" /\ runtime # "singularity"
              THEN {"PI_CODING_AGENT_DIR"} ELSE {})

(* spawn.json: prompt, branch and contract of the first spawn of a run; a      *)
(* later one finds the file and leaves it.                                     *)
SpawnMeta(old, payer) == IF old # "absent" THEN old ELSE payer

(* OrphanRecovery.respawn: the contract of spawn.json, probed first, is passed *)
(* on; no --issue is, so that nothing is detected anew.                        *)
RespawnPayer(meta, funded) ==
    IF meta = "contract" THEN IF funded THEN "contract" ELSE "parked"
    ELSE Payer([issue |-> FALSE, explicit |-> FALSE, noCapsule |-> FALSE,
                fetched |-> FALSE, says |-> [n \in 1..3 |-> "none"]])

-----------------------------------------------------------------------------
(* git.DefaultBranch: origin/HEAD, or "main" when that is not set.             *)
DefaultBranch(originHead) == IF originHead = "" THEN "main" ELSE originHead

(* The flag, vignes.yaml, the repository.                                      *)
TargetBranch(flag, configured, originHead) ==
    IF flag # "" THEN flag ELSE IF configured # "" THEN configured ELSE DefaultBranch(originHead)

(* A repository on this host: [head, origin, remote, local, leftover]: the     *)
(* branch origin/HEAD names, the branches of origin, their remote-tracking     *)
(* refs and the local branches here; leftover: worktree or branch of that      *)
(* name are still there.  cuvee: the target's name begins with cuvee/.         *)
EnsureRemoteBranch(repo, target, pushed) ==
    IF target \in repo.origin THEN repo
    ELSE IF DefaultBranch(repo.head) \in repo.remote /\ pushed
    THEN [repo EXCEPT !.origin = @ \cup {target}, !.remote = @ \cup {target}] ELSE repo

TargetReady(repo, target, cuvee, pushed) ==
    target \in repo.origin
        \/ (cuvee /\ target \in EnsureRemoteBranch(repo, target, pushed).origin)

(* Mutant of Base: the last resort is tried before the local branch.           *)
BaseDefaultFirst(repo, target) ==
    IF target \in repo.remote THEN <<"origin", target>>
    ELSE IF ~repo.leftover /\ DefaultBranch(repo.head) \in repo.remote
    THEN <<"origin", DefaultBranch(repo.head)>>
    ELSE IF ~repo.leftover /\ target \in repo.local THEN <<"local", target>>
    ELSE <<>>

(* The four tries of git.WorktreeAdd: the commit the worker's branch starts    *)
(* from, or <<>>.  A leftover makes the first three fail; it is removed and    *)
(* only the first is tried again.                                              *)
Base(repo, target) ==
    IF target \in repo.remote THEN <<"origin", target>>
    ELSE IF ~repo.leftover /\ target \in repo.local THEN <<"local", target>>
    ELSE IF ~repo.leftover /\ DefaultBranch(repo.head) \in repo.remote
    THEN <<"origin", DefaultBranch(repo.head)>>
    ELSE <<>>

(* The policy file of the directory the worker runs in.                        *)
PolicyFile(inPlace, exists, vigneHasOne) ==
    IF inPlace /\ exists THEN "kept" ELSE IF vigneHasOne THEN "vigne" ELSE "default"

(* Session name, agent key and run ID.                                         *)
AgentKey(process, runID, issue, name) ==
    IF process = "" THEN <<"session", name>>
    ELSE IF runID # "" THEN <<"run", runID>>
    ELSE IF issue # "" THEN <<"run", process, issue>> ELSE <<"run", process, name>>

(* liveness: the sessions in whose process trees a process has that            *)
(* BABYSITTER_RUN_ID; trees[s] are the run IDs found below session s.          *)
WorkersForRun(trees, run) == {s \in DOMAIN trees \ {"conductor"} : run \in trees[s]}
LiveRunIDs(trees) == UNION {trees[s] : s \in DOMAIN trees \ {"conductor"}}

SpawnRefused(trees, process, run, force) ==
    process # "" /\ ~force /\ WorkersForRun(trees, run) # {}

-----------------------------------------------------------------------------
(* aoc cleanup.  A worktree is [live, branch, listed, mains, age]: its session *)
(* exists; its branch can be read; `git branch --merged main` lists the branch *)
(* "plain", "current" (marked with a star), "elsewhere" (marked with a plus,   *)
(* checked out in another worktree) or not at all; old: over abandonedAfter.   *)
Worktrees == [live : BOOLEAN, branch : BOOLEAN, old : BOOLEAN,
              listed : {"plain", "current", "elsewhere", "no"}]

IsBranchMerged(w) == w.listed \in {"plain", "current"}

(* Mutant of CleanRemoves: a running worker's worktree can be too old.         *)
CleanRemovesOld(w) == w.branch /\ ((~w.live /\ IsBranchMerged(w)) \/ w.old)

CleanRemoves(w) == w.branch /\ ~w.live /\ (IsBranchMerged(w) \/ w.old)

(* reviewOpenspec: what becomes of a change with so many tasks, so many done.  *)
ReviewChange(done, total) ==
    IF total = 0 THEN "ignored"
    ELSE IF (done * 100) \div total = 100 THEN "archived" ELSE "notified"

(* gcArchivedMaitreZombies and gcSockets.                                      *)
KillsWindow(w) == w.name # "regisseur" /\ w.config /\ w.status = "archived"
RemovesSocket(s) == s.kind \in {"webterm-test", "pinard"} /\ ~s.sessions

(* EnsureWindow: the windows of a session once a maitre was asked for.         *)
EnsureWindow(windows, name) == IF name \in windows THEN windows ELSE windows \cup {name}

(* aoc schedule appends, aoc unschedule removes every one of that name.        *)
Schedule(file, name) == Append(file, name)
Unschedule(file, name) == FoldLeft(LAMBDA left, n : IF n = name THEN left ELSE Append(left, n), <<>>, file)
=============================================================================
