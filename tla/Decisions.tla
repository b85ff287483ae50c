------------------------------- MODULE Decisions -------------------------------
(* The decisions the programs take without keeping a state of their own: each  *)
(* action puts one question to the rules of one area, with inputs of Cases, and*)
(* decision holds the question and the answer until the next one is put.       *)
(* Rules that only matter in sequence (two recalls of a session, the days of a *)
(* daemon's pid file) are asked a sequence.  What must hold of the answers is  *)
(* said below, area by area, without the rules that gave them.                 *)
EXTENDS Integers, Sequences, FiniteSets, SequencesExt, Lists

CONSTANTS
    Cases,                                              \* area to the set of inputs
    Tick, MinutesPerHour, HoursPerDay, DaysPerWeek,     \* of the calendar
    MaxBuf, MaxPerTick, MaxMsg, MarkLen,                \* of the output pump
    PageSize, User, FilePath,                               \* of the forges
    Key, Repo,                                          \* of the watched merge requests
    Near, Few, Apart, Attempts, Spread,                 \* of the memory
    Ports, OldestNode                                       \* of the daemon's helpers

ASSUME CalendarAssumption ==
    /\ Tick \in Nat /\ Tick > 1
    /\ {MinutesPerHour, HoursPerDay, DaysPerWeek} \subseteq Nat \ {0}
ASSUME PumpAssumption ==
    /\ {MaxBuf, MaxPerTick, MaxMsg, MarkLen} \subseteq Nat \ {0}
    /\ MarkLen <= MaxPerTick

ASSUME PageAssumption == PageSize \in Nat \ {0}
ASSUME MemoryAssumption == {Few, Attempts} \subseteq Nat \ {0} /\ {Near, Apart, Spread} \subseteq Nat
ASSUME HelpAssumption == Ports \in Nat \ {0} /\ OldestNode \in [1..3 -> 0..99]

VARIABLE decision

Cron == INSTANCE CronRules
Access == INSTANCE TermAccess
Index == INSTANCE TermIndex
Spawn == INSTANCE SpawnRules
Gc == INSTANCE ReapRules
Host == INSTANCE Forge
Track == INSTANCE MRRules
Memory == INSTANCE MemoryRules
Help == INSTANCE SupervisionRules

(* Types of the questions, area by area.  Instants are minutes and fractions of*)
(* one, counted; no key of a record is the mark of a local session in the list,*)
(* and the windows of a session have numbers of their own.                     *)
CalendarCases == \A q \in Cases["cron"] : q.last \in Int /\ q.now \in Int
TerminalCases ==
    /\ Cases["request"] \subseteq Access!Requests
    /\ Cases["posted"] \subseteq [auth : BOOLEAN, enabled : BOOLEAN, auto : BOOLEAN, post : BOOLEAN]
    /\ Cases["login"] \subseteq Access!Callbacks
    /\ \A q \in Cases["index"] : \A r \in q.kv : r.key # "tmux"
    /\ \A q \in Cases["windows"] : /\ \A w \in q : w.index \in Nat
                                  /\ \A v, w \in q : v.index = w.index => v = w
    /\ Cases["pump"] \subseteq Seq(Nat)

(* An issue's contract is asked for three times; of the tasks no more are done *)
(* than there are.                                                             *)
WorkerCases ==
    /\ Cases["spawn"] \subseteq
            [issue : BOOLEAN, explicit : BOOLEAN, noCapsule : BOOLEAN, fetched : BOOLEAN,
             says : [1..3 -> Spawn!Contracts], runtime : {"podman", "singularity"},
             provider : {"github", "gitlab"}, funded : BOOLEAN]
    /\ \A q \in Cases["review"] : q.done \in Nat /\ q.total \in Nat /\ q.done <= q.total

(* The order is that in which the keys of a map happen to be listed.           *)
TrackingCases ==
    /\ \A q \in Cases["reconcile"] :
        /\ q.watched \in [DOMAIN q.watched -> Track!Entries]
        /\ q.order \in Seq(DOMAIN q.watched) /\ ToSet(q.order) = DOMAIN q.watched
        /\ \A k \in DOMAIN q.agents : q.agents[k].state \in {"working", "stopped", "done", ""}
    /\ \A q \in Cases["register"] :
        /\ q.watched \in [DOMAIN q.watched -> Track!Entries] /\ IsFiniteSet(DOMAIN q.watched)
    /\ \A q \in Cases["find"] \cup Cases["scan"] :
        /\ q.agents \in [DOMAIN q.agents -> Track!Records] /\ IsFiniteSet(DOMAIN q.agents)
        /\ {Track!NoKey, ""} \cap DOMAIN q.agents = {}
        /\ q.order \in Seq(DOMAIN q.agents) /\ q.order # <<>>
    /\ \A q \in Cases["find"] : q.mr \in Nat
    /\ \A q \in Cases["scan"] : q.watched \in [DOMAIN q.watched -> Track!Entries] /\ q.m.iid \in Nat
    /\ \A q \in Cases["track"] : q.rest \in Seq(STRING) /\ q.vignes \subseteq Seq(STRING) /\ q.notes.err \in BOOLEAN
    /\ \A q \in Cases["publish"] : q.mr.notes \in Seq(Track!Notes)

HelperCases ==
    /\ \A q \in Cases["serve"] : {q.first, q.second} \subseteq Help!Holders /\ q.checksum \in Nat
    /\ \A q \in Cases["sync"] : \A f \in q.fails : f \in {"enroll", "sync"} \X {f[2]}
    /\ \A q \in Cases["mirror"] :
        /\ q.host \in [DOMAIN q.host -> {"nothing", "worker"}]
        /\ \A i \in {1, 2} : \A r \in q.records[i] : r.name \in DOMAIN q.host /\ r.state \in Help!States
    /\ \A q \in Cases["daemon"] : q.day \in Seq({"start", "stop", "restart", "die"})
    /\ \A q \in Cases["unschedule"] : q.file \in Seq(ToSet(q.file))
    /\ \A q \in Cases["node"] : \A i \in DOMAIN q.versions : i \in Nat /\ q.versions[i].version \in [1..3 -> 0..99]

(* A comment is on a line of a file, which has no line 0.                      *)
ForgeCases ==
    /\ \A q \in Cases["ci"] :
        /\ {q.checks, q.flows} \subseteq Seq(Host!CheckRun)
        /\ q.fates \in [graphql : Host!Fate, checks : Host!Fate, flows : Host!Fate, pr : Host!Fate]
    /\ \A q \in Cases["approval"] :
        q.reviews \in Seq([user : User, state : Host!ReviewState]) /\ q.required \in Nat
    /\ \A q \in Cases["comment"] :
        /\ q.at \in [path : FilePath, line : Nat \ {0}, side : Host!Side] /\ q.now \in Nat
        /\ {q.fates.pr, q.fates.post, q.fates.note} \subseteq Host!Fate
    /\ \A q \in Cases["lists"] : q.pages \in Seq(Seq([system : BOOLEAN, review : Nat])) /\ q.pages # <<>>
    /\ \A q \in Cases["get"] : q.refusal.now \in Int
    /\ \A q \in Cases["tasks"] :
        /\ q.body \in Seq([child : Nat, mark : {" ", "x", "X"}]) /\ q.child \in Nat
        /\ {q.fates.child, q.fates.post, q.fates.read, q.fates.update} \subseteq Host!Fate
    /\ \A q \in Cases["issues"] : \A i \in q.issues : i.state \in {"open", "closed"} /\ i.pull \in BOOLEAN
    /\ \A q \in Cases["closing"] : q.refs \in Seq([word : STRING, issue : Nat])
    /\ \A q \in Cases["merge"] :
        /\ q.changes \in Seq([new : STRING, old : STRING]) /\ q.found \in Seq([name : STRING, id : Nat])
        /\ q.draft \in BOOLEAN /\ q.merged \in BOOLEAN

(* The hits of a scope are its own; a table has one row of a key; a page has   *)
(* its place or is left out; the answers of the model reach to the last of the *)
(* names.                                                                      *)
MemoryCases ==
    /\ \A q \in Cases["recall"] \cup Cases["boot"] :
        /\ q.group \in STRING
        /\ \A s \in ToSet(Memory!EntitledScopes(q.group, "v1")) :
            q.dbs[s] \in Memory!Databases(IF s.tier = "global" THEN "global" ELSE s.of)
    /\ \A q \in Cases["recall"] : q.llm \in {"none", "ok", "error"}
    /\ \A q \in Cases["rollup"] :
        /\ q.pages \in Seq(Memory!Pages)
        /\ \A s \in DOMAIN q.dbs : q.dbs[s].served \in Seq(Memory!Pages)
        /\ {Memory!VigneScope("g"), Memory!VigneScope("h")} \subseteq DOMAIN q.dbs
    /\ \A q \in Cases["schema"] : {q.boot, q.ddl} \subseteq [1..Attempts -> {"ok", "conflict", "error"}]
    /\ \A q \in Cases["cursors"] :
        /\ IsFiniteSet(q.rows) /\ q.rows \subseteq [id : STRING, source : STRING, seq : Nat]
        /\ \A r, s \in q.rows : r.id = s.id /\ r.source = s.source => r = s
    /\ \A q \in Cases["chunks"] :
        q.stored \in Seq(Nat) /\ q.chunks \in Seq(Nat) /\ q.written \in 0..Len(q.chunks)
    /\ \A q \in Cases["status"] : \A i \in DOMAIN q : {q[i].max, q[i].cursor, q[i].failed} \subseteq Nat
    /\ \A q \in Cases["garden"] :
        /\ q.seen \in Seq([name : STRING, role : STRING, at : Int]) /\ q.min \in Nat
        /\ q.says \in Seq(STRING) /\ Cardinality({o.name : o \in ToSet(q.seen)}) <= Len(q.says)
    /\ \A q \in Cases["token"] : q.answers # <<>> /\ q.now \in Int
            /\ q.answers \in Seq([reached : BOOLEAN, status : Nat, key : STRING])
    /\ \A q \in Cases["ontology"] : "g" \in q.one.groups /\ \A file \in {q.core, q.one, q.two} :
            IsFiniteSet(DOMAIN file.entities)

CasesTypes ==
    /\ CalendarCases /\ TerminalCases /\ WorkerCases /\ ForgeCases
    /\ TrackingCases /\ MemoryCases /\ HelperCases
ASSUME CasesAssumption == CasesTypes

NoDecision == [rule |-> "none"]
Ask(rule, answer(_)) ==
    \E q \in Cases[rule] : decision' = [rule |-> rule, in |-> q, out |-> answer(q)]

(* The decision at hand is one of the named rule, and holds P.                 *)
Of(rule, P(_, _)) == decision.rule = rule => P(decision.in, decision.out)

Sum(s) == FoldLeft(LAMBDA a, b : a + b, 0, s)
Last2(s) == SubSeq(s, Len(s) - 1, Len(s))

-----------------------------------------------------------------------------
(* Schedules.                                                                  *)

OnCron(q) == [fires |-> Cron!ShouldFire(q.expr, q.last, q.now),
              names |-> <<Cron!PeriodSuffix(q.expr, q.last), Cron!PeriodSuffix(q.expr, q.now)>>]

(* A schedule fires exactly when a minute it is due in has come since its last *)
(* run and within the day, and two due minutes never share the name of their   *)
(* worker (cron.go's ShouldFire and PeriodSuffix): a fire too many wipes the   *)
(* worktree of the worker that is at work.                                     *)
DueIsFired ==
    Of("cron", LAMBDA q, a :
        /\ a.fires => Cron!ForADue(q.expr, q.last, q.now)
        /\ Cron!Overdue(q.expr, q.last, q.now) => a.fires
        /\ (/\ q.last # Cron!Never /\ Cron!Matches(q.expr, q.last) /\ Cron!Matches(q.expr, q.now)
            /\ Cron!Minute(q.last) # Cron!Minute(q.now)) => a.names[1] # a.names[2])

-----------------------------------------------------------------------------
(* The web terminal.                                                           *)

OnRequest(q) == [page |-> Access!HandlePage(q), ws |-> Access!HandleWS(q), all |-> Access!Answers(q)]

(* The reader of a posted link, who has no session.                            *)
OnPosted(q) ==
    LET link == Access!PrintedLink(q.auth, q.enabled, q.auto, q.post)
        reader(rw) == [auth |-> q.auth, cookie |-> "none", v |-> "ours", target |-> TRUE, rw |-> rw,
                       link |-> link, discovery |-> TRUE, allow |-> {}]
    IN  IF link = "nothing" THEN {} ELSE {Access!HandlePage(reader(rw)) : rw \in BOOLEAN}

OnLogin(q) == Access!HandleCallback(q)
OnGrant(q) == Access!GrantAccepted(q, "ours")

OnIndex(q) ==
    [listed |-> Index!Vendangeurs("ours", q.sessions, q.kv),
     said |-> {[key |-> r.key, verdict |-> Index!Verdict("ours", q.sessions, r)] : r \in q.kv},
     issues |-> Index!IssueURLs(q.kv, "a"), parcelles |-> Index!InterruptParcelles(q.kv, "a")]
OnWindows(q) == [regisseur |-> Index!Regisseur(q), maitres |-> Index!Maitres(q),
                 after |-> Spawn!EnsureWindow({w.index : w \in q}, 1)]

(* The pump over reads (of n bytes) and flushes.                               *)
OnPump(q) ==
    LET step(acc, op) ==
            IF op > 0 THEN [acc EXCEPT !.buf = Index!PumpRead(@, op), !.read = @ + op]
            ELSE [acc EXCEPT !.buf = Index!PumpFlush(@), !.sent = @ \o Index!PumpChunks(acc.buf)]
    IN  FoldLeft(step, [buf |-> Index!EmptyPump, read |-> 0, sent |-> <<>>], q)

MayType(q) == q.auth /\ q.cookie = "owner" /\ q.v = "ours" /\ q.discovery

(* Only the owner of a vignoble, and only through a session of their own, gets *)
(* a terminal that can be typed in; without a session nobody gets anything     *)
(* when there is a login; page and websocket decide alike; the indexes are the *)
(* owner's (authz.go, operator.go, gateway.go).                                *)
AccessSound ==
    /\ Of("request", LAMBDA q, a :
        /\ (\E r \in a.all : r.mode = "rw") => MayType(q)
        /\ (q.auth /\ q.cookie \notin Access!Users) => \A r \in a.all : r.shows = {} /\ r.code > 299
        /\ ~q.auth => \A r \in a.all : r.shows # {} => r.mode = "ro" /\ q.link = "valid"
        /\ q.target => ((a.page.code = 200) <=> (a.ws.code = 101)) /\ a.page.mode = a.ws.mode
        /\ (\E r \in a.all : r.mode = "list") => MayType(q))
    /\ Of("posted", LAMBDA q, a :
        \A r \in a : r.mode # "rw" /\ ((r.code = 200) <=> ~q.auth))
    /\ Of("login", LAMBDA q, a :
        /\ a.goes # "elsewhere"
        /\ a.username # "" => q.flow = "mine" /\ q.exchanged /\ q.token = "valid")
    /\ Of("grant", LAMBDA q, a : a => q.signed /\ ~q.expired /\ q.vignoble # "theirs")

(* The control room lists no local session a second time, the doctor says of a *)
(* record what the index does with it, and nothing of a terminal's output is   *)
(* lost without a mark (gateway.go buildIndex, cmd_webterm.go, responder.go).  *)
ScreenSound ==
    /\ Of("index", LAMBDA q, a :
        /\ \A e \in a.listed : e.from # "tmux" => e.name \notin q.sessions
        /\ {e.from : e \in a.listed} \ {"tmux"} = {s.key : s \in {x \in a.said : x.verdict = "INCLUDE"}}
        /\ \A s \in a.said : s.verdict = "LOCAL" =>
                \E r \in q.kv : r.key = s.key /\ r.name \in q.sessions
        /\ \A u \in (a.issues \cup a.parcelles) \ {""} : \E r \in q.kv : u \in {r.issue, r.parcelle})
    /\ Of("windows", LAMBDA q, a :
        /\ Cardinality(a.regisseur) <= 1 /\ a.maitres \cap a.regisseur = {}
        /\ a.regisseur = {} => \A w \in q : w.index # 0
        /\ 1 \in a.after)
    /\ Of("pump", LAMBDA q, a :
        /\ a.buf.pending <= MaxBuf /\ \A n \in ToSet(a.sent) : n <= MaxMsg
        /\ a.read + a.buf.marks * MarkLen = a.buf.pending + a.buf.lost + Sum(a.sent)
        /\ a.buf.lost > 0 => a.buf.dropped \/ a.buf.marks > 0)

(* What the terminals show, to whom, and who may type.                         *)
TerminalSound == AccessSound /\ ScreenSound

-----------------------------------------------------------------------------
(* Spawning, reaping, cleaning up.                                             *)

OnSpawn(c) ==
    LET payer == Spawn!Payer(c)
    IN  [payer |-> payer,
         env |-> Spawn!WorkerEnv(payer, c.runtime, c.provider, {"GITLAB_TOKEN", "GITHUB_TOKEN", "NATS"}),
         again |-> Spawn!RespawnPayer(Spawn!SpawnMeta("absent", payer), c.funded)]

OnBranch(q) ==
    LET target == Spawn!TargetBranch(q.flag, q.configured, q.repo.head)
        cuvee == target = "cuv"
        repo == IF cuvee THEN Spawn!EnsureRemoteBranch(q.repo, target, q.pushed) ELSE q.repo
        ready == Spawn!TargetReady(q.repo, target, cuvee, q.pushed)
    IN  [target |-> target, ready |-> ready, repo |-> repo,
         base |-> IF ready THEN Spawn!Base(repo, target) ELSE <<>>]

OnKeys(q) == [i \in {1, 2} |-> Spawn!AgentKey(q[i].process, q[i].run, q[i].issue, q[i].name)]
OnGuard(q) == [refused |-> Spawn!SpawnRefused(q.trees, q.process, "r1", q.force),
               live |-> Spawn!LiveRunIDs(q.trees)]

OnReap(e) == [sweep |-> Gc!SweepReaps(e), backstop |-> Gc!BackstopReaps(e),
              grace |-> Gc!GraceReaps(e), watch |-> Gc!WatchVerdict(e)]
OnCleanup(q) == [cleans |-> Spawn!CleanRemoves(q.tree), window |-> Spawn!KillsWindow(q.window),
                 socket |-> Spawn!RemovesSocket(q.socket),
                 policy |-> Spawn!PolicyFile(q.inPlace, q.exists, q.vigneHasOne)]
OnReview(q) == Spawn!ReviewChange(q.done, q.total)

FirstSure(says, w) ==
    \E n \in DOMAIN says : says[n] = w /\ \A m \in 1 .. (n - 1) : says[m] = "transient"

(* A worker is paid for by the contract of its issue exactly when that is known*)
(* to be funded, is not started when it is not known, and a respawn never falls*)
(* back on the operator; work starts from the target branch wherever there is  *)
(* one; the guard against a second worker and the recovery agree on what lives *)
(* (cmd_spawn.go, git.go, liveness.go, orphan_recovery.go).                    *)
SpawnSound ==
    /\ Of("spawn", LAMBDA c, a :
        LET asked == c.issue /\ c.fetched /\ ~c.noCapsule /\ ~c.explicit IN
        /\ asked => /\ (a.payer = "contract") <=> FirstSure(c.says, "funded")
                    /\ (a.payer = "operator") <=> FirstSure(c.says, "none")
        /\ c.explicit => a.payer = "contract"
        /\ ("PINARD_CAPSULE_CONTRACT" \in a.env) <=> a.payer = "contract"
        /\ "GITHUB_TOKEN" \in a.env => c.provider = "github"
        /\ a.payer = "contract" => a.again # "operator" /\ (a.again = "parked" <=> ~c.funded))
    /\ Of("branch", LAMBDA q, a :
        /\ a.ready => a.target \in a.repo.origin
        /\ a.base # <<>> /\ a.base[2] # a.target =>
                a.target \notin a.repo.remote /\ a.target \notin a.repo.local
        /\ q.flag # "" => a.target = q.flag)
    /\ Of("keys", LAMBDA q, a :
        a[1] = a[2] => \/ q[1].name = q[2].name
                       \/ q[1].process = q[2].process /\ (q[1].run = q[2].run \/ q[1].issue = q[2].issue)
                       \/ q[1].run = q[2].run)
    /\ Of("guard", LAMBDA q, a :
        q.process # "" /\ ~q.force => (a.refused <=> "r1" \in a.live))

(* No rule of the collector takes a worker of another vignoble, the conductor, *)
(* a worker in the middle of a turn or with a merge request that is open; the  *)
(* timer's check takes nothing its watch would not have put on the list; the   *)
(* directory of a live session stays (cmd_gc.go, gc_watch.go, cmd_cleanup.go). *)
ReapSafe ==
    /\ Of("reap", LAMBDA e, a :
        /\ (a.sweep \/ a.backstop \/ a.grace) =>
            /\ e.vignoble # "theirs" /\ e.tempo # "active"
            /\ e.mr \in {"untracked", "", "post_merge"}
        /\ a.sweep \/ a.backstop => e.kind = "worker"
        /\ a.sweep /\ e.standalone => e.age = "ttl"
        /\ (a.sweep \/ a.backstop) => e.age # "fresh"
        /\ a.grace /\ e.kind = "worker" => a.watch = "schedule")
    /\ Of("cleanup", LAMBDA q, a :
        /\ a.cleans => ~q.tree.live
        /\ a.window => q.window.status = "archived" /\ q.window.name # "regisseur"
        /\ a.socket => ~q.socket.sessions
        /\ q.vigneHasOne => a.policy # "default")
    /\ Of("review", LAMBDA q, a : (a = "archived") <=> (q.total > 0 /\ q.done = q.total))

(* What a worker is started with, and what is taken from it.                   *)
WorkersSound == SpawnSound /\ ReapSafe

-----------------------------------------------------------------------------
(* The forges.                                                                 *)

OnCI(q) == [rest |-> Host!RestCIStatus(q.checks, q.flows, q.fates),
            batched |-> Host!BatchedCIStatus(q.checks, q.flows, q.fates),
            list |-> Host!GhListPipelinesByCommit(q.checks), gitlab |-> Host!GlCIStatusFor(q.pipelines, q.fates.pr)]

(* With the comments, and as if nobody had commented.                          *)
OnApproval(q) ==
    LET spoken == Among(q.reviews, {r \in ToSet(q.reviews) : r.state # "COMMENTED"})
    IN  [all |-> Host!GhApprovalStatus(q.reviews, q.required, q.fates),
         quiet |-> Host!GhApprovalStatus(spoken, q.required, q.fates)]

OnComment(q) ==
    LET gl == Host!GlInlineComment(q.at, q.fates)
    IN  [gh |-> Host!GhInlineComment(q.at, q.fates), gl |-> gl,
         back |-> {Host!NoteToComment(n.at) : n \in ToSet(gl.left)},
         moved |-> Host!GhReadComment([line |-> q.now, original |-> q.at.line, side |-> q.at.side, path |-> q.at.path])]

OnLists(q) ==
    [all |-> Host!GhGetAll(q.pages, q.enterprise, q.fates),
     notes |-> Host!GhListPRNotes(q.pages[1], FlattenSeq(Tail(q.pages)), [plain |-> q.fates[1], inline |-> q.fates[2]]),
     threads |-> Host!GhDiscussions(FlattenSeq(q.pages)),
     people |-> Host!GlListIssueNotes(FlattenSeq(q.pages))]

(* The same path is asked for twice; the limit is what a refusal says.         *)
OnGet(q) ==
    LET one == Host!GhGet("", q.body[1], q.fates[1], q.tagged)
    IN  [one |-> one, two |-> Host!GhGet(one.cached, q.body[2], q.fates[2], q.tagged),
         limit |-> Host!ParseRateLimitError(q.refusal)]

(* A child is added, and added again.                                          *)
OnTasks(q) ==
    LET one == Host!AddSubIssue([subs |-> {}, body |-> q.body], q.child, q.fates)
    IN  [one |-> one, two |-> Host!AddSubIssue(one, q.child, q.fates)]

OnIssues(q) == [gh |-> Host!GhListIssues(q.issues, q.filter), gl |-> Host!GlListIssues(q.issues, q.filter)]
OnClosing(q) == [gh |-> Host!GhClosing(q.refs, q.readable), gl |-> Host!ParseClosesN(q.refs)]
OnMerge(q) == [files |-> Host!GlGetMRChanges(q.changes),
               draft |-> Host!MrToPR([state |-> "opened", wip |-> FALSE, draft |-> Host!GlOpenPR(q.draft).draft]),
               pr |-> Host!GhPRToPR([state |-> "closed", merged |-> q.merged, draft |-> q.draft]),
               user |-> Host!LookupUser(q.found, "bot")]
OnAdapter(q) == Host!NewPressoir(q, [github |-> [host |-> "known", token |-> "kept"]])

Entries(body, child) == Cardinality({i \in DOMAIN body : body[i] = [child |-> child, mark |-> " "]
                                                          \/ body[i] = [child |-> child, mark |-> "x"]})
Bad(r) == r.status = "completed" /\ r.conclusion = "bad"

(* What a forge said is neither made better nor said twice: a check that failed*)
(* or runs is never success, an approval stands until its author takes it back,*)
(* a comment that was accepted is there (twice only when a reply was lost), a  *)
(* list is whole or an error, a child is listed once (github.go, gitlab.go).   *)
ForgeSound ==
    /\ Of("ci", LAMBDA q, a :
        LET told == ToSet(SubSeq(q.checks, 1, IF Len(q.checks) < PageSize THEN Len(q.checks) ELSE PageSize))
            allTold == /\ q.fates = [f \in DOMAIN q.fates |-> "ok"]
                       /\ Len(q.checks) \in 1..PageSize /\ q.flows = <<>>
        IN  /\ a.rest = "success" => \A r \in told : r.status = "completed" /\ ~Bad(r)
            /\ a.batched = "success" => \A r \in told : r.status = "completed" /\ ~Bad(r)
            /\ (\E r \in told : Bad(r)) => {a.rest, a.batched} \subseteq {"failed", "none"}
            /\ allTold /\ (\A r \in told : r.conclusion # "odd") => a.rest = a.batched
            /\ allTold => (a.rest = "failed" <=> "failed" \in ToSet(a.list))
            /\ a.gitlab = "success" => q.pipelines # <<>> /\ Last(q.pipelines) = "success")
    /\ Of("approval", LAMBDA q, a :
        /\ a.all = a.quiet
        /\ a.all.approved => \A i \in DOMAIN q.reviews : q.reviews[i].state = "CHANGES_REQUESTED" =>
                \E j \in DOMAIN q.reviews : j > i /\ q.reviews[j].user = q.reviews[i].user
                                            /\ q.reviews[j].state \in {"APPROVED", "DISMISSED"}
        /\ a.all.approved /\ q.fates.protection = "ok" =>
                q.required <= Cardinality({r.user : r \in ToSet(q.reviews)}))
    /\ Of("comment", LAMBDA q, a :
        /\ \A r \in {a.gh, a.gl} :
                /\ ~r.err => Len(r.left) >= 1
                /\ Len(r.left) = 2 => "lost" \in {q.fates.post, q.fates.note}
        /\ q.at.side = "right" => a.back \subseteq {q.at}
        /\ a.moved.line # 0)
    /\ Of("lists", LAMBDA q, a :
        /\ a.all.err \/ a.all.items = FlattenSeq(q.pages)
        /\ a.notes.err \/ a.notes.notes = FlattenSeq(q.pages)
        /\ LET said == FlattenSeq(q.pages)
               of(n) == {k \in DOMAIN a.threads : \E c \in ToSet(a.threads[k]) : c.review = n}
           IN  /\ \A c \in ToSet(said) : Cardinality(of(c.review)) = 1
               /\ \A t \in ToSet(a.threads) : \E n \in {c.review : c \in ToSet(said)} :
                    /\ ToSet(t) = {c \in ToSet(said) : c.review = n}
                    /\ Len(t) = Cardinality({i \in DOMAIN said : said[i].review = n})
        /\ \A n \in ToSet(a.people) : ~n.system)
    /\ Of("get", LAMBDA q, a :
        /\ a.one.err \/ a.one.body = q.body[1]
        /\ a.two.err \/ a.two.body = q.body[2]
        /\ a.limit.limited => a.limit.until > q.refusal.now \/ a.limit.until = q.refusal.reset)
    /\ Of("tasks", LAMBDA q, a :
        LET before == Entries(q.body, q.child) IN
        /\ \A r \in {a.one, a.two} : Entries(r.body, q.child) <= (IF before > 1 THEN before ELSE 1)
        /\ q.fates.child = "ok" /\ q.fates.post = "ok" => q.child \in a.one.subs
        /\ q.fates.read = "ok" /\ q.fates.update = "ok" =>
                q.child \in a.one.subs \/ Entries(a.one.body, q.child) > 0)
    /\ Of("issues", LAMBDA q, a :
        /\ q.filter.state \in {"", "open"}
        /\ (q.filter.label = "") # (q.filter.assignee = "")
        => {i \in a.gh : ~i.pull} = a.gl)
    /\ Of("closing", LAMBDA q, a : {r.issue : r \in ToSet(a.gh)} \subseteq a.gl)
    /\ Of("merge", LAMBDA q, a :
        /\ IsInjective(a.files) /\ \A c \in ToSet(q.changes) : {c.old, c.new} \cap ToSet(a.files) # {}
        /\ a.draft.draft = q.draft /\ (a.pr.state = "merged") = q.merged
        /\ (\E u \in ToSet(q.found) : u.name = "bot") => \E u \in ToSet(q.found) : u.name = "bot" /\ u.id = a.user)
    /\ Of("adapter", LAMBDA q, a :
        /\ q.env # "" /\ ~a.err => a.token = q.env
        /\ a.err <=> q.provider # "github")

-----------------------------------------------------------------------------
(* Whose merge request it is.                                                  *)

OnReconcile(q) == Track!ReconcileDuplicateMRs(q.watched, q.agents, q.order)
OnRegister(q) == Track!RegisterWatchedMR(q.watched, q.key, q.repo, q.mr, q.parcelle, 9)

OnFind(q) ==
    [byNumber |-> Track!FindAgentForMRByIDAndRepo(q.agents, "ours", q.mr, q.repo),
     byProject |-> Track!FindAgentForMR(q.agents, q.order, "ours", q.project, q.mr),
     process |-> Track!GetWorkerProcess(q.agents, q.order, q.order[1]),
     parcelle |-> Track!ResolveWorkerParcelle(<<>>, q.agents, q.order, q.order[1])]

(* The scan is made twice.                                                     *)
OnScan(q) ==
    LET one == Track!ScanAssignedMR(q.watched, q.agents, q.order, q.m)
    IN  <<one, Track!ScanAssignedMR(one.watched, one.agents, q.order, q.m)>>

OnTrack(q) ==
    LET project == Track!DeriveProject(q.rest, q.vignes)
    IN  [project |-> project,
         done |-> Track!TrackMR(project, q.hasRecord, q.isNew, "repo", q.linksOn, q.notes)]
OnPublish(q) == Track!PublishMRMemoryEvent(q.mr, q.fates)

Same(watched, e) == {k \in DOMAIN watched : watched[k].repo = e.repo /\ watched[k].mr = e.mr}
Live(agents, k) == k \in DOMAIN agents /\ agents[k].state = "working"

(* A merge request is tracked by one entry, and nothing that was done for it is*)
(* done again when its entries are put together or refreshed: no cursor goes   *)
(* back, no mark is lost, the worker that lives keeps it (mrs.go's             *)
(* reconcileDuplicateMRs, cmd_track_mr.go's registerWatchedMR).                *)
OneEntryEach ==
    /\ Of("reconcile", LAMBDA q, a :
        \A k \in DOMAIN q.watched :
            LET group == Same(q.watched, q.watched[k])
                left == group \cap DOMAIN a
            IN  IF q.watched[k].mr = 0 \/ q.watched[k].repo = "" THEN a[k] = q.watched[k]
                ELSE /\ Cardinality(left) = 1
                     /\ \A l \in left :
                            /\ \A g \in group :
                                /\ a[l].note >= q.watched[g].note /\ a[l].fails >= q.watched[g].fails
                                /\ q.watched[g].asked => a[l].asked
                                /\ q.watched[g].state = "post_merge" => a[l].state = "post_merge"
                                /\ Live(q.agents, g) => Live(q.agents, l)
                            /\ \E g \in group : a[l].note = q.watched[g].note
                            /\ a[l].reviewed \in {q.watched[g].reviewed : g \in group})
    /\ Of("register", LAMBDA q, a :
        LET new == [repo |-> q.repo, mr |-> q.mr]
            before == Same(q.watched, new)
        IN  (q.key \in DOMAIN q.watched => q.watched[q.key].repo = q.repo) =>
            \A w \in a : /\ Same(w, new) # {}
                         /\ Cardinality(Same(w, new)) <= (IF before = {} THEN 1 ELSE Cardinality(before))
                         /\ \A k \in before : w[k].note = q.watched[k].note /\ w[k].asked = q.watched[k].asked
                         /\ DOMAIN q.watched \subseteq DOMAIN w)

(* Nobody is woken for the merge request of another: a worker is found by the  *)
(* number only when no other has it, a scan stamps only the worker the branch  *)
(* names and takes no entry of another merge request, made twice it does no    *)
(* more, and a session's project is the longest vigne that begins its name     *)
(* (mrs.go, cmd_track_mr.go).                                                  *)
RightWorker ==
    /\ Of("find", LAMBDA q, a :
        /\ a.byNumber \in DOMAIN q.agents =>
            LET r == q.agents[a.byNumber] IN
            /\ r.mr = q.mr /\ r.process # "" /\ r.vignoble # "theirs"
            /\ \A k \in DOMAIN q.agents \ {a.byNumber} :
                    q.agents[k].mr = q.mr /\ q.agents[k].process # "" /\ q.agents[k].vignoble # "theirs" =>
                        r.repo = q.repo /\ q.agents[k].repo # q.repo
        /\ a.byProject \in DOMAIN q.agents =>
            LET r == q.agents[a.byProject] IN
            r.process # "" /\ r.project = q.project /\ r.vignoble # "theirs" /\ r.mr \in {q.mr} \cup (IF q.mr = 0 THEN {r.mr} ELSE {})
        /\ a.parcelle # "")
    /\ Of("scan", LAMBDA q, a :
        /\ a[1].watched = a[2].watched \/ \A k \in DOMAIN a[1].watched : a[1].watched[k].mr # q.m.iid
        /\ \A k \in DOMAIN q.watched : q.watched[k].mr # 0 => a[2].watched[k] = q.watched[k]
        /\ \A k \in DOMAIN q.agents : a[2].agents[k].mr # q.agents[k].mr =>
                q.m.session \in {k, q.agents[k].name} /\ q.agents[k].process # "")
    /\ Of("track", LAMBDA q, a :
        /\ a.done.linked => q.hasRecord /\ a.done.stamped /\ (q.notes.err \/ "link" \notin q.notes.seen)
        /\ \A v \in q.vignes : IsPrefix(v, q.rest) => Len(a.project) >= Len(v) /\ IsPrefix(a.project, q.rest))

(* What machines wrote of a merge request does not reach the memory and what   *)
(* people wrote does, unless a label says no (mrs.go).                          *)
MemoryTold ==
    Of("publish", LAMBDA q, a :
        LET prose(n) == Among(n.lines, {"prose", "@memory"})
            people == Among(q.mr.notes, {n \in ToSet(q.mr.notes) : ~n.system})
            told == FlattenSeq([i \in DOMAIN people |-> prose(people[i])])
        IN  /\ "memory:skip" \in q.mr.labels => a.event = <<>> /\ a.lessons = 0
            /\ \A e \in ToSet(a.event) : q.fates.notes = "ok" => FlattenSeq(e.review) = told
            /\ a.event = <<>> => a.lessons = 0
            /\ a.lessons <= Cardinality({i \in DOMAIN people : "@memory" \in ToSet(people[i].lines)}))

(* Whose merge request it is, and what is told of it.                          *)
TrackingSound == OneEntryEach /\ RightWorker /\ MemoryTold

-----------------------------------------------------------------------------
(* The memory.                                                                 *)

(* Two turns of a session in a row.                                            *)
OnRecall(q) ==
    LET one == Memory!HandleRecall(q.group, "v1", "session", q.dbs, q.embedded, q.llm, {})
    IN  <<one, Memory!HandleRecall(q.group, "v1", "session", q.dbs, q.embedded, q.llm, one.said)>>
OnBoot(q) == Memory!BootContext(q.group, "v1", q.dbs, q.embedded, 2)

OnRollup(q) == [clusters |-> Memory!ClusterEntities(q.pages),
                made |-> Memory!RunRollup(q.dbs, [v1 |-> <<"g">>, v2 |-> <<"g", "h">>])]

OnSchema(q) == Memory!EnsureSchema(FALSE, q.boot, q.ddl)
OnCursors(q) ==
    LET rows == Memory!DeduplicateCursors(q.rows, q.fails)
    IN  [rows |-> rows, read |-> [s \in {"a", "b"} |-> Memory!GetIngestCursor(rows, s)]]
OnChunks(q) == Memory!Rechunk(q.stored, q.chunks, q.deleted, q.written)
OnStatement(q) == [said |-> Memory!Query(q.reached, q.statements),
                   stats |-> Memory!CountCycle([ingested |-> 2, failed |-> 1], q.reached, 1, 1)]
OnEdges(q) == Memory!FetchEntityEdges(q, "e", {"x", "y"})
OnStatus(q) == LET s == Memory!MemoryStatus(q)
               IN  [status |-> s, healthy |-> Memory!Healthy(TRUE, s)]

(* Names come in with the role they are given; then the gardener goes over them*)
OnGarden(q) ==
    LET step(rows, o) == Memory!UpsertEntityStaging(rows, o.name, o.role, o.at)
        rows == SetToSeq(FoldLeft(step, {}, q.seen))
    IN  [rows |-> rows, clusters |-> Memory!ClusterStagingRows(rows),
         done |-> Memory!RunGardener(rows, q.min, q.llm, q.says)]

(* Three tokens in a row.                                                      *)
OnToken(q) ==
    LET one == Memory!GetToken(0, q.answers)
        two == Memory!GetToken(one.idx, q.answers)
    IN  [urls |-> <<one.url, two.url, Memory!GetToken(two.idx, q.answers).url>>,
         provider |-> Memory!ResolveTokenProvider(q.auth, Len(q.answers) > 0, q.account),
         reply |-> Memory!Complete(Memory!FetchOneToken(q.answers[1]) # "", q.status),
         reused |-> Memory!ReuseToken([token |-> TRUE, expires |-> 3], q.now, 1)]

(* The group is asked for before and after a second file is loaded.            *)
OnOntology(q) ==
    LET reg == [core |-> q.core, domains |-> <<q.one>>, cache |-> {}]
        loaded == Memory!LoadFile(Memory!ComposeCached(reg, "g").reg, q.two)
        c == Memory!ComposeCached(loaded, "g").value
    IN  [composed |-> c, fields |-> Memory!DDLFields(c), tables |-> Memory!DDLTables(c),
         stored |-> [r \in {"base", "kind"} |-> Memory!IngestObservation(c, r)]]
OnGroups(q) == Memory!GroupByCanonical(q)

(* A turn is told what it may know, and nothing twice; a new session is shown  *)
(* its vigne's entities and no other's (memory-recall).  Clusters hold each    *)
(* page once, near to another of them (memory-rollup, the gardener).  Writing  *)
(* through failures loses no progress: the cursor of a source is never set     *)
(* back, the schema counts as there only when it is, stored chunks are all of  *)
(* the page's (internal/surreal).  What lags is never called healthy; a token  *)
(* is found when any URL gives one; what the core suppresses no domain brings  *)
(* back, also from the cache (ontology.go).                                    *)
MemorySound ==
    /\ Of("recall", LAMBDA q, a :
        LET names(r) == {h.name : h \in ToSet(r.hits)} IN
        /\ names(a[1]) \cap names(a[2]) = {} /\ Len(a[1].hits) = Cardinality(names(a[1]))
        /\ a[1].candidates # <<>> => a[1].hits # <<>>
        /\ a[1].context \subseteq names(a[1])
        /\ \A h \in ToSet(a[1].hits) : h.of \in {"global", "v1", q.group})
    /\ Of("boot", LAMBDA q, a :
        /\ Len(a) <= 8 /\ \A e \in ToSet(a) : e.wiki \/ e.of = q.group
        /\ \A e, f \in ToSet(a) : e.wiki /\ e.name = f.name => f.wiki)
    /\ Of("rollup", LAMBDA q, a :
        LET placed == Among(q.pages, {p \in ToSet(q.pages) : p.at >= 0}) IN
        /\ Len(FlattenSeq(a.clusters)) = Len(placed) /\ ToSet(FlattenSeq(a.clusters)) = ToSet(placed)
        /\ \A c \in ToSet(a.clusters) : \A i \in 2 .. Len(c) :
                \E j \in 1 .. (i - 1) : c[i].at - c[j].at \in -Apart .. Apart
        /\ \A c \in ToSet(a.made.local["v1"]) \cup ToSet(a.made.local["v2"]) : \A p \in ToSet(c) :
                \E s \in DOMAIN q.dbs : q.dbs[s].up /\ p.id \in {x.id : x \in ToSet(q.dbs[s].served)})
    /\ Of("schema", LAMBDA q, a :
        /\ a.applied <=> ~a.error /\ a.calls <= 2 * Attempts
        /\ a.applied => "ok" \in ToSet(q.boot) /\ "ok" \in ToSet(q.ddl))
    /\ Of("cursors", LAMBDA q, a :
        LET of(rows, s) == {r \in rows : r.source = s} IN
        /\ \A s \in {"a", "b"} : \A r \in of(q.rows, s) :
                /\ r.id = "own" => a.read[s] >= r.seq
                /\ \E n \in of(a.rows, s) : n.seq >= r.seq
        /\ q.fails = {} => \A s \in {"a", "b"} : Cardinality(of(a.rows, s)) <= 1)
    /\ Of("chunks", LAMBDA q, a :
        q.deleted /\ q.written = Len(q.chunks) => a = q.chunks)
    /\ Of("statement", LAMBDA q, a :
        a.said = "ok" => a.stats = [ingested |-> 3, failed |-> 2])
    /\ Of("edges", LAMBDA q, a : \A e \in a : q[e[1]].readable /\ e[2] \in q[e[1]].out["e"] \ {""})
    /\ Of("status", LAMBDA q, a :
        a.healthy => \A i \in DOMAIN q : q[i].up => q[i].cursor >= q[i].max /\ q[i].failed = 0)
    /\ Of("garden", LAMBDA q, a :
        /\ Len(FlattenSeq(a.clusters)) = Len(a.rows)
        /\ {r.name : r \in ToSet(a.rows)} = {o.name : o \in ToSet(q.seen)}
        /\ \A r \in ToSet(a.rows) : r.count = Cardinality({i \in DOMAIN q.seen : q.seen[i].name = r.name})
        /\ Cardinality({r.name : r \in ToSet(a.rows)}) = Len(a.rows)
        /\ \A g \in a.done.proposed : \A n \in g :
                Cardinality({i \in DOMAIN q.seen : q.seen[i].name = n}) >= q.min
        /\ a.done.proposed # {} => "Extend" \in ToSet(q.says) /\ q.llm)
    /\ Of("token", LAMBDA q, a :
        LET gives(u) == q.answers[u].reached /\ q.answers[u].status = 200 /\ q.answers[u].key # "" IN
        /\ \A i \in DOMAIN a.urls : (a.urls[i] = 0) <=> \A u \in DOMAIN q.answers : ~gives(u)
        /\ \A u \in DOMAIN q.answers : gives(u) /\ Len(q.answers) <= 3 => u \in ToSet(a.urls)
        /\ a.reused => q.now < 2
        /\ a.provider = "google-sa" => q.account)
    /\ Of("ontology", LAMBDA q, a :
        LET domain == IF "g" \in q.two.groups THEN q.two ELSE q.one IN
        /\ (DOMAIN a.composed.entities \cup DOMAIN a.composed.edges) \cap (q.core.suppressed \cup domain.suppressed) = {}
        /\ DOMAIN domain.entities \ (q.core.suppressed \cup domain.suppressed) \subseteq DOMAIN a.composed.entities
        /\ \A r \in DOMAIN a.composed.entities \cap DOMAIN domain.entities :
            \A p \in DOMAIN domain.entities[r].props :
                a.composed.entities[r].props[p] = domain.entities[r].props[p]
        /\ \A r \in DOMAIN a.composed.entities : DOMAIN a.composed.entities[r].props \subseteq DOMAIN a.fields
        /\ \A r \in {"base", "kind"} : a.stored[r] = "entity" => r \in DOMAIN a.composed.entities)
    /\ Of("groups", LAMBDA q, a : UNION {a[g] : g \in DOMAIN a} = q)

-----------------------------------------------------------------------------
(* What the daemon runs beside itself.                                         *)

(* A server is started, looked after for a round, and stopped.                 *)
OnServe(q) ==
    LET one == Help!Start(q.first, q.launched)
        two == Help!Supervise(one.server, q.gone, q.reused, q.second, q.launched)
    IN  [port |-> Help!PortForVignoble(q.checksum), server |-> two.server,
         killed |-> one.killed \cup two.killed, stopped |-> Help!Stop(two.server)]

OnSync(q) == [said |-> Help!Exec(q.exit, q.lines),
              run |-> Help!SyncSetup(q.configured, "base", q.store, q.fails)]

(* Two passes of the mirror.                                                   *)
OnMirror(q) ==
    LET none == [mirrored |-> {}, host |-> q.host]
        one == Help!RunMirror(none, q.records[1], "ours", TRUE, {})
    IN  <<one, Help!RunMirror(one, q.records[2], "ours", q.listed, q.failed)>>

(* The commands of a day, and the daemon's own death; a started daemon is a    *)
(* process that was not there.                                                 *)
OnDaemon(q) ==
    LET step(s, cmd) ==
            LET next(r) == [file |-> r.file, alive |-> r.alive, n |-> s.n + 1]
            IN  CASE cmd = "start" -> next(Help!DaemonStart(s.file, s.alive, s.n))
                  [] cmd = "stop" -> next(Help!DaemonStop(s.file, s.alive, q.obeys))
                  [] cmd = "restart" -> next(Help!DaemonRestart(s.file, s.alive, q.obeys, s.n))
                  [] cmd = "die" -> [s EXCEPT !.alive = {}]
    IN  FoldLeft(step, [file |-> 0, alive |-> {}, n |-> 1], q.day)

OnSchedule(q) == Spawn!Unschedule(Spawn!Schedule(q.file, q.name), q.name)
OnNode(q) == Help!BuildDaemonPATH(q.given, q.versions)
OnEnv(q) == Help!DaemonChildEnv(q.env, q.secrets, [vignoble |-> "ours"])

(* There is one daemon, and the pid file names it; a schedule that is taken off*)
(* is off, and no other; the store of another vignoble is not served and its   *)
(* process not kept; a project is drained even when another fails, and the     *)
(* record says ok only when all were; only remote workers have a mirror; the   *)
(* daemon runs on a node that will do when there is one (cmd_daemon_ctl.go,    *)
(* cmd_schedule.go, engram_serve.go, engram.go, remote_mirror.go).             *)
SupervisionSound ==
    /\ Of("serve", LAMBDA q, a :
        /\ a.server.proc # "foreign" /\ a.stopped \subseteq {"child", "ours", "silent"}
        /\ a.killed \subseteq {"foreign"} /\ a.port \in 0 .. (Ports - 1)
        /\ a.server.proc = "silent" => "silent" \in {q.first, q.second})
    /\ Of("sync", LAMBDA q, a :
        /\ a.said /\ q.exit # 0 => "other" \notin q.lines
        /\ q.configured => "base" \in a.run.tried
        /\ a.run.result = "ok" =>
            /\ q.store.exists /\ q.store.table => \A m \in q.store.mutations :
                    m.acked \/ m.project \in {""} \cup a.run.tried
            /\ {f[2] : f \in q.fails} \cap a.run.tried = {})
    /\ Of("mirror", LAMBDA q, a :
        \A i \in {1, 2} :
            /\ a[i].mirrored = {n \in DOMAIN q.host : a[i].host[n] = "mirror"}
            /\ \A n \in DOMAIN q.host : q.host[n] = "worker" <=> a[i].host[n] = "worker"
            /\ q.listed => \A n \in a[2].mirrored : \E r \in q.records[2] :
                    r.name = n /\ r.vignoble = "ours" /\ r.state = "working")
    /\ Of("daemon", LAMBDA q, a :
        Cardinality(a.alive) <= 1 /\ a.alive \subseteq {a.file})
    /\ Of("unschedule", LAMBDA q, a :
        /\ q.name \notin ToSet(a) /\ ToSet(q.file) \ {q.name} = ToSet(a))
    /\ Of("node", LAMBDA q, a :
        LET fits(v) == v[1] > OldestNode[1] \/ (v[1] = OldestNode[1] /\ v[2] * 100 + v[3] >= OldestNode[2] * 100 + OldestNode[3])
            able == {i \in DOMAIN q.versions : q.versions[i].pi}
        IN  a > 0 /\ (\E i \in able : fits(q.versions[i].version)) => fits(q.versions[a].version))
    /\ Of("env", LAMBDA q, a : a["vignoble"] = "ours" /\ \A k \in DOMAIN q.secrets \ {"vignoble"} : a[k] = q.secrets[k])

-----------------------------------------------------------------------------
Settle == decision # NoDecision /\ decision' = NoDecision

Schedule == Ask("cron", OnCron)
Terminal ==
    \/ Ask("request", OnRequest)
    \/ Ask("posted", OnPosted)
    \/ Ask("login", OnLogin)
    \/ Ask("grant", OnGrant)
    \/ Ask("index", OnIndex)
    \/ Ask("windows", OnWindows)
    \/ Ask("pump", OnPump)
Workers ==
    \/ Ask("spawn", OnSpawn)
    \/ Ask("branch", OnBranch)
    \/ Ask("keys", OnKeys)
    \/ Ask("guard", OnGuard)
    \/ Ask("reap", OnReap)
    \/ Ask("cleanup", OnCleanup)
    \/ Ask("review", OnReview)
Forges ==
    \/ Ask("ci", OnCI)
    \/ Ask("approval", OnApproval)
    \/ Ask("comment", OnComment)
    \/ Ask("lists", OnLists)
    \/ Ask("get", OnGet)
    \/ Ask("tasks", OnTasks)
    \/ Ask("issues", OnIssues)
    \/ Ask("closing", OnClosing)
    \/ Ask("merge", OnMerge)
    \/ Ask("adapter", OnAdapter)
Tracking ==
    \/ Ask("reconcile", OnReconcile)
    \/ Ask("register", OnRegister)
    \/ Ask("find", OnFind)
    \/ Ask("scan", OnScan)
    \/ Ask("track", OnTrack)
    \/ Ask("publish", OnPublish)
Memories ==
    \/ Ask("recall", OnRecall)
    \/ Ask("boot", OnBoot)
    \/ Ask("rollup", OnRollup)
    \/ Ask("schema", OnSchema)
    \/ Ask("cursors", OnCursors)
    \/ Ask("chunks", OnChunks)
    \/ Ask("statement", OnStatement)
    \/ Ask("edges", OnEdges)
    \/ Ask("status", OnStatus)
    \/ Ask("garden", OnGarden)
    \/ Ask("token", OnToken)
    \/ Ask("ontology", OnOntology)
    \/ Ask("groups", OnGroups)
Supervision ==
    \/ Ask("serve", OnServe)
    \/ Ask("sync", OnSync)
    \/ Ask("mirror", OnMirror)
    \/ Ask("daemon", OnDaemon)
    \/ Ask("unschedule", OnSchedule)
    \/ Ask("node", OnNode)
    \/ Ask("env", OnEnv)

DecisionInit == decision = NoDecision
DecisionNext ==
    \/ decision = NoDecision /\ (Schedule \/ Terminal \/ Workers \/ Forges \/ Tracking \/ Memories \/ Supervision)
    \/ Settle
DecisionSpec == DecisionInit /\ [][DecisionNext]_decision
=============================================================================
