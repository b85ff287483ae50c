------------------------------ MODULE MRWatcher ------------------------------
(* internal/watcher/mrs.go: the daemon's merge request watcher.  Every 30      *)
(* seconds a pass of MRWatcher.Run walks the tracked entries and drives each   *)
(* merge request: review comments and failed pipelines go to the worker, green *)
(* heads to the maitre for review, gated ones are merged, and when the merge   *)
(* request is finished the worker is reaped.                                   *)
(*                                                                             *)
(* A pass reads the forge many times and writes the state store many times;    *)
(* each read or write is one step, so the forge, the worker and a crash of the *)
(* daemon come in between.  Updates of the store are atomic here, as           *)
(* StateStore shows them to be inside one process.  Several passes at once     *)
(* are what tick() in daemon.go starts when a pass outlives two minutes.       *)
EXTENDS Naturals, FiniteSets

CONSTANTS
    Session,           \* keys of Watched; each tracks a merge request of its own
    NoSession,
    Pass,              \* goroutines inside Run
    AutoMerge, AutoReview, MonitorPostMerge,   \* vignes.yaml
    GitLabRepo,        \* provider of the repository
    ProcessWorker,     \* the worker's KV record names a process
    Trivial,           \* sessions whose title matches mrMemorySkipPatterns
    Forwardable,       \* note IDs that shouldForwardNote lets through
    RepairLimit,       \* maxFailures, 5
    NotFoundLimit,     \* 3
    PostMergeLimit,    \* 10
    PageSize,          \* notes per page, 100
    MaxPush, MaxNote,                          \* bounds of the forge
    MaxFlips, MaxErrors, MaxCrashes, MaxTracks \* bounds of the environment

ASSUME SessionAssumption == NoSession \notin Session /\ Trivial \subseteq Session
ASSUME FlagAssumption ==
    {AutoMerge, AutoReview, MonitorPostMerge, GitLabRepo, ProcessWorker} \subseteq BOOLEAN
ASSUME LimitAssumption ==
    /\ RepairLimit \in Nat /\ NotFoundLimit \in Nat /\ PostMergeLimit \in Nat
    /\ PageSize \in Nat /\ MaxPush \in Nat \ {0} /\ MaxNote \in Nat
    /\ MaxFlips \in Nat /\ MaxErrors \in Nat /\ MaxCrashes \in Nat /\ MaxTracks \in Nat
    /\ Forwardable \subseteq 1..MaxNote

VARIABLES
    forge,        \* forge[s]: the merge request itself
    notes,        \* notes[s]: IDs 1..notes[s] have been posted
    watch,        \* watch[s]: the WatchedMR entry in mr-watcher.yaml
    worker,       \* worker[s]: the worker's pinard-agents record
    issueClosed,  \* issueClosed[s]: its issue is "closed" in issue-watcher.yaml
    pass,         \* pass[p]: local variables of one Run
    panicked,     \* the daemon died on a nil entry
    hist,         \* hist[s]: history of what was sent and seen
    budget        \* environment steps used

vars == <<forge, notes, watch, worker, issueClosed, pass, panicked, hist, budget>>

Push == 1..MaxPush
Note == 1..MaxNote
CI == {"none", "running", "success", "failed"}

Forge == [state : {"opened", "merged", "closed", "deleted"}, head : Push,
          ci : [Push -> CI], draft : BOOLEAN, approved : BOOLEAN,
          thread : BOOLEAN, main : CI]

Entry == [tracked : BOOLEAN, post : BOOLEAN, routed : BOOLEAN, sha : BOOLEAN,
          notFound : Nat, lastPipe : 0..MaxPush, fails : Nat, cursor : 0..MaxNote,
          labeled : BOOLEAN, asked : BOOLEAN, reviewed : 0..MaxPush,
          checks : Nat, mainDone : BOOLEAN]

Fresh(routed) ==
    [tracked |-> TRUE, post |-> FALSE, routed |-> routed, sha |-> FALSE,
     notFound |-> 0, lastPipe |-> 0, fails |-> 0, cursor |-> 0,
     labeled |-> FALSE, asked |-> FALSE, reviewed |-> 0,
     checks |-> 0, mainDone |-> FALSE]

Absent == [Fresh(FALSE) EXCEPT !.tracked = FALSE]

Label == {"idle", "next", "fetch", "terminal", "reap", "forget", "notes", "sendNotes",
          "pipeline", "breaker", "repair", "reviewCI", "reviewPR", "reviewMark",
          "mergeCI", "mergeApproval", "ask", "askMark", "mergePR", "mergeThreads",
          "merge", "merged", "stamp", "postMerge", "mainPoll", "mainMark"}

IdlePass == [pc |-> "idle", cur |-> NoSession, entry |-> Absent, todo |-> {},
             drop |-> {}, ids |-> {}, live |-> FALSE, back |-> "next", seen |-> "opened"]

PassRec == [pc : Label, cur : Session \cup {NoSession}, entry : Entry,
            todo : SUBSET Session, drop : SUBSET Session, ids : SUBSET (Push \cup Note),
            live : BOOLEAN, back : {"next", "stamp"}, seen : {"opened", "merged", "closed"}]

(* What happened to the entry since it was registered: pipeline_failed         *)
(* dispatches since the last green pipeline and per pipeline, forwards per     *)
(* note, review requests per commit, 404s in a row; whether the forge changed  *)
(* since the pass reached the entry, how the merge went, and whether the       *)
(* request was ever seen merged or closed.                                     *)
NewHist == [repairs |-> 0, sent |-> [c \in Push |-> 0], fwd |-> [n \in Note |-> 0],
            reviews |-> [c \in Push |-> 0], asks |-> 0, misses |-> 0,
            touched |-> FALSE, merge |-> "none", finished |-> FALSE]

HistRec == [repairs : Nat, sent : [Push -> Nat], fwd : [Note -> Nat],
            reviews : [Push -> Nat], asks : Nat, misses : Nat, touched : BOOLEAN,
            merge : {"none", "gated", "raced", "ungated"}, finished : BOOLEAN]

Budget == [flips : Nat, errors : Nat, crashes : Nat, tracks : Nat]

NewForge == [state |-> "opened", head |-> 1, ci |-> [c \in Push |-> IF c = 1 THEN "running" ELSE "none"],
             draft |-> FALSE, approved |-> FALSE, thread |-> FALSE, main |-> "none"]

Init ==
    /\ forge = [s \in Session |-> NewForge]
    /\ notes = [s \in Session |-> 0]
    /\ watch = [s \in Session |-> Absent]
    /\ worker = [s \in Session |-> "live"]
    /\ issueClosed = [s \in Session |-> FALSE]
    /\ pass = [p \in Pass |-> IdlePass]
    /\ panicked = FALSE
    /\ hist = [s \in Session |-> NewHist]
    /\ budget = [flips |-> 0, errors |-> 0, crashes |-> 0, tracks |-> 0]

At(p, l) == pass[p].pc = l
Goto(p, l) == pass' = [pass EXCEPT ![p].pc = l]

GotoIds(p, l, i) == pass' = [pass EXCEPT ![p].pc = l, ![p].ids = i]
GotoReap(p, b) == pass' = [pass EXCEPT ![p].pc = "reap", ![p].back = b]

(* The entry is done with: on to the next key of the range.                    *)
Continue(p) ==
    pass' = [pass EXCEPT ![p] = [IdlePass EXCEPT !.pc = "next", !.todo = pass[p].todo,
                                                 !.drop = pass[p].drop]]

(* w.State.Update(func(s) { s.Watched[session].Field = ... }): a nil entry is  *)
(* a nil pointer dereference in a goroutine that nothing recovers.             *)
Update(s, e) ==
    IF watch[s].tracked THEN watch' = [watch EXCEPT ![s] = e] /\ UNCHANGED panicked
                        ELSE panicked' = TRUE /\ UNCHANGED watch

Spend(field, max) == /\ budget[field] < max
                     /\ budget' = [budget EXCEPT ![field] = @ + 1]

-----------------------------------------------------------------------------
(* One pass: Run up to the fate of the merge request.                          *)

(* Read of Watched; scanAssignedMRs and reconcileDuplicateMRs come first and   *)
(* change nothing here, where every merge request has one key (TrackMR stands  *)
(* for the keys they and `aoc track-mr` add).                                  *)
StartPass(p) ==
    /\ At(p, "idle")
    /\ LET all == {s \in Session : watch[s].tracked}
       IN  pass' = [pass EXCEPT ![p] = [IdlePass EXCEPT
               !.todo = all, !.pc = IF all = {} THEN "idle" ELSE "next"]]
    /\ UNCHANGED <<forge, notes, watch, worker, issueClosed, panicked, hist, budget>>

(* The range reaches key s.  `entry` is the struct of that moment: later       *)
(* Updates work on the struct that reload() put in its place.                  *)
Visit(p, s) ==
    /\ At(p, "next") /\ s \in pass[p].todo
    /\ IF watch[s].tracked
       THEN /\ pass' = [pass EXCEPT ![p] = [IdlePass EXCEPT
                    !.pc = IF watch[s].post THEN "postMerge" ELSE "fetch",
                    !.cur = s, !.entry = watch[s], !.live = worker[s] = "live",
                    !.todo = pass[p].todo \ {s}, !.drop = pass[p].drop]]
            /\ hist' = [hist EXCEPT ![s].touched = FALSE]
       ELSE /\ pass' = [pass EXCEPT ![p].todo = @ \ {s}]
            /\ UNCHANGED hist
    /\ UNCHANGED <<forge, notes, watch, worker, issueClosed, panicked, budget>>

(* The end of the range: toRemove is deleted in one Update.                    *)
EndPass(p) ==
    /\ At(p, "next") /\ pass[p].todo = {}
    /\ watch' = [s \in Session |-> IF s \in pass[p].drop THEN Absent ELSE watch[s]]
    /\ pass' = [pass EXCEPT ![p] = IdlePass]
    /\ UNCHANGED <<forge, notes, worker, issueClosed, panicked, hist, budget>>

(* GetPR answers 404: the merge request is gone, or the token cannot see it.   *)
FetchNotFound(p) ==
    LET s == pass[p].cur IN
    /\ At(p, "fetch")
    /\ \/ forge[s].state = "deleted" /\ UNCHANGED budget
       \/ forge[s].state # "deleted" /\ Spend("errors", MaxErrors)
    /\ Update(s, [watch[s] EXCEPT !.notFound = @ + 1])
    /\ pass' = [pass EXCEPT ![p] = [IdlePass EXCEPT
           !.pc = "next", !.todo = pass[p].todo,
           !.drop = IF pass[p].entry.notFound + 1 >= NotFoundLimit
                    THEN pass[p].drop \cup {s} ELSE pass[p].drop]]
    /\ hist' = [hist EXCEPT ![s].misses = @ + 1]
    /\ UNCHANGED <<forge, notes, worker, issueClosed>>

(* Mutants of Fetch: a successful fetch keeps the 404 count; only unmonitored  *)
(* merges close their issue.                                                   *)
FetchKeepsCount(p) ==
    LET s == pass[p].cur IN
    /\ At(p, "fetch") /\ forge[s].state # "deleted"
    /\ issueClosed' = [issueClosed EXCEPT ![s] = @ \/ forge[s].state = "merged"]
    /\ pass' = [pass EXCEPT ![p].seen = forge[s].state,
           ![p].pc = IF forge[s].state \in {"merged", "closed"} THEN "terminal" ELSE "notes"]
    /\ hist' = [hist EXCEPT ![s].misses = 0]
    /\ UNCHANGED <<forge, notes, watch, worker, panicked, budget>>

FetchLeavesIssue(p) ==
    LET s == pass[p].cur IN
    /\ At(p, "fetch") /\ forge[s].state # "deleted"
    /\ issueClosed' = [issueClosed EXCEPT ![s] = @ \/ (forge[s].state = "merged" /\ ~MonitorPostMerge)]
    /\ pass' = [pass EXCEPT ![p].seen = forge[s].state,
           ![p].pc = IF forge[s].state \in {"merged", "closed"} THEN "terminal" ELSE "notes"]
    /\ hist' = [hist EXCEPT ![s].misses = 0]
    /\ UNCHANGED <<forge, notes, watch, worker, panicked, budget>>

(* GetPR succeeds.  The 404 count is reset and the auto-merge label set; a     *)
(* merged or closed request is announced, a merged one closes its issue.       *)
Fetch(p) ==
    LET s == pass[p].cur
        e == pass[p].entry
        labels == AutoMerge /\ ~e.labeled
        over == forge[s].state \in {"merged", "closed"} IN
    /\ At(p, "fetch") /\ forge[s].state # "deleted"
    /\ IF e.notFound > 0 \/ labels
       THEN Update(s, [watch[s] EXCEPT !.notFound = IF e.notFound > 0 THEN 0 ELSE @,
                                       !.labeled = @ \/ labels])
       ELSE UNCHANGED <<watch, panicked>>
    /\ issueClosed' = [issueClosed EXCEPT ![s] = @ \/ forge[s].state = "merged"]
    /\ pass' = [pass EXCEPT ![p].pc = IF over THEN "terminal" ELSE "notes",
                            ![p].seen = forge[s].state]
    /\ hist' = [hist EXCEPT ![s].misses = 0]
    /\ UNCHANGED <<forge, notes, worker, budget>>

(* Merged and monitored: the worker stays until the main pipeline is decided.  *)
(* Otherwise it is reaped now.  The forge may not know the merge commit yet.   *)
Terminal(p) ==
    LET s == pass[p].cur IN
    /\ At(p, "terminal")
    /\ IF pass[p].seen = "merged" /\ MonitorPostMerge
       THEN /\ \E known \in BOOLEAN :
                 Update(s, [watch[s] EXCEPT !.post = TRUE, !.checks = 0, !.sha = known])
            /\ Continue(p)
       ELSE GotoReap(p, "next") /\ UNCHANGED <<watch, panicked>>
    /\ UNCHANGED <<forge, notes, worker, issueClosed, hist, budget>>

(* reapWorker: stopSession kills the session and deletes the KV record ...     *)
Reap(p) ==
    /\ At(p, "reap")
    /\ worker' = [worker EXCEPT ![pass[p].cur] = "none"]
    /\ Goto(p, "forget")
    /\ UNCHANGED <<forge, notes, watch, issueClosed, panicked, hist, budget>>

(* ... and the entry is dropped.                                               *)
Forget(p) ==
    /\ At(p, "forget")
    /\ watch' = [watch EXCEPT ![pass[p].cur] = Absent]
    /\ IF pass[p].back = "next" THEN Continue(p) ELSE Goto(p, pass[p].back)
    /\ UNCHANGED <<forge, notes, worker, issueClosed, panicked, hist, budget>>

-----------------------------------------------------------------------------
(* Requests about a deleted merge request fail.                                *)
Answers(s) == forge[s].state # "deleted"

(* forwardNotes: the cursor moves first, then the notes are sent.              *)
Smaller(a, b) == IF a < b THEN a ELSE b

(* Mutant of NewNotes: the note at the cursor counts as new.                   *)
NewNotesFromCursor(s, cursor) ==
    {n \in 1..Smaller(notes[s], PageSize) : n >= cursor /\ n \in Forwardable}

NewNotes(s, cursor) ==
    {n \in 1..Smaller(notes[s], PageSize) : Answers(s) /\ n > cursor /\ n \in Forwardable}

(* Mutant of ForwardNotes: the cursor moves also for a worker that is gone,    *)
(* and nothing is sent to it.                                                  *)
ForwardNotesToLive(p) ==
    LET s == pass[p].cur
        new == NewNotes(s, pass[p].entry.cursor) IN
    /\ At(p, "notes")
    /\ IF GitLabRepo /\ new # {}
       THEN /\ \E last \in new : /\ \A n \in new : n <= last
                                 /\ Update(s, [watch[s] EXCEPT !.cursor = last])
            /\ IF pass[p].live THEN GotoIds(p, "sendNotes", new) ELSE Goto(p, "pipeline")
       ELSE Goto(p, "pipeline") /\ UNCHANGED <<watch, panicked>>
    /\ UNCHANGED <<forge, notes, worker, issueClosed, hist, budget>>

ForwardNotes(p) ==
    LET s == pass[p].cur
        new == NewNotes(s, pass[p].entry.cursor) IN
    /\ At(p, "notes")
    /\ IF GitLabRepo /\ new # {}
       THEN /\ \E last \in new : /\ \A n \in new : n <= last
                                 /\ Update(s, [watch[s] EXCEPT !.cursor = last])
            /\ GotoIds(p, "sendNotes", new)
       ELSE Goto(p, "pipeline") /\ UNCHANGED <<watch, panicked>>
    /\ UNCHANGED <<forge, notes, worker, issueClosed, hist, budget>>

SendNotes(p) ==
    LET s == pass[p].cur IN
    /\ At(p, "sendNotes")
    /\ hist' = [hist EXCEPT ![s].fwd =
           [n \in Note |-> IF n \in pass[p].ids THEN @[n] + 1 ELSE @[n]]]
    /\ GotoIds(p, "pipeline", {})
    /\ UNCHANGED <<forge, notes, watch, worker, issueClosed, panicked, budget>>

-----------------------------------------------------------------------------
(* checkPipeline: pipelines[0] is the newest one.  Every push starts one, and  *)
(* its ID is the number of the push.                                           *)
News(s, e) == GitLabRepo /\ Answers(s) /\ forge[s].head # e.lastPipe

Failed(s, e) == News(s, e) /\ forge[s].ci[forge[s].head] = "failed"

Passed(s, e) == News(s, e) /\ forge[s].ci[forge[s].head] = "success" /\ e.lastPipe > 0

(* A worker is told when it lives, or when a process will be respawned.        *)
AfterFailure(p, fails) ==
    IF fails > RepairLimit THEN "breaker"
    ELSE IF pass[p].live \/ (ProcessWorker /\ worker[pass[p].cur] # "none") THEN "repair"
    ELSE "reviewCI"

(* Mutant of PipelineFailed: the failure is not counted.                       *)
PipelineUncounted(p) ==
    LET s == pass[p].cur
        fails == pass[p].entry.fails + 1 IN
    /\ At(p, "pipeline") /\ Failed(s, pass[p].entry)
    /\ Update(s, [watch[s] EXCEPT !.lastPipe = forge[s].head])
    /\ GotoIds(p, AfterFailure(p, fails), {forge[s].head})
    /\ UNCHANGED <<forge, notes, worker, issueClosed, hist, budget>>

PipelineFailed(p) ==
    LET s == pass[p].cur
        fails == pass[p].entry.fails + 1 IN
    /\ At(p, "pipeline") /\ Failed(s, pass[p].entry)
    /\ Update(s, [watch[s] EXCEPT !.fails = fails, !.lastPipe = forge[s].head])
    /\ GotoIds(p, AfterFailure(p, fails), {forge[s].head})
    /\ UNCHANGED <<forge, notes, worker, issueClosed, hist, budget>>

PipelinePassed(p) ==
    LET s == pass[p].cur IN
    /\ At(p, "pipeline") /\ Passed(s, pass[p].entry)
    /\ Update(s, [watch[s] EXCEPT !.fails = 0, !.lastPipe = forge[s].head])
    /\ hist' = [hist EXCEPT ![s].repairs = 0]
    /\ Goto(p, "reviewCI")
    /\ UNCHANGED <<forge, notes, worker, issueClosed, budget>>

PipelineNoNews(p) ==
    /\ At(p, "pipeline")
    /\ ~Failed(pass[p].cur, pass[p].entry) /\ ~Passed(pass[p].cur, pass[p].entry)
    /\ Goto(p, "reviewCI")
    /\ UNCHANGED <<forge, notes, watch, worker, issueClosed, panicked, hist, budget>>

(* circuit_breaker and stopSession; the entry stays.                           *)
TripBreaker(p) ==
    /\ At(p, "breaker")
    /\ worker' = [worker EXCEPT ![pass[p].cur] = "none"]
    /\ Goto(p, "reviewCI")
    /\ UNCHANGED <<forge, notes, watch, issueClosed, panicked, hist, budget>>

(* pipeline_failed goes to the worker's inbox.                                 *)
SendRepair(p) ==
    LET s == pass[p].cur IN
    /\ At(p, "repair")
    /\ hist' = [hist EXCEPT ![s].repairs = @ + 1,
           ![s].sent = [c \in Push |-> IF c \in pass[p].ids THEN @[c] + 1 ELSE @[c]]]
    /\ Goto(p, "reviewCI")
    /\ UNCHANGED <<forge, notes, watch, worker, issueClosed, panicked, budget>>

-----------------------------------------------------------------------------
(* CIStatusFor: the GitLab adapter takes the last element of a list that the   *)
(* forge sends newest first, the GitHub adapter aggregates the head commit.    *)
CIStatus(s) ==
    IF ~Answers(s) THEN "none"
    ELSE IF GitLabRepo THEN forge[s].ci[1] ELSE forge[s].ci[forge[s].head]

(* tryAutoReview                                                               *)
ReviewCI(p) ==
    /\ At(p, "reviewCI")
    /\ Goto(p, IF AutoReview /\ CIStatus(pass[p].cur) = "success" THEN "reviewPR" ELSE "mergeCI")
    /\ UNCHANGED <<forge, notes, watch, worker, issueClosed, panicked, hist, budget>>

(* A parcelle for the subject: from the entry, else from the KV record.        *)
Routable(s) == watch[s].routed \/ worker[s] # "none"

Reviewable(s) == forge[s].state = "opened" /\ ~forge[s].draft

(* Mutant of Unreviewed: any earlier review counts, not the one of this commit. *)
NeverReviewed(p) == pass[p].entry.reviewed = 0

(* The SHA gate, against the entry as the pass found it.                       *)
Unreviewed(p) == pass[p].entry.reviewed # forge[pass[p].cur].head

(* GetPR: merged, closed or a draft, reviewed before, or nobody to send it to. *)
ReviewSkip(p) ==
    LET s == pass[p].cur IN
    /\ At(p, "reviewPR")
    /\ ~Reviewable(s) \/ (s \notin Trivial /\ ~(Unreviewed(p) /\ Routable(s)))
    /\ Goto(p, "mergeCI")
    /\ UNCHANGED <<forge, notes, watch, worker, issueClosed, panicked, hist, budget>>

(* A title of mrMemorySkipPatterns counts as reviewed.                         *)
ReviewTrivial(p) ==
    LET s == pass[p].cur IN
    /\ At(p, "reviewPR") /\ Reviewable(s) /\ s \in Trivial
    /\ Update(s, [watch[s] EXCEPT !.reviewed = forge[s].head])
    /\ Goto(p, "mergeCI")
    /\ UNCHANGED <<forge, notes, worker, issueClosed, hist, budget>>

(* needs_review for the maitre.                                                *)
ReviewSend(p) ==
    LET s == pass[p].cur IN
    /\ At(p, "reviewPR") /\ Reviewable(s) /\ s \notin Trivial /\ Unreviewed(p) /\ Routable(s)
    /\ hist' = [hist EXCEPT ![s].reviews[forge[s].head] = @ + 1]
    /\ GotoIds(p, "reviewMark", {forge[s].head})
    /\ UNCHANGED <<forge, notes, watch, worker, issueClosed, panicked, budget>>

(* needs_review was published; the commit is marked afterwards.                *)
ReviewMark(p) ==
    LET s == pass[p].cur IN
    /\ At(p, "reviewMark")
    /\ \E c \in pass[p].ids : Update(s, [watch[s] EXCEPT !.reviewed = c])
    /\ Goto(p, "mergeCI")
    /\ UNCHANGED <<forge, notes, worker, issueClosed, hist, budget>>

-----------------------------------------------------------------------------
(* tryAutoMerge: four gates, each on its own answer of the forge.              *)
(* Mutants of the gates: no CI gate, no look at the approval after the request *)
(* for one; and of AskMark: the request is not recorded.                       *)
MergeCIUngated(p) ==
    /\ At(p, "mergeCI")
    /\ Goto(p, IF AutoMerge THEN "mergeApproval" ELSE "stamp")
    /\ UNCHANGED <<forge, notes, watch, worker, issueClosed, panicked, hist, budget>>

MergeApprovalOnce(p) ==
    /\ At(p, "mergeApproval")
    /\ Goto(p, IF pass[p].entry.asked THEN "stamp"
               ELSE IF forge[pass[p].cur].approved THEN "mergePR" ELSE "ask")
    /\ UNCHANGED <<forge, notes, watch, worker, issueClosed, panicked, hist, budget>>

AskUnmarked(p) ==
    /\ At(p, "askMark")
    /\ Goto(p, "stamp")
    /\ UNCHANGED <<forge, notes, watch, worker, issueClosed, panicked, hist, budget>>

MergeCI(p) ==
    /\ At(p, "mergeCI")
    /\ Goto(p, IF AutoMerge /\ CIStatus(pass[p].cur) = "success" THEN "mergeApproval" ELSE "stamp")
    /\ UNCHANGED <<forge, notes, watch, worker, issueClosed, panicked, hist, budget>>

MergeApproval(p) ==
    LET s == pass[p].cur IN
    /\ At(p, "mergeApproval")
    /\ Goto(p, IF forge[s].approved /\ Answers(s) THEN "mergePR"
               ELSE IF pass[p].entry.asked \/ ~Answers(s) THEN "stamp" ELSE "ask")
    /\ UNCHANGED <<forge, notes, watch, worker, issueClosed, panicked, hist, budget>>

(* needs_approval, then the mark that it was sent.                             *)
AskApproval(p) ==
    /\ At(p, "ask")
    /\ hist' = [hist EXCEPT ![pass[p].cur].asks = @ + 1]
    /\ Goto(p, "askMark")
    /\ UNCHANGED <<forge, notes, watch, worker, issueClosed, panicked, budget>>

AskMark(p) ==
    LET s == pass[p].cur IN
    /\ At(p, "askMark")
    /\ Update(s, [watch[s] EXCEPT !.asked = TRUE])
    /\ Goto(p, "stamp")
    /\ UNCHANGED <<forge, notes, worker, issueClosed, hist, budget>>

MergePR(p) ==
    LET f == forge[pass[p].cur] IN
    /\ At(p, "mergePR")
    /\ Goto(p, IF ~Answers(pass[p].cur) \/ f.draft THEN "stamp" ELSE "mergeThreads")
    /\ UNCHANGED <<forge, notes, watch, worker, issueClosed, panicked, hist, budget>>

MergeThreads(p) ==
    /\ At(p, "mergeThreads")
    /\ Goto(p, IF GitLabRepo /\ forge[pass[p].cur].thread THEN "stamp" ELSE "merge")
    /\ UNCHANGED <<forge, notes, watch, worker, issueClosed, panicked, hist, budget>>

(* What the documentation asks of an auto-merged request.                      *)
Gated(f) == f.ci[f.head] = "success" /\ f.approved /\ ~f.draft /\ (GitLabRepo => ~f.thread)

(* Merge sends no commit SHA: the forge merges the head it has, and refuses    *)
(* only a draft or (GitHub branch protection) an unapproved one.               *)
Merge(p) ==
    LET s == pass[p].cur
        f == forge[s]
        accepts == f.state = "opened" /\ ~f.draft /\ (GitLabRepo \/ f.approved) IN
    /\ At(p, "merge")
    /\ IF accepts
       THEN /\ \E m \in {"none", "running"} :
                 forge' = [forge EXCEPT ![s].state = "merged", ![s].main = m]
            /\ hist' = [hist EXCEPT ![s].finished = TRUE,
                   ![s].merge = IF Gated(f) THEN "gated"
                                ELSE IF hist[s].touched THEN "raced" ELSE "ungated"]
            /\ Goto(p, "merged")
       ELSE Goto(p, "stamp") /\ UNCHANGED <<forge, hist>>
    /\ UNCHANGED <<notes, watch, worker, issueClosed, panicked, budget>>

(* auto_merged is published; GetPR for the merge commit may fail.              *)
Merged(p) ==
    LET s == pass[p].cur IN
    /\ At(p, "merged")
    /\ IF MonitorPostMerge
       THEN /\ \E known \in BOOLEAN :
                 Update(s, [watch[s] EXCEPT !.post = TRUE, !.checks = 0, !.sha = known])
            /\ Goto(p, "stamp")
       ELSE GotoReap(p, "stamp") /\ UNCHANGED <<watch, panicked>>
    /\ UNCHANGED <<forge, notes, worker, issueClosed, hist, budget>>

(* s.Watched[session].LastChecked = now                                        *)
Stamp(p) ==
    LET s == pass[p].cur IN
    /\ At(p, "stamp")
    /\ Update(s, watch[s])
    /\ Continue(p)
    /\ UNCHANGED <<forge, notes, worker, issueClosed, hist, budget>>

-----------------------------------------------------------------------------
(* Mutant of PostMerge: the looks are not counted.                             *)
PostMergeUncounted(p) ==
    /\ At(p, "postMerge")
    /\ Update(pass[p].cur, watch[pass[p].cur])
    /\ Goto(p, "mainPoll")
    /\ UNCHANGED <<forge, notes, worker, issueClosed, hist, budget>>

(* handlePostMerge: at most PostMergeLimit + 1 looks at the main pipeline.     *)
PostMerge(p) ==
    LET s == pass[p].cur
        e == pass[p].entry IN
    /\ At(p, "postMerge")
    /\ IF e.checks > PostMergeLimit
       THEN GotoReap(p, "next") /\ UNCHANGED <<watch, panicked>>
       ELSE /\ Update(s, [watch[s] EXCEPT !.checks = e.checks + 1])
            /\ Goto(p, "mainPoll")
    /\ UNCHANGED <<forge, notes, worker, issueClosed, hist, budget>>

MainStatus(p) ==
    LET e == pass[p].entry IN
    IF GitLabRepo /\ ~e.mainDone /\ e.sha THEN forge[pass[p].cur].main ELSE "none"

MainPassed(p) ==
    /\ At(p, "mainPoll") /\ MainStatus(p) = "success"
    /\ GotoReap(p, "next")
    /\ UNCHANGED <<forge, notes, watch, worker, issueClosed, panicked, hist, budget>>

(* main_pipeline_failed goes to the worker.                                    *)
MainFailed(p) ==
    /\ At(p, "mainPoll") /\ MainStatus(p) = "failed"
    /\ Goto(p, "mainMark")
    /\ UNCHANGED <<forge, notes, watch, worker, issueClosed, panicked, hist, budget>>

MainUndecided(p) ==
    /\ At(p, "mainPoll") /\ MainStatus(p) \in {"none", "running"}
    /\ Continue(p)
    /\ UNCHANGED <<forge, notes, watch, worker, issueClosed, panicked, hist, budget>>

(* main_pipeline_failed was published.                                         *)
MainMark(p) ==
    LET s == pass[p].cur IN
    /\ At(p, "mainMark")
    /\ Update(s, [watch[s] EXCEPT !.mainDone = TRUE])
    /\ Continue(p)
    /\ UNCHANGED <<forge, notes, worker, issueClosed, hist, budget>>

(* Where a pass goes on when a request to the forge, or a publish, fails: the  *)
(* error is logged, and the rest of the entry's steps still run.               *)
AfterError ==
    [fetch |-> "next", notes |-> "pipeline", sendNotes |-> "pipeline",
     pipeline |-> "reviewCI", repair |-> "reviewCI", reviewCI |-> "mergeCI",
     reviewPR |-> "mergeCI", mergeCI |-> "stamp",
     mergeApproval |-> IF GitLabRepo THEN "stamp" ELSE "mergePR",
     mergePR |-> "stamp", mergeThreads |-> "stamp", merge |-> "stamp",
     mainPoll |-> "next"]

ApiError(p) ==
    /\ pass[p].pc \in DOMAIN AfterError
    /\ Spend("errors", MaxErrors)
    /\ IF AfterError[pass[p].pc] = "next" THEN Continue(p)
                                          ELSE Goto(p, AfterError[pass[p].pc])
    /\ UNCHANGED <<forge, notes, watch, worker, issueClosed, panicked, hist>>

-----------------------------------------------------------------------------
(* The daemon's surroundings.                                                  *)

(* The daemon is killed, restarted, or replaces itself with a newer binary:    *)
(* the store survives, the passes do not.                                      *)
Crash ==
    /\ \E p \in Pass : ~At(p, "idle")
    /\ Spend("crashes", MaxCrashes)
    /\ pass' = [p \in Pass |-> IdlePass]
    /\ UNCHANGED <<forge, notes, watch, worker, issueClosed, panicked, hist>>

(* registerWatchedMR, from `aoc track-mr` or scanAssignedMRs: a new entry for  *)
(* an open request nobody tracks.  (An entry that exists keeps its progress.)  *)
TrackMR(s) ==
    /\ ~watch[s].tracked /\ forge[s].state = "opened"
    /\ \A p \in Pass : pass[p].cur # s /\ s \notin pass[p].drop
    /\ Spend("tracks", MaxTracks)
    /\ watch' = [watch EXCEPT ![s] = Fresh(worker[s] # "none")]
    /\ hist' = [hist EXCEPT ![s] = NewHist]
    /\ UNCHANGED <<forge, notes, worker, issueClosed, pass, panicked>>

(* session_end of the worker extension, a dead session, a respawn.             *)
WorkerChange(s) ==
    /\ Spend("flips", MaxFlips)
    /\ \E w \in {"live", "stopped", "none"} \ {worker[s]} :
           worker' = [worker EXCEPT ![s] = w]
    /\ UNCHANGED <<forge, notes, watch, issueClosed, pass, panicked, hist>>

ForgeStep(s, f) ==
    /\ forge' = [forge EXCEPT ![s] = f]
    /\ hist' = [hist EXCEPT ![s].touched = TRUE,
                            ![s].finished = @ \/ f.state \in {"merged", "closed"}]
    /\ UNCHANGED <<notes, watch, worker, issueClosed, pass, panicked>>

(* The worker, or a person, pushes: a new head with a pipeline of its own.     *)
PushCommit(s) ==
    /\ forge[s].state = "opened" /\ forge[s].head < MaxPush
    /\ ForgeStep(s, [forge[s] EXCEPT !.head = @ + 1, !.ci[forge[s].head + 1] = "running"])
    /\ UNCHANGED budget

FinishPipeline(s) ==
    /\ \E c \in Push, r \in {"success", "failed"} :
          /\ forge[s].ci[c] = "running"
          /\ ForgeStep(s, [forge[s] EXCEPT !.ci[c] = r])
    /\ UNCHANGED budget

FinishMain(s) ==
    /\ forge[s].main = "running"
    /\ \E r \in {"success", "failed"} : ForgeStep(s, [forge[s] EXCEPT !.main = r])
    /\ UNCHANGED budget

(* Reviewers and owners: approve, hold as draft, open a thread, merge, close,  *)
(* reopen, delete, retry a pipeline.                                           *)
HumanStep(s) ==
    LET f == forge[s] IN
    /\ Spend("flips", MaxFlips)
    /\ \/ f.state = "opened" /\ ForgeStep(s, [f EXCEPT !.approved = ~@])
       \/ f.state = "opened" /\ ForgeStep(s, [f EXCEPT !.draft = ~@])
       \/ f.state = "opened" /\ ForgeStep(s, [f EXCEPT !.thread = ~@])
       \/ f.state = "opened" /\ ~f.draft /\ \E m \in {"none", "running"} :
             ForgeStep(s, [f EXCEPT !.state = "merged", !.main = m])
       \/ f.state = "opened" /\ ForgeStep(s, [f EXCEPT !.state = "closed"])
       \/ f.state = "closed" /\ ForgeStep(s, [f EXCEPT !.state = "opened"])
       \/ f.state # "deleted" /\ ForgeStep(s, [f EXCEPT !.state = "deleted"])
       \/ f.ci[f.head] = "failed" /\ ForgeStep(s, [f EXCEPT !.ci[f.head] = "running"])

PostNote(s) ==
    /\ forge[s].state = "opened" /\ notes[s] < MaxNote
    /\ notes' = [notes EXCEPT ![s] = @ + 1]
    /\ UNCHANGED <<forge, watch, worker, issueClosed, pass, panicked, hist, budget>>

Environment(s) ==
    \/ TrackMR(s) \/ WorkerChange(s) \/ PushCommit(s) \/ FinishPipeline(s)
    \/ FinishMain(s) \/ HumanStep(s) \/ PostNote(s)

EntryStep(p) ==
    \/ FetchNotFound(p) \/ Fetch(p) \/ Terminal(p) \/ Reap(p) \/ Forget(p)
    \/ ForwardNotes(p) \/ SendNotes(p)
    \/ PipelineFailed(p) \/ PipelinePassed(p) \/ PipelineNoNews(p) \/ TripBreaker(p) \/ SendRepair(p)
    \/ ReviewCI(p) \/ ReviewSkip(p) \/ ReviewTrivial(p) \/ ReviewSend(p) \/ ReviewMark(p)
    \/ MergeCI(p) \/ MergeApproval(p) \/ AskApproval(p) \/ AskMark(p) \/ MergePR(p)
    \/ MergeThreads(p) \/ Merge(p) \/ Merged(p) \/ Stamp(p)
    \/ PostMerge(p) \/ MainPassed(p) \/ MainFailed(p) \/ MainUndecided(p) \/ MainMark(p)
    \/ ApiError(p)

RunStep(p) ==
    /\ ~panicked
    /\ \/ StartPass(p) \/ EndPass(p) \/ EntryStep(p)
       \/ \E s \in Session : Visit(p, s)

Next ==
    \/ \E p \in Pass : RunStep(p)
    \/ \E s \in Session : Environment(s)
    \/ ~panicked /\ Crash

Spec == Init /\ [][Next]_vars

(* The ticker calls Run again and again, and a pass gets on.                   *)
FairSpec == Spec /\ \A p \in Pass : WF_vars(RunStep(p))

-----------------------------------------------------------------------------
TypeOK ==
    /\ forge \in [Session -> Forge]
    /\ notes \in [Session -> 0..MaxNote]
    /\ watch \in [Session -> Entry]
    /\ worker \in [Session -> {"live", "stopped", "none"}]
    /\ issueClosed \in [Session -> BOOLEAN]
    /\ panicked \in BOOLEAN
    /\ pass \in [Pass -> PassRec]
    /\ hist \in [Session -> HistRec]
    /\ budget \in Budget

(* The repair loop is bounded: between two green pipelines at most RepairLimit *)
(* pipeline_failed messages reach the worker, and no pipeline is sent twice,   *)
(* also when the daemon restarts in the middle (checkPipeline writes the       *)
(* counter and the pipeline ID before it publishes).                           *)
BoundedRepair ==
    \A s \in Session : /\ hist[s].repairs <= RepairLimit
                       /\ \A c \in Push : hist[s].sent[c] <= 1

(* No review comment reaches the worker twice (the feedback loop that          *)
(* registerWatchedMR and scanAssignedMRs warn of).                             *)
NoteOnce == \A s \in Session : \A n \in Note : hist[s].fwd[n] <= 1

(* The maitre is asked once per commit and the conductor once per request for  *)
(* an approval, or once more for each restart between the message and its mark.*)
AskedOnce ==
    \A s \in Session :
        /\ \A c \in Push : hist[s].reviews[c] <= 1 + budget.crashes
        /\ hist[s].asks <= 1 + budget.crashes

(* Nothing is said twice: no comment to the worker, no review asked of the     *)
(* maitre, no approval of the conductor.                                       *)
SaidOnce == NoteOnce /\ AskedOnce

(* If nothing changed on the forge since the pass reached the entry, then what *)
(* it merges is green, approved, not a draft and free of open threads.         *)
QuietMergeGated == \A s \in Session : hist[s].merge # "ungated"

(* Entries leave the watch only when their request was merged or closed, or    *)
(* after NotFoundLimit 404s without a successful fetch between them.           *)
LeavesForReason ==
    [][\A s \in Session : watch[s].tracked /\ ~watch'[s].tracked =>
          hist[s].finished \/ hist[s].misses >= NotFoundLimit]_vars

(* When a request merged by a person leaves the watch through the reaper, its  *)
(* issue has been closed in issue-watcher.yaml.                                *)
IssueFollowsMerge ==
    [][\A p \in Pass : LET s == pass[p].cur IN
          /\ At(p, "forget") /\ ~At(p, "forget")' /\ ~watch'[s].tracked
          /\ forge[s].state = "merged" /\ hist[s].merge = "none" /\ pass[p].seen # "closed"
          => issueClosed[s]]_vars

(* Entries leave for a reason, and with their issue closed.                    *)
LeavesInOrder == LeavesForReason /\ IssueFollowsMerge

(* Every worker whose request was merged is reaped in the end, also when the   *)
(* pipeline of the merge commit is never found (handlePostMerge gives up).     *)
MergedIsReaped ==
    \A s \in Session : (watch[s].tracked /\ forge[s].state = "merged") ~> ~watch[s].tracked

(* With auto_merge, a request that stays open and meets the gates is merged:   *)
(* no mark in the entry keeps the watcher from looking again.                  *)
GatedIsMerged ==
    AutoMerge => \A s \in Session :
        ~<>[](watch[s].tracked /\ forge[s].state = "opened" /\ Gated(forge[s]))

(* With auto_review, a commit that stays the green head of an open request     *)
(* gets its review, whatever was reviewed before.                              *)
GreenIsReviewed ==
    AutoReview => \A s \in Session \ Trivial : \A c \in Push :
        ~<>[](/\ watch[s].tracked /\ watch[s].routed
              /\ forge[s].state = "opened" /\ ~forge[s].draft
              /\ forge[s].head = c /\ forge[s].ci[c] = "success"
              /\ hist[s].reviews[c] = 0)

(* A green commit goes on: to its review, and past the gates to its merge.     *)
GreenGoesOn == GatedIsMerged /\ GreenIsReviewed

(* Every reviewer's comment on an open request reaches the worker, unless the  *)
(* forge failed to answer or the daemon stopped on the way.                    *)
NotesArrive ==
    \A s \in Session : \A n \in Forwardable :
        (watch[s].tracked /\ notes[s] >= n)
            ~> (\/ hist[s].fwd[n] > 0 \/ ~watch[s].tracked \/ forge[s].state # "opened"
                \/ budget.errors > 0 \/ budget.crashes > 0)

(* What the watch is for: comments reach the worker, the merged are reaped.    *)
Served == NotesArrive /\ MergedIsReaped
=============================================================================
