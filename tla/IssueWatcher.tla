---------------------------- MODULE IssueWatcher ----------------------------
(* internal/watcher/issues.go: the daemon's issue watcher.  Every minute a     *)
(* pass of Run lists the open issues assigned to the bot, holds those the      *)
(* owner has not approved, spawns a worker for the others, announces each one  *)
(* to the conductor, forwards new comments and notices closed issues.          *)
(*                                                                             *)
(* Vignes do not share entries, so one is enough.  Each call to the forge and  *)
(* each write of the store is a step of its own: people, the workers, the      *)
(* merge request watcher (which shares the store) and a restart come between.  *)
(* A comment is its position in the page ListIssueNotes asks for; one that is  *)
(* posted when the page is full is never read, so it is not kept.              *)
EXTENDS Naturals, Sequences, FiniteSets

CONSTANTS
    Issue,          \* issues of the vigne
    NoIssue,
    OwnerAuthored,  \* those the owner wrote
    PageSize,       \* notes ListIssueNotes returns, 50
    MaxEdits, MaxComments, MaxRuns, MaxErrors, MaxCrashes  \* environment bounds

ASSUME IssueAssumption == NoIssue \notin Issue /\ OwnerAuthored \subseteq Issue
ASSUME BoundAssumption ==
    /\ PageSize \in Nat /\ MaxEdits \in Nat /\ MaxComments \in Nat
    /\ MaxRuns \in Nat /\ MaxErrors \in Nat /\ MaxCrashes \in Nat

VARIABLES
    ownerSet,   \* credentials.yaml names an owner
    forge,      \* forge[i]: the issue, as its host has it
    notes,      \* notes[i]: the first page of its notes
    seen,       \* seen[i]: the SeenIssue entry in issue-watcher.yaml
    worker,     \* worker[i]: a worker of the issue's run is alive
    pass,       \* local variables of Run
    hist,       \* hist[i]: history of what was sent
    budget      \* environment steps used

vars == <<ownerSet, forge, notes, seen, worker, pass, hist, budget>>

Forge == [open : BOOLEAN, assigned : BOOLEAN, blocked : BOOLEAN,
          discarded : BOOLEAN, awaiting : BOOLEAN]

(* approval: the owner's "@bot approve"; assignment: the system note that he   *)
(* assigned the bot; comment: anything else people say; bot: the daemon's own. *)
Kind == {"comment", "approval", "assignment", "bot"}
Spoken == {"comment", "approval"}

Entry == [status : {"none", "seen", "awaiting-approval", "spawned", "closed"},
          noted : BOOLEAN, cursor : 0..PageSize]
Unknown == [status |-> "none", noted |-> FALSE, cursor |-> 0]

IdlePass == [pc |-> "idle", cur |-> NoIssue, todo |-> {}, held |-> {}, gone |-> {},
             entry |-> Unknown, batch |-> {}]

Quiet == [news |-> 0, spawns |-> 0, failNotes |-> 0,
          sent |-> [n \in 1..PageSize |-> 0], ran |-> FALSE]

Init ==
    /\ ownerSet \in BOOLEAN
    /\ forge = [i \in Issue |-> [open |-> TRUE, assigned |-> TRUE, blocked |-> FALSE,
                                 discarded |-> FALSE, awaiting |-> FALSE]]
    /\ notes = [i \in Issue |-> <<>>]
    /\ seen = [i \in Issue |-> Unknown]
    /\ worker = [i \in Issue |-> FALSE]
    /\ pass = IdlePass
    /\ hist = [i \in Issue |-> Quiet]
    /\ budget = [edits |-> 0, comments |-> 0, runs |-> 0, errors |-> 0, crashes |-> 0]

-----------------------------------------------------------------------------
(* Helpers.                                                                    *)

Use(what, limit) == budget[what] < limit /\ budget' = [budget EXCEPT ![what] = @ + 1]
CallFails == Use("errors", MaxErrors)

At(pc) == pass.pc = pc
Goto(pc) == pass' = [pass EXCEPT !.pc = pc]
NextIssue == pass' = [pass EXCEPT !.pc = "next", !.cur = NoIssue, !.entry = Unknown]

Posted(i, kind) == IF Len(notes[i]) < PageSize THEN Append(notes[i], kind) ELSE notes[i]
Post(i, kind) == notes' = [notes EXCEPT ![i] = Posted(i, kind)]

(* Mutant of NotesApprove: the author of a note does not matter.               *)
AnyNoteApproves(i) == \E n \in DOMAIN notes[i] : notes[i][n] # "bot"

(* notesApprove: only what the owner wrote or did counts.                      *)
NotesApprove(i) == \E n \in DOMAIN notes[i] : notes[i][n] \in {"approval", "assignment"}

(* recordIssue builds a new entry: the failure mark survives until a spawn     *)
(* succeeds, the comment cursor does not survive at all.                       *)
Recorded(i, status) ==
    [status |-> status, noted |-> seen[i].noted /\ status # "spawned", cursor |-> 0]
Record(i, status) == seen' = [seen EXCEPT ![i] = Recorded(i, status)]

-----------------------------------------------------------------------------
(* Run: the listing and the gate.                                              *)

Listed == {i \in Issue : forge[i].open /\ forge[i].assigned}

ListIssues ==
    /\ At("idle")
    /\ pass' = [IdlePass EXCEPT !.pc = "next", !.todo = Listed,
                    !.held = {i \in Listed : forge[i].blocked \/ forge[i].discarded},
                    !.gone = {i \in Listed : forge[i].discarded}]
    /\ UNCHANGED <<ownerSet, forge, notes, seen, worker, hist, budget>>

(* A failed listing skips the comments and the closed check as well.           *)
ListFails ==
    /\ At("idle") /\ CallFails
    /\ UNCHANGED <<ownerSet, forge, notes, seen, worker, pass, hist>>

(* Mutant of Route: issues.new for every held issue at every pass.             *)
RouteAnnounces(i, e) ==
    IF e.status = "spawned" /\ i \in pass.gone THEN "reset"
    ELSE IF e.status \in {"spawned", "closed"} THEN "next"
    ELSE IF i \notin pass.held /\ ownerSet THEN "gate"
    ELSE IF e.status = "none" THEN "recordSeen" ELSE "publish"

(* Where Run goes with an issue whose entry is e: labels are those of the      *)
(* listing, the entry is a copy.                                               *)
Route(i, e) ==
    IF e.status = "spawned" /\ i \in pass.gone THEN "reset"
    ELSE IF e.status \in {"spawned", "closed"} THEN "next"
    ELSE IF i \notin pass.held /\ ownerSet THEN "gate"
    ELSE IF e.status = "none" THEN "recordSeen" ELSE "next"

TakeIssue ==
    /\ At("next")
    /\ \E i \in pass.todo :
        LET to == Route(i, seen[i]) IN
        pass' = [pass EXCEPT !.todo = @ \ {i}, !.pc = to,
                     !.cur = IF to = "next" THEN NoIssue ELSE i,
                     !.entry = IF to = "next" THEN Unknown ELSE seen[i]]
    /\ UNCHANGED <<ownerSet, forge, notes, seen, worker, hist, budget>>

(* A spawned issue that is listed as discarded: whatever the entry is by now,  *)
(* its status becomes "seen".  The labels of the listing end its turn.         *)
ResetDiscarded ==
    /\ At("reset")
    /\ seen' = [seen EXCEPT ![pass.cur].status = "seen"]
    /\ Goto("resetNote")
    /\ UNCHANGED <<ownerSet, forge, notes, worker, hist, budget>>

ResetNote ==
    /\ At("resetNote")
    /\ Post(pass.cur, "bot")
    /\ NextIssue
    /\ UNCHANGED <<ownerSet, forge, seen, worker, hist, budget>>

(* Mutant of AfterGate: a held issue is not asked about again.                 *)
AfterGateHoldsOn(approved) ==
    IF pass.entry.status = "awaiting-approval" THEN NextIssue
    ELSE Goto(IF approved THEN "spawn" ELSE "hold")

(* isOwnerApproved, then the branch of spawnIfApproved it leads to.            *)
AfterGate(approved) ==
    IF pass.entry.status = "awaiting-approval"
    THEN IF approved THEN Goto("unlabel") ELSE NextIssue
    ELSE Goto(IF approved THEN "spawn" ELSE "hold")

CheckApproval ==
    /\ At("gate")
    /\ AfterGate(pass.cur \in OwnerAuthored \/ NotesApprove(pass.cur))
    /\ UNCHANGED <<ownerSet, forge, notes, seen, worker, hist, budget>>

(* Without the notes there is no approval, whatever the owner wrote.           *)
CheckApprovalFails ==
    /\ At("gate") /\ pass.cur \notin OwnerAuthored
    /\ CallFails
    /\ AfterGate(FALSE)
    /\ UNCHANGED <<ownerSet, forge, notes, seen, worker, hist>>

(* updateIssue: a failed call is dropped.                                      *)
SetAwaiting(on) ==
    \/ /\ forge' = [forge EXCEPT ![pass.cur].awaiting = on]
       /\ UNCHANGED budget
    \/ /\ CallFails
       /\ UNCHANGED forge

Hold ==
    /\ At("hold")
    /\ SetAwaiting(TRUE)
    /\ Goto("holdNote")
    /\ UNCHANGED <<ownerSet, notes, seen, worker, hist>>

HoldNote ==
    /\ At("holdNote")
    /\ Post(pass.cur, "bot")
    /\ Goto("holdRecord")
    /\ UNCHANGED <<ownerSet, forge, seen, worker, hist, budget>>

AnnounceNew == IF pass.entry.status = "none" THEN Goto("publish") ELSE NextIssue

HoldRecord ==
    /\ At("holdRecord")
    /\ Record(pass.cur, "awaiting-approval")
    /\ AnnounceNew
    /\ UNCHANGED <<ownerSet, forge, notes, worker, hist, budget>>

Unlabel ==
    /\ At("unlabel")
    /\ SetAwaiting(FALSE)
    /\ Goto("spawn")
    /\ UNCHANGED <<ownerSet, notes, seen, worker, hist>>

-----------------------------------------------------------------------------
(* autoSpawnForIssue.                                                          *)

(* `aoc spawn` starts the worker; the in-progress label it gets then is read   *)
(* by nobody.                                                                  *)
SpawnWorker ==
    /\ At("spawn")
    /\ ~worker[pass.cur]
    /\ worker' = [worker EXCEPT ![pass.cur] = TRUE]
    /\ hist' = [hist EXCEPT ![pass.cur].spawns = @ + 1, ![pass.cur].ran = TRUE]
    /\ Goto("recordSpawned")
    /\ UNCHANGED <<ownerSet, forge, notes, seen, budget>>

(* Mutant of SpawnFails: the mark of an earlier failure is not consulted.      *)
SpawnFailsLoudly ==
    /\ At("spawn")
    /\ \/ worker[pass.cur] /\ UNCHANGED budget
       \/ CallFails
    /\ Goto("failNote")
    /\ UNCHANGED <<ownerSet, forge, notes, seen, worker, hist>>

(* `aoc spawn` refuses a run that has a live worker, and may fail by itself.   *)
SpawnFails ==
    /\ At("spawn")
    /\ \/ worker[pass.cur] /\ UNCHANGED budget
       \/ CallFails
    /\ IF pass.entry.status # "none" /\ pass.entry.noted
       THEN NextIssue ELSE Goto("failNote")
    /\ UNCHANGED <<ownerSet, forge, notes, seen, worker, hist>>

FailNote ==
    /\ At("failNote")
    /\ Post(pass.cur, "bot")
    /\ hist' = [hist EXCEPT ![pass.cur].failNotes = @ + 1]
    /\ Goto("failMark")
    /\ UNCHANGED <<ownerSet, forge, seen, worker, budget>>

(* The mark needs an entry; a new issue has none yet and gets one, without the *)
(* mark, in the next step.                                                     *)
FailMark ==
    /\ At("failMark")
    /\ seen' = [seen EXCEPT ![pass.cur].noted = seen[pass.cur].status # "none"]
    /\ IF pass.entry.status = "none" THEN Goto("recordSeen") ELSE NextIssue
    /\ UNCHANGED <<ownerSet, forge, notes, worker, hist, budget>>

RecordSeen ==
    /\ At("recordSeen")
    /\ Record(pass.cur, "seen")
    /\ Goto("publish")
    /\ UNCHANGED <<ownerSet, forge, notes, worker, hist, budget>>

RecordSpawned ==
    /\ At("recordSpawned")
    /\ Record(pass.cur, "spawned")
    /\ hist' = [hist EXCEPT ![pass.cur].failNotes = 0,
                            ![pass.cur].sent = Quiet.sent]
    /\ Goto("publish")
    /\ UNCHANGED <<ownerSet, forge, notes, worker, budget>>

(* issues.new: the first sight of an issue, or a fresh spawn.                  *)
PublishNew ==
    /\ At("publish")
    /\ hist' = [hist EXCEPT ![pass.cur].news = @ + 1]
    /\ NextIssue
    /\ UNCHANGED <<ownerSet, forge, notes, seen, worker, budget>>

-----------------------------------------------------------------------------
(* forwardComments and checkClosed: both walk the entries that were "spawned"  *)
(* when they began.                                                            *)

Tracked == {i \in Issue : seen[i].status = "spawned"}

StartComments ==
    /\ At("next") /\ pass.todo = {}
    /\ pass' = [IdlePass EXCEPT !.pc = "comments", !.todo = Tracked]
    /\ UNCHANGED <<ownerSet, forge, notes, seen, worker, hist, budget>>

(* Mutant of NewNotes: the comment after the cursor is skipped.                *)
NewNotesButOne(i) ==
    {n \in DOMAIN notes[i] : n > seen[i].cursor + 1 /\ notes[i][n] \in Spoken}

(* No other goroutine writes the cursor, so the copy of it is the cursor.      *)
NewNotes(i) == {n \in DOMAIN notes[i] : n > seen[i].cursor /\ notes[i][n] \in Spoken}

FetchComments ==
    /\ At("comments")
    /\ \E i \in pass.todo :
        pass' = IF NewNotes(i) = {}
                THEN [pass EXCEPT !.todo = @ \ {i}]
                ELSE [pass EXCEPT !.todo = @ \ {i}, !.cur = i, !.batch = NewNotes(i),
                                  !.pc = "saveCursor"]
    /\ UNCHANGED <<ownerSet, forge, notes, seen, worker, hist, budget>>

FetchCommentsFails ==
    /\ At("comments") /\ CallFails
    /\ \E i \in pass.todo : pass' = [pass EXCEPT !.todo = @ \ {i}]
    /\ UNCHANGED <<ownerSet, forge, notes, seen, worker, hist>>

(* Mutant of LastOf: the cursor names the comment to come.                     *)
AfterLastOf(batch) == 1 + CHOOSE n \in batch : \A m \in batch : m <= n

LastOf(batch) == CHOOSE n \in batch : \A m \in batch : m <= n

(* Mutant of SaveCursor: the cursor stays where it was.                        *)
SaveNoCursor ==
    /\ At("saveCursor")
    /\ Goto("sendComments")
    /\ UNCHANGED <<ownerSet, forge, notes, seen, worker, hist, budget>>

SaveCursor ==
    /\ At("saveCursor")
    /\ seen' = [seen EXCEPT ![pass.cur].cursor = LastOf(pass.batch)]
    /\ Goto("sendComments")
    /\ UNCHANGED <<ownerSet, forge, notes, worker, hist, budget>>

(* To the conductor.  The copy that a live worker gets of a comment that names *)
(* the bot is not kept.                                                        *)
SendComments ==
    /\ At("sendComments")
    /\ hist' = [hist EXCEPT ![pass.cur].sent =
                    [n \in DOMAIN @ |-> @[n] + (IF n \in pass.batch THEN 1 ELSE 0)]]
    /\ pass' = [pass EXCEPT !.pc = "comments", !.cur = NoIssue, !.batch = {}]
    /\ UNCHANGED <<ownerSet, forge, notes, seen, worker, budget>>

StartClosed ==
    /\ At("comments") /\ pass.todo = {}
    /\ pass' = [IdlePass EXCEPT !.pc = "closed", !.todo = Tracked]
    /\ UNCHANGED <<ownerSet, forge, notes, seen, worker, hist, budget>>

CheckClosed ==
    /\ At("closed")
    /\ \E i \in pass.todo :
        /\ pass' = [pass EXCEPT !.todo = @ \ {i}]
        /\ seen' = IF forge[i].open THEN seen ELSE [seen EXCEPT ![i].status = "closed"]
    /\ UNCHANGED <<ownerSet, forge, notes, worker, hist, budget>>

CheckClosedFails ==
    /\ At("closed") /\ CallFails
    /\ \E i \in pass.todo : pass' = [pass EXCEPT !.todo = @ \ {i}]
    /\ UNCHANGED <<ownerSet, forge, notes, seen, worker, hist>>

EndPass ==
    /\ At("closed") /\ pass.todo = {}
    /\ pass' = IdlePass
    /\ UNCHANGED <<ownerSet, forge, notes, seen, worker, hist, budget>>

-----------------------------------------------------------------------------
(* Everybody else.                                                             *)

(* People, and workers that discard their issue (swe.js unassigns the bot and  *)
(* then adds the label), change one thing at a time.                           *)
Edit ==
    /\ \E i \in Issue, field \in {"open", "assigned", "blocked", "discarded"} :
        forge' = [forge EXCEPT ![i][field] = ~@]
    /\ Use("edits", MaxEdits)
    /\ UNCHANGED <<ownerSet, notes, seen, worker, pass, hist>>

Comment ==
    /\ \E i \in Issue, kind \in Kind \ {"bot"} : Post(i, kind)
    /\ Use("comments", MaxComments)
    /\ UNCHANGED <<ownerSet, forge, seen, worker, pass, hist>>

WorkerEnds ==
    /\ \E i \in Issue : worker[i] /\ worker' = [worker EXCEPT ![i] = FALSE]
    /\ UNCHANGED <<ownerSet, forge, notes, seen, pass, hist, budget>>

(* The conductor's `aoc spawn --issue`, or orphan recovery.                    *)
SpawnedElsewhere ==
    /\ \E i \in Issue :
        /\ ~worker[i]
        /\ worker' = [worker EXCEPT ![i] = TRUE]
        /\ hist' = [hist EXCEPT ![i].ran = TRUE]
    /\ Use("runs", MaxRuns)
    /\ UNCHANGED <<ownerSet, forge, notes, seen, pass>>

(* MRWatcher.markIssueClosed, when the merge request of the run is merged.     *)
MergedElsewhere ==
    /\ \E i \in Issue :
        /\ hist[i].ran /\ seen[i].status \notin {"none", "closed"}
        /\ seen' = [seen EXCEPT ![i].status = "closed"]
    /\ UNCHANGED <<ownerSet, forge, notes, worker, pass, hist, budget>>

Crash ==
    /\ pass' = IdlePass
    /\ Use("crashes", MaxCrashes)
    /\ UNCHANGED <<ownerSet, forge, notes, seen, worker, hist>>

-----------------------------------------------------------------------------
Watcher ==
    \/ ListIssues \/ ListFails \/ TakeIssue \/ ResetDiscarded \/ ResetNote
    \/ CheckApproval \/ CheckApprovalFails \/ Hold \/ HoldNote \/ HoldRecord
    \/ Unlabel \/ SpawnWorker \/ SpawnFails \/ FailNote \/ FailMark
    \/ RecordSeen \/ RecordSpawned \/ PublishNew
    \/ StartComments \/ FetchComments \/ FetchCommentsFails \/ SaveCursor
    \/ SendComments \/ StartClosed \/ CheckClosed \/ CheckClosedFails \/ EndPass

Environment ==
    \/ Edit \/ Comment \/ WorkerEnds \/ SpawnedElsewhere \/ MergedElsewhere \/ Crash

Next == Watcher \/ Environment

Spec == Init /\ [][Next]_vars

(* daemon.go's tick starts a pass every minute and a pass does not stop.       *)
FairSpec == Spec /\ WF_vars(Watcher)

-----------------------------------------------------------------------------
Label == {"idle", "next", "reset", "resetNote", "gate", "hold", "holdNote",
          "holdRecord", "unlabel", "spawn", "failNote", "failMark", "recordSeen",
          "recordSpawned", "publish", "comments", "saveCursor", "sendComments",
          "closed"}

(* The store, the forge and the pass have their types; an issue is at hand     *)
(* whenever a step needs one.                                                  *)
TypeOK ==
    /\ ownerSet \in BOOLEAN
    /\ forge \in [Issue -> Forge]
    /\ \A i \in Issue : notes[i] \in Seq(Kind) /\ Len(notes[i]) <= PageSize
    /\ seen \in [Issue -> Entry]
    /\ worker \in [Issue -> BOOLEAN]
    /\ pass.pc \in Label /\ pass.cur \in Issue \cup {NoIssue} /\ pass.entry \in Entry
    /\ pass.todo \subseteq Issue /\ pass.batch \subseteq 1..PageSize
    /\ pass.pc \in {"idle", "next", "comments", "closed"} \/ pass.cur \in Issue

(* What the docs call approval (website/content/docs/swe-process.md:69-76).    *)
OwnerAgrees(i) ==
    ownerSet /\ (i \in OwnerAuthored \/
                    \E n \in DOMAIN notes[i] : notes[i][n] \in {"approval", "assignment"})

(* The owner gate (spawnIfApproved): no issue is ever spawned without an       *)
(* owner, and none that he neither wrote, approved nor assigned.               *)
OwnerDecides == \A i \in Issue : hist[i].spawns > 0 => OwnerAgrees(i)

(* Run's publish gate: issues.new tells of an issue once, and once more per    *)
(* spawn, whatever happens to it in between.                                   *)
AnnouncedOnce == \A i \in Issue : hist[i].news <= 1 + hist[i].spawns

(* autoSpawnForIssue: until a spawn succeeds its failures are noted on the     *)
(* issue at most twice (a new issue has no entry to carry the first mark),     *)
(* and once more per restart.                                                  *)
FailureNotedTwice == \A i \in Issue : hist[i].failNotes <= 2 + budget.crashes

(* forwardComments: per spawn, a comment is forwarded at most once.            *)
CommentOnce == \A i \in Issue : \A n \in 1..PageSize : hist[i].sent[n] <= 1

(* Nobody is told twice: the subscribers of new issues, the author of an issue *)
(* that a spawn failed, the conductor what was commented.                      *)
GateInv == TypeOK /\ AnnouncedOnce /\ FailureNotedTwice /\ CommentOnce

(* What the watcher needs before it may spawn, apart from its own entry.       *)
Ready(i) ==
    /\ OwnerAgrees(i)
    /\ forge[i].open /\ forge[i].assigned
    /\ ~forge[i].blocked /\ ~forge[i].discarded
    /\ ~worker[i]

(* Run: an issue does not stay open, assigned, approved and unlabelled without *)
(* a worker, unless its entry says it was spawned or closed.                   *)
ReadyIsSpawned ==
    \A i \in Issue : []<>(Ready(i) => seen[i].status \in {"spawned", "closed"})

(* forwardComments: what is said on a spawned issue reaches the conductor,     *)
(* unless the issue is no longer followed or the daemon stopped.               *)
CommentsArrive ==
    \A i \in Issue : \A n \in 1..PageSize :
        []<>(n \in DOMAIN notes[i] /\ seen[i].status = "spawned" =>
                \/ notes[i][n] \notin Spoken
                \/ hist[i].sent[n] > 0
                \/ budget.crashes > 0)

(* No issue waits for ever: not for its worker, not with its comments.         *)
IssueIsServed == ReadyIsSpawned /\ CommentsArrive
=============================================================================
