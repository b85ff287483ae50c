-------------------------- MODULE IssueWatcherProofs --------------------------
(* Proofs about IssueWatcher for any issues, notes, edits, errors and crashes: *)
(* nothing is spawned that the owner did not ask for, and nobody is told       *)
(* twice.                                                                      *)
EXTENDS IssueWatcher, WellFoundedInduction, TLAPS

PassType == [pc : Label, cur : Issue \cup {NoIssue}, todo : SUBSET Issue, held : SUBSET Issue,
             gone : SUBSET Issue, entry : Entry, batch : SUBSET (1..PageSize)]
HistType == [news : Nat, spawns : Nat, failNotes : Nat, sent : [1..PageSize -> Nat], ran : BOOLEAN]
BudgetType == [edits : Nat, comments : Nat, runs : Nat, errors : Nat, crashes : Nat]

Types ==
    /\ ownerSet \in BOOLEAN
    /\ forge \in [Issue -> Forge]
    /\ notes \in [Issue -> Seq(Kind)] /\ \A i \in Issue : Len(notes[i]) <= PageSize
    /\ seen \in [Issue -> Entry]
    /\ worker \in [Issue -> BOOLEAN]
    /\ pass \in PassType
    /\ pass.pc \notin {"idle", "next", "comments", "closed"} => pass.cur \in Issue
    /\ pass.pc = "saveCursor" => pass.batch # {}
    /\ hist \in [Issue -> HistType]
    /\ budget \in BudgetType

(* The step the pass is at with issue i.                                       *)
With(i, pcs) == pass.cur = i /\ pass.pc \in pcs

(* Whom the pass is about to spawn has an owner's word.                        *)
Agreed ==
    /\ pass.pc = "gate" => ownerSet
    /\ \A i \in Issue : With(i, {"unlabel", "spawn"}) => OwnerAgrees(i)

(* The copy of the entry is as good as the entry while the pass decides; the   *)
(* mark of a failure is on no new issue, and a failure that is to be noted is  *)
(* not marked yet.                                                             *)
Deciding == {"gate", "hold", "holdNote", "holdRecord", "unlabel", "spawn", "failNote",
             "failMark", "recordSeen"}
CopyIsTrue ==
    /\ \A i \in Issue : seen[i].status = "none" => ~seen[i].noted
    /\ \A i \in Issue : With(i, Deciding) =>
          /\ pass.entry.status = "none" <=> seen[i].status = "none"
          /\ pass.entry.noted <=> seen[i].noted
    /\ pass.pc \in {"failNote", "failMark"} => pass.entry.status = "none" \/ ~pass.entry.noted
    /\ pass.pc = "recordSeen" => pass.entry.status = "none"

Bit(b) == IF b THEN 1 ELSE 0
Has(i) == Bit(seen[i].status # "none")

(* An announcement is for the first entry of an issue, or for a spawn.         *)
NewsCounted ==
    \A i \in Issue :
        hist[i].news + Bit(With(i, {"recordSpawned", "publish"})) <= hist[i].spawns + Has(i)

(* Only issues that have an entry are followed.                                *)
Walking == {"comments", "saveCursor", "sendComments", "closed"}
Known == pass.pc \in Walking => \A i \in pass.todo : seen[i].status # "none"

(* A note on a failure is for the first entry, for the mark, on its way to     *)
(* one of them, or was cut off by a crash.                                     *)
FailuresCounted ==
    \A i \in Issue :
        hist[i].failNotes <= budget.crashes + Has(i) + Bit(seen[i].noted)
                               + Bit(With(i, {"failMark", "recordSeen"}))

(* What is after the cursor of a tracked issue was not sent.                   *)
Unsent(i) == \A n \in 1..PageSize : n > seen[i].cursor => hist[i].sent[n] = 0
Unread ==
    /\ \A i \in Issue : seen[i].status = "spawned" => Unsent(i)
    /\ pass.pc \in {"comments", "saveCursor", "sendComments"} => \A i \in pass.todo : Unsent(i)
    /\ pass.pc \in {"saveCursor", "sendComments"} => pass.cur \notin pass.todo
    /\ pass.pc = "saveCursor" =>
          Unsent(pass.cur) /\ \A n \in pass.batch : n > seen[pass.cur].cursor
    /\ pass.pc = "sendComments" => \A n \in pass.batch : n <= seen[pass.cur].cursor
    /\ \A i \in Issue : With(i, {"saveCursor", "sendComments"}) =>
          \A n \in pass.batch : hist[i].sent[n] = 0

(* The inductive invariant.                                                    *)
IInv ==
    /\ Types /\ Known /\ Agreed /\ OwnerDecides /\ CopyIsTrue
    /\ NewsCounted /\ FailuresCounted /\ Unread /\ CommentOnce

-----------------------------------------------------------------------------
(* The operators of the model.                                                 *)

LEMMA UnknownIsEntry == Unknown \in Entry
BY BoundAssumption DEF Unknown, Entry

LEMMA IdleIsPass == IdlePass \in PassType
BY UnknownIsEntry DEF IdlePass, PassType, Label

LEMMA GoesTo ==
    ASSUME Types, NEW pc \in Label, Goto(pc)
    PROVE  /\ pass' \in PassType /\ pass'.pc = pc
           /\ pass'.cur = pass.cur /\ pass'.entry = pass.entry
           /\ pass'.todo = pass.todo /\ pass'.batch = pass.batch
BY DEF Types, Goto, PassType

LEMMA GoesOn ==
    ASSUME Types, NextIssue
    PROVE  /\ pass' \in PassType /\ pass'.pc = "next"
           /\ pass'.cur = NoIssue /\ pass'.entry = Unknown
           /\ pass'.todo = pass.todo /\ pass'.batch = pass.batch
BY UnknownIsEntry DEF Types, NextIssue, PassType, Label

LEMMA Spends ==
    ASSUME Types, NEW what \in {"edits", "comments", "runs", "errors", "crashes"}, NEW limit, Use(what, limit)
    PROVE  /\ budget' \in BudgetType
           /\ budget'.crashes = IF what = "crashes" THEN budget.crashes + 1 ELSE budget.crashes
BY DEF Types, Use, BudgetType

LEMMA Says ==
    ASSUME Types, NEW i \in Issue, NEW kind \in Kind, Post(i, kind)
    PROVE  /\ notes' \in [Issue -> Seq(Kind)] /\ \A j \in Issue : Len(notes'[j]) <= PageSize
           /\ \A j \in Issue : \A n \in DOMAIN notes[j] :
                 n \in DOMAIN notes'[j] /\ notes'[j][n] = notes[j][n]
<1>1. notes[i] \in Seq(Kind) BY DEF Types
<1>2. /\ Posted(i, kind) \in Seq(Kind) /\ Len(Posted(i, kind)) <= PageSize
      /\ \A n \in DOMAIN notes[i] : n \in DOMAIN Posted(i, kind) /\ Posted(i, kind)[n] = notes[i][n]
  <2>1. CASE Len(notes[i]) < PageSize
    <3>1. Posted(i, kind) = Append(notes[i], kind) BY <2>1 DEF Posted
    <3>2. /\ Append(notes[i], kind) \in Seq(Kind) /\ Len(Append(notes[i], kind)) = Len(notes[i]) + 1
          /\ \A n \in 1..Len(notes[i]) : Append(notes[i], kind)[n] = notes[i][n]
          /\ DOMAIN Append(notes[i], kind) = 1..(Len(notes[i]) + 1)
          /\ DOMAIN notes[i] = 1..Len(notes[i]) /\ Len(notes[i]) \in Nat
      BY <1>1
    <3> QED BY <2>1, <3>1, <3>2, BoundAssumption
  <2>2. CASE ~(Len(notes[i]) < PageSize)
    BY <1>1, <2>2 DEF Posted, Types
  <2> QED BY <2>1, <2>2
<1>3. notes' = [notes EXCEPT ![i] = Posted(i, kind)] BY DEF Post
<1> QED BY <1>2, <1>3 DEF Types

LEMMA Records ==
    ASSUME Types, NEW i \in Issue, NEW status \in {"seen", "awaiting-approval", "spawned"}, Record(i, status)
    PROVE  /\ seen' \in [Issue -> Entry]
           /\ seen'[i].status = status /\ seen'[i].cursor = 0
           /\ seen'[i].noted <=> seen[i].noted /\ status # "spawned"
           /\ \A j \in Issue : j # i => seen'[j] = seen[j]
<1>1. Recorded(i, status) \in Entry
  BY BoundAssumption DEF Types, Recorded, Entry
<1> QED BY <1>1 DEF Types, Record, Recorded, Entry

LEMMA Labels ==
    ASSUME Types, NEW on \in BOOLEAN, pass.cur \in Issue, SetAwaiting(on)
    PROVE  forge' \in [Issue -> Forge] /\ budget' \in BudgetType /\ budget'.crashes = budget.crashes
<1>1. CASE forge' = [forge EXCEPT ![pass.cur].awaiting = on] /\ UNCHANGED budget
  BY <1>1 DEF Types, Forge
<1>2. CASE CallFails /\ UNCHANGED forge
  BY <1>2, Spends DEF Types, CallFails
<1> QED BY <1>1, <1>2 DEF SetAwaiting

LEMMA Counted ==
    \A h \in HistType :
        /\ [h EXCEPT !.news = @ + 1] \in HistType
        /\ [h EXCEPT !.failNotes = @ + 1] \in HistType
        /\ \A n \in Nat : [h EXCEPT !.spawns = n, !.ran = TRUE] \in HistType
        /\ h.spawns + 1 \in Nat
<1> TAKE h \in HistType
<1>1. [h EXCEPT !.news = @ + 1] \in HistType BY DEF HistType
<1>2. [h EXCEPT !.failNotes = @ + 1] \in HistType BY DEF HistType
<1>3. \A n \in Nat : [h EXCEPT !.spawns = n, !.ran = TRUE] \in HistType BY DEF HistType
<1>4. h.spawns + 1 \in Nat BY DEF HistType
<1> QED BY <1>1, <1>2, <1>3, <1>4

LEMMA Sent ==
    ASSUME NEW f \in [1..PageSize -> Nat], NEW B
    PROVE  [n \in DOMAIN f |-> f[n] + (IF n \in B THEN 1 ELSE 0)] \in [1..PageSize -> Nat]
<1>1. \A n \in 1..PageSize : f[n] + (IF n \in B THEN 1 ELSE 0) \in Nat OBVIOUS
<1> QED BY <1>1

(* The last of some notes is one of them.                                      *)
LEMMA LastIsLast ==
    ASSUME NEW S \in SUBSET (1..PageSize), S # {}
    PROVE  LastOf(S) \in S /\ \A n \in S : n <= LastOf(S)
<1> DEFINE Less == OpToRel(<, Nat)
           Rest == {PageSize - n : n \in S}
<1>0. S \subseteq Nat /\ \A n \in S : PageSize - n \in Nat BY BoundAssumption
<1>1. IsWellFoundedOn(Less, Nat) BY NatLessThanWellFounded
<1>2. Rest \subseteq Nat /\ Rest # {} BY <1>0
<1>3. PICK r \in Rest : \A q \in Rest : ~(<<q, r>> \in Less)
  <2> HIDE DEF Rest, Less
  <2> QED BY <1>1, <1>2, WFMin
<1>4. PICK l \in S : r = PageSize - l OBVIOUS
<1>5. ASSUME NEW n \in S PROVE n <= l
  <2>1. ~(<<PageSize - n, r>> \in Less) BY <1>3
  <2>2. ASSUME n > l PROVE FALSE
    <3>1. PageSize - n < r BY <1>0, <1>4, <2>2, BoundAssumption
    <3>2. <<PageSize - n, r>> \in Less BY <1>0, <1>2, <1>3, <3>1 DEF OpToRel
    <3> QED BY <2>1, <3>2
  <2> QED BY <1>0, <2>2
<1> QED BY <1>5 DEF LastOf

-----------------------------------------------------------------------------
(* Types.                                                                      *)

LEMMA StepTypes == Types /\ [Next]_vars => Types'
<1> SUFFICES ASSUME Types, [Next]_vars PROVE Types' OBVIOUS
<1>L. Label = {"idle", "next", "reset", "resetNote", "gate", "hold", "holdNote", "holdRecord",
               "unlabel", "spawn", "failNote", "failMark", "recordSeen", "recordSpawned",
               "publish", "comments", "saveCursor", "sendComments", "closed"}
  BY DEF Label
<1>H. /\ hist \in [Issue -> HistType] /\ seen \in [Issue -> Entry] /\ pass \in PassType
      /\ worker \in [Issue -> BOOLEAN]
  BY DEF Types
<1>ListIssues. CASE ListIssues
  <2>1. pass' \in PassType /\ pass'.pc = "next"
    BY <1>ListIssues, <1>L, IdleIsPass DEF ListIssues, PassType, Listed
  <2> QED BY <1>ListIssues, <2>1 DEF ListIssues, Types
<1>ListFails. CASE ListFails BY <1>ListFails, <1>L, Spends DEF ListFails, CallFails, Types
<1>TakeIssue. CASE TakeIssue
  <2>1. PICK i \in pass.todo :
          pass' = [pass EXCEPT !.todo = @ \ {i}, !.pc = Route(i, seen[i]),
                      !.cur = IF Route(i, seen[i]) = "next" THEN NoIssue ELSE i,
                      !.entry = IF Route(i, seen[i]) = "next" THEN Unknown ELSE seen[i]]
    BY <1>TakeIssue DEF TakeIssue
  <2>2. i \in Issue /\ Route(i, seen[i]) \in Label \ {"saveCursor"}
    BY <1>H, <1>L DEF Route, PassType
  <2>3. pass' \in PassType /\ pass'.pc # "saveCursor"
        /\ (pass'.pc = "next" \/ pass'.cur \in Issue)
    BY <1>H, <2>1, <2>2, UnknownIsEntry DEF PassType
  <2> QED BY <1>TakeIssue, <2>3 DEF TakeIssue, Types
<1>ResetDiscarded. CASE ResetDiscarded
  <2>1. seen' \in [Issue -> Entry] BY <1>ResetDiscarded, <1>H DEF ResetDiscarded, Entry
  <2> QED BY <1>ResetDiscarded, <1>L, <2>1, GoesTo DEF ResetDiscarded, At, Types
<1>ResetNote. CASE ResetNote BY <1>ResetNote, <1>L, GoesOn, Says DEF ResetNote, At, Kind, Types
<1>CheckApproval. CASE CheckApproval BY <1>CheckApproval, <1>L, GoesTo, GoesOn DEF CheckApproval, AfterGate, At, Types
<1>CheckApprovalFails. CASE CheckApprovalFails BY <1>CheckApprovalFails, <1>L, GoesTo, GoesOn, Spends DEF CheckApprovalFails, CallFails, AfterGate, At, Types
<1>Hold. CASE Hold BY <1>Hold, <1>L, GoesTo, Labels DEF Hold, At, Types
<1>HoldNote. CASE HoldNote BY <1>HoldNote, <1>L, GoesTo, Says DEF HoldNote, At, Kind, Types
<1>HoldRecord. CASE HoldRecord BY <1>HoldRecord, <1>L, GoesTo, GoesOn, Records DEF HoldRecord, AnnounceNew, At, Types
<1>Unlabel. CASE Unlabel BY <1>Unlabel, <1>L, GoesTo, Labels DEF Unlabel, At, Types
<1>SpawnWorker. CASE SpawnWorker
  <2>0. pass.cur \in Issue BY <1>SpawnWorker DEF SpawnWorker, At, Types
  <2> DEFINE h == hist[pass.cur]
  <2>0a. hist' = [hist EXCEPT ![pass.cur] = [h EXCEPT !.spawns = h.spawns + 1, !.ran = TRUE]]
    BY <1>SpawnWorker DEF SpawnWorker
  <2>0b. [h EXCEPT !.spawns = h.spawns + 1, !.ran = TRUE] \in HistType BY <1>H, <2>0, Counted
  <2>1. hist' \in [Issue -> HistType] BY <1>H, <2>0a, <2>0b
  <2>2. worker' \in [Issue -> BOOLEAN] BY <1>SpawnWorker, <1>H DEF SpawnWorker
  <2> QED BY <1>SpawnWorker, <1>L, <2>1, <2>2, GoesTo DEF SpawnWorker, At, Types
<1>SpawnFails. CASE SpawnFails BY <1>SpawnFails, <1>L, GoesTo, GoesOn, Spends DEF SpawnFails, CallFails, At, Types
<1>FailNote. CASE FailNote
  <2>0. pass.cur \in Issue BY <1>FailNote DEF FailNote, At, Types
  <2>1. hist' \in [Issue -> HistType] BY <1>FailNote, <1>H, <2>0, Counted DEF FailNote
  <2> QED BY <1>FailNote, <1>L, <2>1, GoesTo, Says DEF FailNote, At, Kind, Types
<1>FailMark. CASE FailMark
  <2>1. (seen[pass.cur].status # "none") \in BOOLEAN OBVIOUS
  <2>2. seen' \in [Issue -> Entry] BY <1>FailMark, <1>H, <2>1, ZenonT(40) DEF FailMark, Entry
  <2> QED BY <1>FailMark, <1>L, <2>2, GoesTo, GoesOn DEF FailMark, At, Types
<1>RecordSeen. CASE RecordSeen BY <1>RecordSeen, <1>L, GoesTo, Records DEF RecordSeen, At, Types
<1>RecordSpawned. CASE RecordSpawned
  <2>1. hist' \in [Issue -> HistType]
    BY <1>RecordSpawned, <1>H DEF RecordSpawned, HistType, Quiet
  <2> QED BY <1>RecordSpawned, <1>L, <2>1, GoesTo, Records DEF RecordSpawned, At, Types
<1>PublishNew. CASE PublishNew
  <2>0. pass.cur \in Issue BY <1>PublishNew DEF PublishNew, At, Types
  <2>1. hist' \in [Issue -> HistType] BY <1>PublishNew, <1>H, <2>0, Counted DEF PublishNew
  <2> QED BY <1>PublishNew, <1>L, <2>1, GoesOn DEF PublishNew, At, Types
<1>StartComments. CASE StartComments
  <2>1. pass' \in PassType /\ pass'.pc = "comments"
    BY <1>StartComments, <1>L, IdleIsPass DEF StartComments, PassType, Tracked
  <2> QED BY <1>StartComments, <2>1 DEF StartComments, Types
<1>FetchComments. CASE FetchComments
  <2>1. PICK i \in pass.todo :
          pass' = IF NewNotes(i) = {}
                  THEN [pass EXCEPT !.todo = @ \ {i}]
                  ELSE [pass EXCEPT !.todo = @ \ {i}, !.cur = i, !.batch = NewNotes(i),
                                    !.pc = "saveCursor"]
    BY <1>FetchComments DEF FetchComments
  <2>2. i \in Issue BY <1>H DEF PassType
  <2>3. NewNotes(i) \subseteq 1..PageSize
    <3>1. notes[i] \in Seq(Kind) /\ Len(notes[i]) <= PageSize BY <2>2 DEF Types
    <3> QED BY <3>1, BoundAssumption DEF NewNotes
  <2>4. CASE NewNotes(i) = {}
    <3>1. pass' \in PassType /\ pass'.pc = pass.pc BY <1>H, <2>1, <2>4 DEF PassType
    <3> QED BY <1>FetchComments, <3>1 DEF FetchComments, At, Types
  <2>5. CASE NewNotes(i) # {}
    <3>1. pass' \in PassType /\ pass'.cur \in Issue /\ pass'.batch # {}
      BY <1>H, <1>L, <2>1, <2>2, <2>3, <2>5 DEF PassType
    <3> QED BY <1>FetchComments, <3>1 DEF FetchComments, Types
  <2> QED BY <2>4, <2>5
<1>FetchCommentsFails. CASE FetchCommentsFails
  <2>1. pass' \in PassType /\ pass'.pc = pass.pc
    BY <1>FetchCommentsFails, <1>H DEF FetchCommentsFails, PassType
  <2> QED BY <1>FetchCommentsFails, <2>1, Spends DEF FetchCommentsFails, CallFails, At, Types
<1>SaveCursor. CASE SaveCursor
  <2>1. pass.batch \in SUBSET (1..PageSize) /\ pass.batch # {} /\ pass.cur \in Issue
    BY <1>SaveCursor, <1>H DEF SaveCursor, At, Types, PassType
  <2>1a. LastOf(pass.batch) \in 0..PageSize BY <2>1, LastIsLast
  <2>2. seen' \in [Issue -> Entry] BY <1>SaveCursor, <1>H, <2>1, <2>1a DEF SaveCursor, Entry
  <2> QED BY <1>SaveCursor, <1>L, <2>2, GoesTo DEF SaveCursor, At, Types
<1>SendComments. CASE SendComments
  <2>1. pass.cur \in Issue BY <1>SendComments DEF SendComments, At, Types
  <2> DEFINE sent == [n \in DOMAIN hist[pass.cur].sent |->
                        hist[pass.cur].sent[n] + (IF n \in pass.batch THEN 1 ELSE 0)]
  <2>2. sent \in [1..PageSize -> Nat]
    <3>1. hist[pass.cur].sent \in [1..PageSize -> Nat] BY <1>H, <2>1 DEF HistType
    <3> QED BY <3>1, Sent
  <2>3. hist' = [hist EXCEPT ![pass.cur].sent = sent] BY <1>SendComments DEF SendComments
  <2> HIDE DEF sent
  <2>4. hist' \in [Issue -> HistType] BY <1>H, <2>2, <2>3 DEF HistType
  <2>5. pass' \in PassType /\ pass'.pc = "comments"
    BY <1>SendComments, <1>H, <1>L DEF SendComments, PassType
  <2> QED BY <1>SendComments, <2>4, <2>5 DEF SendComments, Types
<1>StartClosed. CASE StartClosed
  <2>1. pass' \in PassType /\ pass'.pc = "closed"
    BY <1>StartClosed, <1>L, IdleIsPass DEF StartClosed, PassType, Tracked
  <2> QED BY <1>StartClosed, <2>1 DEF StartClosed, Types
<1>CheckClosed. CASE CheckClosed
  <2>1. pass' \in PassType /\ pass'.pc = pass.pc
    BY <1>CheckClosed, <1>H DEF CheckClosed, PassType
  <2>2. PICK i \in Issue : seen' = IF forge[i].open THEN seen ELSE [seen EXCEPT ![i].status = "closed"]
    BY <1>CheckClosed, <1>H DEF CheckClosed, PassType
  <2>3. seen' \in [Issue -> Entry]
    <3>1. \A e \in Entry : [e EXCEPT !.status = "closed"] \in Entry BY DEF Entry
    <3> QED BY <1>H, <2>2, <3>1
  <2> QED BY <1>CheckClosed, <2>1, <2>3 DEF CheckClosed, At, Types
<1>CheckClosedFails. CASE CheckClosedFails
  <2>1. pass' \in PassType /\ pass'.pc = pass.pc
    BY <1>CheckClosedFails, <1>H DEF CheckClosedFails, PassType
  <2> QED BY <1>CheckClosedFails, <2>1, Spends DEF CheckClosedFails, CallFails, At, Types
<1>EndPass. CASE EndPass BY <1>EndPass, IdleIsPass DEF EndPass, IdlePass, Types
<1>Edit. CASE Edit
  <2>0. PICK i \in Issue, field \in {"open", "assigned", "blocked", "discarded"} :
          forge' = [forge EXCEPT ![i] = [forge[i] EXCEPT ![field] = ~forge[i][field]]]
    BY <1>Edit DEF Edit
  <2>1. forge' \in [Issue -> Forge]
    <3>1. \A f \in Forge : /\ [f EXCEPT !["open"] = ~f["open"]] \in Forge
                           /\ [f EXCEPT !["assigned"] = ~f["assigned"]] \in Forge
                           /\ [f EXCEPT !["blocked"] = ~f["blocked"]] \in Forge
                           /\ [f EXCEPT !["discarded"] = ~f["discarded"]] \in Forge
      BY DEF Forge
    <3>2. forge[i] \in Forge /\ forge \in [Issue -> Forge] BY DEF Types
    <3>3. [forge[i] EXCEPT ![field] = ~forge[i][field]] \in Forge BY <3>1, <3>2
    <3> QED BY <2>0, <3>2, <3>3
  <2> QED BY <1>Edit, <2>1, Spends DEF Edit, Types
<1>Comment. CASE Comment BY <1>Comment, Says, Spends DEF Comment, Types
<1>WorkerEnds. CASE WorkerEnds BY <1>WorkerEnds DEF WorkerEnds, Types
<1>SpawnedElsewhere. CASE SpawnedElsewhere
  <2>1. hist' \in [Issue -> HistType] BY <1>SpawnedElsewhere, <1>H, ZenonT(40) DEF SpawnedElsewhere, HistType
  <2>2. worker' \in [Issue -> BOOLEAN] BY <1>SpawnedElsewhere, <1>H DEF SpawnedElsewhere
  <2> QED BY <1>SpawnedElsewhere, <2>1, <2>2, Spends DEF SpawnedElsewhere, Types
<1>MergedElsewhere. CASE MergedElsewhere
  <2>1. seen' \in [Issue -> Entry] BY <1>MergedElsewhere, <1>H DEF MergedElsewhere, Entry
  <2> QED BY <1>MergedElsewhere, <2>1 DEF MergedElsewhere, Types
<1>Crash. CASE Crash BY <1>Crash, IdleIsPass, Spends DEF Crash, IdlePass, Types
<1>Stutter. CASE UNCHANGED vars BY <1>Stutter DEF vars, Types
<1> QED BY <1>ListIssues, <1>ListFails, <1>TakeIssue, <1>ResetDiscarded,
       <1>ResetNote, <1>CheckApproval, <1>CheckApprovalFails, <1>Hold,
       <1>HoldNote, <1>HoldRecord, <1>Unlabel, <1>SpawnWorker, <1>SpawnFails,
       <1>FailNote, <1>FailMark, <1>RecordSeen, <1>RecordSpawned, <1>PublishNew,
       <1>StartComments, <1>FetchComments, <1>FetchCommentsFails, <1>SaveCursor,
       <1>SendComments, <1>StartClosed, <1>CheckClosed, <1>CheckClosedFails,
       <1>EndPass, <1>Edit, <1>Comment, <1>WorkerEnds, <1>SpawnedElsewhere,
       <1>MergedElsewhere, <1>Crash, <1>Stutter DEF Next, Watcher, Environment

-----------------------------------------------------------------------------
(* The owner's word.                                                           *)

(* Nobody takes a note back.                                                   *)
LEMMA NotesStay ==
    ASSUME Types, [Next]_vars
    PROVE  /\ ownerSet' = ownerSet
           /\ \A i \in Issue : OwnerAgrees(i) => OwnerAgrees(i)'
<1> DEFINE Stay == /\ ownerSet' = ownerSet
                   /\ \A j \in Issue : \A n \in DOMAIN notes[j] :
                         n \in DOMAIN notes'[j] /\ notes'[j][n] = notes[j][n]
<1>1. UNCHANGED <<ownerSet, notes>> => Stay OBVIOUS
<1>2. ASSUME UNCHANGED ownerSet, \E i \in Issue, kind \in Kind : Post(i, kind) PROVE Stay
  BY <1>2, Says
<1>3. "bot" \in Kind /\ Kind \ {"bot"} \subseteq Kind BY DEF Kind
<1>4. Stay
  <2> HIDE DEF Stay
  <2>ListIssues. CASE ListIssues BY <2>ListIssues, <1>1 DEF ListIssues
  <2>ListFails. CASE ListFails BY <2>ListFails, <1>1 DEF ListFails
  <2>TakeIssue. CASE TakeIssue BY <2>TakeIssue, <1>1 DEF TakeIssue
  <2>ResetDiscarded. CASE ResetDiscarded BY <2>ResetDiscarded, <1>1 DEF ResetDiscarded
  <2>ResetNote. CASE ResetNote BY <2>ResetNote, <1>2, <1>3 DEF ResetNote, At, Types
  <2>CheckApproval. CASE CheckApproval BY <2>CheckApproval, <1>1 DEF CheckApproval
  <2>CheckApprovalFails. CASE CheckApprovalFails BY <2>CheckApprovalFails, <1>1 DEF CheckApprovalFails
  <2>Hold. CASE Hold BY <2>Hold, <1>1 DEF Hold
  <2>HoldNote. CASE HoldNote BY <2>HoldNote, <1>2, <1>3 DEF HoldNote, At, Types
  <2>HoldRecord. CASE HoldRecord BY <2>HoldRecord, <1>1 DEF HoldRecord
  <2>Unlabel. CASE Unlabel BY <2>Unlabel, <1>1 DEF Unlabel
  <2>SpawnWorker. CASE SpawnWorker BY <2>SpawnWorker, <1>1 DEF SpawnWorker
  <2>SpawnFails. CASE SpawnFails BY <2>SpawnFails, <1>1 DEF SpawnFails
  <2>FailNote. CASE FailNote BY <2>FailNote, <1>2, <1>3 DEF FailNote, At, Types
  <2>FailMark. CASE FailMark BY <2>FailMark, <1>1 DEF FailMark
  <2>RecordSeen. CASE RecordSeen BY <2>RecordSeen, <1>1 DEF RecordSeen
  <2>RecordSpawned. CASE RecordSpawned BY <2>RecordSpawned, <1>1 DEF RecordSpawned
  <2>PublishNew. CASE PublishNew BY <2>PublishNew, <1>1 DEF PublishNew
  <2>StartComments. CASE StartComments BY <2>StartComments, <1>1 DEF StartComments
  <2>FetchComments. CASE FetchComments BY <2>FetchComments, <1>1 DEF FetchComments
  <2>FetchCommentsFails. CASE FetchCommentsFails BY <2>FetchCommentsFails, <1>1 DEF FetchCommentsFails
  <2>SaveCursor. CASE SaveCursor BY <2>SaveCursor, <1>1 DEF SaveCursor
  <2>SendComments. CASE SendComments BY <2>SendComments, <1>1 DEF SendComments
  <2>StartClosed. CASE StartClosed BY <2>StartClosed, <1>1 DEF StartClosed
  <2>CheckClosed. CASE CheckClosed BY <2>CheckClosed, <1>1 DEF CheckClosed
  <2>CheckClosedFails. CASE CheckClosedFails BY <2>CheckClosedFails, <1>1 DEF CheckClosedFails
  <2>EndPass. CASE EndPass BY <2>EndPass, <1>1 DEF EndPass
  <2>Edit. CASE Edit BY <2>Edit, <1>1 DEF Edit
  <2>Comment. CASE Comment BY <2>Comment, <1>2, <1>3 DEF Comment
  <2>WorkerEnds. CASE WorkerEnds BY <2>WorkerEnds, <1>1 DEF WorkerEnds
  <2>SpawnedElsewhere. CASE SpawnedElsewhere BY <2>SpawnedElsewhere, <1>1 DEF SpawnedElsewhere
  <2>MergedElsewhere. CASE MergedElsewhere BY <2>MergedElsewhere, <1>1 DEF MergedElsewhere
  <2>Crash. CASE Crash BY <2>Crash, <1>1 DEF Crash
  <2>Stutter. CASE UNCHANGED vars BY <2>Stutter, <1>1 DEF vars
  <2> QED BY <2>ListIssues, <2>ListFails, <2>TakeIssue, <2>ResetDiscarded,
         <2>ResetNote, <2>CheckApproval, <2>CheckApprovalFails, <2>Hold,
         <2>HoldNote, <2>HoldRecord, <2>Unlabel, <2>SpawnWorker, <2>SpawnFails,
         <2>FailNote, <2>FailMark, <2>RecordSeen, <2>RecordSpawned,
         <2>PublishNew, <2>StartComments, <2>FetchComments,
         <2>FetchCommentsFails, <2>SaveCursor, <2>SendComments, <2>StartClosed,
         <2>CheckClosed, <2>CheckClosedFails, <2>EndPass, <2>Edit, <2>Comment,
         <2>WorkerEnds, <2>SpawnedElsewhere, <2>MergedElsewhere, <2>Crash,
         <2>Stutter DEF Next, Watcher, Environment
<1> QED BY <1>4 DEF OwnerAgrees

LEMMA StepAgreed ==
    Types /\ Types' /\ Agreed /\ OwnerDecides /\ [Next]_vars => Agreed' /\ OwnerDecides'
<1> SUFFICES ASSUME Types, Types', Agreed, OwnerDecides, [Next]_vars
             PROVE  Agreed' /\ OwnerDecides'
  OBVIOUS
<1>N. ownerSet' = ownerSet /\ \A i \in Issue : OwnerAgrees(i) => OwnerAgrees(i)' BY NotesStay
<1>C. (pass.cur \in OwnerAuthored \/ NotesApprove(pass.cur)) /\ ownerSet => OwnerAgrees(pass.cur)
  BY DEF NotesApprove, OwnerAgrees
<1>L. Label = {"idle", "next", "reset", "resetNote", "gate", "hold", "holdNote", "holdRecord",
               "unlabel", "spawn", "failNote", "failMark", "recordSeen", "recordSpawned",
               "publish", "comments", "saveCursor", "sendComments", "closed"}
  BY DEF Label
(* A step that spawns nothing and leads to no spawn.                           *)
<1>A. ASSUME pass'.pc \notin {"gate", "unlabel", "spawn"} \/ UNCHANGED pass,
             \A i \in Issue : hist'[i].spawns = hist[i].spawns
      PROVE  Agreed' /\ OwnerDecides'
  BY <1>A, <1>N DEF Agreed, OwnerDecides, With
<1>ListIssues. CASE ListIssues BY <1>ListIssues, <1>A DEF ListIssues, IdlePass, Types, PassType
<1>ListFails. CASE ListFails BY <1>ListFails, <1>A DEF ListFails, Types, PassType
<1>TakeIssue. CASE TakeIssue
  <2>1. PICK i \in pass.todo :
          pass' = [pass EXCEPT !.todo = @ \ {i}, !.pc = Route(i, seen[i]),
                      !.cur = IF Route(i, seen[i]) = "next" THEN NoIssue ELSE i,
                      !.entry = IF Route(i, seen[i]) = "next" THEN Unknown ELSE seen[i]]
    BY <1>TakeIssue DEF TakeIssue
  <2>2. pass'.pc = Route(i, seen[i]) BY <2>1 DEF Types, PassType
  <2>3. pass'.pc \notin {"unlabel", "spawn"} /\ (pass'.pc = "gate" => ownerSet)
    BY <2>2 DEF Route
  <2> QED BY <1>TakeIssue, <1>N, <2>3 DEF TakeIssue, Agreed, OwnerDecides, With
<1>ResetDiscarded. CASE ResetDiscarded BY <1>ResetDiscarded, <1>A, <1>L, GoesTo DEF ResetDiscarded
<1>ResetNote. CASE ResetNote BY <1>ResetNote, <1>A, <1>L, GoesOn DEF ResetNote
<1>CheckApproval. CASE CheckApproval
  <2>1. pass.pc = "gate" /\ pass.cur \in Issue /\ ownerSet /\ UNCHANGED hist
    BY <1>CheckApproval DEF CheckApproval, At, Types, Agreed
  <2> DEFINE ok == pass.cur \in OwnerAuthored \/ NotesApprove(pass.cur)
  <2>2. /\ pass'.pc \in {"unlabel", "spawn", "hold", "next"}
        /\ pass'.pc \in {"unlabel", "spawn"} => pass'.cur = pass.cur /\ ok
    BY <1>CheckApproval, <1>L, GoesTo, GoesOn DEF CheckApproval, AfterGate
  <2> QED BY <1>C, <1>N, <2>1, <2>2 DEF Agreed, OwnerDecides, With
<1>CheckApprovalFails. CASE CheckApprovalFails
  <2>1. pass'.pc \in {"hold", "next"}
    BY <1>CheckApprovalFails, <1>L, GoesTo, GoesOn DEF CheckApprovalFails, AfterGate
  <2> QED BY <1>CheckApprovalFails, <1>A, <2>1 DEF CheckApprovalFails
<1>Hold. CASE Hold BY <1>Hold, <1>A, <1>L, GoesTo DEF Hold
<1>HoldNote. CASE HoldNote BY <1>HoldNote, <1>A, <1>L, GoesTo DEF HoldNote
<1>HoldRecord. CASE HoldRecord BY <1>HoldRecord, <1>A, <1>L, GoesTo, GoesOn DEF HoldRecord, AnnounceNew
<1>Unlabel. CASE Unlabel
  <2>1. pass.pc = "unlabel" /\ pass'.pc = "spawn" /\ pass'.cur = pass.cur /\ UNCHANGED hist
    BY <1>Unlabel, <1>L, GoesTo DEF Unlabel, At
  <2> QED BY <1>N, <2>1 DEF Agreed, OwnerDecides, With
<1>SpawnWorker. CASE SpawnWorker
  <2>1. pass.pc = "spawn" /\ pass.cur \in Issue /\ pass'.pc = "recordSpawned"
    BY <1>SpawnWorker, <1>L, GoesTo DEF SpawnWorker, At, Types
  <2>2. OwnerAgrees(pass.cur) BY <2>1 DEF Agreed, With
  <2>3. \A i \in Issue : i # pass.cur => hist'[i] = hist[i]
    BY <1>SpawnWorker DEF SpawnWorker, Types
  <2> QED BY <1>N, <2>1, <2>2, <2>3 DEF Agreed, OwnerDecides, With
<1>SpawnFails. CASE SpawnFails BY <1>SpawnFails, <1>A, <1>L, GoesTo, GoesOn DEF SpawnFails
<1>FailNote. CASE FailNote
  <2>1. \A i \in Issue : hist'[i].spawns = hist[i].spawns
    BY <1>FailNote DEF FailNote, Types, HistType
  <2> QED BY <1>FailNote, <1>A, <1>L, <2>1, GoesTo DEF FailNote
<1>FailMark. CASE FailMark BY <1>FailMark, <1>A, <1>L, GoesTo, GoesOn DEF FailMark
<1>RecordSeen. CASE RecordSeen BY <1>RecordSeen, <1>A, <1>L, GoesTo DEF RecordSeen
<1>RecordSpawned. CASE RecordSpawned
  <2>1. \A i \in Issue : hist'[i].spawns = hist[i].spawns
    BY <1>RecordSpawned DEF RecordSpawned, Types, HistType
  <2> QED BY <1>RecordSpawned, <1>A, <1>L, <2>1, GoesTo DEF RecordSpawned
<1>PublishNew. CASE PublishNew
  <2>1. \A i \in Issue : hist'[i].spawns = hist[i].spawns
    BY <1>PublishNew DEF PublishNew, Types, HistType
  <2> QED BY <1>PublishNew, <1>A, <1>L, <2>1, GoesOn DEF PublishNew
<1>StartComments. CASE StartComments BY <1>StartComments, <1>A DEF StartComments, IdlePass, Types, PassType
<1>FetchComments. CASE FetchComments BY <1>FetchComments, <1>A DEF FetchComments, At, Types, PassType
<1>FetchCommentsFails. CASE FetchCommentsFails BY <1>FetchCommentsFails, <1>A DEF FetchCommentsFails, At, Types, PassType
<1>SaveCursor. CASE SaveCursor BY <1>SaveCursor, <1>A, <1>L, GoesTo DEF SaveCursor
<1>SendComments. CASE SendComments
  <2>1. \A i \in Issue : hist'[i].spawns = hist[i].spawns
    BY <1>SendComments DEF SendComments, Types, HistType
  <2> QED BY <1>SendComments, <1>A, <1>L, <2>1 DEF SendComments, Types, PassType
<1>StartClosed. CASE StartClosed BY <1>StartClosed, <1>A DEF StartClosed, IdlePass, Types, PassType
<1>CheckClosed. CASE CheckClosed BY <1>CheckClosed, <1>A DEF CheckClosed, At, Types, PassType
<1>CheckClosedFails. CASE CheckClosedFails BY <1>CheckClosedFails, <1>A DEF CheckClosedFails, At, Types, PassType
<1>EndPass. CASE EndPass BY <1>EndPass, <1>A DEF EndPass, IdlePass, Types, PassType
<1>Edit. CASE Edit BY <1>Edit, <1>A DEF Edit, Types, PassType
<1>Comment. CASE Comment BY <1>Comment, <1>A DEF Comment, Types, PassType
<1>WorkerEnds. CASE WorkerEnds BY <1>WorkerEnds, <1>A DEF WorkerEnds, Types, PassType
<1>SpawnedElsewhere. CASE SpawnedElsewhere
  <2>1. \A i \in Issue : hist'[i].spawns = hist[i].spawns
    BY <1>SpawnedElsewhere DEF SpawnedElsewhere, Types, HistType
  <2> QED BY <1>SpawnedElsewhere, <1>A, <1>L, <2>1 DEF SpawnedElsewhere, Types, PassType
<1>MergedElsewhere. CASE MergedElsewhere BY <1>MergedElsewhere, <1>A DEF MergedElsewhere, Types, PassType
<1>Crash. CASE Crash BY <1>Crash, <1>A DEF Crash, IdlePass, Types, PassType
<1>Stutter. CASE UNCHANGED vars BY <1>Stutter, <1>A DEF vars
<1> QED BY <1>ListIssues, <1>ListFails, <1>TakeIssue, <1>ResetDiscarded,
       <1>ResetNote, <1>CheckApproval, <1>CheckApprovalFails, <1>Hold,
       <1>HoldNote, <1>HoldRecord, <1>Unlabel, <1>SpawnWorker, <1>SpawnFails,
       <1>FailNote, <1>FailMark, <1>RecordSeen, <1>RecordSpawned, <1>PublishNew,
       <1>StartComments, <1>FetchComments, <1>FetchCommentsFails, <1>SaveCursor,
       <1>SendComments, <1>StartClosed, <1>CheckClosed, <1>CheckClosedFails,
       <1>EndPass, <1>Edit, <1>Comment, <1>WorkerEnds, <1>SpawnedElsewhere,
       <1>MergedElsewhere, <1>Crash, <1>Stutter DEF Next, Watcher, Environment

-----------------------------------------------------------------------------
(* What the actions do to the entries, the history and the pass.               *)

Was(pc) == pass.pc = pc /\ pass.cur \in Issue
To(pcs) == pass'.pc \in pcs /\ pass'.cur = pass.cur /\ pass'.entry = pass.entry
On == pass'.pc = "next" /\ pass'.cur = NoIssue

(* Only entry i changes.                                                       *)
Only(i, status, noted) ==
    /\ seen'[i].status = status /\ (seen'[i].noted <=> noted)
    /\ \A j \in Issue : j # i => seen'[j] = seen[j]

LEMMA Took ==
    ASSUME Types, TakeIssue
    PROVE  /\ UNCHANGED <<seen, hist, budget>> /\ pass.pc = "next"
           /\ \/ On
              \/ \E i \in Issue :
                    /\ pass'.cur = i /\ pass'.entry = seen[i]
                    /\ pass'.pc \in {"reset", "gate", "recordSeen"}
                    /\ pass'.pc = "recordSeen" => seen[i].status = "none"
<1>1. PICK i \in pass.todo :
        pass' = [pass EXCEPT !.todo = @ \ {i}, !.pc = Route(i, seen[i]),
                    !.cur = IF Route(i, seen[i]) = "next" THEN NoIssue ELSE i,
                    !.entry = IF Route(i, seen[i]) = "next" THEN Unknown ELSE seen[i]]
  BY DEF TakeIssue
<1>2. i \in Issue BY DEF Types, PassType
<1>3. /\ pass'.pc = Route(i, seen[i])
      /\ pass'.cur = IF Route(i, seen[i]) = "next" THEN NoIssue ELSE i
      /\ pass'.entry = IF Route(i, seen[i]) = "next" THEN Unknown ELSE seen[i]
  BY <1>1 DEF Types, PassType
<1>4. /\ Route(i, seen[i]) \in {"next", "reset", "gate", "recordSeen"}
      /\ Route(i, seen[i]) = "recordSeen" => seen[i].status = "none"
  BY DEF Route
<1>5. UNCHANGED <<seen, hist, budget>> /\ pass.pc = "next" BY DEF TakeIssue, At
<1> QED BY <1>2, <1>3, <1>4, <1>5 DEF On

LEMMA Decided ==
    ASSUME Types
    PROVE  /\ CheckApproval =>
                Was("gate") /\ (On \/ To({"hold", "unlabel", "spawn"})) /\ UNCHANGED <<seen, hist, budget>>
           /\ CheckApprovalFails =>
                Was("gate") /\ (On \/ To({"hold"})) /\ UNCHANGED <<seen, hist>>
                /\ budget'.crashes = budget.crashes
           /\ Hold =>
                Was("hold") /\ To({"holdNote"}) /\ UNCHANGED <<seen, hist>>
                /\ budget'.crashes = budget.crashes
           /\ HoldNote => Was("holdNote") /\ To({"holdRecord"}) /\ UNCHANGED <<seen, hist, budget>>
           /\ Unlabel =>
                Was("unlabel") /\ To({"spawn"}) /\ UNCHANGED <<seen, hist>>
                /\ budget'.crashes = budget.crashes
           /\ SpawnFails =>
                /\ Was("spawn") /\ UNCHANGED <<seen, hist>> /\ budget'.crashes = budget.crashes
                /\ On \/ (To({"failNote"}) /\ (pass.entry.status = "none" \/ ~pass.entry.noted))
<1>L. Label = {"idle", "next", "reset", "resetNote", "gate", "hold", "holdNote", "holdRecord",
               "unlabel", "spawn", "failNote", "failMark", "recordSeen", "recordSpawned",
               "publish", "comments", "saveCursor", "sendComments", "closed"}
  BY DEF Label
<1>1. CheckApproval =>
        Was("gate") /\ (On \/ To({"hold", "unlabel", "spawn"})) /\ UNCHANGED <<seen, hist, budget>>
  BY <1>L, GoesTo, GoesOn DEF CheckApproval, AfterGate, At, Types, Was, To, On
<1>2. CheckApprovalFails =>
        Was("gate") /\ (On \/ To({"hold"})) /\ UNCHANGED <<seen, hist>> /\ budget'.crashes = budget.crashes
  BY <1>L, GoesTo, GoesOn, Spends DEF CheckApprovalFails, CallFails, AfterGate, At, Types, Was, To, On
<1>3. Hold =>
        Was("hold") /\ To({"holdNote"}) /\ UNCHANGED <<seen, hist>> /\ budget'.crashes = budget.crashes
  BY <1>L, GoesTo, Labels DEF Hold, At, Types, Was, To
<1>4. HoldNote => Was("holdNote") /\ To({"holdRecord"}) /\ UNCHANGED <<seen, hist, budget>>
  BY <1>L, GoesTo DEF HoldNote, At, Types, Was, To
<1>5. Unlabel =>
        Was("unlabel") /\ To({"spawn"}) /\ UNCHANGED <<seen, hist>> /\ budget'.crashes = budget.crashes
  BY <1>L, GoesTo, Labels DEF Unlabel, At, Types, Was, To
<1>6. SpawnFails =>
        /\ Was("spawn") /\ UNCHANGED <<seen, hist>> /\ budget'.crashes = budget.crashes
        /\ On \/ (To({"failNote"}) /\ (pass.entry.status = "none" \/ ~pass.entry.noted))
  BY <1>L, GoesTo, GoesOn, Spends DEF SpawnFails, CallFails, At, Types, Was, To, On
<1> QED BY <1>1, <1>2, <1>3, <1>4, <1>5, <1>6

LEMMA Written ==
    ASSUME Types
    PROVE  /\ ResetDiscarded =>
                /\ Was("reset") /\ To({"resetNote"}) /\ UNCHANGED <<hist, budget>>
                /\ Only(pass.cur, "seen", seen[pass.cur].noted)
           /\ HoldRecord =>
                /\ Was("holdRecord") /\ UNCHANGED <<hist, budget>>
                /\ Only(pass.cur, "awaiting-approval", seen[pass.cur].noted)
                /\ IF pass.entry.status = "none" THEN To({"publish"}) ELSE On
           /\ FailMark =>
                /\ Was("failMark") /\ UNCHANGED <<hist, budget>>
                /\ Only(pass.cur, seen[pass.cur].status, seen[pass.cur].status # "none")
                /\ IF pass.entry.status = "none" THEN To({"recordSeen"}) ELSE On
           /\ RecordSeen =>
                /\ Was("recordSeen") /\ To({"publish"}) /\ UNCHANGED <<hist, budget>>
                /\ Only(pass.cur, "seen", seen[pass.cur].noted)
           /\ RecordSpawned =>
                /\ Was("recordSpawned") /\ To({"publish"}) /\ UNCHANGED budget
                /\ Only(pass.cur, "spawned", FALSE)
<1>L. Label = {"idle", "next", "reset", "resetNote", "gate", "hold", "holdNote", "holdRecord",
               "unlabel", "spawn", "failNote", "failMark", "recordSeen", "recordSpawned",
               "publish", "comments", "saveCursor", "sendComments", "closed"}
  BY DEF Label
<1>1. ResetDiscarded =>
        /\ Was("reset") /\ To({"resetNote"}) /\ UNCHANGED <<hist, budget>>
        /\ Only(pass.cur, "seen", seen[pass.cur].noted)
  BY <1>L, GoesTo DEF ResetDiscarded, At, Types, Entry, Was, To, Only
<1>2. HoldRecord =>
        /\ Was("holdRecord") /\ UNCHANGED <<hist, budget>>
        /\ Only(pass.cur, "awaiting-approval", seen[pass.cur].noted)
        /\ IF pass.entry.status = "none" THEN To({"publish"}) ELSE On
  BY <1>L, GoesTo, GoesOn, Records DEF HoldRecord, AnnounceNew, At, Types, Was, To, On, Only
<1>3. FailMark =>
        /\ Was("failMark") /\ UNCHANGED <<hist, budget>>
        /\ Only(pass.cur, seen[pass.cur].status, seen[pass.cur].status # "none")
        /\ IF pass.entry.status = "none" THEN To({"recordSeen"}) ELSE On
  <2> SUFFICES ASSUME FailMark
               PROVE  /\ Was("failMark") /\ UNCHANGED <<hist, budget>>
                      /\ Only(pass.cur, seen[pass.cur].status, seen[pass.cur].status # "none")
                      /\ IF pass.entry.status = "none" THEN To({"recordSeen"}) ELSE On
    OBVIOUS
  <2>1. Was("failMark") /\ UNCHANGED <<hist, budget>> BY DEF FailMark, At, Types, Was
  <2>2. IF pass.entry.status = "none" THEN To({"recordSeen"}) ELSE On
    BY <1>L, GoesTo, GoesOn DEF FailMark, To, On
  <2>3. PICK b \in BOOLEAN : b = (seen[pass.cur].status # "none") OBVIOUS
  <2>4. seen' = [seen EXCEPT ![pass.cur].noted = b] BY <2>3 DEF FailMark
  <2>5. Only(pass.cur, seen[pass.cur].status, b) BY <2>1, <2>4 DEF Types, Entry, Was, Only
  <2>6. b <=> seen[pass.cur].status # "none" BY <2>3
  <2>7. Only(pass.cur, seen[pass.cur].status, seen[pass.cur].status # "none") BY <2>5, <2>6 DEF Only
  <2> QED BY <2>1, <2>2, <2>7
<1>4. RecordSeen =>
        /\ Was("recordSeen") /\ To({"publish"}) /\ UNCHANGED <<hist, budget>>
        /\ Only(pass.cur, "seen", seen[pass.cur].noted)
  BY <1>L, GoesTo, Records DEF RecordSeen, At, Types, Was, To, Only
<1>5. RecordSpawned =>
        /\ Was("recordSpawned") /\ To({"publish"}) /\ UNCHANGED budget
        /\ Only(pass.cur, "spawned", FALSE)
  BY <1>L, GoesTo, Records DEF RecordSpawned, At, Types, Was, To, Only
<1> QED BY <1>1, <1>2, <1>3, <1>4, <1>5

(* Counters of the history, apart from issue i's.                              *)
Same(i) == hist'[i].news = hist[i].news /\ hist'[i].spawns = hist[i].spawns
             /\ hist'[i].failNotes = hist[i].failNotes

LEMMA Told ==
    ASSUME Types
    PROVE  /\ SpawnWorker =>
                /\ Was("spawn") /\ To({"recordSpawned"}) /\ UNCHANGED <<seen, budget>>
                /\ \A j \in Issue : j # pass.cur => hist'[j] = hist[j]
                /\ hist'[pass.cur].spawns = hist[pass.cur].spawns + 1
                /\ hist'[pass.cur].news = hist[pass.cur].news
                /\ hist'[pass.cur].failNotes = hist[pass.cur].failNotes
                /\ hist'[pass.cur].sent = hist[pass.cur].sent
           /\ FailNote =>
                /\ Was("failNote") /\ To({"failMark"}) /\ UNCHANGED <<seen, budget>>
                /\ \A j \in Issue : j # pass.cur => hist'[j] = hist[j]
                /\ hist'[pass.cur].spawns = hist[pass.cur].spawns
                /\ hist'[pass.cur].news = hist[pass.cur].news
                /\ hist'[pass.cur].failNotes = hist[pass.cur].failNotes + 1
                /\ hist'[pass.cur].sent = hist[pass.cur].sent
           /\ PublishNew =>
                /\ Was("publish") /\ On /\ UNCHANGED <<seen, budget>>
                /\ \A j \in Issue : j # pass.cur => hist'[j] = hist[j]
                /\ hist'[pass.cur].spawns = hist[pass.cur].spawns
                /\ hist'[pass.cur].news = hist[pass.cur].news + 1
                /\ hist'[pass.cur].failNotes = hist[pass.cur].failNotes
                /\ hist'[pass.cur].sent = hist[pass.cur].sent
           /\ RecordSpawned =>
                /\ \A j \in Issue : j # pass.cur => hist'[j] = hist[j]
                /\ hist'[pass.cur].spawns = hist[pass.cur].spawns
                /\ hist'[pass.cur].news = hist[pass.cur].news
                /\ hist'[pass.cur].failNotes = 0
                /\ \A n \in 1..PageSize : hist'[pass.cur].sent[n] = 0
<1>L. Label = {"idle", "next", "reset", "resetNote", "gate", "hold", "holdNote", "holdRecord",
               "unlabel", "spawn", "failNote", "failMark", "recordSeen", "recordSpawned",
               "publish", "comments", "saveCursor", "sendComments", "closed"}
  BY DEF Label
<1>SpawnWorker. SpawnWorker =>
        /\ Was("spawn") /\ To({"recordSpawned"}) /\ UNCHANGED <<seen, budget>>
        /\ \A j \in Issue : j # pass.cur => hist'[j] = hist[j]
        /\ hist'[pass.cur].spawns = hist[pass.cur].spawns + 1
        /\ hist'[pass.cur].news = hist[pass.cur].news
        /\ hist'[pass.cur].failNotes = hist[pass.cur].failNotes
        /\ hist'[pass.cur].sent = hist[pass.cur].sent
  BY <1>L, GoesTo DEF SpawnWorker, At, Types, HistType, Was, To
<1>FailNote. FailNote =>
        /\ Was("failNote") /\ To({"failMark"}) /\ UNCHANGED <<seen, budget>>
        /\ \A j \in Issue : j # pass.cur => hist'[j] = hist[j]
        /\ hist'[pass.cur].spawns = hist[pass.cur].spawns
        /\ hist'[pass.cur].news = hist[pass.cur].news
        /\ hist'[pass.cur].failNotes = hist[pass.cur].failNotes + 1
        /\ hist'[pass.cur].sent = hist[pass.cur].sent
  BY <1>L, GoesTo DEF FailNote, At, Types, HistType, Was, To
<1>PublishNew. PublishNew =>
        /\ Was("publish") /\ On /\ UNCHANGED <<seen, budget>>
        /\ \A j \in Issue : j # pass.cur => hist'[j] = hist[j]
        /\ hist'[pass.cur].spawns = hist[pass.cur].spawns
        /\ hist'[pass.cur].news = hist[pass.cur].news + 1
        /\ hist'[pass.cur].failNotes = hist[pass.cur].failNotes
        /\ hist'[pass.cur].sent = hist[pass.cur].sent
  BY <1>L, GoesOn DEF PublishNew, At, Types, HistType, Was, On
<1>RecordSpawned. RecordSpawned =>
        /\ \A j \in Issue : j # pass.cur => hist'[j] = hist[j]
        /\ hist'[pass.cur].spawns = hist[pass.cur].spawns
        /\ hist'[pass.cur].news = hist[pass.cur].news
        /\ hist'[pass.cur].failNotes = 0
        /\ \A n \in 1..PageSize : hist'[pass.cur].sent[n] = 0
  <2> SUFFICES ASSUME RecordSpawned
               PROVE  /\ \A j \in Issue : j # pass.cur => hist'[j] = hist[j]
                      /\ hist'[pass.cur].spawns = hist[pass.cur].spawns
                      /\ hist'[pass.cur].news = hist[pass.cur].news
                      /\ hist'[pass.cur].failNotes = 0
                      /\ \A n \in 1..PageSize : hist'[pass.cur].sent[n] = 0
    OBVIOUS
  <2>1. pass.cur \in Issue BY DEF RecordSpawned, At, Types
  <2>2. hist' = [hist EXCEPT ![pass.cur].failNotes = 0, ![pass.cur].sent = Quiet.sent]
    BY DEF RecordSpawned
  <2>3. Quiet.sent = [n \in 1..PageSize |-> 0] BY DEF Quiet
  <2>4. /\ \A j \in Issue : j # pass.cur => hist'[j] = hist[j]
        /\ hist'[pass.cur].spawns = hist[pass.cur].spawns
        /\ hist'[pass.cur].news = hist[pass.cur].news
        /\ hist'[pass.cur].failNotes = 0
        /\ hist'[pass.cur].sent = Quiet.sent
    BY <2>1, <2>2 DEF Types, HistType
  <2> QED BY <2>3, <2>4
<1> QED BY <1>SpawnWorker, <1>FailNote, <1>PublishNew, <1>RecordSpawned

(* A step of which the counts know nothing.                                    *)
Counting == Deciding \cup {"recordSpawned", "publish"}
Soft ==
    /\ \A i \in Issue : /\ seen'[i].status = "none" <=> seen[i].status = "none"
                        /\ seen'[i].noted <=> seen[i].noted
                        /\ Same(i)
    /\ budget'.crashes = budget.crashes
    /\ UNCHANGED pass \/ (pass.pc \notin Counting /\ pass'.pc \notin Counting)

LEMMA SoftSteps ==
    ASSUME Types, Known,
           \/ ListIssues \/ ListFails \/ ResetNote \/ StartComments \/ FetchComments
           \/ FetchCommentsFails \/ SaveCursor \/ SendComments \/ StartClosed \/ CheckClosed
           \/ CheckClosedFails \/ EndPass \/ Edit \/ Comment \/ WorkerEnds
           \/ SpawnedElsewhere \/ MergedElsewhere \/ UNCHANGED vars
    PROVE  Soft
<1>L. Label = {"idle", "next", "reset", "resetNote", "gate", "hold", "holdNote", "holdRecord",
               "unlabel", "spawn", "failNote", "failMark", "recordSeen", "recordSpawned",
               "publish", "comments", "saveCursor", "sendComments", "closed"}
  BY DEF Label
<1>C. Counting = {"gate", "hold", "holdNote", "holdRecord", "unlabel", "spawn", "failNote",
                 "failMark", "recordSeen", "recordSpawned", "publish"}
  BY DEF Counting, Deciding
<1>U. UNCHANGED <<seen, hist>> =>
        \A i \in Issue : /\ seen'[i].status = "none" <=> seen[i].status = "none"
                         /\ seen'[i].noted <=> seen[i].noted
                         /\ Same(i)
  BY DEF Same
<1>ListIssues. CASE ListIssues BY <1>ListIssues, <1>C, <1>U DEF ListIssues, Types, Soft, At, IdlePass
<1>ListFails. CASE ListFails BY <1>ListFails, <1>C, <1>U, <1>L, Spends DEF ListFails, Types, Soft, CallFails
<1>ResetNote. CASE ResetNote BY <1>ResetNote, <1>C, <1>U, <1>L, GoesOn DEF ResetNote, Types, Soft, At
<1>StartComments. CASE StartComments BY <1>StartComments, <1>C, <1>U DEF StartComments, Types, Soft, At, IdlePass
<1>FetchCommentsFails. CASE FetchCommentsFails BY <1>FetchCommentsFails, <1>C, <1>U, <1>L, Spends DEF FetchCommentsFails, Types, Soft, CallFails, At, PassType
<1>StartClosed. CASE StartClosed BY <1>StartClosed, <1>C, <1>U DEF StartClosed, Types, Soft, At, IdlePass
<1>CheckClosedFails. CASE CheckClosedFails BY <1>CheckClosedFails, <1>C, <1>U, <1>L, Spends DEF CheckClosedFails, Types, Soft, CallFails, At, PassType
<1>EndPass. CASE EndPass BY <1>EndPass, <1>C, <1>U DEF EndPass, Types, Soft, At, IdlePass
<1>Edit. CASE Edit BY <1>Edit, <1>C, <1>U, <1>L, Spends DEF Edit, Types, Soft
<1>Comment. CASE Comment BY <1>Comment, <1>C, <1>U, <1>L, Spends DEF Comment, Types, Soft
<1>WorkerEnds. CASE WorkerEnds BY <1>WorkerEnds, <1>C, <1>U DEF WorkerEnds, Types, Soft
<1>FetchComments. CASE FetchComments
  <2>1. pass'.pc \in {"comments", "saveCursor"} /\ pass.pc = "comments"
    BY <1>FetchComments DEF FetchComments, At, Types, PassType
  <2> QED BY <1>FetchComments, <1>C, <1>U, <2>1 DEF FetchComments, Soft
<1>SaveCursor. CASE SaveCursor
  <2>1. \A i \in Issue : seen'[i].status = seen[i].status /\ seen'[i].noted = seen[i].noted
    BY <1>SaveCursor DEF SaveCursor, At, Types, Entry
  <2> QED BY <1>SaveCursor, <1>C, <1>L, <2>1, GoesTo DEF SaveCursor, At, Soft, Same
<1>SendComments. CASE SendComments
  <2>1. \A i \in Issue : Same(i) BY <1>SendComments DEF SendComments, At, Types, HistType, Same
  <2>2. pass'.pc = "comments" /\ pass.pc = "sendComments"
    BY <1>SendComments DEF SendComments, At, Types, PassType
  <2> QED BY <1>SendComments, <1>C, <2>1, <2>2 DEF SendComments, Soft
<1>CheckClosed. CASE CheckClosed
  <2>1. pass'.pc = "closed" /\ pass.pc = "closed"
    BY <1>CheckClosed DEF CheckClosed, At, Types, PassType
  <2>2. PICK i \in pass.todo : seen' = IF forge[i].open THEN seen ELSE [seen EXCEPT ![i].status = "closed"]
    BY <1>CheckClosed DEF CheckClosed
  <2>3. seen[i].status # "none" BY <1>CheckClosed DEF CheckClosed, At, Known, Walking
  <2>4. \A j \in Issue : /\ seen'[j].status = "none" <=> seen[j].status = "none"
                         /\ seen'[j].noted <=> seen[j].noted
    BY <2>2, <2>3 DEF Types, Entry
  <2> QED BY <1>CheckClosed, <1>C, <2>1, <2>4 DEF CheckClosed, Soft, Same
<1>SpawnedElsewhere. CASE SpawnedElsewhere
  <2>1. \A i \in Issue : Same(i) BY <1>SpawnedElsewhere DEF SpawnedElsewhere, Types, HistType, Same
  <2> QED BY <1>SpawnedElsewhere, <2>1, Spends DEF SpawnedElsewhere, Soft
<1>MergedElsewhere. CASE MergedElsewhere
  <2>1. \A j \in Issue : /\ seen'[j].status = "none" <=> seen[j].status = "none"
                         /\ seen'[j].noted <=> seen[j].noted
    BY <1>MergedElsewhere DEF MergedElsewhere, Types, Entry
  <2> QED BY <1>MergedElsewhere, <2>1 DEF MergedElsewhere, Soft, Same
<1>Stutter. CASE UNCHANGED vars BY <1>Stutter, <1>U DEF vars, Soft
<1> QED BY <1>ListIssues, <1>ListFails, <1>ResetNote, <1>StartComments,
       <1>FetchComments, <1>FetchCommentsFails, <1>SaveCursor, <1>SendComments,
       <1>StartClosed, <1>CheckClosed, <1>CheckClosedFails, <1>EndPass, <1>Edit,
       <1>Comment, <1>WorkerEnds, <1>SpawnedElsewhere, <1>MergedElsewhere,
       <1>Stutter

LEMMA Crashed ==
    ASSUME Types, Crash
    PROVE  /\ UNCHANGED <<seen, hist>> /\ pass'.pc = "idle"
           /\ budget'.crashes = budget.crashes + 1
BY Spends DEF Crash, IdlePass

(* Every step is one of these.                                                 *)
LEMMA Steps ==
    ASSUME Types, Known, [Next]_vars
    PROVE  \/ Soft \/ Crash \/ TakeIssue
           \/ CheckApproval \/ CheckApprovalFails \/ Hold \/ HoldNote \/ Unlabel \/ SpawnFails
           \/ ResetDiscarded \/ HoldRecord \/ FailMark \/ RecordSeen \/ RecordSpawned
           \/ SpawnWorker \/ FailNote \/ PublishNew
BY SoftSteps DEF Next, Watcher, Environment

-----------------------------------------------------------------------------
(* What is followed, the copy and the counts.                                  *)

(* An entry is for ever.                                                       *)
LEMMA EntriesStay ==
    ASSUME Types, Known, [Next]_vars
    PROVE  \A i \in Issue : seen[i].status # "none" => seen'[i].status # "none"
<1>1. CASE Soft BY <1>1 DEF Soft
<1>2. CASE Crash BY <1>2 DEF Crash
<1>3. CASE TakeIssue BY <1>3 DEF TakeIssue
<1>4. CASE CheckApproval \/ CheckApprovalFails \/ Hold \/ HoldNote \/ Unlabel \/ SpawnFails
  BY <1>4, Decided
<1>5. CASE ResetDiscarded \/ HoldRecord \/ FailMark \/ RecordSeen \/ RecordSpawned
  BY <1>5, Written DEF Only
<1>6. CASE SpawnWorker \/ FailNote \/ PublishNew BY <1>6, Told
<1> QED BY <1>1, <1>2, <1>3, <1>4, <1>5, <1>6, Steps

LEMMA StepKnown == Types /\ Known /\ [Next]_vars => Known'
<1> SUFFICES ASSUME Types, Known, [Next]_vars PROVE Known' OBVIOUS
<1>E. \A i \in Issue : seen[i].status # "none" => seen'[i].status # "none" BY EntriesStay
<1>T. pass.todo \subseteq Issue /\ pass \in PassType BY DEF Types, PassType
<1>S. \A i \in Tracked : i \in Issue /\ seen[i].status # "none" BY DEF Tracked
(* Those that were followed, or those with the status for it.                  *)
<1>W. ASSUME \/ pass'.pc \notin Walking
             \/ pass.pc \in Walking /\ pass'.todo \subseteq pass.todo
             \/ pass'.todo = Tracked
      PROVE  Known'
  BY <1>E, <1>T, <1>S, <1>W DEF Known
<1> DEFINE Off == pass'.pc \notin Walking
<1>1. CASE ListIssues \/ EndPass \/ Crash
  <2>1. ListIssues => pass'.pc = "next" BY DEF ListIssues, IdlePass
  <2>2. EndPass \/ Crash => pass'.pc = "idle" BY DEF EndPass, Crash, IdlePass
  <2> QED BY <1>1, <1>W, <2>1, <2>2 DEF Walking
<1>2. CASE UNCHANGED pass BY <1>2, <1>W DEF Known
<1>3. CASE TakeIssue BY <1>3, <1>W, Took DEF On, Walking
<1>4. CASE CheckApproval \/ CheckApprovalFails \/ Hold \/ HoldNote \/ Unlabel \/ SpawnFails
  BY <1>4, <1>W, Decided DEF To, On, Walking
<1>5. CASE ResetDiscarded \/ HoldRecord \/ FailMark \/ RecordSeen \/ RecordSpawned
  BY <1>5, <1>W, Written DEF To, On, Walking
<1>6. CASE SpawnWorker \/ FailNote \/ PublishNew BY <1>6, <1>W, Told DEF To, On, Walking
<1>7. CASE ResetNote BY <1>7, <1>W, GoesOn DEF ResetNote, Walking
<1>8. CASE StartComments \/ StartClosed BY <1>8, <1>W DEF StartComments, StartClosed, IdlePass
<1>9. CASE FetchComments \/ FetchCommentsFails
  <2>1. pass'.todo \subseteq pass.todo /\ pass.pc = "comments"
    BY <1>9, <1>T, ZenonT(40) DEF FetchComments, FetchCommentsFails, At, PassType
  <2> QED BY <1>W, <2>1 DEF Walking
<1>10. CASE SaveCursor
  <2>1. pass'.todo = pass.todo /\ pass.pc = "saveCursor"
    BY <1>10, GoesTo DEF SaveCursor, At, Label
  <2> QED BY <1>W, <2>1 DEF Walking
<1>11. CASE SendComments \/ CheckClosed \/ CheckClosedFails
  <2>1. pass'.todo \subseteq pass.todo /\ pass.pc \in {"sendComments", "closed"}
    BY <1>11, <1>T DEF SendComments, CheckClosed, CheckClosedFails, At, PassType
  <2> QED BY <1>W, <2>1 DEF Walking
<1>12. CASE ListFails \/ Edit \/ Comment \/ WorkerEnds \/ SpawnedElsewhere \/ MergedElsewhere
  BY <1>12, <1>2 DEF ListFails, Edit, Comment, WorkerEnds, SpawnedElsewhere, MergedElsewhere
<1>13. CASE UNCHANGED vars BY <1>2, <1>13 DEF vars
<1> QED BY <1>1, <1>3, <1>4, <1>5, <1>6, <1>7, <1>8, <1>9, <1>10, <1>11, <1>12, <1>13
       DEF Next, Watcher, Environment

LEMMA StepCopy == Types /\ Known /\ CopyIsTrue /\ [Next]_vars => CopyIsTrue'
<1> SUFFICES ASSUME Types, Known, CopyIsTrue, [Next]_vars PROVE CopyIsTrue' OBVIOUS
<1>C. Counting = {"gate", "hold", "holdNote", "holdRecord", "unlabel", "spawn", "failNote",
                 "failMark", "recordSeen", "recordSpawned", "publish"}
  BY DEF Counting, Deciding
<1>1. CASE Soft BY <1>1, <1>C DEF Soft, CopyIsTrue, With, Deciding
<1>2. CASE Crash BY <1>2, Crashed DEF CopyIsTrue, With, Deciding
<1>3. CASE TakeIssue BY <1>3, Took DEF On, CopyIsTrue, With, Deciding
<1>4. CASE CheckApproval \/ CheckApprovalFails \/ Hold \/ HoldNote \/ Unlabel \/ SpawnFails
  BY <1>4, Decided DEF Was, To, On, CopyIsTrue, With, Deciding
<1>5. CASE ResetDiscarded \/ HoldRecord \/ FailMark \/ RecordSeen \/ RecordSpawned
  BY <1>5, Written DEF Was, To, On, Only, CopyIsTrue, With, Deciding
<1>6. CASE SpawnWorker \/ FailNote \/ PublishNew
  BY <1>6, Told DEF Was, To, On, CopyIsTrue, With, Deciding
<1> QED BY <1>1, <1>2, <1>3, <1>4, <1>5, <1>6, Steps

LEMMA Numbers ==
    ASSUME Types
    PROVE  /\ \A i \in Issue : hist[i].news \in Nat /\ hist[i].spawns \in Nat /\ hist[i].failNotes \in Nat
           /\ budget.crashes \in Nat
BY DEF Types, HistType, BudgetType

LEMMA StepNews ==
    Types /\ Known /\ CopyIsTrue /\ NewsCounted /\ [Next]_vars => NewsCounted'
<1> SUFFICES ASSUME Types, Known, CopyIsTrue, NewsCounted, [Next]_vars, NEW i \in Issue
             PROVE  hist'[i].news + Bit(With(i, {"recordSpawned", "publish"})')
                      <= hist'[i].spawns + Has(i)'
  BY DEF NewsCounted
<1>C. Counting = {"gate", "hold", "holdNote", "holdRecord", "unlabel", "spawn", "failNote",
                 "failMark", "recordSeen", "recordSpawned", "publish"}
  BY DEF Counting, Deciding
<1>N. /\ hist[i].news \in Nat /\ hist[i].spawns \in Nat
      /\ hist[i].news + Bit(With(i, {"recordSpawned", "publish"})) <= hist[i].spawns + Has(i)
  BY Numbers DEF NewsCounted
<1>1. CASE Soft BY <1>1, <1>C, <1>N DEF Soft, Same, With, Has, Bit
<1>2. CASE Crash BY <1>2, <1>N, Crashed DEF With, Has, Bit
<1>3. CASE TakeIssue BY <1>3, <1>N, Took DEF On, With, Has, Bit
<1>4. CASE CheckApproval \/ CheckApprovalFails \/ Hold \/ HoldNote \/ Unlabel \/ SpawnFails
  BY <1>4, <1>N, Decided DEF Was, To, On, With, Has, Bit
<1>5. CASE ResetDiscarded \/ FailMark BY <1>5, <1>N, Written DEF Was, To, On, Only, With, Has, Bit
<1>6. CASE HoldRecord \/ RecordSeen
  <2>1. pass.cur = i /\ pass.entry.status = "none" => seen[i].status = "none"
    BY <1>6, Written DEF CopyIsTrue, With, Deciding, Was
  <2>2. RecordSeen => pass.entry.status = "none" BY Written DEF CopyIsTrue, Was
  <2> QED BY <1>6, <1>N, <2>1, <2>2, Written DEF Was, To, On, Only, With, Has, Bit
<1>7. CASE RecordSpawned BY <1>7, <1>N, Written, Told DEF Was, To, On, Only, With, Has, Bit
<1>8. CASE SpawnWorker \/ FailNote \/ PublishNew
  BY <1>8, <1>N, Told DEF Was, To, On, With, Has, Bit
<1> QED BY <1>1, <1>2, <1>3, <1>4, <1>5, <1>6, <1>7, <1>8, Steps

LEMMA StepFailures ==
    Types /\ Known /\ CopyIsTrue /\ FailuresCounted /\ [Next]_vars => FailuresCounted'
<1> SUFFICES ASSUME Types, Known, CopyIsTrue, FailuresCounted, [Next]_vars, NEW i \in Issue
             PROVE  hist'[i].failNotes <= budget'.crashes + Has(i)' + Bit(seen'[i].noted)
                                            + Bit(With(i, {"failMark", "recordSeen"})')
  BY DEF FailuresCounted
<1>C. Counting = {"gate", "hold", "holdNote", "holdRecord", "unlabel", "spawn", "failNote",
                 "failMark", "recordSeen", "recordSpawned", "publish"}
  BY DEF Counting, Deciding
<1>N. /\ hist[i].failNotes \in Nat /\ budget.crashes \in Nat
      /\ hist[i].failNotes <= budget.crashes + Has(i) + Bit(seen[i].noted)
                                + Bit(With(i, {"failMark", "recordSeen"}))
  BY Numbers DEF FailuresCounted
<1>1. CASE Soft BY <1>1, <1>C, <1>N DEF Soft, Same, With, Has, Bit
<1>2. CASE Crash BY <1>2, <1>N, Crashed DEF With, Has, Bit
<1>3. CASE TakeIssue BY <1>3, <1>N, Took DEF On, With, Has, Bit
<1>4. CASE CheckApproval \/ CheckApprovalFails \/ Hold \/ HoldNote \/ Unlabel \/ SpawnFails
  BY <1>4, <1>N, Decided DEF Was, To, On, With, Has, Bit
<1>5. CASE ResetDiscarded \/ HoldRecord BY <1>5, <1>N, Written DEF Was, To, On, Only, With, Has, Bit
<1>6. CASE FailMark \/ RecordSeen
  <2>1. pass.cur = i => /\ pass.entry.status = "none" <=> seen[i].status = "none"
                        /\ pass.entry.noted <=> seen[i].noted
                        /\ seen[i].status = "none" => ~seen[i].noted
    BY <1>6, Written DEF CopyIsTrue, With, Deciding, Was
  <2>2. RecordSeen => pass.entry.status = "none" BY Written DEF CopyIsTrue, Was
  <2>3. FailMark => pass.entry.status = "none" \/ ~pass.entry.noted BY Written DEF CopyIsTrue, Was
  <2> QED BY <1>6, <1>N, <2>1, <2>2, <2>3, Written DEF Was, To, On, Only, With, Has, Bit
<1>7. CASE RecordSpawned BY <1>7, <1>N, Written, Told DEF Was, To, On, Only, With, Has, Bit
<1>8. CASE SpawnWorker \/ FailNote \/ PublishNew
  BY <1>8, <1>N, Told DEF Was, To, On, With, Has, Bit
<1> QED BY <1>1, <1>2, <1>3, <1>4, <1>5, <1>6, <1>7, <1>8, Steps

-----------------------------------------------------------------------------
(* The comments.                                                               *)

Reading == {"comments", "saveCursor", "sendComments"}

(* A step that leaves cursors and what was sent alone.                         *)
Still(i) ==
    /\ seen'[i].cursor = seen[i].cursor /\ hist'[i].sent = hist[i].sent
    /\ seen'[i].status = "spawned" => seen[i].status = "spawned"

LEMMA Same0 == \A i \in Issue : UNCHANGED <<seen, hist>> => Still(i)
BY DEF Still

(* The pass is not among the comments, or was where it is.                     *)
LEMMA Apart ==
    ASSUME Types, Unread, CommentOnce,
           \A i \in Issue : Still(i) \/ (\A n \in 1..PageSize : hist'[i].sent[n] = 0)
                                   \/ (seen'[i].status # "spawned" /\ hist'[i].sent = hist[i].sent),
           \/ pass'.pc \notin Reading
           \/ UNCHANGED pass /\ \A i \in Issue : Still(i)
    PROVE  Unread' /\ CommentOnce'
<1>1. \A i \in Issue : \A n \in 1..PageSize : hist'[i].sent[n] = hist[i].sent[n] \/ hist'[i].sent[n] = 0
  BY DEF Still
<1>2. CommentOnce' BY <1>1 DEF CommentOnce
<1>3. \A i \in Issue : seen'[i].status = "spawned" => Unsent(i)'
  BY DEF Unread, Unsent, Still
<1>4. CASE pass'.pc \notin Reading BY <1>2, <1>3, <1>4 DEF Unread, With, Reading
<1>5. CASE UNCHANGED pass /\ \A i \in Issue : Still(i)
  <2>1. \A i \in Issue : Unsent(i) => Unsent(i)' BY <1>5 DEF Unsent, Still
  <2>2. pass.todo \subseteq Issue /\ (pass.pc \in {"saveCursor", "sendComments"} => pass.cur \in Issue)
    BY DEF Types, PassType
  <2>3. pass'.pc \in Reading => \A i \in pass'.todo : Unsent(i)'
    BY <1>5, <2>1, <2>2 DEF Unread, Reading
  <2>4. pass'.pc \in {"saveCursor", "sendComments"} => pass'.cur \notin pass'.todo
    BY <1>5 DEF Unread
  <2>5. pass'.pc = "saveCursor" =>
          Unsent(pass.cur)' /\ \A n \in pass'.batch : n > seen'[pass'.cur].cursor
    BY <1>5, <2>1, <2>2 DEF Unread, Still
  <2>6. pass'.pc = "sendComments" => \A n \in pass'.batch : n <= seen'[pass'.cur].cursor
    BY <1>5, <2>2 DEF Unread, Still
  <2>7. \A i \in Issue : With(i, {"saveCursor", "sendComments"})' =>
          \A n \in pass'.batch : hist'[i].sent[n] = 0
    BY <1>5 DEF Unread, Still, With
  <2> QED BY <1>2, <1>3, <1>5, <2>3, <2>4, <2>5, <2>6, <2>7 DEF Unread, Reading
<1> QED BY <1>4, <1>5

LEMMA StepUnread ==
    Types /\ Unread /\ CommentOnce /\ [Next]_vars => Unread' /\ CommentOnce'
<1> SUFFICES ASSUME Types, Unread, CommentOnce, [Next]_vars PROVE Unread' /\ CommentOnce' OBVIOUS
<1>T. /\ pass \in PassType /\ pass.todo \subseteq Issue /\ pass.batch \subseteq 1..PageSize
      /\ hist \in [Issue -> HistType] /\ seen \in [Issue -> Entry]
  BY DEF Types, PassType
<1>U. ASSUME UNCHANGED <<seen, hist>>, pass'.pc \notin Reading \/ UNCHANGED pass
      PROVE  Unread' /\ CommentOnce'
  BY <1>U, Apart, Same0
<1>1. CASE ListIssues \/ EndPass \/ Crash \/ StartClosed
  <2>1a. ListIssues => pass'.pc = "next" BY DEF ListIssues, IdlePass
  <2>1b. EndPass \/ Crash => pass'.pc = "idle" BY DEF EndPass, Crash, IdlePass
  <2>1c. StartClosed => pass'.pc = "closed" BY DEF StartClosed, IdlePass
  <2>1. pass'.pc \in {"idle", "next", "closed"} BY <1>1, <2>1a, <2>1b, <2>1c
  <2>2. UNCHANGED <<seen, hist>> BY <1>1 DEF ListIssues, EndPass, Crash, StartClosed
  <2> QED BY <1>U, <2>1, <2>2 DEF Reading
<1>2. CASE ListFails \/ Edit \/ Comment \/ WorkerEnds
  BY <1>2, <1>U DEF ListFails, Edit, Comment, WorkerEnds
<1>3. CASE TakeIssue BY <1>3, <1>U, Took DEF On, Reading
<1>4. CASE CheckApproval \/ CheckApprovalFails \/ Hold \/ HoldNote \/ Unlabel \/ SpawnFails
  BY <1>4, <1>U, Decided DEF To, On, Reading
<1>5. CASE ResetNote BY <1>5, <1>U, GoesOn DEF ResetNote, Reading
<1>6. CASE ResetDiscarded \/ FailMark
  <2>1. \A i \in Issue : seen'[i].cursor = seen[i].cursor
    BY <1>6, <1>T DEF ResetDiscarded, FailMark, Entry
  <2>2. \A i \in Issue : seen'[i].status = "spawned" => seen[i].status = "spawned"
    BY <1>6, Written DEF Only, Was
  <2>3. pass'.pc \notin Reading /\ UNCHANGED hist BY <1>6, Written DEF To, On, Reading
  <2> QED BY <2>1, <2>2, <2>3, Apart DEF Still
<1>7. CASE HoldRecord \/ RecordSeen
  <2>1. pass'.pc \notin Reading /\ UNCHANGED hist BY <1>7, Written DEF To, On, Reading
  <2>2. pass.cur \in Issue /\ \/ Record(pass.cur, "seen")
                                \/ Record(pass.cur, "awaiting-approval")
    BY <1>7, Written DEF HoldRecord, RecordSeen, Was
  <2>3. /\ seen'[pass.cur].status # "spawned"
        /\ \A j \in Issue : j # pass.cur => seen'[j] = seen[j]
    BY <2>2, Records
  <2> QED BY <2>1, <2>3, Apart DEF Still
<1>8. CASE RecordSpawned
  <2>1. pass'.pc \notin Reading BY <1>8, Written DEF To, Reading
  <2>2. pass.cur \in Issue /\ Record(pass.cur, "spawned") BY <1>8, Written DEF RecordSpawned, Was
  <2>3. \A j \in Issue : j # pass.cur => seen'[j] = seen[j] BY <2>2, Records
  <2>4. /\ \A j \in Issue : j # pass.cur => hist'[j] = hist[j]
        /\ \A n \in 1..PageSize : hist'[pass.cur].sent[n] = 0
    BY <1>8, Told
  <2> QED BY <2>1, <2>3, <2>4, Apart DEF Still
<1>9. CASE SpawnWorker \/ FailNote \/ PublishNew
  <2>1. UNCHANGED seen /\ pass'.pc \notin Reading BY <1>9, Told DEF To, On, Reading
  <2>2. \A i \in Issue : hist'[i].sent = hist[i].sent BY <1>9, Told
  <2> QED BY <2>1, <2>2, Apart DEF Still
<1>10. CASE SpawnedElsewhere
  <2>1. \A i \in Issue : hist'[i].sent = hist[i].sent BY <1>10, <1>T DEF SpawnedElsewhere, HistType
  <2> QED BY <1>10, <2>1, Apart DEF SpawnedElsewhere, Still
<1>11. CASE MergedElsewhere
  <2>1. \A i \in Issue : seen'[i].cursor = seen[i].cursor
                         /\ (seen'[i].status = "spawned" => seen[i].status = "spawned")
    BY <1>11, <1>T DEF MergedElsewhere, Entry
  <2> QED BY <1>11, <2>1, Apart DEF MergedElsewhere, Still
<1>12. CASE CheckClosed \/ CheckClosedFails
  <2>1. pass'.pc = "closed" /\ UNCHANGED hist
    BY <1>12, <1>T DEF CheckClosed, CheckClosedFails, At, PassType
  <2>2. PICK i \in Issue : seen' \in {seen, [seen EXCEPT ![i].status = "closed"]}
    BY <1>12, <1>T DEF CheckClosed, CheckClosedFails
  <2>3. \A j \in Issue : seen'[j].cursor = seen[j].cursor
                         /\ (seen'[j].status = "spawned" => seen[j].status = "spawned")
    BY <1>T, <2>2 DEF Entry
  <2> QED BY <2>1, <2>3, Apart DEF Still, Reading
<1>13. CASE StartComments
  <2>1. UNCHANGED <<seen, hist>> /\ pass'.pc = "comments" /\ pass'.todo = Tracked
    BY <1>13 DEF StartComments, IdlePass
  <2>2. \A i \in Issue : Unsent(i) <=> Unsent(i)' BY <2>1 DEF Unsent
  <2>3. \A i \in Tracked : i \in Issue /\ Unsent(i) BY DEF Tracked, Unread
  <2> QED BY <2>1, <2>2, <2>3 DEF Unread, CommentOnce, With
<1>14. CASE FetchComments
  <2>0. UNCHANGED <<seen, hist>> /\ pass.pc = "comments" BY <1>14 DEF FetchComments, At
  <2>1. PICK i \in pass.todo :
          pass' = IF NewNotes(i) = {}
                  THEN [pass EXCEPT !.todo = @ \ {i}]
                  ELSE [pass EXCEPT !.todo = @ \ {i}, !.cur = i, !.batch = NewNotes(i),
                                    !.pc = "saveCursor"]
    BY <1>14 DEF FetchComments
  <2>2. i \in Issue /\ Unsent(i) BY <1>T, <2>0 DEF Unread
  <2>3. \A j \in Issue : Unsent(j) <=> Unsent(j)' BY <2>0 DEF Unsent
  <2>4. pass'.todo = pass.todo \ {i} /\ \A j \in pass'.todo : j \in Issue /\ Unsent(j)
    BY <1>T, <2>0, <2>1 DEF Unread, PassType
  <2>5. CASE NewNotes(i) = {}
    <3>1. pass'.pc = "comments" BY <1>T, <2>0, <2>1, <2>5 DEF PassType
    <3> QED BY <2>0, <2>3, <2>4, <3>1 DEF Unread, CommentOnce, With
  <2>6. CASE NewNotes(i) # {}
    <3>1. pass'.pc = "saveCursor" /\ pass'.cur = i /\ pass'.batch = NewNotes(i)
      BY <1>T, <2>1, <2>6 DEF PassType
    <3>2. NewNotes(i) \subseteq 1..PageSize
      <4>1. notes[i] \in Seq(Kind) /\ Len(notes[i]) <= PageSize BY <2>2 DEF Types
      <4> QED BY <4>1, BoundAssumption DEF NewNotes
    <3>3. \A n \in NewNotes(i) : n > seen[i].cursor BY DEF NewNotes
    <3>4. \A n \in NewNotes(i) : hist[i].sent[n] = 0 BY <2>2, <3>2, <3>3 DEF Unsent
    <3>5. Unsent(pass.cur)'
      BY <2>2, <2>3, <3>1 DEF Unsent
    <3> QED BY <2>0, <2>3, <2>4, <3>1, <3>3, <3>4, <3>5 DEF Unread, CommentOnce, With
  <2> QED BY <2>5, <2>6
<1>15. CASE FetchCommentsFails
  <2>0. UNCHANGED <<seen, hist>> /\ pass.pc = "comments" BY <1>15 DEF FetchCommentsFails, At
  <2>1. pass'.pc = "comments" /\ pass'.todo \subseteq pass.todo
    BY <1>15, <1>T DEF FetchCommentsFails, At, PassType
  <2>2. \A j \in Issue : Unsent(j) <=> Unsent(j)' BY <2>0 DEF Unsent
  <2> QED BY <1>T, <2>0, <2>1, <2>2 DEF Unread, CommentOnce, With
<1>16. CASE SaveCursor
  <2>0. pass.pc = "saveCursor" /\ pass.cur \in Issue /\ pass.batch # {} /\ UNCHANGED hist
    BY <1>16 DEF SaveCursor, At, Types
  <2>1. /\ pass'.pc = "sendComments" /\ pass'.cur = pass.cur /\ pass'.todo = pass.todo
        /\ pass'.batch = pass.batch
    BY <1>16, GoesTo DEF SaveCursor, Label
  <2>2. LastOf(pass.batch) \in pass.batch /\ \A n \in pass.batch : n <= LastOf(pass.batch)
    BY <1>T, <2>0, LastIsLast
  <2>3. /\ seen'[pass.cur].cursor = LastOf(pass.batch)
        /\ \A j \in Issue : /\ seen'[j].status = seen[j].status
                            /\ j # pass.cur => seen'[j].cursor = seen[j].cursor
    BY <1>16, <1>T, <2>0 DEF SaveCursor, Entry
  <2>4. Unsent(pass.cur) /\ LastOf(pass.batch) > seen[pass.cur].cursor
    BY <2>0, <2>2 DEF Unread
  <2>5. \A n \in 1..PageSize : n > LastOf(pass.batch) => hist[pass.cur].sent[n] = 0
    <3> SUFFICES ASSUME NEW n \in 1..PageSize, n > LastOf(pass.batch)
                 PROVE  hist[pass.cur].sent[n] = 0
      OBVIOUS
    <3>1. LastOf(pass.batch) \in Nat /\ n \in Nat /\ seen[pass.cur].cursor \in Nat
      BY <1>T, <2>0, <2>2, BoundAssumption DEF Entry
    <3>2. n > seen[pass.cur].cursor BY <2>4, <3>1
    <3> QED BY <2>4, <3>2 DEF Unsent
  <2>6. \A j \in Issue : Unsent(j) => Unsent(j)'
    <3> SUFFICES ASSUME NEW j \in Issue, Unsent(j) PROVE Unsent(j)' OBVIOUS
    <3>1. CASE j = pass.cur BY <2>0, <2>3, <2>5, <3>1 DEF Unsent
    <3>2. CASE j # pass.cur BY <2>0, <2>3, <3>2 DEF Unsent
    <3> QED BY <3>1, <3>2
  <2>7. \A n \in pass.batch : hist[pass.cur].sent[n] = 0 BY <2>0 DEF Unread, With
  <2>8. CommentOnce' BY <2>0 DEF CommentOnce
  <2>9. \A i \in Issue : seen'[i].status = "spawned" => Unsent(i)'
    <3> SUFFICES ASSUME NEW i \in Issue, seen'[i].status = "spawned" PROVE Unsent(i)' OBVIOUS
    <3>1. Unsent(i) BY <2>3 DEF Unread
    <3> QED BY <2>6, <3>1
  <2>10. (\A i \in pass'.todo : Unsent(i)') /\ pass'.cur \notin pass'.todo
    BY <1>T, <2>0, <2>1, <2>6 DEF Unread
  <2>11. \A n \in pass'.batch : n <= seen'[pass'.cur].cursor BY <2>1, <2>2, <2>3
  <2>12. \A i \in Issue : With(i, {"saveCursor", "sendComments"})' =>
           \A n \in pass'.batch : hist'[i].sent[n] = 0
    BY <2>0, <2>1, <2>7 DEF With
  <2> QED BY <2>1, <2>8, <2>9, <2>10, <2>11, <2>12 DEF Unread
<1>17. CASE SendComments
  <2>0. pass.pc = "sendComments" /\ pass.cur \in Issue /\ UNCHANGED seen
    BY <1>17 DEF SendComments, At, Types
  <2>1. pass'.pc = "comments" /\ pass'.todo = pass.todo
    BY <1>17, <1>T DEF SendComments, PassType
  <2>2. hist[pass.cur].sent \in [1..PageSize -> Nat] BY <1>T, <2>0 DEF HistType
  <2> DEFINE sent == [n \in DOMAIN hist[pass.cur].sent |->
                        hist[pass.cur].sent[n] + (IF n \in pass.batch THEN 1 ELSE 0)]
  <2>3. \A n \in 1..PageSize : sent[n] = hist[pass.cur].sent[n] + (IF n \in pass.batch THEN 1 ELSE 0)
    BY <2>2
  <2>4. hist' = [hist EXCEPT ![pass.cur].sent = sent] BY <1>17 DEF SendComments
  <2> HIDE DEF sent
  <2>5. hist'[pass.cur].sent = sent /\ \A j \in Issue : j # pass.cur => hist'[j] = hist[j]
    BY <1>T, <2>0, <2>4 DEF HistType
  <2>6. \A n \in pass.batch : n <= seen[pass.cur].cursor /\ hist[pass.cur].sent[n] = 0
    BY <2>0 DEF Unread, With
  <2>7. \A n \in 1..PageSize : n > seen[pass.cur].cursor => n \notin pass.batch
    <3>1. seen[pass.cur].cursor \in Nat BY <1>T, <2>0, BoundAssumption DEF Entry
    <3> QED BY <2>6, <3>1
  <2>8. \A n \in 1..PageSize : n > seen[pass.cur].cursor => sent[n] = hist[pass.cur].sent[n]
    <3>1. \A n \in 1..PageSize : hist[pass.cur].sent[n] \in Nat BY <2>2
    <3> QED BY <2>3, <2>7, <3>1
  <2>9. \A j \in Issue : Unsent(j) => Unsent(j)' BY <2>0, <2>5, <2>8 DEF Unsent
  <2>10. CommentOnce'
    <3>1. \A n \in 1..PageSize : hist[pass.cur].sent[n] <= 1 /\ hist[pass.cur].sent[n] \in Nat
      BY <2>0, <2>2 DEF CommentOnce
    <3>2. \A n \in 1..PageSize : sent[n] <= 1 BY <2>3, <2>6, <3>1
    <3> QED BY <2>0, <2>5, <3>2 DEF CommentOnce
  <2> QED BY <1>T, <2>0, <2>1, <2>9, <2>10 DEF Unread, With
<1>18. CASE UNCHANGED vars BY <1>18, <1>U DEF vars
<1> QED BY <1>1, <1>2, <1>3, <1>4, <1>5, <1>6, <1>7, <1>8, <1>9, <1>10, <1>11, <1>12, <1>13,
           <1>14, <1>15, <1>16, <1>17, <1>18 DEF Next, Watcher, Environment

-----------------------------------------------------------------------------
(* The theorems.                                                               *)

LEMMA InitInv == Init => IInv
<1> SUFFICES ASSUME Init PROVE IInv OBVIOUS
<1>1. pass = IdlePass /\ pass.pc = "idle" /\ pass.todo = {} BY DEF Init, IdlePass
<1>2. /\ \A i \in Issue : seen[i] = Unknown /\ hist[i] = Quiet
      /\ seen = [i \in Issue |-> Unknown] /\ hist = [i \in Issue |-> Quiet]
  BY DEF Init
<1>3. /\ Unknown.status = "none" /\ ~Unknown.noted
      /\ Quiet.news = 0 /\ Quiet.spawns = 0 /\ Quiet.failNotes = 0
      /\ Quiet.sent = [n \in 1..PageSize |-> 0]
  BY DEF Unknown, Quiet
<1>4. Types
  <2>1. Quiet \in HistType BY <1>3 DEF Quiet, HistType
  <2>2. forge \in [Issue -> Forge] BY DEF Init, Forge
  <2>3. notes \in [Issue -> Seq(Kind)] /\ \A i \in Issue : Len(notes[i]) <= PageSize
    <3>1. <<>> \in Seq(Kind) /\ Len(<<>>) = 0 OBVIOUS
    <3> QED BY <3>1, BoundAssumption DEF Init
  <2>4. seen \in [Issue -> Entry] BY <1>2, UnknownIsEntry
  <2>5. hist \in [Issue -> HistType] BY <1>2, <2>1
  <2>6. budget \in BudgetType BY DEF Init, BudgetType
  <2>7. ownerSet \in BOOLEAN /\ worker \in [Issue -> BOOLEAN] BY DEF Init
  <2> QED BY <1>1, <2>2, <2>3, <2>4, <2>5, <2>6, <2>7, IdleIsPass DEF Types
<1>5. budget.crashes = 0 BY DEF Init
<1>6. Known /\ Agreed /\ OwnerDecides
  BY <1>1, <1>2, <1>3 DEF Known, Walking, Agreed, With, OwnerDecides
<1>7. CopyIsTrue /\ NewsCounted /\ FailuresCounted
  BY <1>1, <1>2, <1>3, <1>5 DEF CopyIsTrue, NewsCounted, FailuresCounted, With, Deciding, Has, Bit
<1>8. Unread BY <1>1, <1>2, <1>3 DEF Unread, With
<1>9. CommentOnce
  <2>1. \A i \in Issue : \A n \in 1..PageSize : hist[i].sent[n] = 0 BY <1>2, <1>3
  <2> QED BY <2>1 DEF CommentOnce
<1> QED BY <1>4, <1>6, <1>7, <1>8, <1>9 DEF IInv

LEMMA Invariant == Spec => []IInv
<1>1. IInv /\ [Next]_vars => IInv'
  <2> SUFFICES ASSUME IInv, [Next]_vars PROVE IInv' OBVIOUS
  <2>1. Types /\ Known /\ Agreed /\ OwnerDecides /\ CopyIsTrue /\ NewsCounted
              /\ FailuresCounted /\ Unread /\ CommentOnce
    BY DEF IInv
  <2>2. Types' BY <2>1, StepTypes
  <2> QED BY <2>1, <2>2, StepKnown, StepAgreed, StepCopy, StepNews, StepFailures, StepUnread DEF IInv
<1> QED BY <1>1, InitInv, PTL DEF Spec

(* spawnIfApproved, isOwnerApproved: whatever people, workers and restarts do  *)
(* between two calls of a pass, no worker is started for an issue that the     *)
(* owner neither wrote, approved nor assigned.                                 *)
THEOREM OwnersWord == Spec => []OwnerDecides
<1>1. IInv => OwnerDecides BY DEF IInv
<1> QED BY <1>1, Invariant, PTL

(* Run, autoSpawnForIssue, forwardComments: an announcement per entry and      *)
(* spawn, two failure notes and one per restart, each comment once per spawn.  *)
THEOREM NobodyToldTwice == Spec => []GateInv
<1>1. IInv => GateInv
  <2> SUFFICES ASSUME IInv PROVE GateInv OBVIOUS
  <2>1. Types /\ NewsCounted /\ FailuresCounted /\ CommentOnce BY DEF IInv
  <2>2. TypeOK
    <3>1. \A i \in Issue : notes[i] \in Seq(Kind) /\ Len(notes[i]) <= PageSize BY <2>1 DEF Types
    <3> QED BY <2>1, <3>1 DEF TypeOK, Types, PassType
  <2>3. AnnouncedOnce
    <3> SUFFICES ASSUME NEW i \in Issue PROVE hist[i].news <= 1 + hist[i].spawns BY DEF AnnouncedOnce
    <3>1. hist[i].news \in Nat /\ hist[i].spawns \in Nat BY <2>1, Numbers
    <3> QED BY <2>1, <3>1 DEF NewsCounted, Has, Bit
  <2>4. FailureNotedTwice
    <3> SUFFICES ASSUME NEW i \in Issue PROVE hist[i].failNotes <= 2 + budget.crashes
      BY DEF FailureNotedTwice
    <3>1. hist[i].failNotes \in Nat /\ budget.crashes \in Nat BY <2>1, Numbers
    <3>2. CopyIsTrue BY DEF IInv
    <3>3. \/ Has(i) + Bit(seen[i].noted) + Bit(With(i, {"failMark", "recordSeen"})) <= 2
      <4>1. seen[i].status = "none" => ~seen[i].noted BY <3>2 DEF CopyIsTrue
      <4>2. With(i, {"failMark", "recordSeen"}) => seen[i].status = "none" \/ ~seen[i].noted
        BY <3>2 DEF CopyIsTrue, With, Deciding
      <4> QED BY <4>1, <4>2 DEF Has, Bit
    <3>4. Has(i) \in Nat /\ Bit(seen[i].noted) \in Nat /\ Bit(With(i, {"failMark", "recordSeen"})) \in Nat
      BY DEF Has, Bit
    <3> QED BY <2>1, <3>1, <3>3, <3>4 DEF FailuresCounted
  <2> QED BY <2>1, <2>2, <2>3, <2>4 DEF GateInv
<1> QED BY <1>1, Invariant, PTL
=============================================================================
