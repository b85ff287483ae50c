--------------------------- MODULE MRWatcherProofs ---------------------------
(* Proofs about MRWatcher.  The types hold for every schedule, and so does     *)
(* that an issue is closed before its entry goes.  For one Run at a time       *)
(* (OnePass): the bound of the repair loop, the gates of a merge, the reasons  *)
(* an entry leaves, and that nothing is said twice.  Each rests on an invariant*)
(* of its own, which ties the marks of an entry and what was said about it to  *)
(* the copy of the entry that the pass works with.  All but the first two read *)
(* a step by its kind (StepKinds): which marks it writes, what it says, where  *)
(* the pass goes.                                                              *)
EXTENDS MRWatcher, TLAPS

(* An entry's step is about a tracked key; commits are marked, not notes.      *)
PassOK ==
    \A p \in Pass :
        /\ pass[p].pc \notin {"idle", "next"} => pass[p].cur \in Session
        /\ pass[p].pc = "reviewMark" => pass[p].ids \subseteq Push

TypeInv == TypeOK /\ PassOK

(* A new entry is an entry ...                                                 *)
LEMMA FreshType == \A r \in BOOLEAN : Fresh(r) \in Entry
BY LimitAssumption DEF Fresh, Entry

(* ... and so is the place of a deleted one.                                   *)
LEMMA AbsentType == Absent \in Entry
BY FreshType DEF Absent, Entry

(* A goroutine between two passes.                                             *)
LEMMA IdleType == IdlePass \in PassRec
BY AbsentType DEF IdlePass, PassRec, Label

(* Store updates keep the types, whether they panic or not.                    *)
LEMMA UpdateType ==
    ASSUME NEW s \in Session, NEW e \in Entry, Update(s, e),
           watch \in [Session -> Entry], panicked \in BOOLEAN
    PROVE  watch' \in [Session -> Entry] /\ panicked' \in BOOLEAN
BY DEF Update

(* The environment's counters stay natural numbers.                            *)
LEMMA SpendType ==
    ASSUME budget \in Budget, NEW f \in {"flips", "errors", "crashes", "tracks"}, NEW m, Spend(f, m)
    PROVE  budget' \in Budget
BY DEF Spend, Budget

(* The program counter moves, the rest of the pass stays.                      *)
LEMMA GotoType ==
    ASSUME pass \in [Pass -> PassRec], NEW p \in Pass, NEW l \in Label, Goto(p, l)
    PROVE  /\ pass' \in [Pass -> PassRec]
           /\ pass'[p].pc = l /\ pass'[p].cur = pass[p].cur /\ pass'[p].ids = pass[p].ids
           /\ pass'[p].entry = pass[p].entry
           /\ \A q \in Pass \ {p} : pass'[q] = pass[q]
<1>1. [pass[p] EXCEPT !.pc = l] \in PassRec BY DEF PassRec
<1> QED BY <1>1 DEF Goto, PassRec

(* The pass leaves its entry.                                                  *)
LEMMA ContinueType ==
    ASSUME pass \in [Pass -> PassRec], NEW p \in Pass, Continue(p)
    PROVE  /\ pass' \in [Pass -> PassRec] /\ pass'[p].pc = "next"
           /\ \A q \in Pass \ {p} : pass'[q] = pass[q]
<1>1. [IdlePass EXCEPT !.pc = "next", !.todo = pass[p].todo, !.drop = pass[p].drop] \in PassRec
  BY IdleType DEF PassRec, Label
<1>2. [IdlePass EXCEPT !.pc = "next", !.todo = pass[p].todo, !.drop = pass[p].drop].pc = "next"
  BY IdleType DEF PassRec
<1> QED BY <1>1, <1>2 DEF Continue

(* The daemon starts well typed.                                               *)
LEMMA InitType == Init => TypeInv
<1> SUFFICES ASSUME Init PROVE TypeInv OBVIOUS
<1> USE LimitAssumption
<1>1. NewForge \in Forge BY DEF NewForge, Forge, Push, CI
<1>2. NewHist \in HistRec BY DEF NewHist, HistRec
<1>3. budget \in Budget BY DEF Init, Budget
<1>4. forge \in [Session -> Forge] /\ notes \in [Session -> 0..MaxNote]
  BY <1>1 DEF Init
<1>5. watch \in [Session -> Entry] /\ worker \in [Session -> {"live", "stopped", "none"}]
  BY AbsentType DEF Init
<1>6. issueClosed \in [Session -> BOOLEAN] /\ panicked \in BOOLEAN BY DEF Init
<1>7. pass \in [Pass -> PassRec] /\ hist \in [Session -> HistRec] BY <1>2, IdleType DEF Init
<1>8. TypeOK BY <1>3, <1>4, <1>5, <1>6, <1>7 DEF TypeOK
<1>9. PassOK BY DEF Init, PassOK, IdlePass
<1> QED BY <1>8, <1>9 DEF TypeInv

(* What a pass that works on an entry reads is typed.                          *)
LEMMA Access ==
    ASSUME TypeOK, NEW p \in Pass, pass[p].cur \in Session
    PROVE  /\ watch[pass[p].cur] \in Entry /\ hist[pass[p].cur] \in HistRec
           /\ forge[pass[p].cur] \in Forge /\ pass[p].entry \in Entry
           /\ pass[p] \in PassRec
BY DEF TypeOK, PassRec

(* Fields of an entry, and an entry with some of them replaced.                *)
LEMMA EntryFields ==
    ASSUME NEW e \in Entry
    PROVE  /\ e.notFound \in Nat /\ e.fails \in Nat /\ e.checks \in Nat
           /\ e.labeled \in BOOLEAN /\ e.tracked \in BOOLEAN
           /\ e.lastPipe \in 0..MaxPush
BY DEF Entry

(* An entry with a counter replaced ...                                        *)
LEMMA EntryCount ==
    ASSUME NEW e \in Entry, NEW n \in Nat
    PROVE  /\ [e EXCEPT !.notFound = n] \in Entry
           /\ [e EXCEPT !.checks = n] \in Entry
           /\ \A c \in 0..MaxPush : [e EXCEPT !.fails = n, !.lastPipe = c] \in Entry
BY DEF Entry

(* ... or one of its marks.                                                    *)
LEMMA EntryMark ==
    ASSUME NEW e \in Entry
    PROVE  /\ [e EXCEPT !.asked = TRUE] \in Entry
           /\ [e EXCEPT !.mainDone = TRUE] \in Entry
           /\ \A b \in BOOLEAN : [e EXCEPT !.post = TRUE, !.checks = 0, !.sha = b] \in Entry
           /\ \A b \in BOOLEAN, n \in Nat : [e EXCEPT !.notFound = n, !.labeled = b] \in Entry
           /\ \A c \in 0..MaxPush : [e EXCEPT !.reviewed = c] \in Entry
           /\ \A c \in 0..MaxNote : [e EXCEPT !.cursor = c] \in Entry
BY DEF Entry

(* The same for the history ...                                                *)
LEMMA HistFields ==
    ASSUME NEW h \in HistRec
    PROVE  /\ h.repairs \in Nat /\ h.asks \in Nat /\ h.misses \in Nat /\ h.finished \in BOOLEAN
           /\ h.sent \in [Push -> Nat] /\ h.fwd \in [Note -> Nat] /\ h.reviews \in [Push -> Nat]
BY DEF HistRec

(* ... with a counter replaced ...                                             *)
LEMMA HistCount ==
    ASSUME NEW h \in HistRec, NEW n \in Nat
    PROVE  /\ [h EXCEPT !.misses = n] \in HistRec
           /\ [h EXCEPT !.repairs = n] \in HistRec
           /\ [h EXCEPT !.asks = n] \in HistRec
           /\ \A f \in [Push -> Nat] : [h EXCEPT !.repairs = n, !.sent = f] \in HistRec
BY DEF HistRec

(* ... or one of its other fields.                                             *)
LEMMA HistMark ==
    ASSUME NEW h \in HistRec
    PROVE  /\ [h EXCEPT !.touched = FALSE] \in HistRec
           /\ \A f \in [Note -> Nat] : [h EXCEPT !.fwd = f] \in HistRec
           /\ \A f \in [Push -> Nat] : [h EXCEPT !.reviews = f] \in HistRec
           /\ \A m \in {"none", "gated", "raced", "ungated"} :
                [h EXCEPT !.finished = TRUE, !.merge = m] \in HistRec
           /\ \A b \in BOOLEAN : [h EXCEPT !.touched = TRUE, !.finished = b] \in HistRec
BY DEF HistRec

(* Like GotoType, with the ids of the next message.                            *)
LEMMA GotoIdsType ==
    ASSUME pass \in [Pass -> PassRec], NEW p \in Pass, NEW l \in Label,
           NEW i \in SUBSET (Push \cup Note), GotoIds(p, l, i)
    PROVE  /\ pass' \in [Pass -> PassRec]
           /\ pass'[p].pc = l /\ pass'[p].cur = pass[p].cur /\ pass'[p].ids = i
           /\ pass'[p].entry = pass[p].entry
           /\ \A q \in Pass \ {p} : pass'[q] = pass[q]
<1> DEFINE n == [pass[p] EXCEPT !.pc = l, !.ids = i]
<1>1. n \in PassRec BY DEF PassRec
<1>2. n.pc = l /\ n.cur = pass[p].cur /\ n.ids = i /\ n.entry = pass[p].entry BY DEF PassRec
<1>3. pass' = [pass EXCEPT ![p] = n] BY DEF GotoIds
<1> QED BY <1>1, <1>2, <1>3

(* Like GotoType, for the reaper.                                              *)
LEMMA GotoReapType ==
    ASSUME pass \in [Pass -> PassRec], NEW p \in Pass, NEW b \in {"next", "stamp"}, GotoReap(p, b)
    PROVE  /\ pass' \in [Pass -> PassRec]
           /\ pass'[p].pc = "reap" /\ pass'[p].cur = pass[p].cur
           /\ \A q \in Pass \ {p} : pass'[q] = pass[q]
<1> DEFINE n == [pass[p] EXCEPT !.pc = "reap", !.back = b]
<1>0. "reap" \in Label BY DEF Label
<1>1. n \in PassRec BY <1>0 DEF PassRec
<1>2. n.pc = "reap" /\ n.cur = pass[p].cur BY DEF PassRec
<1>3. pass' = [pass EXCEPT ![p] = n] BY DEF GotoReap
<1> QED BY <1>1, <1>2, <1>3

(* Like GotoType, with the state that GetPR saw.                               *)
LEMMA SeenType ==
    ASSUME pass \in [Pass -> PassRec], NEW p \in Pass, NEW l \in Label,
           NEW f \in {"opened", "merged", "closed"},
           pass' = [pass EXCEPT ![p].pc = l, ![p].seen = f]
    PROVE  /\ pass' \in [Pass -> PassRec]
           /\ pass'[p].pc = l /\ pass'[p].cur = pass[p].cur
           /\ pass'[p].entry = pass[p].entry
           /\ \A q \in Pass \ {p} : pass'[q] = pass[q]
<1> DEFINE n == [pass[p] EXCEPT !.pc = l, !.seen = f]
<1>1. n \in PassRec BY DEF PassRec
<1>2. n.pc = l /\ n.cur = pass[p].cur /\ n.entry = pass[p].entry BY DEF PassRec
<1>3. pass' = [pass EXCEPT ![p] = n] OBVIOUS
<1> QED BY <1>1, <1>2, <1>3

(* What people and pushes change of a merge request.                           *)
LEMMA ForgeUpdate ==
    ASSUME NEW f \in Forge
    PROVE  /\ [f EXCEPT !.approved = ~f.approved] \in Forge
           /\ [f EXCEPT !.draft = ~f.draft] \in Forge
           /\ [f EXCEPT !.thread = ~f.thread] \in Forge
           /\ \A m \in CI : [f EXCEPT !.state = "merged", !.main = m] \in Forge
           /\ \A m \in CI : [f EXCEPT !.main = m] \in Forge
           /\ \A st \in {"opened", "closed", "deleted"} : [f EXCEPT !.state = st] \in Forge
           /\ \A g \in [Push -> CI] : [f EXCEPT !.ci = g] \in Forge
           /\ \A g \in [Push -> CI], h \in Push : [f EXCEPT !.head = h, !.ci = g] \in Forge
BY Zenon DEF Forge

(* A step of the forge keeps the types.                                        *)
LEMMA ForgeStepType ==
    ASSUME TypeInv, NEW s \in Session, NEW f \in Forge, ForgeStep(s, f), budget' \in Budget
    PROVE  TypeInv'
<1> DEFINE b == hist[s].finished \/ f.state \in {"merged", "closed"}
<1>1. hist[s] \in HistRec BY DEF TypeInv, TypeOK
<1>2. [hist[s] EXCEPT !.touched = TRUE, !.finished = b] \in HistRec BY <1>1, HistMark
<1>3. hist' = [hist EXCEPT ![s] = [hist[s] EXCEPT !.touched = TRUE, !.finished = b]]
  BY DEF ForgeStep
<1>4. hist' \in [Session -> HistRec] BY <1>2, <1>3 DEF TypeInv, TypeOK
<1> QED BY <1>4 DEF ForgeStep, TypeInv, TypeOK, PassOK

(* Every step keeps the types.                                                 *)
LEMMA StepType == TypeInv /\ [Next]_vars => TypeInv'
<1> SUFFICES ASSUME TypeInv, [Next]_vars PROVE TypeInv' OBVIOUS
<1> USE DEF TypeInv
<1>StartPass. ASSUME NEW p \in Pass, StartPass(p) PROVE TypeInv'
  <2> DEFINE all == {s \in Session : watch[s].tracked}
             n == [IdlePass EXCEPT !.todo = all, !.pc = IF all = {} THEN "idle" ELSE "next"]
  <2>1. n \in PassRec /\ n.pc \in {"idle", "next"} BY IdleType DEF PassRec, Label
  <2> QED BY <1>StartPass, <2>1 DEF TypeOK, PassOK, StartPass
<1>EndPass. ASSUME NEW p \in Pass, EndPass(p) PROVE TypeInv'
  <2>1. IdlePass.pc = "idle" BY DEF IdlePass
  <2> QED BY <1>EndPass, <2>1, IdleType, AbsentType DEF TypeOK, PassOK, EndPass
<1>Visit. ASSUME NEW p \in Pass, NEW s \in Session, Visit(p, s) PROVE TypeInv'
  <2> DEFINE n == [IdlePass EXCEPT
                    !.pc = IF watch[s].post THEN "postMerge" ELSE "fetch",
                    !.cur = s, !.entry = watch[s], !.live = worker[s] = "live",
                    !.todo = pass[p].todo \ {s}, !.drop = pass[p].drop]
             m == [pass[p] EXCEPT !.todo = @ \ {s}]
  <2>1. n \in PassRec /\ n.cur = s /\ n.pc # "reviewMark"
    BY <1>Visit, IdleType, ZenonT(40) DEF PassRec, Label, TypeOK
  <2>2. m \in PassRec /\ m.pc = pass[p].pc /\ m.cur = pass[p].cur /\ m.ids = pass[p].ids
    BY <1>Visit, IdleType DEF PassRec, TypeOK
  <2>3. [hist[s] EXCEPT !.touched = FALSE] \in HistRec BY ZenonT(40) DEF HistRec, TypeOK
  <2>4. pass' = [pass EXCEPT ![p] = n] \/ pass' = [pass EXCEPT ![p] = m] BY <1>Visit DEF Visit
  <2>5. PassOK' BY <2>1, <2>2, <2>4 DEF TypeOK, PassOK
  <2>6. pass' \in [Pass -> PassRec] BY <2>1, <2>2, <2>4, ZenonT(40) DEF TypeOK
  <2>7. hist' \in [Session -> HistRec] BY <1>Visit, <2>3 DEF TypeOK, Visit
  <2> QED BY <1>Visit, <2>5, <2>6, <2>7 DEF TypeOK, Visit
<1>FetchNotFound. ASSUME NEW p \in Pass, FetchNotFound(p) PROVE TypeInv'
  <2> DEFINE s == pass[p].cur
  <2>0. s \in Session BY <1>FetchNotFound DEF PassOK, FetchNotFound, At
  <2>1. [watch[s] EXCEPT !.notFound = @ + 1] \in Entry
    <3>1. watch[s] \in Entry BY <2>0, Access
    <3>2. watch[s].notFound + 1 \in Nat BY <3>1, EntryFields
    <3> QED BY <3>1, <3>2, EntryCount
  <2>2. watch' \in [Session -> Entry] /\ panicked' \in BOOLEAN
    BY <1>FetchNotFound, <2>0, <2>1, UpdateType DEF FetchNotFound, TypeOK
  <2>3. budget' \in Budget BY <1>FetchNotFound, SpendType DEF FetchNotFound, TypeOK
  <2>4. [hist[s] EXCEPT !.misses = @ + 1] \in HistRec
    <3>1. hist[s] \in HistRec BY <2>0, Access
    <3>2. hist[s].misses + 1 \in Nat BY <3>1, HistFields
    <3> QED BY <3>1, <3>2, HistCount
  <2>5. \A d \in SUBSET Session :
          LET n == [IdlePass EXCEPT !.pc = "next", !.todo = pass[p].todo, !.drop = d]
          IN  n \in PassRec /\ n.pc = "next"
    BY IdleType DEF PassRec, Label, TypeOK
  <2>6. pass[p].drop \in SUBSET Session /\ pass[p].drop \cup {s} \in SUBSET Session
    BY <2>0 DEF TypeOK, PassRec
  <2>7. pass' \in [Pass -> PassRec] /\ PassOK' BY <1>FetchNotFound, <2>5, <2>6 DEF FetchNotFound, TypeOK, PassOK
  <2> QED BY <1>FetchNotFound, <2>2, <2>3, <2>4, <2>7 DEF FetchNotFound, TypeOK
<1>Fetch. ASSUME NEW p \in Pass, Fetch(p) PROVE TypeInv'
  <2> DEFINE s == pass[p].cur
             e == [watch[s] EXCEPT !.notFound = IF pass[p].entry.notFound > 0 THEN 0 ELSE @,
                                   !.labeled = @ \/ (AutoMerge /\ ~pass[p].entry.labeled)]
             l == IF forge[s].state \in {"merged", "closed"} THEN "terminal" ELSE "notes"
  <2>0. s \in Session BY <1>Fetch DEF PassOK, Fetch, At
  <2>1. e \in Entry
    <3>1. (IF pass[p].entry.notFound > 0 THEN 0 ELSE watch[s].notFound) \in Nat
      BY <2>0, Access, EntryFields
    <3>2. (watch[s].labeled \/ (AutoMerge /\ ~pass[p].entry.labeled)) \in BOOLEAN OBVIOUS
    <3> QED BY <3>1, <3>2, <2>0, Access, EntryMark
  <2>2. watch' \in [Session -> Entry] /\ panicked' \in BOOLEAN
    BY <1>Fetch, <2>0, <2>1, UpdateType DEF Fetch, TypeOK
  <2>3. forge[s].state \in {"opened", "merged", "closed"} BY <1>Fetch, <2>0, Access DEF Fetch, Forge
  <2>4. l \in Label /\ l # "reviewMark" BY DEF Label
  <2>5. pass' = [pass EXCEPT ![p].pc = l, ![p].seen = forge[s].state] BY <1>Fetch DEF Fetch
  <2> HIDE DEF l
  <2>6. pass' \in [Pass -> PassRec] /\ PassOK'
    BY <2>0, <2>3, <2>4, <2>5, SeenType, ZenonT(40) DEF TypeOK, PassOK
  <2>7. [hist[s] EXCEPT !.misses = 0] \in HistRec BY <2>0, Access, HistCount, HistFields
  <2> QED BY <1>Fetch, <2>0, <2>2, <2>6, <2>7 DEF Fetch, TypeOK
<1>Reap. ASSUME NEW p \in Pass, Reap(p) PROVE TypeInv'
  BY <1>Reap, GotoType DEF Reap, At, Label, TypeOK, PassOK
<1>PipelineNoNews. ASSUME NEW p \in Pass, PipelineNoNews(p) PROVE TypeInv'
  BY <1>PipelineNoNews, GotoType DEF PipelineNoNews, At, Label, TypeOK, PassOK
<1>TripBreaker. ASSUME NEW p \in Pass, TripBreaker(p) PROVE TypeInv'
  BY <1>TripBreaker, GotoType DEF TripBreaker, At, Label, TypeOK, PassOK
<1>ReviewCI. ASSUME NEW p \in Pass, ReviewCI(p) PROVE TypeInv'
  BY <1>ReviewCI, GotoType DEF ReviewCI, At, Label, TypeOK, PassOK
<1>ReviewSkip. ASSUME NEW p \in Pass, ReviewSkip(p) PROVE TypeInv'
  BY <1>ReviewSkip, GotoType DEF ReviewSkip, At, Label, TypeOK, PassOK
<1>MergeCI. ASSUME NEW p \in Pass, MergeCI(p) PROVE TypeInv'
  BY <1>MergeCI, GotoType DEF MergeCI, At, Label, TypeOK, PassOK
<1>MergeApproval. ASSUME NEW p \in Pass, MergeApproval(p) PROVE TypeInv'
  BY <1>MergeApproval, GotoType DEF MergeApproval, At, Label, TypeOK, PassOK
<1>MergePR. ASSUME NEW p \in Pass, MergePR(p) PROVE TypeInv'
  BY <1>MergePR, GotoType DEF MergePR, At, Label, TypeOK, PassOK
<1>MergeThreads. ASSUME NEW p \in Pass, MergeThreads(p) PROVE TypeInv'
  BY <1>MergeThreads, GotoType DEF MergeThreads, At, Label, TypeOK, PassOK
<1>MainFailed. ASSUME NEW p \in Pass, MainFailed(p) PROVE TypeInv'
  BY <1>MainFailed, GotoType DEF MainFailed, At, Label, TypeOK, PassOK
<1>Terminal. ASSUME NEW p \in Pass, Terminal(p) PROVE TypeInv'
  <2> DEFINE s == pass[p].cur
  <2>0. s \in Session /\ watch[s] \in Entry BY <1>Terminal, Access DEF PassOK, Terminal, At
  <2>1. \A b \in BOOLEAN : [watch[s] EXCEPT !.post = TRUE, !.checks = 0, !.sha = b] \in Entry
    BY <2>0, EntryMark
  <2>2. watch' \in [Session -> Entry] /\ panicked' \in BOOLEAN
    BY <1>Terminal, <2>0, <2>1, UpdateType DEF Terminal, TypeOK
  <2>3. pass' \in [Pass -> PassRec] /\ PassOK'
    BY <1>Terminal, <2>0, ContinueType, GotoReapType DEF Terminal, TypeOK, PassOK
  <2> QED BY <1>Terminal, <2>2, <2>3 DEF Terminal, TypeOK
<1>Forget. ASSUME NEW p \in Pass, Forget(p) PROVE TypeInv'
  <2>0. pass[p].cur \in Session /\ pass[p].back \in {"next", "stamp"}
    BY <1>Forget DEF PassOK, Forget, At, TypeOK, PassRec
  <2>1. pass' \in [Pass -> PassRec] /\ PassOK'
    BY <1>Forget, <2>0, ContinueType, GotoType DEF Forget, TypeOK, PassOK, Label
  <2> QED BY <1>Forget, <2>0, <2>1, AbsentType DEF Forget, TypeOK
<1>ForwardNotes. ASSUME NEW p \in Pass, ForwardNotes(p) PROVE TypeInv'
  <2> DEFINE s == pass[p].cur
             new == NewNotes(s, pass[p].entry.cursor)
  <2>0. s \in Session /\ watch[s] \in Entry BY <1>ForwardNotes, Access DEF PassOK, ForwardNotes, At
  <2>1. new \subseteq Note BY LimitAssumption DEF NewNotes, Note
  <2>2. \A n \in new : [watch[s] EXCEPT !.cursor = n] \in Entry
    <3>1. new \subseteq 0..MaxNote BY <2>1, LimitAssumption DEF Note
    <3> QED BY <2>0, <3>1, EntryMark
  <2>3. watch' \in [Session -> Entry] /\ panicked' \in BOOLEAN
    BY <1>ForwardNotes, <2>0, <2>2, UpdateType DEF ForwardNotes, TypeOK
  <2>4. pass' \in [Pass -> PassRec] /\ PassOK'
    BY <1>ForwardNotes, <2>0, <2>1, GotoIdsType, GotoType DEF ForwardNotes, TypeOK, PassOK, Label
  <2> QED BY <1>ForwardNotes, <2>3, <2>4 DEF ForwardNotes, TypeOK
<1>SendNotes. ASSUME NEW p \in Pass, SendNotes(p) PROVE TypeInv'
  <2> DEFINE s == pass[p].cur
             f == [n \in Note |-> IF n \in pass[p].ids THEN hist[s].fwd[n] + 1 ELSE hist[s].fwd[n]]
  <2>0. s \in Session /\ hist[s] \in HistRec BY <1>SendNotes, Access DEF PassOK, SendNotes, At
  <2>1. f \in [Note -> Nat] BY <2>0, HistFields
  <2>2. [hist[s] EXCEPT !.fwd = f] \in HistRec BY <2>0, <2>1, HistMark
  <2>3. hist' = [hist EXCEPT ![s] = [hist[s] EXCEPT !.fwd = f]] BY <1>SendNotes DEF SendNotes
  <2>4. hist' \in [Session -> HistRec] BY <2>0, <2>2, <2>3 DEF TypeOK
  <2>5. pass' \in [Pass -> PassRec] /\ PassOK'
    BY <1>SendNotes, <2>0, GotoIdsType DEF SendNotes, TypeOK, PassOK, Label
  <2> QED BY <1>SendNotes, <2>4, <2>5 DEF SendNotes, TypeOK
<1>PipelineFailed. ASSUME NEW p \in Pass, PipelineFailed(p) PROVE TypeInv'
  <2> DEFINE s == pass[p].cur
             n == pass[p].entry.fails + 1
             l == AfterFailure(p, n)
  <2>0. s \in Session /\ watch[s] \in Entry /\ forge[s] \in Forge /\ pass[p].entry \in Entry
    BY <1>PipelineFailed, Access DEF PassOK, PipelineFailed, At
  <2>1. n \in Nat /\ forge[s].head \in Push /\ forge[s].head \in 0..MaxPush
    BY <2>0, EntryFields, LimitAssumption DEF Forge, Push
  <2>2. [watch[s] EXCEPT !.fails = n, !.lastPipe = forge[s].head] \in Entry
    BY <2>0, <2>1, EntryCount
  <2>3. watch' \in [Session -> Entry] /\ panicked' \in BOOLEAN
    BY <1>PipelineFailed, <2>0, <2>2, UpdateType DEF PipelineFailed, TypeOK
  <2>4. l \in Label /\ l # "reviewMark" /\ {forge[s].head} \in SUBSET (Push \cup Note)
    BY <2>1 DEF AfterFailure, Label
  <2>5. pass' \in [Pass -> PassRec] /\ PassOK'
    BY <1>PipelineFailed, <2>0, <2>4, GotoIdsType DEF PipelineFailed, TypeOK, PassOK
  <2> QED BY <1>PipelineFailed, <2>3, <2>5 DEF PipelineFailed, TypeOK
<1>PipelinePassed. ASSUME NEW p \in Pass, PipelinePassed(p) PROVE TypeInv'
  <2> DEFINE s == pass[p].cur
  <2>0. s \in Session /\ watch[s] \in Entry /\ forge[s] \in Forge /\ hist[s] \in HistRec
    BY <1>PipelinePassed, Access DEF PassOK, PipelinePassed, At
  <2>1. forge[s].head \in 0..MaxPush BY <2>0, LimitAssumption DEF Forge, Push
  <2>2. [watch[s] EXCEPT !.fails = 0, !.lastPipe = forge[s].head] \in Entry
    BY <2>0, <2>1, EntryCount
  <2>3. watch' \in [Session -> Entry] /\ panicked' \in BOOLEAN
    BY <1>PipelinePassed, <2>0, <2>2, UpdateType DEF PipelinePassed, TypeOK
  <2>4. [hist[s] EXCEPT !.repairs = 0] \in HistRec BY <2>0, HistCount
  <2>5. pass' \in [Pass -> PassRec] /\ PassOK'
    BY <1>PipelinePassed, <2>0, GotoType DEF PipelinePassed, TypeOK, PassOK, Label
  <2> QED BY <1>PipelinePassed, <2>0, <2>3, <2>4, <2>5 DEF PipelinePassed, TypeOK
<1>SendRepair. ASSUME NEW p \in Pass, SendRepair(p) PROVE TypeInv'
  <2> DEFINE s == pass[p].cur
             f == [c \in Push |-> IF c \in pass[p].ids THEN hist[s].sent[c] + 1 ELSE hist[s].sent[c]]
             n == hist[s].repairs + 1
  <2>0. s \in Session /\ hist[s] \in HistRec BY <1>SendRepair, Access DEF PassOK, SendRepair, At
  <2>1. f \in [Push -> Nat] /\ n \in Nat BY <2>0, HistFields, SMTT(20)
  <2>2. [hist[s] EXCEPT !.repairs = n, !.sent = f] \in HistRec BY <2>0, <2>1, HistCount
  <2>3. hist' = [hist EXCEPT ![s] = [hist[s] EXCEPT !.repairs = n, !.sent = f]] BY <1>SendRepair DEF SendRepair
  <2>4. hist' \in [Session -> HistRec] BY <2>0, <2>2, <2>3 DEF TypeOK
  <2>5. pass' \in [Pass -> PassRec] /\ PassOK'
    BY <1>SendRepair, <2>0, GotoType DEF SendRepair, TypeOK, PassOK, Label
  <2> QED BY <1>SendRepair, <2>4, <2>5 DEF SendRepair, TypeOK
<1>ReviewTrivial. ASSUME NEW p \in Pass, ReviewTrivial(p) PROVE TypeInv'
  <2> DEFINE s == pass[p].cur
  <2>0. s \in Session /\ watch[s] \in Entry /\ pass[p].entry \in Entry /\ forge[s] \in Forge
    BY <1>ReviewTrivial, Access DEF PassOK, ReviewTrivial, At
  <2>1. [watch[s] EXCEPT !.reviewed = forge[s].head] \in Entry
    <3>1. forge[s].head \in 0..MaxPush BY <2>0, LimitAssumption DEF Forge, Push
    <3> QED BY <2>0, <3>1, EntryMark
  <2>2. watch' \in [Session -> Entry] /\ panicked' \in BOOLEAN
    BY <1>ReviewTrivial, <2>0, <2>1, UpdateType DEF ReviewTrivial, TypeOK
  <2>3. pass' \in [Pass -> PassRec] /\ PassOK'
    BY <1>ReviewTrivial, <2>0, GotoType DEF ReviewTrivial, TypeOK, PassOK, Label
  <2> QED BY <1>ReviewTrivial, <2>2, <2>3 DEF ReviewTrivial, TypeOK
<1>ReviewMark. ASSUME NEW p \in Pass, ReviewMark(p) PROVE TypeInv'
  <2> DEFINE s == pass[p].cur
  <2>0. s \in Session /\ watch[s] \in Entry /\ pass[p].entry \in Entry /\ forge[s] \in Forge
    BY <1>ReviewMark, Access DEF PassOK, ReviewMark, At
  <2>1. \A c \in pass[p].ids : [watch[s] EXCEPT !.reviewed = c] \in Entry
    <3>1. pass[p].ids \subseteq 0..MaxPush BY <1>ReviewMark, LimitAssumption DEF ReviewMark, At, PassOK, Push
    <3> QED BY <2>0, <3>1, EntryMark
  <2>2. watch' \in [Session -> Entry] /\ panicked' \in BOOLEAN
    BY <1>ReviewMark, <2>0, <2>1, UpdateType DEF ReviewMark, TypeOK
  <2>3. pass' \in [Pass -> PassRec] /\ PassOK'
    BY <1>ReviewMark, <2>0, GotoType DEF ReviewMark, TypeOK, PassOK, Label
  <2> QED BY <1>ReviewMark, <2>2, <2>3 DEF ReviewMark, TypeOK
<1>AskMark. ASSUME NEW p \in Pass, AskMark(p) PROVE TypeInv'
  <2> DEFINE s == pass[p].cur
  <2>0. s \in Session /\ watch[s] \in Entry /\ pass[p].entry \in Entry /\ forge[s] \in Forge
    BY <1>AskMark, Access DEF PassOK, AskMark, At
  <2>1. [watch[s] EXCEPT !.asked = TRUE] \in Entry BY <2>0, EntryMark
  <2>2. watch' \in [Session -> Entry] /\ panicked' \in BOOLEAN
    BY <1>AskMark, <2>0, <2>1, UpdateType DEF AskMark, TypeOK
  <2>3. pass' \in [Pass -> PassRec] /\ PassOK'
    BY <1>AskMark, <2>0, GotoType DEF AskMark, TypeOK, PassOK, Label
  <2> QED BY <1>AskMark, <2>2, <2>3 DEF AskMark, TypeOK
<1>Merged. ASSUME NEW p \in Pass, Merged(p) PROVE TypeInv'
  <2> DEFINE s == pass[p].cur
  <2>0. s \in Session /\ watch[s] \in Entry /\ pass[p].entry \in Entry /\ forge[s] \in Forge
    BY <1>Merged, Access DEF PassOK, Merged, At
  <2>1. \A b \in BOOLEAN : [watch[s] EXCEPT !.post = TRUE, !.checks = 0, !.sha = b] \in Entry
    BY <2>0, EntryMark
  <2>2. watch' \in [Session -> Entry] /\ panicked' \in BOOLEAN
    BY <1>Merged, <2>0, <2>1, UpdateType, ZenonT(40) DEF Merged, TypeOK
  <2>3. pass' \in [Pass -> PassRec] /\ PassOK'
    BY <1>Merged, <2>0, GotoType, GotoReapType, ZenonT(40) DEF Merged, TypeOK, PassOK, Label
  <2> QED BY <1>Merged, <2>2, <2>3 DEF Merged, TypeOK
<1>Stamp. ASSUME NEW p \in Pass, Stamp(p) PROVE TypeInv'
  <2> DEFINE s == pass[p].cur
  <2>0. s \in Session /\ watch[s] \in Entry /\ pass[p].entry \in Entry /\ forge[s] \in Forge
    BY <1>Stamp, Access DEF PassOK, Stamp, At
  <2>1. TRUE OBVIOUS
  <2>2. watch' \in [Session -> Entry] /\ panicked' \in BOOLEAN
    BY <1>Stamp, <2>0, <2>1, UpdateType DEF Stamp, TypeOK
  <2>3. pass' \in [Pass -> PassRec] /\ PassOK'
    BY <1>Stamp, <2>0, ContinueType DEF Stamp, TypeOK, PassOK, Label
  <2> QED BY <1>Stamp, <2>2, <2>3 DEF Stamp, TypeOK
<1>PostMerge. ASSUME NEW p \in Pass, PostMerge(p) PROVE TypeInv'
  <2> DEFINE s == pass[p].cur
  <2>0. s \in Session /\ watch[s] \in Entry /\ pass[p].entry \in Entry /\ forge[s] \in Forge
    BY <1>PostMerge, Access DEF PassOK, PostMerge, At
  <2>1. [watch[s] EXCEPT !.checks = pass[p].entry.checks + 1] \in Entry
    <3>1. pass[p].entry.checks + 1 \in Nat BY <2>0, EntryFields
    <3> QED BY <2>0, <3>1, EntryCount
  <2>2. watch' \in [Session -> Entry] /\ panicked' \in BOOLEAN
    BY <1>PostMerge, <2>0, <2>1, UpdateType DEF PostMerge, TypeOK
  <2>3. pass' \in [Pass -> PassRec] /\ PassOK'
    BY <1>PostMerge, <2>0, GotoType, GotoReapType DEF PostMerge, TypeOK, PassOK, Label
  <2> QED BY <1>PostMerge, <2>2, <2>3 DEF PostMerge, TypeOK
<1>MainMark. ASSUME NEW p \in Pass, MainMark(p) PROVE TypeInv'
  <2> DEFINE s == pass[p].cur
  <2>0. s \in Session /\ watch[s] \in Entry /\ pass[p].entry \in Entry /\ forge[s] \in Forge
    BY <1>MainMark, Access DEF PassOK, MainMark, At
  <2>1. [watch[s] EXCEPT !.mainDone = TRUE] \in Entry BY <2>0, EntryMark
  <2>2. watch' \in [Session -> Entry] /\ panicked' \in BOOLEAN
    BY <1>MainMark, <2>0, <2>1, UpdateType DEF MainMark, TypeOK
  <2>3. pass' \in [Pass -> PassRec] /\ PassOK'
    BY <1>MainMark, <2>0, ContinueType DEF MainMark, TypeOK, PassOK, Label
  <2> QED BY <1>MainMark, <2>2, <2>3 DEF MainMark, TypeOK
<1>MainPassed. ASSUME NEW p \in Pass, MainPassed(p) PROVE TypeInv'
  BY <1>MainPassed, GotoReapType DEF MainPassed, At, TypeOK, PassOK
<1>MainUndecided. ASSUME NEW p \in Pass, MainUndecided(p) PROVE TypeInv'
  BY <1>MainUndecided, ContinueType DEF MainUndecided, At, TypeOK, PassOK
<1>ReviewSend. ASSUME NEW p \in Pass, ReviewSend(p) PROVE TypeInv'
  <2> DEFINE s == pass[p].cur
             c == forge[s].head
             f == [hist[s].reviews EXCEPT ![c] = @ + 1]
  <2>0. s \in Session /\ hist[s] \in HistRec /\ c \in Push
    BY <1>ReviewSend, Access DEF PassOK, ReviewSend, At, Forge
  <2>1. f \in [Push -> Nat] BY <2>0, HistFields
  <2>2. [hist[s] EXCEPT !.reviews = f] \in HistRec BY <2>0, <2>1, HistMark
  <2>3. hist' = [hist EXCEPT ![s] = [hist[s] EXCEPT !.reviews = f]] BY <1>ReviewSend DEF ReviewSend
  <2>4. hist' \in [Session -> HistRec] BY <2>0, <2>2, <2>3 DEF TypeOK
  <2>5. {c} \in SUBSET (Push \cup Note) /\ {c} \subseteq Push BY <2>0
  <2>6. pass' \in [Pass -> PassRec] /\ PassOK'
    BY <1>ReviewSend, <2>0, <2>5, GotoIdsType DEF ReviewSend, TypeOK, PassOK, Label
  <2> QED BY <1>ReviewSend, <2>4, <2>6 DEF ReviewSend, TypeOK
<1>AskApproval. ASSUME NEW p \in Pass, AskApproval(p) PROVE TypeInv'
  <2> DEFINE s == pass[p].cur
             n == hist[s].asks + 1
  <2>0. s \in Session /\ hist[s] \in HistRec BY <1>AskApproval, Access DEF PassOK, AskApproval, At
  <2>1. n \in Nat BY <2>0, HistFields
  <2>2. [hist[s] EXCEPT !.asks = n] \in HistRec BY <2>0, <2>1, HistCount
  <2>3. hist' = [hist EXCEPT ![s] = [hist[s] EXCEPT !.asks = n]] BY <1>AskApproval DEF AskApproval
  <2>4. hist' \in [Session -> HistRec] BY <2>0, <2>2, <2>3 DEF TypeOK
  <2>5. pass' \in [Pass -> PassRec] /\ PassOK'
    BY <1>AskApproval, <2>0, GotoType DEF AskApproval, TypeOK, PassOK, Label
  <2> QED BY <1>AskApproval, <2>4, <2>5 DEF AskApproval, TypeOK
<1>Merge. ASSUME NEW p \in Pass, Merge(p) PROVE TypeInv'
  <2> DEFINE s == pass[p].cur
             m == IF Gated(forge[s]) THEN "gated" ELSE IF hist[s].touched THEN "raced" ELSE "ungated"
  <2>0. s \in Session /\ hist[s] \in HistRec /\ forge[s] \in Forge
    BY <1>Merge, Access DEF PassOK, Merge, At
  <2>1. m \in {"none", "gated", "raced", "ungated"} OBVIOUS
  <2>2. \A r \in CI : [forge[s] EXCEPT !.state = "merged", !.main = r] \in Forge BY <2>0 DEF Forge
  <2>3. {"none", "running"} \subseteq CI BY DEF CI
  <2>4. [hist[s] EXCEPT !.finished = TRUE, !.merge = m] \in HistRec
    <3> HIDE DEF m
    <3> QED BY <2>0, <2>1, HistMark
  <2>5. \/ UNCHANGED <<forge, hist>>
        \/ /\ hist' = [hist EXCEPT ![s] = [hist[s] EXCEPT !.finished = TRUE, !.merge = m]]
           /\ \E r \in {"none", "running"} :
                forge' = [forge EXCEPT ![s] = [forge[s] EXCEPT !.state = "merged", !.main = r]]
    BY <1>Merge DEF Merge
  <2> HIDE DEF m
  <2>6. hist' \in [Session -> HistRec] BY <2>0, <2>4, <2>5 DEF TypeOK
  <2>7. forge' \in [Session -> Forge]
    <3>1. CASE UNCHANGED <<forge, hist>> BY <3>1 DEF TypeOK
    <3>2. ASSUME NEW r \in {"none", "running"},
                 forge' = [forge EXCEPT ![s] = [forge[s] EXCEPT !.state = "merged", !.main = r]]
          PROVE  forge' \in [Session -> Forge]
      <4>1. [forge[s] EXCEPT !.state = "merged", !.main = r] \in Forge BY <2>2, <2>3
      <4> QED BY <2>0, <3>2, <4>1 DEF TypeOK
    <3> QED BY <2>5, <3>1, <3>2
  <2>8. pass' \in [Pass -> PassRec] /\ PassOK'
    BY <1>Merge, <2>0, GotoType DEF Merge, TypeOK, PassOK, Label
  <2> QED BY <1>Merge, <2>6, <2>7, <2>8 DEF Merge, TypeOK
<1>ApiError. ASSUME NEW p \in Pass, ApiError(p) PROVE TypeInv'
  <2>0. pass[p].pc \in DOMAIN AfterError /\ pass[p].cur \in Session
    BY <1>ApiError DEF ApiError, AfterError, PassOK
  <2>1. AfterError[pass[p].pc] \in Label \ {"reviewMark"} BY <2>0 DEF AfterError, Label
  <2>2. pass' \in [Pass -> PassRec] /\ PassOK'
    BY <1>ApiError, <2>0, <2>1, GotoType, ContinueType DEF ApiError, TypeOK, PassOK
  <2>3. budget' \in Budget BY <1>ApiError, SpendType DEF ApiError, TypeOK
  <2> QED BY <1>ApiError, <2>2, <2>3 DEF ApiError, TypeOK
<1>Crash. ASSUME Crash PROVE TypeInv'
  <2>1. budget' \in Budget BY <1>Crash, SpendType DEF Crash, TypeOK
  <2>2. pass' \in [Pass -> PassRec] /\ PassOK' BY <1>Crash, IdleType DEF Crash, PassOK, IdlePass
  <2> QED BY <1>Crash, <2>1, <2>2 DEF Crash, TypeOK
<1>TrackMR. ASSUME NEW s \in Session, TrackMR(s) PROVE TypeInv'
  <2>1. budget' \in Budget BY <1>TrackMR, SpendType DEF TrackMR, TypeOK
  <2>2. Fresh(worker[s] # "none") \in Entry BY FreshType
  <2>3. NewHist \in HistRec BY DEF NewHist, HistRec
  <2> QED BY <1>TrackMR, <2>1, <2>2, <2>3 DEF TrackMR, TypeOK, PassOK
<1>WorkerChange. ASSUME NEW s \in Session, WorkerChange(s) PROVE TypeInv'
  <2>1. budget' \in Budget BY <1>WorkerChange, SpendType DEF WorkerChange, TypeOK
  <2> QED BY <1>WorkerChange, <2>1 DEF WorkerChange, TypeOK, PassOK
<1>PushCommit. ASSUME NEW s \in Session, PushCommit(s) PROVE TypeInv'
  <2> DEFINE h == forge[s].head + 1
             g == [forge[s].ci EXCEPT ![h] = "running"]
  <2>0. forge[s] \in Forge BY DEF TypeOK
  <2>1. h \in Push BY <1>PushCommit, <2>0, LimitAssumption, SMTT(20) DEF PushCommit, Forge, Push
  <2>2. g \in [Push -> CI] BY <2>0 DEF Forge, CI
  <2>3. [forge[s] EXCEPT !.head = h, !.ci = g] \in Forge BY <2>0, <2>1, <2>2, ForgeUpdate
  <2>4. ForgeStep(s, [forge[s] EXCEPT !.head = h, !.ci = g]) BY <1>PushCommit DEF PushCommit
  <2>5. budget' \in Budget BY <1>PushCommit DEF PushCommit, TypeOK
  <2> QED BY <2>3, <2>4, <2>5, ForgeStepType
<1>FinishPipeline. ASSUME NEW s \in Session, FinishPipeline(s) PROVE TypeInv'
  <2>0. forge[s] \in Forge BY DEF TypeOK
  <2>1. PICK c \in Push, r \in {"success", "failed"} : ForgeStep(s, [forge[s] EXCEPT !.ci[c] = r])
    BY <1>FinishPipeline DEF FinishPipeline
  <2> DEFINE g == [forge[s].ci EXCEPT ![c] = r]
  <2>2. g \in [Push -> CI] BY <2>0 DEF Forge, CI
  <2>3. [forge[s] EXCEPT !.ci = g] \in Forge BY <2>0, <2>2, ForgeUpdate
  <2>4. ForgeStep(s, [forge[s] EXCEPT !.ci = g]) BY <2>1
  <2>5. budget' \in Budget BY <1>FinishPipeline DEF FinishPipeline, TypeOK
  <2> QED BY <2>3, <2>4, <2>5, ForgeStepType
<1>FinishMain. ASSUME NEW s \in Session, FinishMain(s) PROVE TypeInv'
  <2>0. forge[s] \in Forge BY DEF TypeOK
  <2>1. PICK r \in {"success", "failed"} : ForgeStep(s, [forge[s] EXCEPT !.main = r])
    BY <1>FinishMain DEF FinishMain
  <2>2. r \in CI BY DEF CI
  <2>3. [forge[s] EXCEPT !.main = r] \in Forge BY <2>0, <2>2, ForgeUpdate
  <2>4. budget' \in Budget BY <1>FinishMain DEF FinishMain, TypeOK
  <2> QED BY <2>1, <2>3, <2>4, ForgeStepType
<1>HumanStep. ASSUME NEW s \in Session, HumanStep(s) PROVE TypeInv'
  <2> DEFINE f == forge[s]
             g == [f.ci EXCEPT ![f.head] = "running"]
  <2>0. f \in Forge BY DEF TypeOK
  <2>1. budget' \in Budget BY <1>HumanStep, SpendType DEF HumanStep, TypeOK
  <2>2. PICK n : n \in Forge /\ ForgeStep(s, n)
    <3>1. g \in [Push -> CI] BY <2>0 DEF Forge, CI
    <3>2. [f EXCEPT !.ci = g] \in Forge BY <2>0, <3>1, ForgeUpdate
    <3>3. {"none", "running"} \subseteq CI BY DEF CI
    <3>4. CASE ForgeStep(s, [f EXCEPT !.approved = ~f.approved]) BY <2>0, <3>4, ForgeUpdate
    <3>5. CASE ForgeStep(s, [f EXCEPT !.draft = ~f.draft]) BY <2>0, <3>5, ForgeUpdate
    <3>6. CASE ForgeStep(s, [f EXCEPT !.thread = ~f.thread]) BY <2>0, <3>6, ForgeUpdate
    <3>7. CASE \E m \in {"none", "running"} : ForgeStep(s, [f EXCEPT !.state = "merged", !.main = m])
      <4>1. PICK m \in {"none", "running"} : ForgeStep(s, [f EXCEPT !.state = "merged", !.main = m])
        BY <3>7
      <4>2. m \in CI BY <3>3
      <4> QED BY <2>0, <4>1, <4>2, ForgeUpdate
    <3>8. CASE \E st \in {"opened", "closed", "deleted"} : ForgeStep(s, [f EXCEPT !.state = st])
      BY <2>0, <3>8, ForgeUpdate
    <3>9. CASE ForgeStep(s, [f EXCEPT !.ci = g]) BY <3>2, <3>9
    <3> QED BY <1>HumanStep, <3>4, <3>5, <3>6, <3>7, <3>8, <3>9 DEF HumanStep
  <2> QED BY <2>1, <2>2, ForgeStepType
<1>PostNote. ASSUME NEW s \in Session, PostNote(s) PROVE TypeInv'
  BY <1>PostNote, LimitAssumption DEF PostNote, TypeOK, PassOK
<1>Stutter. CASE UNCHANGED vars BY <1>Stutter DEF vars, TypeOK, PassOK
<1> QED
  BY <1>StartPass, <1>EndPass, <1>Visit, <1>FetchNotFound, <1>Fetch, <1>Reap,
     <1>PipelineNoNews, <1>TripBreaker, <1>ReviewCI, <1>ReviewSkip, <1>MergeCI,
     <1>MergeApproval, <1>MergePR, <1>MergeThreads, <1>MainFailed, <1>Terminal, <1>Forget,
     <1>ForwardNotes, <1>SendNotes, <1>PipelineFailed, <1>PipelinePassed, <1>SendRepair,
     <1>ReviewTrivial, <1>ReviewMark, <1>AskMark, <1>Merged, <1>Stamp, <1>PostMerge,
     <1>MainMark, <1>MainPassed, <1>MainUndecided, <1>ReviewSend, <1>AskApproval, <1>Merge,
     <1>ApiError, <1>TrackMR, <1>WorkerChange, <1>PushCommit, <1>FinishPipeline,
     <1>FinishMain, <1>HumanStep, <1>PostNote, <1>Crash, <1>Stutter
  DEF Next, RunStep, EntryStep, Environment

(* Every behaviour is well typed, with any number of passes at once.           *)
THEOREM TypeCorrect == Spec => []TypeOK
<1>1. Spec => []TypeInv BY InitType, StepType, PTL DEF Spec
<1>2. TypeInv => TypeOK BY DEF TypeInv
<1> QED BY <1>1, <1>2, PTL

-----------------------------------------------------------------------------
(* The repair loop.  A pass that has not reached checkPipeline still has the   *)
(* entry's counter and pipeline (Owns); an entry's counter bounds what was     *)
(* sent since the last green pipeline, and nothing was sent for a pipeline     *)
(* newer than the recorded one (Ledger); between the record and the message    *)
(* the message is still owed (Owed).                                           *)
Ledger(s) ==
    watch[s].tracked =>
        /\ watch[s].lastPipe <= forge[s].head
        /\ hist[s].repairs <= watch[s].fails
        /\ \A c \in Push : c > watch[s].lastPipe => hist[s].sent[c] = 0

Owns(p) ==
    pass[p].pc \in {"fetch", "notes", "sendNotes", "pipeline"} =>
        /\ watch[pass[p].cur].tracked
        /\ pass[p].entry.fails = watch[pass[p].cur].fails
        /\ pass[p].entry.lastPipe = watch[pass[p].cur].lastPipe

Owed(p) ==
    pass[p].pc = "repair" =>
        LET s == pass[p].cur IN
        /\ watch[s].tracked
        /\ watch[s].fails <= RepairLimit /\ hist[s].repairs < watch[s].fails
        /\ watch[s].lastPipe \in Push /\ pass[p].ids = {watch[s].lastPipe}
        /\ hist[s].sent[watch[s].lastPipe] = 0

RepairInv ==
    /\ BoundedRepair
    /\ \A s \in Session : Ledger(s)
    /\ \A p \in Pass : Owns(p) /\ Owed(p)

(* One Run at a time.                                                          *)
OnePass == \A p, q \in Pass : p = q

(* The entries keep what RepairInv reads of them, and so does the history.     *)
Kept ==
    /\ \A s \in Session : watch'[s].tracked =>
          /\ watch[s].tracked
          /\ watch'[s].fails = watch[s].fails /\ watch'[s].lastPipe = watch[s].lastPipe
    /\ \A s \in Session : hist'[s].repairs = hist[s].repairs /\ hist'[s].sent = hist[s].sent
    /\ \A s \in Session : forge'[s].head = forge[s].head

Quiet == Label \ {"fetch", "notes", "sendNotes", "pipeline", "repair"}

(* The ledger reads only what Kept keeps.                                      *)
LEMMA LedgerKept ==
    ASSUME RepairInv, Kept
    PROVE  BoundedRepair' /\ \A s \in Session : Ledger(s)'
BY DEF RepairInv, Kept, BoundedRepair, Ledger

(* A step that leaves the delicate part of the pass, or stays out of it.       *)
LEMMA QuietStep ==
    ASSUME OnePass, RepairInv, Kept, NEW p \in Pass, pass'[p].pc \in Quiet
    PROVE  RepairInv'
<1>1. \A q \in Pass : q = p BY DEF OnePass
<1>2. \A q \in Pass : Owns(q)' /\ Owed(q)' BY <1>1 DEF Owns, Owed, Quiet
<1> QED BY <1>2, LedgerKept DEF RepairInv

(* An update of another field.                                                 *)
LEMMA UpdateKeeps ==
    ASSUME TypeOK, NEW s \in Session, NEW e \in Entry, Update(s, e),
           e.fails = watch[s].fails, e.lastPipe = watch[s].lastPipe
    PROVE  \A t \in Session : watch'[t].tracked =>
              /\ watch[t].tracked
              /\ watch'[t].fails = watch[t].fails /\ watch'[t].lastPipe = watch[t].lastPipe
BY DEF Update, TypeOK

(* Marks and other counters leave the repair counter and pipeline alone ...    *)
LEMMA EntryKeeps ==
    ASSUME NEW e \in Entry
    PROVE  /\ \A n : LET f == [e EXCEPT !.notFound = n]
                     IN  f.tracked = e.tracked /\ f.fails = e.fails /\ f.lastPipe = e.lastPipe
           /\ \A n, b : LET f == [e EXCEPT !.notFound = n, !.labeled = b]
                     IN  f.tracked = e.tracked /\ f.fails = e.fails /\ f.lastPipe = e.lastPipe
           /\ \A b : LET f == [e EXCEPT !.post = TRUE, !.checks = 0, !.sha = b]
                     IN  f.tracked = e.tracked /\ f.fails = e.fails /\ f.lastPipe = e.lastPipe
           /\ \A n : LET f == [e EXCEPT !.cursor = n]
                     IN  f.tracked = e.tracked /\ f.fails = e.fails /\ f.lastPipe = e.lastPipe
           /\ \A n : LET f == [e EXCEPT !.reviewed = n]
                     IN  f.tracked = e.tracked /\ f.fails = e.fails /\ f.lastPipe = e.lastPipe
           /\ \A n : LET f == [e EXCEPT !.checks = n]
                     IN  f.tracked = e.tracked /\ f.fails = e.fails /\ f.lastPipe = e.lastPipe
           /\ LET f == [e EXCEPT !.asked = TRUE]
              IN  f.tracked = e.tracked /\ f.fails = e.fails /\ f.lastPipe = e.lastPipe
           /\ LET f == [e EXCEPT !.mainDone = TRUE]
              IN  f.tracked = e.tracked /\ f.fails = e.fails /\ f.lastPipe = e.lastPipe
BY DEF Entry

(* ... and other history leaves the sent messages alone.                       *)
LEMMA HistKeeps ==
    ASSUME NEW h \in HistRec
    PROVE  /\ \A n : LET g == [h EXCEPT !.misses = n] IN g.repairs = h.repairs /\ g.sent = h.sent
           /\ \A n : LET g == [h EXCEPT !.asks = n] IN g.repairs = h.repairs /\ g.sent = h.sent
           /\ \A n : LET g == [h EXCEPT !.fwd = n] IN g.repairs = h.repairs /\ g.sent = h.sent
           /\ \A n : LET g == [h EXCEPT !.reviews = n] IN g.repairs = h.repairs /\ g.sent = h.sent
           /\ \A n : LET g == [h EXCEPT !.touched = n] IN g.repairs = h.repairs /\ g.sent = h.sent
           /\ \A m, n : LET g == [h EXCEPT !.touched = m, !.finished = n]
                        IN  g.repairs = h.repairs /\ g.sent = h.sent
           /\ \A m, n : LET g == [h EXCEPT !.finished = m, !.merge = n]
                        IN  g.repairs = h.repairs /\ g.sent = h.sent
BY DEF HistRec

(* At the start nothing is tracked and nothing was sent.                       *)
LEMMA InitRepair == Init => RepairInv
<1> SUFFICES ASSUME Init PROVE RepairInv OBVIOUS
<1>1. \A s \in Session : hist[s].repairs = 0 /\ \A c \in Push : hist[s].sent[c] = 0
  BY DEF Init, NewHist
<1>2. \A s \in Session : ~watch[s].tracked BY DEF Init, Absent, Fresh
<1>3. \A p \in Pass : pass[p].pc = "idle" BY DEF Init, IdlePass
<1> QED BY <1>1, <1>2, <1>3, LimitAssumption DEF RepairInv, BoundedRepair, Ledger, Owns, Owed

(* A step from one point before checkPipeline to another of the same entry.    *)
LEMMA MovesOn ==
    ASSUME OnePass, RepairInv, Kept, NEW p \in Pass,
           pass[p].pc \in {"fetch", "notes", "sendNotes"},
           pass'[p].pc \in {"notes", "sendNotes", "pipeline"},
           pass'[p].cur = pass[p].cur, pass'[p].entry = pass[p].entry,
           pass[p].cur \in Session, watch'[pass[p].cur].tracked
    PROVE  RepairInv'
<1>1. \A q \in Pass : q = p BY DEF OnePass
<1>2. Owns(p)' BY DEF RepairInv, Owns, Kept
<1>3. Owed(p)' BY DEF Owed
<1> QED BY <1>1, <1>2, <1>3, LedgerKept DEF RepairInv

(* Steps outside the watcher.                                                  *)
LEMMA Outside ==
    ASSUME RepairInv, UNCHANGED <<forge, pass, watch, hist>>
    PROVE  RepairInv'
BY DEF RepairInv, BoundedRepair, Ledger, Owns, Owed

(* A step of the forge moves the head forward or not at all.                   *)
LEMMA ForgeStepKeeps ==
    ASSUME TypeInv, RepairInv, NEW s \in Session, NEW f, ForgeStep(s, f),
           f.head = forge[s].head \/ f.head = forge[s].head + 1
    PROVE  RepairInv'
<1> USE DEF TypeInv
<1> DEFINE h(b) == [hist[s] EXCEPT !.touched = TRUE, !.finished = b]
<1>1. \A b : h(b).repairs = hist[s].repairs /\ h(b).sent = hist[s].sent BY HistKeeps DEF TypeOK
<1>2. \E b : hist' = [hist EXCEPT ![s] = h(b)] BY DEF ForgeStep
<1> HIDE DEF h
<1>3. \A t \in Session : hist'[t].repairs = hist[t].repairs /\ hist'[t].sent = hist[t].sent
  BY <1>1, <1>2 DEF TypeOK
<1>4. \A t \in Session : forge[t].head \in Nat /\ watch[t].lastPipe \in Nat
  BY LimitAssumption, EntryFields DEF TypeOK, Forge, Push
<1>5. \A t \in Session : forge'[t].head = forge[t].head \/ forge'[t].head = forge[t].head + 1
  BY <1>4 DEF ForgeStep, TypeOK
<1>6. UNCHANGED <<pass, watch>> BY DEF ForgeStep
<1>7. BoundedRepair' BY <1>3 DEF RepairInv, BoundedRepair
<1>8. \A t \in Session : Ledger(t)' BY <1>3, <1>4, <1>5, <1>6 DEF RepairInv, Ledger
<1>9. \A q \in Pass : Owns(q)' BY <1>6 DEF RepairInv, Owns
<1>10. \A q \in Pass : Owed(q)'
  <2> SUFFICES ASSUME NEW q \in Pass PROVE Owed(q)' OBVIOUS
  <2>1. pass[q].pc = "repair" => pass[q].cur \in Session BY DEF PassOK
  <2> QED BY <1>3, <1>6, <2>1 DEF RepairInv, Owed
<1> QED BY <1>7, <1>8, <1>9, <1>10 DEF RepairInv

(* Every step keeps RepairInv; PipelineFailed, PipelinePassed and SendRepair   *)
(* move the ledger, the others keep it.                                        *)
LEMMA StepRepair == OnePass /\ TypeInv /\ RepairInv /\ [Next]_vars => RepairInv'
<1> SUFFICES ASSUME OnePass, TypeInv, RepairInv, [Next]_vars PROVE RepairInv' OBVIOUS
<1> USE DEF TypeInv
<1>Reap. ASSUME NEW p \in Pass, Reap(p) PROVE RepairInv'
  <2>1. Kept BY <1>Reap DEF Reap, Kept
  <2>2. pass'[p].pc \in Quiet BY <1>Reap, GotoType DEF Reap, TypeOK, Label, Quiet
  <2> QED BY <2>1, <2>2, QuietStep
<1>PipelineNoNews. ASSUME NEW p \in Pass, PipelineNoNews(p) PROVE RepairInv'
  <2>1. Kept BY <1>PipelineNoNews DEF PipelineNoNews, Kept
  <2>2. pass'[p].pc \in Quiet BY <1>PipelineNoNews, GotoType DEF PipelineNoNews, TypeOK, Label, Quiet
  <2> QED BY <2>1, <2>2, QuietStep
<1>TripBreaker. ASSUME NEW p \in Pass, TripBreaker(p) PROVE RepairInv'
  <2>1. Kept BY <1>TripBreaker DEF TripBreaker, Kept
  <2>2. pass'[p].pc \in Quiet BY <1>TripBreaker, GotoType DEF TripBreaker, TypeOK, Label, Quiet
  <2> QED BY <2>1, <2>2, QuietStep
<1>ReviewCI. ASSUME NEW p \in Pass, ReviewCI(p) PROVE RepairInv'
  <2>1. Kept BY <1>ReviewCI DEF ReviewCI, Kept
  <2>2. pass'[p].pc \in Quiet BY <1>ReviewCI, GotoType DEF ReviewCI, TypeOK, Label, Quiet
  <2> QED BY <2>1, <2>2, QuietStep
<1>ReviewSkip. ASSUME NEW p \in Pass, ReviewSkip(p) PROVE RepairInv'
  <2>1. Kept BY <1>ReviewSkip DEF ReviewSkip, Kept
  <2>2. pass'[p].pc \in Quiet BY <1>ReviewSkip, GotoType DEF ReviewSkip, TypeOK, Label, Quiet
  <2> QED BY <2>1, <2>2, QuietStep
<1>MergeCI. ASSUME NEW p \in Pass, MergeCI(p) PROVE RepairInv'
  <2>1. Kept BY <1>MergeCI DEF MergeCI, Kept
  <2>2. pass'[p].pc \in Quiet BY <1>MergeCI, GotoType DEF MergeCI, TypeOK, Label, Quiet
  <2> QED BY <2>1, <2>2, QuietStep
<1>MergeApproval. ASSUME NEW p \in Pass, MergeApproval(p) PROVE RepairInv'
  <2>1. Kept BY <1>MergeApproval DEF MergeApproval, Kept
  <2>2. pass'[p].pc \in Quiet BY <1>MergeApproval, GotoType DEF MergeApproval, TypeOK, Label, Quiet
  <2> QED BY <2>1, <2>2, QuietStep
<1>MergePR. ASSUME NEW p \in Pass, MergePR(p) PROVE RepairInv'
  <2>1. Kept BY <1>MergePR DEF MergePR, Kept
  <2>2. pass'[p].pc \in Quiet BY <1>MergePR, GotoType DEF MergePR, TypeOK, Label, Quiet
  <2> QED BY <2>1, <2>2, QuietStep
<1>MergeThreads. ASSUME NEW p \in Pass, MergeThreads(p) PROVE RepairInv'
  <2>1. Kept BY <1>MergeThreads DEF MergeThreads, Kept
  <2>2. pass'[p].pc \in Quiet BY <1>MergeThreads, GotoType DEF MergeThreads, TypeOK, Label, Quiet
  <2> QED BY <2>1, <2>2, QuietStep
<1>MainFailed. ASSUME NEW p \in Pass, MainFailed(p) PROVE RepairInv'
  <2>1. Kept BY <1>MainFailed DEF MainFailed, Kept
  <2>2. pass'[p].pc \in Quiet BY <1>MainFailed, GotoType DEF MainFailed, TypeOK, Label, Quiet
  <2> QED BY <2>1, <2>2, QuietStep
<1>MainPassed. ASSUME NEW p \in Pass, MainPassed(p) PROVE RepairInv'
  <2>1. Kept BY <1>MainPassed DEF MainPassed, Kept
  <2>2. pass'[p].pc \in Quiet BY <1>MainPassed, GotoReapType DEF MainPassed, TypeOK, Label, Quiet
  <2> QED BY <2>1, <2>2, QuietStep
<1>MainUndecided. ASSUME NEW p \in Pass, MainUndecided(p) PROVE RepairInv'
  <2>1. Kept BY <1>MainUndecided DEF MainUndecided, Kept
  <2>2. pass'[p].pc \in Quiet BY <1>MainUndecided, ContinueType DEF MainUndecided, TypeOK, Label, Quiet
  <2> QED BY <2>1, <2>2, QuietStep
<1>ReviewSend. ASSUME NEW p \in Pass, ReviewSend(p) PROVE RepairInv'
  <2> DEFINE s == pass[p].cur
             h == [hist[s] EXCEPT !.reviews = [hist[s].reviews EXCEPT ![forge[s].head] = @ + 1]]
  <2>0. s \in Session /\ hist[s] \in HistRec BY <1>ReviewSend, Access DEF PassOK, ReviewSend, At
  <2>1. hist' = [hist EXCEPT ![s] = h] BY <1>ReviewSend DEF ReviewSend
  <2>2. h.repairs = hist[s].repairs /\ h.sent = hist[s].sent BY <2>0, HistKeeps, SMTT(20)
  <2>3. Kept BY <1>ReviewSend, <2>0, <2>1, <2>2 DEF ReviewSend, Kept, TypeOK
  <2>4. {forge[s].head} \in SUBSET (Push \cup Note) BY <2>0, Access, SMTT(20) DEF Forge
  <2>5. pass'[p].pc \in Quiet BY <1>ReviewSend, <2>4, GotoIdsType DEF ReviewSend, TypeOK, Label, Quiet
  <2> QED BY <2>3, <2>5, QuietStep
<1>AskApproval. ASSUME NEW p \in Pass, AskApproval(p) PROVE RepairInv'
  <2> DEFINE s == pass[p].cur
             h == [hist[s] EXCEPT !.asks = @ + 1]
  <2>0. s \in Session /\ hist[s] \in HistRec BY <1>AskApproval, Access DEF PassOK, AskApproval, At
  <2>1. hist' = [hist EXCEPT ![s] = h] BY <1>AskApproval DEF AskApproval
  <2>2. h.repairs = hist[s].repairs /\ h.sent = hist[s].sent BY <2>0, HistKeeps
  <2>3. Kept BY <1>AskApproval, <2>0, <2>1, <2>2 DEF AskApproval, Kept, TypeOK
  <2>5. pass'[p].pc \in Quiet BY <1>AskApproval, GotoType DEF AskApproval, TypeOK, Label, Quiet
  <2> QED BY <2>3, <2>5, QuietStep
<1>ReviewTrivial. ASSUME NEW p \in Pass, ReviewTrivial(p) PROVE RepairInv'
  <2> DEFINE s == pass[p].cur
             e == [watch[s] EXCEPT !.reviewed = forge[s].head]
  <2>0. s \in Session /\ watch[s] \in Entry /\ forge[s] \in Forge
    BY <1>ReviewTrivial, Access DEF PassOK, ReviewTrivial, At
  <2>1. e \in Entry
    <3>1. forge[s].head \in 0..MaxPush BY <2>0, LimitAssumption DEF Forge, Push
    <3> QED BY <2>0, <3>1, EntryMark
  <2>2. e.fails = watch[s].fails /\ e.lastPipe = watch[s].lastPipe BY <2>0, EntryKeeps
  <2>3. Update(s, e) BY <1>ReviewTrivial DEF ReviewTrivial
  <2> HIDE DEF e
  <2>4. Kept BY <1>ReviewTrivial, <2>0, <2>1, <2>2, <2>3, UpdateKeeps DEF ReviewTrivial, Kept
  <2>5. pass'[p].pc \in Quiet BY <1>ReviewTrivial, GotoType DEF ReviewTrivial, TypeOK, Label, Quiet
  <2> QED BY <2>4, <2>5, QuietStep
<1>AskMark. ASSUME NEW p \in Pass, AskMark(p) PROVE RepairInv'
  <2> DEFINE s == pass[p].cur
             e == [watch[s] EXCEPT !.asked = TRUE]
  <2>0. s \in Session /\ watch[s] \in Entry /\ forge[s] \in Forge
    BY <1>AskMark, Access DEF PassOK, AskMark, At
  <2>1. e \in Entry BY <2>0, EntryMark
  <2>2. e.fails = watch[s].fails /\ e.lastPipe = watch[s].lastPipe BY <2>0, EntryKeeps
  <2>3. Update(s, e) BY <1>AskMark DEF AskMark
  <2> HIDE DEF e
  <2>4. Kept BY <1>AskMark, <2>0, <2>1, <2>2, <2>3, UpdateKeeps DEF AskMark, Kept
  <2>5. pass'[p].pc \in Quiet BY <1>AskMark, GotoType DEF AskMark, TypeOK, Label, Quiet
  <2> QED BY <2>4, <2>5, QuietStep
<1>Stamp. ASSUME NEW p \in Pass, Stamp(p) PROVE RepairInv'
  <2> DEFINE s == pass[p].cur
             e == watch[s]
  <2>0. s \in Session /\ watch[s] \in Entry /\ forge[s] \in Forge
    BY <1>Stamp, Access DEF PassOK, Stamp, At
  <2>1. e \in Entry BY <2>0
  <2>2. e.fails = watch[s].fails /\ e.lastPipe = watch[s].lastPipe BY <2>0, EntryKeeps
  <2>3. Update(s, e) BY <1>Stamp DEF Stamp
  <2> HIDE DEF e
  <2>4. Kept BY <1>Stamp, <2>0, <2>1, <2>2, <2>3, UpdateKeeps DEF Stamp, Kept
  <2>5. pass'[p].pc \in Quiet BY <1>Stamp, ContinueType DEF Stamp, TypeOK, Label, Quiet
  <2> QED BY <2>4, <2>5, QuietStep
<1>MainMark. ASSUME NEW p \in Pass, MainMark(p) PROVE RepairInv'
  <2> DEFINE s == pass[p].cur
             e == [watch[s] EXCEPT !.mainDone = TRUE]
  <2>0. s \in Session /\ watch[s] \in Entry /\ forge[s] \in Forge
    BY <1>MainMark, Access DEF PassOK, MainMark, At
  <2>1. e \in Entry BY <2>0, EntryMark
  <2>2. e.fails = watch[s].fails /\ e.lastPipe = watch[s].lastPipe BY <2>0, EntryKeeps
  <2>3. Update(s, e) BY <1>MainMark DEF MainMark
  <2> HIDE DEF e
  <2>4. Kept BY <1>MainMark, <2>0, <2>1, <2>2, <2>3, UpdateKeeps DEF MainMark, Kept
  <2>5. pass'[p].pc \in Quiet BY <1>MainMark, ContinueType DEF MainMark, TypeOK, Label, Quiet
  <2> QED BY <2>4, <2>5, QuietStep
<1>ReviewMark. ASSUME NEW p \in Pass, ReviewMark(p) PROVE RepairInv'
  <2> DEFINE s == pass[p].cur
  <2>0. s \in Session /\ watch[s] \in Entry BY <1>ReviewMark, Access DEF PassOK, ReviewMark, At
  <2>1. PICK c \in pass[p].ids : Update(s, [watch[s] EXCEPT !.reviewed = c])
    BY <1>ReviewMark DEF ReviewMark
  <2> DEFINE e == [watch[s] EXCEPT !.reviewed = c]
  <2>2. e \in Entry
    <3>1. c \in 0..MaxPush BY <1>ReviewMark, LimitAssumption DEF ReviewMark, At, PassOK, Push
    <3> QED BY <2>0, <3>1, EntryMark
  <2>3. e.fails = watch[s].fails /\ e.lastPipe = watch[s].lastPipe BY <2>0, EntryKeeps
  <2>4. Update(s, e) BY <2>1
  <2> HIDE DEF e
  <2>5. Kept BY <1>ReviewMark, <2>0, <2>2, <2>3, <2>4, UpdateKeeps DEF ReviewMark, Kept
  <2>6. pass'[p].pc \in Quiet BY <1>ReviewMark, GotoType DEF ReviewMark, TypeOK, Label, Quiet
  <2> QED BY <2>5, <2>6, QuietStep
<1>Terminal. ASSUME NEW p \in Pass, Terminal(p) PROVE RepairInv'
  <2> DEFINE s == pass[p].cur
             e(b) == [watch[s] EXCEPT !.post = TRUE, !.checks = 0, !.sha = b]
  <2>0. s \in Session /\ watch[s] \in Entry BY <1>Terminal, Access DEF PassOK, Terminal, At
  <2>1. \A b \in BOOLEAN : /\ e(b) \in Entry
                           /\ e(b).fails = watch[s].fails /\ e(b).lastPipe = watch[s].lastPipe
    BY <2>0, EntryMark, EntryKeeps
  <2>2. UNCHANGED watch \/ \E b \in BOOLEAN : Update(s, e(b)) BY <1>Terminal DEF Terminal
  <2> HIDE DEF e
  <2>3. Kept BY <1>Terminal, <2>0, <2>1, <2>2, UpdateKeeps DEF Terminal, Kept
  <2>4. pass'[p].pc \in Quiet
    BY <1>Terminal, ContinueType, GotoReapType DEF Terminal, TypeOK, Label, Quiet
  <2> QED BY <2>3, <2>4, QuietStep
<1>Merged. ASSUME NEW p \in Pass, Merged(p) PROVE RepairInv'
  <2> DEFINE s == pass[p].cur
             e(b) == [watch[s] EXCEPT !.post = TRUE, !.checks = 0, !.sha = b]
  <2>0. s \in Session /\ watch[s] \in Entry BY <1>Merged, Access DEF PassOK, Merged, At
  <2>1. \A b \in BOOLEAN : /\ e(b) \in Entry
                           /\ e(b).fails = watch[s].fails /\ e(b).lastPipe = watch[s].lastPipe
    BY <2>0, EntryMark, EntryKeeps, ZenonT(40)
  <2>2. UNCHANGED watch \/ \E b \in BOOLEAN : Update(s, e(b)) BY <1>Merged DEF Merged
  <2> HIDE DEF e
  <2>3. Kept BY <1>Merged, <2>0, <2>1, <2>2, UpdateKeeps DEF Merged, Kept
  <2>4. pass'[p].pc \in Quiet
    BY <1>Merged, GotoType, GotoReapType DEF Merged, TypeOK, Label, Quiet
  <2> QED BY <2>3, <2>4, QuietStep
<1>PostMerge. ASSUME NEW p \in Pass, PostMerge(p) PROVE RepairInv'
  <2> DEFINE s == pass[p].cur
             e == [watch[s] EXCEPT !.checks = pass[p].entry.checks + 1]
  <2>0. s \in Session /\ watch[s] \in Entry /\ pass[p].entry \in Entry
    BY <1>PostMerge, Access DEF PassOK, PostMerge, At
  <2>1. e \in Entry
    <3>1. pass[p].entry.checks + 1 \in Nat BY <2>0, EntryFields
    <3> QED BY <2>0, <3>1, EntryCount
  <2>2. e.fails = watch[s].fails /\ e.lastPipe = watch[s].lastPipe BY <2>0, EntryKeeps
  <2>3. UNCHANGED watch \/ Update(s, e) BY <1>PostMerge DEF PostMerge
  <2> HIDE DEF e
  <2>4. Kept BY <1>PostMerge, <2>0, <2>1, <2>2, <2>3, UpdateKeeps DEF PostMerge, Kept
  <2>5. pass'[p].pc \in Quiet
    BY <1>PostMerge, GotoType, GotoReapType DEF PostMerge, TypeOK, Label, Quiet
  <2> QED BY <2>4, <2>5, QuietStep
<1>Forget. ASSUME NEW p \in Pass, Forget(p) PROVE RepairInv'
  <2>0. pass[p].back \in {"next", "stamp"} BY DEF TypeOK, PassRec
  <2>1. ~Absent.tracked BY DEF Absent, Fresh
  <2>2. Kept BY <1>Forget, <2>1 DEF Forget, Kept, TypeOK
  <2>3. pass'[p].pc \in Quiet
    BY <1>Forget, <2>0, ContinueType, GotoType DEF Forget, TypeOK, Label, Quiet
  <2> QED BY <2>2, <2>3, QuietStep
<1>StartPass. ASSUME NEW p \in Pass, StartPass(p) PROVE RepairInv'
  <2>1. Kept BY <1>StartPass DEF StartPass, Kept
  <2> DEFINE all == {s \in Session : watch[s].tracked}
             n == [IdlePass EXCEPT !.todo = all, !.pc = IF all = {} THEN "idle" ELSE "next"]
  <2>2. n.pc \in {"idle", "next"} BY IdleType DEF PassRec
  <2>3. pass' = [pass EXCEPT ![p] = n] BY <1>StartPass DEF StartPass
  <2> HIDE DEF n
  <2>4. pass'[p].pc \in Quiet BY <2>2, <2>3 DEF TypeOK, Label, Quiet
  <2> QED BY <2>1, <2>4, QuietStep
<1>EndPass. ASSUME NEW p \in Pass, EndPass(p) PROVE RepairInv'
  <2>1. ~Absent.tracked BY DEF Absent, Fresh
  <2>2. Kept BY <1>EndPass, <2>1 DEF EndPass, Kept, TypeOK
  <2>3. IdlePass.pc = "idle" BY DEF IdlePass
  <2>4. pass'[p].pc \in Quiet BY <1>EndPass, <2>3 DEF EndPass, TypeOK, Label, Quiet
  <2> QED BY <2>2, <2>4, QuietStep
<1>FetchNotFound. ASSUME NEW p \in Pass, FetchNotFound(p) PROVE RepairInv'
  <2> DEFINE s == pass[p].cur
             e == [watch[s] EXCEPT !.notFound = @ + 1]
             h == [hist[s] EXCEPT !.misses = @ + 1]
  <2>0. s \in Session /\ watch[s] \in Entry /\ hist[s] \in HistRec
    BY <1>FetchNotFound, Access DEF PassOK, FetchNotFound, At
  <2>1. e \in Entry
    <3>1. watch[s].notFound + 1 \in Nat BY <2>0, EntryFields
    <3> QED BY <2>0, <3>1, EntryCount
  <2>2. e.fails = watch[s].fails /\ e.lastPipe = watch[s].lastPipe BY <2>0, EntryKeeps
  <2>3. h.repairs = hist[s].repairs /\ h.sent = hist[s].sent BY <2>0, HistKeeps
  <2>4. Update(s, e) /\ hist' = [hist EXCEPT ![s] = h] BY <1>FetchNotFound DEF FetchNotFound
  <2> HIDE DEF e, h
  <2>5. Kept BY <1>FetchNotFound, <2>0, <2>1, <2>2, <2>3, <2>4, UpdateKeeps DEF FetchNotFound, Kept, TypeOK
  <2>6. \A d : [IdlePass EXCEPT !.pc = "next", !.todo = pass[p].todo, !.drop = d].pc = "next"
    BY IdleType DEF PassRec
  <2>7. pass'[p].pc \in Quiet BY <1>FetchNotFound, <2>6 DEF FetchNotFound, TypeOK, Label, Quiet
  <2> QED BY <2>5, <2>7, QuietStep
<1>ApiError. ASSUME NEW p \in Pass, ApiError(p) PROVE RepairInv'
  <2>0. pass[p].pc \in DOMAIN AfterError BY <1>ApiError DEF ApiError
  <2>1. AfterError[pass[p].pc] \in Label BY <2>0 DEF AfterError, Label
  <2>2. Kept BY <1>ApiError DEF ApiError, Kept
  <2>3. CASE AfterError[pass[p].pc] = "pipeline"
    <3>1. pass[p].pc \in {"notes", "sendNotes"} BY <2>0, <2>3 DEF AfterError
    <3>2. Goto(p, "pipeline") BY <1>ApiError, <2>3 DEF ApiError
    <3>3. /\ pass'[p].pc = "pipeline" /\ pass'[p].cur = pass[p].cur
          /\ pass'[p].entry = pass[p].entry
      BY <3>2, GotoType DEF TypeOK, Label
    <3>4. pass[p].cur \in Session /\ watch[pass[p].cur].tracked
      BY <3>1 DEF PassOK, RepairInv, Owns
    <3>5. watch'[pass[p].cur].tracked BY <1>ApiError, <3>4 DEF ApiError
    <3>6. pass[p].pc \in {"fetch", "notes", "sendNotes"} BY <3>1
    <3>7. pass'[p].pc \in {"notes", "sendNotes", "pipeline"} BY <3>3
    <3> HIDE DEF Kept
    <3> QED BY <2>2, <3>3, <3>4, <3>5, <3>6, <3>7, MovesOn
  <2>4. CASE AfterError[pass[p].pc] # "pipeline"
    <3>1. AfterError[pass[p].pc] \in Quiet BY <2>0, <2>4 DEF AfterError, Quiet, Label
    <3>2. pass'[p].pc \in Quiet
      BY <1>ApiError, <2>1, <3>1, GotoType, ContinueType DEF ApiError, TypeOK
    <3> QED BY <2>2, <3>2, QuietStep
  <2> QED BY <2>3, <2>4
<1>Fetch. ASSUME NEW p \in Pass, Fetch(p) PROVE RepairInv'
  <2> DEFINE s == pass[p].cur
             e(n, b) == [watch[s] EXCEPT !.notFound = n, !.labeled = b]
             h == [hist[s] EXCEPT !.misses = 0]
             l == IF forge[s].state \in {"merged", "closed"} THEN "terminal" ELSE "notes"
  <2>0. /\ s \in Session /\ watch[s] \in Entry /\ hist[s] \in HistRec /\ forge[s] \in Forge
        /\ pass[p].entry \in Entry /\ pass[p].pc = "fetch" /\ watch[s].tracked
    BY <1>Fetch, Access DEF PassOK, Fetch, At, RepairInv, Owns
  <2>1. \A n \in Nat, b \in BOOLEAN :
           /\ e(n, b) \in Entry /\ e(n, b).tracked
           /\ e(n, b).fails = watch[s].fails /\ e(n, b).lastPipe = watch[s].lastPipe
    <3>1. \A n \in Nat, b \in BOOLEAN : e(n, b) \in Entry BY <2>0, EntryMark
    <3>2. \A n, b : /\ e(n, b).tracked = watch[s].tracked
                    /\ e(n, b).fails = watch[s].fails /\ e(n, b).lastPipe = watch[s].lastPipe
      BY <2>0 DEF Entry
    <3> HIDE DEF e
    <3> QED BY <2>0, <3>1, <3>2
  <2>2. UNCHANGED watch \/ \E n \in Nat, b \in BOOLEAN : Update(s, e(n, b))
    <3> DEFINE labels == AutoMerge /\ ~pass[p].entry.labeled
               n == IF pass[p].entry.notFound > 0 THEN 0 ELSE watch[s].notFound
               b == watch[s].labeled \/ labels
    <3>1. n \in Nat /\ b \in BOOLEAN BY <2>0, EntryFields, FlagAssumption
    <3>2. UNCHANGED watch \/ Update(s, e(n, b)) BY <1>Fetch DEF Fetch
    <3> QED BY <3>1, <3>2
  <2>3. h.repairs = hist[s].repairs /\ h.sent = hist[s].sent BY <2>0, HistKeeps
  <2>4. hist' = [hist EXCEPT ![s] = h] BY <1>Fetch DEF Fetch
  <2> HIDE DEF e, h
  <2>5. Kept BY <1>Fetch, <2>0, <2>1, <2>2, <2>3, <2>4, UpdateKeeps, ZenonT(40) DEF Fetch, Kept, TypeOK
  <2>6. watch'[s].tracked BY <2>0, <2>1, <2>2 DEF Update, TypeOK
  <2>7. /\ pass'[p].pc = l /\ pass'[p].cur = s /\ pass'[p].entry = pass[p].entry
    <3>1. forge[s].state \in {"opened", "merged", "closed"} BY <1>Fetch, <2>0 DEF Fetch, Forge
    <3>2. l \in Label BY DEF Label
    <3>3. pass' = [pass EXCEPT ![p].pc = l, ![p].seen = forge[s].state] BY <1>Fetch DEF Fetch
    <3> HIDE DEF l
    <3> QED BY <3>1, <3>2, <3>3, SeenType DEF TypeOK
  <2>8. CASE l = "terminal"
    BY <2>5, <2>7, <2>8, QuietStep DEF Quiet, Label
  <2>9. CASE l = "notes"
    BY <2>0, <2>5, <2>6, <2>7, <2>9, MovesOn
  <2> QED BY <2>8, <2>9
<1>ForwardNotes. ASSUME NEW p \in Pass, ForwardNotes(p) PROVE RepairInv'
  <2> DEFINE s == pass[p].cur
             e(n) == [watch[s] EXCEPT !.cursor = n]
             new == NewNotes(s, pass[p].entry.cursor)
  <2>0. /\ s \in Session /\ watch[s] \in Entry /\ pass[p].pc = "notes" /\ watch[s].tracked
    BY <1>ForwardNotes, Access DEF PassOK, ForwardNotes, At, RepairInv, Owns
  <2>1. new \subseteq Note BY LimitAssumption DEF NewNotes, Note
  <2>2. \A n \in Note : /\ e(n) \in Entry /\ e(n).tracked
                        /\ e(n).fails = watch[s].fails /\ e(n).lastPipe = watch[s].lastPipe
    <3>1. Note \subseteq 0..MaxNote BY LimitAssumption DEF Note
    <3>2. \A n \in Note : e(n) \in Entry BY <2>0, <3>1, EntryMark
    <3>3. \A n : /\ e(n).tracked = watch[s].tracked
                 /\ e(n).fails = watch[s].fails /\ e(n).lastPipe = watch[s].lastPipe
      BY <2>0, EntryKeeps, ZenonT(40)
    <3> HIDE DEF e
    <3> QED BY <2>0, <3>2, <3>3
  <2>3. UNCHANGED watch \/ \E n \in Note : Update(s, e(n)) BY <1>ForwardNotes, <2>1 DEF ForwardNotes
  <2>4. GotoIds(p, "sendNotes", new) \/ Goto(p, "pipeline") BY <1>ForwardNotes DEF ForwardNotes
  <2> HIDE DEF e, new
  <2>5. Kept BY <1>ForwardNotes, <2>0, <2>2, <2>3, UpdateKeeps DEF ForwardNotes, Kept
  <2>6. watch'[s].tracked BY <2>0, <2>2, <2>3 DEF Update, TypeOK
  <2>7. /\ pass'[p].pc \in {"sendNotes", "pipeline"}
        /\ pass'[p].cur = s /\ pass'[p].entry = pass[p].entry
    BY <2>1, <2>4, GotoType, GotoIdsType DEF TypeOK, Label
  <2> QED BY <2>0, <2>5, <2>6, <2>7, MovesOn
<1>SendNotes. ASSUME NEW p \in Pass, SendNotes(p) PROVE RepairInv'
  <2> DEFINE s == pass[p].cur
             h(f) == [hist[s] EXCEPT !.fwd = f]
  <2>0. /\ s \in Session /\ hist[s] \in HistRec /\ pass[p].pc = "sendNotes" /\ watch[s].tracked
    BY <1>SendNotes, Access DEF PassOK, SendNotes, At, RepairInv, Owns
  <2>1. PICK f : hist' = [hist EXCEPT ![s] = h(f)] BY <1>SendNotes DEF SendNotes
  <2>2. h(f).repairs = hist[s].repairs /\ h(f).sent = hist[s].sent BY <2>0, HistKeeps
  <2> HIDE DEF h
  <2>3. Kept BY <1>SendNotes, <2>0, <2>1, <2>2 DEF SendNotes, Kept, TypeOK
  <2>4. pass'[p].pc = "pipeline" /\ pass'[p].cur = s /\ pass'[p].entry = pass[p].entry
    BY <1>SendNotes, GotoIdsType DEF SendNotes, TypeOK, Label
  <2> QED BY <1>SendNotes, <2>0, <2>3, <2>4, MovesOn DEF SendNotes
<1>Visit. ASSUME NEW p \in Pass, NEW s \in Session, Visit(p, s) PROVE RepairInv'
  <2> DEFINE h == [hist[s] EXCEPT !.touched = FALSE]
             n == [IdlePass EXCEPT
                    !.pc = IF watch[s].post THEN "postMerge" ELSE "fetch",
                    !.cur = s, !.entry = watch[s], !.live = worker[s] = "live",
                    !.todo = pass[p].todo \ {s}, !.drop = pass[p].drop]
  <2>1. h.repairs = hist[s].repairs /\ h.sent = hist[s].sent BY HistKeeps DEF TypeOK
  <2>2. UNCHANGED hist \/ hist' = [hist EXCEPT ![s] = h] BY <1>Visit DEF Visit
  <2> HIDE DEF h
  <2>3. Kept BY <1>Visit, <2>1, <2>2 DEF Visit, Kept, TypeOK
  <2>4. CASE watch[s].tracked
    <3>1. pass' = [pass EXCEPT ![p] = n] BY <1>Visit, <2>4 DEF Visit
    <3>2. n.pc \in {"postMerge", "fetch"} /\ n.cur = s /\ n.entry = watch[s]
      BY IdleType DEF PassRec
    <3> HIDE DEF n
    <3>3. pass'[p] = n BY <3>1 DEF TypeOK
    <3>4. \A q \in Pass : q = p BY DEF OnePass
    <3>5. Owns(p)' BY <1>Visit, <2>4, <3>2, <3>3 DEF Owns, Visit
    <3>6. Owed(p)' BY <3>2, <3>3 DEF Owed
    <3> QED BY <2>3, <3>4, <3>5, <3>6, LedgerKept DEF RepairInv
  <2>5. CASE ~watch[s].tracked
    <3>1. pass'[p].pc = pass[p].pc /\ pass[p].pc = "next"
      BY <1>Visit, <2>5 DEF Visit, At, TypeOK, PassRec
    <3> QED BY <2>3, <3>1, QuietStep DEF Quiet, Label
  <2> QED BY <2>4, <2>5
<1>PipelineFailed. ASSUME NEW p \in Pass, PipelineFailed(p) PROVE RepairInv'
  <2> DEFINE s == pass[p].cur
             c == forge[s].head
             fails == pass[p].entry.fails + 1
             e == [watch[s] EXCEPT !.fails = fails, !.lastPipe = c]
             l == AfterFailure(p, fails)
  <2>0. /\ s \in Session /\ watch[s] \in Entry /\ watch[s].tracked /\ forge[s] \in Forge
        /\ pass[p].entry.fails = watch[s].fails /\ pass[p].entry.lastPipe = watch[s].lastPipe
        /\ hist[s] \in HistRec
    BY <1>PipelineFailed, Access DEF PassOK, PipelineFailed, At, RepairInv, Owns
  <2>1. c \in Push /\ c \in 0..MaxPush /\ fails \in Nat /\ watch[s].lastPipe \in 0..MaxPush
    <3>1. c \in Push BY <2>0 DEF Forge
    <3> QED BY <2>0, <3>1, EntryFields, LimitAssumption DEF Push
  <2>2. e.tracked /\ e.fails = fails /\ e.lastPipe = c
    BY <2>0 DEF Entry
  <2>3. watch' = [watch EXCEPT ![s] = e] BY <1>PipelineFailed, <2>0 DEF PipelineFailed, Update
  <2>4. GotoIds(p, l, {c}) BY <1>PipelineFailed DEF PipelineFailed
  <2>5. c # watch[s].lastPipe BY <1>PipelineFailed, <2>0 DEF PipelineFailed, Failed, News
  <2>6. UNCHANGED <<forge, hist>> BY <1>PipelineFailed DEF PipelineFailed
  <2>7. l \in {"breaker", "repair", "reviewCI"} /\ (l = "repair" => ~(fails > RepairLimit))
    BY DEF AfterFailure
  <2>8. Ledger(s) BY <2>0 DEF RepairInv
  <2>9. \A t \in Session : hist[t].repairs \in Nat BY HistFields DEF TypeOK
  <2> HIDE DEF e, l
  <2>10. watch'[s] = e /\ \A t \in Session \ {s} : watch'[t] = watch[t]
    BY <2>0, <2>3 DEF TypeOK
  <2>11. watch[s].lastPipe < c /\ hist[s].repairs < fails
    <3>1. watch[s].fails \in Nat /\ hist[s].repairs \in Nat BY <2>0, <2>9, EntryFields
    <3>2. watch[s].lastPipe <= c /\ hist[s].repairs <= watch[s].fails BY <2>0, <2>8 DEF Ledger
    <3>3. watch[s].lastPipe < c BY <2>1, <2>5, <3>2, LimitAssumption DEF Push
    <3>4. hist[s].repairs < fails BY <2>0, <3>1, <3>2
    <3> QED BY <3>3, <3>4
  <2>12. \A t \in Session : Ledger(t)'
    <3> SUFFICES ASSUME NEW t \in Session PROVE Ledger(t)' OBVIOUS
    <3>1. CASE t = s
      BY <2>0, <2>1, <2>2, <2>6, <2>8, <2>9, <2>10, <2>11, <3>1, LimitAssumption DEF Ledger, Push
    <3>2. CASE t # s BY <2>6, <2>10, <3>2 DEF Ledger, RepairInv
    <3> QED BY <3>1, <3>2
  <2>13. pass'[p].pc = l /\ pass'[p].cur = s /\ pass'[p].ids = {c}
    <3>1. l \in Label BY <2>7 DEF Label
    <3>2. {c} \in SUBSET (Push \cup Note) BY <2>1
    <3> QED BY <2>4, <3>1, <3>2, GotoIdsType DEF TypeOK
  <2>14. Owns(p)' BY <2>7, <2>13 DEF Owns
  <2>15. Owed(p)'
    <3> SUFFICES ASSUME l = "repair" PROVE Owed(p)' BY <2>13 DEF Owed
    <3>1. fails <= RepairLimit BY <2>1, <2>7, LimitAssumption
    <3>2. hist[s].sent[c] = 0 BY <2>0, <2>1, <2>8, <2>11 DEF Ledger
    <3> QED BY <2>1, <2>2, <2>6, <2>10, <2>11, <2>13, <3>1, <3>2 DEF Owed
  <2>16. BoundedRepair' BY <2>6 DEF RepairInv, BoundedRepair
  <2>17. \A q \in Pass : q = p BY DEF OnePass
  <2> QED BY <2>12, <2>14, <2>15, <2>16, <2>17 DEF RepairInv
<1>PipelinePassed. ASSUME NEW p \in Pass, PipelinePassed(p) PROVE RepairInv'
  <2> DEFINE s == pass[p].cur
             c == forge[s].head
             e == [watch[s] EXCEPT !.fails = 0, !.lastPipe = c]
             h == [hist[s] EXCEPT !.repairs = 0]
  <2>0. /\ s \in Session /\ watch[s] \in Entry /\ watch[s].tracked /\ forge[s] \in Forge
        /\ hist[s] \in HistRec
    BY <1>PipelinePassed, Access DEF PassOK, PipelinePassed, At, RepairInv, Owns
  <2>1. c \in Push /\ watch[s].lastPipe \in 0..MaxPush
    BY <2>0, EntryFields DEF Forge
  <2>2. e.tracked /\ e.fails = 0 /\ e.lastPipe = c BY <2>0 DEF Entry
  <2>3. watch' = [watch EXCEPT ![s] = e] BY <1>PipelinePassed, <2>0 DEF PipelinePassed, Update
  <2>4. h.repairs = 0 /\ h.sent = hist[s].sent BY <2>0 DEF HistRec
  <2>5. hist' = [hist EXCEPT ![s] = h] BY <1>PipelinePassed DEF PipelinePassed
  <2> HIDE DEF e, h
  <2>6. /\ watch'[s] = e /\ hist'[s] = h
        /\ \A t \in Session \ {s} : watch'[t] = watch[t] /\ hist'[t] = hist[t]
    BY <2>0, <2>3, <2>5 DEF TypeOK
  <2>7. UNCHANGED forge BY <1>PipelinePassed DEF PipelinePassed
  <2>8. Ledger(s) BY <2>0 DEF RepairInv
  <2>9. \A t \in Session : Ledger(t)'
    <3> SUFFICES ASSUME NEW t \in Session PROVE Ledger(t)' OBVIOUS
    <3>1. CASE t = s
      BY <2>0, <2>1, <2>2, <2>4, <2>6, <2>7, <2>8, <3>1, LimitAssumption DEF Ledger, Push
    <3>2. CASE t # s BY <2>6, <2>7, <3>2 DEF Ledger, RepairInv
    <3> QED BY <3>1, <3>2
  <2>10. BoundedRepair'
    BY <2>4, <2>6, LimitAssumption DEF RepairInv, BoundedRepair
  <2>11. pass'[p].pc = "reviewCI"
    BY <1>PipelinePassed, GotoType, SMTT(20) DEF PipelinePassed, TypeOK, Label
  <2>12. \A q \in Pass : q = p BY DEF OnePass
  <2> QED BY <2>9, <2>10, <2>11, <2>12 DEF RepairInv, Owns, Owed
<1>SendRepair. ASSUME NEW p \in Pass, SendRepair(p) PROVE RepairInv'
  <2> DEFINE s == pass[p].cur
             c == watch[s].lastPipe
             f == [k \in Push |-> IF k \in pass[p].ids THEN hist[s].sent[k] + 1 ELSE hist[s].sent[k]]
             h == [hist[s] EXCEPT !.repairs = hist[s].repairs + 1, !.sent = f]
  <2>0. /\ s \in Session /\ watch[s] \in Entry /\ hist[s] \in HistRec
        /\ watch[s].tracked /\ watch[s].fails <= RepairLimit /\ hist[s].repairs < watch[s].fails
        /\ c \in Push /\ pass[p].ids = {c} /\ hist[s].sent[c] = 0
    BY <1>SendRepair, Access DEF PassOK, SendRepair, At, RepairInv, Owed
  <2>1. h.repairs = hist[s].repairs + 1 /\ h.sent = f BY <2>0, SMTT(20) DEF HistRec
  <2>2. hist' = [hist EXCEPT ![s] = h] BY <1>SendRepair DEF SendRepair
  <2>3. /\ hist[s].repairs \in Nat /\ watch[s].fails \in Nat /\ RepairLimit \in Nat
        /\ hist[s].sent \in [Push -> Nat]
    BY <2>0, HistFields, EntryFields, LimitAssumption
  <2>4. \A k \in Push : f[k] = IF k = c THEN 1 ELSE hist[s].sent[k] BY <2>0, <2>3
  <2> HIDE DEF h, f
  <2>5. hist'[s] = h /\ \A t \in Session \ {s} : hist'[t] = hist[t] BY <2>0, <2>2 DEF TypeOK
  <2>6. UNCHANGED <<watch, forge>> BY <1>SendRepair DEF SendRepair
  <2>7. Ledger(s) BY <2>0 DEF RepairInv
  <2>8. \A t \in Session : Ledger(t)'
    <3> SUFFICES ASSUME NEW t \in Session PROVE Ledger(t)' OBVIOUS
    <3>1. CASE t = s
      <4>1. h.repairs <= watch[s].fails BY <2>0, <2>1, <2>3
      <4>2. \A k \in Push : k > c => h.sent[k] = 0
        BY <2>0, <2>1, <2>4, <2>7, LimitAssumption DEF Ledger, Push
      <4> QED BY <2>0, <2>5, <2>6, <2>7, <3>1, <4>1, <4>2 DEF Ledger
    <3>2. CASE t # s BY <2>5, <2>6, <3>2 DEF Ledger, RepairInv
    <3> QED BY <3>1, <3>2
  <2>9. BoundedRepair'
    <3> SUFFICES ASSUME NEW t \in Session
                 PROVE  hist'[t].repairs <= RepairLimit /\ \A k \in Push : hist'[t].sent[k] <= 1
      BY DEF BoundedRepair
    <3>1. CASE t = s
      <4>1. h.repairs <= RepairLimit BY <2>0, <2>1, <2>3
      <4>2. \A k \in Push : h.sent[k] <= 1 BY <2>0, <2>1, <2>4 DEF RepairInv, BoundedRepair
      <4> QED BY <2>5, <3>1, <4>1, <4>2
    <3>2. CASE t # s BY <2>5, <3>2 DEF RepairInv, BoundedRepair
    <3> QED BY <3>1, <3>2
  <2>10. pass'[p].pc = "reviewCI" BY <1>SendRepair, GotoType DEF SendRepair, TypeOK, Label
  <2>11. \A q \in Pass : q = p BY DEF OnePass
  <2> QED BY <2>8, <2>9, <2>10, <2>11 DEF RepairInv, Owns, Owed
<1>Merge. ASSUME NEW p \in Pass, Merge(p) PROVE RepairInv'
  <2> DEFINE s == pass[p].cur
             h(m) == [hist[s] EXCEPT !.finished = TRUE, !.merge = m]
             f(m) == [forge[s] EXCEPT !.state = "merged", !.main = m]
  <2>0. s \in Session /\ hist[s] \in HistRec /\ forge[s] \in Forge
    BY <1>Merge, Access DEF PassOK, Merge, At
  <2>1. \A m : h(m).repairs = hist[s].repairs /\ h(m).sent = hist[s].sent BY <2>0, HistKeeps
  <2>2. \A m : f(m).head = forge[s].head BY <2>0, SMTT(20) DEF Forge
  <2>3. UNCHANGED hist \/ \E m : hist' = [hist EXCEPT ![s] = h(m)] BY <1>Merge, ZenonT(40) DEF Merge
  <2>4. UNCHANGED forge \/ \E m : forge' = [forge EXCEPT ![s] = f(m)] BY <1>Merge DEF Merge
  <2> HIDE DEF h, f
  <2>5. \A t \in Session : hist'[t].repairs = hist[t].repairs /\ hist'[t].sent = hist[t].sent
    BY <2>0, <2>1, <2>3 DEF TypeOK
  <2>6. \A t \in Session : forge'[t].head = forge[t].head BY <2>0, <2>2, <2>4 DEF TypeOK
  <2>7. Kept BY <1>Merge, <2>5, <2>6 DEF Merge, Kept
  <2>8. pass'[p].pc \in Quiet BY <1>Merge, GotoType DEF Merge, TypeOK, Label, Quiet
  <2> QED BY <2>7, <2>8, QuietStep
<1>Crash. ASSUME Crash PROVE RepairInv'
  <2>1. IdlePass.pc = "idle" BY DEF IdlePass
  <2>2. \A p \in Pass : pass'[p].pc = "idle" BY <1>Crash, <2>1 DEF Crash
  <2>3. Kept BY <1>Crash DEF Crash, Kept
  <2> QED BY <2>2, <2>3, LedgerKept DEF RepairInv, Owns, Owed
<1>TrackMR. ASSUME NEW s \in Session, TrackMR(s) PROVE RepairInv'
  <2> DEFINE e == Fresh(worker[s] # "none")
  <2>1. e.fails = 0 /\ e.lastPipe = 0 BY DEF Fresh
  <2>2. NewHist.repairs = 0 /\ NewHist.sent = [c \in Push |-> 0] BY DEF NewHist
  <2>3. watch' = [watch EXCEPT ![s] = e] /\ hist' = [hist EXCEPT ![s] = NewHist]
    BY <1>TrackMR DEF TrackMR
  <2> HIDE DEF e
  <2>4. /\ watch'[s] = e /\ hist'[s] = NewHist
        /\ \A t \in Session \ {s} : watch'[t] = watch[t] /\ hist'[t] = hist[t]
    BY <2>3 DEF TypeOK
  <2>5. UNCHANGED <<forge, pass>> BY <1>TrackMR DEF TrackMR
  <2>6. forge[s].head \in Push BY DEF TypeOK, Forge
  <2>7. \A t \in Session : Ledger(t)'
    BY <2>1, <2>2, <2>4, <2>5, <2>6, LimitAssumption DEF Ledger, RepairInv, Push
  <2>8. BoundedRepair'
    BY <2>2, <2>4, LimitAssumption DEF RepairInv, BoundedRepair
  <2>9. ASSUME NEW p \in Pass PROVE Owns(p)' /\ Owed(p)'
    <3>1. pass[p].cur # s BY <1>TrackMR DEF TrackMR
    <3>2. pass[p].pc \notin {"idle", "next"} => pass[p].cur \in Session BY DEF PassOK
    <3>3. Owns(p)' BY <2>4, <2>5, <3>1, <3>2 DEF RepairInv, Owns
    <3>4. Owed(p)' BY <2>4, <2>5, <3>1, <3>2 DEF RepairInv, Owed
    <3> QED BY <3>3, <3>4
  <2> QED BY <2>7, <2>8, <2>9 DEF RepairInv
<1>WorkerChange. ASSUME NEW s \in Session, WorkerChange(s) PROVE RepairInv'
  BY <1>WorkerChange, Outside DEF WorkerChange
<1>PostNote. ASSUME NEW s \in Session, PostNote(s) PROVE RepairInv'
  BY <1>PostNote, Outside DEF PostNote
<1>PushCommit. ASSUME NEW s \in Session, PushCommit(s) PROVE RepairInv'
  <2> DEFINE f == [forge[s] EXCEPT !.head = @ + 1, !.ci[forge[s].head + 1] = "running"]
  <2>1. f.head = forge[s].head + 1 BY DEF TypeOK, Forge
  <2>2. ForgeStep(s, f) BY <1>PushCommit DEF PushCommit
  <2> HIDE DEF f
  <2> QED BY <2>1, <2>2, ForgeStepKeeps
<1>FinishPipeline. ASSUME NEW s \in Session, FinishPipeline(s) PROVE RepairInv'
  <2> DEFINE f(c, r) == [forge[s] EXCEPT !.ci[c] = r]
  <2>1. \A c, r : f(c, r).head = forge[s].head BY DEF TypeOK, Forge
  <2>2. \E c, r : ForgeStep(s, f(c, r)) BY <1>FinishPipeline DEF FinishPipeline
  <2> HIDE DEF f
  <2> QED BY <2>1, <2>2, ForgeStepKeeps
<1>FinishMain. ASSUME NEW s \in Session, FinishMain(s) PROVE RepairInv'
  <2> DEFINE f(r) == [forge[s] EXCEPT !.main = r]
  <2>1. \A r : f(r).head = forge[s].head BY DEF TypeOK, Forge
  <2>2. \E r : ForgeStep(s, f(r)) BY <1>FinishMain DEF FinishMain
  <2> HIDE DEF f
  <2> QED BY <2>1, <2>2, ForgeStepKeeps
<1>HumanStep. ASSUME NEW s \in Session, HumanStep(s) PROVE RepairInv'
  <2>1. \E f : f.head = forge[s].head /\ ForgeStep(s, f)
    <3> DEFINE g == forge[s]
    <3>0. g \in Forge BY DEF TypeOK
    <3>1. \A x : [g EXCEPT !.approved = x].head = g.head BY <3>0 DEF Forge
    <3>2. \A x : [g EXCEPT !.draft = x].head = g.head BY <3>0 DEF Forge
    <3>3. \A x : [g EXCEPT !.thread = x].head = g.head BY <3>0 DEF Forge
    <3>4. \A x : [g EXCEPT !.state = "merged", !.main = x].head = g.head BY <3>0 DEF Forge
    <3>5. \A x : [g EXCEPT !.state = x].head = g.head BY <3>0 DEF Forge
    <3>6. \A x : [g EXCEPT !.ci = x].head = g.head BY <3>0 DEF Forge
    <3>7. \/ \E x : ForgeStep(s, [g EXCEPT !.approved = x])
          \/ \E x : ForgeStep(s, [g EXCEPT !.draft = x])
          \/ \E x : ForgeStep(s, [g EXCEPT !.thread = x])
          \/ \E x : ForgeStep(s, [g EXCEPT !.state = "merged", !.main = x])
          \/ \E x : ForgeStep(s, [g EXCEPT !.state = x])
          \/ \E x : ForgeStep(s, [g EXCEPT !.ci = x])
      BY <1>HumanStep DEF HumanStep
    <3> QED BY <3>1, <3>2, <3>3, <3>4, <3>5, <3>6, <3>7
  <2> QED BY <2>1, ForgeStepKeeps
<1>Stutter. CASE UNCHANGED vars
  BY <1>Stutter, Outside DEF vars
<1> QED
  BY <1>StartPass, <1>EndPass, <1>Visit, <1>FetchNotFound, <1>Fetch, <1>Reap,
     <1>PipelineNoNews, <1>TripBreaker, <1>ReviewCI, <1>ReviewSkip, <1>MergeCI,
     <1>MergeApproval, <1>MergePR, <1>MergeThreads, <1>MainFailed, <1>Terminal,
     <1>Forget, <1>ForwardNotes, <1>SendNotes, <1>PipelineFailed,
     <1>PipelinePassed, <1>SendRepair, <1>ReviewTrivial, <1>ReviewMark,
     <1>AskMark, <1>Merged, <1>Stamp, <1>PostMerge, <1>MainMark, <1>MainPassed,
     <1>MainUndecided, <1>ReviewSend, <1>AskApproval, <1>Merge, <1>ApiError,
     <1>TrackMR, <1>WorkerChange, <1>PushCommit, <1>FinishPipeline,
     <1>FinishMain, <1>HumanStep, <1>PostNote, <1>Crash, <1>Stutter
  DEF Next, RunStep, EntryStep, Environment

(* At most RepairLimit repair messages between two green pipelines, and none   *)
(* twice for one pipeline, for any number of merge requests, pushes, crashes   *)
(* and errors, as long as one Run is active at a time.                         *)
THEOREM RepairBounded ==
    ASSUME OnePass
    PROVE  Spec => []BoundedRepair
<1>1. TypeInv /\ RepairInv /\ [Next]_vars => RepairInv' BY StepRepair
<1>2. Spec => []RepairInv BY <1>1, InitType, StepType, InitRepair, PTL DEF Spec
<1>3. RepairInv => BoundedRepair BY DEF RepairInv
<1> QED BY <1>2, <1>3, PTL
-----------------------------------------------------------------------------
(* The kinds of steps.  The invariants below read six fields of an entry and   *)
(* seven of its history; the definitions say, kind by kind, what a step does   *)
(* to those and to the pass, and StepKinds finds the kind of every step.  So   *)
(* an invariant has one case for each kind and not one for each action.        *)
Marks == {"tracked", "post", "notFound", "cursor", "asked", "reviewed"}
Said == {"fwd", "reviews", "asks", "misses", "touched", "merge", "finished"}

Same(fields, e, f) == \A k \in fields : f[k] = e[k]
MarksKept(s, but) == Same(Marks \ but, watch[s], watch'[s])
SaidKept(s, but) == Same(Said \ but, hist[s], hist'[s])

Alone == \A t \in Session : MarksKept(t, {}) /\ SaidKept(t, {})
AllBut(s) == s \in Session /\ \A t \in Session \ {s} : MarksKept(t, {}) /\ SaidKept(t, {})

Calm == UNCHANGED <<forge, issueClosed>> /\ budget'.crashes = budget.crashes

(* The pass keeps its entry, or puts it down and goes on to the next key.      *)
Others(p) == \A q \in Pass \ {p} : pass'[q] = pass[q]

InHand(p, l) ==
    /\ pass'[p].pc = l /\ pass'[p].cur = pass[p].cur /\ pass'[p].entry = pass[p].entry
    /\ pass'[p].todo = pass[p].todo /\ pass'[p].drop = pass[p].drop /\ Others(p)

PutDown(p) ==
    /\ pass'[p].pc = "next" /\ pass'[p].cur = NoSession
    /\ pass'[p].todo = pass[p].todo /\ pass'[p].drop = pass[p].drop /\ Others(p)

(* Where a pass may go without a message or a mark.                            *)
Edge(p, l) ==
    \/ pass[p].pc \in {"terminal", "merged", "mainPoll", "postMerge"} /\ l = "reap"
    \/ pass[p].pc = "reap" /\ l = "forget"
    \/ pass[p].pc = "postMerge" /\ l = "mainPoll"
    \/ pass[p].pc = "mainPoll" /\ l = "mainMark"
    \/ pass[p].pc \in {"notes", "sendNotes"} /\ l = "pipeline"
    \/ pass[p].pc = "pipeline" /\ l \in {"breaker", "repair"}
    \/ pass[p].pc \in {"pipeline", "breaker", "repair"} /\ l = "reviewCI"
    \/ pass[p].pc = "reviewCI" /\ l \in {"reviewPR", "mergeCI"}
    \/ pass[p].pc = "reviewPR" /\ l = "mergeCI"
    \/ pass[p].pc = "mergeCI" /\ l = "mergeApproval" /\ CIStatus(pass[p].cur) = "success"
    \/ pass[p].pc = "mergeApproval" /\ l = "ask" /\ ~pass[p].entry.asked
    \/ pass[p].pc = "mergeApproval" /\ l = "mergePR"
    \/ pass[p].pc = "mergePR" /\ l = "mergeThreads"
    \/ pass[p].pc = "mergeThreads" /\ l = "merge"
    \/ pass[p].pc \in {"mergeCI", "mergeApproval", "mergePR", "mergeThreads", "merge"} /\ l = "stamp"

Walks(p) ==
    /\ Calm /\ Alone /\ pass[p].cur \in Session
    /\ \E l \in Label : InHand(p, l) /\ Edge(p, l) /\ pass'[p].seen = pass[p].seen

Leaves(p) == Calm /\ Alone /\ PutDown(p) /\ pass[p].pc \notin {"reviewMark", "askMark"}

Settles(p) ==
    LET s == pass[p].cur IN
    /\ Calm /\ AllBut(s) /\ SaidKept(s, {}) /\ MarksKept(s, {"post"})
    /\ \/ pass[p].pc = "terminal" /\ pass[p].seen = "merged" /\ PutDown(p)
       \/ pass[p].pc = "merged" /\ InHand(p, "stamp")

(* A pass starts, ends, skips a key that is gone, or takes an entry up.        *)
Begins(p) ==
    /\ Calm /\ Alone /\ Others(p)
    /\ pass[p].pc = "idle" /\ pass'[p].pc \in {"idle", "next"}
    /\ pass'[p].cur = NoSession /\ pass'[p].todo \subseteq Session /\ pass'[p].drop = {}

Ends(p) ==
    /\ Calm /\ Others(p) /\ pass[p].pc = "next" /\ pass'[p].pc = "idle"
    /\ pass'[p].cur = NoSession /\ pass'[p].todo = {} /\ pass'[p].drop = {}
    /\ \A s \in Session :
          /\ SaidKept(s, {})
          /\ IF s \in pass[p].drop THEN ~watch'[s].tracked ELSE MarksKept(s, {})

Skips(p) ==
    /\ Calm /\ Alone /\ Others(p) /\ pass[p].pc = "next" /\ pass'[p].pc = "next"
    /\ pass'[p].cur = pass[p].cur /\ pass'[p].drop = pass[p].drop
    /\ pass'[p].todo \subseteq pass[p].todo

Enters(p) ==
    LET s == pass'[p].cur IN
    /\ Calm /\ AllBut(s) /\ Others(p) /\ pass[p].pc = "next" /\ s \in pass[p].todo
    /\ watch[s].tracked /\ MarksKept(s, {}) /\ SaidKept(s, {"touched"})
    /\ pass'[p].pc = IF watch[s].post THEN "postMerge" ELSE "fetch"
    /\ pass'[p].entry = watch[s]
    /\ pass'[p].todo = pass[p].todo \ {s} /\ pass'[p].drop = pass[p].drop

(* The answers of GetPR, and the entry's end.                                  *)
Misses(p) ==
    LET s == pass[p].cur IN
    /\ pass[p].pc = "fetch" /\ Calm /\ AllBut(s) /\ Others(p)
    /\ MarksKept(s, {"notFound"}) /\ SaidKept(s, {"misses"})
    /\ watch[s].tracked => watch'[s].notFound = watch[s].notFound + 1
    /\ hist'[s].misses = hist[s].misses + 1
    /\ pass'[p].pc = "next" /\ pass'[p].cur = NoSession /\ pass'[p].todo = pass[p].todo
    /\ pass'[p].drop = IF pass[p].entry.notFound + 1 >= NotFoundLimit
                       THEN pass[p].drop \cup {s} ELSE pass[p].drop

Answered(p) ==
    LET s == pass[p].cur
        over == forge[s].state \in {"merged", "closed"} IN
    /\ pass[p].pc = "fetch" /\ UNCHANGED forge /\ budget'.crashes = budget.crashes /\ AllBut(s)
    /\ MarksKept(s, {"notFound"}) /\ SaidKept(s, {"misses"})
    /\ watch[s].tracked =>
          watch'[s].notFound = IF pass[p].entry.notFound > 0 THEN 0 ELSE watch[s].notFound
    /\ hist'[s].misses = 0
    /\ \A t \in Session : issueClosed'[t] <=> issueClosed[t] \/ (t = s /\ forge[s].state = "merged")
    /\ InHand(p, IF over THEN "terminal" ELSE "notes") /\ pass'[p].seen = forge[s].state

Forgets(p) ==
    LET s == pass[p].cur IN
    /\ pass[p].pc = "forget" /\ Calm /\ AllBut(s) /\ SaidKept(s, {}) /\ ~watch'[s].tracked
    /\ PutDown(p) \/ InHand(p, "stamp")

(* Messages and their marks.                                                   *)
Forwards(p) ==
    LET s == pass[p].cur IN
    /\ pass[p].pc = "notes" /\ Calm /\ AllBut(s) /\ InHand(p, "sendNotes")
    /\ MarksKept(s, {"cursor"}) /\ SaidKept(s, {})
    /\ \A n \in pass'[p].ids : n \in Note /\ n > pass[p].entry.cursor
    /\ watch[s].tracked => /\ watch'[s].cursor \in pass'[p].ids
                           /\ \A n \in pass'[p].ids : n <= watch'[s].cursor

Sends(p) ==
    LET s == pass[p].cur IN
    /\ pass[p].pc = "sendNotes" /\ Calm /\ AllBut(s) /\ InHand(p, "pipeline")
    /\ MarksKept(s, {}) /\ SaidKept(s, {"fwd"})
    /\ \A n \in Note : hist'[s].fwd[n] = IF n \in pass[p].ids THEN hist[s].fwd[n] + 1 ELSE hist[s].fwd[n]

Requests(p) ==
    LET s == pass[p].cur
        c == forge[s].head IN
    /\ pass[p].pc = "reviewPR" /\ Calm /\ AllBut(s) /\ InHand(p, "reviewMark")
    /\ pass'[p].ids = {c} /\ pass[p].entry.reviewed # c
    /\ MarksKept(s, {}) /\ SaidKept(s, {"reviews"})
    /\ \A k \in Push : hist'[s].reviews[k] = IF k = c THEN hist[s].reviews[k] + 1 ELSE hist[s].reviews[k]

Reviewed(p) ==
    LET s == pass[p].cur
        c == watch'[s].reviewed IN
    /\ Calm /\ AllBut(s) /\ InHand(p, "mergeCI") /\ MarksKept(s, {"reviewed"}) /\ SaidKept(s, {})
    /\ \/ pass[p].pc = "reviewPR" /\ (watch[s].tracked => c = forge[s].head)
       \/ pass[p].pc = "reviewMark" /\ (watch[s].tracked => c \in pass[p].ids)

Asks(p) ==
    LET s == pass[p].cur IN
    /\ pass[p].pc = "ask" /\ Calm /\ AllBut(s) /\ InHand(p, "askMark")
    /\ MarksKept(s, {}) /\ SaidKept(s, {"asks"}) /\ hist'[s].asks = hist[s].asks + 1

Asked(p) ==
    LET s == pass[p].cur IN
    /\ pass[p].pc = "askMark" /\ Calm /\ AllBut(s) /\ InHand(p, "stamp")
    /\ MarksKept(s, {"asked"}) /\ SaidKept(s, {}) /\ (watch[s].tracked => watch'[s].asked)

Accepted(p) ==
    LET s == pass[p].cur
        f == forge[s] IN
    /\ pass[p].pc = "merge" /\ AllBut(s) /\ InHand(p, "merged")
    /\ MarksKept(s, {}) /\ SaidKept(s, {"merge", "finished"})
    /\ UNCHANGED issueClosed /\ budget'.crashes = budget.crashes
    /\ forge'[s].head = f.head /\ forge'[s].ci = f.ci /\ forge'[s].state = "merged"
    /\ \A t \in Session \ {s} : forge'[t] = forge[t]
    /\ f.state = "opened" /\ ~f.draft /\ (GitLabRepo \/ f.approved)
    /\ hist'[s].finished
    /\ hist'[s].merge = IF Gated(f) THEN "gated" ELSE IF hist[s].touched THEN "raced" ELSE "ungated"

(* The surroundings.                                                           *)
Restarts ==
    /\ UNCHANGED <<forge, watch, issueClosed, hist>> /\ budget'.crashes = budget.crashes + 1
    /\ \A p \in Pass : /\ pass'[p].pc = "idle" /\ pass'[p].cur = NoSession
                       /\ pass'[p].todo = {} /\ pass'[p].drop = {}

Tracked(s) ==
    /\ Calm /\ UNCHANGED pass /\ AllBut(s) /\ ~watch[s].tracked /\ forge[s].state = "opened"
    /\ \A p \in Pass : pass[p].cur # s /\ s \notin pass[p].drop
    /\ ~watch'[s].post /\ watch'[s].notFound = 0 /\ watch'[s].cursor = 0
    /\ ~watch'[s].asked /\ watch'[s].reviewed = 0
    /\ hist'[s] = NewHist

Moved(s) ==
    LET f == forge'[s] IN
    /\ UNCHANGED <<watch, issueClosed, pass>> /\ budget'.crashes = budget.crashes
    /\ AllBut(s) /\ SaidKept(s, {"touched", "finished"})
    /\ f.head \in Push /\ f.head >= forge[s].head
    /\ \A t \in Session \ {s} : forge'[t] = forge[t]
    /\ hist'[s].touched
    /\ hist'[s].finished <=> hist[s].finished \/ f.state \in {"merged", "closed"}

Elsewhere == UNCHANGED <<forge, watch, issueClosed, pass, hist>> /\ budget'.crashes = budget.crashes

PassStep(p) ==
    \/ Walks(p) \/ Leaves(p) \/ Settles(p) \/ Begins(p) \/ Ends(p) \/ Skips(p) \/ Enters(p)
    \/ Misses(p) \/ Answered(p) \/ Forgets(p) \/ Forwards(p) \/ Sends(p) \/ Requests(p)
    \/ Reviewed(p) \/ Asks(p) \/ Asked(p) \/ Accepted(p)

(* The program counter moves: the entry stays in hand ...                      *)
LEMMA GotoHand ==
    ASSUME pass \in [Pass -> PassRec], NEW p \in Pass, NEW l, Goto(p, l)
    PROVE  InHand(p, l) /\ pass'[p].seen = pass[p].seen
BY DEF Goto, InHand, Others, PassRec

(* ... also with the ids of a message ...                                      *)
LEMMA GotoIdsHand ==
    ASSUME pass \in [Pass -> PassRec], NEW p \in Pass, NEW l, NEW i, GotoIds(p, l, i)
    PROVE  InHand(p, l) /\ pass'[p].seen = pass[p].seen /\ pass'[p].ids = i
<1> DEFINE n == [pass[p] EXCEPT !.pc = l, !.ids = i]
<1>1. /\ n.pc = l /\ n.ids = i /\ n.cur = pass[p].cur /\ n.entry = pass[p].entry
      /\ n.todo = pass[p].todo /\ n.drop = pass[p].drop /\ n.seen = pass[p].seen
  BY DEF PassRec
<1>2. pass' = [pass EXCEPT ![p] = n] BY DEF GotoIds
<1> HIDE DEF n
<1> QED BY <1>1, <1>2 DEF InHand, Others

(* ... and on the way to the reaper.                                           *)
LEMMA GotoReapHand ==
    ASSUME pass \in [Pass -> PassRec], NEW p \in Pass, NEW b, GotoReap(p, b)
    PROVE  InHand(p, "reap") /\ pass'[p].seen = pass[p].seen
<1> DEFINE n == [pass[p] EXCEPT !.pc = "reap", !.back = b]
<1>1. /\ n.pc = "reap" /\ n.cur = pass[p].cur /\ n.entry = pass[p].entry
      /\ n.todo = pass[p].todo /\ n.drop = pass[p].drop /\ n.seen = pass[p].seen
  BY DEF PassRec
<1>2. pass' = [pass EXCEPT ![p] = n] BY DEF GotoReap
<1> HIDE DEF n
<1> QED BY <1>1, <1>2 DEF InHand, Others

(* The pass puts its entry down.                                               *)
LEMMA ContinueDown ==
    ASSUME pass \in [Pass -> PassRec], NEW p \in Pass, Continue(p)
    PROVE  PutDown(p)
<1> DEFINE n == [IdlePass EXCEPT !.pc = "next", !.todo = pass[p].todo, !.drop = pass[p].drop]
<1>1. n.pc = "next" /\ n.cur = NoSession /\ n.todo = pass[p].todo /\ n.drop = pass[p].drop
  BY DEF IdlePass
<1>2. pass' = [pass EXCEPT ![p] = n] BY DEF Continue
<1> HIDE DEF n
<1> QED BY <1>1, <1>2 DEF PutDown, Others

(* Steps that write neither an entry nor its history.                          *)
LEMMA StillAlone == UNCHANGED <<watch, hist>> => Alone
BY DEF Alone, MarksKept, SaidKept, Same

(* What an Update leaves alone.                                                *)
LEMMA UpdateMarks ==
    ASSUME TypeOK, NEW s \in Session, NEW e, NEW but, Update(s, e), Same(Marks \ but, watch[s], e)
    PROVE  /\ MarksKept(s, but)
           /\ \A t \in Session \ {s} : MarksKept(t, {})
           /\ watch[s].tracked => watch'[s] = e
BY DEF TypeOK, Update, MarksKept, Same

(* What a write of the history leaves alone.                                   *)
LEMMA HistSaid ==
    ASSUME TypeOK, NEW s \in Session, NEW h, NEW but, hist' = [hist EXCEPT ![s] = h],
           Same(Said \ but, hist[s], h)
    PROVE  SaidKept(s, but) /\ hist'[s] = h /\ \A t \in Session \ {s} : SaidKept(t, {})
BY DEF TypeOK, SaidKept, Same

(* The environment's budget knows of crashes ...                               *)
LEMMA SpendCrash ==
    ASSUME budget \in Budget, NEW m, Spend("crashes", m)
    PROVE  budget'.crashes = budget.crashes + 1
BY DEF Spend, Budget

(* ... and counts the rest elsewhere.                                          *)
LEMMA SpendOther ==
    ASSUME budget \in Budget, NEW f \in {"flips", "errors", "tracks"}, NEW m, Spend(f, m)
    PROVE  budget'.crashes = budget.crashes
BY DEF Spend, Budget

(* Every step is of one of the kinds.                                          *)
LEMMA StepKinds ==
    ASSUME TypeInv, [Next]_vars
    PROVE  \/ \E p \in Pass : PassStep(p)
           \/ Restarts \/ Elsewhere
           \/ \E s \in Session : Tracked(s) \/ Moved(s)
<1> USE DEF TypeInv
<1>Reap. ASSUME NEW p \in Pass, Reap(p) PROVE Walks(p)
  <2>1. Calm /\ Alone /\ pass[p].cur \in Session
    BY <1>Reap, StillAlone DEF Reap, Calm, PassOK, At
  <2>2. \E l \in Label : InHand(p, l) /\ Edge(p, l) /\ pass'[p].seen = pass[p].seen
    BY <1>Reap, GotoHand DEF Reap, Edge, At, Label, TypeOK
  <2> QED BY <2>1, <2>2 DEF Walks
<1>TripBreaker. ASSUME NEW p \in Pass, TripBreaker(p) PROVE Walks(p)
  <2>1. Calm /\ Alone /\ pass[p].cur \in Session
    BY <1>TripBreaker, StillAlone DEF TripBreaker, Calm, PassOK, At
  <2>2. \E l \in Label : InHand(p, l) /\ Edge(p, l) /\ pass'[p].seen = pass[p].seen
    BY <1>TripBreaker, GotoHand DEF TripBreaker, Edge, At, Label, TypeOK
  <2> QED BY <2>1, <2>2 DEF Walks
<1>ReviewCI. ASSUME NEW p \in Pass, ReviewCI(p) PROVE Walks(p)
  <2>1. Calm /\ Alone /\ pass[p].cur \in Session
    BY <1>ReviewCI, StillAlone DEF ReviewCI, Calm, PassOK, At
  <2>2. \E l \in Label : InHand(p, l) /\ Edge(p, l) /\ pass'[p].seen = pass[p].seen
    BY <1>ReviewCI, GotoHand DEF ReviewCI, Edge, At, Label, TypeOK
  <2> QED BY <2>1, <2>2 DEF Walks
<1>ReviewSkip. ASSUME NEW p \in Pass, ReviewSkip(p) PROVE Walks(p)
  <2>1. Calm /\ Alone /\ pass[p].cur \in Session
    BY <1>ReviewSkip, StillAlone DEF ReviewSkip, Calm, PassOK, At
  <2>2. \E l \in Label : InHand(p, l) /\ Edge(p, l) /\ pass'[p].seen = pass[p].seen
    BY <1>ReviewSkip, GotoHand DEF ReviewSkip, Edge, At, Label, TypeOK
  <2> QED BY <2>1, <2>2 DEF Walks
<1>MergeCI. ASSUME NEW p \in Pass, MergeCI(p) PROVE Walks(p)
  <2>1. Calm /\ Alone /\ pass[p].cur \in Session
    BY <1>MergeCI, StillAlone DEF MergeCI, Calm, PassOK, At
  <2>2. \E l \in Label : InHand(p, l) /\ Edge(p, l) /\ pass'[p].seen = pass[p].seen
    BY <1>MergeCI, GotoHand DEF MergeCI, Edge, At, Label, TypeOK
  <2> QED BY <2>1, <2>2 DEF Walks
<1>MergeApproval. ASSUME NEW p \in Pass, MergeApproval(p) PROVE Walks(p)
  <2>1. Calm /\ Alone /\ pass[p].cur \in Session
    BY <1>MergeApproval, StillAlone DEF MergeApproval, Calm, PassOK, At
  <2>2. \E l \in Label : InHand(p, l) /\ Edge(p, l) /\ pass'[p].seen = pass[p].seen
    BY <1>MergeApproval, GotoHand DEF MergeApproval, Edge, At, Label, TypeOK
  <2> QED BY <2>1, <2>2 DEF Walks
<1>MergePR. ASSUME NEW p \in Pass, MergePR(p) PROVE Walks(p)
  <2>1. Calm /\ Alone /\ pass[p].cur \in Session
    BY <1>MergePR, StillAlone DEF MergePR, Calm, PassOK, At
  <2>2. \E l \in Label : InHand(p, l) /\ Edge(p, l) /\ pass'[p].seen = pass[p].seen
    BY <1>MergePR, GotoHand DEF MergePR, Edge, At, Label, TypeOK
  <2> QED BY <2>1, <2>2 DEF Walks
<1>MergeThreads. ASSUME NEW p \in Pass, MergeThreads(p) PROVE Walks(p)
  <2>1. Calm /\ Alone /\ pass[p].cur \in Session
    BY <1>MergeThreads, StillAlone DEF MergeThreads, Calm, PassOK, At
  <2>2. \E l \in Label : InHand(p, l) /\ Edge(p, l) /\ pass'[p].seen = pass[p].seen
    BY <1>MergeThreads, GotoHand DEF MergeThreads, Edge, At, Label, TypeOK
  <2> QED BY <2>1, <2>2 DEF Walks
<1>MainFailed. ASSUME NEW p \in Pass, MainFailed(p) PROVE Walks(p)
  <2>1. Calm /\ Alone /\ pass[p].cur \in Session
    BY <1>MainFailed, StillAlone DEF MainFailed, Calm, PassOK, At
  <2>2. \E l \in Label : InHand(p, l) /\ Edge(p, l) /\ pass'[p].seen = pass[p].seen
    BY <1>MainFailed, GotoHand DEF MainFailed, Edge, At, Label, TypeOK
  <2> QED BY <2>1, <2>2 DEF Walks
<1>PipelineNoNews. ASSUME NEW p \in Pass, PipelineNoNews(p) PROVE Walks(p)
  <2>1. Calm /\ Alone /\ pass[p].cur \in Session
    BY <1>PipelineNoNews, StillAlone DEF PipelineNoNews, Calm, PassOK, At
  <2>2. \E l \in Label : InHand(p, l) /\ Edge(p, l) /\ pass'[p].seen = pass[p].seen
    BY <1>PipelineNoNews, GotoHand DEF PipelineNoNews, Edge, At, Label, TypeOK
  <2> QED BY <2>1, <2>2 DEF Walks
<1>MainPassed. ASSUME NEW p \in Pass, MainPassed(p) PROVE Walks(p)
  <2>1. Calm /\ Alone /\ pass[p].cur \in Session
    BY <1>MainPassed, StillAlone DEF MainPassed, Calm, PassOK, At
  <2>2. \E l \in Label : InHand(p, l) /\ Edge(p, l) /\ pass'[p].seen = pass[p].seen
    BY <1>MainPassed, GotoReapHand DEF MainPassed, Edge, At, Label, TypeOK
  <2> QED BY <2>1, <2>2 DEF Walks
<1>MainUndecided. ASSUME NEW p \in Pass, MainUndecided(p) PROVE Leaves(p)
  <2>1. Calm /\ Alone /\ pass[p].pc \notin {"reviewMark", "askMark"}
    BY <1>MainUndecided, StillAlone DEF MainUndecided, Calm, At
  <2>2. PutDown(p) BY <1>MainUndecided, ContinueDown DEF MainUndecided, TypeOK
  <2> QED BY <2>1, <2>2 DEF Leaves
<1>ApiError. ASSUME NEW p \in Pass, ApiError(p) PROVE Walks(p) \/ Leaves(p)
  <2>0. pass[p].pc \in DOMAIN AfterError BY <1>ApiError DEF ApiError
  <2>1. pass[p].cur \in Session BY <2>0 DEF AfterError, PassOK
  <2>2. budget'.crashes = budget.crashes BY <1>ApiError, SpendOther DEF ApiError, TypeOK
  <2>3. Calm /\ Alone BY <1>ApiError, <2>2, StillAlone DEF ApiError, Calm
  <2>4. CASE AfterError[pass[p].pc] = "next"
    <3>1. PutDown(p) BY <1>ApiError, <2>4, ContinueDown DEF ApiError, TypeOK
    <3>2. pass[p].pc \notin {"reviewMark", "askMark"} BY <2>0 DEF AfterError
    <3> QED BY <2>3, <3>1, <3>2 DEF Leaves
  <2>5. CASE AfterError[pass[p].pc] # "next"
    <3> DEFINE l == AfterError[pass[p].pc]
    <3>1. l \in Label /\ Edge(p, l) BY <2>0, <2>5 DEF AfterError, Edge, Label
    <3>2. Goto(p, l) BY <1>ApiError, <2>5 DEF ApiError
    <3> HIDE DEF l
    <3>3. InHand(p, l) /\ pass'[p].seen = pass[p].seen BY <3>2, GotoHand DEF TypeOK
    <3> QED BY <2>1, <2>3, <3>1, <3>3 DEF Walks
  <2> QED BY <2>4, <2>5
<1>SendRepair. ASSUME NEW p \in Pass, SendRepair(p) PROVE Walks(p)
  <2> DEFINE s == pass[p].cur
             f == [c \in Push |-> IF c \in pass[p].ids THEN hist[s].sent[c] + 1 ELSE hist[s].sent[c]]
             h == [hist[s] EXCEPT !.repairs = hist[s].repairs + 1, !.sent = f]
  <2>0. s \in Session /\ hist[s] \in HistRec BY <1>SendRepair, Access DEF PassOK, SendRepair, At
  <2>1. hist' = [hist EXCEPT ![s] = h] BY <1>SendRepair DEF SendRepair
  <2>2. Same(Said, hist[s], h) BY <2>0 DEF HistRec, Same, Said
  <2> HIDE DEF h
  <2>3. Same(Said \ {}, hist[s], h) BY <2>2
  <2>4. SaidKept(s, {}) /\ \A t \in Session \ {s} : SaidKept(t, {}) BY <2>0, <2>1, <2>3, HistSaid
  <2>5. UNCHANGED watch /\ Calm BY <1>SendRepair DEF SendRepair, Calm
  <2>6. Alone BY <2>4, <2>5 DEF Alone, MarksKept, Same
  <2>7. InHand(p, "reviewCI") /\ pass'[p].seen = pass[p].seen
    BY <1>SendRepair, GotoHand DEF SendRepair, TypeOK
  <2>8. Edge(p, "reviewCI") BY <1>SendRepair DEF SendRepair, Edge, At
  <2> QED BY <2>0, <2>5, <2>6, <2>7, <2>8, SMTT(20) DEF Walks, Label
<1>Stamp. ASSUME NEW p \in Pass, Stamp(p) PROVE Leaves(p)
  <2>0. pass[p].cur \in Session BY <1>Stamp DEF PassOK, Stamp, At
  <2>1. watch' = watch BY <1>Stamp, <2>0 DEF Stamp, Update, TypeOK
  <2>2. Calm /\ Alone BY <1>Stamp, <2>1, StillAlone DEF Stamp, Calm
  <2>3. PutDown(p) BY <1>Stamp, ContinueDown DEF Stamp, TypeOK
  <2> QED BY <1>Stamp, <2>2, <2>3 DEF Leaves, Stamp, At
<1>MainMark. ASSUME NEW p \in Pass, MainMark(p) PROVE Leaves(p)
  <2> DEFINE s == pass[p].cur
             e == [watch[s] EXCEPT !.mainDone = TRUE]
  <2>0. s \in Session /\ watch[s] \in Entry BY <1>MainMark, Access DEF PassOK, MainMark, At
  <2>1. Same(Marks \ {}, watch[s], e) BY <2>0 DEF Entry, Same, Marks
  <2>2. Update(s, e) BY <1>MainMark DEF MainMark
  <2> HIDE DEF e
  <2>3. \A t \in Session : MarksKept(t, {}) BY <2>0, <2>1, <2>2, UpdateMarks
  <2>4. UNCHANGED hist /\ Calm BY <1>MainMark DEF MainMark, Calm
  <2>5. Alone BY <2>3, <2>4 DEF Alone, SaidKept, Same
  <2>6. PutDown(p) BY <1>MainMark, ContinueDown DEF MainMark, TypeOK
  <2> QED BY <1>MainMark, <2>4, <2>5, <2>6 DEF Leaves, MainMark, At
<1>PipelineFailed. ASSUME NEW p \in Pass, PipelineFailed(p) PROVE Walks(p)
  <2> DEFINE s == pass[p].cur
             fails == pass[p].entry.fails + 1
             e == [watch[s] EXCEPT !.fails = fails, !.lastPipe = forge[s].head]
             l == AfterFailure(p, fails)
  <2>0. s \in Session /\ watch[s] \in Entry BY <1>PipelineFailed, Access DEF PassOK, PipelineFailed, At
  <2>1. Same(Marks \ {}, watch[s], e) BY <2>0 DEF Entry, Same, Marks
  <2>2. Update(s, e) BY <1>PipelineFailed DEF PipelineFailed
  <2> HIDE DEF e
  <2>3. \A t \in Session : MarksKept(t, {}) BY <2>0, <2>1, <2>2, UpdateMarks
  <2>4. UNCHANGED hist /\ Calm BY <1>PipelineFailed DEF PipelineFailed, Calm
  <2>5. Alone BY <2>3, <2>4 DEF Alone, SaidKept, Same
  <2>6. l \in Label /\ Edge(p, l)
    BY <1>PipelineFailed DEF PipelineFailed, AfterFailure, Label, Edge, At
  <2>7. GotoIds(p, l, {forge[s].head}) BY <1>PipelineFailed DEF PipelineFailed
  <2> HIDE DEF l
  <2>8. InHand(p, l) /\ pass'[p].seen = pass[p].seen BY <2>7, GotoIdsHand DEF TypeOK
  <2> QED BY <2>0, <2>4, <2>5, <2>6, <2>8 DEF Walks
<1>PipelinePassed. ASSUME NEW p \in Pass, PipelinePassed(p) PROVE Walks(p)
  <2> DEFINE s == pass[p].cur
             e == [watch[s] EXCEPT !.fails = 0, !.lastPipe = forge[s].head]
             h == [hist[s] EXCEPT !.repairs = 0]
  <2>0. s \in Session /\ watch[s] \in Entry /\ hist[s] \in HistRec
    BY <1>PipelinePassed, Access DEF PassOK, PipelinePassed, At
  <2>1. Same(Marks \ {}, watch[s], e) BY <2>0 DEF Entry, Same, Marks
  <2>2. Update(s, e) BY <1>PipelinePassed DEF PipelinePassed
  <2>3. Same(Said \ {}, hist[s], h) BY <2>0 DEF HistRec, Same, Said
  <2>4. hist' = [hist EXCEPT ![s] = h] BY <1>PipelinePassed DEF PipelinePassed
  <2> HIDE DEF e, h
  <2>5. \A t \in Session : MarksKept(t, {}) BY <2>0, <2>1, <2>2, UpdateMarks
  <2>6. \A t \in Session : SaidKept(t, {}) BY <2>0, <2>3, <2>4, HistSaid
  <2>7. Calm /\ Alone BY <1>PipelinePassed, <2>5, <2>6 DEF PipelinePassed, Calm, Alone
  <2>8. InHand(p, "reviewCI") /\ pass'[p].seen = pass[p].seen
    BY <1>PipelinePassed, GotoHand DEF PipelinePassed, TypeOK
  <2>9. Edge(p, "reviewCI") BY <1>PipelinePassed DEF PipelinePassed, Edge, At
  <2> QED BY <2>0, <2>7, <2>8, <2>9 DEF Walks, Label
<1>PostMerge. ASSUME NEW p \in Pass, PostMerge(p) PROVE Walks(p)
  <2> DEFINE s == pass[p].cur
             e == [watch[s] EXCEPT !.checks = pass[p].entry.checks + 1]
  <2>0. s \in Session /\ watch[s] \in Entry BY <1>PostMerge, Access DEF PassOK, PostMerge, At
  <2>1. Same(Marks \ {}, watch[s], e) BY <2>0 DEF Entry, Same, Marks
  <2>2. \/ UNCHANGED watch /\ GotoReap(p, "next")
        \/ Update(s, e) /\ Goto(p, "mainPoll")
    BY <1>PostMerge DEF PostMerge
  <2> HIDE DEF e
  <2>3. \A t \in Session : MarksKept(t, {})
    <3>1. CASE Update(s, e) BY <2>0, <2>1, <3>1, UpdateMarks
    <3>2. CASE UNCHANGED watch BY <3>2 DEF MarksKept, Same
    <3> QED BY <2>2, <3>1, <3>2
  <2>4. UNCHANGED hist /\ Calm BY <1>PostMerge DEF PostMerge, Calm
  <2>5. Alone BY <2>3, <2>4 DEF Alone, SaidKept, Same
  <2>6. \E l \in {"reap", "mainPoll"} : InHand(p, l) /\ pass'[p].seen = pass[p].seen
    BY <2>2, GotoHand, GotoReapHand DEF TypeOK
  <2>7. \A l \in {"reap", "mainPoll"} : Edge(p, l) /\ l \in Label
    BY <1>PostMerge DEF PostMerge, Edge, At, Label
  <2> QED BY <2>0, <2>4, <2>5, <2>6, <2>7 DEF Walks
<1>Terminal. ASSUME NEW p \in Pass, Terminal(p) PROVE Walks(p) \/ Settles(p)
  <2> DEFINE s == pass[p].cur
             e(b) == [watch[s] EXCEPT !.post = TRUE, !.checks = 0, !.sha = b]
  <2>0. s \in Session /\ watch[s] \in Entry /\ pass[p].pc = "terminal"
    BY <1>Terminal, Access DEF PassOK, Terminal, At
  <2>1. \A b : Same(Marks \ {"post"}, watch[s], e(b)) BY <2>0 DEF Entry, Same, Marks
  <2>2. UNCHANGED hist /\ Calm BY <1>Terminal DEF Terminal, Calm
  <2>3. CASE pass[p].seen = "merged" /\ MonitorPostMerge
    <3>1. PICK b \in BOOLEAN : Update(s, e(b)) BY <1>Terminal, <2>3 DEF Terminal
    <3>2. PutDown(p) BY <1>Terminal, <2>3, ContinueDown DEF Terminal, TypeOK
    <3> HIDE DEF e
    <3>3. MarksKept(s, {"post"}) /\ \A t \in Session \ {s} : MarksKept(t, {})
      BY <2>0, <2>1, <3>1, UpdateMarks
    <3>4. AllBut(s) /\ SaidKept(s, {}) BY <2>0, <2>2, <3>3 DEF AllBut, SaidKept, Same
    <3> QED BY <2>0, <2>2, <2>3, <3>2, <3>3, <3>4 DEF Settles
  <2>4. CASE ~(pass[p].seen = "merged" /\ MonitorPostMerge)
    <3>1. GotoReap(p, "next") /\ UNCHANGED watch BY <1>Terminal, <2>4 DEF Terminal
    <3>2. InHand(p, "reap") /\ pass'[p].seen = pass[p].seen BY <3>1, GotoReapHand DEF TypeOK
    <3>3. Edge(p, "reap") BY <2>0 DEF Edge
    <3> QED BY <2>0, <2>2, <3>1, <3>2, <3>3, StillAlone DEF Walks, Label
  <2> QED BY <2>3, <2>4
<1>Merged. ASSUME NEW p \in Pass, Merged(p) PROVE Walks(p) \/ Settles(p)
  <2> DEFINE s == pass[p].cur
             e(b) == [watch[s] EXCEPT !.post = TRUE, !.checks = 0, !.sha = b]
  <2>0. s \in Session /\ watch[s] \in Entry /\ pass[p].pc = "merged"
    BY <1>Merged, Access DEF PassOK, Merged, At
  <2>1. \A b : Same(Marks \ {"post"}, watch[s], e(b)) BY <2>0 DEF Entry, Same, Marks
  <2>2. UNCHANGED hist /\ Calm BY <1>Merged DEF Merged, Calm
  <2>3. CASE MonitorPostMerge
    <3>1. PICK b \in BOOLEAN : Update(s, e(b)) BY <1>Merged, <2>3 DEF Merged
    <3>2. InHand(p, "stamp") BY <1>Merged, <2>3, GotoHand DEF Merged, TypeOK
    <3> HIDE DEF e
    <3>3. MarksKept(s, {"post"}) /\ \A t \in Session \ {s} : MarksKept(t, {})
      BY <2>0, <2>1, <3>1, UpdateMarks
    <3>4. AllBut(s) /\ SaidKept(s, {}) BY <2>0, <2>2, <3>3 DEF AllBut, SaidKept, Same
    <3> QED BY <2>0, <2>2, <3>2, <3>3, <3>4 DEF Settles
  <2>4. CASE ~MonitorPostMerge
    <3>1. GotoReap(p, "stamp") /\ UNCHANGED watch BY <1>Merged, <2>4 DEF Merged
    <3>2. InHand(p, "reap") /\ pass'[p].seen = pass[p].seen BY <3>1, GotoReapHand DEF TypeOK
    <3>3. Edge(p, "reap") BY <2>0 DEF Edge
    <3> QED BY <2>0, <2>2, <3>1, <3>2, <3>3, StillAlone DEF Walks, Label
  <2> QED BY <2>3, <2>4
<1>StartPass. ASSUME NEW p \in Pass, StartPass(p) PROVE Begins(p)
  <2> DEFINE all == {s \in Session : watch[s].tracked}
             n == [IdlePass EXCEPT !.todo = all, !.pc = IF all = {} THEN "idle" ELSE "next"]
  <2>1. n.pc \in {"idle", "next"} /\ n.cur = NoSession /\ n.todo \subseteq Session /\ n.drop = {}
    BY DEF IdlePass
  <2>2. pass' = [pass EXCEPT ![p] = n] BY <1>StartPass DEF StartPass
  <2> HIDE DEF n
  <2>3. pass'[p] = n /\ Others(p) BY <2>2 DEF TypeOK, Others
  <2>4. Calm /\ Alone /\ pass[p].pc = "idle"
    BY <1>StartPass, StillAlone DEF StartPass, Calm, At
  <2> QED BY <2>1, <2>3, <2>4 DEF Begins
<1>EndPass. ASSUME NEW p \in Pass, EndPass(p) PROVE Ends(p)
  <2>1. ~Absent.tracked BY DEF Absent, Fresh
  <2>2. IdlePass.pc = "idle" /\ IdlePass.cur = NoSession /\ IdlePass.todo = {} /\ IdlePass.drop = {}
    BY DEF IdlePass
  <2>3. pass'[p] = IdlePass /\ Others(p) BY <1>EndPass DEF EndPass, TypeOK, Others
  <2>4. ASSUME NEW s \in Session
        PROVE  /\ SaidKept(s, {})
               /\ IF s \in pass[p].drop THEN ~watch'[s].tracked ELSE MarksKept(s, {})
    BY <1>EndPass, <2>1 DEF EndPass, SaidKept, MarksKept, Same
  <2>5. Calm /\ pass[p].pc = "next" BY <1>EndPass DEF EndPass, Calm, At
  <2> QED BY <2>2, <2>3, <2>4, <2>5 DEF Ends
<1>Visit. ASSUME NEW p \in Pass, NEW s \in Session, Visit(p, s) PROVE Skips(p) \/ Enters(p)
  <2>1. Calm /\ pass[p].pc = "next" /\ UNCHANGED watch /\ s \in pass[p].todo
    BY <1>Visit DEF Visit, Calm, At
  <2>2. CASE watch[s].tracked
    <3> DEFINE n == [IdlePass EXCEPT
                      !.pc = IF watch[s].post THEN "postMerge" ELSE "fetch",
                      !.cur = s, !.entry = watch[s], !.live = worker[s] = "live",
                      !.todo = pass[p].todo \ {s}, !.drop = pass[p].drop]
               h == [hist[s] EXCEPT !.touched = FALSE]
    <3>1. /\ n.pc = IF watch[s].post THEN "postMerge" ELSE "fetch"
          /\ n.cur = s /\ n.entry = watch[s] /\ n.todo = pass[p].todo \ {s} /\ n.drop = pass[p].drop
      BY DEF IdlePass
    <3>2. pass' = [pass EXCEPT ![p] = n] /\ hist' = [hist EXCEPT ![s] = h] BY <1>Visit, <2>2 DEF Visit
    <3>3. Same(Said \ {"touched"}, hist[s], h) BY DEF TypeOK, HistRec, Same, Said
    <3> HIDE DEF n, h
    <3>4. pass'[p] = n /\ Others(p) BY <3>2 DEF TypeOK, Others
    <3>5. SaidKept(s, {"touched"}) /\ \A t \in Session \ {s} : SaidKept(t, {}) BY <3>2, <3>3, HistSaid
    <3>6. AllBut(s) /\ MarksKept(s, {}) BY <2>1, <3>5 DEF AllBut, MarksKept, Same
    <3> QED BY <2>1, <2>2, <3>1, <3>4, <3>5, <3>6 DEF Enters
  <2>3. CASE ~watch[s].tracked
    <3> DEFINE m == [pass[p] EXCEPT !.todo = @ \ {s}]
    <3>1. m.pc = pass[p].pc /\ m.cur = pass[p].cur /\ m.drop = pass[p].drop /\ m.todo \subseteq pass[p].todo
      BY DEF TypeOK, PassRec
    <3>2. pass' = [pass EXCEPT ![p] = m] /\ UNCHANGED hist BY <1>Visit, <2>3 DEF Visit
    <3> HIDE DEF m
    <3>3. pass'[p] = m /\ Others(p) BY <3>2 DEF TypeOK, Others
    <3> QED BY <2>1, <3>1, <3>2, <3>3, StillAlone DEF Skips
  <2> QED BY <2>2, <2>3
<1>FetchNotFound. ASSUME NEW p \in Pass, FetchNotFound(p) PROVE Misses(p)
  <2> DEFINE s == pass[p].cur
             e == [watch[s] EXCEPT !.notFound = @ + 1]
             h == [hist[s] EXCEPT !.misses = @ + 1]
             d == IF pass[p].entry.notFound + 1 >= NotFoundLimit THEN pass[p].drop \cup {s} ELSE pass[p].drop
             n == [IdlePass EXCEPT !.pc = "next", !.todo = pass[p].todo, !.drop = d]
  <2>0. s \in Session /\ watch[s] \in Entry /\ hist[s] \in HistRec
    BY <1>FetchNotFound, Access DEF PassOK, FetchNotFound, At
  <2>1. Same(Marks \ {"notFound"}, watch[s], e) /\ e.notFound = watch[s].notFound + 1
    BY <2>0 DEF Entry, Same, Marks
  <2>2. Same(Said \ {"misses"}, hist[s], h) /\ h.misses = hist[s].misses + 1
    BY <2>0 DEF HistRec, Same, Said
  <2>3. n.pc = "next" /\ n.cur = NoSession /\ n.todo = pass[p].todo /\ n.drop = d BY DEF IdlePass
  <2>4. Update(s, e) /\ hist' = [hist EXCEPT ![s] = h] /\ pass' = [pass EXCEPT ![p] = n]
    BY <1>FetchNotFound DEF FetchNotFound
  <2> HIDE DEF e, h, n
  <2>5. /\ MarksKept(s, {"notFound"}) /\ \A t \in Session \ {s} : MarksKept(t, {})
        /\ watch[s].tracked => watch'[s] = e
    BY <2>0, <2>1, <2>4, UpdateMarks
  <2>6. SaidKept(s, {"misses"}) /\ hist'[s] = h /\ \A t \in Session \ {s} : SaidKept(t, {})
    BY <2>0, <2>2, <2>4, HistSaid
  <2>7. pass'[p] = n /\ Others(p) BY <2>4 DEF TypeOK, Others
  <2>8. Calm /\ pass[p].pc = "fetch"
    <3>1. budget'.crashes = budget.crashes
      BY <1>FetchNotFound, SpendOther DEF FetchNotFound, TypeOK
    <3> QED BY <1>FetchNotFound, <3>1 DEF FetchNotFound, Calm, At
  <2>9. AllBut(s) BY <2>0, <2>5, <2>6 DEF AllBut
  <2> QED BY <2>1, <2>2, <2>3, <2>5, <2>6, <2>7, <2>8, <2>9 DEF Misses
<1>Fetch. ASSUME NEW p \in Pass, Fetch(p) PROVE Answered(p)
  <2> DEFINE s == pass[p].cur
             labels == AutoMerge /\ ~pass[p].entry.labeled
             m == IF pass[p].entry.notFound > 0 THEN 0 ELSE watch[s].notFound
             e == [watch[s] EXCEPT !.notFound = m, !.labeled = watch[s].labeled \/ labels]
             h == [hist[s] EXCEPT !.misses = 0]
             l == IF forge[s].state \in {"merged", "closed"} THEN "terminal" ELSE "notes"
  <2>0. /\ s \in Session /\ watch[s] \in Entry /\ hist[s] \in HistRec /\ pass[p].pc = "fetch"
    BY <1>Fetch, Access DEF PassOK, Fetch, At
  <2>1. Same(Marks \ {"notFound"}, watch[s], e) /\ e.notFound = m BY <2>0 DEF Entry, Same, Marks
  <2>2. Same(Said \ {"misses"}, hist[s], h) /\ h.misses = 0 BY <2>0 DEF HistRec, Same, Said
  <2>3. hist' = [hist EXCEPT ![s] = h] BY <1>Fetch DEF Fetch
  <2>4. \/ Update(s, e)
        \/ UNCHANGED watch /\ ~(pass[p].entry.notFound > 0)
    BY <1>Fetch DEF Fetch
  <2> HIDE DEF e, h
  <2>5. SaidKept(s, {"misses"}) /\ hist'[s] = h /\ \A t \in Session \ {s} : SaidKept(t, {})
    BY <2>0, <2>2, <2>3, HistSaid
  <2>6. /\ MarksKept(s, {"notFound"}) /\ \A t \in Session \ {s} : MarksKept(t, {})
        /\ watch[s].tracked => watch'[s].notFound = m
    <3>1. CASE Update(s, e) BY <2>0, <2>1, <3>1, UpdateMarks
    <3>2. CASE UNCHANGED watch /\ ~(pass[p].entry.notFound > 0) BY <3>2 DEF MarksKept, Same
    <3> QED BY <2>4, <3>1, <3>2
  <2>7. InHand(p, l) /\ pass'[p].seen = forge[s].state
    <3> DEFINE f == forge[s].state
               n == [pass[p] EXCEPT !.pc = l, !.seen = f]
    <3>1. /\ n.pc = l /\ n.seen = f /\ n.cur = pass[p].cur /\ n.entry = pass[p].entry
          /\ n.todo = pass[p].todo /\ n.drop = pass[p].drop
      BY DEF TypeOK, PassRec
    <3>2. pass' = [pass EXCEPT ![p] = n] BY <1>Fetch DEF Fetch
    <3> HIDE DEF n
    <3> QED BY <3>1, <3>2 DEF InHand, Others, TypeOK
  <2>8. UNCHANGED <<forge, budget>> /\ issueClosed' = [issueClosed EXCEPT ![s] = @ \/ forge[s].state = "merged"]
    BY <1>Fetch DEF Fetch
  <2>9. \A t \in Session : issueClosed'[t] <=> issueClosed[t] \/ (t = s /\ forge[s].state = "merged")
    BY <2>0, <2>8, Zenon DEF TypeOK
  <2>10. AllBut(s) BY <2>0, <2>5, <2>6 DEF AllBut
  <2> QED BY <2>0, <2>2, <2>5, <2>6, <2>7, <2>8, <2>9, <2>10 DEF Answered
<1>Forget. ASSUME NEW p \in Pass, Forget(p) PROVE Forgets(p)
  <2> DEFINE s == pass[p].cur
  <2>0. s \in Session /\ pass[p].pc = "forget" /\ pass[p].back \in {"next", "stamp"}
    BY <1>Forget DEF PassOK, Forget, At, TypeOK, PassRec
  <2>1. ~Absent.tracked BY DEF Absent, Fresh
  <2>2. ~watch'[s].tracked /\ \A t \in Session \ {s} : watch'[t] = watch[t]
    BY <1>Forget, <2>0, <2>1 DEF Forget, TypeOK
  <2>3. UNCHANGED hist /\ Calm BY <1>Forget DEF Forget, Calm
  <2>4. AllBut(s) /\ SaidKept(s, {}) BY <2>0, <2>2, <2>3 DEF AllBut, MarksKept, SaidKept, Same
  <2>5. PutDown(p) \/ InHand(p, "stamp")
    BY <1>Forget, <2>0, ContinueDown, GotoHand DEF Forget, TypeOK
  <2> QED BY <2>0, <2>2, <2>3, <2>4, <2>5 DEF Forgets
<1>ForwardNotes. ASSUME NEW p \in Pass, ForwardNotes(p) PROVE Walks(p) \/ Forwards(p)
  <2> DEFINE s == pass[p].cur
             new == NewNotes(s, pass[p].entry.cursor)
             e(n) == [watch[s] EXCEPT !.cursor = n]
  <2>0. s \in Session /\ watch[s] \in Entry /\ pass[p].pc = "notes"
    BY <1>ForwardNotes, Access DEF PassOK, ForwardNotes, At
  <2>1. UNCHANGED hist /\ Calm BY <1>ForwardNotes DEF ForwardNotes, Calm
  <2>2. CASE GitLabRepo /\ new # {}
    <3>1. \A n : Same(Marks \ {"cursor"}, watch[s], e(n)) /\ e(n).cursor = n
      BY <2>0 DEF Entry, Same, Marks
    <3>2. PICK last \in new : (\A n \in new : n <= last) /\ Update(s, e(last))
      BY <1>ForwardNotes, <2>2 DEF ForwardNotes
    <3>3. \A n \in new : n \in Note /\ n > pass[p].entry.cursor
      BY LimitAssumption DEF NewNotes, Note
    <3>4. GotoIds(p, "sendNotes", new) BY <1>ForwardNotes, <2>2 DEF ForwardNotes
    <3> HIDE DEF e, new
    <3>5. InHand(p, "sendNotes") /\ pass'[p].ids = new BY <3>4, GotoIdsHand DEF TypeOK
    <3>6. /\ MarksKept(s, {"cursor"}) /\ \A t \in Session \ {s} : MarksKept(t, {})
          /\ watch[s].tracked => watch'[s] = e(last)
      BY <2>0, <3>1, <3>2, UpdateMarks
    <3>7. AllBut(s) /\ SaidKept(s, {}) BY <2>0, <2>1, <3>6 DEF AllBut, SaidKept, Same
    <3> QED BY <2>0, <2>1, <3>1, <3>2, <3>3, <3>5, <3>6, <3>7 DEF Forwards
  <2>3. CASE ~(GitLabRepo /\ new # {})
    <3>1. Goto(p, "pipeline") /\ UNCHANGED watch BY <1>ForwardNotes, <2>3 DEF ForwardNotes
    <3>2. InHand(p, "pipeline") /\ pass'[p].seen = pass[p].seen BY <3>1, GotoHand DEF TypeOK
    <3>3. Edge(p, "pipeline") BY <2>0 DEF Edge
    <3> QED BY <2>0, <2>1, <3>1, <3>2, <3>3, StillAlone DEF Walks, Label
  <2> QED BY <2>2, <2>3
<1>SendNotes. ASSUME NEW p \in Pass, SendNotes(p) PROVE Sends(p)
  <2> DEFINE s == pass[p].cur
             f == [n \in Note |-> IF n \in pass[p].ids THEN hist[s].fwd[n] + 1 ELSE hist[s].fwd[n]]
             h == [hist[s] EXCEPT !.fwd = f]
  <2>0. s \in Session /\ hist[s] \in HistRec /\ pass[p].pc = "sendNotes"
    BY <1>SendNotes, Access DEF PassOK, SendNotes, At
  <2>1. Same(Said \ {"fwd"}, hist[s], h) /\ h.fwd = f BY <2>0 DEF HistRec, Same, Said
  <2>2. hist' = [hist EXCEPT ![s] = h] BY <1>SendNotes DEF SendNotes
  <2> HIDE DEF h
  <2>3. SaidKept(s, {"fwd"}) /\ hist'[s] = h /\ \A t \in Session \ {s} : SaidKept(t, {})
    BY <2>0, <2>1, <2>2, HistSaid
  <2>4. UNCHANGED watch /\ Calm BY <1>SendNotes DEF SendNotes, Calm
  <2>5. AllBut(s) /\ MarksKept(s, {}) BY <2>0, <2>3, <2>4 DEF AllBut, MarksKept, Same
  <2>6. InHand(p, "pipeline") BY <1>SendNotes, GotoIdsHand DEF SendNotes, TypeOK
  <2> QED BY <2>0, <2>1, <2>3, <2>4, <2>5, <2>6 DEF Sends
<1>ReviewSend. ASSUME NEW p \in Pass, ReviewSend(p) PROVE Requests(p)
  <2> DEFINE s == pass[p].cur
             c == forge[s].head
             f == [hist[s].reviews EXCEPT ![c] = @ + 1]
             h == [hist[s] EXCEPT !.reviews = f]
  <2>0. s \in Session /\ hist[s] \in HistRec /\ c \in Push /\ pass[p].pc = "reviewPR"
    BY <1>ReviewSend, Access DEF PassOK, ReviewSend, At, Forge
  <2>1. Same(Said \ {"reviews"}, hist[s], h) /\ h.reviews = f BY <2>0 DEF HistRec, Same, Said
  <2>2. hist' = [hist EXCEPT ![s] = h] BY <1>ReviewSend DEF ReviewSend
  <2>3. \A k \in Push : f[k] = IF k = c THEN hist[s].reviews[k] + 1 ELSE hist[s].reviews[k]
    BY <2>0, HistFields
  <2> HIDE DEF h, f
  <2>4. SaidKept(s, {"reviews"}) /\ hist'[s] = h /\ \A t \in Session \ {s} : SaidKept(t, {})
    BY <2>0, <2>1, <2>2, HistSaid
  <2>5. UNCHANGED watch /\ Calm /\ pass[p].entry.reviewed # c
    BY <1>ReviewSend DEF ReviewSend, Calm, Unreviewed
  <2>6. AllBut(s) /\ MarksKept(s, {}) BY <2>0, <2>4, <2>5 DEF AllBut, MarksKept, Same
  <2>7. InHand(p, "reviewMark") /\ pass'[p].ids = {c}
    BY <1>ReviewSend, GotoIdsHand DEF ReviewSend, TypeOK
  <2> QED BY <2>0, <2>1, <2>3, <2>4, <2>5, <2>6, <2>7 DEF Requests
<1>ReviewTrivial. ASSUME NEW p \in Pass, ReviewTrivial(p) PROVE Reviewed(p)
  <2> DEFINE s == pass[p].cur
             e == [watch[s] EXCEPT !.reviewed = forge[s].head]
  <2>0. s \in Session /\ watch[s] \in Entry /\ pass[p].pc = "reviewPR"
    BY <1>ReviewTrivial, Access DEF PassOK, ReviewTrivial, At
  <2>1. Same(Marks \ {"reviewed"}, watch[s], e) /\ e.reviewed = forge[s].head
    BY <2>0 DEF Entry, Same, Marks
  <2>2. Update(s, e) BY <1>ReviewTrivial DEF ReviewTrivial
  <2> HIDE DEF e
  <2>3. /\ MarksKept(s, {"reviewed"}) /\ \A t \in Session \ {s} : MarksKept(t, {})
        /\ watch[s].tracked => watch'[s] = e
    BY <2>0, <2>1, <2>2, UpdateMarks
  <2>4. UNCHANGED hist /\ Calm BY <1>ReviewTrivial DEF ReviewTrivial, Calm
  <2>5. AllBut(s) /\ SaidKept(s, {}) BY <2>0, <2>3, <2>4 DEF AllBut, SaidKept, Same
  <2>6. InHand(p, "mergeCI") BY <1>ReviewTrivial, GotoHand DEF ReviewTrivial, TypeOK
  <2> QED BY <2>0, <2>1, <2>3, <2>4, <2>5, <2>6 DEF Reviewed
<1>ReviewMark. ASSUME NEW p \in Pass, ReviewMark(p) PROVE Reviewed(p)
  <2> DEFINE s == pass[p].cur
             e(c) == [watch[s] EXCEPT !.reviewed = c]
  <2>0. s \in Session /\ watch[s] \in Entry /\ pass[p].pc = "reviewMark"
    BY <1>ReviewMark, Access DEF PassOK, ReviewMark, At
  <2>1. \A c : Same(Marks \ {"reviewed"}, watch[s], e(c)) /\ e(c).reviewed = c
    BY <2>0 DEF Entry, Same, Marks
  <2>2. PICK c \in pass[p].ids : Update(s, e(c)) BY <1>ReviewMark DEF ReviewMark
  <2> HIDE DEF e
  <2>3. /\ MarksKept(s, {"reviewed"}) /\ \A t \in Session \ {s} : MarksKept(t, {})
        /\ watch[s].tracked => watch'[s] = e(c)
    BY <2>0, <2>1, <2>2, UpdateMarks
  <2>4. UNCHANGED hist /\ Calm BY <1>ReviewMark DEF ReviewMark, Calm
  <2>5. AllBut(s) /\ SaidKept(s, {}) BY <2>0, <2>3, <2>4 DEF AllBut, SaidKept, Same
  <2>6. InHand(p, "mergeCI") BY <1>ReviewMark, GotoHand DEF ReviewMark, TypeOK
  <2> QED BY <2>0, <2>1, <2>2, <2>3, <2>4, <2>5, <2>6 DEF Reviewed
<1>AskApproval. ASSUME NEW p \in Pass, AskApproval(p) PROVE Asks(p)
  <2> DEFINE s == pass[p].cur
             h == [hist[s] EXCEPT !.asks = @ + 1]
  <2>0. s \in Session /\ hist[s] \in HistRec /\ pass[p].pc = "ask"
    BY <1>AskApproval, Access DEF PassOK, AskApproval, At
  <2>1. Same(Said \ {"asks"}, hist[s], h) /\ h.asks = hist[s].asks + 1 BY <2>0 DEF HistRec, Same, Said
  <2>2. hist' = [hist EXCEPT ![s] = h] BY <1>AskApproval DEF AskApproval
  <2> HIDE DEF h
  <2>3. SaidKept(s, {"asks"}) /\ hist'[s] = h /\ \A t \in Session \ {s} : SaidKept(t, {})
    BY <2>0, <2>1, <2>2, HistSaid
  <2>4. UNCHANGED watch /\ Calm BY <1>AskApproval DEF AskApproval, Calm
  <2>5. AllBut(s) /\ MarksKept(s, {}) BY <2>0, <2>3, <2>4 DEF AllBut, MarksKept, Same
  <2>6. InHand(p, "askMark") BY <1>AskApproval, GotoHand DEF AskApproval, TypeOK
  <2> QED BY <2>0, <2>1, <2>3, <2>4, <2>5, <2>6 DEF Asks
<1>AskMark. ASSUME NEW p \in Pass, AskMark(p) PROVE Asked(p)
  <2> DEFINE s == pass[p].cur
             e == [watch[s] EXCEPT !.asked = TRUE]
  <2>0. s \in Session /\ watch[s] \in Entry /\ pass[p].pc = "askMark"
    BY <1>AskMark, Access DEF PassOK, AskMark, At
  <2>1. Same(Marks \ {"asked"}, watch[s], e) /\ e.asked BY <2>0 DEF Entry, Same, Marks
  <2>2. Update(s, e) BY <1>AskMark DEF AskMark
  <2> HIDE DEF e
  <2>3. /\ MarksKept(s, {"asked"}) /\ \A t \in Session \ {s} : MarksKept(t, {})
        /\ watch[s].tracked => watch'[s] = e
    BY <2>0, <2>1, <2>2, UpdateMarks
  <2>4. UNCHANGED hist /\ Calm BY <1>AskMark DEF AskMark, Calm
  <2>5. AllBut(s) /\ SaidKept(s, {}) BY <2>0, <2>3, <2>4 DEF AllBut, SaidKept, Same
  <2>6. InHand(p, "stamp") BY <1>AskMark, GotoHand DEF AskMark, TypeOK
  <2> QED BY <2>0, <2>1, <2>3, <2>4, <2>5, <2>6 DEF Asked
<1>Merge. ASSUME NEW p \in Pass, Merge(p) PROVE Walks(p) \/ Accepted(p)
  <2> DEFINE s == pass[p].cur
             f == forge[s]
             m == IF Gated(f) THEN "gated" ELSE IF hist[s].touched THEN "raced" ELSE "ungated"
             h == [hist[s] EXCEPT !.finished = TRUE, !.merge = m]
             g(r) == [forge[s] EXCEPT !.state = "merged", !.main = r]
             accepts == f.state = "opened" /\ ~f.draft /\ (GitLabRepo \/ f.approved)
  <2>0. s \in Session /\ hist[s] \in HistRec /\ forge[s] \in Forge /\ pass[p].pc = "merge"
    BY <1>Merge, Access DEF PassOK, Merge, At
  <2>1. CASE accepts
    <3>1. /\ \E r : forge' = [forge EXCEPT ![s] = g(r)]
          /\ hist' = [hist EXCEPT ![s] = h] /\ Goto(p, "merged")
      BY <1>Merge, <2>1 DEF Merge
    <3>2. \A r : g(r).state = "merged" /\ g(r).head = f.head /\ g(r).ci = f.ci BY <2>0 DEF Forge
    <3>3. Same(Said \ {"merge", "finished"}, hist[s], h) /\ h.finished /\ h.merge = m
      <4> HIDE DEF m
      <4> QED BY <2>0 DEF HistRec, Same, Said
    <3> HIDE DEF g, h
    <3>4. /\ SaidKept(s, {"merge", "finished"}) /\ hist'[s] = h
          /\ \A t \in Session \ {s} : SaidKept(t, {})
      BY <2>0, <3>1, <3>3, HistSaid
    <3>5. /\ forge'[s].head = f.head /\ forge'[s].ci = f.ci /\ forge'[s].state = "merged"
          /\ \A t \in Session \ {s} : forge'[t] = forge[t]
      BY <2>0, <3>1, <3>2 DEF TypeOK
    <3>6. UNCHANGED <<watch, issueClosed, budget>> BY <1>Merge DEF Merge
    <3>7. AllBut(s) /\ MarksKept(s, {}) BY <2>0, <3>4, <3>6 DEF AllBut, MarksKept, Same
    <3>8. InHand(p, "merged") BY <3>1, GotoHand DEF TypeOK
    <3> QED BY <2>0, <2>1, <3>3, <3>4, <3>5, <3>6, <3>7, <3>8 DEF Accepted
  <2>2. CASE ~accepts
    <3>1. Goto(p, "stamp") /\ Calm /\ UNCHANGED <<watch, hist>> BY <1>Merge, <2>2 DEF Merge, Calm
    <3>2. InHand(p, "stamp") /\ pass'[p].seen = pass[p].seen BY <3>1, GotoHand DEF TypeOK
    <3>3. Edge(p, "stamp") BY <2>0 DEF Edge
    <3> QED BY <2>0, <3>1, <3>2, <3>3, StillAlone DEF Walks, Label
  <2> QED BY <2>1, <2>2
<1>Crash. ASSUME Crash PROVE Restarts
  <2>1. budget'.crashes = budget.crashes + 1 BY <1>Crash, SpendCrash DEF Crash, TypeOK
  <2>2. IdlePass.pc = "idle" /\ IdlePass.cur = NoSession /\ IdlePass.todo = {} /\ IdlePass.drop = {}
    BY DEF IdlePass
  <2> QED BY <1>Crash, <2>1, <2>2 DEF Crash, Restarts
<1>TrackMR. ASSUME NEW s \in Session, TrackMR(s) PROVE Tracked(s)
  <2> DEFINE e == Fresh(worker[s] # "none")
  <2>1. ~e.post /\ e.notFound = 0 /\ e.cursor = 0 /\ ~e.asked /\ e.reviewed = 0 BY DEF Fresh
  <2>2. watch' = [watch EXCEPT ![s] = e] /\ hist' = [hist EXCEPT ![s] = NewHist]
    BY <1>TrackMR DEF TrackMR
  <2> HIDE DEF e
  <2>3. /\ watch'[s] = e /\ hist'[s] = NewHist
        /\ \A t \in Session \ {s} : watch'[t] = watch[t] /\ hist'[t] = hist[t]
    BY <2>2 DEF TypeOK
  <2>4. AllBut(s) BY <2>3 DEF AllBut, MarksKept, SaidKept, Same
  <2>5. budget'.crashes = budget.crashes BY <1>TrackMR, SpendOther DEF TrackMR, TypeOK
  <2> QED BY <1>TrackMR, <2>1, <2>3, <2>4, <2>5 DEF TrackMR, Tracked, Calm
<1>Forges. ASSUME NEW s \in Session, NEW f, ForgeStep(s, f), f.head \in Push, f.head >= forge[s].head,
                  budget'.crashes = budget.crashes
           PROVE  Moved(s)
  <2> DEFINE b == hist[s].finished \/ f.state \in {"merged", "closed"}
             h == [hist[s] EXCEPT !.touched = TRUE, !.finished = b]
  <2>1. Same(Said \ {"touched", "finished"}, hist[s], h) /\ h.touched /\ h.finished = b
    BY DEF TypeOK, HistRec, Same, Said
  <2>2. hist' = [hist EXCEPT ![s] = h] BY <1>Forges DEF ForgeStep
  <2> HIDE DEF h
  <2>3. /\ SaidKept(s, {"touched", "finished"}) /\ hist'[s] = h
        /\ \A t \in Session \ {s} : SaidKept(t, {})
    BY <2>1, <2>2, HistSaid
  <2>4. forge'[s] = f /\ \A t \in Session \ {s} : forge'[t] = forge[t]
    BY <1>Forges DEF ForgeStep, TypeOK
  <2>5. UNCHANGED <<watch, issueClosed, pass>> BY <1>Forges DEF ForgeStep
  <2>6. AllBut(s) BY <2>3, <2>5 DEF AllBut, MarksKept, Same
  <2> QED BY <1>Forges, <2>1, <2>3, <2>4, <2>5, <2>6 DEF Moved
<1>Heads. \A s \in Session : forge[s] \in Forge /\ forge[s].head \in Push /\ forge[s].head >= forge[s].head
  BY LimitAssumption DEF TypeOK, Forge, Push
<1>PushCommit. ASSUME NEW s \in Session, PushCommit(s) PROVE Moved(s)
  <2> DEFINE f == [forge[s] EXCEPT !.head = @ + 1, !.ci[forge[s].head + 1] = "running"]
  <2>1. f.head = forge[s].head + 1 BY DEF TypeOK, Forge
  <2>2. ForgeStep(s, f) /\ forge[s].head < MaxPush BY <1>PushCommit DEF PushCommit
  <2> HIDE DEF f
  <2>3. f.head \in Push /\ f.head >= forge[s].head BY <1>Heads, <2>1, <2>2, LimitAssumption DEF Push
  <2> QED BY <1>PushCommit, <2>2, <2>3, <1>Forges DEF PushCommit
<1>FinishPipeline. ASSUME NEW s \in Session, FinishPipeline(s) PROVE Moved(s)
  <2> DEFINE f(c, r) == [forge[s] EXCEPT !.ci[c] = r]
  <2>1. \A c, r : f(c, r).head = forge[s].head BY DEF TypeOK, Forge
  <2>2. \E c, r : ForgeStep(s, f(c, r)) BY <1>FinishPipeline DEF FinishPipeline
  <2> HIDE DEF f
  <2> QED BY <1>FinishPipeline, <1>Heads, <2>1, <2>2, <1>Forges DEF FinishPipeline
<1>FinishMain. ASSUME NEW s \in Session, FinishMain(s) PROVE Moved(s)
  <2> DEFINE f(r) == [forge[s] EXCEPT !.main = r]
  <2>1. \A r : f(r).head = forge[s].head BY DEF TypeOK, Forge
  <2>2. \E r : ForgeStep(s, f(r)) BY <1>FinishMain DEF FinishMain
  <2> HIDE DEF f
  <2> QED BY <1>FinishMain, <1>Heads, <2>1, <2>2, <1>Forges DEF FinishMain
<1>HumanStep. ASSUME NEW s \in Session, HumanStep(s) PROVE Moved(s)
  <2>1. \E f : f.head = forge[s].head /\ ForgeStep(s, f)
    <3> DEFINE g == forge[s]
    <3>0. g \in Forge BY DEF TypeOK
    <3>1. \A x : [g EXCEPT !.approved = x].head = g.head BY <3>0 DEF Forge
    <3>2. \A x : [g EXCEPT !.draft = x].head = g.head BY <3>0 DEF Forge
    <3>3. \A x : [g EXCEPT !.thread = x].head = g.head BY <3>0 DEF Forge
    <3>4. \A x : [g EXCEPT !.state = "merged", !.main = x].head = g.head BY <3>0 DEF Forge
    <3>5. \A x : [g EXCEPT !.state = x].head = g.head BY <3>0 DEF Forge
    <3>6. \A x : [g EXCEPT !.ci = x].head = g.head BY <3>0 DEF Forge
    <3>7. \/ \E x : ForgeStep(s, [g EXCEPT !.approved = x])
          \/ \E x : ForgeStep(s, [g EXCEPT !.draft = x])
          \/ \E x : ForgeStep(s, [g EXCEPT !.thread = x])
          \/ \E x : ForgeStep(s, [g EXCEPT !.state = "merged", !.main = x])
          \/ \E x : ForgeStep(s, [g EXCEPT !.state = x])
          \/ \E x : ForgeStep(s, [g EXCEPT !.ci = x])
      BY <1>HumanStep DEF HumanStep
    <3> QED BY <3>1, <3>2, <3>3, <3>4, <3>5, <3>6, <3>7
  <2>2. budget'.crashes = budget.crashes BY <1>HumanStep, SpendOther DEF HumanStep, TypeOK
  <2> QED BY <1>Heads, <2>1, <2>2, <1>Forges
<1>WorkerChange. ASSUME NEW s \in Session, WorkerChange(s) PROVE Elsewhere
  BY <1>WorkerChange, SpendOther DEF WorkerChange, Elsewhere, TypeOK
<1>PostNote. ASSUME NEW s \in Session, PostNote(s) PROVE Elsewhere
  BY <1>PostNote DEF PostNote, Elsewhere
<1>Stutter. CASE UNCHANGED vars BY <1>Stutter DEF vars, Elsewhere
<1>Run. ASSUME NEW p \in Pass, RunStep(p) PROVE PassStep(p)
  BY <1>Run, <1>StartPass, <1>EndPass, <1>Visit, <1>FetchNotFound, <1>Fetch, <1>Reap,
     <1>PipelineNoNews, <1>TripBreaker, <1>ReviewCI, <1>ReviewSkip, <1>MergeCI,
     <1>MergeApproval, <1>MergePR, <1>MergeThreads, <1>MainFailed, <1>Terminal,
     <1>Forget, <1>ForwardNotes, <1>SendNotes, <1>PipelineFailed,
     <1>PipelinePassed, <1>SendRepair, <1>ReviewTrivial, <1>ReviewMark,
     <1>AskMark, <1>Merged, <1>Stamp, <1>PostMerge, <1>MainMark, <1>MainPassed,
     <1>MainUndecided, <1>ReviewSend, <1>AskApproval, <1>Merge, <1>ApiError
  DEF RunStep, EntryStep, PassStep
<1>Env. ASSUME NEW s \in Session, Environment(s) PROVE Tracked(s) \/ Moved(s) \/ Elsewhere
  BY <1>Env, <1>TrackMR, <1>WorkerChange, <1>PushCommit, <1>FinishPipeline, <1>FinishMain,
     <1>HumanStep, <1>PostNote
  DEF Environment
<1> QED BY <1>Run, <1>Env, <1>Crash, <1>Stutter DEF Next

-----------------------------------------------------------------------------
(* The gates of the GitHub adapter: once past the CI gate, the head is green   *)
(* or the forge changed since the pass reached the entry.                      *)
Gates == {"mergeApproval", "ask", "askMark", "mergePR", "mergeThreads", "merge"}

Green(s) == hist[s].touched \/ forge[s].ci[forge[s].head] = "success"

GateInv ==
    /\ QuietMergeGated
    /\ \A p \in Pass : pass[p].pc \in Gates => Green(pass[p].cur)

(* Before the gates nothing was merged.                                        *)
LEMMA InitGate == Init => GateInv
BY DEF Init, GateInv, QuietMergeGated, NewHist, IdlePass, Gates

(* A step after which no pass stands before a gate.                            *)
LEMMA OutsideGates ==
    ASSUME OnePass, GateInv, NEW p \in Pass, pass'[p].pc \notin Gates,
           \A s \in Session : SaidKept(s, {"touched", "fwd", "misses", "reviews"})
    PROVE  GateInv'
<1>1. \A q \in Pass : q = p BY DEF OnePass
<1>2. \A s \in Session : hist'[s].merge = hist[s].merge BY DEF SaidKept, Same, Said
<1> QED BY <1>1, <1>2 DEF GateInv, QuietMergeGated

(* Every step keeps GateInv: the CI gate and the merge itself are where it     *)
(* could fail.                                                                 *)
LEMMA StepGate ==
    ASSUME OnePass, ~GitLabRepo, TypeInv, GateInv, [Next]_vars
    PROVE  GateInv'
<1> DEFINE Few == {"touched", "fwd", "misses", "reviews"}
<1>A. \A s \in Session : SaidKept(s, {}) => SaidKept(s, Few) BY DEF SaidKept, Same
<1>B. \A s \in Session : \A k \in Few : SaidKept(s, {k}) => SaidKept(s, Few) BY DEF SaidKept, Same
<1>1. ASSUME NEW p \in Pass, PassStep(p) PROVE GateInv'
  <2>1. \A q \in Pass : q = p BY DEF OnePass
  <2>2. CASE Leaves(p) \/ Settles(p) \/ Begins(p) \/ Ends(p) \/ Skips(p) \/ Forgets(p)
               \/ Forwards(p) \/ Reviewed(p)
    <3>1. pass'[p].pc \notin Gates
      BY <2>2 DEF Leaves, Settles, Begins, Ends, Skips, Forgets, Forwards, Reviewed, PutDown, InHand, Gates
    <3>2. \A s \in Session : SaidKept(s, {})
      BY <2>2 DEF Leaves, Settles, Begins, Ends, Skips, Forgets, Forwards, Reviewed, Alone, AllBut
    <3> QED BY <3>1, <3>2, <1>A, OutsideGates
  <2>3. CASE Enters(p) \/ Misses(p) \/ Answered(p) \/ Sends(p) \/ Requests(p)
    <3>1. pass'[p].pc \notin Gates
      BY <2>3 DEF Enters, Misses, Answered, Sends, Requests, PutDown, InHand, Gates
    <3>2. \E s \in {pass[p].cur, pass'[p].cur} :
             AllBut(s) /\ \E k \in Few : SaidKept(s, {k})
      <4>1. CASE Enters(p) BY <4>1 DEF Enters
      <4>2. CASE Misses(p) BY <4>2 DEF Misses
      <4>3. CASE Answered(p) BY <4>3 DEF Answered
      <4>4. CASE Sends(p) BY <4>4 DEF Sends
      <4>5. CASE Requests(p) BY <4>5 DEF Requests
      <4> QED BY <2>3, <4>1, <4>2, <4>3, <4>4, <4>5
    <3>3. \A s \in Session : SaidKept(s, Few) BY <3>2, <1>A, <1>B DEF AllBut
    <3> QED BY <3>1, <3>3, OutsideGates
  <2>4. CASE Asks(p) \/ Asked(p)
    <3> DEFINE s == pass[p].cur
    <3>1. \A t \in Session : hist'[t].merge = hist[t].merge /\ hist'[t].touched = hist[t].touched
      BY <2>4 DEF Asks, Asked, AllBut, SaidKept, Same, Said
    <3>2. s \in Session /\ UNCHANGED forge /\ pass'[p].cur = s
      BY <2>4 DEF Asks, Asked, AllBut, Calm, InHand
    <3>3. pass'[p].pc \in Gates => pass[p].pc \in Gates
      BY <2>4 DEF Asks, Asked, InHand, Gates
    <3> QED BY <2>1, <3>1, <3>2, <3>3 DEF GateInv, QuietMergeGated, Green
  <2>5. CASE Walks(p)
    <3> DEFINE s == pass[p].cur
    <3>1. \A t \in Session : hist'[t].merge = hist[t].merge /\ hist'[t].touched = hist[t].touched
      BY <2>5 DEF Walks, Alone, SaidKept, Same, Said
    <3>2. s \in Session /\ UNCHANGED forge /\ pass'[p].cur = s BY <2>5 DEF Walks, Calm, InHand
    <3>3. CASE pass[p].pc \in Gates
      BY <2>1, <3>1, <3>2, <3>3 DEF GateInv, QuietMergeGated, Green
    <3>4. CASE pass[p].pc \notin Gates /\ pass'[p].pc \in Gates
      <4>1. CIStatus(s) = "success" BY <2>5, <3>4 DEF Walks, Edge, InHand, Gates
      <4>2. forge[s].ci[forge[s].head] = "success" BY <4>1 DEF CIStatus
      <4> QED BY <2>1, <3>1, <3>2, <4>2 DEF GateInv, QuietMergeGated, Green
    <3>5. CASE pass'[p].pc \notin Gates
      BY <2>1, <3>1, <3>5 DEF GateInv, QuietMergeGated
    <3> QED BY <3>3, <3>4, <3>5
  <2>6. CASE Accepted(p)
    <3> DEFINE s == pass[p].cur
    <3>1. s \in Session /\ Green(s) BY <2>6 DEF Accepted, AllBut, GateInv, Gates
    <3>2. hist'[s].merge # "ungated"
      BY <2>6, <3>1 DEF Accepted, Gated, Green
    <3>3. \A t \in Session \ {s} : hist'[t].merge = hist[t].merge
      BY <2>6 DEF Accepted, AllBut, SaidKept, Same, Said
    <3>4. pass'[p].pc \notin Gates BY <2>6 DEF Accepted, InHand, Gates
    <3> QED BY <2>1, <3>2, <3>3, <3>4 DEF GateInv, QuietMergeGated
  <2> QED BY <1>1, <2>2, <2>3, <2>4, <2>5, <2>6 DEF PassStep
<1>2. CASE Restarts BY <1>2 DEF Restarts, GateInv, QuietMergeGated, Gates
<1>3. CASE Elsewhere BY <1>3 DEF Elsewhere, GateInv, QuietMergeGated, Green
<1>4. ASSUME NEW s \in Session, Tracked(s) PROVE GateInv'
  <2>1. hist'[s].merge = "none" BY <1>4 DEF Tracked, NewHist
  <2>2. \A t \in Session \ {s} : hist'[t].merge = hist[t].merge /\ hist'[t].touched = hist[t].touched
    BY <1>4 DEF Tracked, AllBut, SaidKept, Same, Said
  <2>3. ASSUME NEW p \in Pass, pass'[p].pc \in Gates PROVE Green(pass[p].cur)'
    <3>1. pass' = pass /\ forge' = forge /\ pass[p].cur # s BY <1>4 DEF Tracked, Calm
    <3>2. pass[p].cur \in Session BY <2>3, <3>1 DEF TypeInv, PassOK, Gates
    <3> QED BY <2>2, <2>3, <3>1, <3>2 DEF GateInv, Green
  <2> QED BY <2>1, <2>2, <2>3 DEF GateInv, QuietMergeGated
<1>5. ASSUME NEW s \in Session, Moved(s) PROVE GateInv'
  <2>1. hist'[s].touched /\ \A t \in Session : hist'[t].merge = hist[t].merge
    BY <1>5 DEF Moved, AllBut, SaidKept, Same, Said
  <2>2. \A t \in Session \ {s} : forge'[t] = forge[t] /\ hist'[t].touched = hist[t].touched
    BY <1>5 DEF Moved, AllBut, SaidKept, Same, Said
  <2>3. ASSUME NEW p \in Pass, pass'[p].pc \in Gates PROVE Green(pass[p].cur)'
    <3>1. pass' = pass BY <1>5 DEF Moved
    <3>2. pass[p].cur \in Session BY <2>3, <3>1 DEF TypeInv, PassOK, Gates
    <3> QED BY <2>1, <2>2, <2>3, <3>1, <3>2 DEF GateInv, Green
  <2> QED BY <2>1, <2>3 DEF GateInv, QuietMergeGated
<1> QED BY <1>1, <1>2, <1>3, <1>4, <1>5, StepKinds

(* With the GitHub adapter and one Run at a time, whatever is merged without a *)
(* change of the forge in between was green, approved and not a draft.         *)
THEOREM MergeGated ==
    ASSUME OnePass, ~GitLabRepo
    PROVE  Spec => []QuietMergeGated
<1>1. TypeInv /\ GateInv /\ [Next]_vars => GateInv' BY StepGate
<1>2. Spec => []GateInv BY <1>1, InitType, StepType, InitGate, PTL DEF Spec
<1>3. GateInv => QuietMergeGated BY DEF GateInv
<1> QED BY <1>2, <1>3, PTL

-----------------------------------------------------------------------------
(* How entries leave.  A pass that works on the end of a merge request, and an *)
(* entry whose main pipeline is watched, are about a request that was merged   *)
(* or closed; its issue follows unless the watcher merged it itself.           *)
Finishing == {"terminal", "reap", "forget", "merged", "postMerge", "mainPoll", "mainMark"}

Follows(s) == issueClosed[s] \/ hist[s].merge # "none"

Finished(s) ==
    /\ forge[s].state \in {"merged", "closed"} => hist[s].finished
    /\ watch[s].tracked /\ watch[s].post => hist[s].finished /\ Follows(s)

Finishes(p) ==
    LET s == pass[p].cur IN
    /\ pass[p].pc \in Finishing => hist[s].finished
    /\ pass[p].pc = "terminal" =>
          pass[p].seen = "closed" \/ (pass[p].seen = "merged" /\ issueClosed[s])
    /\ pass[p].pc = "merged" => hist[s].merge # "none"
    /\ pass[p].pc \in {"postMerge", "mainPoll", "mainMark"} => Follows(s)
    /\ pass[p].pc \in {"reap", "forget"} => pass[p].seen = "closed" \/ Follows(s)

FinishInv ==
    /\ \A s \in Session : Finished(s)
    /\ \A p \in Pass : Finishes(p)

(* Nothing that was done for a request is undone.                              *)
Grows ==
    \A t \in Session :
        /\ hist[t].finished => hist'[t].finished
        /\ issueClosed[t] => issueClosed'[t]
        /\ hist[t].merge # "none" => hist'[t].merge # "none"

(* At the start no request is over.                                            *)
LEMMA InitFinish == Init => FinishInv
BY DEF Init, FinishInv, Finished, Finishes, NewForge, NewHist, IdlePass, Absent, Fresh, Finishing

(* The passes that do not move keep their part.                                *)
LEMMA FinishOther ==
    ASSUME TypeInv, FinishInv, Grows, NEW p \in Pass, Others(p), Finishes(p)'
    PROVE  \A q \in Pass : Finishes(q)'
<1> SUFFICES ASSUME NEW q \in Pass, q # p PROVE Finishes(q)' OBVIOUS
<1>1. pass'[q] = pass[q] BY DEF Others
<1>2. pass[q].pc \notin {"idle", "next"} => pass[q].cur \in Session BY DEF TypeInv, PassOK
<1>3. Finishes(q) BY DEF FinishInv
<1> QED BY <1>1, <1>2, <1>3 DEF Finishes, Grows, Follows, Finishing

(* Nor do entries that keep their marks.                                       *)
LEMMA FinishedKept ==
    ASSUME FinishInv, Grows, NEW t \in Session, forge'[t].state = forge[t].state,
           watch'[t].tracked => watch[t].tracked, watch'[t].post => watch[t].post
    PROVE  Finished(t)'
BY DEF FinishInv, Finished, Grows, Follows

(* Every step keeps FinishInv, with any number of passes at once.              *)
LEMMA StepFinish ==
    ASSUME TypeInv, FinishInv, [Next]_vars
    PROVE  FinishInv'
<1>1. ASSUME NEW p \in Pass, PassStep(p) PROVE FinishInv'
  <2> DEFINE s == pass[p].cur
  <2>0. Finishes(p) /\ \A t \in Session : Finished(t) BY DEF FinishInv
  <2>1. CASE Leaves(p) \/ Begins(p) \/ Skips(p) \/ Ends(p) \/ Misses(p) \/ Forgets(p) \/ Forwards(p)
               \/ Sends(p) \/ Requests(p) \/ Reviewed(p) \/ Asks(p) \/ Asked(p)
    <3>1. UNCHANGED <<forge, issueClosed>>
      BY <2>1, Zenon
      DEF Leaves, Begins, Skips, Ends, Misses, Forgets, Forwards, Sends, Requests, Reviewed,
          Asks, Asked, Calm
    <3>2. \A t \in Session : hist'[t].finished = hist[t].finished /\ hist'[t].merge = hist[t].merge
      BY <2>1, Zenon
      DEF Leaves, Begins, Skips, Ends, Misses, Forgets, Forwards, Sends, Requests, Reviewed,
          Asks, Asked, Alone, AllBut, SaidKept, Same, Said
    <3>3. \A t \in Session : /\ watch'[t].tracked => watch[t].tracked
                             /\ watch'[t].tracked => watch'[t].post = watch[t].post
      BY <2>1, Zenon
      DEF Leaves, Begins, Skips, Ends, Misses, Forgets, Forwards, Sends, Requests, Reviewed,
          Asks, Asked, Alone, AllBut, MarksKept, Same, Marks
    <3>4. Grows BY <3>1, <3>2 DEF Grows
    <3>5. \A t \in Session : Finished(t)' BY <2>0, <3>1, <3>2, <3>3 DEF Finished, Follows
    <3>6. pass'[p].pc \notin Finishing
      BY <2>1, Zenon
      DEF Leaves, Begins, Skips, Ends, Misses, Forgets, Forwards, Sends, Requests, Reviewed,
          Asks, Asked, PutDown, InHand, Finishing
    <3>7. Finishes(p)' BY <3>6 DEF Finishes, Finishing
    <3>8. Others(p)
      BY <2>1 DEF Leaves, Begins, Skips, Ends, Misses, Forgets, Forwards, Sends, Requests, Reviewed,
                  Asks, Asked, PutDown, InHand
    <3> QED BY <3>4, <3>5, <3>7, <3>8, FinishOther DEF FinishInv
  <2>2. CASE Walks(p)
    <3>1. UNCHANGED <<forge, issueClosed>> /\ s \in Session BY <2>2 DEF Walks, Calm
    <3>2. \A t \in Session : hist'[t].finished = hist[t].finished /\ hist'[t].merge = hist[t].merge
      BY <2>2 DEF Walks, Alone, SaidKept, Same, Said
    <3>3. \A t \in Session : watch'[t].tracked = watch[t].tracked /\ watch'[t].post = watch[t].post
      BY <2>2 DEF Walks, Alone, MarksKept, Same, Marks
    <3>4. Grows BY <3>1, <3>2 DEF Grows
    <3>5. \A t \in Session : Finished(t)' BY <2>0, <3>1, <3>2, <3>3 DEF Finished, Follows
    <3>6. PICK l \in Label : InHand(p, l) /\ Edge(p, l) /\ pass'[p].seen = pass[p].seen
      BY <2>2 DEF Walks
    <3>7. pass'[p].pc = l /\ pass'[p].cur = s /\ Others(p) BY <3>6 DEF InHand
    <3>8. Finishes(p)'
      BY <2>0, <3>1, <3>2, <3>6, <3>7 DEF Finishes, Follows, Edge, Finishing
    <3> QED BY <3>4, <3>5, <3>7, <3>8, FinishOther DEF FinishInv
  <2>3. CASE Settles(p)
    <3>1. UNCHANGED <<forge, issueClosed>> /\ s \in Session BY <2>3 DEF Settles, Calm, AllBut
    <3>2. \A t \in Session : hist'[t].finished = hist[t].finished /\ hist'[t].merge = hist[t].merge
      BY <2>3 DEF Settles, AllBut, SaidKept, Same, Said
    <3>3. \A t \in Session : watch'[t].tracked = watch[t].tracked /\ (t # s => watch'[t].post = watch[t].post)
      BY <2>3 DEF Settles, AllBut, MarksKept, Same, Marks
    <3>4. Grows BY <3>1, <3>2 DEF Grows
    <3>5. hist[s].finished /\ Follows(s) BY <2>0, <2>3 DEF Settles, Finishes, Follows, Finishing
    <3>6. \A t \in Session : Finished(t)' BY <2>0, <3>1, <3>2, <3>3, <3>5 DEF Finished, Follows
    <3>7. pass'[p].pc \notin Finishing /\ Others(p)
      BY <2>3 DEF Settles, PutDown, InHand, Finishing
    <3>8. Finishes(p)' BY <3>7 DEF Finishes, Finishing
    <3> QED BY <3>4, <3>6, <3>7, <3>8, FinishOther DEF FinishInv
  <2>4. CASE Enters(p)
    <3> DEFINE t == pass'[p].cur
    <3>1. UNCHANGED <<forge, issueClosed>> /\ t \in Session BY <2>4 DEF Enters, Calm, AllBut
    <3>2. \A u \in Session : hist'[u].finished = hist[u].finished /\ hist'[u].merge = hist[u].merge
      BY <2>4 DEF Enters, AllBut, SaidKept, Same, Said
    <3>3. \A u \in Session : watch'[u].tracked = watch[u].tracked /\ watch'[u].post = watch[u].post
      BY <2>4 DEF Enters, AllBut, MarksKept, Same, Marks
    <3>4. Grows BY <3>1, <3>2 DEF Grows
    <3>5. \A u \in Session : Finished(u)' BY <2>0, <3>1, <3>2, <3>3 DEF Finished, Follows
    <3>6. /\ pass'[p].pc \in {"postMerge", "fetch"} /\ Others(p)
          /\ pass'[p].pc = "postMerge" => watch[t].tracked /\ watch[t].post
      BY <2>4 DEF Enters
    <3>7. pass'[p].pc = "postMerge" => hist[t].finished /\ Follows(t)
      BY <2>0, <3>1, <3>6 DEF Finished
    <3>8. Finishes(p)' BY <3>1, <3>2, <3>6, <3>7 DEF Finishes, Follows, Finishing
    <3> QED BY <3>4, <3>5, <3>6, <3>8, FinishOther DEF FinishInv
  <2>5. CASE Answered(p)
    <3>1. UNCHANGED forge /\ s \in Session /\ Others(p) BY <2>5 DEF Answered, AllBut, InHand
    <3>2. \A t \in Session : hist'[t].finished = hist[t].finished /\ hist'[t].merge = hist[t].merge
      BY <2>5 DEF Answered, AllBut, SaidKept, Same, Said
    <3>3. \A t \in Session : watch'[t].tracked = watch[t].tracked /\ watch'[t].post = watch[t].post
      BY <2>5 DEF Answered, AllBut, MarksKept, Same, Marks
    <3>4. \A t \in Session : issueClosed'[t] <=> issueClosed[t] \/ (t = s /\ forge[s].state = "merged")
      BY <2>5 DEF Answered
    <3>5. Grows BY <3>2, <3>4 DEF Grows
    <3>6. \A t \in Session : Finished(t)' BY <2>0, <3>1, <3>2, <3>3, <3>4 DEF Finished, Follows
    <3>7. /\ pass'[p].pc = IF forge[s].state \in {"merged", "closed"} THEN "terminal" ELSE "notes"
          /\ pass'[p].cur = s /\ pass'[p].seen = forge[s].state
      BY <2>5 DEF Answered, InHand
    <3>8. CASE pass'[p].pc = "terminal"
      <4>1. forge[s].state \in {"merged", "closed"} /\ hist[s].finished
        BY <2>0, <3>1, <3>7, <3>8 DEF Finished
      <4>2. pass'[p].seen = "closed" \/ (pass'[p].seen = "merged" /\ issueClosed'[s])
        BY <3>1, <3>4, <3>7, <4>1
      <4>3. Finishes(p)' BY <3>1, <3>2, <3>7, <3>8, <4>1, <4>2 DEF Finishes
      <4> QED BY <3>1, <3>5, <3>6, <4>3, FinishOther DEF FinishInv
    <3>9. CASE pass'[p].pc = "notes"
      <4>1. Finishes(p)' BY <3>9 DEF Finishes, Finishing
      <4> QED BY <3>1, <3>5, <3>6, <4>1, FinishOther DEF FinishInv
    <3> QED BY <3>7, <3>8, <3>9
  <2>6. CASE Accepted(p)
    <3>1. s \in Session /\ UNCHANGED issueClosed /\ Others(p) /\ pass'[p].pc = "merged" /\ pass'[p].cur = s
      BY <2>6 DEF Accepted, AllBut, InHand
    <3>2. \A t \in Session : t # s => /\ hist'[t].finished = hist[t].finished
                                      /\ hist'[t].merge = hist[t].merge /\ forge'[t] = forge[t]
      BY <2>6 DEF Accepted, AllBut, SaidKept, Same, Said
    <3>3. \A t \in Session : watch'[t].tracked = watch[t].tracked /\ watch'[t].post = watch[t].post
      BY <2>6 DEF Accepted, AllBut, MarksKept, Same, Marks
    <3>4. hist'[s].finished /\ hist'[s].merge # "none" BY <2>6 DEF Accepted
    <3>5. Grows BY <3>1, <3>2, <3>4 DEF Grows
    <3>6. \A t \in Session : Finished(t)'
      BY <2>0, <3>1, <3>2, <3>3, <3>4 DEF Finished, Follows
    <3>7. Finishes(p)' BY <3>1, <3>4 DEF Finishes
    <3> QED BY <3>1, <3>5, <3>6, <3>7, FinishOther DEF FinishInv
  <2> QED BY <1>1, <2>1, <2>2, <2>3, <2>4, <2>5, <2>6 DEF PassStep
<1>2. CASE Restarts
  <2>1. \A p \in Pass : Finishes(p)' BY <1>2 DEF Restarts, Finishes, Finishing
  <2>2. Grows BY <1>2 DEF Restarts, Grows
  <2>3. \A t \in Session : Finished(t)' BY <1>2, <2>2, FinishedKept DEF Restarts
  <2> QED BY <2>1, <2>3 DEF FinishInv
<1>3. CASE Elsewhere BY <1>3 DEF Elsewhere, FinishInv, Finished, Finishes, Follows
<1>4. ASSUME NEW s \in Session, Tracked(s) PROVE FinishInv'
  <2>1. UNCHANGED <<forge, issueClosed, pass>> BY <1>4 DEF Tracked, Calm
  <2>2. \A t \in Session \ {s} :
           /\ hist'[t].finished = hist[t].finished /\ hist'[t].merge = hist[t].merge
           /\ watch'[t].tracked = watch[t].tracked /\ watch'[t].post = watch[t].post
    BY <1>4 DEF Tracked, AllBut, SaidKept, MarksKept, Same, Said, Marks
  <2>3. ~watch'[s].post /\ forge[s].state = "opened" BY <1>4 DEF Tracked
  <2>4. \A t \in Session : Finished(t)' BY <2>1, <2>2, <2>3 DEF FinishInv, Finished, Follows
  <2>5. ASSUME NEW q \in Pass PROVE Finishes(q)'
    <3>1. pass[q].pc \notin {"idle", "next"} => pass[q].cur \in Session \ {s}
      BY <1>4 DEF TypeInv, PassOK, Tracked
    <3> QED BY <2>1, <2>2, <3>1 DEF FinishInv, Finishes, Follows, Finishing
  <2> QED BY <2>4, <2>5 DEF FinishInv
<1>5. ASSUME NEW s \in Session, Moved(s) PROVE FinishInv'
  <2>1. UNCHANGED <<watch, issueClosed, pass>> BY <1>5 DEF Moved
  <2>2. \A t \in Session : hist'[t].merge = hist[t].merge
    BY <1>5 DEF Moved, AllBut, SaidKept, Same, Said
  <2>3. \A t \in Session \ {s} : hist'[t].finished = hist[t].finished /\ forge'[t] = forge[t]
    BY <1>5 DEF Moved, AllBut, SaidKept, Same, Said
  <2>4. hist'[s].finished <=> hist[s].finished \/ forge'[s].state \in {"merged", "closed"}
    BY <1>5 DEF Moved
  <2>5. \A t \in Session : Finished(t)' BY <2>1, <2>2, <2>3, <2>4 DEF FinishInv, Finished, Follows
  <2>6. ASSUME NEW q \in Pass PROVE Finishes(q)'
    <3>1. pass[q].pc \notin {"idle", "next"} => pass[q].cur \in Session BY DEF TypeInv, PassOK
    <3>2. hist[pass[q].cur].finished /\ pass[q].cur \in Session => hist'[pass[q].cur].finished
      BY <2>3, <2>4
    <3>3. Finishes(q) BY DEF FinishInv
    <3> QED BY <2>1, <2>2, <3>1, <3>2, <3>3 DEF Finishes, Follows, Finishing
  <2> QED BY <2>5, <2>6 DEF FinishInv
<1> QED BY <1>1, <1>2, <1>3, <1>4, <1>5, StepKinds

-----------------------------------------------------------------------------
(* The count of 404s in the entry never exceeds those in a row; a key that the *)
(* pass has put on its list for removal had NotFoundLimit of them and is not   *)
(* looked at again by this pass.                                               *)
MissOf(p) ==
    /\ pass[p].pc = "fetch" => /\ watch[pass[p].cur].tracked
                               /\ pass[p].entry.notFound = watch[pass[p].cur].notFound
    /\ pass[p].cur \notin pass[p].todo \cup pass[p].drop
    /\ pass[p].todo \cap pass[p].drop = {}
    /\ \A s \in pass[p].drop : hist[s].misses >= NotFoundLimit

MissInv ==
    /\ \A s \in Session : watch[s].tracked => watch[s].notFound <= hist[s].misses
    /\ \A p \in Pass : MissOf(p)

(* Nothing is counted at the start.                                            *)
LEMMA InitMiss == Init => MissInv
BY DEF Init, MissInv, MissOf, NewHist, IdlePass, Absent, Fresh

(* Every step keeps MissInv; FetchNotFound counts in both places.              *)
LEMMA StepMiss ==
    ASSUME OnePass, TypeInv, MissInv, [Next]_vars
    PROVE  MissInv'
<1>N. /\ \A t \in Session : watch[t].notFound \in Nat /\ hist[t].misses \in Nat
      /\ \A q \in Pass : pass[q].todo \subseteq Session /\ pass[q].drop \subseteq Session
  BY EntryFields, HistFields DEF TypeInv, TypeOK, PassRec
<1>1. ASSUME NEW p \in Pass, PassStep(p) PROVE MissInv'
  <2> DEFINE s == pass[p].cur
  <2>0. MissOf(p) /\ \A q \in Pass : q = p BY DEF OnePass, MissInv
  <2>1. CASE Walks(p) \/ Leaves(p) \/ Settles(p) \/ Skips(p) \/ Forwards(p) \/ Sends(p)
               \/ Requests(p) \/ Reviewed(p) \/ Asks(p) \/ Asked(p) \/ Accepted(p)
    <3>1. \A t \in Session :
             /\ hist'[t].misses = hist[t].misses
             /\ watch'[t].tracked = watch[t].tracked /\ watch'[t].notFound = watch[t].notFound
      <4>1. CASE Walks(p) \/ Leaves(p) \/ Skips(p)
        BY <4>1 DEF Walks, Leaves, Skips, Alone, MarksKept, SaidKept, Same, Marks, Said
      <4>2. CASE Settles(p) BY <4>2 DEF Settles, AllBut, MarksKept, SaidKept, Same, Marks, Said
      <4>3. CASE Forwards(p) BY <4>3 DEF Forwards, AllBut, MarksKept, SaidKept, Same, Marks, Said
      <4>4. CASE Sends(p) BY <4>4, SMTT(20) DEF Sends, AllBut, MarksKept, SaidKept, Same, Marks, Said
      <4>5. CASE Requests(p) BY <4>5 DEF Requests, AllBut, MarksKept, SaidKept, Same, Marks, Said
      <4>6. CASE Reviewed(p) BY <4>6 DEF Reviewed, AllBut, MarksKept, SaidKept, Same, Marks, Said
      <4>7. CASE Asks(p) BY <4>7 DEF Asks, AllBut, MarksKept, SaidKept, Same, Marks, Said
      <4>8. CASE Asked(p) BY <4>8 DEF Asked, AllBut, MarksKept, SaidKept, Same, Marks, Said
      <4>9. CASE Accepted(p) BY <4>9 DEF Accepted, AllBut, MarksKept, SaidKept, Same, Marks, Said
      <4> QED BY <2>1, <4>1, <4>2, <4>3, <4>4, <4>5, <4>6, <4>7, <4>8, <4>9
    <3>2. pass'[p].pc # "fetch"
      BY <2>1, Zenon
      DEF Walks, Leaves, Settles, Skips, Forwards, Sends, Requests, Reviewed, Asks, Asked,
          Accepted, InHand, PutDown, Edge
    <3>3. /\ pass'[p].cur \in {s, NoSession} /\ pass'[p].todo \subseteq pass[p].todo
          /\ pass'[p].drop = pass[p].drop
      BY <2>1 DEF Walks, Leaves, Settles, Skips, Forwards, Sends, Requests, Reviewed, Asks, Asked,
                  Accepted, InHand, PutDown
    <3>4. NoSession \notin pass[p].todo \cup pass[p].drop BY <1>N, SessionAssumption
    <3>5. MissOf(p)' BY <1>N, <2>0, <3>1, <3>2, <3>3, <3>4 DEF MissOf
    <3> QED BY <2>0, <3>1, <3>5 DEF MissInv
  <2>2. CASE Begins(p)
    <3>1. \A t \in Session :
             /\ hist'[t].misses = hist[t].misses
             /\ watch'[t].tracked = watch[t].tracked /\ watch'[t].notFound = watch[t].notFound
      BY <2>2 DEF Begins, Alone, MarksKept, SaidKept, Same, Marks, Said
    <3>2. MissOf(p)' BY <2>2, SessionAssumption DEF Begins, MissOf
    <3> QED BY <2>0, <3>1, <3>2 DEF MissInv
  <2>3. CASE Ends(p)
    <3>1. \A t \in Session :
             /\ hist'[t].misses = hist[t].misses
             /\ watch'[t].tracked => watch[t].tracked /\ watch'[t].notFound = watch[t].notFound
      BY <2>3 DEF Ends, MarksKept, SaidKept, Same, Marks, Said
    <3>2. MissOf(p)' BY <2>3 DEF Ends, MissOf
    <3> QED BY <2>0, <3>1, <3>2 DEF MissInv
  <2>4. CASE Enters(p)
    <3>1. \A t \in Session :
             /\ hist'[t].misses = hist[t].misses
             /\ watch'[t].tracked = watch[t].tracked /\ watch'[t].notFound = watch[t].notFound
      BY <2>4 DEF Enters, AllBut, MarksKept, SaidKept, Same, Marks, Said
    <3> DEFINE u == pass'[p].cur
    <3>2. /\ u \in pass[p].todo /\ u \in Session /\ watch[u].tracked /\ pass'[p].entry = watch[u]
          /\ pass'[p].todo = pass[p].todo \ {u} /\ pass'[p].drop = pass[p].drop
      BY <2>4 DEF Enters, AllBut
    <3>3. MissOf(p)' BY <1>N, <2>0, <3>1, <3>2 DEF MissOf
    <3> QED BY <2>0, <3>1, <3>3 DEF MissInv
  <2>5. CASE Misses(p)
    <3>1. s \in Session /\ watch[s].tracked /\ pass[p].entry.notFound = watch[s].notFound
      BY <2>0, <2>5 DEF Misses, AllBut, MissOf
    <3>2. \A t \in Session \ {s} :
             /\ hist'[t].misses = hist[t].misses
             /\ watch'[t].tracked = watch[t].tracked /\ watch'[t].notFound = watch[t].notFound
      BY <2>5 DEF Misses, AllBut, MarksKept, SaidKept, Same, Marks, Said
    <3>3. hist'[s].misses = hist[s].misses + 1 /\ watch'[s].notFound = watch[s].notFound + 1
      BY <2>5, <3>1 DEF Misses
    <3>4. watch[s].notFound <= hist[s].misses BY <3>1 DEF MissInv
    <3>5. /\ pass'[p].pc = "next" /\ pass'[p].cur = NoSession /\ pass'[p].todo = pass[p].todo
          /\ pass'[p].drop = IF pass[p].entry.notFound + 1 >= NotFoundLimit
                             THEN pass[p].drop \cup {s} ELSE pass[p].drop
      BY <2>5 DEF Misses
    <3>6. \A t \in pass'[p].drop : hist'[t].misses >= NotFoundLimit
      <4> SUFFICES ASSUME NEW t \in pass'[p].drop PROVE hist'[t].misses >= NotFoundLimit OBVIOUS
      <4>1. CASE t = s
        <5>1. s \notin pass[p].drop BY <2>0 DEF MissOf
        <5>2. pass[p].entry.notFound + 1 >= NotFoundLimit BY <3>5, <4>1, <5>1
        <5> QED BY <1>N, <3>1, <3>3, <3>4, <4>1, <5>2, LimitAssumption
      <4>2. CASE t # s
        <5>1. t \in pass[p].drop /\ t \in Session BY <1>N, <3>5, <4>2
        <5> QED BY <2>0, <3>2, <4>2, <5>1 DEF MissOf
      <4> QED BY <4>1, <4>2
    <3>7. MissOf(p)'
      <4>1. NoSession \notin pass'[p].todo \cup pass'[p].drop BY <1>N, <3>1, <3>5, SessionAssumption
      <4>2. pass'[p].todo \cap pass'[p].drop = {} BY <2>0, <3>5 DEF MissOf
      <4> QED BY <3>5, <3>6, <4>1, <4>2 DEF MissOf
    <3>8. \A t \in Session : watch'[t].tracked => watch'[t].notFound <= hist'[t].misses
      BY <1>N, <3>2, <3>3, <3>4 DEF MissInv
    <3> QED BY <2>0, <3>7, <3>8 DEF MissInv
  <2>6. CASE Answered(p)
    <3>1. s \in Session /\ watch[s].tracked /\ pass[p].entry.notFound = watch[s].notFound
      BY <2>0, <2>6 DEF Answered, AllBut, MissOf
    <3>2. \A t \in Session \ {s} :
             /\ hist'[t].misses = hist[t].misses
             /\ watch'[t].tracked = watch[t].tracked /\ watch'[t].notFound = watch[t].notFound
      BY <2>6 DEF Answered, AllBut, MarksKept, SaidKept, Same, Marks, Said
    <3>3. hist'[s].misses = 0 /\ watch'[s].notFound = 0
      BY <1>N, <2>6, <3>1 DEF Answered
    <3>4. /\ pass'[p].pc # "fetch" /\ pass'[p].cur = s /\ pass'[p].todo = pass[p].todo
          /\ pass'[p].drop = pass[p].drop
      BY <2>6 DEF Answered, InHand
    <3>5. MissOf(p)' BY <1>N, <2>0, <3>2, <3>4 DEF MissOf
    <3>6. \A t \in Session : watch'[t].tracked => watch'[t].notFound <= hist'[t].misses
      BY <3>2, <3>3 DEF MissInv
    <3> QED BY <2>0, <3>5, <3>6 DEF MissInv
  <2>7. CASE Forgets(p)
    <3>1. \A t \in Session :
             /\ hist'[t].misses = hist[t].misses
             /\ watch'[t].tracked => watch[t].tracked /\ watch'[t].notFound = watch[t].notFound
      BY <2>7 DEF Forgets, AllBut, MarksKept, SaidKept, Same, Marks, Said
    <3>2. /\ pass'[p].pc # "fetch" /\ pass'[p].cur \in {s, NoSession} /\ pass'[p].todo = pass[p].todo
          /\ pass'[p].drop = pass[p].drop
      BY <2>7 DEF Forgets, InHand, PutDown
    <3>3. NoSession \notin pass[p].todo \cup pass[p].drop BY <1>N, SessionAssumption
    <3>4. MissOf(p)' BY <1>N, <2>0, <3>1, <3>2, <3>3 DEF MissOf
    <3> QED BY <2>0, <3>1, <3>4 DEF MissInv
  <2> QED BY <1>1, <2>1, <2>2, <2>3, <2>4, <2>5, <2>6, <2>7 DEF PassStep
<1>2. CASE Restarts BY <1>2, SessionAssumption DEF Restarts, MissInv, MissOf
<1>3. CASE Elsewhere BY <1>3 DEF Elsewhere, MissInv, MissOf
<1>4. ASSUME NEW s \in Session, Tracked(s) PROVE MissInv'
  <2>1. UNCHANGED pass /\ watch'[s].notFound = 0 /\ hist'[s].misses = 0 BY <1>4 DEF Tracked, NewHist
  <2>2. \A t \in Session \ {s} :
           /\ hist'[t].misses = hist[t].misses
           /\ watch'[t].tracked = watch[t].tracked /\ watch'[t].notFound = watch[t].notFound
    BY <1>4 DEF Tracked, AllBut, MarksKept, SaidKept, Same, Marks, Said
  <2>3. ASSUME NEW q \in Pass PROVE MissOf(q)'
    <3>1. pass[q].pc = "fetch" => pass[q].cur \in Session \ {s} BY <1>4 DEF TypeInv, PassOK, Tracked
    <3>2. pass[q].drop \subseteq Session \ {s} BY <1>N, <1>4 DEF Tracked
    <3> QED BY <2>1, <2>2, <3>1, <3>2 DEF MissInv, MissOf
  <2> QED BY <2>1, <2>2, <2>3 DEF MissInv
<1>5. ASSUME NEW s \in Session, Moved(s) PROVE MissInv'
  <2>1. UNCHANGED <<pass, watch>> /\ \A t \in Session : hist'[t].misses = hist[t].misses
    BY <1>5 DEF Moved, AllBut, SaidKept, Same, Said
  <2> QED BY <1>N, <2>1 DEF MissInv, MissOf
<1> QED BY <1>1, <1>2, <1>3, <1>4, <1>5, StepKinds

(* The step that drops an entry.                                               *)
LEMMA LeavingStep ==
    ASSUME TypeInv, FinishInv, MissInv, [Next]_vars, NEW s \in Session,
           watch[s].tracked, ~watch'[s].tracked
    PROVE  hist[s].finished \/ hist[s].misses >= NotFoundLimit
<1>1. ASSUME NEW p \in Pass, PassStep(p) PROVE hist[s].finished \/ hist[s].misses >= NotFoundLimit
  <2>1. CASE Ends(p) BY <2>1 DEF Ends, MarksKept, Same, Marks, MissInv, MissOf
  <2>2. CASE Forgets(p)
    <3>1. s = pass[p].cur BY <2>2 DEF Forgets, AllBut, MarksKept, Same, Marks
    <3> QED BY <2>2, <3>1 DEF Forgets, FinishInv, Finishes, Finishing
  <2>3. CASE Walks(p) \/ Leaves(p) \/ Settles(p) \/ Begins(p) \/ Skips(p) \/ Enters(p) \/ Misses(p)
               \/ Answered(p) \/ Forwards(p) \/ Sends(p) \/ Requests(p) \/ Reviewed(p) \/ Asks(p)
               \/ Asked(p) \/ Accepted(p)
    <3>1. watch'[s].tracked = watch[s].tracked
      <4>1. CASE Walks(p) \/ Leaves(p) \/ Begins(p) \/ Skips(p)
        BY <4>1 DEF Walks, Leaves, Begins, Skips, Alone, MarksKept, Same, Marks
      <4>2. CASE Settles(p) \/ Enters(p) \/ Misses(p) \/ Answered(p) \/ Forwards(p) \/ Sends(p)
        BY <4>2 DEF Settles, Enters, Misses, Answered, Forwards, Sends, AllBut, MarksKept, Same, Marks
      <4>3. CASE Requests(p) BY <4>3 DEF Requests, AllBut, MarksKept, Same, Marks
      <4>4. CASE Reviewed(p) BY <4>4 DEF Reviewed, AllBut, MarksKept, Same, Marks
      <4>5. CASE Asks(p) BY <4>5 DEF Asks, AllBut, MarksKept, Same, Marks
      <4>6. CASE Asked(p) BY <4>6 DEF Asked, AllBut, MarksKept, Same, Marks
      <4>7. CASE Accepted(p) BY <4>7 DEF Accepted, AllBut, MarksKept, Same, Marks
      <4> QED BY <2>3, <4>1, <4>2, <4>3, <4>4, <4>5, <4>6, <4>7
    <3> QED BY <3>1
  <2> QED BY <1>1, <2>1, <2>2, <2>3 DEF PassStep
<1>2. ~Restarts /\ ~Elsewhere BY DEF Restarts, Elsewhere
<1>3. ASSUME NEW t \in Session PROVE ~Tracked(t) /\ ~Moved(t)
  BY DEF Tracked, Moved, AllBut, MarksKept, Same, Marks
<1> QED BY <1>1, <1>2, <1>3, StepKinds

(* Entries leave the watch because their request was merged or closed, or      *)
(* after NotFoundLimit 404s in a row ...                                       *)
THEOREM LeavesForAReason ==
    ASSUME OnePass
    PROVE  Spec => LeavesForReason
<1>1. TypeInv /\ MissInv /\ [Next]_vars => MissInv' BY StepMiss
<1>2. TypeInv /\ FinishInv /\ [Next]_vars => FinishInv' BY StepFinish
<1>3. TypeInv /\ FinishInv /\ MissInv /\ [Next]_vars =>
        [\A s \in Session : watch[s].tracked /\ ~watch'[s].tracked =>
            hist[s].finished \/ hist[s].misses >= NotFoundLimit]_vars
  BY LeavingStep
<1> QED BY <1>1, <1>2, <1>3, InitType, StepType, InitFinish, InitMiss, PTL DEF Spec, LeavesForReason

(* ... and the issue of one that a person merged has been closed by then, with *)
(* any number of passes at once.                                               *)
THEOREM IssueFollows == Spec => IssueFollowsMerge
<1>1. TypeInv /\ FinishInv /\ [Next]_vars => FinishInv' BY StepFinish
<1>2. FinishInv =>
        [\A p \in Pass : LET s == pass[p].cur IN
          /\ At(p, "forget") /\ ~At(p, "forget")' /\ ~watch'[s].tracked
          /\ forge[s].state = "merged" /\ hist[s].merge = "none" /\ pass[p].seen # "closed"
          => issueClosed[s]]_vars
  BY DEF FinishInv, Finishes, Follows, At
<1> QED BY <1>1, <1>2, InitType, StepType, InitFinish, PTL DEF Spec, IssueFollowsMerge

(* Both, of the entries of one pass at a time.                                 *)
THEOREM LeavesOrderly ==
    ASSUME OnePass
    PROVE  Spec => LeavesInOrder
BY LeavesForAReason, IssueFollows DEF LeavesInOrder

-----------------------------------------------------------------------------
(* What is said.  The cursor and the marks of an entry are what keeps a        *)
(* message from being sent again: above the cursor nothing was forwarded       *)
(* (NoteLedger); a commit above the mark was reviewed only before a restart,   *)
(* or the pass is about to mark it, and so for the request for an approval     *)
(* (AskLedger).                                                                *)
NoteLedger(s) ==
    watch[s].tracked => \A n \in Note : n > watch[s].cursor => hist[s].fwd[n] = 0

Marking(p, s, c) == pass[p].pc = "reviewMark" /\ pass[p].cur = s /\ pass[p].ids = {c}

Asking(p, s) == pass[p].pc = "askMark" /\ pass[p].cur = s

AskLedger(s) ==
    watch[s].tracked =>
        /\ watch[s].reviewed <= forge[s].head
        /\ \A c \in Push : c > watch[s].reviewed /\ hist[s].reviews[c] > budget.crashes
                              => \E p \in Pass : Marking(p, s, c)
        /\ ~watch[s].asked /\ hist[s].asks > budget.crashes => \E p \in Pass : Asking(p, s)

(* Until a pass has used a field of its copy of the entry, the store has the   *)
(* same (Copies); what the pass is about to say was not said yet (Saying).     *)
BeforeNotes == {"fetch", "notes"}
BeforeReview == BeforeNotes \cup {"sendNotes", "pipeline", "breaker", "repair", "reviewCI", "reviewPR"}
BeforeAsk == BeforeReview \cup {"reviewMark", "mergeCI", "mergeApproval", "ask"}

Copies(p) ==
    LET s == pass[p].cur IN
    /\ pass[p].pc \in BeforeNotes => pass[p].entry.cursor = watch[s].cursor
    /\ pass[p].pc \in BeforeReview => pass[p].entry.reviewed = watch[s].reviewed
    /\ pass[p].pc \in BeforeAsk => watch[s].tracked /\ pass[p].entry.asked = watch[s].asked

Saying(p) ==
    LET s == pass[p].cur IN
    /\ pass[p].pc = "sendNotes" =>
          \A n \in pass[p].ids : n <= watch[s].cursor /\ (n \in Note => hist[s].fwd[n] = 0)
    /\ pass[p].pc = "reviewMark" =>
          \E c \in Push : pass[p].ids = {c} /\ c > watch[s].reviewed /\ c <= forge[s].head
    /\ pass[p].pc = "ask" => ~pass[p].entry.asked
    /\ pass[p].pc = "askMark" => watch[s].tracked

SaidInv ==
    /\ SaidOnce
    /\ \A s \in Session : NoteLedger(s) /\ AskLedger(s)
    /\ \A p \in Pass : Copies(p) /\ Saying(p)

Talking == BeforeAsk \cup {"askMark"}

(* A step that says and marks nothing, at most drops entries.                  *)
Silent ==
    /\ \A t \in Session :
          /\ watch'[t].tracked => watch[t].tracked
          /\ watch'[t].tracked => /\ watch'[t].cursor = watch[t].cursor
                                  /\ watch'[t].asked = watch[t].asked
                                  /\ watch'[t].reviewed = watch[t].reviewed
          /\ hist'[t].fwd = hist[t].fwd /\ hist'[t].reviews = hist[t].reviews
          /\ hist'[t].asks = hist[t].asks
          /\ forge'[t].head = forge[t].head
    /\ budget'.crashes = budget.crashes

(* Nothing was said at the start.                                              *)
LEMMA InitSaid == Init => SaidInv
<1> SUFFICES ASSUME Init PROVE SaidInv OBVIOUS
<1>1. /\ NewHist.asks = 0 /\ \A c \in Push : NewHist.reviews[c] = 0
      /\ \A n \in Note : NewHist.fwd[n] = 0
  BY DEF NewHist
<1>2. ~Absent.tracked /\ IdlePass.pc = "idle" BY DEF Absent, Fresh, IdlePass
<1>3. budget.crashes = 0 BY DEF Init
<1>4. SaidOnce BY <1>1, <1>3 DEF Init, SaidOnce, NoteOnce, AskedOnce
<1>5. \A s \in Session : NoteLedger(s) /\ AskLedger(s) BY <1>2 DEF Init, NoteLedger, AskLedger
<1>6. \A p \in Pass : Copies(p) /\ Saying(p)
  BY <1>2 DEF Init, Copies, Saying, BeforeNotes, BeforeReview, BeforeAsk
<1> QED BY <1>4, <1>5, <1>6 DEF SaidInv

(* Silent steps keep the ledgers when no mark is owed.                         *)
LEMMA SilentStep ==
    ASSUME OnePass, SaidInv, Silent, NEW p \in Pass, pass[p].pc \notin {"reviewMark", "askMark"},
           Copies(p)', Saying(p)'
    PROVE  SaidInv'
<1>1. \A q \in Pass : q = p BY DEF OnePass
<1>2. SaidOnce' BY DEF SaidInv, SaidOnce, NoteOnce, AskedOnce, Silent
<1>3. ASSUME NEW t \in Session PROVE NoteLedger(t)' /\ AskLedger(t)'
  <2>1. NoteLedger(t)' BY DEF SaidInv, NoteLedger, Silent
  <2>2. AskLedger(t)' BY <1>1 DEF SaidInv, AskLedger, Silent, Marking, Asking
  <2> QED BY <2>1, <2>2
<1> QED BY <1>1, <1>2, <1>3 DEF SaidInv

(* A pass that has nothing to say has nothing to keep.                         *)
LEMMA NotTalking ==
    ASSUME NEW p \in Pass, pass'[p].pc \notin Talking
    PROVE  Copies(p)' /\ Saying(p)'
BY DEF Copies, Saying, Talking, BeforeAsk, BeforeReview, BeforeNotes

(* The frames of the kinds are silent for what they do not name.               *)
LEMMA KeptSilent ==
    ASSUME NEW t \in Session, MarksKept(t, {"notFound", "post"}), SaidKept(t, {"misses", "touched", "merge", "finished"})
    PROVE  /\ watch'[t].tracked = watch[t].tracked /\ watch'[t].cursor = watch[t].cursor
           /\ watch'[t].asked = watch[t].asked /\ watch'[t].reviewed = watch[t].reviewed
           /\ hist'[t].fwd = hist[t].fwd /\ hist'[t].reviews = hist[t].reviews
           /\ hist'[t].asks = hist[t].asks
BY DEF MarksKept, SaidKept, Same, Marks, Said

(* Every step keeps SaidInv.                                                   *)
LEMMA StepSaid ==
    ASSUME OnePass, TypeInv, SaidInv, [Next]_vars
    PROVE  SaidInv'
<1> DEFINE Quietly(t) == /\ MarksKept(t, {"notFound", "post"})
                         /\ SaidKept(t, {"misses", "touched", "merge", "finished"})
<1>N. /\ budget.crashes \in Nat
      /\ \A t \in Session :
            /\ watch[t].cursor \in Nat /\ watch[t].reviewed \in Nat /\ forge[t].head \in Push
            /\ hist[t].asks \in Nat /\ hist[t].fwd \in [Note -> Nat] /\ hist[t].reviews \in [Push -> Nat]
  BY HistFields, LimitAssumption DEF TypeInv, TypeOK, Entry, Forge, Budget
<1>M. (\A c \in Push : c \in Nat) /\ (\A n \in Note : n \in Nat) /\ \A t \in Session : forge[t].head \in Nat
  BY <1>N, LimitAssumption DEF Push, Note
<1>S. ASSUME \A t \in Session : Quietly(t), \A t \in Session : forge'[t].head = forge[t].head,
             budget'.crashes = budget.crashes
      PROVE  Silent
  BY <1>S, KeptSilent DEF Silent
<1>1. ASSUME NEW p \in Pass, PassStep(p) PROVE SaidInv'
  <2> SUFFICES ASSUME NEW s, s = pass[p].cur PROVE SaidInv' OBVIOUS
  <2>0. Copies(p) /\ Saying(p) /\ \A q \in Pass : q = p BY DEF OnePass, SaidInv
  <2>1. CASE Leaves(p) \/ Settles(p) \/ Begins(p) \/ Skips(p) \/ Misses(p)
    <3>1. UNCHANGED forge /\ budget'.crashes = budget.crashes
      BY <2>1 DEF Leaves, Settles, Begins, Skips, Misses, Calm
    <3>2. \A t \in Session : Quietly(t)
      <4>1. CASE Leaves(p) BY <4>1 DEF Leaves, Alone, MarksKept, SaidKept, Same
      <4>2. CASE Settles(p) BY <4>2 DEF Settles, AllBut, MarksKept, SaidKept, Same
      <4>3. CASE Begins(p) BY <4>3 DEF Begins, Alone, MarksKept, SaidKept, Same
      <4>4. CASE Skips(p) BY <4>4 DEF Skips, Alone, MarksKept, SaidKept, Same
      <4>5. CASE Misses(p) BY <4>5 DEF Misses, AllBut, MarksKept, SaidKept, Same
      <4> QED BY <2>1, <4>1, <4>2, <4>3, <4>4, <4>5
    <3>3. pass[p].pc \notin {"reviewMark", "askMark"}
      BY <2>1 DEF Leaves, Settles, Begins, Skips, Misses
    <3>4. pass'[p].pc \notin Talking
      BY <2>1 DEF Leaves, Settles, Begins, Skips, Misses, PutDown, InHand, Talking, BeforeAsk,
                  BeforeReview, BeforeNotes
    <3> HIDE DEF Quietly
    <3>5. Silent BY <3>1, <3>2, <1>S
    <3> QED BY <3>3, <3>4, <3>5, NotTalking, SilentStep
  <2>2. CASE Ends(p) \/ Forgets(p)
    <3>1. Silent
      <4>1. CASE Ends(p) BY <4>1 DEF Ends, Silent, Calm, MarksKept, SaidKept, Same, Marks, Said
      <4>2. CASE Forgets(p) BY <4>2 DEF Forgets, AllBut, Silent, Calm, MarksKept, SaidKept, Same, Marks, Said
      <4> QED BY <2>2, <4>1, <4>2
    <3>2. pass[p].pc \notin {"reviewMark", "askMark"} BY <2>2 DEF Ends, Forgets
    <3>3. pass'[p].pc \notin Talking
      BY <2>2 DEF Ends, Forgets, PutDown, InHand, Talking, BeforeAsk, BeforeReview, BeforeNotes
    <3> QED BY <3>1, <3>2, <3>3, NotTalking, SilentStep
  <2>3. CASE Accepted(p)
    <3>1. \A t \in Session : Quietly(t) BY <2>3 DEF Accepted, AllBut, MarksKept, SaidKept, Same
    <3>2. budget'.crashes = budget.crashes /\ \A t \in Session : forge'[t].head = forge[t].head
      BY <2>3 DEF Accepted
    <3>3. pass[p].pc \notin {"reviewMark", "askMark"} BY <2>3 DEF Accepted
    <3>4. pass'[p].pc \notin Talking
      BY <2>3 DEF Accepted, InHand, Talking, BeforeAsk, BeforeReview, BeforeNotes
    <3> HIDE DEF Quietly
    <3>5. Silent BY <3>1, <3>2, <1>S
    <3> QED BY <3>3, <3>4, <3>5, NotTalking, SilentStep
  <2>4. CASE Walks(p)
    <3>1. UNCHANGED forge /\ budget'.crashes = budget.crashes /\ s \in Session BY <2>4 DEF Walks, Calm
    <3>2. \A t \in Session : Quietly(t) BY <2>4 DEF Walks, Alone, MarksKept, SaidKept, Same
    <3>3. PICK l \in Label : InHand(p, l) /\ Edge(p, l) BY <2>4 DEF Walks
    <3>4. pass'[p].pc = l /\ pass'[p].cur = s /\ pass'[p].entry = pass[p].entry BY <3>3 DEF InHand
    <3>5. pass[p].pc \notin {"reviewMark", "askMark"} BY <3>3 DEF Edge
    <3>6. CASE l \in BeforeAsk
      <4>1. /\ pass[p].pc \in BeforeAsk /\ (l \in BeforeReview => pass[p].pc \in BeforeReview)
            /\ l \notin BeforeNotes /\ l \notin {"sendNotes", "reviewMark", "askMark"}
            /\ l = "ask" => ~pass[p].entry.asked
        BY <3>3, <3>6 DEF Edge, BeforeAsk, BeforeReview, BeforeNotes
      <4>2. /\ watch'[s].tracked = watch[s].tracked /\ watch'[s].asked = watch[s].asked
            /\ watch'[s].reviewed = watch[s].reviewed
        BY <3>1, <3>2, KeptSilent
      <4>3. Copies(p)' BY <2>0, <3>4, <4>1, <4>2 DEF Copies
      <4>4. Saying(p)' BY <3>4, <4>1 DEF Saying
      <4> HIDE DEF Quietly
      <4>5. Silent BY <3>1, <3>2, <1>S
      <4> QED BY <3>5, <4>3, <4>4, <4>5, SilentStep
    <3>7. CASE l \notin BeforeAsk
      <4>1. pass'[p].pc \notin Talking BY <3>3, <3>4, <3>7 DEF Edge, Talking
      <4> HIDE DEF Quietly
      <4>2. Silent BY <3>1, <3>2, <1>S
      <4> QED BY <3>5, <4>1, <4>2, NotTalking, SilentStep
    <3> QED BY <3>6, <3>7
  <2>5. CASE Enters(p)
    <3> DEFINE t == pass'[p].cur
    <3>1. /\ UNCHANGED forge /\ budget'.crashes = budget.crashes /\ t \in Session /\ watch[t].tracked
          /\ pass[p].pc = "next" /\ pass'[p].entry = watch[t] /\ pass'[p].pc \in {"fetch", "postMerge"}
      BY <2>5 DEF Enters, Calm, AllBut
    <3>2. \A u \in Session : Quietly(u) BY <2>5 DEF Enters, AllBut, MarksKept, SaidKept, Same
    <3>3. /\ watch'[t].tracked = watch[t].tracked /\ watch'[t].asked = watch[t].asked
          /\ watch'[t].reviewed = watch[t].reviewed /\ watch'[t].cursor = watch[t].cursor
      BY <3>1, <3>2, KeptSilent
    <3>4. Copies(p)' BY <3>1, <3>3 DEF Copies
    <3>5. Saying(p)' BY <3>1 DEF Saying
    <3> HIDE DEF Quietly
    <3>6. Silent BY <3>1, <3>2, <1>S
    <3> QED BY <3>1, <3>4, <3>5, <3>6, SilentStep
  <2>6. CASE Answered(p)
    <3>1. /\ UNCHANGED forge /\ budget'.crashes = budget.crashes /\ s \in Session
          /\ pass[p].pc = "fetch" /\ pass'[p].pc \in {"terminal", "notes"} /\ pass'[p].cur = s
          /\ pass'[p].entry = pass[p].entry
      BY <2>6 DEF Answered, AllBut, InHand
    <3>2. \A u \in Session : Quietly(u) BY <2>6 DEF Answered, AllBut, MarksKept, SaidKept, Same
    <3>3. /\ watch'[s].tracked = watch[s].tracked /\ watch'[s].asked = watch[s].asked
          /\ watch'[s].reviewed = watch[s].reviewed /\ watch'[s].cursor = watch[s].cursor
      BY <3>1, <3>2, KeptSilent
    <3>4. Copies(p)'
      BY <2>0, <3>1, <3>3 DEF Copies, BeforeAsk, BeforeReview, BeforeNotes
    <3>5. Saying(p)' BY <3>1 DEF Saying
    <3> HIDE DEF Quietly
    <3>6. Silent BY <3>1, <3>2, <1>S
    <3> QED BY <3>1, <3>4, <3>5, <3>6, SilentStep
  <2>A. ASSUME AllBut(s), UNCHANGED forge, budget'.crashes = budget.crashes, pass'[p].cur = s,
               NEW t \in Session \ {s}
        PROVE  NoteLedger(t)' /\ AskLedger(t)'
    <3>1. Quietly(t) BY <2>A DEF AllBut, MarksKept, SaidKept, Same
    <3>2. /\ watch'[t].tracked = watch[t].tracked /\ watch'[t].cursor = watch[t].cursor
          /\ watch'[t].asked = watch[t].asked /\ watch'[t].reviewed = watch[t].reviewed
          /\ hist'[t].fwd = hist[t].fwd /\ hist'[t].reviews = hist[t].reviews
          /\ hist'[t].asks = hist[t].asks
      BY <3>1, KeptSilent
    <3>3. NoteLedger(t)' BY <3>2 DEF SaidInv, NoteLedger
    <3>4. AskLedger(t)'
      <4>1. \A q \in Pass : ~Asking(q, t) /\ \A c \in Push : ~Marking(q, t, c)
        BY <2>0, <2>A DEF Marking, Asking
      <4>2. AskLedger(t) BY DEF SaidInv
      <4> QED BY <2>A, <3>2, <4>1, <4>2 DEF AskLedger
    <3> QED BY <3>3, <3>4
  <2>B. ASSUME AllBut(s), budget'.crashes = budget.crashes
        PROVE  \A t \in Session \ {s} :
                  /\ \A n \in Note : hist'[t].fwd[n] <= 1
                  /\ \A c \in Push : hist'[t].reviews[c] <= 1 + budget'.crashes
                  /\ hist'[t].asks <= 1 + budget'.crashes
    BY <2>B DEF AllBut, SaidKept, Same, Said, SaidInv, SaidOnce, NoteOnce, AskedOnce
  <2>7. CASE Forwards(p)
    <3>1. /\ s \in Session /\ UNCHANGED forge /\ budget'.crashes = budget.crashes /\ AllBut(s)
          /\ pass[p].pc = "notes" /\ pass'[p].pc = "sendNotes" /\ pass'[p].cur = s
          /\ pass'[p].entry = pass[p].entry
      BY <2>7 DEF Forwards, Calm, AllBut, InHand
    <3>2. /\ watch'[s].tracked = watch[s].tracked /\ watch'[s].asked = watch[s].asked
          /\ watch'[s].reviewed = watch[s].reviewed
          /\ hist'[s].fwd = hist[s].fwd /\ hist'[s].reviews = hist[s].reviews
          /\ hist'[s].asks = hist[s].asks
      BY <2>7 DEF Forwards, MarksKept, SaidKept, Same, Marks, Said
    <3>3. /\ watch[s].tracked /\ pass[p].entry.cursor = watch[s].cursor
          /\ pass[p].entry.reviewed = watch[s].reviewed /\ pass[p].entry.asked = watch[s].asked
      BY <2>0, <3>1 DEF Copies, BeforeAsk, BeforeReview, BeforeNotes
    <3>4. /\ watch'[s].cursor \in pass'[p].ids
          /\ \A n \in pass'[p].ids : n \in Note /\ n > watch[s].cursor /\ n <= watch'[s].cursor
      BY <2>7, <3>3 DEF Forwards
    <3>5. NoteLedger(s) /\ AskLedger(s) BY <3>1, SMTT(20) DEF SaidInv
    <3>6. NoteLedger(s)' BY <1>N, <1>M, <3>1, <3>2, <3>3, <3>4, <3>5, SMTT(20) DEF NoteLedger
    <3>7. AskLedger(s)' BY <2>0, <3>1, <3>2, <3>5 DEF AskLedger, Marking, Asking
    <3>8. Copies(p)' BY <3>1, <3>2, <3>3, SMTT(20) DEF Copies, BeforeNotes
    <3>9. Saying(p)' BY <3>1, <3>2, <3>3, <3>4, <3>5 DEF Saying, NoteLedger
    <3>10. SaidOnce'
      <4>1. \A n \in Note : hist'[s].fwd[n] <= 1
        BY <3>1, <3>2 DEF SaidInv, SaidOnce, NoteOnce
      <4>2. (\A c \in Push : hist'[s].reviews[c] <= 1 + budget'.crashes) /\ hist'[s].asks <= 1 + budget'.crashes
        BY <3>1, <3>2 DEF SaidInv, SaidOnce, AskedOnce
      <4> QED BY <2>B, <3>1, <4>1, <4>2 DEF SaidOnce, NoteOnce, AskedOnce
    <3> QED BY <2>0, <2>A, <3>1, <3>6, <3>7, <3>8, <3>9, <3>10 DEF SaidInv
  <2>8. CASE Sends(p)
    <3>1. /\ s \in Session /\ UNCHANGED forge /\ budget'.crashes = budget.crashes /\ AllBut(s)
          /\ pass[p].pc = "sendNotes" /\ pass'[p].pc = "pipeline" /\ pass'[p].cur = s
          /\ pass'[p].entry = pass[p].entry
      BY <2>8 DEF Sends, Calm, AllBut, InHand
    <3>2. /\ watch'[s].tracked = watch[s].tracked /\ watch'[s].asked = watch[s].asked
          /\ watch'[s].reviewed = watch[s].reviewed /\ watch'[s].cursor = watch[s].cursor
          /\ hist'[s].reviews = hist[s].reviews /\ hist'[s].asks = hist[s].asks
      BY <2>8 DEF Sends, MarksKept, SaidKept, Same, Marks, Said
    <3>3. /\ watch[s].tracked /\ pass[p].entry.reviewed = watch[s].reviewed
          /\ pass[p].entry.asked = watch[s].asked
      BY <2>0, <3>1 DEF Copies, BeforeAsk, BeforeReview
    <3>4. \A n \in Note : hist'[s].fwd[n] = IF n \in pass[p].ids THEN hist[s].fwd[n] + 1 ELSE hist[s].fwd[n]
      BY <2>8 DEF Sends
    <3>5. \A n \in pass[p].ids : n <= watch[s].cursor /\ (n \in Note => hist[s].fwd[n] = 0)
      BY <2>0, <3>1 DEF Saying
    <3>6. NoteLedger(s) /\ AskLedger(s) BY <3>1, SMTT(20) DEF SaidInv
    <3>7. NoteLedger(s)' BY <1>N, <1>M, <3>1, <3>2, <3>4, <3>5, <3>6, SMTT(20) DEF NoteLedger
    <3>8. AskLedger(s)' BY <2>0, <3>1, <3>2, <3>6 DEF AskLedger, Marking, Asking
    <3>9. Copies(p)' BY <3>1, <3>2, <3>3 DEF Copies, BeforeNotes
    <3>10. Saying(p)' BY <3>1 DEF Saying
    <3>11. SaidOnce'
      <4>1. \A n \in Note : hist'[s].fwd[n] <= 1
        BY <1>N, <3>1, <3>4, <3>5 DEF SaidInv, SaidOnce, NoteOnce
      <4>2. (\A c \in Push : hist'[s].reviews[c] <= 1 + budget'.crashes) /\ hist'[s].asks <= 1 + budget'.crashes
        BY <3>1, <3>2 DEF SaidInv, SaidOnce, AskedOnce
      <4> QED BY <2>B, <3>1, <4>1, <4>2 DEF SaidOnce, NoteOnce, AskedOnce
    <3> QED BY <2>0, <2>A, <3>1, <3>7, <3>8, <3>9, <3>10, <3>11 DEF SaidInv
  <2>9. CASE Requests(p)
    <3> DEFINE c == forge[s].head
    <3>1. /\ s \in Session /\ UNCHANGED forge /\ budget'.crashes = budget.crashes /\ AllBut(s)
          /\ pass[p].pc = "reviewPR" /\ pass'[p].pc = "reviewMark" /\ pass'[p].cur = s
          /\ pass'[p].entry = pass[p].entry /\ pass'[p].ids = {c} /\ pass[p].entry.reviewed # c
      BY <2>9 DEF Requests, Calm, AllBut, InHand
    <3>2. /\ watch'[s].tracked = watch[s].tracked /\ watch'[s].asked = watch[s].asked
          /\ watch'[s].reviewed = watch[s].reviewed /\ watch'[s].cursor = watch[s].cursor
          /\ hist'[s].fwd = hist[s].fwd /\ hist'[s].asks = hist[s].asks
      BY <2>9 DEF Requests, MarksKept, SaidKept, Same, Marks, Said
    <3>3. /\ watch[s].tracked /\ pass[p].entry.reviewed = watch[s].reviewed
          /\ pass[p].entry.asked = watch[s].asked
      BY <2>0, <3>1 DEF Copies, BeforeAsk, BeforeReview
    <3>4. \A k \in Push : hist'[s].reviews[k] = IF k = c THEN hist[s].reviews[k] + 1 ELSE hist[s].reviews[k]
      BY <2>9 DEF Requests
    <3>5. NoteLedger(s) /\ AskLedger(s) BY <3>1 DEF SaidInv
    <3>6. c \in Push /\ c > watch[s].reviewed BY <1>N, <1>M, <3>1, <3>3, <3>5 DEF AskLedger
    <3>7. \A k \in Push : k > watch[s].reviewed => hist[s].reviews[k] <= budget.crashes
      BY <1>N, <2>0, <3>1, <3>3, <3>5 DEF AskLedger, Marking
    <3>8. NoteLedger(s)' BY <3>2, <3>5, SMTT(20) DEF NoteLedger
    <3>9. AskLedger(s)'
      <4>1. watch'[s].reviewed <= forge'[s].head BY <3>1, <3>2, <3>3, <3>5 DEF AskLedger
      <4>2. \A k \in Push : k > watch[s].reviewed /\ hist'[s].reviews[k] > budget.crashes => k = c
        BY <1>N, <3>1, <3>4, <3>7
      <4>3. Marking(p, s, c)' BY <3>1 DEF Marking
      <4>4. ~watch'[s].asked => ~(hist'[s].asks > budget'.crashes)
        BY <1>N, <2>0, <3>1, <3>2, <3>3, <3>5 DEF AskLedger, Asking
      <4> QED BY <3>1, <3>2, <4>1, <4>2, <4>3, <4>4 DEF AskLedger
    <3>10. Copies(p)' BY <3>1, <3>2, <3>3 DEF Copies, BeforeNotes, BeforeReview
    <3>11. Saying(p)' BY <1>N, <1>M, <3>1, <3>2, <3>6 DEF Saying
    <3>12. SaidOnce'
      <4>1. \A n \in Note : hist'[s].fwd[n] <= 1 BY <3>1, <3>2 DEF SaidInv, SaidOnce, NoteOnce
      <4>2. \A k \in Push : hist'[s].reviews[k] <= 1 + budget'.crashes
        BY <1>N, <3>1, <3>4, <3>6, <3>7 DEF SaidInv, SaidOnce, AskedOnce
      <4>3. hist'[s].asks <= 1 + budget'.crashes BY <3>1, <3>2 DEF SaidInv, SaidOnce, AskedOnce
      <4> QED BY <2>B, <3>1, <4>1, <4>2, <4>3 DEF SaidOnce, NoteOnce, AskedOnce
    <3> QED BY <2>0, <2>A, <3>1, <3>8, <3>9, <3>10, <3>11, <3>12 DEF SaidInv
  <2>10. CASE Reviewed(p)
    <3>1. /\ s \in Session /\ UNCHANGED forge /\ budget'.crashes = budget.crashes /\ AllBut(s)
          /\ pass[p].pc \in {"reviewPR", "reviewMark"} /\ pass'[p].pc = "mergeCI" /\ pass'[p].cur = s
          /\ pass'[p].entry = pass[p].entry
      BY <2>10 DEF Reviewed, Calm, AllBut, InHand
    <3>2. /\ watch'[s].tracked = watch[s].tracked /\ watch'[s].asked = watch[s].asked
          /\ watch'[s].cursor = watch[s].cursor
          /\ hist'[s].fwd = hist[s].fwd /\ hist'[s].asks = hist[s].asks
          /\ hist'[s].reviews = hist[s].reviews
      BY <2>10 DEF Reviewed, MarksKept, SaidKept, Same, Marks, Said
    <3>3. watch[s].tracked /\ pass[p].entry.asked = watch[s].asked
      BY <2>0, <3>1 DEF Copies, BeforeAsk, BeforeReview
    <3>4. NoteLedger(s) /\ AskLedger(s) BY <3>1 DEF SaidInv
    <3>5. /\ watch'[s].reviewed \in Nat /\ watch'[s].reviewed >= watch[s].reviewed
          /\ watch'[s].reviewed <= forge[s].head
          /\ \A k \in Push : k > watch'[s].reviewed => ~Marking(p, s, k)
      <4>1. CASE pass[p].pc = "reviewPR"
        <5>1. watch'[s].reviewed = forge[s].head BY <2>10, <3>3, <4>1 DEF Reviewed
        <5>2. \A k : ~Marking(p, s, k) BY <4>1 DEF Marking
        <5> QED BY <1>N, <1>M, <3>1, <3>3, <3>4, <5>1, <5>2 DEF AskLedger
      <4>2. CASE pass[p].pc = "reviewMark"
        <5>1. watch'[s].reviewed \in pass[p].ids BY <2>10, <3>3, <4>2 DEF Reviewed
        <5>2. PICK c \in Push : pass[p].ids = {c} /\ c > watch[s].reviewed /\ c <= forge[s].head
          BY <2>0, <4>2 DEF Saying
        <5>3. watch'[s].reviewed = c BY <5>1, <5>2
        <5>4. \A k \in Push : k > c => ~Marking(p, s, k) BY <1>M, <5>2 DEF Marking
        <5> QED BY <1>N, <1>M, <3>1, <5>2, <5>3, <5>4
      <4> QED BY <3>1, <4>1, <4>2
    <3>6. NoteLedger(s)' BY <3>2, <3>4, SMTT(20) DEF NoteLedger
    <3>7. AskLedger(s)'
      <4>1. \A k \in Push : k > watch'[s].reviewed => ~(hist[s].reviews[k] > budget.crashes)
        BY <1>N, <1>M, <2>0, <3>1, <3>3, <3>4, <3>5 DEF AskLedger
      <4>2. ~watch[s].asked => ~(hist[s].asks > budget.crashes)
        BY <2>0, <3>1, <3>3, <3>4 DEF AskLedger, Asking
      <4> QED BY <3>1, <3>2, <3>5, <4>1, <4>2 DEF AskLedger
    <3>8. Copies(p)' BY <3>1, <3>2, <3>3 DEF Copies, BeforeNotes, BeforeReview
    <3>9. Saying(p)' BY <3>1 DEF Saying
    <3>10. SaidOnce'
      <4>1. \A n \in Note : hist'[s].fwd[n] <= 1
        BY <3>1, <3>2 DEF SaidInv, SaidOnce, NoteOnce
      <4>2. (\A k \in Push : hist'[s].reviews[k] <= 1 + budget'.crashes) /\ hist'[s].asks <= 1 + budget'.crashes
        BY <3>1, <3>2 DEF SaidInv, SaidOnce, AskedOnce
      <4> QED BY <2>B, <3>1, <4>1, <4>2 DEF SaidOnce, NoteOnce, AskedOnce
    <3> QED BY <2>0, <2>A, <3>1, <3>6, <3>7, <3>8, <3>9, <3>10 DEF SaidInv
  <2>11. CASE Asks(p)
    <3>1. /\ s \in Session /\ UNCHANGED forge /\ budget'.crashes = budget.crashes /\ AllBut(s)
          /\ pass[p].pc = "ask" /\ pass'[p].pc = "askMark" /\ pass'[p].cur = s
      BY <2>11 DEF Asks, Calm, AllBut, InHand
    <3>2. /\ watch'[s].tracked = watch[s].tracked /\ watch'[s].asked = watch[s].asked
          /\ watch'[s].reviewed = watch[s].reviewed /\ watch'[s].cursor = watch[s].cursor
          /\ hist'[s].fwd = hist[s].fwd /\ hist'[s].reviews = hist[s].reviews
      BY <2>11 DEF Asks, MarksKept, SaidKept, Same, Marks, Said
    <3>3. watch[s].tracked /\ ~watch[s].asked
      BY <2>0, <3>1 DEF Copies, Saying, BeforeAsk
    <3>4. NoteLedger(s) /\ AskLedger(s) BY <3>1 DEF SaidInv
    <3>5. hist'[s].asks = hist[s].asks + 1 BY <2>11 DEF Asks
    <3>6. ~(hist[s].asks > budget.crashes) BY <2>0, <3>1, <3>3, <3>4 DEF AskLedger, Asking
    <3>7. NoteLedger(s)' BY <3>2, <3>4, SMTT(20) DEF NoteLedger
    <3>8. AskLedger(s)'
      <4>1. Asking(p, s)' BY <3>1 DEF Asking
      <4>2. \A k \in Push : k > watch[s].reviewed => ~(hist[s].reviews[k] > budget.crashes)
        BY <2>0, <3>1, <3>3, <3>4 DEF AskLedger, Marking
      <4> QED BY <3>1, <3>2, <3>3, <3>4, <4>1, <4>2 DEF AskLedger
    <3>9. Copies(p)' BY <3>1 DEF Copies, BeforeNotes, BeforeReview, BeforeAsk
    <3>10. Saying(p)' BY <3>1, <3>2, <3>3 DEF Saying
    <3>11. SaidOnce'
      <4>1. (\A n \in Note : hist'[s].fwd[n] <= 1) /\ \A k \in Push : hist'[s].reviews[k] <= 1 + budget'.crashes
        BY <3>1, <3>2 DEF SaidInv, SaidOnce, NoteOnce, AskedOnce
      <4>2. hist'[s].asks <= 1 + budget'.crashes BY <1>N, <3>1, <3>5, <3>6
      <4> QED BY <2>B, <3>1, <4>1, <4>2 DEF SaidOnce, NoteOnce, AskedOnce
    <3> QED BY <2>0, <2>A, <3>1, <3>7, <3>8, <3>9, <3>10, <3>11 DEF SaidInv
  <2>12. CASE Asked(p)
    <3>1. /\ s \in Session /\ UNCHANGED forge /\ budget'.crashes = budget.crashes /\ AllBut(s)
          /\ pass[p].pc = "askMark" /\ pass'[p].pc = "stamp" /\ pass'[p].cur = s
      BY <2>12 DEF Asked, Calm, AllBut, InHand
    <3>2. /\ watch'[s].tracked = watch[s].tracked
          /\ watch'[s].reviewed = watch[s].reviewed /\ watch'[s].cursor = watch[s].cursor
          /\ hist'[s].fwd = hist[s].fwd /\ hist'[s].reviews = hist[s].reviews
          /\ hist'[s].asks = hist[s].asks
      BY <2>12 DEF Asked, MarksKept, SaidKept, Same, Marks, Said
    <3>3. watch[s].tracked BY <2>0, <3>1 DEF Saying
    <3>4. watch'[s].asked BY <2>12, <3>3 DEF Asked
    <3>5. NoteLedger(s) /\ AskLedger(s) BY <3>1 DEF SaidInv
    <3>6. NoteLedger(s)' BY <3>2, <3>5, SMTT(20) DEF NoteLedger
    <3>7. AskLedger(s)'
      <4>1. \A k \in Push : k > watch[s].reviewed => ~(hist[s].reviews[k] > budget.crashes)
        BY <2>0, <3>1, <3>3, <3>5 DEF AskLedger, Marking
      <4> QED BY <3>1, <3>2, <3>3, <3>4, <3>5, <4>1 DEF AskLedger
    <3>8. Copies(p)' /\ Saying(p)'
      BY <3>1, NotTalking DEF Talking, BeforeNotes, BeforeReview, BeforeAsk
    <3>9. SaidOnce'
      <4>1. (\A n \in Note : hist'[s].fwd[n] <= 1) /\ \A k \in Push : hist'[s].reviews[k] <= 1 + budget'.crashes
        BY <3>1, <3>2 DEF SaidInv, SaidOnce, NoteOnce, AskedOnce
      <4>2. hist'[s].asks <= 1 + budget'.crashes BY <3>1, <3>2 DEF SaidInv, SaidOnce, AskedOnce
      <4> QED BY <2>B, <3>1, <4>1, <4>2 DEF SaidOnce, NoteOnce, AskedOnce
    <3> QED BY <2>0, <2>A, <3>1, <3>6, <3>7, <3>8, <3>9 DEF SaidInv
  <2> QED BY <1>1, <2>1, <2>2, <2>3, <2>4, <2>5, <2>6, <2>7, <2>8, <2>9, <2>10, <2>11, <2>12 DEF PassStep
<1>2. CASE Restarts
  <2>1. \A p \in Pass : Copies(p)' /\ Saying(p)'
    BY <1>2 DEF Restarts, Copies, Saying, BeforeNotes, BeforeReview, BeforeAsk
  <2>2. SaidOnce' BY <1>N, <1>2 DEF Restarts, SaidInv, SaidOnce, NoteOnce, AskedOnce
  <2>3. ASSUME NEW t \in Session PROVE NoteLedger(t)' /\ AskLedger(t)'
    <3>1. NoteLedger(t)' BY <1>2 DEF Restarts, SaidInv, NoteLedger
    <3>2. hist[t].asks <= 1 + budget.crashes /\ \A c \in Push : hist[t].reviews[c] <= 1 + budget.crashes
      BY DEF SaidInv, SaidOnce, AskedOnce
    <3>3. AskLedger(t)' BY <1>N, <1>2, <3>2 DEF Restarts, SaidInv, AskLedger
    <3> QED BY <3>1, <3>3
  <2> QED BY <2>1, <2>2, <2>3 DEF SaidInv
<1>3. CASE Elsewhere
  <2>1. SaidOnce' BY <1>3 DEF Elsewhere, SaidInv, SaidOnce, NoteOnce, AskedOnce
  <2>2. \A t \in Session : NoteLedger(t)' /\ AskLedger(t)'
    BY <1>3 DEF Elsewhere, SaidInv, NoteLedger, AskLedger, Marking, Asking
  <2>3. \A p \in Pass : Copies(p)' /\ Saying(p)' BY <1>3 DEF Elsewhere, SaidInv, Copies, Saying
  <2> QED BY <2>1, <2>2, <2>3 DEF SaidInv
<1>4. ASSUME NEW s \in Session, Tracked(s) PROVE SaidInv'
  <2>1. UNCHANGED <<forge, pass>> /\ budget'.crashes = budget.crashes /\ AllBut(s)
    BY <1>4 DEF Tracked, Calm
  <2>2. /\ hist'[s].asks = 0 /\ \A c \in Push : hist'[s].reviews[c] = 0
        /\ \A n \in Note : hist'[s].fwd[n] = 0
    BY <1>4 DEF Tracked, NewHist
  <2>3. \A t \in Session \ {s} :
          /\ watch'[t].tracked = watch[t].tracked /\ watch'[t].cursor = watch[t].cursor
          /\ watch'[t].asked = watch[t].asked /\ watch'[t].reviewed = watch[t].reviewed
          /\ hist'[t].fwd = hist[t].fwd /\ hist'[t].reviews = hist[t].reviews
          /\ hist'[t].asks = hist[t].asks
    BY <2>1 DEF AllBut, MarksKept, SaidKept, Same, Marks, Said
  <2>4. SaidOnce' BY <1>N, <2>1, <2>2, <2>3 DEF SaidInv, SaidOnce, NoteOnce, AskedOnce
  <2>5. NoteLedger(s)' /\ AskLedger(s)'
    <3>1. watch'[s].reviewed = 0 BY <1>4 DEF Tracked
    <3>2. watch'[s].reviewed <= forge'[s].head BY <1>N, <1>M, <2>1, <3>1
    <3> QED BY <1>N, <2>1, <2>2, <3>2 DEF NoteLedger, AskLedger
  <2>6. \A t \in Session \ {s} : NoteLedger(t)' /\ AskLedger(t)'
    <3> SUFFICES ASSUME NEW t \in Session \ {s} PROVE NoteLedger(t)' /\ AskLedger(t)' OBVIOUS
    <3>1. NoteLedger(t) /\ AskLedger(t) BY DEF SaidInv
    <3>2. NoteLedger(t)' BY <2>1, <2>3, <3>1 DEF NoteLedger
    <3>3. AskLedger(t)' BY <2>1, <2>3, <3>1, SMTT(20) DEF AskLedger, Marking, Asking
    <3> QED BY <3>2, <3>3
  <2>7. ASSUME NEW q \in Pass PROVE Copies(q)' /\ Saying(q)'
    <3>1. pass[q].pc \notin {"idle", "next"} => pass[q].cur \in Session \ {s}
      BY <1>4 DEF TypeInv, PassOK, Tracked
    <3>2. Copies(q)' BY <2>1, <2>3, <3>1 DEF SaidInv, Copies, BeforeNotes, BeforeReview, BeforeAsk
    <3>3. Saying(q)' BY <2>1, <2>3, <3>1 DEF SaidInv, Saying
    <3> QED BY <3>2, <3>3
  <2> QED BY <2>4, <2>5, <2>6, <2>7 DEF SaidInv
<1>5. ASSUME NEW s \in Session, Moved(s) PROVE SaidInv'
  <2>1. UNCHANGED <<watch, pass>> /\ budget'.crashes = budget.crashes BY <1>5 DEF Moved
  <2>2. \A t \in Session : /\ hist'[t].fwd = hist[t].fwd /\ hist'[t].reviews = hist[t].reviews
                           /\ hist'[t].asks = hist[t].asks
    BY <1>5 DEF Moved, AllBut, SaidKept, Same, Said
  <2>3. \A t \in Session : forge'[t].head \in Push /\ forge'[t].head >= forge[t].head
    BY <1>N, <1>M, <1>5 DEF Moved
  <2>4. SaidOnce' BY <2>1, <2>2 DEF SaidInv, SaidOnce, NoteOnce, AskedOnce
  <2>5. ASSUME NEW t \in Session PROVE NoteLedger(t)' /\ AskLedger(t)'
    <3>1. NoteLedger(t)' BY <2>1, <2>2 DEF SaidInv, NoteLedger
    <3>2. watch[t].tracked => watch[t].reviewed <= forge'[t].head
      BY <1>N, <1>M, <2>3 DEF SaidInv, AskLedger
    <3>3. AskLedger(t)'
      <4>1. \A q \in Pass : (Asking(q, t)' <=> Asking(q, t)) /\ \A c \in Push : Marking(q, t, c)' <=> Marking(q, t, c)
        BY <2>1 DEF Marking, Asking
      <4>2. AskLedger(t) BY DEF SaidInv
      <4> QED BY <2>1, <2>2, <3>2, <4>1, <4>2 DEF AskLedger
    <3> QED BY <3>1, <3>3
  <2>6. ASSUME NEW q \in Pass PROVE Copies(q)' /\ Saying(q)'
    <3>1. Copies(q)' BY <2>1 DEF SaidInv, Copies
    <3>2. pass[q].pc \notin {"idle", "next"} => pass[q].cur \in Session BY DEF TypeInv, PassOK
    <3>3. Saying(q) BY DEF SaidInv
    <3>4. pass[q].pc = "reviewMark" =>
             \E c \in Push : pass[q].ids = {c} /\ c > watch[pass[q].cur].reviewed /\ c <= forge'[pass[q].cur].head
      BY <1>N, <1>M, <2>3, <3>2, <3>3 DEF Saying
    <3>5. Saying(q)' BY <2>1, <2>2, <3>2, <3>3, <3>4 DEF Saying
    <3> QED BY <3>1, <3>5
  <2> QED BY <2>4, <2>5, <2>6 DEF SaidInv
<1> QED BY <1>1, <1>2, <1>3, <1>4, <1>5, StepKinds

(* No comment reaches the worker twice, the maitre is asked once per commit    *)
(* and the conductor once per request, plus at most once for each restart of   *)
(* the daemon, with one Run at a time.                                         *)
THEOREM NothingSaidTwice ==
    ASSUME OnePass
    PROVE  Spec => []SaidOnce
<1>1. TypeInv /\ SaidInv /\ [Next]_vars => SaidInv' BY StepSaid
<1>2. Spec => []SaidInv BY <1>1, InitType, StepType, InitSaid, PTL DEF Spec
<1>3. SaidInv => SaidOnce BY DEF SaidInv
<1> QED BY <1>2, <1>3, PTL
=============================================================================
