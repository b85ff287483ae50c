------------------------------- MODULE MRRules -------------------------------
(* The decisions the merge request watcher and `aoc track-mr` take from what   *)
(* they read: which worker a merge request belongs to, what becomes of entries *)
(* that track the same one, and what is told to the memory when it is merged.  *)
EXTENDS Integers, Sequences, FiniteSets, SequencesExt, Lists

CONSTANTS
    Key,     \* keys of the map Watched, and of the records of pinard-agents
    Repo     \* repositories

NoKey == "none"

(* An entry of Watched: the cursors are numbers, the head reviewed is 0 (none) *)
(* or a version; checked is the moment it was last checked.                    *)
NewEntry(repo, mr, now) ==
    [repo |-> repo, mr |-> mr, parcelle |-> "", note |-> 0, pipeline |-> 0, fails |-> 0,
     pending |-> FALSE, reviewed |-> 0, asked |-> FALSE, labeled |-> FALSE,
     state |-> "", checks |-> 0, mainDone |-> FALSE, checked |-> now]

Entries ==
    [repo : Repo \cup {""}, mr : Nat, parcelle : STRING, note : Nat, pipeline : Nat, fails : Nat,
     pending : BOOLEAN, reviewed : Nat, asked : BOOLEAN, labeled : BOOLEAN,
     state : {"", "post_merge"}, checks : Nat, mainDone : BOOLEAN, checked : Nat]

Larger(a, b) == IF a > b THEN a ELSE b
Filled(a, b, empty) == IF a = empty THEN b ELSE a

-----------------------------------------------------------------------------
(* Duplicates.                                                                 *)

(* sessionIsAlive, of a record's state ("" is a record without one).           *)
SessionIsAlive(agents, k) ==
    k \in DOMAIN agents /\ agents[k].state \notin {"stopped", "done", ""}

MRStateRank(state) == IF state = "post_merge" THEN 1 ELSE 0

(* betterMRKey: a live worker, then the more advanced state, then the later    *)
(* check.                                                                      *)
BetterMRKey(watched, agents, c, cur) ==
    LET alive(k) == SessionIsAlive(agents, k)
        rank(k) == MRStateRank(watched[k].state)
    IN  IF alive(c) # alive(cur) THEN alive(c)
        ELSE IF rank(c) # rank(cur) THEN rank(c) > rank(cur)
        ELSE watched[c].checked > watched[cur].checked

(* pickCanonicalMRKey, over the keys in some order.                            *)
PickCanonicalMRKey(watched, agents, keys) ==
    FoldLeft(LAMBDA best, k : IF BetterMRKey(watched, agents, k, best) THEN k ELSE best,
             Head(keys), Tail(keys))

(* Mutant of MergeWatchedMR: the entry that is kept stays as it is.            *)
MergeNothing(dst, src) == dst

(* mergeWatchedMR: the larger cursor, either mark; the head reviewed is kept   *)
(* when there is one.                                                          *)
MergeWatchedMR(dst, src) ==
    [dst EXCEPT
        !.parcelle = Filled(@, src.parcelle, ""),
        !.note = Larger(@, src.note), !.pipeline = Larger(@, src.pipeline),
        !.fails = Larger(@, src.fails), !.checks = Larger(@, src.checks),
        !.pending = @ \/ src.pending, !.asked = @ \/ src.asked,
        !.labeled = @ \/ src.labeled, !.mainDone = @ \/ src.mainDone,
        !.reviewed = Filled(@, src.reviewed, 0),
        !.state = IF MRStateRank(src.state) > MRStateRank(@) THEN src.state ELSE @,
        !.checked = Larger(@, src.checked)]

(* reconcileDuplicateMRs, the map being walked in the given order.             *)
SameMR(watched, order, k) ==
    Among(order, {j \in DOMAIN watched : watched[j].repo = watched[k].repo /\ watched[j].mr = watched[k].mr})
MergedMR(watched, k, keys) ==
    FoldLeft(LAMBDA e, j : IF j = k THEN e ELSE MergeWatchedMR(e, watched[j]), watched[k], keys)
ReconcileDuplicateMRs(watched, agents, order) ==
    LET same(k) == SameMR(watched, order, k)
        grouped(k) == watched[k].repo # "" /\ watched[k].mr # 0 /\ Len(same(k)) > 1
        canonical(k) == PickCanonicalMRKey(watched, agents, same(k))
        kept == {k \in DOMAIN watched : grouped(k) => canonical(k) = k}
    IN  [k \in kept |-> IF grouped(k) THEN MergedMR(watched, k, same(k)) ELSE watched[k]]

(* Mutant of RegisterWatchedMR: only the key itself is looked at.              *)
RegisterByKey(watched, key, repo, mr, parcelle, now) ==
    {[k \in DOMAIN watched \cup {key} |->
        IF k = key THEN [NewEntry(repo, mr, now) EXCEPT !.parcelle = parcelle] ELSE watched[k]]}

(* registerWatchedMR of `aoc track-mr`: an entry for the same merge request is *)
(* refreshed under whatever key; another one under this key is replaced.       *)
RegisterWatchedMR(watched, key, repo, mr, parcelle, now) ==
    LET fresh(e) == [e EXCEPT !.repo = repo, !.checked = now,
                              !.parcelle = IF parcelle = "" THEN @ ELSE parcelle]
        others == {k \in DOMAIN watched \ {key} : watched[k].repo = repo /\ watched[k].mr = mr}
        new == [NewEntry(repo, mr, now) EXCEPT !.parcelle = parcelle]
    IN  IF key \in DOMAIN watched /\ watched[key].mr = mr
        THEN {[watched EXCEPT ![key] = fresh(@)]}
        ELSE IF others # {} THEN {[watched EXCEPT ![k] = fresh(@)] : k \in others}
        ELSE {[k \in DOMAIN watched \cup {key} |-> IF k = key THEN new ELSE watched[k]]}

-----------------------------------------------------------------------------
(* Which worker.  A record of pinard-agents has a vignoble, a project, a repo, *)
(* a process ("" for none), the number of its merge request, a name, a         *)
(* parcelle and a state.                                                       *)

Records == [vignoble : {"", "ours", "theirs"}, project : STRING, repo : STRING, process : STRING,
            mr : Nat, name : STRING, parcelle : STRING]

Ours(r, vignoble) == r.vignoble \in {"", vignoble}

(* findAgentForMR: the first worker with this very merge request; with number  *)
(* 0 the first one of the project.                                             *)
FindAgentForMR(agents, order, vignoble, project, mr) ==
    LET hit(k) == /\ Ours(agents[k], vignoble) /\ agents[k].project = project
                  /\ agents[k].process # "" /\ (mr > 0 => agents[k].mr = mr)
        hits == Among(order, {k \in DOMAIN agents : hit(k)})
    IN  IF hits = <<>> THEN NoKey ELSE Head(hits)

(* Mutant of FindAgentForMRByIDAndRepo: the first one is good enough.          *)
FindAnyAgent(agents, vignoble, mr, repo) ==
    LET hits == {k \in DOMAIN agents : agents[k].process # "" /\ agents[k].mr = mr}
    IN  IF hits = {} THEN NoKey ELSE CHOOSE k \in hits : TRUE

(* findAgentForMRByIDAndRepo: without the project; not where it is ambiguous.  *)
FindAgentForMRByIDAndRepo(agents, vignoble, mr, repo) ==
    LET hits == {k \in DOMAIN agents : /\ Ours(agents[k], vignoble) /\ agents[k].process # ""
                                       /\ agents[k].mr = mr /\ mr # 0}
        here == {k \in hits : agents[k].repo = repo}
    IN  CASE Cardinality(hits) = 1 -> CHOOSE k \in hits : TRUE
          [] Cardinality(hits) > 1 /\ repo # "" /\ Cardinality(here) = 1 -> CHOOSE k \in here : TRUE
          [] OTHER -> NoKey

(* resolveAgentByToken: the record of that key, or the first of that name.     *)
ResolveAgentByToken(agents, order, token) ==
    LET named == Among(order, {k \in DOMAIN agents : agents[k].name = token})
    IN  IF token \in DOMAIN agents THEN token ELSE IF named = <<>> THEN NoKey ELSE Head(named)

(* agentFromBranch: the last segment of the branch names the session.          *)
AgentFromBranch(agents, order, session, project) ==
    LET k == IF session = "" THEN NoKey ELSE ResolveAgentByToken(agents, order, session)
    IN  IF k # NoKey /\ agents[k].project = project /\ agents[k].process # "" THEN k ELSE NoKey

(* scanAssignedMRs, for one merge request: nothing when any entry has its      *)
(* number; else the worker of its branch is stamped with it, and it is tracked *)
(* under the worker's key or a placeholder, unless that tracks another one.    *)
ScanAssignedMR(watched, agents, order, m) ==
    LET owner == AgentFromBranch(agents, order, m.session, m.project)
        key == IF owner = NoKey THEN m.placeholder ELSE owner
        used == key \in DOMAIN watched /\ watched[key].mr # 0
    IN  IF \E k \in DOMAIN watched : watched[k].mr = m.iid
        THEN [watched |-> watched, agents |-> agents]
        ELSE [watched |-> IF used THEN watched
                          ELSE [k \in DOMAIN watched \cup {key} |->
                                    IF k = key THEN NewEntry(m.repo, m.iid, 0) ELSE watched[k]],
              agents |-> IF owner = NoKey THEN agents ELSE [agents EXCEPT ![owner].mr = m.iid]]

GetWorkerProcess(agents, order, session) ==
    LET k == ResolveAgentByToken(agents, order, session)
    IN  IF k = NoKey THEN "" ELSE agents[k].process

(* getWorkerParcelle: what was stored when the merge request was tracked, else *)
(* the record's parcelle, else its project; never the name of the session.     *)
GetWorkerParcelle(watched, agents, order, session) ==
    LET k == ResolveAgentByToken(agents, order, session)
        stored == IF session \in DOMAIN watched THEN watched[session].parcelle ELSE ""
    IN  IF stored # "" THEN stored
        ELSE IF k = NoKey THEN ""
        ELSE Filled(agents[k].parcelle, agents[k].project, "")

(* resolveWorkerParcelle: an event is published even so.                       *)
ResolveWorkerParcelle(watched, agents, order, session) ==
    Filled(GetWorkerParcelle(watched, agents, order, session), session, "")

(* deriveProjectFromSessionRest: the longest vigne that begins the name; a     *)
(* name is a sequence of its parts.                                            *)
DeriveProject(rest, vignes) ==
    LET begins == {v \in vignes : IsPrefix(v, rest)}
    IN  IF begins # {} THEN CHOOSE v \in begins : \A w \in begins : Len(w) <= Len(v)
        ELSE IF Len(rest) > 1 /\ Last(rest) = "hex" THEN Front(rest)
        ELSE <<>>

(* `aoc track-mr`: it goes on only with a project, and stamps the record; the  *)
(* terminal's link is posted for a new entry of a live worker, unless a note   *)
(* of the merge request has it.                                                *)
TrackMR(project, hasRecord, isNew, repo, linksOn, notes) ==
    LET known == project # <<>>
    IN  [tracked |-> known, stamped |-> known /\ hasRecord,
         linked |-> /\ known /\ hasRecord /\ isNew /\ repo # "" /\ linksOn
                    /\ ~(notes.err = FALSE /\ "link" \in notes.seen)]

-----------------------------------------------------------------------------
(* What the memory is told of a merged merge request.                          *)

(* ShouldPublishMRMemory: the labels first, then what it is.                   *)
ShouldPublishMRMemory(mr) ==
    /\ "memory:skip" \notin mr.labels
    /\ \/ "memory:capture" \in mr.labels
       \/ mr.described /\ ~mr.cuvee /\ ~mr.mechanical

(* Mutant of SanitizeReviewNote: a note with a line of noise is dropped whole. *)
SanitizeWholeNote(lines) == IF "noise" \in ToSet(lines) THEN <<>> ELSE lines

(* sanitizeReviewNote: a note is a sequence of lines, each of them prose, a    *)
(* marker (an HTML comment, or a word of pinard), or noise; prose may be told  *)
(* to remember it.                                                             *)
Lines == {"prose", "@memory", "marker", "noise"}
Notes == [system : BOOLEAN, lines : Seq(Lines)]
SanitizeReviewNote(lines) == Among(lines, ToSet(lines) \ {"marker", "noise"})

(* ExtractMemoryMarkers: the notes of people that begin with @memory:.         *)
ExtractMemoryMarkers(notes) ==
    Among(notes, {n \in ToSet(notes) : ~n.system /\ n.lines # <<>> /\ Head(n.lines) = "@memory"})

(* BuildMRMemoryPayload: whatever cannot be read is left empty; the issues     *)
(* come from the text when the forge does not list them.                       *)
BuildMRMemoryPayload(mr, fates) ==
    LET clean(n) == SanitizeReviewNote(n.lines)
        people == Among(mr.notes, {n \in ToSet(mr.notes) : ~n.system /\ clean(n) # <<>>})
    IN  [files |-> IF fates.changes = "ok" THEN mr.files ELSE {},
         issues |-> IF fates.closes = "ok" THEN mr.closes
                    ELSE IF fates.issue = "ok" THEN mr.mentions ELSE {},
         review |-> IF fates.notes = "ok" THEN [i \in DOMAIN people |-> clean(people[i])] ELSE <<>>]

(* publishMRMemoryEvent: the event, then a lesson for each marker.             *)
PublishMRMemoryEvent(mr, fates) ==
    IF ~ShouldPublishMRMemory(mr) \/ fates.publish # "ok" THEN [event |-> <<>>, lessons |-> 0]
    ELSE [event |-> <<BuildMRMemoryPayload(mr, fates)>>,
          lessons |-> IF fates.notes = "ok" THEN Len(ExtractMemoryMarkers(mr.notes)) ELSE 0]
=============================================================================
