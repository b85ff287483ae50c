-------------------------------- MODULE Forge --------------------------------
(* What the two adapters of internal/pressoir make of the answers of GitHub    *)
(* and GitLab.  Every operator is one call of an adapter: it takes the state   *)
(* of the forge and the fate of the requests, and gives what the caller sees   *)
(* and what the forge has afterwards.                                          *)
(*                                                                             *)
(* The fate of a request: "ok"; "failed", refused or never sent; "lost", done  *)
(* by the forge but not answered in time.                                      *)
EXTENDS Integers, Sequences, FiniteSets, SequencesExt, Lists

CONSTANTS
    PageSize,   \* the runs or notes on the first page of a list
    User, FilePath  \* accounts; paths of files

Fate == {"ok", "failed", "lost"}
Done(fate) == fate # "failed"

-----------------------------------------------------------------------------
(* Requests.                                                                   *)

(* The prefix of an API path: GitHub Enterprise serves its API under api/v3.   *)
NormalizeGitHubHost(enterprise) == IF enterprise THEN <<"api/v3">> ELSE <<>>

(* A 403 counts as a rate limit when the headers say so; the moment to try     *)
(* again is theirs, or a minute ahead.                                         *)
ParseRateLimitError(r) ==
    CASE r.remaining = 0 -> [limited |-> TRUE,
                             until |-> IF r.reset >= 0 THEN r.reset ELSE r.now + 60]
      [] r.remaining # 0 /\ r.retryAfter # "absent" ->
            [limited |-> TRUE,
             until |-> r.now + (IF r.retryAfter = "date" THEN 60 ELSE 5)]
      [] OTHER -> [limited |-> FALSE, until |-> r.now]

(* Mutant of GhGet: the tag is kept, but not the body that came with it.       *)
GhGetStale(cached, current, fate, tagged) ==
    IF fate # "ok" THEN [err |-> TRUE, body |-> "", cached |-> cached]
    ELSE [err |-> FALSE, body |-> IF cached # "" THEN cached ELSE current, cached |-> current]

(* ghGet: the forge answers 304 when the tag it is shown is still current; the *)
(* body is then the one kept with that tag.  cached is "" when nothing is.     *)
GhGet(cached, current, fate, tagged) ==
    IF fate # "ok" THEN [err |-> TRUE, body |-> "", cached |-> cached]
    ELSE IF cached # "" /\ cached = current THEN [err |-> FALSE, body |-> cached, cached |-> cached]
    ELSE [err |-> FALSE, body |-> current, cached |-> IF tagged THEN current ELSE cached]

(* ghMutate: whatever is not answered with success is an error.                *)
GhMutate(fate) == [err |-> fate # "ok", done |-> Done(fate)]

(* parseLinkNext: the path of the next page, the prefix of the API included.   *)
(* A link with other parameters than rel is not seen.                          *)
ParseLinkNext(links, enterprise) ==
    LET next == {i \in DOMAIN links : links[i] = [rel |-> "next", extra |-> FALSE]}
    IN  IF next = {} THEN <<>> ELSE Append(NormalizeGitHubHost(enterprise), "next")

(* Mutant of GhGetAll: a page that fails ends the list.                        *)
GhGetAllPartly(pages, enterprise, fates) ==
    LET good == {n \in 0..Len(pages) : \A i \in 1..n : fates[i] = "ok"}
        n == CHOOSE n \in good : \A k \in good : k <= n
    IN  [err |-> n = 0, items |-> FlattenSeq(SubSeq(pages, 1, n))]

(* ghGetAll: page by page, all of them or an error.  apiURL puts the prefix    *)
(* before the path that has it already.                                        *)
GhGetAll(pages, enterprise, fates) ==
    LET Link(i) == IF i < Len(pages) THEN <<[rel |-> "next", extra |-> FALSE]>> ELSE <<>>
        Url(i) == NormalizeGitHubHost(enterprise) \o
                    (IF i = 1 THEN <<"next">> ELSE ParseLinkNext(Link(i - 1), enterprise))
        Served(i) == Url(i) = Append(NormalizeGitHubHost(enterprise), "next") /\ fates[i] = "ok"
    IN  IF \A i \in DOMAIN pages : Served(i) THEN [err |-> FALSE, items |-> FlattenSeq(pages)]
        ELSE [err |-> TRUE, items |-> <<>>]

(* client.get of a list: the first page.                                       *)
FirstPage(items) == SubSeq(items, 1, IF Len(items) < PageSize THEN Len(items) ELSE PageSize)

-----------------------------------------------------------------------------
(* CI.  A run has a status and a conclusion: good (success, neutral, skipped), *)
(* bad (failure, timed_out, cancelled, action_required), or odd, one that the  *)
(* adapter does not know (stale, startup_failure).                             *)
Status == {"queued", "in_progress", "completed"}
Conclusion == {"good", "bad", "odd"}
CheckRun == [status : Status, conclusion : Conclusion]

MapCheckConclusion(r) ==
    CASE r.status = "in_progress" -> "running"
      [] r.status = "queued" -> "pending"
      [] r.status = "completed" /\ r.conclusion = "good" -> "success"
      [] r.status = "completed" /\ r.conclusion = "bad" -> "failed"
      [] OTHER -> "none"

MapGQLConclusion(r) ==
    CASE r.status = "in_progress" -> "running"
      [] r.status = "queued" -> "pending"
      [] r.status = "completed" /\ r.conclusion = "good" -> "success"
      [] r.status = "completed" /\ r.conclusion = "bad" -> "failed"
      [] OTHER -> "pending"

(* The worst state; a state that is none of the three is taken for success.    *)
Aggregate(states) ==
    CASE "failed" \in states -> "failed"
      [] "failed" \notin states /\ "running" \in states -> "running"
      [] states \cap {"failed", "running"} = {} /\ "pending" \in states -> "pending"
      [] OTHER -> "success"

(* checkRunsStatus: the check runs on the first page, and the workflow runs if *)
(* they can be had.                                                            *)
CheckRunsStatus(checks, flows, fates) ==
    LET seen == ToSet(FirstPage(checks)) \cup (IF fates.flows = "ok" THEN ToSet(flows) ELSE {})
    IN  IF fates.checks # "ok" \/ seen = {} THEN "none"
        ELSE Aggregate({MapCheckConclusion(r) : r \in seen})

RestCIStatus(checks, flows, fates) ==
    IF fates.pr # "ok" THEN "none" ELSE CheckRunsStatus(checks, flows, fates)

(* Mutant of BatchedCIStatus: a pending run is not waited for.                 *)
BatchedCIStatusHasty(checks, flows, fates) ==
    IF \E r \in ToSet(checks) : MapGQLConclusion(r) = "failed" THEN "failed" ELSE "success"

(* batchedCIStatus: one GraphQL query; REST when it fails or sees no check run.*)
BatchedCIStatus(checks, flows, fates) ==
    IF fates.graphql = "ok" /\ checks # <<>>
    THEN Aggregate({MapGQLConclusion(r) : r \in ToSet(checks)})
    ELSE RestCIStatus(checks, flows, fates)

GhListPipelinesByCommit(checks) ==
    [i \in DOMAIN FirstPage(checks) |-> MapCheckConclusion(FirstPage(checks)[i])]

MapPipelineState(status) ==
    CASE status = "success" -> "success"
      [] status \in {"failed", "canceled"} -> "failed"
      [] status = "running" -> "running"
      [] status \in {"pending", "created", "scheduled"} -> "pending"
      [] OTHER -> "none"

(* GitLab: the last pipeline of the list is reported.                          *)
GlCIStatusFor(pipelines, fate) ==
    IF fate # "ok" \/ pipelines = <<>> THEN "none" ELSE MapPipelineState(Last(pipelines))

-----------------------------------------------------------------------------
(* Approval: the last review of each reviewer that decides something.          *)
ReviewState == {"APPROVED", "CHANGES_REQUESTED", "COMMENTED", "DISMISSED", "PENDING"}
(* Mutant of Decides: a comment counts as a review.                            *)
DecidesAlways(r) == r.state # "PENDING"

Decides(r) == r.state \notin {"COMMENTED", "PENDING"}

Latest(reviews, u) ==
    LET own == Among(reviews, {r \in ToSet(reviews) : r.user = u /\ Decides(r)})
    IN  IF own = <<>> THEN "none" ELSE Last(own).state

(* The number of approvals a branch asks for is 0 when it cannot be read.      *)
GhApprovalStatus(reviews, required, fates) ==
    LET by == {u \in User : Latest(reviews, u) = "APPROVED"}
        refused == \E u \in User : Latest(reviews, u) = "CHANGES_REQUESTED"
        need == IF fates.protection = "ok" THEN required ELSE 0
    IN  [err |-> fates.pr # "ok" \/ fates.reviews # "ok",
         approved |-> Cardinality(by) >= need /\ ~refused, by |-> by, required |-> need]

-----------------------------------------------------------------------------
(* Comments.                                                                   *)
Side == {"left", "right"}

(* Mutant of GhInlineComment: the fallback is forgotten.                       *)
GhInlineCommentOnly(c, fates) ==
    [left |-> IF fates.pr = "ok" /\ Done(fates.post) THEN <<[at |-> c, inline |-> TRUE]>> ELSE <<>>,
     err |-> FALSE]

(* InlineComment: a comment on a line, or a plain note when the merge request  *)
(* cannot be read or the line cannot be commented.                             *)
GhInlineComment(c, fates) ==
    LET inline == fates.pr = "ok" /\ Done(fates.post)
        fallback == fates.pr # "ok" \/ fates.post # "ok"
    IN  [left |-> (IF inline THEN <<[at |-> c, inline |-> TRUE]>> ELSE <<>>) \o
                  (IF fallback /\ Done(fates.note) THEN <<[at |-> c, inline |-> FALSE]>> ELSE <<>>),
         err |-> fallback /\ fates.note # "ok"]

(* GitLab keeps the line of the side that is commented and no other.           *)
GlPosition(c) ==
    [path |-> c.path, newLine |-> IF c.side = "left" THEN 0 ELSE c.line,
     oldLine |-> IF c.side = "left" THEN c.line ELSE 0]

GlInlineComment(c, fates) ==
    LET r == GhInlineComment(c, fates) IN
    [left |-> [i \in DOMAIN r.left |-> [at |-> GlPosition(c), inline |-> r.left[i].inline]],
     err |-> r.err]

(* Reading them back: GitLab's position is taken for the right side; GitHub    *)
(* gives line 0 for a line that is no longer there, and its original one.      *)
NoteToComment(n) == [path |-> n.path, line |-> n.newLine, side |-> "right"]
GhReadComment(c) ==
    [path |-> c.path, line |-> IF c.line = 0 THEN c.original ELSE c.line, side |-> c.side]

(* ListPRDiscussions: the comments of one review, in the order of the list.    *)
GhDiscussions(comments) ==
    LET ids == [i \in DOMAIN comments |-> comments[i].review]
        first == Firsts(ids)
    IN  [k \in DOMAIN first |->
            Among(comments, {c \in ToSet(comments) : c.review = ids[first[k]]})]

(* ListPRNotes: the plain comments, then those on lines.                       *)
GhListPRNotes(plain, inline, fates) ==
    IF fates.plain # "ok" \/ fates.inline # "ok" THEN [err |-> TRUE, notes |-> <<>>]
    ELSE [err |-> FALSE, notes |-> plain \o inline]

(* ListIssueNotes of GitLab: the first page, without the system's own notes.   *)
GlListIssueNotes(notes) == Among(FirstPage(notes), {n \in ToSet(notes) : ~n.system})

-----------------------------------------------------------------------------
(* Issues.                                                                     *)

(* GitHub lists pull requests among the issues; GitLab's adapter looks at the  *)
(* label or at the assignee, and lists open issues whatever state is asked for.*)
GhListIssues(issues, f) ==
    {i \in issues : /\ f.assignee \in {"", i.assignee} /\ f.label \in {""} \cup i.labels
                    /\ f.state \in {"all", i.state} \/ (f.state = "" /\ i.state = "open")}
GlListIssues(issues, f) ==
    {i \in issues : /\ ~i.pull /\ i.state = "open"
                    /\ IF f.label # "" THEN f.label \in i.labels ELSE i.assignee = f.assignee}

(* Keywords before an issue's number: GitHub's adapter knows only three forms, *)
(* and names an issue as often as the text does.                               *)
GhClosing(refs, readable) ==
    Among(refs, {r \in ToSet(refs) : r.word \in {"closes", "fixes", "resolves"} /\ r.issue \in readable})
ParseClosesN(refs) ==
    {r.issue : r \in {ref \in ToSet(refs) : ref.word \in {"close", "closes", "fixes", "resolves"}}}

(* Mutant of Entry: an entry whose number begins with the child's counts.      *)
EntryByPrefix(line, child) == line.child \in {child, 10 * child}

(* addSubIssueTaskList: the child is added to the parent's list of tasks       *)
(* unless an entry for it, open or ticked, is there.                           *)
Entry(line, child) == line.child = child /\ line.mark \in {" ", "x"}

AddSubIssueTaskList(body, child, fates) ==
    IF fates.read # "ok" \/ \E i \in DOMAIN body : Entry(body[i], child) THEN body
    ELSE IF Done(fates.update) THEN Append(body, [child |-> child, mark |-> " "]) ELSE body

(* AddSubIssue: GitHub's own relation, or the list of tasks.                   *)
AddSubIssue(parent, child, fates) ==
    LET native == fates.child = "ok" /\ Done(fates.post)
    IN  [subs |-> parent.subs \cup (IF native THEN {child} ELSE {}),
         body |-> IF fates.child = "ok" /\ fates.post = "ok" THEN parent.body
                  ELSE AddSubIssueTaskList(parent.body, child, fates)]

(* LinkIssues: GitHub gets a comment, GitLab a link; the default differs.      *)
GhLinkIssues(type) == IF type \in {"is_blocked_by", "relates_to"} THEN type ELSE "blocks"
GlLinkIssues(type) == IF type = "" THEN "relates_to" ELSE type

-----------------------------------------------------------------------------
(* Merge requests, accounts, and the choice of an adapter.                     *)
GhPRToPR(pr) == [state |-> IF pr.merged THEN "merged" ELSE pr.state, draft |-> pr.draft]
MrToPR(mr) == [state |-> mr.state, draft |-> mr.draft \/ mr.wip]

(* OpenPR on GitLab: a draft is a title.                                       *)
GlOpenPR(draft) == [title |-> IF draft THEN "Draft: " ELSE "", draft |-> draft]

(* GetMRChanges: every path once, that of a deleted file included.             *)
GlGetMRChanges(changes) ==
    LET path == [i \in DOMAIN changes |-> IF changes[i].new = "" THEN changes[i].old ELSE changes[i].new]
        new == Firsts(path)
    IN  [k \in DOMAIN new |-> path[new[k]]]

(* LookupUser and GetUserNumericID: the account of that name, or the first of  *)
(* those the search gives.                                                     *)
LookupUser(found, name) ==
    LET same == Among(found, {u \in ToSet(found) : u.name = name})
    IN  IF same # <<>> THEN Head(same).id ELSE IF found # <<>> THEN Head(found).id ELSE 0

GetDefaultBranch(branch) == IF branch = "" THEN "main" ELSE branch

First(choices) == LET set == Among(choices, {c \in ToSet(choices) : c # ""})
                  IN  IF set = <<>> THEN "" ELSE Head(set)

(* NewPressoir: what the configuration names, before the credentials.          *)
NewPressoir(cfg, creds) ==
    IF cfg.provider \notin DOMAIN creds THEN [err |-> TRUE, host |-> "", token |-> ""]
    ELSE [err |-> FALSE, host |-> First(<<cfg.host, creds[cfg.provider].host>>),
          token |-> First(<<cfg.env, creds[cfg.provider].token>>)]

(* RepoRefFromPath: the last segment is the name.                              *)
RepoRefFromPath(segments) ==
    [owner |-> Front(segments), name |-> Last(segments)]
=============================================================================
