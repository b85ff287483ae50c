--------------------------- MODULE MemoryPipeline ---------------------------
(* The memory services: cmd/memory-ingester copies the observations of the     *)
(* agents from Engram's Postgres log into the entities of SurrealDB, and       *)
(* cmd/memory-curator turns changed entities into wiki pages with an LLM.      *)
(*                                                                             *)
(* One group, fed by one source project.  Each service keeps a cursor in       *)
(* SurrealDB and moves it at the end of a pass: the ingester's is a sequence   *)
(* number, the curator's the time of the database.  clock counts the writes of *)
(* entities, so an entity written after the cursor was set is newer than it.   *)
(* Both services fail, restart and are reset by an administrator at any step.  *)
EXTENDS Integers, FiniteSets, Sequences

CONSTANTS
    Entity,        \* positive numbers, in the order of clusterEntities (role, name)
    Role,          \* Role[e]
    HighValue,     \* highValueRoles
    Topic,         \* Topic[e]: entities of one topic embed close to each other
    Slug,          \* slugs of the titles the LLM may choose
    NameSlug,      \* NameSlug[e]: slugify(name)
    None,          \* "no topic": a page without embedding
    BatchSize,     \* rows per EngramPostgresReader.Fetch
    FetchLimit,    \* 500 in FetchEntitiesSinceCursor
    HumanPages,    \* sets of pages people may have in the repository
    MaxObs,        \* bound on the observations
    MaxTrouble     \* bound on the faults, refusals, restarts and resets together

ASSUME EntityAssumption == Entity \subseteq Nat \ {0} /\ IsFiniteSet(Entity)
ASSUME SizeAssumption == BatchSize \in Nat \ {0} /\ FetchLimit \in Nat \ {0}
ASSUME NoneAssumption == \A e \in Entity : Topic[e] # None
ASSUME BoundAssumption == MaxObs \in Nat /\ MaxTrouble \in Nat

VARIABLES
    log,      \* log[k]: the entity the k-th observation is about
    icur,     \* ingest_cursor.seq; no row reads as 0
    ing,      \* local variables of runEngramIngestion
    clock,    \* time of the database
    at,       \* at[e]: updated_at of the entity, 0 while it does not exist
    docs,     \* wiki_doc rows by path
    files,    \* the page files of the clone by path
    ccur,     \* wiki_curator_cursor.last_synced_at; no row reads as 0
    pass,     \* local variables of curateGroup
    llm,      \* the curator process built its LLM client
    hist,     \* history
    budget    \* environment steps used

vars == <<log, icur, ing, clock, at, docs, files, ccur, pass, llm, hist, budget>>
ingestVars == <<log, icur, ing>>
curateVars == <<docs, files, ccur, pass, llm>>

(* rolePath(role, slug): roles without a directory share "concepts".           *)
Named == {"decision", "diagnosis", "verdict", "log_pattern", "artifact"}
RolePath(role, slug) == <<IF role \in Named THEN role ELSE "concept", slug>>
Path == {RolePath(Role[e], s) : e \in Entity, s \in Slug}

ASSUME HumanAssumption == HumanPages # {} /\ HumanPages \subseteq SUBSET Path

NoDoc == [kind |-> "none"]
IdleIngest == [pc |-> "idle", last |-> 0, next |-> 1, upTo |-> 0]
IdlePass == [pc |-> "idle", fetched |-> {}, todo |-> {},
             cluster |-> {}, path |-> <<>>, vec |-> None, blocked |-> FALSE,
             written |-> {}, shown |-> {},
             began |-> 0, cut |-> {}, hidden |-> {}, wiped |-> FALSE]

Init ==
    /\ log = <<>> /\ icur = 0 /\ ing = IdleIngest
    /\ clock = 0 /\ at = [e \in Entity |-> 0]
    /\ docs = [p \in Path |-> NoDoc]
    /\ \E human \in HumanPages :
           files = [p \in Path |-> IF p \in human THEN "human" ELSE "none"]
    /\ ccur = 0 /\ pass = IdlePass /\ llm \in BOOLEAN
    /\ hist = [tried |-> {}, handled |-> [e \in Entity |-> 0]]
    /\ budget = [faults |-> 0, refusals |-> 0, restarts |-> 0, resets |-> 0]

Use(what) ==
    /\ budget.faults + budget.refusals + budget.restarts + budget.resets < MaxTrouble
    /\ budget' = [budget EXCEPT ![what] = @ + 1]
CallFails == Use("faults")
Upsert(e) == clock' = clock + 1 /\ at' = [at EXCEPT ![e] = clock']

-----------------------------------------------------------------------------
(* runEngramIngestion, every 30 minutes.                                       *)

(* EngramPostgresReader.Fetch: the oldest rows after the cursor.               *)
LastOfBatch(last) == IF last + BatchSize < Len(log) THEN last + BatchSize ELSE Len(log)

(* Mutant of FetchAfter: the last row waits for another one.                   *)
FetchFull(last) ==
    /\ last + 1 < Len(log)
    /\ ing' = [pc |-> "ingest", last |-> last, next |-> last + 1, upTo |-> LastOfBatch(last)]

(* Cursor and rows are read in one step; an unreadable cursor counts as 0.  A  *)
(* poll that finds no row, or fails, changes nothing.                          *)
FetchAfter(last) ==
    /\ last < Len(log)
    /\ ing' = [pc |-> "ingest", last |-> last, next |-> last + 1, upTo |-> LastOfBatch(last)]

Fetch ==
    /\ ing.pc = "idle"
    /\ \/ FetchAfter(icur) /\ UNCHANGED budget
       \/ icur # 0 /\ FetchAfter(0) /\ CallFails
    /\ UNCHANGED <<log, icur, clock, at, curateVars, hist>>

(* ingestObservation: an observation that fails is logged and passed over.     *)
IngestOne ==
    /\ ing.pc = "ingest"
    /\ ing.next <= ing.upTo
    /\ \/ Upsert(log[ing.next]) /\ UNCHANGED budget
       \/ CallFails /\ UNCHANGED <<clock, at>>
    /\ ing' = [ing EXCEPT !.next = @ + 1]
    /\ hist' = [hist EXCEPT !.tried = @ \cup {ing.next}]
    /\ UNCHANGED <<log, icur, curateVars>>

(* Mutant of SaveIngestCursor: the end of the log is saved.                    *)
SaveEnd ==
    /\ ing.pc = "ingest"
    /\ ing.next > ing.upTo
    /\ icur' = Len(log)
    /\ ing' = IdleIngest
    /\ UNCHANGED <<log, clock, at, curateVars, hist, budget>>

SaveIngestCursor ==
    /\ ing.pc = "ingest"
    /\ ing.next > ing.upTo
    /\ \/ icur' = ing.upTo /\ UNCHANGED budget
       \/ CallFails /\ UNCHANGED icur
    /\ ing' = IdleIngest
    /\ UNCHANGED <<log, clock, at, curateVars, hist>>

-----------------------------------------------------------------------------
(* curateGroup.  pass.began, cut, hidden and wiped are history: the time of    *)
(* the fetch, what the limit cut off, the entities passed over for good and    *)
(* whether --recurate ran meanwhile.                                           *)

At(pc) == pass.pc = pc
Goto(pc) == pass' = [pass EXCEPT !.pc = pc]

(* Mutant of Changed: an entity changed just after the cursor is left out.     *)
ChangedLate(since) == {e \in Entity : at[e] > since + 1}

Changed(since) == {e \in Entity : at[e] > since}

(* FetchEntitiesSinceCursor: the FetchLimit entities that changed first.       *)
Oldest(S) == {e \in S : Cardinality({f \in S : at[f] < at[e]}) < FetchLimit}

(* Cursor and entities are read in one step; without a cursor all entities     *)
(* count as changed, and so they do when it cannot be read.  A pass that       *)
(* cannot read the entities changes nothing.                                   *)
FetchSince(since) ==
    LET changed == Changed(since)
        got == Oldest(changed)
    IN pass' = [IdlePass EXCEPT
           !.fetched = got, !.began = clock, !.cut = changed \ got,
           !.todo = IF llm THEN got ELSE {},
           !.blocked = ~llm /\ got # {},
           !.pc = IF llm /\ got # {} THEN "cluster" ELSE "snapshot"]

FetchEntities ==
    /\ At("idle")
    /\ \/ FetchSince(ccur) /\ UNCHANGED budget
       \/ ccur # 0 /\ FetchSince(0) /\ CallFails
    /\ UNCHANGED <<ingestVars, clock, at, docs, files, ccur, llm, hist>>

First(S) == CHOOSE e \in S : \A f \in S : e <= f

ClusterDone == [pass EXCEPT !.pc = "cluster", !.cluster = {}, !.path = <<>>, !.vec = None]
Primary == First(pass.cluster)

(* clusterEntities; the clusters are worked off in the order of their first    *)
(* members.  processCluster passes over artifacts (empty scaffolds and         *)
(* reserved names are treated alike) and over the entity whose page a person   *)
(* wrote, without a retry.                                                     *)
NextCluster ==
    /\ At("cluster")
    /\ IF pass.todo = {} THEN Goto("snapshot")
       ELSE LET e == First(pass.todo)
                cl == {f \in pass.todo : Topic[f] = Topic[e]}
            IN pass' =
                IF Role[e] = "artifact" \/ files[RolePath(Role[e], NameSlug[e])] = "human"
                THEN [pass EXCEPT !.todo = @ \ cl, !.hidden = @ \cup cl]
                ELSE [pass EXCEPT !.todo = @ \ cl, !.cluster = cl, !.pc = "synthesise"]
    /\ UNCHANGED <<ingestVars, clock, at, docs, files, ccur, llm, hist, budget>>

(* The cluster is passed over without a retry.                                 *)
Skip == pass' = [ClusterDone EXCEPT !.hidden = @ \cup pass.cluster]

(* Mutant of Refused: the refusal is forgotten.                                *)
RefusedQuietly == pass' = ClusterDone

(* synthesizeConcept returns nothing: the cursor stays for a retry.            *)
Refused == pass' = [ClusterDone EXCEPT !.blocked = TRUE]

LLMRefuses ==
    /\ At("synthesise")
    /\ Use("refusals")
    /\ Refused
    /\ UNCHANGED <<ingestVars, clock, at, docs, files, ccur, llm, hist>>

(* Mutant of Similar: only a page with the same path is looked up.             *)
SimilarByPath(vec, p) == {q \in {p} : docs[q].kind = "page" /\ docs[q].vec = vec}

(* FindSimilarWikiDoc: pages of the role whose embedding is close.             *)
Similar(vec, p) ==
    {q \in Path : /\ docs[q].kind = "page"
                  /\ docs[q].type = Role[Primary]
                  /\ docs[q].vec = vec}

(* Mutant of Target: the page found is taken whoever wrote it.                 *)
TargetAnyone(q, vec) == pass' = [pass EXCEPT !.path = q, !.vec = vec, !.pc = "store"]

Target(q, vec) ==
    IF files[q] = "human" THEN Skip
    ELSE pass' = [pass EXCEPT !.path = q, !.vec = vec, !.pc = "store"]

(* The LLM answers with a title that is a scaffold key.                        *)
ScaffoldTitle ==
    /\ At("synthesise")
    /\ Use("refusals")
    /\ Skip
    /\ UNCHANGED <<ingestVars, clock, at, docs, files, ccur, llm, hist>>

(* The LLM answers with title s, whose embedding is vec: a page of the same    *)
(* concept is updated instead of a second one.  Without an embedding, or if    *)
(* the database does not answer, none is looked for.                           *)
Synthesise ==
    /\ At("synthesise")
    /\ \E s \in Slug, vec \in {Topic[Primary], None}, answered \in BOOLEAN :
        LET p == RolePath(Role[Primary], s)
            ok == answered /\ vec # None
            near == IF ok THEN Similar(vec, p) ELSE {}
        IN /\ IF files[p] = "human" THEN Skip
              ELSE \E q \in (IF near = {} THEN {p} ELSE near) : Target(q, vec)
           /\ IF ok THEN UNCHANGED budget ELSE CallFails
    /\ UNCHANGED <<ingestVars, clock, at, docs, files, ccur, llm, hist>>

Serveable == Role[Primary] \in HighValue \/ Cardinality(pass.cluster) >= 3

(* UpsertWikiDoc; its failure is only logged.  A page written without          *)
(* embedding keeps the one the row has.                                        *)
StorePage ==
    /\ At("store")
    /\ \/ /\ docs' = [docs EXCEPT ![pass.path] =
                    [kind |-> "page", type |-> Role[Primary], auto |-> Serveable,
                     vec |-> IF pass.vec = None /\ @.kind = "page" THEN @.vec ELSE pass.vec]]
          /\ hist' = [hist EXCEPT !.handled =
                    [e \in Entity |-> IF e \in pass.cluster THEN pass.began ELSE @[e]]]
          /\ Goto("write")
          /\ UNCHANGED budget
       \/ /\ pass' = [pass EXCEPT !.hidden = @ \cup pass.cluster, !.pc = "write"]
          /\ CallFails
          /\ UNCHANGED <<docs, hist>>
    /\ UNCHANGED <<ingestVars, clock, at, files, ccur, llm>>

(* writeOKF                                                                    *)
WritePage ==
    /\ At("write")
    /\ \/ /\ files' = [files EXCEPT ![pass.path] = "page"]
          /\ pass' = [ClusterDone EXCEPT !.written = @ \cup {pass.path}]
          /\ UNCHANGED budget
       \/ pass' = ClusterDone /\ CallFails /\ UNCHANGED files
    /\ UNCHANGED <<ingestVars, clock, at, docs, ccur, llm, hist>>

(* Mutant of ToShow: the pages of this pass only.                              *)
NothingToShow == {}

ToShow == {p \in Path : docs[p].kind = "page" /\ docs[p].auto /\ files[p] # "human"}

(* FetchAllAutoServeWikiDocs and emitAllWikiDocs.                              *)
Snapshot ==
    /\ At("snapshot")
    /\ \/ /\ files' = [p \in Path |-> IF p \in ToShow THEN "page" ELSE files[p]]
          /\ pass' = [pass EXCEPT !.shown = ToShow, !.pc = "prune"]
          /\ UNCHANGED budget
       \/ /\ \E bad \in ToShow :
              /\ files' = [p \in Path |-> IF p \in ToShow \ {bad} THEN "page" ELSE files[p]]
              /\ pass' = [pass EXCEPT !.shown = ToShow \ {bad}, !.pc = "prune"]
          /\ CallFails
    /\ UNCHANGED <<ingestVars, clock, at, docs, ccur, llm, hist>>

SnapshotFails ==
    /\ At("snapshot")
    /\ pass' = IdlePass
    /\ CallFails
    /\ UNCHANGED <<ingestVars, clock, at, docs, files, ccur, llm, hist>>

(* pruneStaleWikiFiles; commitAndPush, which only touches git, is left out.    *)
Prune ==
    /\ At("prune")
    /\ files' = [p \in Path |->
          IF files[p] = "page" /\ p \notin pass.written \cup pass.shown
          THEN "none" ELSE files[p]]
    /\ Goto("cursor")
    /\ UNCHANGED <<ingestVars, clock, at, docs, ccur, llm, hist, budget>>

Advances == pass.fetched # {} /\ ~pass.blocked

(* SetWikiCuratorCursor: to the time of the database.                          *)
SetCuratorCursor ==
    /\ At("cursor")
    /\ \/ ccur' = (IF Advances THEN clock ELSE ccur) /\ UNCHANGED budget
       \/ Advances /\ CallFails /\ UNCHANGED ccur
    /\ pass' = IdlePass
    /\ UNCHANGED <<ingestVars, clock, at, docs, files, llm, hist>>

-----------------------------------------------------------------------------
(* The agents, the administrator and the pod.                                  *)

(* engram appends an observation to cloud_mutations.                           *)
Observe ==
    /\ Len(log) < MaxObs
    /\ \E e \in Entity : log' = Append(log, e)
    /\ UNCHANGED <<icur, ing, clock, at, curateVars, hist, budget>>

(* memory-ingester --reingest                                                  *)
DoReingest ==
    /\ Use("resets")
    /\ icur' = 0
    /\ UNCHANGED <<log, ing, clock, at, curateVars, hist>>

(* memory-ingester --recurate                                                  *)
DoRecurate ==
    /\ Use("resets")
    /\ docs' = [p \in Path |-> NoDoc]
    /\ ccur' = 0
    /\ pass' = IF At("idle") THEN pass ELSE [pass EXCEPT !.wiped = TRUE]
    /\ hist' = [hist EXCEPT !.handled = [e \in Entity |-> 0]]
    /\ UNCHANGED <<ingestVars, clock, at, files, llm>>

IngesterRestarts ==
    /\ Use("restarts")
    /\ ing' = IdleIngest
    /\ UNCHANGED <<log, icur, clock, at, curateVars, hist>>

CuratorRestarts ==
    /\ Use("restarts")
    /\ pass' = IdlePass
    /\ llm' \in BOOLEAN
    /\ UNCHANGED <<ingestVars, clock, at, docs, files, ccur, hist>>

(* The clone lives as long as the pod: a new one starts from the repository,   *)
(* with the pages people wrote there and the curator's if they were merged.    *)
PodRestarts ==
    /\ Use("restarts")
    /\ ing' = IdleIngest /\ pass' = IdlePass /\ llm' \in BOOLEAN
    /\ \E human \in HumanPages, merged \in BOOLEAN :
        files' = [p \in Path |-> IF p \in human THEN "human"
                                ELSE IF merged /\ files[p] = "page" THEN "page"
                                ELSE "none"]
    /\ UNCHANGED <<log, icur, clock, at, docs, ccur, hist>>

IngestStep == Fetch \/ IngestOne \/ SaveIngestCursor
CurateStep ==
    \/ FetchEntities \/ NextCluster
    \/  LLMRefuses \/ ScaffoldTitle \/ Synthesise \/ StorePage
    \/ WritePage \/ Snapshot \/ SnapshotFails \/ Prune \/ SetCuratorCursor
Environment ==
    \/ Observe \/ DoReingest \/ DoRecurate
    \/ IngesterRestarts \/ CuratorRestarts \/ PodRestarts

Next == IngestStep \/ CurateStep \/ Environment
Spec == Init /\ [][Next]_vars

(* Both services loop for ever; calls and restarts are bounded in number.      *)
FairSpec == Spec /\ WF_vars(IngestStep) /\ WF_vars(CurateStep)

-----------------------------------------------------------------------------
(* Properties.                                                                 *)

Doc == [kind : {"page"}, type : {Role[e] : e \in Entity}, auto : BOOLEAN,
        vec : {Topic[e] : e \in Entity} \cup {None}]

(* All values stay in their sets, in particular the two cursors that           *)
(* runEngramIngestion and curateGroup save are never ahead of what they count. *)
TypeOK ==
    /\ log \in Seq(Entity) /\ icur \in 0 .. Len(log)
    /\ ing.pc \in {"idle", "ingest"} /\ ing.upTo \in 0 .. Len(log)
    /\ at \in [Entity -> 0 .. clock] /\ ccur \in 0 .. clock
    /\ docs \in [Path -> Doc \cup {NoDoc}]
    /\ files \in [Path -> {"none", "page", "human"}]
    /\ pass.written \cup pass.shown \subseteq Path
    /\ pass.fetched \cup pass.hidden \cup pass.cluster \cup pass.cut \subseteq Entity
    /\ hist.tried \subseteq 1 .. Len(log) /\ hist.handled \in [Entity -> 0 .. clock]

(* The ingest cursor never passes an observation that was not tried, whatever  *)
(* call failed and whenever the ingester or its cursor was reset.              *)
NoneSkipped == \A k \in 1 .. icur : k \in hist.tried

(* An entity the curator takes pages from, changed behind the cursor and not   *)
(* in a page as it is now: no later pass fetches it.                           *)
Stranded(e) ==
    /\ Role[e] # "artifact"
    /\ 0 < at[e] /\ at[e] <= ccur /\ hist.handled[e] < at[e]

(* An entity is only left behind the curator's cursor if it changed during the *)
(* pass, exceeded the limit of the fetch, was passed over for good or had its  *)
(* page deleted by --recurate during the pass; the LLM refusing it, a failed   *)
(* call, a restart and an unreadable cursor never leave it behind.             *)
StrandedForCause ==
    [][\A e \in Entity : ~Stranded(e) /\ Stranded(e)' =>
          \/ at[e] > pass.began
          \/ e \in pass.cut \cup pass.hidden
          \/ pass.wiped]_vars

(* No step of a curator pass touches a page a person wrote, although whose     *)
(* page it is is read before the LLM, the database and the disk are.           *)
HumanPagesKept ==
    [][\A p \in Path : files[p] = "human" /\ files'[p] # "human" =>
          budget'.restarts # budget.restarts]_vars

(* After the pruning of a pass that was not disturbed, the clone shows every   *)
(* page that is served and besides only what this pass wrote: a pass that      *)
(* found one changed entity does not shrink the wiki to one page.              *)
FullSnapshot ==
    At("cursor") /\ ~pass.wiped /\ budget.faults = 0 =>
        {p \in Path : files[p] = "page"} =
            {p \in Path : docs[p] # NoDoc /\ docs[p].auto /\ files[p] # "human"}
                \cup pass.written

(* As long as no call fails a concept has one page, however often the LLM      *)
(* renames it, the pod restarts and a pass starts over: processCluster looks   *)
(* for the page of the concept before it writes one.                           *)
OnePagePerConcept ==
    budget.faults = 0 => \A p, q \in Path :
        /\ docs[p].kind = "page" /\ docs[q].kind = "page"
        /\ docs[p].type = docs[q].type
        /\ docs[p].vec = docs[q].vec /\ docs[p].vec # None
        => p = q

(* The curator's pages: all of them on disk, and one for each concept.         *)
PagesSound == FullSnapshot /\ OnePagePerConcept

(* Nothing is lost without a cause: no page of a person, no changed entity.    *)
LostForCause == HumanPagesKept /\ StrandedForCause

(* Every observation is ingested, or its failure logged, in the end.           *)
ObservedIsTried == []<>(DOMAIN log \subseteq hist.tried)

(* A changed entity does not wait for ever: a page is made of it, or one of    *)
(* the causes leaves it behind, unless the curator has no LLM client.          *)
Waiting(e) == Role[e] # "artifact" /\ at[e] > ccur /\ hist.handled[e] < at[e]
ChangedIsServed == []<>(~llm \/ \A e \in Entity : ~Waiting(e))

(* What was observed gets through: into the graph, and from there into a page. *)
KnowledgeMoves == ObservedIsTried /\ ChangedIsServed
=============================================================================
