----------------------------- MODULE MemoryRules -----------------------------
(* What the memory services compute from what they read: which knowledge a     *)
(* turn or a new session is given (memory-recall, `aoc memory-boot-context`),   *)
(* what memory-rollup promotes, how a client writes through retries and partial*)
(* failure (internal/surreal), and what the ontology allows.                   *)
EXTENDS Integers, Sequences, FiniteSets, SequencesExt, Lists

CONSTANTS
    Near,       \* RECALL_DISTANCE_THRESHOLD
    Few,        \* hits kept when none is near
    Apart,      \* largest distance of two pages (or staged rows) of one cluster
    Attempts,   \* maxAttempts of EnsureSchema
    Spread      \* ROLLUP_THRESHOLD

Global == [tier |-> "global", of |-> ""]
VignobleScope(v) == [tier |-> "vignoble", of |-> v]
VigneScope(g) == [tier |-> "vigne", of |-> g]

Top(s, n) == SubSeq(s, 1, IF Len(s) < n THEN Len(s) ELSE n)

(* The rows whose key is new, each key once; and the keys seen then.           *)
Fresh(rows, seen, key) ==
    LET new == {i \in DOMAIN rows : /\ rows[i][key] \notin seen
                                    /\ \A j \in 1..(i - 1) : rows[j][key] # rows[i][key]}
        at == Among(Indices(rows), new)
    IN  [rows |-> [k \in DOMAIN at |-> rows[at[k]]],
         seen |-> seen \cup {rows[i][key] : i \in DOMAIN rows}]

-----------------------------------------------------------------------------
(* Recall.  A hit has an identity id (role and name, or the path of a page), a *)
(* name (or title), whether it is a page, a text, and a distance; a hit of the *)
(* full-text search has none, which reads as 0.                                *)

Hits(of, pages) == [id : STRING, name : STRING, of : {of}, dist : Nat, text : STRING, wiki : pages, typed : BOOLEAN]
Databases(of) ==
    [up : BOOLEAN, vec : Seq(Hits(of, {FALSE})), text : Seq(Hits(of, {FALSE})),
     wikiVec : Seq(Hits(of, {TRUE})), wikiText : Seq(Hits(of, {TRUE}))]

EntitledScopes(group, vignoble) ==
    (IF group = "" THEN <<>> ELSE <<VigneScope(group)>>)
        \o (IF vignoble = "" THEN <<>> ELSE <<VignobleScope(vignoble)>>) \o <<Global>>

Unscored(rows) == [i \in DOMAIN rows |-> [rows[i] EXCEPT !.dist = 0]]

(* What queryScope finds: nothing in a scope that does not answer.             *)
QueryScope(db, embedded) ==
    LET near(rows) == IF embedded THEN rows ELSE <<>>
    IN  IF db.up THEN near(db.vec) \o Unscored(db.text) \o near(db.wikiVec) \o Unscored(db.wikiText)
        ELSE <<>>

(* Mutant of GateByRelevance: what is far is dropped whatever else there is.   *)
GateStrictly(hits) == Among(hits, {h \in ToSet(hits) : h.dist <= Near})

GateByRelevance(hits) ==
    LET within == Among(hits, {h \in ToSet(hits) : h.dist <= Near})
    IN  IF within # <<>> THEN within ELSE Top(hits, Few)

(* Mutant of Filter: what was said in this answer is not kept for the next.    *)
FilterOnce(seen, hits) == [Fresh(hits, seen, "name") EXCEPT !.seen = seen]

(* sessionDedup.Filter: by name, for the life of the service.                  *)
Filter(seen, hits) == Fresh(hits, seen, "name")

(* summarize: the names that reach the context; llm is "none", "ok", "error".  *)
Summarize(llm, hits) ==
    LET told == Among(hits, {h \in ToSet(hits) : h.text # ""})
    IN  CASE hits = <<>> -> {}
          [] hits # <<>> /\ llm = "none" -> {h.name : h \in ToSet(Top(told, 1))}
          [] OTHER -> {h.name : h \in ToSet(hits)}

(* handleRecall over the databases of the entitled scopes, which share what has*)
(* been seen.                                                                  *)
HandleRecall(group, vignoble, session, dbs, embedded, llm, said) ==
    LET scopes == EntitledScopes(group, vignoble)
        all == FlattenSeq([i \in DOMAIN scopes |-> QueryScope(dbs[scopes[i]], embedded)])
        found == Fresh(all, {}, "id").rows
        gated == GateByRelevance(found)
        fresh == IF session = "" THEN [rows |-> gated, seen |-> said] ELSE Filter(said, gated)
    IN  [candidates |-> found, hits |-> fresh.rows, said |-> fresh.seen,
         context |-> Summarize(llm, fresh.rows)]

(* Mutant of BootHits: the entities of every scope.                            *)
BootHitsAnywhere(db, own, embedded, topK) ==
    Top(db.wikiVec \o db.wikiText \o db.vec \o db.text, topK * 2)

(* bootHitsForScope: pages of any scope, typed entities of the vigne's own.    *)
BootHits(db, own, embedded, topK) ==
    LET near(rows) == IF embedded THEN rows ELSE <<>>
        named(rows) == Among(rows, {r \in ToSet(rows) : r.name # ""})
        pages == Fresh(Top(near(db.wikiVec), topK) \o Top(db.wikiText, topK), {}, "id").rows
        found == Top(near(db.vec), topK) \o Top(db.text, topK)
        typed == Fresh(Among(found, {r \in ToSet(found) : r.typed}), {}, "id").rows
        shown == Top(named(pages), topK)
    IN  IF ~db.up THEN <<>>
        ELSE IF ~own THEN shown
        ELSE Top(shown \o named(typed), topK * 2)

(* dedupeBootEntries: an entity that has the title of a page is left out.      *)
DedupeBootEntries(entries) ==
    LET titles == {e.name : e \in {x \in ToSet(entries) : x.wiki}}
    IN  Among(entries, {e \in ToSet(entries) : e.wiki \/ e.name \notin titles})

(* memory-boot-context: nothing is printed when anything is missing.           *)
BootContext(group, vignoble, dbs, embedded, topK) ==
    LET hits(s) == BootHits(dbs[s], s = VigneScope(group), embedded, topK)
    IN  IF group = "" \/ vignoble = "" THEN <<>>
        ELSE DedupeBootEntries(hits(Global) \o hits(VignobleScope(vignoble)) \o hits(VigneScope(group)))

-----------------------------------------------------------------------------
(* Clusters.  A page or row has a place ("none" without embedding): distance   *)
(* is that of two places.                                                      *)
Pages == [at : Int, label : STRING, id : STRING]
Distance(a, b) == IF a > b THEN a - b ELSE b - a
Alike(a, b) == a.at >= 0 /\ b.at >= 0 /\ Distance(a.at, b.at) <= Apart
Closest(cluster, e) ==
    LET ds == {Distance(m.at, e.at) : m \in ToSet(cluster)}
    IN  CHOOSE d \in ds : \A o \in ds : d <= o

(* Mutant of ClusterEntities: near enough to nothing is near enough.           *)
ClusterLoosely(pages) == IF pages = <<>> THEN <<>> ELSE <<pages>>

(* clusterEntities of the roll-up: each page joins the cluster with the        *)
(* nearest member, the earliest of several.                                    *)
ClusterEntities(pages) ==
    LET place(cs, e) ==
            LET best == {i \in DOMAIN cs : \A j \in DOMAIN cs : Closest(cs[i], e) <= Closest(cs[j], e)}
                i == CHOOSE b \in best : \A o \in best : b <= o
            IN  IF cs # <<>> /\ Closest(cs[i], e) <= Apart THEN [cs EXCEPT ![i] = Append(@, e)]
                ELSE Append(cs, <<e>>)
    IN  FoldLeft(place, <<>>, Among(pages, {p \in ToSet(pages) : p.at >= 0}))

(* promoteToScope: every page carries the label of the roll-up itself, so that *)
(* a cluster has one label however many scopes it comes from.                  *)
PromoteToScope(dbs, sources, label) ==
    LET labelled(p) == [p EXCEPT !.label = label]
        of(db) == IF db.up THEN [i \in DOMAIN db.served |-> labelled(db.served[i])] ELSE <<>>
        clusters == ClusterEntities(FlattenSeq([i \in DOMAIN sources |-> of(dbs[sources[i]])]))
        labels(c) == {p.label : p \in ToSet(c)}
    IN  Among(clusters, {c \in ToSet(clusters) : Cardinality(labels(c)) >= Spread})

(* runRollup: each vignoble from its vignes, then all of them from each other. *)
RunRollup(dbs, members) ==
    LET vignobles == DOMAIN members
        local(v) == PromoteToScope(dbs, [i \in DOMAIN members[v] |-> VigneScope(members[v][i])], v)
        tops == SetToSeq({VignobleScope(v) : v \in vignobles})
    IN  [local |-> [v \in vignobles |-> local(v)],
         global |-> IF Cardinality(vignobles) >= Spread
                    THEN PromoteToScope(dbs, tops, "global") ELSE <<>>]

-----------------------------------------------------------------------------
(* internal/surreal.                                                           *)

(* queryRaw and Query: statements is what the server says of each statement.   *)
Query(reached, statements) ==
    IF ~reached THEN "error"
    ELSE IF \E i \in DOMAIN statements : statements[i] = "ERR" THEN "error" ELSE "ok"

(* One of the two loops of EnsureSchema: tries[i] is what the i-th attempt     *)
(* would meet: "ok", "conflict" or "error".                                    *)
Persist(tries) ==
    LET stops == {i \in 1 .. Attempts : tries[i] # "conflict" \/ i = Attempts}
        at == CHOOSE i \in stops : \A o \in stops : i <= o
    IN  [ok |-> tries[at] = "ok", calls |-> at]

(* Mutant of EnsureSchema: the namespace is enough.                            *)
EnsureNamespace(applied, boot, ddl) ==
    LET b == Persist(boot) IN [applied |-> b.ok, error |-> ~b.ok, calls |-> b.calls]

EnsureSchema(applied, boot, ddl) ==
    IF applied THEN [applied |-> TRUE, error |-> FALSE, calls |-> 0]
    ELSE LET b == Persist(boot)
             d == Persist(ddl)
         IN  IF b.ok THEN [applied |-> d.ok, error |-> ~d.ok, calls |-> b.calls + d.calls]
             ELSE [applied |-> FALSE, error |-> TRUE, calls |-> b.calls]

(* The rows of ingest_cursor: id "own" is the one GetIngestCursor reads,       *)
(* another id is of the older scheme; the source "" is a lost one.             *)
GetIngestCursor(rows, source) ==
    LET own == {r \in rows : r.source = source /\ r.id = "own"}
    IN  IF own = {} THEN 0 ELSE (CHOOSE r \in own : TRUE).seq

SetIngestCursor(rows, source, seq) ==
    {r \in rows : ~(r.source = source /\ r.id = "own")}
        \cup {[id |-> "own", source |-> source, seq |-> seq]}

(* Mutant of DeduplicateCursors: the canonical row is kept as it is.           *)
DeduplicateByName(rows, fails) == {r \in rows : r.source # "" /\ r.id = "own"}

(* DeduplicateCursors; fails are the calls that fail: "orphans", "group", or   *)
(* <<"set", source>>, <<"delete", source>>.                                    *)
DeduplicateCursors(rows, fails) ==
    LET named == {r \in rows : r.source # ""}
        of(s) == {r \in named : r.source = s}
        most(s) == CHOOSE n \in {r.seq : r \in of(s)} : \A r \in of(s) : r.seq <= n
        double == {r.source : r \in {x \in named : Cardinality(of(x.source)) > 1}}
        set == {s \in double : <<"set", s>> \notin fails}
        clean == {s \in set : <<"delete", s>> \notin fails}
        canonical(s) == IF s \in set THEN SetIngestCursor(of(s), s, most(s)) ELSE of(s)
    IN  IF <<"orphans">> \in fails THEN rows
        ELSE IF <<"group">> \in fails THEN named
        ELSE UNION {{r \in canonical(s) : s \in clean => r.id = "own"} : s \in {r.source : r \in named}}

(* Mutant of Rechunk: the old chunks are written over, never deleted.          *)
RechunkOver(stored, chunks, deleted, written) ==
    LET size == IF Len(stored) > written THEN Len(stored) ELSE written
    IN  [i \in 1 .. size |-> IF i <= written THEN chunks[i] ELSE stored[i]]

(* doRechunk of one page: delete, then write until a write fails; written is   *)
(* how many are.  Chunks are stored by index.                                  *)
Rechunk(stored, chunks, deleted, written) ==
    LET base == IF deleted THEN <<>> ELSE stored
        new == SubSeq(chunks, 1, written)
        size == IF Len(base) > written THEN Len(base) ELSE written
    IN  [i \in 1 .. size |-> IF i <= written THEN new[i] ELSE base[i]]

(* FetchEntityEdges: an edge table that cannot be read is passed over, and a   *)
(* target without a name.                                                      *)
FetchEntityEdges(tables, entity, edges) ==
    UNION {{<<e, t>> : t \in tables[e].out[entity] \ {""}} : e \in {x \in edges : tables[x].readable}}

(* The counters of a cycle: what cannot be read counts as nothing so far.      *)
CountCycle(stats, readable, ingested, failed) ==
    [ingested |-> (IF readable THEN stats.ingested ELSE 0) + ingested,
     failed |-> (IF readable THEN stats.failed ELSE 0) + failed]

(* Mutant of MemoryStatus: only failures are looked for.                       *)
StatusOfFailures(groups) ==
    [lagging |-> {}, failing |-> {i \in DOMAIN groups : groups[i].up /\ groups[i].failed > 0}, unpublished |-> {}]

(* The memory-status answer over groups, and what the command makes of it.     *)
MemoryStatus(groups) ==
    LET lag(g) == IF g.max > g.cursor THEN g.max - g.cursor ELSE 0
    IN  [lagging |-> {i \in DOMAIN groups : groups[i].up /\ lag(groups[i]) > 0},
         failing |-> {i \in DOMAIN groups : groups[i].up /\ groups[i].failed > 0},
         unpublished |-> {i \in DOMAIN groups : groups[i].up /\ groups[i].docs > 0 /\ ~groups[i].published}]

Healthy(answered, status) ==
    answered /\ status.lagging = {} /\ status.failing = {} /\ status.unpublished = {}

-----------------------------------------------------------------------------
(* Staging and the gardener.                                                   *)

(* UpsertEntityStaging: by name, the role proposed last.                       *)
UpsertEntityStaging(rows, name, role, at) ==
    {r \in rows : r.name # name}
        \cup {[name |-> name, role |-> role, at |-> at,
               count |-> 1 + (IF \E r \in rows : r.name = name
                              THEN (CHOOSE r \in rows : r.name = name).count ELSE 0)]}

(* clusterStagingRows: the first cluster with a member alike.                  *)
ClusterStagingRows(rows) ==
    LET place(cs, e) ==
            LET fits == {i \in DOMAIN cs : \E m \in ToSet(cs[i]) : Alike(m, e)}
            IN  IF fits = {} THEN Append(cs, <<e>>)
                ELSE [cs EXCEPT ![CHOOSE i \in fits : \A o \in fits : i <= o] = Append(@, e)]
    IN  FoldLeft(place, <<>>, rows)

(* Mutant of RunGardener: an answer that cannot be read is taken for a yes.    *)
RunGardenerEagerly(rows, min, llm, says) ==
    LET clusters == ClusterStagingRows(Among(rows, {r \in ToSet(rows) : r.count >= min}))
    IN  [results |-> <<>>, proposed |-> {{r.name : r \in ToSet(clusters[i])} : i \in DOMAIN clusters}]

(* RunGardener over the staged rows, in their order; says[i] is the answer on  *)
(* the i-th cluster, "error" when there was none.                              *)
RunGardener(rows, min, llm, says) ==
    LET clusters == ClusterStagingRows(Among(rows, {r \in ToSet(rows) : r.count >= min}))
        verdict(i) == IF ~llm THEN "Hold" ELSE IF says[i] \in {"Map", "Extend"} THEN says[i] ELSE "Hold"
        heard == {i \in DOMAIN clusters : llm => says[i] # "error"}
    IN  [results |-> [i \in heard |-> verdict(i)],
         proposed |-> {{r.name : r \in ToSet(clusters[i])} : i \in {j \in heard : verdict(j) = "Extend"}}]

-----------------------------------------------------------------------------
(* Tokens of the language model.                                               *)

(* fetchOneToken, of an answer [reached, status, json, key].                   *)
FetchOneToken(answer) ==
    IF answer.reached /\ answer.status = 200 THEN answer.key ELSE ""

(* Mutant of GetToken: only the URL whose turn it is.                          *)
GetTokenOnce(idx, answers) ==
    [idx |-> (idx + 1) % Len(answers),
     url |-> IF FetchOneToken(answers[(idx % Len(answers)) + 1]) = "" THEN 0 ELSE (idx % Len(answers)) + 1]

(* urlTokenProvider.GetToken: from the next URL on, all of them.               *)
GetToken(idx, answers) ==
    LET n == Len(answers)
        turn == [i \in 1 .. n |-> ((idx + i - 1) % n) + 1]
        good == Among(turn, {u \in 1 .. n : FetchOneToken(answers[u]) # ""})
    IN  [idx |-> (idx + 1) % n, url |-> IF good = <<>> THEN 0 ELSE Head(good)]

(* googleSAProvider.GetToken: a token is reused until `early` before its end.  *)
ReuseToken(cache, now, early) == cache.token /\ now < cache.expires - early

(* resolveTokenProvider of BuildLLMClient.                                     *)
ResolveTokenProvider(auth, urls, account) ==
    CASE auth = "google-sa" -> IF account THEN "google-sa" ELSE "error"
      [] auth = "url" -> IF urls THEN "url" ELSE "error"
      [] auth = "static-key" -> "static"
      [] OTHER -> IF urls THEN "url" ELSE "static"

(* Complete: the answer to a completion.                                       *)
Complete(token, status) ==
    CASE ~token -> "auth error"
      [] token /\ status \in {401, 403} -> "auth error"
      [] token /\ status = 200 -> "text"
      [] OTHER -> "error"

-----------------------------------------------------------------------------
(* Ontologies.  A file has entities (role to [isa, props, required]), edges    *)
(* (name to a set of pairs), suppressed names and the groups it covers.        *)

(* mergeInheritedProps: along the is_a chain, the core's definition of a name  *)
(* before the domain's, no role twice; the most specific property wins.  name  *)
(* is the chain of roles, as far as it could go.                               *)
MergeInheritedProps(def, role, core, domain) ==
    LET defined == DOMAIN core \cup DOMAIN domain
        look(r) == IF r \in DOMAIN core THEN core[r] ELSE domain[r]
        most == Cardinality(defined)
        name[i \in 0 .. most] ==
            IF i = 0 THEN role ELSE IF i = 1 THEN def.isa
            ELSE IF name[i - 1] \in defined THEN look(name[i - 1]).isa ELSE ""
        chain == {i \in 0 .. most : \A j \in 1 .. i :
                    name[j] \in defined /\ \A k \in 0 .. (j - 1) : name[k] # name[j]}
        at(i) == IF i = 0 THEN def ELSE look(name[i])
        nearest(p) == CHOOSE i \in chain : p \in DOMAIN at(i).props /\ \A o \in chain : p \in DOMAIN at(o).props => i <= o
    IN  [isa |-> def.isa, required |-> def.required,
         props |-> [p \in UNION {DOMAIN at(i).props : i \in chain} |-> at(nearest(p)).props[p]]]

(* Mutant of Compose: what is suppressed is there all the same.                *)
ComposeAll(core, domains, group) == [entities |-> core.entities, edges |-> core.edges]

(* compose: the last domain that covers the group.                             *)
Compose(core, domains, group) ==
    LET covers == Among(domains, {d \in ToSet(domains) : group \in d.groups})
        none == [entities |-> <<>>, edges |-> <<>>, suppressed |-> {}, groups |-> {}]
        domain == IF covers = <<>> THEN none ELSE Last(covers)
        off == core.suppressed \cup domain.suppressed
        roles == (DOMAIN core.entities \cup DOMAIN domain.entities) \ off
        edges == (DOMAIN core.edges \cup DOMAIN domain.edges) \ off
        pairs(file, e) == IF e \in DOMAIN file.edges THEN file.edges[e] ELSE {}
    IN  [entities |-> [r \in roles |->
            IF r \in DOMAIN domain.entities
            THEN MergeInheritedProps(domain.entities[r], r, core.entities, domain.entities)
            ELSE core.entities[r]],
         edges |-> [e \in edges |-> pairs(core, e) \cup pairs(domain, e)]]

(* Mutant of LoadFile: the cache is kept.                                      *)
LoadFileOnly(reg, file) == [reg EXCEPT !.domains = Append(@, file)]

(* Registry: Compose answers from a cache that loading a file empties.         *)
LoadFile(reg, file) == [reg EXCEPT !.domains = Append(@, file), !.cache = {}]
ComposeCached(reg, group) ==
    LET hits == {c \in reg.cache : c.group = group}
        answer == IF hits # {} THEN (CHOOSE c \in hits : TRUE).value
                  ELSE Compose(reg.core, reg.domains, group)
    IN  [value |-> answer,
         reg |-> [reg EXCEPT !.cache = @ \cup {[group |-> group, value |-> answer]}]]

(* GenerateSurrealDDL: a field for each property, whichever role came first.   *)
DDLFields(c) ==
    [p \in UNION {DOMAIN c.entities[r].props : r \in DOMAIN c.entities} |->
        {c.entities[r].props[p] : r \in {x \in DOMAIN c.entities : p \in DOMAIN c.entities[x].props}}]
DDLTables(c) == {e \in DOMAIN c.edges : c.edges[e] # {}}

(* ValidateRecord against JSONSchemaForRole: a record is a function from its   *)
(* fields to their types; a role without schema allows anything.               *)
ValidateRecord(c, role, record) ==
    \/ role \notin DOMAIN c.entities
    \/ LET def == c.entities[role]
           fits(p) == p \in DOMAIN def.props => record[p] = def.props[p]
       IN  def.required \subseteq DOMAIN record /\ \A p \in DOMAIN record : fits(p)

(* Mutant of IngestObservation: an unknown role is stored as any other.        *)
IngestUnchecked(c, role) == IF ValidateRecord(c, role, <<>>) THEN "entity" ELSE "staging"

(* ingestObservation: where an observation of a role goes.                     *)
IngestObservation(c, role) ==
    LET record == [p \in {"role", "name", "description"} |-> "string"]
    IN  IF role \in DOMAIN c.entities /\ ValidateRecord(c, role, record) THEN "entity" ELSE "staging"

-----------------------------------------------------------------------------
(* GroupByCanonical: the projects of a canonical group, "foo" and              *)
(* "vignoble-foo" being one; a project is [prefixed, name].                    *)
NormalizeGroupID(p) == p.name
GroupByCanonical(projects) ==
    [g \in {NormalizeGroupID(p) : p \in projects} |-> {p \in projects : NormalizeGroupID(p) = g}]
=============================================================================
