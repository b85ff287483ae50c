------------------------ MODULE MemoryPipelineProofs ------------------------
(* Proofs about MemoryPipeline for any set of entities, any number of          *)
(* observations, faults and restarts, and any limits of the two fetches: the   *)
(* cursors (NothingSkipped, LeftBehindForCause), the pages people wrote        *)
(* (PeoplesPages) and the curator's own (PagesAreSound); and about the rules   *)
(* of Decisions for the memory around it: recall, boot, roll-up, staging,      *)
(* tokens, ontologies (MemorySound).                                           *)
EXTENDS MemoryPipeline, DecisionsProofs

PassPc == {"idle", "cluster", "synthesise", "store", "write", "snapshot", "prune", "cursor"}
Roles == {Role[e] : e \in Entity}
Vec == {Topic[e] : e \in Entity} \cup {None}
PassRec == [pc : PassPc, fetched : SUBSET Entity, todo : SUBSET Entity,
            cluster : SUBSET Entity, path : Path \cup {<<>>}, vec : Vec,
            blocked : BOOLEAN, written : SUBSET Path, shown : SUBSET Path,
            began : Nat, cut : SUBSET Entity, hidden : SUBSET Entity, wiped : BOOLEAN]
IngestRec == [pc : {"idle", "ingest"}, last : Nat, next : Nat \ {0}, upTo : Nat]
HistRec == [tried : SUBSET Nat, handled : [Entity -> Nat]]
BudgetRec == [faults : Nat, refusals : Nat, restarts : Nat, resets : Nat]

Shape ==
    /\ log \in Seq(Entity) /\ icur \in Nat /\ ing \in IngestRec
    /\ clock \in Nat /\ at \in [Entity -> Nat] /\ ccur \in Nat
    /\ docs \in [Path -> Doc \cup {NoDoc}]
    /\ files \in [Path -> {"none", "page", "human"}]
    /\ pass \in PassRec /\ llm \in BOOLEAN
    /\ hist \in HistRec /\ budget \in BudgetRec

(* The cluster at hand is not empty and, once chosen, its page is a page.      *)
AtHand ==
    /\ pass.pc \in {"synthesise", "store"} => pass.cluster # {}
    /\ pass.pc \in {"store", "write"} => pass.path \in Path

(* No cursor or time is ahead of what it counts.                               *)
Bounds ==
    /\ icur <= Len(log) /\ ing.upTo <= Len(log)
    /\ ccur <= clock /\ pass.began <= clock
    /\ \A e \in Entity : at[e] <= clock /\ hist.handled[e] <= clock
    /\ \A k \in hist.tried : 1 <= k /\ k <= Len(log)

TypeInv == Shape /\ AtHand /\ Bounds

-----------------------------------------------------------------------------
(* Lemmas about the helpers.                                                   *)

(* First picks the least.                                                     *)
LEMMA FirstMember ==
    ASSUME NEW S \in SUBSET Entity, S # {}
    PROVE  First(S) \in S
<1>1. \E e \in S : \A f \in S : e <= f
  BY EntityAssumption, LeastMember
<1> QED
  BY <1>1 DEF First

(* Use only counts one field of the budget up.                                 *)
LEMMA UseType ==
    ASSUME budget \in BudgetRec, NEW what \in {"faults", "refusals", "restarts", "resets"},
           Use(what)
    PROVE  /\ budget' \in BudgetRec
           /\ what # "restarts" => budget'.restarts = budget.restarts
           /\ what = "restarts" => budget'.restarts # budget.restarts
BY DEF Use, BudgetRec

LEMMA CallFailsType ==
    ASSUME budget \in BudgetRec, CallFails
    PROVE  budget' \in BudgetRec /\ budget'.restarts = budget.restarts
BY UseType DEF CallFails

(* A written entity is newer than everything else.                             *)
LEMMA UpsertType ==
    ASSUME clock \in Nat, at \in [Entity -> Nat], \A e \in Entity : at[e] <= clock,
           NEW e \in Entity, Upsert(e)
    PROVE  /\ clock' = clock + 1 /\ at' \in [Entity -> Nat] /\ at'[e] = clock'
           /\ \A f \in Entity : f # e => at'[f] = at[f]
           /\ \A f \in Entity : at'[f] <= clock'
BY DEF Upsert

(* A batch ends after its cursor and within the log.                           *)
LEMMA LastOfBatchBounds ==
    ASSUME log \in Seq(Entity), NEW last \in Nat, last < Len(log)
    PROVE  /\ LastOfBatch(last) \in Nat
           /\ last < LastOfBatch(last) /\ LastOfBatch(last) <= Len(log)
<1>1. Len(log) \in Nat
  OBVIOUS
<1> QED
  BY <1>1, SizeAssumption DEF LastOfBatch

(* Paths of roles and titles are paths; documents of pages are documents.      *)
LEMMA RolePathType ==
    ASSUME NEW e \in Entity, NEW s \in Slug
    PROVE  RolePath(Role[e], s) \in Path
BY DEF Path

(* ClusterDone and Skip leave no page at hand.                                 *)
LEMMA ClusterDoneType ==
    ASSUME pass \in PassRec
    PROVE  /\ ClusterDone \in PassRec
           /\ ClusterDone.began = pass.began /\ ClusterDone.pc = "cluster"
           /\ ClusterDone.todo = pass.todo /\ ClusterDone.hidden = pass.hidden
           /\ ClusterDone.cut = pass.cut /\ ClusterDone.blocked = pass.blocked
           /\ ClusterDone.wiped = pass.wiped
BY DEF ClusterDone, PassRec, PassPc, Vec

LEMMA SkipType ==
    ASSUME pass \in PassRec, Skip
    PROVE  /\ pass' \in PassRec /\ pass'.pc = "cluster" /\ pass'.cluster = {}
           /\ pass'.began = pass.began /\ pass'.todo = pass.todo
           /\ pass'.hidden = pass.hidden \cup pass.cluster
           /\ pass'.cut = pass.cut /\ pass'.blocked = pass.blocked
           /\ pass'.wiped = pass.wiped
BY DEF Skip, ClusterDone, PassRec, PassPc, Vec

LEMMA RefusedType ==
    ASSUME pass \in PassRec, Refused
    PROVE  /\ pass' \in PassRec /\ pass'.pc = "cluster" /\ pass'.cluster = {}
           /\ pass'.began = pass.began /\ pass'.blocked
BY DEF Refused, ClusterDone, PassRec, PassPc, Vec

LEMMA GotoType ==
    ASSUME pass \in PassRec, NEW pc \in PassPc, Goto(pc)
    PROVE  /\ pass' \in PassRec /\ pass'.pc = pc
           /\ pass'.began = pass.began /\ pass'.path = pass.path
           /\ pass'.cluster = pass.cluster /\ pass'.todo = pass.todo
           /\ pass'.hidden = pass.hidden /\ pass'.cut = pass.cut
           /\ pass'.blocked = pass.blocked /\ pass'.wiped = pass.wiped
           /\ pass'.fetched = pass.fetched
BY DEF Goto, PassRec

LEMMA IdlePassType == IdlePass \in PassRec /\ IdlePass.pc = "idle" /\ IdlePass.began = 0
BY DEF IdlePass, PassRec, PassPc, Vec

LEMMA IdleIngestType == IdleIngest \in IngestRec
BY DEF IdleIngest, IngestRec

(* FetchSince takes a part of the changed entities and leaves the rest to cut. *)
LEMMA FetchSinceType ==
    ASSUME pass \in PassRec, clock \in Nat, llm \in BOOLEAN, NEW since, FetchSince(since)
    PROVE  /\ pass' \in PassRec /\ pass'.began = clock /\ pass'.cluster = {}
           /\ pass'.pc \in {"cluster", "snapshot"} /\ ~pass'.wiped
           /\ pass'.pc = "snapshot" => pass'.todo = {}
           /\ \A e \in Entity : at[e] > since =>
                  e \in pass'.todo \cup pass'.cut \/ pass'.blocked
<1> DEFINE changed == Changed(since)
           got == Oldest(changed)
<1>1. got \in SUBSET Entity /\ changed \in SUBSET Entity /\ got \subseteq changed
  BY DEF Changed, Oldest
<1>2. \A e \in Entity : at[e] > since => e \in got \cup (changed \ got)
  BY DEF Changed
<1> HIDE DEF changed, got
<1>3. pass' = [IdlePass EXCEPT
           !.fetched = got, !.began = clock, !.cut = changed \ got,
           !.todo = IF llm THEN got ELSE {},
           !.blocked = ~llm /\ got # {},
           !.pc = IF llm /\ got # {} THEN "cluster" ELSE "snapshot"]
  BY DEF FetchSince, changed, got
<1>4. pass' \in PassRec
  <2>1. pass' = [pc |-> IF llm /\ got # {} THEN "cluster" ELSE "snapshot",
                 fetched |-> got, todo |-> IF llm THEN got ELSE {}, cluster |-> {},
                 path |-> <<>>, vec |-> None, blocked |-> ~llm /\ got # {},
                 written |-> {}, shown |-> {}, began |-> clock, cut |-> changed \ got,
                 hidden |-> {}, wiped |-> FALSE]
    BY <1>3 DEF IdlePass
  <2> QED
    BY <1>1, <2>1 DEF PassRec, PassPc, Vec
<1>5. /\ pass'.began = clock /\ pass'.cluster = {} /\ pass'.cut = changed \ got
      /\ pass'.todo = (IF llm THEN got ELSE {})
      /\ pass'.blocked = (~llm /\ got # {})
      /\ pass'.pc = (IF llm /\ got # {} THEN "cluster" ELSE "snapshot")
      /\ pass'.wiped = FALSE
  BY <1>3 DEF IdlePass
<1> QED
  BY <1>2, <1>4, <1>5

-----------------------------------------------------------------------------
(* Type correctness.                                                           *)

LEMMA InitType == Init => TypeInv
<1> SUFFICES ASSUME Init PROVE TypeInv
  OBVIOUS
<1>1. /\ log \in Seq(Entity) /\ Len(log) = 0
  BY DEF Init
<1>2. files \in [Path -> {"none", "page", "human"}]
  BY DEF Init
<1>3. Shape
  BY <1>1, <1>2, IdlePassType, IdleIngestType DEF Init, Shape, HistRec, BudgetRec
<1> QED
  BY <1>1, <1>3, IdlePassType DEF Init, TypeInv, AtHand, Bounds, IdleIngest

(* The ingester.                                                               *)
LEMMA IngestType ==
    ASSUME TypeInv, IngestStep
    PROVE  TypeInv'
<1> USE DEF TypeInv
<1>1. CASE Fetch
  <2>1. PICK last \in {0, icur} : FetchAfter(last)
    BY <1>1 DEF Fetch
  <2>2. last \in Nat /\ last < Len(log)
    BY <2>1 DEF Shape, FetchAfter
  <2>3. /\ ing' \in IngestRec /\ ing'.upTo <= Len(log)
    BY <2>1, <2>2, LastOfBatchBounds DEF FetchAfter, IngestRec, Shape
  <2>4. budget' \in BudgetRec
    BY <1>1, CallFailsType DEF Fetch, Shape
  <2> QED
    BY <1>1, <2>3, <2>4 DEF Fetch, Shape, AtHand, Bounds, curateVars
<1>2. CASE IngestOne
  <2>1. Len(log) \in Nat /\ ing.next \in 1 .. Len(log) /\ log[ing.next] \in Entity
    BY <1>2 DEF IngestOne, Shape, Bounds, IngestRec
  <2>2. /\ clock' \in Nat /\ at' \in [Entity -> Nat] /\ clock <= clock'
        /\ \A e \in Entity : at'[e] <= clock'
    <3>1. CASE Upsert(log[ing.next])
      BY <2>1, <3>1, UpsertType, SMTT(20) DEF Shape, Bounds
    <3>2. CASE UNCHANGED <<clock, at>>
      BY <3>2 DEF Shape, Bounds
    <3> QED
      BY <1>2, <3>1, <3>2 DEF IngestOne
  <2>3. budget' \in BudgetRec
    <3>1. CallFails \/ UNCHANGED budget
      BY <1>2 DEF IngestOne
    <3> QED
      BY <3>1, CallFailsType DEF Shape
  <2>10. /\ ing' = [ing EXCEPT !.next = @ + 1]
        /\ hist' = [hist EXCEPT !.tried = @ \cup {ing.next}]
        /\ UNCHANGED <<log, icur, docs, files, ccur, pass, llm>>
    BY <1>2 DEF IngestOne, curateVars
  <2>4. ing' \in IngestRec /\ ing'.upTo = ing.upTo
    <3>1. ing \in IngestRec
      BY DEF Shape
    <3>2. ing.next + 1 \in Nat \ {0}
      BY <3>1 DEF IngestRec
    <3> QED
      BY <2>10, <3>1, <3>2 DEF IngestRec
  <2>5. /\ hist' \in HistRec /\ hist'.handled = hist.handled
        /\ hist'.tried = hist.tried \cup {ing.next}
    <3>1. hist \in HistRec /\ ing.next \in Nat
      BY <2>1 DEF Shape
    <3> QED
      BY <2>10, <3>1 DEF HistRec
  <2>6. Shape' /\ AtHand'
    BY <2>10, <2>2, <2>3, <2>4, <2>5 DEF Shape, AtHand
  <2>7. \A e \in Entity : at'[e] <= clock' /\ hist'.handled[e] <= clock'
    BY <2>2, <2>5 DEF Shape, Bounds, HistRec
  <2>8. \A k \in hist'.tried : 1 <= k /\ k <= Len(log)
    BY <2>1, <2>5 DEF Bounds
  <2>9. Bounds'
    BY <2>10, <2>2, <2>4, <2>7, <2>8 DEF Shape, Bounds, PassRec
  <2> QED
    BY <2>6, <2>9
<1>3. CASE SaveIngestCursor
  <2>1. icur' \in Nat /\ icur' <= Len(log) /\ budget' \in BudgetRec
    BY <1>3, CallFailsType DEF SaveIngestCursor, Shape, Bounds, IngestRec
  <2>2. ing' \in IngestRec /\ ing'.upTo <= Len(log)
    BY <1>3, IdleIngestType DEF SaveIngestCursor, IdleIngest, Shape
  <2> QED
    BY <1>3, <2>1, <2>2 DEF SaveIngestCursor, Shape, AtHand, Bounds, curateVars
<1> QED
  BY <1>1, <1>2, <1>3 DEF IngestStep

(* The curator: what each step has to establish.                               *)
LEMMA CurateFrame ==
    ASSUME TypeInv, UNCHANGED <<ingestVars, clock, at>>, llm' \in BOOLEAN,
           docs' \in [Path -> Doc \cup {NoDoc}],
           files' \in [Path -> {"none", "page", "human"}],
           ccur' \in Nat, ccur' <= clock,
           pass' \in PassRec, pass'.began <= clock, AtHand',
           hist' \in HistRec, hist'.tried = hist.tried,
           \A e \in Entity : hist'.handled[e] <= clock,
           budget' \in BudgetRec
    PROVE  TypeInv'
BY DEF TypeInv, Shape, Bounds, ingestVars

(* Steps that only change pass and budget.                                     *)
LEMMA PassFrame ==
    ASSUME TypeInv, UNCHANGED <<ingestVars, clock, at, docs, files, ccur, llm, hist>>,
           pass' \in PassRec, pass'.began <= clock, AtHand', budget' \in BudgetRec
    PROVE  TypeInv'
<1>1. /\ docs' \in [Path -> Doc \cup {NoDoc}] /\ llm' \in BOOLEAN
      /\ files' \in [Path -> {"none", "page", "human"}]
      /\ ccur' \in Nat /\ ccur' <= clock
      /\ hist' \in HistRec /\ hist'.tried = hist.tried
      /\ \A e \in Entity : hist'.handled[e] <= clock
  BY DEF TypeInv, Shape, Bounds
<1> QED
  BY <1>1, CurateFrame

(* Asking the LLM about a cluster.                                             *)
LEMMA AskType ==
    ASSUME TypeInv, LLMRefuses \/ ScaffoldTitle \/ Synthesise
    PROVE  TypeInv'
<1>1. /\ UNCHANGED <<ingestVars, clock, at, docs, files, ccur, llm, hist>>
      /\ pass.pc = "synthesise"
  BY DEF LLMRefuses, ScaffoldTitle, Synthesise, At
<1>2. pass \in PassRec /\ pass.began <= clock /\ pass.cluster # {} /\ budget \in BudgetRec
  BY <1>1 DEF TypeInv, Shape, Bounds, AtHand
<1>3. CASE Refused \/ Skip
  <2>1. pass' \in PassRec /\ pass'.pc = "cluster" /\ pass'.began = pass.began
    BY <1>2, <1>3, SkipType, RefusedType
  <2>2. budget' \in BudgetRec
    <3>1. Use("refusals") \/ CallFails \/ UNCHANGED budget
      BY DEF LLMRefuses, ScaffoldTitle, Synthesise
    <3> QED
      BY <1>2, <3>1, UseType, CallFailsType
  <2> QED
    BY <1>1, <1>2, <2>1, <2>2, PassFrame DEF AtHand
<1>4. CASE Synthesise
  <2>1. Primary \in Entity
    BY <1>2, FirstMember DEF Primary, PassRec
  <2>2. PICK s \in Slug, vec \in {Topic[Primary], None} :
           \/ Skip
           \/ \E q \in Path : Target(q, vec)
    <3>1. PICK s \in Slug, vec \in {Topic[Primary], None}, answered \in BOOLEAN :
             LET p == RolePath(Role[Primary], s)
                 ok == answered /\ vec # None
                 near == IF ok THEN Similar(vec, p) ELSE {}
             IN IF files[p] = "human" THEN Skip
                ELSE \E q \in (IF near = {} THEN {p} ELSE near) : Target(q, vec)
      BY <1>4 DEF Synthesise
    <3>2. RolePath(Role[Primary], s) \in Path
      BY <2>1, RolePathType
    <3>3. Similar(vec, RolePath(Role[Primary], s)) \subseteq Path
      BY DEF Similar
    <3> QED
      BY <3>1, <3>2, <3>3
  <2>3. vec \in Vec
    BY <2>1 DEF Vec
  <2>4. ASSUME NEW q \in Path, Target(q, vec), ~Skip
        PROVE  TypeInv'
    <3>1. pass' = [pass EXCEPT !.path = q, !.vec = vec, !.pc = "store"]
      BY <2>4 DEF Target
    <3>2. /\ pass' \in PassRec /\ pass'.path \in Path /\ pass'.began = pass.began
          /\ pass'.cluster = pass.cluster
      BY <1>2, <2>3, <3>1 DEF PassRec, PassPc
    <3>3. budget' \in BudgetRec
      <4>1. CallFails \/ UNCHANGED budget
        BY <1>4 DEF Synthesise
      <4> QED
        BY <1>2, <4>1, CallFailsType
    <3> QED
      BY <1>1, <1>2, <3>2, <3>3, PassFrame DEF AtHand
  <2> QED
    BY <1>3, <2>2, <2>4
<1> QED
  BY <1>3, <1>4 DEF LLMRefuses, ScaffoldTitle

(* The fetch and the walk over the clusters.                                   *)
LEMMA FetchType ==
    ASSUME TypeInv, FetchEntities \/ NextCluster
    PROVE  TypeInv'
<1>1. UNCHANGED <<ingestVars, clock, at, docs, files, ccur, llm, hist>>
  BY DEF FetchEntities, NextCluster
<1>2. pass \in PassRec /\ pass.began <= clock /\ budget \in BudgetRec /\ clock \in Nat
      /\ llm \in BOOLEAN
  BY DEF TypeInv, Shape, Bounds
<1>3. CASE FetchEntities
  <2>1. budget' \in BudgetRec
    BY <1>2, <1>3, CallFailsType DEF FetchEntities
  <2>2. \E since : FetchSince(since)
    BY <1>3 DEF FetchEntities
  <2>3. /\ pass' \in PassRec /\ pass'.began = clock
        /\ pass'.pc \in {"cluster", "snapshot"}
    BY <1>2, <2>2, FetchSinceType
  <2> QED
    BY <1>1, <1>2, <2>1, <2>3, PassFrame DEF AtHand
<1>4. CASE NextCluster /\ pass.todo = {}
  <2>1. Goto("snapshot") /\ UNCHANGED budget
    BY <1>4 DEF NextCluster
  <2>2. pass' \in PassRec /\ pass'.pc = "snapshot" /\ pass'.began = pass.began
    BY <1>2, <2>1, GotoType DEF PassPc
  <2> QED
    BY <1>1, <1>2, <2>1, <2>2, PassFrame DEF AtHand
<1>5. CASE NextCluster /\ pass.todo # {}
  <2> DEFINE e == First(pass.todo)
             cl == {f \in pass.todo : Topic[f] = Topic[e]}
  <2>1. e \in pass.todo /\ e \in cl /\ cl \in SUBSET Entity
    BY <1>2, <1>5, FirstMember DEF PassRec
  <2>2. /\ UNCHANGED budget
        /\ \/ pass' = [pass EXCEPT !.todo = @ \ cl, !.hidden = @ \cup cl]
           \/ pass' = [pass EXCEPT !.todo = @ \ cl, !.cluster = cl, !.pc = "synthesise"]
        /\ pass.pc = "cluster"
    BY <1>5 DEF NextCluster, At
  <2> HIDE DEF e, cl
  <2>3. /\ pass' \in PassRec /\ pass'.began = pass.began
        /\ \/ pass'.pc = "cluster"
           \/ pass'.pc = "synthesise" /\ pass'.cluster = cl
    <3>1. CASE pass' = [pass EXCEPT !.todo = @ \ cl, !.hidden = @ \cup cl]
      BY <1>2, <2>1, <2>2, <3>1 DEF PassRec
    <3>2. CASE pass' = [pass EXCEPT !.todo = @ \ cl, !.cluster = cl, !.pc = "synthesise"]
      BY <1>2, <2>1, <3>2 DEF PassRec, PassPc
    <3> QED
      BY <2>2, <3>1, <3>2
  <2> QED
    BY <1>1, <1>2, <2>1, <2>2, <2>3, PassFrame DEF AtHand
<1> QED
  BY <1>3, <1>4, <1>5

(* The database and the disk.                                                  *)
LEMMA StoreType ==
    ASSUME TypeInv, StorePage
    PROVE  TypeInv'
<1>1. /\ UNCHANGED <<ingestVars, clock, at, files, ccur, llm>>
      /\ pass.pc = "store"
  BY DEF StorePage, At
<1>2. /\ pass \in PassRec /\ pass.began <= clock /\ budget \in BudgetRec
      /\ pass.cluster # {} /\ pass.path \in Path /\ hist \in HistRec
      /\ docs \in [Path -> Doc \cup {NoDoc}] /\ pass.began \in Nat
      /\ \A e \in Entity : hist.handled[e] <= clock
  BY <1>1 DEF TypeInv, Shape, Bounds, AtHand, PassRec
<1>3. /\ files' \in [Path -> {"none", "page", "human"}] /\ llm' \in BOOLEAN
      /\ ccur' \in Nat /\ ccur' <= clock
  BY <1>1 DEF TypeInv, Shape, Bounds
<1>4. CASE CallFails /\ UNCHANGED <<docs, hist>>
           /\ pass' = [pass EXCEPT !.hidden = @ \cup pass.cluster, !.pc = "write"]
  <2>1. /\ pass' \in PassRec /\ pass'.began = pass.began /\ pass'.path = pass.path
        /\ pass'.pc = "write"
    BY <1>2, <1>4 DEF PassRec, PassPc
  <2> QED
    BY <1>1, <1>2, <1>3, <1>4, <2>1, CallFailsType, CurateFrame DEF AtHand
<1>5. CASE UNCHANGED budget /\ Goto("write")
           /\ docs' = [docs EXCEPT ![pass.path] =
                    [kind |-> "page", type |-> Role[Primary], auto |-> Serveable,
                     vec |-> IF pass.vec = None /\ @.kind = "page" THEN @.vec ELSE pass.vec]]
           /\ hist' = [hist EXCEPT !.handled =
                    [e \in Entity |-> IF e \in pass.cluster THEN pass.began ELSE @[e]]]
  <2>1. /\ pass' \in PassRec /\ pass'.began = pass.began /\ pass'.path = pass.path
        /\ pass'.pc = "write"
    BY <1>2, <1>5, GotoType DEF PassPc
  <2>2. /\ hist' \in HistRec /\ hist'.tried = hist.tried
        /\ \A e \in Entity : hist'.handled[e] <= clock
    BY <1>2, <1>5 DEF HistRec
  <2> DEFINE old == docs[pass.path]
             vec == IF pass.vec = None /\ old.kind = "page" THEN old.vec ELSE pass.vec
             new == [kind |-> "page", type |-> Role[Primary], auto |-> Serveable, vec |-> vec]
  <2>3. Primary \in Entity
    BY <1>2, FirstMember DEF Primary, PassRec
  <2>4. old \in Doc \cup {NoDoc} /\ pass.vec \in Vec
    BY <1>2 DEF PassRec
  <2>5. vec \in Vec
    BY <2>4 DEF Doc, NoDoc, Vec
  <2>6. Serveable \in BOOLEAN
    BY DEF Serveable
  <2>7. docs' = [docs EXCEPT ![pass.path] = new]
    BY <1>5
  <2> HIDE DEF old, vec
  <2>8. new \in Doc
    BY <2>3, <2>5, <2>6 DEF Doc, Vec
  <2> HIDE DEF new
  <2>9. docs' \in [Path -> Doc \cup {NoDoc}]
    BY <1>2, <2>7, <2>8
  <2> QED
    BY <1>1, <1>2, <1>3, <1>5, <2>1, <2>2, <2>9, CurateFrame DEF AtHand
<1> QED
  BY <1>4, <1>5 DEF StorePage

(* The page file, the snapshot and the pruning.                                *)
LEMMA FilesType ==
    ASSUME TypeInv, WritePage \/ Snapshot \/ SnapshotFails \/ Prune
    PROVE  TypeInv'
<1>1. UNCHANGED <<ingestVars, clock, at, docs, ccur, llm, hist>>
  BY DEF WritePage, Snapshot, SnapshotFails, Prune
<1>2. /\ pass \in PassRec /\ pass.began <= clock /\ budget \in BudgetRec
      /\ files \in [Path -> {"none", "page", "human"}] /\ clock \in Nat
  BY DEF TypeInv, Shape, Bounds
<1>3. /\ docs' \in [Path -> Doc \cup {NoDoc}] /\ llm' \in BOOLEAN
      /\ ccur' \in Nat /\ ccur' <= clock
      /\ hist' \in HistRec /\ hist'.tried = hist.tried
      /\ \A e \in Entity : hist'.handled[e] <= clock
  BY <1>1 DEF TypeInv, Shape, Bounds
<1>4. budget' \in BudgetRec
  <2>1. CallFails \/ UNCHANGED budget
    BY DEF WritePage, Snapshot, SnapshotFails, Prune
  <2> QED
    BY <1>2, <2>1, CallFailsType
<1>5. files' \in [Path -> {"none", "page", "human"}]
  <2>1. \/ UNCHANGED files
        \/ files' = [files EXCEPT ![pass.path] = "page"]
        \/ \E S \in SUBSET Path : files' = [p \in Path |-> IF p \in S THEN "page" ELSE files[p]]
        \/ files' = [p \in Path |->
              IF files[p] = "page" /\ p \notin pass.written \cup pass.shown
              THEN "none" ELSE files[p]]
    BY DEF WritePage, Snapshot, SnapshotFails, Prune, ToShow
  <2> QED
    BY <1>2, <2>1, SMTT(20)
<1>6. pass' \in PassRec /\ pass'.began <= clock
      /\ pass'.pc \in {"idle", "cluster", "prune", "cursor"}
  <2>1. CASE WritePage
    <3>1. pass.path \in Path
      BY <2>1 DEF WritePage, At, TypeInv, AtHand
    <3>2. \/ pass' = [ClusterDone EXCEPT !.written = @ \cup {pass.path}]
          \/ pass' = ClusterDone
      BY <2>1 DEF WritePage
    <3> QED
      BY <1>2, <3>1, <3>2, ClusterDoneType DEF PassRec
  <2>2. CASE Snapshot
    <3>1. PICK S \in SUBSET Path : pass' = [pass EXCEPT !.shown = S, !.pc = "prune"]
      BY <2>2 DEF Snapshot, ToShow
    <3> QED
      BY <1>2, <3>1 DEF PassRec, PassPc
  <2>3. CASE SnapshotFails
    BY <1>2, <2>3, IdlePassType DEF SnapshotFails
  <2>4. CASE Prune
    BY <1>2, <2>4, GotoType DEF Prune, PassPc
  <2> QED
    BY <2>1, <2>2, <2>3, <2>4
<1> QED
  BY <1>1, <1>3, <1>4, <1>5, <1>6, CurateFrame DEF AtHand

(* The cursor, --recurate and the restarts of the curator.                     *)
LEMMA ResetType ==
    ASSUME TypeInv, SetCuratorCursor \/ DoRecurate \/ CuratorRestarts
    PROVE  TypeInv'
<1>1. UNCHANGED <<ingestVars, clock, at>>
  BY DEF SetCuratorCursor, DoRecurate, CuratorRestarts
<1>2. /\ pass \in PassRec /\ pass.began <= clock /\ budget \in BudgetRec /\ AtHand
      /\ files \in [Path -> {"none", "page", "human"}] /\ clock \in Nat
      /\ docs \in [Path -> Doc \cup {NoDoc}] /\ llm \in BOOLEAN
      /\ ccur \in Nat /\ ccur <= clock /\ hist \in HistRec
      /\ \A e \in Entity : hist.handled[e] <= clock
  BY DEF TypeInv, Shape, Bounds
<1>3. budget' \in BudgetRec
  <2>1. CallFails \/ Use("resets") \/ Use("restarts") \/ UNCHANGED budget
    BY DEF SetCuratorCursor, DoRecurate, CuratorRestarts
  <2> QED
    BY <1>2, <2>1, CallFailsType, UseType
<1>4. CASE SetCuratorCursor
  BY <1>1, <1>2, <1>3, <1>4, IdlePassType, CurateFrame DEF SetCuratorCursor, AtHand
<1>5. CASE DoRecurate
  <2>1. docs' \in [Path -> Doc \cup {NoDoc}] /\ ccur' = 0 /\ UNCHANGED <<files, llm>>
    BY <1>5 DEF DoRecurate
  <2>2. pass' \in PassRec /\ pass'.began <= clock /\ AtHand'
    <3>1. pass' = pass \/ pass' = [pass EXCEPT !.wiped = TRUE]
      BY <1>5 DEF DoRecurate
    <3> QED
      BY <1>2, <3>1 DEF PassRec, AtHand
  <2>3. hist' \in HistRec /\ hist'.tried = hist.tried
        /\ \A e \in Entity : hist'.handled[e] <= clock
    <3>1. hist' = [hist EXCEPT !.handled = [e \in Entity |-> 0]]
      BY <1>5 DEF DoRecurate
    <3> QED
      BY <1>2, <3>1 DEF HistRec
  <2> QED
    BY <1>1, <1>2, <1>3, <2>1, <2>2, <2>3, CurateFrame
<1>6. CASE CuratorRestarts
  BY <1>1, <1>2, <1>3, <1>6, IdlePassType, CurateFrame DEF CuratorRestarts, AtHand
<1> QED
  BY <1>4, <1>5, <1>6

(* The log, the ingester's cursor and restarts of the ingester and the pod.    *)
LEMMA EnvironmentType ==
    ASSUME TypeInv, Observe \/ DoReingest \/ IngesterRestarts \/ PodRestarts
    PROVE  TypeInv'
<1> USE DEF TypeInv
<1>1. CASE Observe
  <2>1. PICK e \in Entity : log' = Append(log, e)
    BY <1>1 DEF Observe
  <2>2. log' \in Seq(Entity) /\ Len(log') = Len(log) + 1 /\ Len(log) \in Nat
    BY <2>1 DEF Shape
  <2>3. /\ icur <= Len(log') /\ ing.upTo <= Len(log')
        /\ \A k \in hist.tried : 1 <= k /\ k <= Len(log')
    BY <2>2 DEF Shape, Bounds, IngestRec, HistRec
  <2> QED
    BY <1>1, <2>2, <2>3 DEF Observe, Shape, AtHand, Bounds, curateVars
<1>2. CASE DoReingest
  <2>1. budget' \in BudgetRec /\ icur' = 0 /\ Len(log) \in Nat
    BY <1>2, UseType DEF DoReingest, Shape
  <2> QED
    BY <1>2, <2>1 DEF DoReingest, Shape, AtHand, Bounds, curateVars
<1>3. CASE IngesterRestarts
  <2>1. budget' \in BudgetRec /\ ing' \in IngestRec /\ ing'.upTo = 0 /\ Len(log) \in Nat
    BY <1>3, UseType, IdleIngestType DEF IngesterRestarts, Shape, IdleIngest
  <2> QED
    BY <1>3, <2>1 DEF IngesterRestarts, Shape, AtHand, Bounds, curateVars
<1>4. CASE PodRestarts
  <2>1. budget' \in BudgetRec /\ ing' \in IngestRec /\ ing'.upTo = 0 /\ Len(log) \in Nat
    BY <1>4, UseType, IdleIngestType DEF PodRestarts, Shape, IdleIngest
  <2>2. files' \in [Path -> {"none", "page", "human"}]
    BY <1>4 DEF PodRestarts
  <2>3. pass' \in PassRec /\ pass'.began = 0 /\ pass'.pc = "idle" /\ llm' \in BOOLEAN
    BY <1>4, IdlePassType DEF PodRestarts
  <2> QED
    BY <1>4, <2>1, <2>2, <2>3 DEF PodRestarts, Shape, AtHand, Bounds
<1> QED
  BY <1>1, <1>2, <1>3, <1>4

LEMMA NextType == TypeInv /\ [Next]_vars => TypeInv'
<1> SUFFICES ASSUME TypeInv, [Next]_vars PROVE TypeInv'
  OBVIOUS
<1>1. CASE UNCHANGED vars
  BY <1>1 DEF vars, TypeInv, Shape, AtHand, Bounds
<1>2. CASE CurateStep
  BY <1>2, FetchType, AskType, StoreType, FilesType, ResetType DEF CurateStep
<1>3. CASE Environment
  BY <1>3, ResetType, EnvironmentType DEF Environment
<1> QED
  BY <1>1, <1>2, <1>3, IngestType DEF Next

(* Every value stays in its set, and no cursor is ahead of what it counts.     *)
LEMMA TypeInvariant == Spec => []TypeInv
<1> QED
  BY InitType, NextType, PTL DEF Spec

LEMMA TypeOKFollows == TypeInv => TypeOK
<1> SUFFICES ASSUME TypeInv PROVE TypeOK
  OBVIOUS
<1>1. Len(log) \in Nat /\ log \in Seq(Entity)
  BY DEF TypeInv, Shape
<1>2. /\ icur \in 0 .. Len(log) /\ ing.upTo \in 0 .. Len(log)
      /\ ing.pc \in {"idle", "ingest"}
  BY <1>1 DEF TypeInv, Shape, Bounds, IngestRec
<1>3. at \in [Entity -> 0 .. clock] /\ ccur \in 0 .. clock
  BY DEF TypeInv, Shape, Bounds
<1>4. hist.tried \subseteq 1 .. Len(log) /\ hist.handled \in [Entity -> 0 .. clock]
  BY <1>1 DEF TypeInv, Shape, Bounds, HistRec
<1>5. /\ pass.written \cup pass.shown \subseteq Path
      /\ pass.fetched \cup pass.hidden \cup pass.cluster \cup pass.cut \subseteq Entity
  BY DEF TypeInv, Shape, PassRec
<1> QED
  BY <1>1, <1>2, <1>3, <1>4, <1>5 DEF TypeOK, TypeInv, Shape

(* In every behaviour, whatever fails, every value has its type; in            *)
(* particular neither service's cursor is ever ahead of the log or the clock.  *)
THEOREM TypeCorrect == Spec => []TypeOK
<1> QED
  BY TypeInvariant, TypeOKFollows, PTL

-----------------------------------------------------------------------------
(* No observation is passed over.  Inductive: what a cycle has behind it, and  *)
(* what the cursor it read has behind it, were tried.                          *)

TriedInv ==
    /\ NoneSkipped
    /\ \A k \in 1 .. (ing.next - 1) : k \in hist.tried

LEMMA TriedStep == TypeInv /\ TriedInv /\ [Next]_vars => TriedInv'
<1> SUFFICES ASSUME TypeInv, TriedInv, [Next]_vars PROVE TriedInv'
  OBVIOUS
<1>1. /\ ing.next \in Nat \ {0} /\ ing.upTo \in Nat /\ icur \in Nat
      /\ ing \in IngestRec /\ hist \in HistRec /\ log \in Seq(Entity)
  BY DEF TypeInv, Shape, IngestRec
<1>2. ASSUME UNCHANGED <<icur, ing>>, hist'.tried = hist.tried PROVE TriedInv'
  BY <1>2 DEF TriedInv, NoneSkipped
<1>3. CASE Fetch
  <2>1. PICK last \in {0, icur} : FetchAfter(last)
    BY <1>3 DEF Fetch
  <2>2. ing'.next = last + 1 /\ icur' = icur /\ hist' = hist
    BY <1>3, <2>1 DEF Fetch, FetchAfter
  <2> QED
    BY <1>1, <2>1, <2>2 DEF TriedInv, NoneSkipped
<1>4. CASE IngestOne
  <2>1. /\ ing' = [ing EXCEPT !.next = @ + 1] /\ icur' = icur
        /\ hist' = [hist EXCEPT !.tried = @ \cup {ing.next}]
    BY <1>4 DEF IngestOne
  <2>2. ing'.next = ing.next + 1
    BY <1>1, <2>1 DEF IngestRec
  <2>3. hist'.tried = hist.tried \cup {ing.next}
    BY <1>1, <2>1 DEF HistRec
  <2> QED
    BY <1>1, <2>1, <2>2, <2>3 DEF TriedInv, NoneSkipped
<1>5. CASE SaveIngestCursor
  <2>1. /\ ing.next > ing.upTo /\ icur' \in {ing.upTo, icur}
        /\ ing' = IdleIngest /\ hist' = hist
    BY <1>5 DEF SaveIngestCursor
  <2>2. \A k \in 1 .. icur' : k \in hist.tried
    BY <1>1, <2>1 DEF TriedInv, NoneSkipped
  <2> QED
    BY <2>1, <2>2 DEF TriedInv, NoneSkipped, IdleIngest
<1>6. CASE CurateStep
  <2>1. hist'.tried = hist.tried
    <3>1. \/ UNCHANGED hist
          \/ hist' = [hist EXCEPT !.handled =
                    [e \in Entity |-> IF e \in pass.cluster THEN pass.began ELSE @[e]]]
      BY <1>6 DEF CurateStep, FetchEntities, NextCluster, LLMRefuses, ScaffoldTitle,
         Synthesise, StorePage, WritePage, Snapshot, SnapshotFails, Prune, SetCuratorCursor
    <3> QED
      BY <1>1, <3>1 DEF HistRec
  <2>2. UNCHANGED <<icur, ing>>
    BY <1>6 DEF CurateStep, FetchEntities, NextCluster, LLMRefuses, ScaffoldTitle,
       Synthesise, StorePage, WritePage, Snapshot, SnapshotFails, Prune,
       SetCuratorCursor, ingestVars
  <2> QED
    BY <1>2, <2>1, <2>2
<1>7. CASE DoReingest
  BY <1>7 DEF DoReingest, TriedInv, NoneSkipped
<1>8. CASE IngesterRestarts \/ PodRestarts
  BY <1>8 DEF IngesterRestarts, PodRestarts, IdleIngest, TriedInv, NoneSkipped
<1>9. CASE Observe \/ CuratorRestarts
  BY <1>2, <1>9 DEF Observe, CuratorRestarts, ingestVars
<1>10. CASE DoRecurate
  <2>1. hist'.tried = hist.tried
    BY <1>1, <1>10 DEF DoRecurate, HistRec
  <2> QED
    BY <1>2, <1>10, <2>1 DEF DoRecurate, ingestVars
<1>11. CASE UNCHANGED vars
  BY <1>2, <1>11 DEF vars
<1> QED
  BY <1>3, <1>4, <1>5, <1>6, <1>7, <1>8, <1>9, <1>10, <1>11
     DEF Next, IngestStep, Environment

(* For any batch size and any number of faults, resets and restarts: the       *)
(* ingest cursor never passes an observation the ingester has not tried.       *)
THEOREM NothingSkipped == Spec => []NoneSkipped
<1>1. Init => TriedInv
  BY DEF Init, IdleIngest, TriedInv, NoneSkipped
<1>2. TriedInv => NoneSkipped
  BY DEF TriedInv
<1> QED
  BY <1>1, <1>2, TypeInvariant, TriedStep, PTL DEF Spec

-----------------------------------------------------------------------------
(* The pages people wrote.  Inductive: the page at hand is not one of them.    *)

TargetInv == pass.pc \in {"store", "write"} => files[pass.path] # "human"

LEMMA TargetStep == TypeInv /\ TargetInv /\ [Next]_vars => TargetInv'
<1> SUFFICES ASSUME TypeInv, TargetInv, [Next]_vars PROVE TargetInv'
  OBVIOUS
<1>1. pass \in PassRec /\ clock \in Nat /\ llm \in BOOLEAN
  BY DEF TypeInv, Shape
<1>2. ASSUME pass'.pc \notin {"store", "write"} PROVE TargetInv'
  BY <1>2 DEF TargetInv
<1>3. ASSUME UNCHANGED files, pass'.path = pass.path,
             pass'.pc \in {"store", "write"} => pass.pc \in {"store", "write"}
      PROVE TargetInv'
  BY <1>3 DEF TargetInv
<1>4. CASE FetchEntities
  <2>1. \E since : FetchSince(since)
    BY <1>4 DEF FetchEntities
  <2> QED
    BY <1>1, <1>2, <2>1, FetchSinceType
<1>5. CASE NextCluster
  <2>1. pass.pc = "cluster"
    BY <1>5 DEF NextCluster, At
  <2>2. pass'.pc \in {"cluster", "snapshot", "synthesise"}
    BY <1>1, <1>5, <2>1 DEF NextCluster, Goto, PassRec
  <2> QED
    BY <1>2, <2>2
<1>6. CASE Skip \/ Refused
  BY <1>1, <1>2, <1>6, SkipType, RefusedType
<1>7. CASE Synthesise /\ ~Skip
  <2>1. PICK q, vec : Target(q, vec)
    BY <1>7 DEF Synthesise
  <2>2. /\ files[q] # "human" /\ UNCHANGED files
        /\ pass' = [pass EXCEPT !.path = q, !.vec = vec, !.pc = "store"]
    BY <1>7, <2>1 DEF Target, Synthesise
  <2>3. pass'.path = q
    BY <1>1, <2>2 DEF PassRec
  <2> QED
    BY <2>2, <2>3 DEF TargetInv
<1>8. CASE StorePage
  <2>1. UNCHANGED files /\ pass.pc = "store" /\ pass'.path = pass.path
    BY <1>1, <1>8 DEF StorePage, At, Goto, PassRec
  <2> QED
    BY <1>3, <2>1
<1>9. CASE WritePage
  <2>1. pass'.pc = "cluster"
    BY <1>1, <1>9, ClusterDoneType DEF WritePage, PassRec
  <2> QED
    BY <1>2, <2>1
<1>10. CASE Snapshot \/ Prune
  <2>1. pass'.pc \in {"prune", "cursor"}
    BY <1>1, <1>10 DEF Snapshot, Prune, Goto, PassRec
  <2> QED
    BY <1>2, <2>1
<1>11. CASE pass' = IdlePass
  BY <1>2, <1>11, IdlePassType
<1>12. CASE UNCHANGED files /\ (pass' = pass \/ pass' = [pass EXCEPT !.wiped = TRUE])
  BY <1>1, <1>3, <1>12 DEF PassRec
<1>13. CASE IngestStep
  BY <1>12, <1>13 DEF IngestStep, Fetch, IngestOne, SaveIngestCursor, curateVars
<1>14. CASE Environment
  BY <1>11, <1>12, <1>14 DEF Environment, Observe, DoReingest, DoRecurate,
     IngesterRestarts, CuratorRestarts, PodRestarts, curateVars
<1>15. CASE CurateStep
  BY <1>4, <1>5, <1>6, <1>7, <1>8, <1>9, <1>10, <1>11, <1>15
     DEF CurateStep, LLMRefuses, ScaffoldTitle, SnapshotFails, SetCuratorCursor
<1>16. CASE UNCHANGED vars
  BY <1>12, <1>16 DEF vars
<1> QED
  BY <1>13, <1>14, <1>15, <1>16 DEF Next

(* A step that takes a person's page from the clone is the start of a new pod. *)
LEMMA HumanStep ==
    ASSUME TypeInv, TargetInv, [Next]_vars, NEW p \in Path,
           files[p] = "human", files'[p] # "human"
    PROVE  budget'.restarts # budget.restarts
<1>1. /\ budget \in BudgetRec /\ AtHand
      /\ files \in [Path -> {"none", "page", "human"}]
  BY DEF TypeInv, Shape
<1>2. CASE PodRestarts
  BY <1>1, <1>2, UseType DEF PodRestarts
<1>3. CASE WritePage
  BY <1>1, <1>3 DEF WritePage, At, AtHand, TargetInv
<1>4. CASE Snapshot \/ Prune
  BY <1>1, <1>4 DEF Snapshot, Prune, ToShow
<1>5. CASE UNCHANGED files
  BY <1>5
<1> QED
  BY <1>2, <1>3, <1>4, <1>5 DEF Next, IngestStep, CurateStep, Environment, vars,
     Fetch, IngestOne, SaveIngestCursor, FetchEntities, NextCluster, LLMRefuses,
     ScaffoldTitle, Synthesise, StorePage, SnapshotFails, SetCuratorCursor, Observe,
     DoReingest, DoRecurate, IngesterRestarts, CuratorRestarts, curateVars

(* However the LLM titles a page, whatever the database finds similar to it    *)
(* and wherever a pass fails: the curator leaves the pages people wrote alone. *)
THEOREM PeoplesPages == Spec => HumanPagesKept
<1>1. Init => TargetInv
  BY DEF Init, IdlePass, TargetInv
<1>2. TypeInv /\ TargetInv /\ [Next]_vars =>
        [\A p \in Path : files[p] = "human" /\ files'[p] # "human" =>
            budget'.restarts # budget.restarts]_vars
  BY HumanStep
<1> QED
  BY <1>1, <1>2, TypeInvariant, TargetStep, PTL DEF Spec, HumanPagesKept

-----------------------------------------------------------------------------
(* No change is left behind without a cause.  Inductive: during a pass every   *)
(* change that was there at the fetch and is newer than the cursor is in a     *)
(* page, still to be worked off, or has a cause.                               *)

Pending == pass.todo \cup (IF pass.pc \in {"synthesise", "store"} THEN pass.cluster ELSE {})

Accounted(e) ==
    \/ hist.handled[e] >= at[e]
    \/ e \in Pending \cup pass.cut \cup pass.hidden
    \/ pass.blocked

AccountInv ==
    /\ pass.pc # "idle" => \A e \in Entity : hist.handled[e] <= pass.began
    /\ pass.pc # "idle" /\ ~pass.wiped =>
         \A e \in Entity : ccur < at[e] /\ at[e] <= pass.began => Accounted(e)
    /\ pass.pc \in {"snapshot", "prune", "cursor"} => pass.todo = {}

(* Steps that leave pass and the history alone and may write an entity.        *)
LEMMA AccountFrame ==
    ASSUME TypeInv, AccountInv, pass' = pass, hist'.handled = hist.handled, ccur' = ccur,
           \A e \in Entity : at'[e] = at[e] \/ (at'[e] \in Nat /\ at'[e] > clock)
    PROVE  AccountInv'
<1>1. /\ pass.began \in Nat /\ clock \in Nat /\ pass.began <= clock /\ ccur \in Nat
      /\ \A e \in Entity : at[e] \in Nat /\ hist.handled[e] \in Nat
  BY DEF TypeInv, Shape, Bounds, PassRec, HistRec
<1>2. Pending' = Pending
  BY DEF Pending
<1>3. ASSUME NEW e \in Entity, ccur' < at'[e], at'[e] <= pass'.began,
             pass'.pc # "idle", ~pass'.wiped
      PROVE  Accounted(e)'
  <2>1. at'[e] = at[e]
    BY <1>1, <1>3
  <2>2. Accounted(e)
    BY <1>3, <2>1 DEF AccountInv
  <2> QED
    BY <1>2, <2>1, <2>2 DEF Accounted
<1> QED
  BY <1>3 DEF AccountInv

(* Steps of a pass before its end: what leaves Pending is in a page or has a   *)
(* cause.                                                                      *)
LEMMA AccountPass ==
    ASSUME TypeInv, AccountInv, UNCHANGED <<at, ccur>>, pass.pc # "idle",
           pass'.began = pass.began, pass'.wiped = pass.wiped, pass'.cut = pass.cut,
           pass.hidden \subseteq pass'.hidden, pass.blocked => pass'.blocked,
           pass'.pc \in {"snapshot", "prune", "cursor"} => pass'.todo = {},
           \A e \in Entity : \/ hist'.handled[e] = hist.handled[e]
                             \/ hist'.handled[e] = pass.began,
           \A e \in Pending : \/ e \in Pending' \cup pass'.hidden
                              \/ hist'.handled[e] = pass.began
                              \/ pass'.blocked
    PROVE  AccountInv'
<1>1. /\ pass.began \in Nat /\ ccur \in Nat
      /\ \A e \in Entity : at[e] \in Nat /\ hist.handled[e] \in Nat
  BY DEF TypeInv, Shape, PassRec, HistRec
<1>2. \A e \in Entity : hist'.handled[e] <= pass'.began /\ hist'.handled[e] \in Nat
                        /\ hist.handled[e] <= hist'.handled[e]
  BY <1>1 DEF AccountInv
<1>3. ASSUME NEW e \in Entity, ccur' < at'[e], at'[e] <= pass'.began,
             ~pass'.wiped
      PROVE  Accounted(e)'
  <2>1. Accounted(e) /\ at'[e] = at[e] /\ at[e] <= pass.began
    BY <1>3 DEF AccountInv
  <2>2. CASE hist.handled[e] >= at[e]
    BY <1>1, <1>2, <2>1, <2>2 DEF Accounted
  <2>3. CASE e \in Pending
    BY <1>1, <1>2, <2>1, <2>3 DEF Accounted
  <2>4. CASE e \in pass.cut \cup pass.hidden \/ pass.blocked
    BY <2>4 DEF Accounted
  <2> QED
    BY <2>1, <2>2, <2>3, <2>4 DEF Accounted
<1> QED
  BY <1>2, <1>3 DEF AccountInv

(* The steps of the pass.                                                      *)
LEMMA AccountCurate ==
    ASSUME TypeInv, AccountInv, CurateStep
    PROVE  AccountInv'
<1>1. /\ pass \in PassRec /\ clock \in Nat /\ llm \in BOOLEAN /\ hist \in HistRec
      /\ ccur \in Nat /\ at \in [Entity -> Nat]
      /\ \A e \in Entity : hist.handled[e] <= clock
  BY DEF TypeInv, Shape, Bounds
<1>2. ASSUME pass' = IdlePass PROVE AccountInv'
  BY <1>2, IdlePassType DEF AccountInv
<1>3. CASE FetchEntities
  <2>1. PICK since \in {0, ccur} : FetchSince(since)
    BY <1>3 DEF FetchEntities
  <2>2. /\ pass'.began = clock /\ pass'.pc \in {"cluster", "snapshot"}
        /\ pass'.pc = "snapshot" => pass'.todo = {}
        /\ \A e \in Entity : at[e] > since =>
               e \in pass'.todo \cup pass'.cut \/ pass'.blocked
    BY <1>1, <2>1, FetchSinceType
  <2>3. UNCHANGED <<at, ccur, hist>>
    BY <1>3 DEF FetchEntities
  <2>4. \A e \in Entity : ccur < at[e] => at[e] > since
    BY <1>1, <2>1
  <2>5. \A e \in Entity : ccur' < at'[e] => Accounted(e)'
    BY <2>2, <2>3, <2>4 DEF Accounted, Pending
  <2> QED
    BY <1>1, <2>2, <2>3, <2>5 DEF AccountInv
<1>4. CASE NextCluster /\ pass.todo = {}
  <2>1. /\ pass.pc = "cluster" /\ UNCHANGED <<at, ccur, hist>>
        /\ Goto("snapshot")
    BY <1>4 DEF NextCluster, At
  <2>2. /\ pass'.pc = "snapshot" /\ pass'.began = pass.began /\ pass'.todo = {}
        /\ pass'.hidden = pass.hidden /\ pass'.cut = pass.cut
        /\ pass'.blocked = pass.blocked /\ pass'.wiped = pass.wiped
    BY <1>1, <1>4, <2>1, GotoType DEF PassPc
  <2>3. Pending = {}
    BY <1>4, <2>1 DEF Pending
  <2> QED
    BY <2>1, <2>2, <2>3, AccountPass
<1>5. CASE NextCluster /\ pass.todo # {}
  <2> DEFINE cl == {f \in pass.todo : Topic[f] = Topic[First(pass.todo)]}
  <2>1. /\ pass.pc = "cluster" /\ UNCHANGED <<at, ccur, hist>>
        /\ \/ pass' = [pass EXCEPT !.todo = @ \ cl, !.hidden = @ \cup cl]
           \/ pass' = [pass EXCEPT !.todo = @ \ cl, !.cluster = cl, !.pc = "synthesise"]
    BY <1>5 DEF NextCluster, At
  <2> HIDE DEF cl
  <2>2. /\ pass'.began = pass.began /\ pass'.todo = pass.todo \ cl
        /\ pass.hidden \subseteq pass'.hidden /\ pass'.cut = pass.cut
        /\ pass'.blocked = pass.blocked /\ pass'.wiped = pass.wiped
        /\ \/ pass'.pc = "cluster" /\ cl \subseteq pass'.hidden
           \/ pass'.pc = "synthesise" /\ pass'.cluster = cl
    <3>1. CASE pass' = [pass EXCEPT !.todo = @ \ cl, !.hidden = @ \cup cl]
      BY <1>1, <2>1, <3>1 DEF PassRec
    <3>2. CASE pass' = [pass EXCEPT !.todo = @ \ cl, !.cluster = cl, !.pc = "synthesise"]
      BY <1>1, <3>2 DEF PassRec
    <3> QED
      BY <2>1, <3>1, <3>2
  <2>3. Pending = pass.todo
    BY <2>1 DEF Pending
  <2>4. \A e \in Pending : e \in Pending' \cup pass'.hidden
    BY <2>2, <2>3 DEF Pending
  <2> QED
    BY <2>1, <2>2, <2>4, AccountPass
<1>6. CASE Skip /\ pass.pc = "synthesise" /\ UNCHANGED <<at, ccur, hist>>
  <2>1. /\ pass'.began = pass.began /\ pass'.todo = pass.todo /\ pass'.pc = "cluster"
        /\ pass'.hidden = pass.hidden \cup pass.cluster /\ pass'.cut = pass.cut
        /\ pass'.blocked = pass.blocked /\ pass'.wiped = pass.wiped
    BY <1>1, <1>6, SkipType
  <2>2. \A e \in Pending : e \in Pending' \cup pass'.hidden
    BY <2>1 DEF Pending
  <2> QED
    BY <1>6, <2>1, <2>2, AccountPass
<1>7. CASE LLMRefuses
  <2>1. /\ pass.pc = "synthesise" /\ UNCHANGED <<at, ccur, hist>> /\ Refused
    BY <1>7 DEF LLMRefuses, At
  <2>2. /\ pass'.began = pass.began /\ pass'.pc = "cluster"
        /\ pass'.hidden = pass.hidden /\ pass'.cut = pass.cut
        /\ pass'.blocked /\ pass'.wiped = pass.wiped
    BY <1>1, <2>1 DEF Refused, ClusterDone, PassRec
  <2> QED
    BY <2>1, <2>2, AccountPass
<1>8. CASE Synthesise /\ ~Skip
  <2>1. PICK q, vec : Target(q, vec)
    BY <1>8 DEF Synthesise
  <2>2. /\ pass' = [pass EXCEPT !.path = q, !.vec = vec, !.pc = "store"]
        /\ pass.pc = "synthesise" /\ UNCHANGED <<at, ccur, hist>>
    BY <1>8, <2>1 DEF Target, Synthesise, At
  <2>3. /\ pass'.began = pass.began /\ pass'.pc = "store" /\ pass'.todo = pass.todo
        /\ pass'.hidden = pass.hidden /\ pass'.cut = pass.cut
        /\ pass'.cluster = pass.cluster
        /\ pass'.blocked = pass.blocked /\ pass'.wiped = pass.wiped
    BY <1>1, <2>2 DEF PassRec
  <2>4. Pending' = Pending
    BY <2>2, <2>3 DEF Pending
  <2> QED
    BY <2>2, <2>3, <2>4, AccountPass
<1>9. CASE StorePage
  <2>1. pass.pc = "store" /\ UNCHANGED <<at, ccur>>
    BY <1>9 DEF StorePage, At
  <2>2. CASE UNCHANGED hist /\ pass' = [pass EXCEPT !.hidden = @ \cup pass.cluster, !.pc = "write"]
    <3>1. /\ pass'.began = pass.began /\ pass'.pc = "write" /\ pass'.todo = pass.todo
          /\ pass'.hidden = pass.hidden \cup pass.cluster /\ pass'.cut = pass.cut
          /\ pass'.blocked = pass.blocked /\ pass'.wiped = pass.wiped
      BY <1>1, <2>2 DEF PassRec
    <3>2. \A e \in Pending : e \in Pending' \cup pass'.hidden
      BY <3>1 DEF Pending
    <3> QED
      BY <2>1, <2>2, <3>1, <3>2, AccountPass
  <2>3. CASE /\ Goto("write")
             /\ hist' = [hist EXCEPT !.handled =
                    [e \in Entity |-> IF e \in pass.cluster THEN pass.began ELSE @[e]]]
    <3>1. /\ pass'.began = pass.began /\ pass'.pc = "write" /\ pass'.todo = pass.todo
          /\ pass'.hidden = pass.hidden /\ pass'.cut = pass.cut
          /\ pass'.blocked = pass.blocked /\ pass'.wiped = pass.wiped
      BY <1>1, <2>3, GotoType DEF PassPc
    <3>2. \A e \in Entity :
             hist'.handled[e] = IF e \in pass.cluster THEN pass.began ELSE hist.handled[e]
      BY <1>1, <2>3 DEF HistRec
    <3>3. pass.todo \subseteq Entity /\ pass.cluster \subseteq Entity
      BY <1>1 DEF PassRec
    <3>4. \A e \in Pending : e \in Pending' \/ hist'.handled[e] = pass.began
      BY <3>1, <3>2, <3>3 DEF Pending
    <3> QED
      BY <2>1, <3>1, <3>2, <3>4, AccountPass
  <2> QED
    BY <1>9, <2>2, <2>3 DEF StorePage
<1>10. CASE WritePage
  <2>1. /\ pass.pc = "write" /\ UNCHANGED <<at, ccur, hist>>
        /\ \/ pass' = [ClusterDone EXCEPT !.written = @ \cup {pass.path}]
           \/ pass' = ClusterDone
    BY <1>10 DEF WritePage, At
  <2>2. /\ pass'.began = pass.began /\ pass'.pc = "cluster" /\ pass'.todo = pass.todo
        /\ pass'.hidden = pass.hidden /\ pass'.cut = pass.cut
        /\ pass'.blocked = pass.blocked /\ pass'.wiped = pass.wiped
    <3>1. ClusterDone \in PassRec
      BY <1>1, ClusterDoneType
    <3> QED
      BY <1>1, <2>1, <3>1, ClusterDoneType DEF PassRec
  <2>3. Pending \subseteq Pending'
    BY <2>1, <2>2 DEF Pending
  <2> QED
    BY <2>1, <2>2, <2>3, AccountPass
<1>11. CASE Snapshot \/ Prune
  <2>1. /\ pass.pc \in {"snapshot", "prune"} /\ UNCHANGED <<at, ccur, hist>>
    BY <1>11 DEF Snapshot, Prune, At
  <2>2. /\ pass'.began = pass.began /\ pass'.pc \in {"prune", "cursor"}
        /\ pass'.hidden = pass.hidden /\ pass'.cut = pass.cut /\ pass'.todo = pass.todo
        /\ pass'.blocked = pass.blocked /\ pass'.wiped = pass.wiped
    BY <1>1, <1>11 DEF Snapshot, Prune, Goto, PassRec
  <2>3. pass.todo = {} /\ Pending = {}
    BY <2>1 DEF AccountInv, Pending
  <2> QED
    BY <2>1, <2>2, <2>3, AccountPass
<1> QED
  BY <1>2, <1>3, <1>4, <1>5, <1>6, <1>7, <1>8, <1>9, <1>10, <1>11
     DEF CurateStep, ScaffoldTitle, Synthesise, SnapshotFails, SetCuratorCursor, At

LEMMA AccountStep == TypeInv /\ AccountInv /\ [Next]_vars => AccountInv'
<1> SUFFICES ASSUME TypeInv, AccountInv, [Next]_vars PROVE AccountInv'
  OBVIOUS
<1>1. /\ pass \in PassRec /\ hist \in HistRec /\ log \in Seq(Entity) /\ clock \in Nat
      /\ at \in [Entity -> Nat] /\ ing \in IngestRec
      /\ \A e \in Entity : at[e] <= clock
  BY DEF TypeInv, Shape, Bounds
<1>2. ASSUME pass' = IdlePass PROVE AccountInv'
  BY <1>2, IdlePassType DEF AccountInv
<1>3. CASE UNCHANGED <<pass, hist, ccur, at>>
  BY <1>3, AccountFrame
<1>4. CASE IngestOne
  <2>1. /\ UNCHANGED <<pass, ccur>> /\ hist' = [hist EXCEPT !.tried = @ \cup {ing.next}]
        /\ Upsert(log[ing.next]) \/ UNCHANGED at
        /\ ing.next <= ing.upTo
    BY <1>4 DEF IngestOne, curateVars
  <2>2. hist'.handled = hist.handled
    BY <1>1, <2>1 DEF HistRec
  <2>3. log[ing.next] \in Entity
    <3>1. ing.next \in 1 .. Len(log)
      BY <1>1, <2>1 DEF TypeInv, Bounds, IngestRec
    <3> QED
      BY <1>1, <3>1
  <2>4. \A e \in Entity : at'[e] = at[e] \/ (at'[e] \in Nat /\ at'[e] > clock)
    <3>1. CASE Upsert(log[ing.next])
      BY <1>1, <2>3, <3>1, UpsertType
    <3> QED
      BY <2>1, <3>1
  <2> QED
    BY <2>1, <2>2, <2>4, AccountFrame
<1>5. CASE DoRecurate
  <2>1. /\ hist' = [hist EXCEPT !.handled = [e \in Entity |-> 0]]
        /\ pass' = IF pass.pc = "idle" THEN pass ELSE [pass EXCEPT !.wiped = TRUE]
    BY <1>5 DEF DoRecurate, At
  <2>2. \A e \in Entity : hist'.handled[e] = 0
    BY <1>1, <2>1 DEF HistRec
  <2>3. CASE pass.pc = "idle"
    BY <2>1, <2>3 DEF AccountInv
  <2>4. CASE pass.pc # "idle"
    <3>1. /\ pass'.wiped /\ pass'.began \in Nat /\ pass'.todo = pass.todo
          /\ pass'.pc = pass.pc
      BY <1>1, <2>1, <2>4 DEF PassRec
    <3> QED
      BY <2>2, <3>1 DEF AccountInv
  <2> QED
    BY <2>3, <2>4
<1>6. CASE CuratorRestarts \/ PodRestarts
  BY <1>2, <1>6 DEF CuratorRestarts, PodRestarts
<1>7. CASE Fetch \/ SaveIngestCursor \/ Observe \/ DoReingest \/ IngesterRestarts
  BY <1>3, <1>7 DEF Fetch, SaveIngestCursor, Observe, DoReingest, IngesterRestarts, curateVars
<1>8. CASE UNCHANGED vars
  BY <1>3, <1>8 DEF vars
<1> QED
  BY <1>4, <1>5, <1>6, <1>7, <1>8, AccountCurate DEF Next, IngestStep, Environment

(* The step that leaves a change behind the cursor ends a pass, and the change *)
(* has one of the causes.                                                      *)
LEMMA StrandStep ==
    ASSUME TypeInv, AccountInv, [Next]_vars, NEW e \in Entity, ~Stranded(e), Stranded(e)'
    PROVE  at[e] > pass.began \/ e \in pass.cut \cup pass.hidden \/ pass.wiped
<1>1. /\ pass \in PassRec /\ hist \in HistRec /\ log \in Seq(Entity) /\ clock \in Nat
      /\ at \in [Entity -> Nat] /\ ing \in IngestRec /\ ccur \in Nat /\ ccur <= clock
      /\ \A f \in Entity : at[f] <= clock
      /\ hist.handled[e] \in Nat /\ at[e] \in Nat /\ pass.began \in Nat
  BY DEF TypeInv, Shape, Bounds, HistRec, PassRec
<1>2. Role[e] # "artifact" /\ 0 < at'[e] /\ at'[e] <= ccur' /\ hist'.handled[e] < at'[e]
  BY DEF Stranded
<1>3. CASE UNCHANGED <<at, ccur, hist>>
  BY <1>3 DEF Stranded
<1>4. CASE SetCuratorCursor
  <2>1. /\ pass.pc = "cursor" /\ UNCHANGED <<at, hist>>
        /\ \/ ccur' = (IF Advances THEN clock ELSE ccur)
           \/ UNCHANGED ccur
    BY <1>4 DEF SetCuratorCursor, At
  <2>2. ~pass.blocked /\ ccur < at[e]
    BY <1>1, <1>2, <2>1 DEF Stranded, Advances
  <2>3. pass.todo = {} /\ Pending = {}
    BY <2>1 DEF AccountInv, Pending
  <2>4. pass.wiped \/ at[e] > pass.began \/ Accounted(e)
    BY <1>1, <2>1, <2>2 DEF AccountInv
  <2> QED
    BY <1>1, <1>2, <2>1, <2>2, <2>3, <2>4 DEF Accounted
<1>5. CASE StorePage
  <2>1. UNCHANGED <<at, ccur>> /\ pass.pc = "store"
    BY <1>5 DEF StorePage, At
  <2>2. hist.handled[e] <= pass.began
    BY <2>1 DEF AccountInv
  <2>3. hist'.handled[e] \in {hist.handled[e], pass.began}
    BY <1>1, <1>5 DEF StorePage, HistRec
  <2> QED
    BY <1>1, <1>2, <2>1, <2>2, <2>3 DEF Stranded
<1>6. CASE DoRecurate
  BY <1>1, <1>2, <1>6 DEF DoRecurate
<1>7. CASE IngestOne
  <2>1. /\ UNCHANGED <<pass, ccur>> /\ hist' = [hist EXCEPT !.tried = @ \cup {ing.next}]
        /\ Upsert(log[ing.next]) \/ UNCHANGED at
        /\ ing.next <= ing.upTo
    BY <1>7 DEF IngestOne, curateVars
  <2>2. hist'.handled = hist.handled
    BY <1>1, <2>1 DEF HistRec
  <2>3. log[ing.next] \in Entity
    <3>1. ing.next \in 1 .. Len(log)
      BY <1>1, <2>1 DEF TypeInv, Bounds, IngestRec
    <3> QED
      BY <1>1, <3>1
  <2>4. at'[e] = at[e] \/ at'[e] = clock + 1
    <3>1. CASE Upsert(log[ing.next])
      BY <1>1, <2>3, <3>1, UpsertType
    <3> QED
      BY <2>1, <3>1
  <2> QED
    BY <1>1, <1>2, <2>1, <2>2, <2>4 DEF Stranded
<1>8. CASE [Next]_vars /\ ~SetCuratorCursor /\ ~StorePage /\ ~DoRecurate /\ ~IngestOne
  BY <1>3, <1>8 DEF Next, vars, IngestStep, CurateStep, Environment, Fetch,
     SaveIngestCursor, FetchEntities, NextCluster, LLMRefuses, ScaffoldTitle,
     Synthesise, WritePage, Snapshot, SnapshotFails, Prune, Observe, DoReingest,
     IngesterRestarts, CuratorRestarts, PodRestarts, curateVars
<1> QED
  BY <1>4, <1>5, <1>6, <1>7, <1>8

(* A change is only left behind the curator's cursor for one of the named      *)
(* causes, for any limit of the fetch and any number of refusals of the LLM,   *)
(* failing calls, restarts and resets, at any step of the pass.                *)
THEOREM LeftBehindForCause == Spec => StrandedForCause
<1>1. Init => AccountInv
  BY DEF Init, IdlePass, AccountInv
<1>2. TypeInv /\ AccountInv /\ [Next]_vars =>
        [\A e \in Entity : ~Stranded(e) /\ Stranded(e)' =>
            \/ at[e] > pass.began
            \/ e \in pass.cut \cup pass.hidden
            \/ pass.wiped]_vars
  BY StrandStep
<1> QED
  BY <1>1, <1>2, TypeInvariant, AccountStep, PTL DEF Spec, StrandedForCause

(* Both together: what the curator loses, it loses for a named cause.          *)
THEOREM LossesExplained == Spec => LostForCause
<1> QED BY PeoplesPages, LeftBehindForCause, PTL DEF LostForCause

-----------------------------------------------------------------------------
(* The pages.  Both parts of PagesSound speak of behaviours in which no call   *)
(* failed yet; faults are only ever counted up.                                *)
LEMMA Faultless ==
    ASSUME budget \in BudgetRec, [Next]_vars, budget'.faults = 0
    PROVE  budget.faults = 0 /\ ~CallFails
<1>1. ASSUME NEW what \in {"faults", "refusals", "restarts", "resets"}, Use(what)
      PROVE  /\ budget'.faults >= budget.faults
             /\ what = "faults" => budget'.faults # 0
  BY <1>1 DEF Use, BudgetRec
<1>2. \/ UNCHANGED budget \/ CallFails \/ Use("refusals") \/ Use("restarts") \/ Use("resets")
  <2>1. CASE IngestStep BY <2>1 DEF IngestStep, Fetch, IngestOne, SaveIngestCursor
  <2>2. CASE CurateStep
    BY <2>2 DEF CurateStep, FetchEntities, NextCluster, LLMRefuses, ScaffoldTitle, Synthesise,
                StorePage, WritePage, Snapshot, SnapshotFails, Prune, SetCuratorCursor
  <2>3. CASE Environment
    BY <2>3 DEF Environment, Observe, DoReingest, DoRecurate, IngesterRestarts,
                CuratorRestarts, PodRestarts
  <2>4. CASE UNCHANGED vars BY <2>4 DEF vars
  <2> QED BY <2>1, <2>2, <2>3, <2>4 DEF Next
<1> QED BY <1>1, <1>2 DEF CallFails, BudgetRec

Undisturbed == ~pass.wiped /\ budget.faults = 0

(* What a pass wrote is on disk, and from the snapshot on so is all that is    *)
(* served: Prune then removes what is neither.                                 *)
SnapInv ==
    Undisturbed =>
        /\ \A p \in pass.written : files[p] = "page"
        /\ At("prune") => pass.shown = ToShow /\ \A p \in ToShow : files[p] = "page"
        /\ FullSnapshot

(* Steps that touch neither the database's pages nor the files.                *)
LEMMA SnapFrame ==
    ASSUME SnapInv, UNCHANGED <<docs, files>>, budget'.faults = 0 => budget.faults = 0,
           pass'.written = {} \/ (pass'.written = pass.written /\ pass'.wiped = pass.wiped),
           pass'.pc \notin {"prune", "cursor"} \/ UNCHANGED pass
    PROVE  SnapInv'
BY DEF SnapInv, Undisturbed, FullSnapshot, ToShow, At

(* The steps of the pass that only change its local variables.                 *)
LEMMA SnapQuiet ==
    ASSUME TypeInv, SnapInv, [Next]_vars,
           \/ FetchEntities \/ NextCluster \/ LLMRefuses \/ ScaffoldTitle \/ Synthesise
           \/ SnapshotFails \/ SetCuratorCursor
    PROVE  SnapInv'
<1>1. pass \in PassRec /\ (budget'.faults = 0 => budget.faults = 0)
  BY Faultless DEF TypeInv, Shape
<1>2. UNCHANGED <<docs, files>>
  BY DEF FetchEntities, NextCluster, LLMRefuses, ScaffoldTitle, Synthesise, SnapshotFails,
         SetCuratorCursor
<1>3. CASE pass' = IdlePass BY <1>1, <1>2, <1>3, SnapFrame DEF IdlePass
<1>4. CASE FetchEntities
  <2>1. PICK since : FetchSince(since) BY <1>4 DEF FetchEntities
  <2>2. pass'.written = {} /\ pass'.pc \in {"cluster", "snapshot"}
    BY <2>1 DEF FetchSince, IdlePass
  <2> QED BY <1>1, <1>2, <2>2, SnapFrame
<1>5. CASE NextCluster
  <2>1. /\ pass'.written = pass.written /\ pass'.wiped = pass.wiped
        /\ pass'.pc \in {"cluster", "synthesise", "snapshot"}
    <3> DEFINE cl == {f \in pass.todo : Topic[f] = Topic[First(pass.todo)]}
    <3>1. /\ pass.pc = "cluster"
          /\ \/ Goto("snapshot")
             \/ pass' = [pass EXCEPT !.todo = @ \ cl, !.hidden = @ \cup cl]
             \/ pass' = [pass EXCEPT !.todo = @ \ cl, !.cluster = cl, !.pc = "synthesise"]
      BY <1>5 DEF NextCluster, At
    <3> HIDE DEF cl
    <3> QED BY <1>1, <3>1 DEF Goto, PassRec
  <2> QED BY <1>1, <1>2, <2>1, SnapFrame
<1>6. CASE Skip \/ Refused
  <2>1. /\ pass'.written = pass.written /\ pass'.wiped = pass.wiped /\ pass'.pc = "cluster"
    BY <1>1, <1>6 DEF Skip, Refused, ClusterDone, PassRec
  <2> QED BY <1>1, <1>2, <2>1, SnapFrame
<1>7. CASE Synthesise /\ ~Skip
  <2>1. PICK q, vec : Target(q, vec) BY <1>7 DEF Synthesise
  <2>2. /\ pass'.written = pass.written /\ pass'.wiped = pass.wiped /\ pass'.pc = "store"
    BY <1>1, <1>7, <2>1 DEF Target, PassRec
  <2> QED BY <1>1, <1>2, <2>2, SnapFrame
<1> QED BY <1>3, <1>4, <1>5, <1>6, <1>7 DEF LLMRefuses, ScaffoldTitle, SnapshotFails, SetCuratorCursor

(* The page, its file, the snapshot and the pruning.                           *)
LEMMA SnapPages ==
    ASSUME TypeInv, SnapInv, [Next]_vars, StorePage \/ WritePage \/ Snapshot \/ Prune
    PROVE  SnapInv'
<1>1. /\ pass \in PassRec /\ files \in [Path -> {"none", "page", "human"}]
      /\ docs \in [Path -> Doc \cup {NoDoc}]
      /\ \A p \in pass.written : p \in Path
  BY DEF TypeInv, Shape, PassRec
<1>2. SUFFICES ASSUME Undisturbed' PROVE SnapInv' BY DEF SnapInv
<1>3. budget.faults = 0 /\ ~CallFails BY <1>2, Faultless DEF Undisturbed, TypeInv, Shape
<1>4. CASE StorePage
  <2>1. /\ pass'.written = pass.written /\ pass'.wiped = pass.wiped /\ pass'.pc = "write"
        /\ UNCHANGED files
    BY <1>1, <1>3, <1>4 DEF StorePage, Goto, PassRec
  <2> QED BY <1>2, <1>3, <2>1 DEF SnapInv, Undisturbed, FullSnapshot, At
<1>5. CASE WritePage
  <2>1. /\ pass.path \in Path /\ files' = [files EXCEPT ![pass.path] = "page"]
        /\ pass'.written = pass.written \cup {pass.path} /\ pass'.wiped = pass.wiped
        /\ pass'.pc = "cluster"
    BY <1>1, <1>3, <1>5 DEF WritePage, ClusterDone, PassRec, TypeInv, AtHand, At
  <2>2. \A p \in pass'.written : files'[p] = "page"
    BY <1>1, <1>2, <1>3, <2>1 DEF SnapInv, Undisturbed
  <2> QED BY <2>1, <2>2 DEF SnapInv, FullSnapshot, At
<1>6. CASE Snapshot
  <2>1. /\ files' = [p \in Path |-> IF p \in ToShow THEN "page" ELSE files[p]]
        /\ pass'.shown = ToShow /\ pass'.written = pass.written /\ pass'.wiped = pass.wiped
        /\ pass'.pc = "prune" /\ UNCHANGED docs
    BY <1>1, <1>3, <1>6 DEF Snapshot, PassRec
  <2>2. \A p \in pass'.written : files'[p] = "page"
    BY <1>1, <1>2, <1>3, <2>1 DEF SnapInv, Undisturbed
  <2>3. ToShow' = ToShow /\ \A p \in ToShow : files'[p] = "page"
    BY <1>1, <2>1 DEF ToShow
  <2> QED BY <2>1, <2>2, <2>3 DEF SnapInv, FullSnapshot, At
<1>7. CASE Prune
  <2>1. /\ files' = [p \in Path |-> IF files[p] = "page" /\ p \notin pass.written \cup pass.shown
                                    THEN "none" ELSE files[p]]
        /\ pass'.shown = pass.shown /\ pass'.written = pass.written /\ pass'.wiped = pass.wiped
        /\ pass.pc = "prune" /\ pass'.pc = "cursor" /\ UNCHANGED docs
    BY <1>1, <1>7 DEF Prune, Goto, PassRec, At
  <2>2. /\ \A p \in pass.written : files[p] = "page"
        /\ pass.shown = ToShow /\ \A p \in ToShow : files[p] = "page"
    BY <1>2, <1>3, <2>1 DEF SnapInv, Undisturbed, At
  <2>3. \A p \in pass'.written : files'[p] = "page" BY <1>1, <2>1, <2>2
  <2>4. \A p \in Path : files'[p] = "page" <=> p \in pass.written \cup ToShow
    BY <1>1, <2>1, <2>2
  <2>5. \A p \in Path : p \in ToShow <=> docs'[p] # NoDoc /\ docs'[p].auto /\ files'[p] # "human"
    BY <1>1, <2>1 DEF ToShow, Doc, NoDoc
  <2>6. FullSnapshot' BY <1>1, <2>1, <2>4, <2>5 DEF FullSnapshot
  <2> QED BY <2>1, <2>3, <2>6 DEF SnapInv, At
<1> QED BY <1>4, <1>5, <1>6, <1>7

LEMMA SnapStep == TypeInv /\ SnapInv /\ [Next]_vars => SnapInv'
<1> SUFFICES ASSUME TypeInv, SnapInv, [Next]_vars PROVE SnapInv' OBVIOUS
<1>1. pass \in PassRec /\ (budget'.faults = 0 => budget.faults = 0)
  BY Faultless DEF TypeInv, Shape
<1>2. CASE CurateStep BY <1>2, SnapQuiet, SnapPages DEF CurateStep
<1>3. CASE CuratorRestarts \/ PodRestarts
  BY <1>3 DEF CuratorRestarts, PodRestarts, IdlePass, SnapInv, FullSnapshot, At
<1>4. CASE DoRecurate /\ pass.pc = "idle"
  <2>1. UNCHANGED <<pass, files>> BY <1>4 DEF DoRecurate, At
  <2> QED BY <1>1, <1>4, <2>1 DEF SnapInv, Undisturbed, FullSnapshot, At
<1>5. CASE DoRecurate /\ pass.pc # "idle"
  <2>1. pass'.wiped BY <1>1, <1>5 DEF DoRecurate, At, PassRec
  <2> QED BY <2>1 DEF SnapInv, Undisturbed
<1>6. CASE IngestStep \/ Observe \/ DoReingest \/ IngesterRestarts \/ UNCHANGED vars
  <2>1. UNCHANGED <<docs, files, pass>>
    BY <1>6 DEF IngestStep, Fetch, IngestOne, SaveIngestCursor, Observe, DoReingest,
                IngesterRestarts, curateVars, vars
  <2> QED BY <1>1, <2>1, SnapFrame
<1> QED BY <1>2, <1>3, <1>4, <1>5, <1>6 DEF Next, Environment

(* A page is unique in its role and embedding, and the page the pass is about  *)
(* to store would be it: processCluster looked for that page before.           *)
ConceptInv ==
    budget.faults = 0 =>
        /\ OnePagePerConcept
        /\ At("store") =>
              /\ pass.vec # None
              /\ \A q \in Path : docs[q].kind = "page" /\ docs[q].type = Role[Primary]
                                    /\ docs[q].vec = pass.vec => q = pass.path

(* Storing the page.                                                           *)
LEMMA ConceptStore ==
    ASSUME TypeInv, ConceptInv, [Next]_vars, StorePage, budget'.faults = 0
    PROVE  ConceptInv'
<1>1. budget.faults = 0 /\ ~CallFails BY Faultless DEF TypeInv, Shape
<1>2. /\ pass.pc = "store" /\ pass.path \in Path /\ docs \in [Path -> Doc \cup {NoDoc}]
      /\ pass \in PassRec
  BY DEF StorePage, At, TypeInv, Shape, AtHand
<1>3. /\ pass.vec # None
      /\ \A q \in Path : docs[q].kind = "page" /\ docs[q].type = Role[Primary]
                            /\ docs[q].vec = pass.vec => q = pass.path
      /\ OnePagePerConcept
  BY <1>1, <1>2 DEF ConceptInv, At
<1>4. /\ docs'[pass.path].type = Role[Primary] /\ docs'[pass.path].vec = pass.vec
      /\ \A q \in Path \ {pass.path} : docs'[q] = docs[q]
  BY <1>1, <1>2, <1>3 DEF StorePage
<1>5. OnePagePerConcept' BY <1>1, <1>2, <1>3, <1>4 DEF OnePagePerConcept
<1>6. pass'.pc = "write" BY <1>1, <1>2 DEF StorePage, Goto, PassRec
<1> QED BY <1>5, <1>6 DEF ConceptInv, At

(* Choosing the page.                                                          *)
LEMMA ConceptChosen ==
    ASSUME TypeInv, ConceptInv, [Next]_vars, Synthesise, ~Skip, budget'.faults = 0
    PROVE  ConceptInv'
<1>1. budget.faults = 0 /\ ~CallFails BY Faultless DEF TypeInv, Shape
<1>2. pass \in PassRec /\ UNCHANGED docs BY DEF Synthesise, TypeInv, Shape
<1>3. PICK s \in Slug, vec \in {Topic[Primary], None}, answered \in BOOLEAN :
        LET p == RolePath(Role[Primary], s)
            ok == answered /\ vec # None
            near == IF ok THEN Similar(vec, p) ELSE {}
        IN /\ \E q \in (IF near = {} THEN {p} ELSE near) : Target(q, vec)
           /\ IF ok THEN UNCHANGED budget ELSE CallFails
  BY DEF Synthesise
<1>4. /\ vec # None
      /\ \E q \in (IF Similar(vec, RolePath(Role[Primary], s)) = {}
                   THEN {RolePath(Role[Primary], s)}
                   ELSE Similar(vec, RolePath(Role[Primary], s))) : Target(q, vec)
  BY <1>1, <1>3
<1>5. PICK q : /\ Target(q, vec)
               /\ \A r \in Path : docs[r].kind = "page" /\ docs[r].type = Role[Primary]
                                    /\ docs[r].vec = vec => r = q
  <2>1. CASE Similar(vec, RolePath(Role[Primary], s)) = {} BY <1>4, <2>1 DEF Similar
  <2>2. CASE Similar(vec, RolePath(Role[Primary], s)) # {}
    BY <1>1, <1>4, <2>2 DEF Similar, ConceptInv, OnePagePerConcept
  <2> QED BY <2>1, <2>2
<1>6. pass' = [pass EXCEPT !.path = q, !.vec = vec, !.pc = "store"] BY <1>5 DEF Target
<1>7. pass'.path = q /\ pass'.vec = vec /\ pass'.cluster = pass.cluster BY <1>2, <1>6 DEF PassRec
<1>8. Primary' = Primary BY <1>7 DEF Primary
<1> QED BY <1>1, <1>2, <1>4, <1>5, <1>7, <1>8 DEF ConceptInv, OnePagePerConcept

LEMMA ConceptStep == TypeInv /\ ConceptInv /\ [Next]_vars => ConceptInv'
<1> SUFFICES ASSUME TypeInv, ConceptInv, [Next]_vars, budget'.faults = 0 PROVE ConceptInv'
  BY DEF ConceptInv
<1>1. budget.faults = 0 /\ pass \in PassRec BY Faultless DEF TypeInv, Shape
<1>2. ASSUME UNCHANGED <<docs, pass>> PROVE ConceptInv'
  BY <1>1, <1>2 DEF ConceptInv, OnePagePerConcept, At, Primary
<1>3. ASSUME UNCHANGED docs, pass'.pc # "store" PROVE ConceptInv'
  BY <1>1, <1>3 DEF ConceptInv, OnePagePerConcept, At
<1>4. CASE DoRecurate
  <2>1. docs' = [p \in Path |-> NoDoc] /\ pass'.pc = pass.pc /\ pass'.vec = pass.vec
    BY <1>1, <1>4 DEF DoRecurate, PassRec
  <2>2. \A p \in Path : docs'[p].kind # "page" BY <2>1 DEF NoDoc
  <2> QED BY <1>1, <2>1, <2>2 DEF ConceptInv, OnePagePerConcept, At
<1>5. CASE FetchEntities \/ NextCluster \/ WritePage \/ Snapshot \/ SnapshotFails \/ Prune
           \/ SetCuratorCursor \/ CuratorRestarts \/ PodRestarts \/ (Skip /\ UNCHANGED docs)
           \/ (Refused /\ UNCHANGED docs)
  <2>1. UNCHANGED docs
    BY <1>5 DEF FetchEntities, NextCluster, WritePage, Snapshot, SnapshotFails, Prune,
                SetCuratorCursor, CuratorRestarts, PodRestarts
  <2>2. pass'.pc # "store"
    <3>1. CASE FetchEntities BY <3>1 DEF FetchEntities, FetchSince, IdlePass
    <3>2. CASE NextCluster
      BY <1>1, <3>2 DEF NextCluster, Goto, At, PassRec
    <3>3. CASE WritePage
      <4>1. pass' = [ClusterDone EXCEPT !.written = @ \cup {pass.path}] \/ pass' = ClusterDone
        BY <3>3 DEF WritePage
      <4> QED BY <1>1, <4>1, ClusterDoneType DEF PassRec
    <3>6. CASE Skip \/ Refused BY <1>1, <3>6, SkipType, RefusedType
    <3>4. CASE Snapshot \/ Prune BY <1>1, <3>4 DEF Snapshot, Prune, Goto, PassRec
    <3>5. CASE SnapshotFails \/ SetCuratorCursor \/ CuratorRestarts \/ PodRestarts
      BY <3>5 DEF SnapshotFails, SetCuratorCursor, CuratorRestarts, PodRestarts, IdlePass
    <3> QED BY <1>5, <3>1, <3>2, <3>3, <3>4, <3>5, <3>6
  <2> QED BY <1>3, <2>1, <2>2
<1>6. CASE IngestStep \/ Observe \/ DoReingest \/ IngesterRestarts \/ UNCHANGED vars
  BY <1>2, <1>6 DEF IngestStep, Fetch, IngestOne, SaveIngestCursor, Observe, DoReingest,
                    IngesterRestarts, curateVars, vars
<1>7. CASE LLMRefuses \/ ScaffoldTitle \/ (Synthesise /\ Skip)
  BY <1>5, <1>7 DEF LLMRefuses, ScaffoldTitle, Synthesise
<1>8. CASE StorePage BY <1>8, ConceptStore
<1>9. CASE Synthesise /\ ~Skip BY <1>9, ConceptChosen
<1> QED BY <1>4, <1>5, <1>6, <1>7, <1>8, <1>9 DEF Next, CurateStep, Environment

(* The curator's pages, for any set of entities, topics and titles: as long as *)
(* no call failed, a pass that gets to its end leaves every served page on     *)
(* disk and nothing else of its own but what it wrote, and there is one page   *)
(* for each concept, over restarts of the services, resets and refusals.       *)
THEOREM PagesAreSound == Spec => []PagesSound
<1>1. Init => SnapInv /\ ConceptInv
  BY DEF Init, IdlePass, SnapInv, ConceptInv, FullSnapshot, OnePagePerConcept, At, NoDoc
<1>2. SnapInv /\ ConceptInv => PagesSound
  BY DEF SnapInv, ConceptInv, PagesSound, FullSnapshot, OnePagePerConcept, Undisturbed
<1> QED BY <1>1, <1>2, TypeInvariant, SnapStep, ConceptStep, PTL DEF Spec

-----------------------------------------------------------------------------
(* The memory around the pipeline.                                             *)

(* The least of a set of numbers, as it is chosen.                             *)
Least(S) == CHOOSE i \in S : \A o \in S : i <= o

LEMMA LeastIs ==
    ASSUME NEW S \in SUBSET Nat, S # {}
    PROVE  Least(S) \in S /\ \A o \in S : Least(S) <= o
BY LeastMember DEF Least

LEMMA Persisted ==
    ASSUME NEW tries, Attempts \in Nat \ {0}, tries \in [1..Attempts -> {"ok", "conflict", "error"}]
    PROVE  LET p == Memory!Persist(tries) IN
           /\ p.ok \in BOOLEAN /\ p.calls \in 1..Attempts
           /\ p.ok => "ok" \in ToSet(tries)
<1> DEFINE stops == {i \in 1..Attempts : tries[i] # "conflict" \/ i = Attempts}
<1>1. stops \in SUBSET Nat /\ Attempts \in stops
  OBVIOUS
<1>2. Memory!Persist(tries) = [ok |-> tries[Least(stops)] = "ok", calls |-> Least(stops)]
  BY DEF Memory!Persist, Least
<1>3. Least(stops) \in stops
  <2> HIDE DEF stops
  <2> QED BY <1>1, LeastIs
<1>4. Least(stops) \in 1..Attempts
  BY <1>3
<1>5. tries[Least(stops)] \in ToSet(tries)
  BY <1>4 DEF ToSet
<1> DEFINE l == Least(stops)
<1> HIDE DEF stops, l
<1>6. Memory!Persist(tries).ok = (tries[l] = "ok") /\ Memory!Persist(tries).calls = l
  BY <1>2 DEF l
<1>7. tries[l] = "ok" => "ok" \in ToSet(tries)
  BY <1>5 DEF l
<1>8. l \in 1..Attempts
  BY <1>4 DEF l
<1> QED BY <1>6, <1>7, <1>8, Zenon

SchemaAnswer(q, a) ==
    /\ a.applied <=> ~a.error /\ a.calls <= 2 * Attempts
    /\ a.applied => "ok" \in ToSet(q.boot) /\ "ok" \in ToSet(q.ddl)

LEMMA SchemaTold ==
    ASSUME NEW q, {q.boot, q.ddl} \subseteq [1..Attempts -> {"ok", "conflict", "error"}]
    PROVE  SchemaAnswer(q, OnSchema(q))
<1> DEFINE b == Memory!Persist(q.boot)
           d == Memory!Persist(q.ddl)
<1>1. Attempts \in Nat \ {0}
  BY MemoryAssumption
<1>2. /\ b.ok \in BOOLEAN /\ b.calls \in 1..Attempts
      /\ b.ok => "ok" \in ToSet(q.boot)
      /\ d.ok \in BOOLEAN /\ d.calls \in 1..Attempts
      /\ d.ok => "ok" \in ToSet(q.ddl)
  <2>1. q.boot \in [1..Attempts -> {"ok", "conflict", "error"}] /\ q.ddl \in [1..Attempts -> {"ok", "conflict", "error"}]
    OBVIOUS
  <2> QED BY <1>1, <2>1, Persisted
<1>3. OnSchema(q) = IF b.ok THEN [applied |-> d.ok, error |-> ~d.ok, calls |-> b.calls + d.calls]
                    ELSE [applied |-> FALSE, error |-> TRUE, calls |-> b.calls]
  BY DEF OnSchema, Memory!EnsureSchema
<1> HIDE DEF b, d
<1>6. b.calls <= 2 * Attempts /\ b.calls + d.calls <= 2 * Attempts
  <2> DEFINE n == b.calls
             m == d.calls
  <2>1. n \in 1..Attempts /\ m \in 1..Attempts
    BY <1>2, Zenon
  <2> HIDE DEF n, m
  <2>2. n <= 2 * Attempts /\ n + m <= 2 * Attempts
    BY <1>1, <2>1
  <2> QED BY <2>2 DEF n, m
<1>4. CASE b.ok
  <2>1. OnSchema(q) = [applied |-> d.ok, error |-> ~d.ok, calls |-> b.calls + d.calls]
    BY <1>3, <1>4
  <2>3. (d.ok <=> ~~d.ok) /\ (d.ok => "ok" \in ToSet(q.boot) /\ "ok" \in ToSet(q.ddl))
    BY <1>2, <1>4, Zenon
  <2>4. OnSchema(q).applied = d.ok /\ OnSchema(q).error = (~d.ok) /\ OnSchema(q).calls = b.calls + d.calls
    BY <2>1
  <2> QED BY <1>6, <2>3, <2>4, Zenon DEF SchemaAnswer
<1>5. CASE ~b.ok
  <2>1. OnSchema(q) = [applied |-> FALSE, error |-> TRUE, calls |-> b.calls]
    BY <1>3, <1>5
  <2>4. OnSchema(q).applied = FALSE /\ OnSchema(q).error = TRUE /\ OnSchema(q).calls = b.calls
    BY <2>1
  <2> QED BY <1>6, <2>4, Zenon DEF SchemaAnswer
<1> QED BY <1>4, <1>5

ChunksAnswer(q, a) == q.deleted /\ q.written = Len(q.chunks) => a = q.chunks

LEMMA ChunksTold ==
    ASSUME NEW q, q.stored \in Seq(Nat), q.chunks \in Seq(Nat), q.written \in 0..Len(q.chunks)
    PROVE  ChunksAnswer(q, OnChunks(q))
<1> SUFFICES ASSUME q.deleted, q.written = Len(q.chunks) PROVE OnChunks(q) = q.chunks
  BY DEF ChunksAnswer
<1> DEFINE n == Len(q.chunks)
           c == q.chunks
<1>1. n \in Nat /\ c \in Seq(Nat) /\ DOMAIN c = 1..n /\ c = [i \in 1..n |-> c[i]]
  BY LenProperties
<1>2. SubSeq(c, 1, n) = [i \in 1..n |-> c[i]]
  <2>1. SubSeq(c, 1, n) = c
    <3>1. 1 \in 1..(n + 1) /\ n \in 0..n
      BY <1>1
    <3>2. Len(SubSeq(c, 1, n)) = n /\ \A i \in 1..n : SubSeq(c, 1, n)[i] = c[i]
      BY <1>1, SubSeqProperties
    <3>3. SubSeq(c, 1, n) \in Seq(Nat)
      BY <1>1, SubSeqProperties
    <3> HIDE DEF n, c
    <3> QED BY <1>1, <3>2, <3>3, SeqEqual
  <2> QED BY <1>1, <2>1
<1>3. Len(<<>>) = 0
  BY EmptySeq
<1> HIDE DEF n
<1>4. OnChunks(q) = [i \in 1..n |-> IF i <= n THEN SubSeq(c, 1, n)[i] ELSE <<>>[i]]
  BY <1>1, <1>3 DEF OnChunks, Memory!Rechunk, n
<1>5. \A i \in 1..n : i <= n /\ SubSeq(c, 1, n)[i] = c[i]
  BY <1>1, <1>2
<1> QED BY <1>1, <1>4, <1>5

StatementAnswer(q, a) == a.said = "ok" => a.stats = [ingested |-> 3, failed |-> 2]
LEMMA StatementTold == ASSUME NEW q PROVE StatementAnswer(q, OnStatement(q))
BY DEF StatementAnswer, OnStatement, Memory!Query, Memory!CountCycle

EdgesAnswer(q, a) == \A e \in a : q[e[1]].readable /\ e[2] \in q[e[1]].out["e"] \ {""}
LEMMA EdgesTold == ASSUME NEW q PROVE EdgesAnswer(q, OnEdges(q))
<1> SUFFICES ASSUME NEW e \in OnEdges(q) PROVE q[e[1]].readable /\ e[2] \in q[e[1]].out["e"] \ {""}
  BY DEF EdgesAnswer
<1>1. PICK x \in {x \in {"x", "y"} : q[x].readable} : e \in {<<x, t>> : t \in q[x].out["e"] \ {""}}
  BY DEF OnEdges, Memory!FetchEntityEdges
<1>2. PICK t \in q[x].out["e"] \ {""} : e = <<x, t>>
  BY <1>1
<1> QED BY <1>1, <1>2

StatusAnswer(q, a) == a.healthy => \A i \in DOMAIN q : q[i].up => q[i].cursor >= q[i].max /\ q[i].failed = 0
LEMMA StatusTold ==
    ASSUME NEW q, \A i \in DOMAIN q : {q[i].max, q[i].cursor, q[i].failed} \subseteq Nat
    PROVE  StatusAnswer(q, OnStatus(q))
<1> SUFFICES ASSUME OnStatus(q).healthy, NEW i \in DOMAIN q, q[i].up
             PROVE  q[i].cursor >= q[i].max /\ q[i].failed = 0
  BY DEF StatusAnswer
<1>1. q[i].max \in Nat /\ q[i].cursor \in Nat /\ q[i].failed \in Nat
  OBVIOUS
<1>2. Memory!MemoryStatus(q).lagging = {} /\ Memory!MemoryStatus(q).failing = {}
  BY DEF OnStatus, Memory!Healthy
<1>3. i \notin {j \in DOMAIN q : q[j].up /\ (IF q[j].max > q[j].cursor THEN q[j].max - q[j].cursor ELSE 0) > 0}
  BY <1>2 DEF Memory!MemoryStatus
<1>4. i \notin {j \in DOMAIN q : q[j].up /\ q[j].failed > 0}
  BY <1>2 DEF Memory!MemoryStatus
<1> QED BY <1>1, <1>3, <1>4

GroupsAnswer(q, a) == UNION {a[g] : g \in DOMAIN a} = q
LEMMA GroupsTold == ASSUME NEW q PROVE GroupsAnswer(q, OnGroups(q))
<1> DEFINE a == OnGroups(q)
<1>1. a = [g \in {p.name : p \in q} |-> {p \in q : p.name = g}]
  BY DEF OnGroups, Memory!GroupByCanonical, Memory!NormalizeGroupID
<1> HIDE DEF a
<1>2. ASSUME NEW x \in q PROVE x \in UNION {a[g] : g \in DOMAIN a}
  <2>1. x.name \in DOMAIN a /\ x \in a[x.name]
    BY <1>1
  <2> QED BY <2>1
<1>3. ASSUME NEW x \in UNION {a[g] : g \in DOMAIN a} PROVE x \in q
  <2>1. PICK g \in DOMAIN a : x \in a[g]
    OBVIOUS
  <2> QED BY <1>1, <2>1
<1> QED BY <1>2, <1>3 DEF a, GroupsAnswer

(* Of finitely many numbers there is a greatest.                               *)
LEMMA MostIs ==
    ASSUME NEW R, IsFiniteSet(R), R # {}, \A r \in R : r.seq \in Nat
    PROVE  \E n \in {r.seq : r \in R} : \A r \in R : r.seq <= n
<1> DEFINE B == {b \in Nat : \A r \in R : r.seq <= b}
<1>1. PICK l \in Seq(R) : \A r \in R : \E i \in 1..Len(l) : l[i] = r
  BY DEF IsFiniteSet
<1> DEFINE m == Len(l)
           P == {k \in 0..m : \E b \in Nat : \A i \in 1..k : l[i].seq <= b}
<1>2. m \in Nat /\ \A i \in 1..m : l[i] \in R /\ l[i].seq \in Nat
  BY LenProperties, ElementOfSeq
<1> HIDE DEF m
<1>3. 0 \in P
  BY <1>2
<1>4. ASSUME NEW k \in 1..m, k - 1 \in P PROVE k \in P
  <2>1. PICK b \in Nat : \A i \in 1..(k - 1) : l[i].seq <= b
    BY <1>4
  <2>2. l[k].seq \in Nat /\ k \in 0..m
    BY <1>2
  <2> DEFINE c == IF l[k].seq > b THEN l[k].seq ELSE b
  <2>3. c \in Nat /\ l[k].seq <= c /\ b <= c
    BY <2>2
  <2> HIDE DEF c
  <2>4. ASSUME NEW i \in 1..k PROVE l[i].seq <= c
    <3>1. CASE i = k
      BY <2>3, <3>1
    <3>2. CASE i # k
      <4>1. i \in 1..(k - 1) /\ l[i].seq \in Nat
        BY <1>2, <3>2
      <4> QED BY <2>1, <2>3, <4>1
    <3> QED BY <3>1, <3>2
  <2> QED BY <2>2, <2>3, <2>4
<1>5. m \in P
  <2>1. \A k \in 0..m : k \in P
    <3> HIDE DEF P
    <3> QED BY <1>2, <1>3, <1>4, UpToBound
  <2>2. m \in 0..m
    BY <1>2
  <2> HIDE DEF P
  <2> QED BY <2>1, <2>2
<1>6. PICK b \in Nat : \A i \in 1..m : l[i].seq <= b
  BY <1>5
<1>7. b \in B
  BY <1>1, <1>6 DEF m
<1>8. PICK e \in B : \A f \in B : e <= f
  <2>1. B \in SUBSET Nat /\ B # {}
    BY <1>7
  <2> HIDE DEF B
  <2> QED BY <2>1, LeastMember
<1>9. e \in {r.seq : r \in R}
  <2> SUFFICES ASSUME e \notin {r.seq : r \in R} PROVE FALSE
    OBVIOUS
  <2>1. \A r \in R : r.seq \in Nat /\ r.seq < e
    BY <1>8
  <2>2. e \in Nat /\ e - 1 \in Nat
    <3>1. PICK r \in R : TRUE
      OBVIOUS
    <3> QED BY <1>8, <2>1, <3>1
  <2>3. e - 1 \in B
    BY <2>1, <2>2
  <2> QED BY <1>8, <2>2, <2>3
<1> QED BY <1>8, <1>9

(* The rows of a source, and what is left of them.                             *)
RowsOf(rows, s) == {r \in rows : r.source = s}
MostOf(R) == CHOOSE n \in {r.seq : r \in R} : \A r \in R : r.seq <= n

CursorsAnswer(q, a) ==
    /\ \A s \in {"a", "b"} : \A r \in RowsOf(q.rows, s) :
            /\ r.id = "own" => a.read[s] >= r.seq
            /\ \E n \in RowsOf(a.rows, s) : n.seq >= r.seq
    /\ q.fails = {} => \A s \in {"a", "b"} : Cardinality(RowsOf(a.rows, s)) <= 1

(* Either the rows of a source stay, or one of them is set to the most of them,*)
(* and then the others go or stay.                                             *)
Settled(old, new, s, clean) ==
    LET own == [id |-> "own", source |-> s, seq |-> MostOf(old)]
    IN  new = {own} \/ (~clean /\ own \in new /\ \A r \in new : r = own \/ (r \in old /\ r.id # "own"))

LEMMA SameCardinalityMemory == \A s : Memory!Cardinality(s) = Cardinality(s)
BY DEF Memory!Cardinality, Cardinality

LEMMA DedupeIs ==
    ASSUME NEW rows, NEW fails, NEW s, s # ""
    PROVE  LET old == RowsOf(rows, s)
               new == RowsOf(Memory!DeduplicateCursors(rows, fails), s)
           IN  \/ old = {} /\ new = {}
               \/ new = old /\ (fails = {} => ~(Cardinality(old) > 1))
               \/ Settled(old, new, s, fails = {})
<1> DEFINE old == RowsOf(rows, s)
           d == Memory!DeduplicateCursors(rows, fails)
           named == {r \in rows : r.source # ""}
           of(t) == {r \in named : r.source = t}
           double == {r.source : r \in {x \in named : Memory!Cardinality(of(x.source)) > 1}}
           set == {t \in double : <<"set", t>> \notin fails}
           clean == {t \in set : <<"delete", t>> \notin fails}
           canonical(t) == IF t \in set THEN Memory!SetIngestCursor(of(t), t, MostOf(of(t))) ELSE of(t)
           all == UNION {{r \in canonical(t) : t \in clean => r.id = "own"} : t \in {r.source : r \in named}}
<1>1. d = IF <<"orphans">> \in fails THEN rows ELSE IF <<"group">> \in fails THEN named ELSE all
  BY Zenon DEF Memory!DeduplicateCursors, MostOf
<1>2. RowsOf(named, s) = old /\ of(s) = old
  BY DEF RowsOf
<1>3. CASE <<"orphans">> \in fails \/ <<"group">> \in fails
  BY <1>1, <1>2, <1>3
<1>5. \A t : \A r \in canonical(t) : r.source = t
  <2> SUFFICES ASSUME NEW t, NEW r \in canonical(t) PROVE r.source = t
    OBVIOUS
  <2>1. \A x \in of(t) : x.source = t
    OBVIOUS
  <2>2. CASE t \in set
    <3>1. r \in of(t) \/ r = [id |-> "own", source |-> t, seq |-> MostOf(of(t))]
      <4> HIDE DEF of, set
      <4> QED BY <2>2 DEF Memory!SetIngestCursor
    <3> DEFINE one == [id |-> "own", source |-> t, seq |-> MostOf(of(t))]
    <3>2. r \in of(t) \/ r.source = t
      <4>1. one.source = t
        OBVIOUS
      <4>2. r \in of(t) \/ r = one
        BY <3>1
      <4> HIDE DEF of, one, canonical
      <4> QED BY <4>1, <4>2
    <3> HIDE DEF of, canonical
    <3> QED BY <2>1, <3>2
  <2>3. CASE t \notin set
    <3>1. r \in of(t)
      <4> HIDE DEF of, set
      <4> QED BY <2>3
    <3> QED BY <3>1
  <2> QED BY <2>2, <2>3
<1>4. CASE ~(<<"orphans">> \in fails \/ <<"group">> \in fails) /\ old # {}
  <2>1. d = all
    BY <1>1, <1>4
  <2>2. s \in {r.source : r \in named}
    BY <1>4 DEF RowsOf
  <2>4. RowsOf(all, s) = {r \in canonical(s) : s \in clean => r.id = "own"}
    <3> HIDE DEF canonical, clean, named
    <3>1. ASSUME NEW r \in all, r.source = s PROVE r \in canonical(s) /\ (s \in clean => r.id = "own")
      <4>1. PICK t \in {x.source : x \in named} : r \in {y \in canonical(t) : t \in clean => y.id = "own"}
        OBVIOUS
      <4>2. t = s
        BY <1>5, <3>1, <4>1
      <4> QED BY <4>1, <4>2
    <3>2. ASSUME NEW r \in canonical(s), s \in clean => r.id = "own" PROVE r \in all /\ r.source = s
      <4> DEFINE Left(t) == {x \in canonical(t) : t \in clean => x.id = "own"}
      <4>1. r \in Left(s)
        BY <3>2
      <4>2. all = UNION {Left(t) : t \in {x.source : x \in named}}
        OBVIOUS
      <4> HIDE DEF Left, all
      <4> QED BY <2>2, <1>5, <4>1, <4>2
    <3> QED BY <3>1, <3>2 DEF RowsOf
  <2> DEFINE own == [id |-> "own", source |-> s, seq |-> MostOf(old)]
             new == RowsOf(d, s)
  <2>5. CASE s \in set
    <3>1. canonical(s) = {r \in old : ~(r.source = s /\ r.id = "own")} \cup {own}
      <4> HIDE DEF set, of, old
      <4> QED BY <1>2, <2>5 DEF Memory!SetIngestCursor
    <3>2. \A r \in old : r.source = s
      BY DEF RowsOf
    <3>3. fails = {} => s \in clean
      BY <2>5
    <3>4. own.id = "own"
      OBVIOUS
    <3>5. new = {r \in canonical(s) : s \in clean => r.id = "own"}
      <4> HIDE DEF d, all, canonical, clean
      <4> QED BY <2>1, <2>4
    <3> HIDE DEF canonical, clean, set, old, d, own, new
    <3>6. s \in clean => new = {own}
      BY <3>1, <3>2, <3>4, <3>5
    <3>7. own \in new /\ \A r \in new : r = own \/ (r \in old /\ r.id # "own")
      BY <3>1, <3>2, <3>4, <3>5
    <3>8. Settled(old, new, s, fails = {})
      BY <3>3, <3>6, <3>7 DEF Settled, own
    <3> QED BY <3>8 DEF old, new, d
  <2>6. CASE s \notin set
    <3>1. canonical(s) = old /\ s \notin clean
      <4> HIDE DEF of
      <4> QED BY <1>2, <2>6
    <3>2. new = old
      <4> HIDE DEF d, all, canonical, clean, old
      <4> QED BY <2>1, <2>4, <3>1
    <3>3. fails = {} => s \notin double
      BY <2>6
    <3>4. ASSUME s \notin double PROVE ~(Cardinality(old) > 1)
      <4>1. PICK r \in old : r \in named /\ r.source = s
        BY <1>4 DEF RowsOf
      <4>2. ~(Cardinality(of(r.source)) > 1)
        <5> HIDE DEF of, old
        <5> QED BY <3>4, <4>1, SameCardinalityMemory
      <4> HIDE DEF of, old, named
      <4> QED BY <1>2, <4>1, <4>2
    <3> HIDE DEF double
    <3> QED BY <3>2, <3>3, <3>4
  <2> QED BY <2>5, <2>6
<1>6. CASE ~(<<"orphans">> \in fails \/ <<"group">> \in fails) /\ old = {}
  <2>1. d = all
    BY <1>1, <1>6
  <2>2. s \notin {r.source : r \in named}
    BY <1>6 DEF RowsOf
  <2>3. ASSUME NEW r \in all PROVE r.source # s
    <3> HIDE DEF canonical, clean, named
    <3>1. PICK t \in {x.source : x \in named} : r \in {y \in canonical(t) : t \in clean => y.id = "own"}
      OBVIOUS
    <3>2. r \in canonical(t) /\ t # s
      BY <2>2, <3>1
    <3>3. r.source = t
      BY <1>5, <3>2, Zenon
    <3> QED BY <3>2, <3>3
  <2>4. RowsOf(d, s) = {}
    <3> HIDE DEF all, d
    <3> QED BY <2>1, <2>3 DEF RowsOf
  <2> QED BY <1>6, <2>4
<1> QED BY <1>3, <1>4, <1>6

LEMMA ReadIs ==
    ASSUME NEW rows, NEW s, NEW r \in rows, r.source = s, r.id = "own",
           \A x \in rows : x.source = s /\ x.id = "own" => x.seq = r.seq
    PROVE  Memory!GetIngestCursor(rows, s) = r.seq
<1> DEFINE own == {x \in rows : x.source = s /\ x.id = "own"}
<1>1. Memory!GetIngestCursor(rows, s) = IF own = {} THEN 0 ELSE (CHOOSE x \in own : TRUE).seq
  BY DEF Memory!GetIngestCursor
<1>2. r \in own /\ \A x \in own : x.seq = r.seq
  OBVIOUS
<1> HIDE DEF own
<1>3. (CHOOSE x \in own : TRUE) \in own
  BY <1>2
<1> QED BY <1>1, <1>2, <1>3

LEMMA CursorsTold ==
    ASSUME NEW q, IsFiniteSet(q.rows), q.rows \subseteq [id : STRING, source : STRING, seq : Nat],
           \A r, s \in q.rows : r.id = s.id /\ r.source = s.source => r = s
    PROVE  CursorsAnswer(q, OnCursors(q))
<1> DEFINE a == OnCursors(q)
           d == Memory!DeduplicateCursors(q.rows, q.fails)
<1>1. a.rows = d /\ \A s \in {"a", "b"} : a.read[s] = Memory!GetIngestCursor(d, s)
  BY DEF OnCursors
<1> HIDE DEF a
<1>2. ASSUME NEW s \in {"a", "b"}, RowsOf(q.rows, s) # {}
      PROVE  /\ \A r \in RowsOf(q.rows, s) : /\ r.id = "own" => a.read[s] >= r.seq
                                            /\ \E n \in RowsOf(d, s) : n.seq >= r.seq
             /\ q.fails = {} => Cardinality(RowsOf(d, s)) <= 1
  <2> DEFINE old == RowsOf(q.rows, s)
             new == RowsOf(d, s)
             most == MostOf(old)
             own == [id |-> "own", source |-> s, seq |-> most]
  <2>1. s # ""
    OBVIOUS
  <2>2. (new = old /\ (q.fails = {} => ~(Cardinality(old) > 1))) \/ Settled(old, new, s, q.fails = {})
    BY <1>2, <2>1, DedupeIs
  <2>3. /\ IsFiniteSet(old) /\ old \subseteq [id : STRING, source : STRING, seq : Nat]
        /\ \A r, x \in old : r.id = x.id => r = x
    <3>1. old \subseteq q.rows
      BY DEF RowsOf
    <3>2. IsFiniteSet(old)
      BY <3>1, FS_Subset
    <3> QED BY <3>1, <3>2 DEF RowsOf
  <2>4. \A r \in old : r.seq \in Nat
    BY <2>3
  <2>5. most \in Nat /\ \A r \in old : r.seq <= most
    <3>1. \E n \in {r.seq : r \in old} : \A r \in old : r.seq <= n
      <4> HIDE DEF old
      <4> QED BY <1>2, <2>3, <2>4, MostIs DEF old
    <3> HIDE DEF old
    <3> QED BY <2>4, <3>1 DEF MostOf
  <2>6. a.read[s] = Memory!GetIngestCursor(d, s)
    BY <1>1
  <2>7. \A x \in d : x.source = s <=> x \in new
    BY DEF RowsOf
  <2>8. \A x \in new : x \in d /\ x.source = s
    BY DEF RowsOf
  <2> HIDE DEF old, new, d, most
  <2>9. CASE new = old /\ (q.fails = {} => ~(Cardinality(old) > 1))
    <3>1. ASSUME NEW r \in old PROVE r.id = "own" => a.read[s] >= r.seq
      <4> SUFFICES ASSUME r.id = "own" PROVE a.read[s] >= r.seq
        OBVIOUS
      <4>1. r \in d /\ r.source = s
        BY <2>8, <2>9
      <4>2. \A x \in d : x.source = s /\ x.id = "own" => x.seq = r.seq
        BY <2>3, <2>7, <2>9
      <4>3. Memory!GetIngestCursor(d, s) = r.seq
        BY <4>1, <4>2, ReadIs
      <4> QED BY <2>4, <2>6, <4>3
    <3>2. \A r \in old : \E n \in new : n.seq >= r.seq
      BY <2>4, <2>9
    <3>3. q.fails = {} => Cardinality(new) <= 1
      <4>1. Cardinality(old) \in Nat
        BY <2>3, FS_CardinalityType
      <4> QED BY <2>9, <4>1
    <3> QED BY <3>1, <3>2, <3>3 DEF old, new
  <2>10. CASE Settled(old, new, s, q.fails = {})
    <3>1. own \in new /\ (\A r \in new : r = own \/ r.id # "own") /\ (q.fails = {} => new = {own})
      BY <2>10 DEF Settled, most
    <3>2. own.seq = most /\ own.source = s /\ own.id = "own"
      OBVIOUS
    <3> HIDE DEF own
    <3>3. Memory!GetIngestCursor(d, s) = most
      <4>1. own \in d /\ \A x \in d : x.source = s /\ x.id = "own" => x.seq = own.seq
        BY <2>7, <2>8, <3>1
      <4>2. Memory!GetIngestCursor(d, s) = own.seq
        BY <3>2, <4>1, ReadIs
      <4> QED BY <3>2, <4>2
    <3>4. \A r \in old : a.read[s] >= r.seq /\ own.seq >= r.seq
      BY <2>4, <2>5, <2>6, <3>2, <3>3
    <3>5. q.fails = {} => Cardinality(new) <= 1
      <4>1. Cardinality({own}) = 1
        BY FS_Singleton
      <4> QED BY <3>1, <4>1
    <3> QED BY <3>1, <3>4, <3>5 DEF old, new
  <2> QED BY <2>2, <2>9, <2>10
<1>3. ASSUME NEW s \in {"a", "b"}, q.fails = {}, RowsOf(q.rows, s) = {} PROVE Cardinality(RowsOf(d, s)) <= 1
  <2> DEFINE old == RowsOf(q.rows, s)
             new == RowsOf(d, s)
  <2>1. s # ""
    OBVIOUS
  <2>2. \/ new = {} \/ (new = old /\ ~(Cardinality(old) > 1)) \/ Settled(old, new, s, TRUE)
    BY <1>3, <2>1, DedupeIs
  <2>3. new = {} \/ \E x : new = {x}
    BY <1>3, <2>2 DEF Settled
  <2>4. Cardinality({}) = 0 /\ \A x : Cardinality({x}) = 1
    BY FS_EmptySet, FS_Singleton
  <2> HIDE DEF new
  <2>5. Cardinality(new) = 0 \/ Cardinality(new) = 1
    BY <2>3, <2>4, Zenon
  <2>6. Cardinality(new) <= 1
    BY <2>5
  <2> QED BY <2>6, Zenon DEF new
<1>4. \A s \in {"a", "b"} : \A r \in RowsOf(q.rows, s) : RowsOf(q.rows, s) # {}
  OBVIOUS
<1> HIDE DEF d
<1>5. \A s \in {"a", "b"} : \A r \in RowsOf(q.rows, s) :
        (r.id = "own" => a.read[s] >= r.seq) /\ \E n \in RowsOf(a.rows, s) : n.seq >= r.seq
  BY <1>1, <1>2, <1>4
<1>6. q.fails = {} => \A s \in {"a", "b"} : Cardinality(RowsOf(a.rows, s)) <= 1
  BY <1>1, <1>2, <1>3
<1> QED BY <1>5, <1>6 DEF CursorsAnswer, a

LEMMA Around ==
    ASSUME NEW n \in Nat \ {0}, NEW x \in 0..(n - 1)
    PROVE  x % n = x /\ (x + n) % n = x /\ n % n = 0
OBVIOUS

LEMMA TurnOfAll ==
    ASSUME NEW n \in Nat \ {0}, NEW idx \in 0..(n - 1)
    PROVE  /\ \A i \in 1..n : ((idx + i - 1) % n) + 1 \in 1..n
           /\ ((idx + 1 - 1) % n) + 1 = idx + 1
           /\ \A u \in 1..n : \E i \in 1..n : ((idx + i - 1) % n) + 1 = u
           /\ (idx + 1) % n \in 0..(n - 1)
<1>1. \A z \in Nat : z % n \in 0..(n - 1)
  OBVIOUS
<1>2. ASSUME NEW i \in 1..n PROVE ((idx + i - 1) % n) + 1 \in 1..n
  <2>1. idx + i - 1 \in Nat
    OBVIOUS
  <2> DEFINE r == (idx + i - 1) % n
  <2>2. r \in 0..(n - 1)
    BY <1>1, <2>1
  <2> HIDE DEF r
  <2> QED BY <2>2 DEF r
<1>3. ((idx + 1 - 1) % n) + 1 = idx + 1
  <2>1. idx + 1 - 1 = idx /\ idx % n = idx
    BY Around
  <2> QED BY <2>1
<1>4. ASSUME NEW u \in 1..n PROVE \E i \in 1..n : ((idx + i - 1) % n) + 1 = u
  <2> DEFINE x == u - 1
  <2>1. x \in 0..(n - 1)
    OBVIOUS
  <2>2. x % n = x /\ (x + n) % n = x
    BY <2>1, Around
  <2>3. CASE u > idx
    <3> DEFINE i == u - idx
    <3>1. i \in 1..n /\ idx + i - 1 = x
      BY <2>3
    <3> HIDE DEF i
    <3>2. (idx + i - 1) % n = x
      BY <2>2, <3>1
    <3>3. ((idx + i - 1) % n) + 1 = u
      BY <3>2
    <3> QED BY <3>1, <3>3
  <2>4. CASE u <= idx
    <3> DEFINE i == u - idx + n
    <3>1. i \in 1..n /\ idx + i - 1 = x + n
      BY <2>4
    <3>2. ((idx + i - 1) % n) + 1 = u
      <4> HIDE DEF i
      <4>1. (idx + i - 1) % n = x
        BY <2>2, <3>1
      <4> QED BY <4>1
    <3> HIDE DEF i
    <3> QED BY <3>1, <3>2
  <2> QED BY <2>3, <2>4
<1>5. (idx + 1) % n \in 0..(n - 1)
  BY <1>1
<1> QED BY <1>2, <1>3, <1>4, <1>5

Gives(answers, u) == Memory!FetchOneToken(answers[u]) # ""

LEMMA TokenIs ==
    ASSUME NEW A, NEW answers \in Seq(A), answers # <<>>, NEW idx \in 0..(Len(answers) - 1)
    PROVE  LET g == Memory!GetToken(idx, answers)
               n == Len(answers)
           IN  /\ g.idx = (idx + 1) % n /\ g.idx \in 0..(n - 1)
               /\ g.url = 0 <=> \A u \in 1..n : ~Gives(answers, u)
               /\ Gives(answers, idx + 1) => g.url = idx + 1
<1> DEFINE n == Len(answers)
           turn == [i \in 1..n |-> ((idx + i - 1) % n) + 1]
           keep == {u \in 1..n : Gives(answers, u)}
           good == Among(turn, keep)
<1>1. n \in Nat \ {0} /\ idx \in 0..(n - 1)
  BY EmptySeq, LenProperties
<1> HIDE DEF n
<1>2. /\ \A i \in 1..n : turn[i] \in 1..n
      /\ \A u \in 1..n : \E i \in 1..n : turn[i] = u
      /\ turn[1] = idx + 1 /\ (idx + 1) % n \in 0..(n - 1) /\ idx + 1 \in 1..n
  <2>1. 1 \in 1..n /\ idx + 1 \in 1..n
    BY <1>1
  <2>2. \A i \in 1..n : turn[i] = ((idx + i - 1) % n) + 1
    OBVIOUS
  <2> HIDE DEF turn
  <2>3. /\ \A i \in 1..n : ((idx + i - 1) % n) + 1 \in 1..n
        /\ ((idx + 1 - 1) % n) + 1 = idx + 1
        /\ \A u \in 1..n : \E i \in 1..n : ((idx + i - 1) % n) + 1 = u
        /\ (idx + 1) % n \in 0..(n - 1)
    BY <1>1, TurnOfAll
  <2> QED BY <2>1, <2>2, <2>3
<1>3. DOMAIN turn = 1..n /\ turn \in Seq(1..n) /\ Len(turn) = n
  <2>1. DOMAIN turn = 1..n
    OBVIOUS
  <2> HIDE DEF turn
  <2>2. turn \in Seq(1..n)
    <3>1. turn = [i \in 1..n |-> turn[i]]
      BY DEF turn
    <3>2. \A i \in 1..n : turn[i] \in 1..n
      BY <1>2
    <3>3. [i \in 1..n |-> turn[i]] \in Seq(1..n)
      BY <1>1, <3>2, IsASeq
    <3> QED BY <3>1, <3>3
  <2> QED BY <1>1, <2>1, <2>2, LenProperties
<1>4. Memory!GetToken(idx, answers) = [idx |-> (idx + 1) % n, url |-> IF good = <<>> THEN 0 ELSE Head(good)]
  <2>1. Memory!Among(turn, keep) = good
    <3> HIDE DEF turn, keep
    <3> QED BY <1>3, AmongPicks
  <2>2. Memory!GetToken(idx, answers) =
            [idx |-> (idx + 1) % n,
             url |-> IF Memory!Among(turn, keep) = <<>> THEN 0 ELSE Head(Memory!Among(turn, keep))]
    BY Zenon DEF Memory!GetToken, n, Gives
  <2> QED BY <2>1, <2>2
<1>5. /\ good \in Seq(1..n) /\ ToSet(good) = ToSet(turn) \cap keep
      /\ good = <<>> <=> ToSet(turn) \cap keep = {}
  <2> HIDE DEF turn, keep
  <2> QED BY <1>3, AmongSet
<1>6. ToSet(turn) = 1..n
  <2>1. DOMAIN turn = 1..n
    OBVIOUS
  <2> HIDE DEF turn
  <2>2. (\A i \in 1..n : turn[i] \in 1..n) /\ \A u \in 1..n : \E i \in 1..n : turn[i] = u
    BY <1>2
  <2> QED BY <2>1, <2>2, Zenon DEF ToSet
<1>7. good = <<>> <=> \A u \in 1..n : ~Gives(answers, u)
  <2> HIDE DEF good
  <2> QED BY <1>5, <1>6
<1>8. good # <<>> => Head(good) \in 1..n
  <2> HIDE DEF good
  <2> QED BY <1>5, HeadTailProperties
<1>9. Gives(answers, idx + 1) => good # <<>> /\ Head(good) = idx + 1
  <2> SUFFICES ASSUME Gives(answers, idx + 1) PROVE good # <<>> /\ Head(good) = idx + 1
    OBVIOUS
  <2>1. 1 \in 1..Len(turn) /\ turn[1] \in keep /\ \A i \in 1..Len(turn) : i < 1 => turn[i] \notin keep
    <3> HIDE DEF turn
    <3> QED BY <1>1, <1>2, <1>3
  <2> HIDE DEF turn, keep
  <2>2. \A m \in 1..Len(turn) : turn[m] \in keep /\ (\A i \in 1..Len(turn) : i < m => turn[i] \notin keep)
                                  => good # <<>> /\ Head(good) = turn[m]
    BY <1>3, AmongHead, Zenon
  <2>3. good # <<>> /\ Head(good) = turn[1]
    BY <2>1, <2>2, Zenon
  <2> QED BY <1>2, <2>3
<1> DEFINE url == IF good = <<>> THEN 0 ELSE Head(good)
<1>10. url = 0 <=> good = <<>>
  <2> HIDE DEF good
  <2> QED BY <1>1, <1>8
<1>11. Memory!GetToken(idx, answers).idx = (idx + 1) % n /\ Memory!GetToken(idx, answers).url = url
  <2> HIDE DEF url
  <2> QED BY <1>4 DEF url
<1>12. Gives(answers, idx + 1) => url = idx + 1
  <2> HIDE DEF good
  <2> QED BY <1>9
<1> HIDE DEF url, good
<1> QED BY <1>2, <1>7, <1>10, <1>11, <1>12 DEF n

TokenAnswer(q, a) ==
    LET gives(u) == q.answers[u].reached /\ q.answers[u].status = 200 /\ q.answers[u].key # "" IN
    /\ \A i \in DOMAIN a.urls : (a.urls[i] = 0) <=> \A u \in DOMAIN q.answers : ~gives(u)
    /\ \A u \in DOMAIN q.answers : gives(u) /\ Len(q.answers) <= 3 => u \in ToSet(a.urls)
    /\ a.reused => q.now < 2
    /\ a.provider = "google-sa" => q.account

LEMMA TokenTold ==
    ASSUME NEW q, q.answers \in Seq([reached : BOOLEAN, status : Nat, key : STRING]), q.answers # <<>>, q.now \in Int
    PROVE  TokenAnswer(q, OnToken(q))
<1> DEFINE a == OnToken(q)
           n == Len(q.answers)
           gives(u) == q.answers[u].reached /\ q.answers[u].status = 200 /\ q.answers[u].key # ""
           one == Memory!GetToken(0, q.answers)
           two == Memory!GetToken(one.idx, q.answers)
           three == Memory!GetToken(two.idx, q.answers)
<1>1. n \in Nat \ {0} /\ 0 \in 0..(n - 1) /\ DOMAIN q.answers = 1..n
  BY EmptySeq, LenProperties
<1>2. \A u : Gives(q.answers, u) <=> gives(u)
  BY DEF Gives, Memory!FetchOneToken
<1>3. /\ a.urls = <<one.url, two.url, three.url>>
      /\ a.provider = Memory!ResolveTokenProvider(q.auth, Len(q.answers) > 0, q.account)
      /\ a.reused = Memory!ReuseToken([token |-> TRUE, expires |-> 3], q.now, 1)
  <2> HIDE DEF one, two, three
  <2> QED BY DEF OnToken, one, two, three
<1> HIDE DEF gives, n, a
<1>4. /\ one.idx = 1 % n /\ one.idx \in 0..(n - 1) /\ (one.url = 0 <=> \A u \in 1..n : ~gives(u))
      /\ gives(1) => one.url = 1
  <2>1. 0 + 1 = 1
    OBVIOUS
  <2> QED BY <1>1, <1>2, <2>1, TokenIs DEF n
<1> HIDE DEF one
<1>5. /\ two.idx = (one.idx + 1) % n /\ two.idx \in 0..(n - 1) /\ (two.url = 0 <=> \A u \in 1..n : ~gives(u))
      /\ gives(one.idx + 1) => two.url = one.idx + 1
  BY <1>1, <1>2, <1>4, TokenIs DEF n
<1> HIDE DEF two
<1>6. /\ (three.url = 0 <=> \A u \in 1..n : ~gives(u))
      /\ gives(two.idx + 1) => three.url = two.idx + 1
  BY <1>1, <1>2, <1>5, TokenIs DEF n
<1> HIDE DEF three
<1>7. \A i \in DOMAIN a.urls : (a.urls[i] = 0) <=> \A u \in 1..n : ~gives(u)
  <2> DEFINE x == one.url
             y == two.url
             z == three.url
             none == \A u \in 1..n : ~gives(u)
             urls == a.urls
  <2>1. (x = 0 <=> none) /\ (y = 0 <=> none) /\ (z = 0 <=> none)
    BY <1>4, <1>5, <1>6
  <2>2. urls = <<x, y, z>>
    BY <1>3
  <2> HIDE DEF x, y, z, none, urls
  <2>3. DOMAIN urls = 1..3 /\ urls[1] = x /\ urls[2] = y /\ urls[3] = z
    BY <2>2
  <2>4. \A i \in 1..3 : i = 1 \/ i = 2 \/ i = 3
    OBVIOUS
  <2>5. \A i \in DOMAIN urls : urls[i] = 0 <=> none
    BY <2>1, <2>3, <2>4, Zenon
  <2> QED BY <2>5 DEF urls, none
<1>8. ToSet(a.urls) = {one.url, two.url, three.url}
  BY <1>3 DEF ToSet
<1>9. ASSUME n <= 3, NEW u \in 1..n PROVE u = 1 \/ u = one.idx + 1 \/ u = two.idx + 1
  <2>1. n = 1 \/ n = 2 \/ n = 3
    BY <1>1, <1>9
  <2>2. CASE n = 1
    BY <2>2
  <2>3. CASE n = 2
    <3>1. one.idx = 1
      BY <1>4, <2>3
    <3> QED BY <2>3, <3>1
  <2>4. CASE n = 3
    <3>1. one.idx = 1
      BY <1>4, <2>4
    <3>2. two.idx = 2
      BY <1>5, <2>4, <3>1
    <3> QED BY <2>4, <3>1, <3>2
  <2> QED BY <2>1, <2>2, <2>3, <2>4
<1>10. \A u \in 1..n : gives(u) /\ n <= 3 => u \in ToSet(a.urls)
  BY <1>4, <1>5, <1>6, <1>8, <1>9
<1>11. a.reused => q.now < 2
  <2>1. Memory!ReuseToken([token |-> TRUE, expires |-> 3], q.now, 1) => q.now < 3 - 1
    BY DEF Memory!ReuseToken
  <2>2. 3 - 1 = 2
    OBVIOUS
  <2> QED BY <1>3, <2>1, <2>2, Zenon
<1>12. a.provider = "google-sa" => q.account
  BY <1>3 DEF Memory!ResolveTokenProvider
<1>13. \A u \in 1..n : gives(u) /\ Len(q.answers) <= 3 => u \in ToSet(a.urls)
  BY <1>10 DEF n
<1>14. DOMAIN q.answers = 1..n
  BY <1>1
<1> HIDE DEF n
<1>15. TokenAnswer(q, a)
  <2>1. \A i \in DOMAIN a.urls : (a.urls[i] = 0) <=> \A u \in DOMAIN q.answers : ~gives(u)
    BY <1>14, <1>7
  <2>2. \A u \in DOMAIN q.answers : gives(u) /\ Len(q.answers) <= 3 => u \in ToSet(a.urls)
    BY <1>14, <1>13
  <2> QED BY <2>1, <2>2, <1>11, <1>12, Zenon DEF TokenAnswer, gives
<1> QED BY <1>15 DEF a

(* The properties a role has of its own are those it keeps.                     *)
LEMMA OwnPropsWin ==
    ASSUME NEW def, NEW role, NEW core, NEW domain, IsFiniteSet(DOMAIN core), IsFiniteSet(DOMAIN domain)
    PROVE  \A p \in DOMAIN def.props : Memory!MergeInheritedProps(def, role, core, domain).props[p] = def.props[p]
<1> DEFINE defined == DOMAIN core \cup DOMAIN domain
           look(r) == IF r \in DOMAIN core THEN core[r] ELSE domain[r]
           most == Memory!Cardinality(defined)
           Is(f) == f = [i \in 0..most |->
                IF i = 0 THEN role ELSE IF i = 1 THEN def.isa
                ELSE IF f[i - 1] \in defined THEN look(f[i - 1]).isa ELSE ""]
           name == CHOOSE f : Is(f)
           chain == {i \in 0..most : \A j \in 1..i :
                        name[j] \in defined /\ \A k \in 0..(j - 1) : name[k] # name[j]}
           Link(i) == IF i = 0 THEN def ELSE look(name[i])
           nearest(p) == CHOOSE i \in chain : p \in DOMAIN Link(i).props /\ \A o \in chain : p \in DOMAIN Link(o).props => i <= o
           props == [p \in UNION {DOMAIN Link(i).props : i \in chain} |-> Link(nearest(p)).props[p]]
<1>1. Memory!MergeInheritedProps(def, role, core, domain) =
            [isa |-> def.isa, required |-> def.required, props |-> props]
  BY DEF Memory!MergeInheritedProps
<1>2. most \in Nat
  <2>1. IsFiniteSet(defined)
    BY FS_Union
  <2>2. Memory!Cardinality(defined) = Cardinality(defined)
    BY SameCardinalityMemory
  <2> HIDE DEF defined
  <2> QED BY <2>1, <2>2, FS_CardinalityType
<1> HIDE DEF look, name, defined, most
<1>3. 0 \in chain /\ chain \subseteq Nat
  BY <1>2
<1> HIDE DEF chain
<1>4. Link(0) = def
  OBVIOUS
<1> HIDE DEF Link
<1>5. ASSUME NEW p \in DOMAIN def.props PROVE props[p] = def.props[p]
  <2>1. nearest(p) = 0
    <3>1. \A o \in chain : p \in DOMAIN Link(o).props => 0 <= o
      BY <1>3
    <3>2. \A i \in chain : p \in DOMAIN Link(i).props /\ (\A o \in chain : p \in DOMAIN Link(o).props => i <= o) => i = 0
      BY <1>3, <1>4
    <3> QED BY <1>3, <1>4, <3>1, <3>2
  <2> HIDE DEF nearest
  <2> QED BY <1>3, <1>4, <2>1
<1> HIDE DEF props
<1> QED BY <1>1, <1>5

OntologyAnswer(q, a) ==
    LET domain == IF "g" \in q.two.groups THEN q.two ELSE q.one IN
    /\ (DOMAIN a.composed.entities \cup DOMAIN a.composed.edges) \cap (q.core.suppressed \cup domain.suppressed) = {}
    /\ DOMAIN domain.entities \ (q.core.suppressed \cup domain.suppressed) \subseteq DOMAIN a.composed.entities
    /\ \A r \in DOMAIN a.composed.entities \cap DOMAIN domain.entities :
        \A p \in DOMAIN domain.entities[r].props :
            a.composed.entities[r].props[p] = domain.entities[r].props[p]
    /\ \A r \in DOMAIN a.composed.entities : DOMAIN a.composed.entities[r].props \subseteq DOMAIN a.fields
    /\ \A r \in {"base", "kind"} : a.stored[r] = "entity" => r \in DOMAIN a.composed.entities

(* Of the files that cover a group, the last is the one.                        *)
Covering(one, two, group) == Memory!Among(<<one, two>>, {d \in Memory!ToSet(<<one, two>>) : group \in d.groups})

LEMMA LastCovers ==
    ASSUME NEW one, NEW two, NEW group, group \in one.groups
    PROVE  /\ Covering(one, two, group) # <<>>
           /\ Memory!Last(Covering(one, two, group)) = IF group \in two.groups THEN two ELSE one
<1> DEFINE s == <<one, two>>
           V == {one, two}
           keep == {d \in ToSet(s) : group \in d.groups}
           a == Among(s, keep)
<1>1. s \in Seq(V) /\ Len(s) = 2 /\ s[1] = one /\ s[2] = two
  OBVIOUS
<1>2. ToSet(s) = V
  BY DEF ToSet
<1> HIDE DEF s
<1>3. s[1] \in keep /\ (s[2] \in keep <=> group \in two.groups)
  BY <1>1, <1>2
<1>4. Memory!Among(s, {d \in Memory!ToSet(s) : group \in d.groups}) = a
  <2>1. Memory!ToSet(s) = ToSet(s)
    BY SameToSetMemory
  <2>2. Memory!Among(s, keep) = a
    <3> HIDE DEF keep, V
    <3> QED BY <1>1, AmongPicks
  <2> QED BY <2>1, <2>2
<1> HIDE DEF keep, V
<1>5. \A m \in 1..Len(s) : s[m] \in keep /\ (\A i \in 1..Len(s) : i > m => s[i] \notin keep)
                              => a # <<>> /\ a[Len(a)] = s[m]
  BY <1>1, AmongLast
<1> HIDE DEF a
<1>6. a # <<>> /\ a[Len(a)] = IF group \in two.groups THEN two ELSE one
  <2>1. CASE group \in two.groups
    <3>1. 2 \in 1..Len(s) /\ \A i \in 1..Len(s) : ~(i > 2)
      BY <1>1
    <3> QED BY <1>1, <1>3, <1>5, <2>1, <3>1
  <2>2. CASE group \notin two.groups
    <3>1. 1 \in 1..Len(s) /\ \A i \in 1..Len(s) : i > 1 => i = 2
      BY <1>1
    <3> QED BY <1>1, <1>3, <1>5, <2>2, <3>1
  <2> QED BY <2>1, <2>2
<1>7. Memory!Last(a) = a[Len(a)]
  BY DEF Memory!Last
<1>8. Covering(one, two, group) = a
  BY <1>4 DEF Covering, s
<1> QED BY <1>6, <1>7, <1>8

LEMMA TwoOf == \A x, y : Append(<<x>>, y) = <<x, y>>
<1> SUFFICES ASSUME NEW x, NEW y PROVE Append(<<x>>, y) = <<x, y>>
  OBVIOUS
<1> DEFINE V == {x, y}
           s == Append(<<x>>, y)
           t == <<x, y>>
<1>1. <<x>> \in Seq(V) /\ Len(<<x>>) = 1 /\ y \in V /\ <<x>>[1] = x
  OBVIOUS
<1>2. s \in Seq(V) /\ Len(s) = 2 /\ s[1] = x /\ s[2] = y
  <2> DEFINE o == <<x>>
  <2> HIDE DEF o, V
  <2>1. o \in Seq(V) /\ Len(o) = 1 /\ y \in V /\ o[1] = x
    BY <1>1 DEF o
  <2>2. Append(o, y) \in Seq(V) /\ Len(Append(o, y)) = Len(o) + 1 /\ Append(o, y)[Len(o) + 1] = y
        /\ \A i \in 1..Len(o) : Append(o, y)[i] = o[i]
    <3>1. \A r \in Seq(V), z \in V :
            /\ Append(r, z) \in Seq(V) /\ Len(Append(r, z)) = Len(r) + 1 /\ Append(r, z)[Len(r) + 1] = z
            /\ \A i \in 1..Len(r) : Append(r, z)[i] = r[i]
      BY AppendProperties
    <3> QED BY <2>1, <3>1
  <2> QED BY <2>1, <2>2 DEF o
<1>3. t \in Seq(V) /\ Len(t) = 2 /\ t[1] = x /\ t[2] = y
  OBVIOUS
<1> HIDE DEF s, t, V
<1>4. DOMAIN s = 1..2 /\ DOMAIN t = 1..2 /\ s = [i \in 1..2 |-> s[i]] /\ t = [i \in 1..2 |-> t[i]]
  BY <1>2, <1>3, LenProperties
<1>5. \A i \in 1..2 : s[i] = t[i]
  <2>1. \A i \in 1..2 : i = 1 \/ i = 2
    OBVIOUS
  <2> QED BY <1>2, <1>3, <2>1
<1>6. s = t
  BY <1>4, <1>5
<1> QED BY <1>6 DEF s, t

LEMMA OntologyTold ==
    ASSUME NEW q, "g" \in q.one.groups,
           IsFiniteSet(DOMAIN q.core.entities), IsFiniteSet(DOMAIN q.one.entities), IsFiniteSet(DOMAIN q.two.entities)
    PROVE  OntologyAnswer(q, OnOntology(q))
<1> DEFINE domain == IF "g" \in q.two.groups THEN q.two ELSE q.one
           core == q.core
           c == Memory!Compose(core, <<q.one, q.two>>, "g")
           off == core.suppressed \cup domain.suppressed
           a == OnOntology(q)
<1>1. a = [composed |-> c, fields |-> Memory!DDLFields(c), tables |-> Memory!DDLTables(c),
           stored |-> [r \in {"base", "kind"} |-> Memory!IngestObservation(c, r)]]
  <2> DEFINE reg == [core |-> q.core, domains |-> <<q.one>>, cache |-> {}]
             first == Memory!ComposeCached(reg, "g").reg
             loaded == Memory!LoadFile(first, q.two)
  <2>1. first.core = q.core /\ first.domains = <<q.one>>
    BY DEF Memory!ComposeCached
  <2>2. loaded.core = q.core /\ loaded.domains = <<q.one, q.two>> /\ loaded.cache = {}
    <3>1. \E x : first = [reg EXCEPT !.cache = x]
      BY Zenon DEF Memory!ComposeCached
    <3>2. PICK x : first = [core |-> q.core, domains |-> <<q.one>>, cache |-> x]
      BY <3>1
    <3> HIDE DEF first
    <3>3. loaded = [first EXCEPT !.domains = Append(@, q.two), !.cache = {}]
      BY DEF Memory!LoadFile
    <3>4. loaded.core = first.core /\ loaded.cache = {} /\ loaded.domains = Append(first.domains, q.two)
      <4> DEFINE both == Append(first.domains, q.two)
      <4> HIDE DEF both
      <4>1. loaded = [first EXCEPT !.domains = both, !.cache = {}]
        BY <3>3 DEF both
      <4> HIDE DEF loaded
      <4>2. loaded.core = first.core /\ loaded.cache = {} /\ loaded.domains = both
        BY <3>2, <4>1
      <4> QED BY <4>2 DEF both
    <3>5. Append(<<q.one>>, q.two) = <<q.one, q.two>>
      BY TwoOf
    <3> HIDE DEF loaded
    <3> QED BY <2>1, <3>4, <3>5
  <2> HIDE DEF loaded
  <2>3. Memory!ComposeCached(loaded, "g").value = Memory!Compose(loaded.core, loaded.domains, "g")
    BY <2>2 DEF Memory!ComposeCached
  <2>4. Memory!ComposeCached(loaded, "g").value = c
    BY <2>2, <2>3
  <2> HIDE DEF c
  <2> QED BY <2>4, Zenon DEF OnOntology, loaded, first, reg
<1>2. IsFiniteSet(DOMAIN domain.entities)
  OBVIOUS
<1> DEFINE roles == (DOMAIN core.entities \cup DOMAIN domain.entities) \ off
           names == (DOMAIN core.edges \cup DOMAIN domain.edges) \ off
           merged(r) == IF r \in DOMAIN domain.entities
                        THEN Memory!MergeInheritedProps(domain.entities[r], r, core.entities, domain.entities)
                        ELSE core.entities[r]
<1>3. /\ DOMAIN c.entities = roles /\ DOMAIN c.edges = names
      /\ \A r \in roles : c.entities[r] = merged(r)
  <2> DEFINE covers == Memory!Among(<<q.one, q.two>>, {d \in Memory!ToSet(<<q.one, q.two>>) : "g" \in d.groups})
             pairs(file, e) == IF e \in DOMAIN file.edges THEN file.edges[e] ELSE {}
  <2>1. covers # <<>> /\ Memory!Last(covers) = domain
    <3>1. covers = Covering(q.one, q.two, "g")
      BY DEF Covering
    <3> HIDE DEF covers
    <3> QED BY <3>1, LastCovers
  <2> HIDE DEF domain
  <2>2. c = [entities |-> [r \in roles |-> merged(r)],
             edges |-> [e \in names |-> pairs(core, e) \cup pairs(domain, e)]]
    BY <2>1 DEF Memory!Compose
  <2> HIDE DEF c, merged, roles, names, core
  <2> QED BY <2>2
<1>4. \A r \in roles \cap DOMAIN domain.entities : \A p \in DOMAIN domain.entities[r].props :
            merged(r).props[p] = domain.entities[r].props[p]
  <2> HIDE DEF domain, roles
  <2> QED BY <1>2, OwnPropsWin
<1>5. \A r \in DOMAIN c.entities : DOMAIN c.entities[r].props \subseteq DOMAIN Memory!DDLFields(c)
  <2> HIDE DEF c
  <2> QED BY DEF Memory!DDLFields
<1>6. \A r : Memory!IngestObservation(c, r) = "entity" => r \in DOMAIN c.entities
  <2> HIDE DEF c
  <2> QED BY DEF Memory!IngestObservation
<1> HIDE DEF c, merged
<1>7. /\ a.composed = c /\ a.fields = Memory!DDLFields(c)
      /\ \A r \in {"base", "kind"} : a.stored[r] = Memory!IngestObservation(c, r)
  <2> HIDE DEF a
  <2> QED BY <1>1
<1> HIDE DEF a
<1>8. /\ (DOMAIN a.composed.entities \cup DOMAIN a.composed.edges) \cap off = {}
      /\ DOMAIN domain.entities \ off \subseteq DOMAIN a.composed.entities
  <2> HIDE DEF off, domain, core
  <2> QED BY <1>3, <1>7
<1>9. \A r \in DOMAIN a.composed.entities \cap DOMAIN domain.entities : \A p \in DOMAIN domain.entities[r].props :
            a.composed.entities[r].props[p] = domain.entities[r].props[p]
  <2> HIDE DEF roles, domain
  <2> QED BY <1>3, <1>4, <1>7
<1>10. \A r \in {"base", "kind"} : a.stored[r] = "entity" => r \in DOMAIN a.composed.entities
  BY <1>6, <1>7
<1>11. \A r \in DOMAIN a.composed.entities : DOMAIN a.composed.entities[r].props \subseteq DOMAIN a.fields
  BY <1>5, <1>7
<1>12. OntologyAnswer(q, a)
  BY <1>8, <1>9, <1>10, <1>11, Zenon DEF OntologyAnswer, domain, off, core
<1> QED BY <1>12 DEF a

-----------------------------------------------------------------------------
(* What is told of a memory: hits are gated, kept from being told twice, cut.   *)


LEMMA TopIs ==
    ASSUME NEW V, NEW s \in Seq(V), NEW n \in Nat
    PROVE  LET r == Memory!Top(s, n) IN
           /\ r \in Seq(V) /\ Len(r) <= n /\ ToSet(r) \subseteq ToSet(s)
           /\ s # <<>> /\ n # 0 => r # <<>>
<1> DEFINE l == Len(s)
           m == IF l < n THEN l ELSE n
           r == SubSeq(s, 1, m)
<1>1. l \in Nat /\ DOMAIN s = 1..l /\ \A i \in 1..l : s[i] \in V
  BY LenProperties, ElementOfSeq
<1>2. m \in Nat /\ m <= l /\ m <= n /\ (l # 0 /\ n # 0 => m # 0)
  <2> HIDE DEF l
  <2> QED BY <1>1
<1>3. Memory!Top(s, n) = r
  BY DEF Memory!Top
<1>4. l = 0 => s = <<>>
  BY EmptySeq
<1> HIDE DEF l, m
<1>5. /\ r \in Seq(V) /\ Len(r) = m
      /\ \A i \in 1..m : r[i] = s[i]
  <2>1. \A i \in 1..m : s[i] \in V
    BY <1>1, <1>2
  <2>2. m \in Int /\ 1 \in Int
    BY <1>2
  <2>3. /\ r \in Seq(V) /\ Len(r) = (IF 1 <= m THEN m - 1 + 1 ELSE 0)
        /\ \A i \in 1..(m - 1 + 1) : r[i] = s[1 + i - 1]
    BY <2>1, <2>2, SubSeqProperties
  <2>4. m - 1 + 1 = m /\ (~(1 <= m) => m = 0) /\ \A i \in 1..m : 1 + i - 1 = i
    BY <1>2
  <2> HIDE DEF r
  <2> QED BY <2>3, <2>4
<1> HIDE DEF r
<1>6. DOMAIN r = 1..m
  BY <1>5, LenProperties
<1>7. ToSet(r) \subseteq ToSet(s)
  <2> SUFFICES ASSUME NEW x \in ToSet(r) PROVE x \in ToSet(s)
    OBVIOUS
  <2>1. PICK i \in 1..m : x = r[i]
    BY <1>6 DEF ToSet
  <2>2. i \in DOMAIN s /\ x = s[i]
    BY <1>1, <1>2, <1>5, <2>1
  <2> QED BY <2>2 DEF ToSet
<1>8. s # <<>> /\ n # 0 => r # <<>>
  <2>1. Len(<<>>) = 0
    BY EmptySeq
  <2> QED BY <1>2, <1>4, <1>5, <2>1
<1> QED BY <1>2, <1>3, <1>5, <1>7, <1>8

(* Rows of which no two have the same key, and none a key that was seen.        *)
LEMMA FreshIs ==
    ASSUME NEW V, NEW rows \in Seq(V), NEW seen, NEW key
    PROVE  LET f == Memory!Fresh(rows, seen, key) IN
           /\ f.rows \in Seq(V) /\ ToSet(f.rows) \subseteq ToSet(rows)
           /\ \A k \in DOMAIN f.rows : f.rows[k][key] \notin seen
           /\ \A k, l \in DOMAIN f.rows : f.rows[k][key] = f.rows[l][key] => k = l
           /\ \A i \in DOMAIN rows : rows[i][key] \notin seen =>
                    \E k \in DOMAIN f.rows : f.rows[k][key] = rows[i][key]
           /\ f.seen = seen \cup {rows[i][key] : i \in DOMAIN rows}
<1> DEFINE n == Len(rows)
           t == Indices(rows)
           new == {i \in DOMAIN rows : /\ rows[i][key] \notin seen
                                       /\ \A j \in 1..(i - 1) : rows[j][key] # rows[i][key]}
           spot == Among(t, new)
           got == [k \in DOMAIN spot |-> rows[spot[k]]]
           f == Memory!Fresh(rows, seen, key)
<1>1. n \in Nat /\ DOMAIN rows = 1..n /\ \A i \in 1..n : rows[i] \in V
  BY LenProperties, ElementOfSeq
<1>2. t = [i \in 1..n |-> i]
  BY <1>1 DEF Indices
<1>3. t \in Seq(1..n) /\ Len(t) = n
  <2> HIDE DEF n, t
  <2>1. \A i \in 1..n : i \in 1..n
    OBVIOUS
  <2> QED BY <1>1, <1>2, IsASeq, LenProperties
<1>4. f.rows = got /\ f.seen = seen \cup {rows[i][key] : i \in DOMAIN rows}
  <2>1. Memory!Indices(rows) = t
    BY DEF Memory!Indices, Indices
  <2>2. Memory!Among(t, new) = spot
    <3> HIDE DEF new, t
    <3> QED BY <1>3, AmongPicks
  <2>3. f = [rows |-> [k \in DOMAIN Memory!Among(Memory!Indices(rows), new) |->
                            rows[Memory!Among(Memory!Indices(rows), new)[k]]],
             seen |-> seen \cup {rows[i][key] : i \in DOMAIN rows}]
    BY Zenon DEF Memory!Fresh
  <2> HIDE DEF f, t, new, spot
  <2> QED BY <2>1, <2>2, <2>3
<1> HIDE DEF t, n
<1>6. PICK g : spot \in Seq(1..n) /\ Picks(t, n, new, spot, g)
  <2> HIDE DEF new
  <2> QED BY <1>3, AmongPicks
<1>7. DOMAIN spot = 1..Len(spot) /\ Len(spot) \in Nat
  <2> HIDE DEF spot
  <2> QED BY <1>6, LenProperties
<1> HIDE DEF spot
<1>8. /\ \A j \in 1..Len(spot) : g[j] \in 1..n /\ spot[j] = g[j] /\ g[j] \in new
      /\ \A i, j \in 1..Len(spot) : i < j => g[i] < g[j]
      /\ \A i \in 1..n : i \in new => \E j \in 1..Len(spot) : g[j] = i
  BY <1>2, <1>6 DEF Picks
<1>5. got \in Seq(V) /\ DOMAIN got = 1..Len(spot) /\ \A k \in 1..Len(spot) : got[k] = rows[g[k]]
  <2> DEFINE m == Len(spot)
             E(k) == rows[spot[k]]
  <2>1. \A k \in 1..m : E(k) \in V
    BY <1>1, <1>8
  <2>2. got = [k \in 1..m |-> E(k)]
    BY <1>7
  <2> HIDE DEF E, m
  <2>3. [k \in 1..m |-> E(k)] \in Seq(V)
    BY <1>7, <2>1, IsASeq DEF m
  <2>4. DOMAIN got = 1..Len(spot) /\ \A k \in 1..Len(spot) : got[k] = rows[g[k]]
    BY <1>7, <1>8
  <2> HIDE DEF got
  <2> QED BY <2>2, <2>3, <2>4
<1> HIDE DEF got
<1>9. ASSUME NEW k \in 1..Len(spot), NEW l \in 1..Len(spot), k < l, got[k][key] = got[l][key] PROVE FALSE
  <2>1. got[k] = rows[g[k]] /\ got[l] = rows[g[l]] /\ g[k] \in 1..n /\ g[l] \in 1..n /\ g[k] < g[l] /\ g[l] \in new
    BY <1>5, <1>8, <1>9
  <2>2. g[k] \in 1..(g[l] - 1)
    BY <1>1, <2>1
  <2> QED BY <1>9, <2>1, <2>2
<1>10. \A k, l \in DOMAIN got : got[k][key] = got[l][key] => k = l
  <2> SUFFICES ASSUME NEW k \in 1..Len(spot), NEW l \in 1..Len(spot), got[k][key] = got[l][key] PROVE k = l
    BY <1>5
  <2>1. k < l \/ l < k \/ k = l
    BY <1>7
  <2> QED BY <1>9, <2>1
<1>11. ASSUME NEW i \in DOMAIN rows, rows[i][key] \notin seen
       PROVE  \E k \in DOMAIN got : got[k][key] = rows[i][key]
  <2> DEFINE P == {j \in 1..n : rows[j][key] = rows[i][key]}
  <2>1. i \in P /\ P \in SUBSET Nat
    BY <1>1
  <2>2. PICK e \in P : \A x \in P : e <= x
    <3> HIDE DEF P
    <3> QED BY <2>1, LeastMember
  <2>3. \A j \in 1..(e - 1) : j \in 1..n /\ ~(e <= j)
    BY <1>1, <2>2
  <2>4. e \in new
    BY <1>1, <1>11, <2>2, <2>3
  <2>5. PICK k \in 1..Len(spot) : g[k] = e
    BY <1>8, <2>2, <2>4
  <2> QED BY <1>5, <2>2, <2>5
<1>12. \A k \in DOMAIN got : got[k][key] \notin seen
  BY <1>5, <1>8
<1>13. ToSet(got) \subseteq ToSet(rows)
  BY <1>1, <1>5, <1>8 DEF ToSet
<1> QED BY <1>4, <1>5, <1>10, <1>11, <1>12, <1>13

(* As many rows as keys, when no two rows have the same.                       *)
LEMMA OneKeyEach ==
    ASSUME NEW V, NEW rows \in Seq(V), NEW key, \A k, l \in DOMAIN rows : rows[k][key] = rows[l][key] => k = l
    PROVE  Cardinality({r[key] : r \in ToSet(rows)}) = Len(rows) /\ IsFiniteSet({r[key] : r \in ToSet(rows)})
<1> DEFINE n == Len(rows)
           keys == {r[key] : r \in ToSet(rows)}
           f == [k \in 1..n |-> rows[k][key]]
<1>1. n \in Nat /\ DOMAIN rows = 1..n
  BY LenProperties
<1> HIDE DEF n
<1>2. \A k \in 1..n : f[k] \in keys
  BY <1>1 DEF ToSet
<1>3. \A x \in keys : \E k \in 1..n : f[k] = x
  BY <1>1 DEF ToSet
<1>4. \A k, l \in 1..n : f[k] = f[l] => k = l
  BY <1>1
<1>5. f \in [1..n -> keys]
  BY <1>2
<1> HIDE DEF keys, f
<1>6. f \in Bijection(1..n, keys)
  BY <1>3, <1>4, <1>5 DEF Bijection, Injection, Surjection, IsInjective
<1>7. IsFiniteSet(1..n) /\ Cardinality(1..n) = n
  <2>1. n \in Int /\ 1 \in Int /\ n >= 0
    BY <1>1
  <2>2. IsFiniteSet(1..n) /\ Cardinality(1..n) = IF 1 > n THEN 0 ELSE n - 1 + 1
    BY <2>1, FS_Interval
  <2> QED BY <2>1, <2>2
<1>8. Cardinality(keys) = n /\ IsFiniteSet(keys)
  BY <1>6, <1>7, FS_Bijection DEF ExistsBijection
<1> QED BY <1>8 DEF keys, n

(* Any hit of the scopes named.                                                *)
AnyHit(O) == [id : STRING, name : STRING, of : O, dist : Nat, text : STRING, wiki : BOOLEAN, typed : BOOLEAN]

LEMMA ScopesAre ==
    ASSUME NEW group \in STRING
    PROVE  LET s == Memory!EntitledScopes(group, "v1")
               all == {Memory!VigneScope(group), Memory!VignobleScope("v1"), Memory!Global}
           IN  s \in Seq(all) /\ ToSet(s) = IF group = "" THEN all \ {Memory!VigneScope(group)} ELSE all
<1> DEFINE v == Memory!VigneScope(group)
           w == Memory!VignobleScope("v1")
           g == Memory!Global
           all == {v, w, g}
           own == IF group = "" THEN <<>> ELSE <<v>>
<1>1. Memory!EntitledScopes(group, "v1") = own \o <<w>> \o <<g>>
  <2>1. "v1" # ""
    OBVIOUS
  <2> QED BY <2>1 DEF Memory!EntitledScopes
<1>2. v # w /\ v # g /\ w # g
  BY DEF Memory!VigneScope, Memory!VignobleScope, Memory!Global
<1> HIDE DEF v, w, g
<1>3. own \in Seq(all) /\ ToSet(own) = IF group = "" THEN {} ELSE {v}
  <2>1. CASE group = ""
    BY <2>1, EmptySeq, NothingIn
  <2>2. CASE group # ""
    <3>1. <<v>> \in Seq(all)
      OBVIOUS
    <3> QED BY <2>2, <3>1, OneIn
  <2> QED BY <2>1, <2>2
<1> DEFINE one == <<w>>
           two == <<g>>
<1>4. one \in Seq(all) /\ two \in Seq(all)
  OBVIOUS
<1>8. ToSet(one) = {w} /\ ToSet(two) = {g}
  <2> HIDE DEF all
  <2> QED BY OneIn
<1> HIDE DEF own, one, two
<1>9. w \in all /\ g \in all /\ v \in all
  OBVIOUS
<1> HIDE DEF all
<1>10. \A x, y \in Seq(all) : x \o y \in Seq(all) /\ ToSet(x \o y) = ToSet(x) \cup ToSet(y)
  BY ConcatSet
<1>5. own \o one \in Seq(all) /\ ToSet(own \o one) = ToSet(own) \cup ToSet(one)
  BY <1>3, <1>4, <1>10
<1>6. own \o one \o two \in Seq(all) /\ ToSet(own \o one \o two) = ToSet(own \o one) \cup ToSet(two)
  BY <1>4, <1>5, <1>10
<1>7. ToSet(own \o one \o two) = IF group = "" THEN all \ {v} ELSE all
  BY <1>2, <1>3, <1>5, <1>6, <1>8 DEF all
<1> QED BY <1>1, <1>6, <1>7, Zenon DEF one, two, all, v, w, g

LEMMA QueryIs ==
    ASSUME NEW O, NEW of \in O, NEW db \in Memory!Databases(of), NEW embedded
    PROVE  Memory!QueryScope(db, embedded) \in Seq(AnyHit(O))
<1> DEFINE A == AnyHit(O)
           near(rows) == IF embedded THEN rows ELSE <<>>
<1>1. ASSUME NEW rows \in Seq(A) PROVE near(rows) \in Seq(A) /\ Memory!Unscored(rows) \in Seq(A)
  <2> DEFINE n == Len(rows)
             E(i) == [rows[i] EXCEPT !.dist = 0]
  <2>1. n \in Nat /\ DOMAIN rows = 1..n /\ \A i \in 1..n : rows[i] \in A
    BY LenProperties, ElementOfSeq
  <2> HIDE DEF n
  <2>2. \A i \in 1..n : E(i) \in A
    BY <2>1 DEF AnyHit
  <2>3. Memory!Unscored(rows) = [i \in 1..n |-> E(i)]
    BY <2>1 DEF Memory!Unscored
  <2> HIDE DEF E, A
  <2>4. [i \in 1..n |-> E(i)] \in Seq(A)
    BY <2>1, <2>2, IsASeq
  <2>5. near(rows) \in Seq(A)
    BY EmptySeq
  <2> QED BY <2>3, <2>4, <2>5
<1>2. /\ db.vec \in Seq(A) /\ db.text \in Seq(A) /\ db.wikiVec \in Seq(A) /\ db.wikiText \in Seq(A)
  <2>1. /\ db.vec \in Seq(Memory!Hits(of, {FALSE})) /\ db.text \in Seq(Memory!Hits(of, {FALSE}))
        /\ db.wikiVec \in Seq(Memory!Hits(of, {TRUE})) /\ db.wikiText \in Seq(Memory!Hits(of, {TRUE}))
    BY DEF Memory!Databases
  <2>2. Memory!Hits(of, {FALSE}) \subseteq A /\ Memory!Hits(of, {TRUE}) \subseteq A
    BY DEF Memory!Hits, AnyHit
  <2> HIDE DEF A
  <2> QED BY <2>1, <2>2, SeqMonotonic
<1> DEFINE a == near(db.vec)
           b == Memory!Unscored(db.text)
           c == near(db.wikiVec)
           d == Memory!Unscored(db.wikiText)
<1>3. a \in Seq(A) /\ b \in Seq(A) /\ c \in Seq(A) /\ d \in Seq(A)
  <2> HIDE DEF A, near
  <2> QED BY <1>1, <1>2
<1>4. Memory!QueryScope(db, embedded) = IF db.up THEN a \o b \o c \o d ELSE <<>>
  BY DEF Memory!QueryScope
<1> HIDE DEF a, b, c, d, A
<1>5. a \o b \o c \o d \in Seq(A)
  <2>1. \A x, y \in Seq(A) : x \o y \in Seq(A)
    BY ConcatProperties
  <2> QED BY <1>3, <2>1
<1> QED BY <1>4, <1>5, EmptySeq DEF A

(* What is kept of a list that has something is something.                     *)
LEMMA GateIs ==
    ASSUME NEW V, NEW hits \in Seq(V)
    PROVE  LET g == Memory!GateByRelevance(hits) IN
           g \in Seq(V) /\ ToSet(g) \subseteq ToSet(hits) /\ (hits # <<>> => g # <<>>)
<1> DEFINE keep == {h \in ToSet(hits) : h.dist <= Near}
           within == Among(hits, keep)
           top == Memory!Top(hits, Few)
<1>1. within \in Seq(V) /\ ToSet(within) \subseteq ToSet(hits)
  <2> HIDE DEF keep
  <2> QED BY AmongSet
<1>2. top \in Seq(V) /\ ToSet(top) \subseteq ToSet(hits) /\ (hits # <<>> => top # <<>>)
  <2>1. Few \in Nat /\ Few # 0
    BY MemoryAssumption
  <2> QED BY <2>1, TopIs
<1>3. Memory!GateByRelevance(hits) = IF within # <<>> THEN within ELSE top
  <2>1. Memory!Among(hits, keep) = within
    <3> HIDE DEF keep
    <3> QED BY AmongPicks
  <2>2. Memory!ToSet(hits) = ToSet(hits)
    BY SameToSetMemory
  <2> HIDE DEF within, top
  <2> QED BY <2>1, <2>2 DEF Memory!GateByRelevance, top
<1> HIDE DEF within, top
<1> QED BY <1>1, <1>2, <1>3

LEMMA SummaryIs ==
    ASSUME NEW V, NEW hits \in Seq(V), NEW asked
    PROVE  Memory!Summarize(asked, hits) \subseteq {h.name : h \in ToSet(hits)}
<1> DEFINE keep == {h \in ToSet(hits) : h.text # ""}
           told == Among(hits, keep)
           top == Memory!Top(told, 1)
<1>1. told \in Seq(V) /\ ToSet(told) \subseteq ToSet(hits)
  <2> HIDE DEF keep
  <2> QED BY AmongSet
<1>2. Memory!Among(hits, keep) = told
  <2> HIDE DEF keep
  <2> QED BY AmongPicks
<1>3. ToSet(top) \subseteq ToSet(hits)
  <2> HIDE DEF told
  <2> QED BY <1>1, TopIs
<1>4. Memory!ToSet(hits) = ToSet(hits) /\ Memory!ToSet(top) = ToSet(top)
  BY SameToSetMemory
<1>5. Memory!Summarize(asked, hits) \in {{}, {h.name : h \in ToSet(top)}, {h.name : h \in ToSet(hits)}}
  <2> HIDE DEF told
  <2>1. Memory!Summarize(asked, hits) =
            CASE hits = <<>> -> {}
              [] hits # <<>> /\ asked = "none" -> {h.name : h \in Memory!ToSet(Memory!Top(Memory!Among(hits, {h \in Memory!ToSet(hits) : h.text # ""}), 1))}
              [] OTHER -> {h.name : h \in Memory!ToSet(hits)}
    BY Zenon DEF Memory!Summarize
  <2> QED BY <1>2, <1>4, <2>1
<1> QED BY <1>3, <1>5

(* One answer: the hits of a turn, and what has been said when it is over.     *)
Turn(q, said) == Memory!HandleRecall(q.group, "v1", "session", q.dbs, q.embedded, q.llm, said)

LEMMA TurnIs ==
    ASSUME NEW q, q.group \in STRING, NEW said,
           \A s \in ToSet(Memory!EntitledScopes(q.group, "v1")) :
                q.dbs[s] \in Memory!Databases(IF s.tier = "global" THEN "global" ELSE s.of)
    PROVE  LET r == Turn(q, said)
               O == {"global", "v1", q.group}
               names == {h.name : h \in ToSet(r.hits)}
           IN  /\ r.hits \in Seq(AnyHit(O))
               /\ names \cap said = {} /\ Cardinality(names) = Len(r.hits)
               /\ names \subseteq r.said
               /\ r.context \subseteq names
               /\ r.candidates # <<>> /\ said = {} => r.hits # <<>>
<1> DEFINE O == {"global", "v1", q.group}
           A == AnyHit(O)
           scopes == Memory!EntitledScopes(q.group, "v1")
           n == Len(scopes)
           E(i) == Memory!QueryScope(q.dbs[scopes[i]], q.embedded)
           lists == [i \in 1..n |-> E(i)]
           all == FlattenSeq(lists)
           found == Memory!Fresh(all, {}, "id").rows
           gated == Memory!GateByRelevance(found)
           fresh == Memory!Fresh(gated, said, "name")
           r == Turn(q, said)
<1>1. /\ n \in Nat /\ DOMAIN scopes = 1..n
      /\ \A i \in 1..n : scopes[i] \in {Memory!VigneScope(q.group), Memory!VignobleScope("v1"), Memory!Global}
      /\ \A i \in 1..n : scopes[i] \in ToSet(scopes)
  <2>1. scopes \in Seq({Memory!VigneScope(q.group), Memory!VignobleScope("v1"), Memory!Global})
    BY ScopesAre
  <2> HIDE DEF scopes
  <2> QED BY <2>1, LenProperties, ElementOfSeq DEF ToSet
<1>2. \A i \in 1..n : E(i) \in Seq(A)
  <2> SUFFICES ASSUME NEW i \in 1..n PROVE E(i) \in Seq(A)
    OBVIOUS
  <2> DEFINE s == scopes[i]
             of == IF s.tier = "global" THEN "global" ELSE s.of
  <2>1. s \in {Memory!VigneScope(q.group), Memory!VignobleScope("v1"), Memory!Global} /\ s \in ToSet(scopes)
    BY <1>1
  <2> HIDE DEF s
  <2>2. of \in O
    <3>1. CASE s = Memory!Global
      BY <3>1 DEF Memory!Global
    <3>2. CASE s = Memory!VignobleScope("v1")
      <4>1. s.of = "v1" /\ s.tier = "vignoble"
        BY <3>2 DEF Memory!VignobleScope
      <4> QED BY <4>1
    <3>3. CASE s = Memory!VigneScope(q.group)
      <4>1. s.of = q.group /\ s.tier = "vigne"
        BY <3>3 DEF Memory!VigneScope
      <4> QED BY <4>1
    <3> QED BY <2>1, <3>1, <3>2, <3>3
  <2>3. q.dbs[s] \in Memory!Databases(of)
    BY <2>1
  <2> HIDE DEF of, O
  <2>4. Memory!QueryScope(q.dbs[s], q.embedded) \in Seq(AnyHit(O))
    BY <2>2, <2>3, QueryIs
  <2> QED BY <2>4 DEF s
<1> HIDE DEF E, n, scopes, A
<1>3. lists \in Seq(Seq(A))
  BY <1>1, <1>2, IsASeq
<1> HIDE DEF lists
<1>4. all \in Seq(A) /\ Memory!FlattenSeq(lists) = all
  <2>1. PICK flat \in [0..Len(lists) -> Seq(A)] : all = flat[Len(lists)]
    BY <1>3, FlattenGrows
  <2>2. Len(lists) \in 0..Len(lists)
    BY <1>3, LenProperties
  <2> QED BY <1>3, <2>1, <2>2, FlattenGrows
<1> HIDE DEF all
<1>5. found \in Seq(A)
  BY <1>4, FreshIs
<1> HIDE DEF found
<1>6. gated \in Seq(A) /\ ToSet(gated) \subseteq ToSet(found) /\ (found # <<>> => gated # <<>>)
  BY <1>5, GateIs
<1> HIDE DEF gated
<1>7. /\ fresh.rows \in Seq(A) /\ ToSet(fresh.rows) \subseteq ToSet(gated)
      /\ \A k \in DOMAIN fresh.rows : fresh.rows[k]["name"] \notin said
      /\ \A k, l \in DOMAIN fresh.rows : fresh.rows[k]["name"] = fresh.rows[l]["name"] => k = l
      /\ \A i \in DOMAIN gated : gated[i]["name"] \notin said =>
                \E k \in DOMAIN fresh.rows : fresh.rows[k]["name"] = gated[i]["name"]
      /\ fresh.seen = said \cup {gated[i]["name"] : i \in DOMAIN gated}
  BY <1>6, FreshIs
<1> HIDE DEF fresh
<1>8. /\ r.hits = fresh.rows /\ r.said = fresh.seen /\ r.candidates = found
      /\ r.context = Memory!Summarize(q.llm, fresh.rows)
  <2>1. [i \in DOMAIN scopes |-> Memory!QueryScope(q.dbs[scopes[i]], q.embedded)] = lists
    BY <1>1 DEF lists, E
  <2>2. "session" # ""
    OBVIOUS
  <2>3. r = LET fr == IF "session" = "" THEN [rows |-> gated, seen |-> said] ELSE Memory!Filter(said, gated)
            IN  [candidates |-> found, hits |-> fr.rows, said |-> fr.seen, context |-> Memory!Summarize(q.llm, fr.rows)]
    <3> DEFINE lists0 == [i \in DOMAIN scopes |-> Memory!QueryScope(q.dbs[scopes[i]], q.embedded)]
               found0 == Memory!Fresh(Memory!FlattenSeq(lists0), {}, "id").rows
               gated0 == Memory!GateByRelevance(found0)
    <3>1. r = LET fr == IF "session" = "" THEN [rows |-> gated0, seen |-> said] ELSE Memory!Filter(said, gated0)
              IN  [candidates |-> found0, hits |-> fr.rows, said |-> fr.seen, context |-> Memory!Summarize(q.llm, fr.rows)]
      BY Zenon DEF Turn, Memory!HandleRecall, scopes
    <3>2. found0 = found
      BY <1>4, <2>1 DEF found
    <3> HIDE DEF found0, r
    <3>3. gated0 = gated
      BY <3>2 DEF gated
    <3> HIDE DEF gated0
    <3> QED BY <3>1, <3>2, <3>3
  <2>4. Memory!Filter(said, gated) = fresh
    BY Zenon DEF Memory!Filter, fresh
  <2> HIDE DEF r
  <2> QED BY <2>2, <2>3, <2>4
<1> HIDE DEF r
<1> DEFINE rows == r.hits
           names == {h.name : h \in ToSet(rows)}
<1>9. rows \in Seq(A) /\ names = {h["name"] : h \in ToSet(rows)}
  BY <1>7, <1>8
<1>10. Cardinality({h["name"] : h \in ToSet(rows)}) = Len(rows)
  <2> HIDE DEF names
  <2>1. \A k, l \in DOMAIN rows : rows[k]["name"] = rows[l]["name"] => k = l
    BY <1>7, <1>8
  <2> HIDE DEF rows
  <2> QED BY <1>9, <2>1, OneKeyEach
<1>11. names \cap said = {}
  BY <1>7, <1>8 DEF ToSet
<1>12. names \subseteq r.said
  <2>1. ToSet(rows) \subseteq ToSet(gated)
    BY <1>7, <1>8
  <2>2. \A h \in ToSet(gated) : h.name \in r.said
    BY <1>7, <1>8 DEF ToSet
  <2> QED BY <2>1, <2>2
<1>13. r.context \subseteq names
  <2> HIDE DEF rows
  <2>1. Memory!Summarize(q.llm, rows) \subseteq {h.name : h \in ToSet(rows)}
    BY <1>9, SummaryIs
  <2> QED BY <1>8, <2>1 DEF rows
<1>14. ASSUME r.candidates # <<>>, said = {} PROVE r.hits # <<>>
  <2>1. gated # <<>> /\ gated \in Seq(A)
    BY <1>6, <1>8, <1>14
  <2>2. 1 \in DOMAIN gated
    BY <2>1, EmptySeq, LenProperties
  <2>3. PICK k \in DOMAIN fresh.rows : TRUE
    BY <1>7, <1>14, <2>2
  <2>4. DOMAIN <<>> = {}
    OBVIOUS
  <2> QED BY <1>8, <2>3, <2>4
<1>15. rows \in Seq(AnyHit(O)) /\ Cardinality(names) = Len(rows)
  BY <1>9, <1>10 DEF A
<1> QED BY <1>11, <1>12, <1>13, <1>14, <1>15, Zenon DEF r, rows

RecallAnswer(q, a) ==
    LET names(r) == {h.name : h \in ToSet(r.hits)} IN
    /\ names(a[1]) \cap names(a[2]) = {} /\ Len(a[1].hits) = Cardinality(names(a[1]))
    /\ a[1].candidates # <<>> => a[1].hits # <<>>
    /\ a[1].context \subseteq names(a[1])
    /\ \A h \in ToSet(a[1].hits) : h.of \in {"global", "v1", q.group}

LEMMA RecallTold ==
    ASSUME NEW q, q.group \in STRING,
           \A s \in ToSet(Memory!EntitledScopes(q.group, "v1")) :
                q.dbs[s] \in Memory!Databases(IF s.tier = "global" THEN "global" ELSE s.of)
    PROVE  RecallAnswer(q, OnRecall(q))
<1> DEFINE one == Turn(q, {})
           two == Turn(q, one.said)
           a == OnRecall(q)
           names(r) == {h.name : h \in ToSet(r.hits)}
           O == {"global", "v1", q.group}
<1>1. a[1] = one /\ a[2] = two
  BY DEF OnRecall, Turn
<1>2. /\ one.hits \in Seq(AnyHit(O)) /\ Cardinality(names(one)) = Len(one.hits)
      /\ names(one) \subseteq one.said /\ one.context \subseteq names(one)
      /\ one.candidates # <<>> => one.hits # <<>>
  BY TurnIs
<1>3. names(two) \cap one.said = {}
  <2> HIDE DEF one
  <2> QED BY TurnIs
<1> HIDE DEF one, two, a
<1>4. \A h \in ToSet(one.hits) : h.of \in O
  <2>1. \A i \in DOMAIN one.hits : one.hits[i] \in AnyHit(O)
    <3> HIDE DEF O
    <3> QED BY <1>2, LenProperties, ElementOfSeq
  <2>2. \A h \in AnyHit(O) : h.of \in O
    BY DEF AnyHit
  <2> QED BY <2>1, <2>2 DEF ToSet
<1>5. RecallAnswer(q, a)
  BY <1>1, <1>2, <1>3, <1>4 DEF RecallAnswer
<1> QED BY <1>5 DEF a

LEMMA SetOf == ASSUME NEW V, NEW s \in Seq(V) PROVE ToSet(s) \subseteq V
BY LenProperties, ElementOfSeq DEF ToSet

(* What a scope brings to a new session: pages, and what is typed of its own.  *)
LEMMA BootHitsAre ==
    ASSUME NEW O, NEW of \in O, NEW db \in Memory!Databases(of), NEW own \in BOOLEAN, NEW embedded
    PROVE  LET r == Memory!BootHits(db, own, embedded, 2) IN
           /\ r \in Seq(AnyHit(O)) /\ Len(r) <= 4 /\ (~own => Len(r) <= 2)
           /\ \A e \in ToSet(r) : e.wiki \/ (own /\ e.of = of)
<1> DEFINE A == AnyHit(O)
           P == Memory!Hits(of, {TRUE})
           T == Memory!Hits(of, {FALSE})
           near(rows) == IF embedded THEN rows ELSE <<>>
           named(rows) == Memory!Among(rows, {h \in Memory!ToSet(rows) : h.name # ""})
           read == Memory!Top(near(db.wikiVec), 2) \o Memory!Top(db.wikiText, 2)
           pages == Memory!Fresh(read, {}, "id").rows
           found == Memory!Top(near(db.vec), 2) \o Memory!Top(db.text, 2)
           few == Memory!Among(found, {h \in Memory!ToSet(found) : h.typed})
           typed == Memory!Fresh(few, {}, "id").rows
           shown == Memory!Top(named(pages), 2)
           both == shown \o named(typed)
           top == Memory!Top(both, 4)
           r == Memory!BootHits(db, own, embedded, 2)
<1>1. /\ db.vec \in Seq(T) /\ db.text \in Seq(T)
      /\ db.wikiVec \in Seq(P) /\ db.wikiText \in Seq(P)
  BY DEF Memory!Databases
<1>2. P \subseteq A /\ T \subseteq A
  BY DEF Memory!Hits, AnyHit
<1>3. (\A e \in P : e.wiki) /\ (\A e \in T : e.of = of)
  BY DEF Memory!Hits
<1>4. r = IF ~db.up THEN <<>> ELSE IF ~own THEN shown ELSE top
  <2>1. 2 * 2 = 4
    OBVIOUS
  <2>2. r = IF ~db.up THEN <<>> ELSE IF ~own THEN shown ELSE Memory!Top(both, 2 * 2)
    BY Zenon DEF Memory!BootHits
  <2> HIDE DEF r, shown, both
  <2> QED BY <2>1, <2>2
<1> HIDE DEF r, A, P, T
<1>5. ASSUME NEW V PROVE \A rows \in Seq(V) :
        /\ near(rows) \in Seq(V)
        /\ Memory!Top(rows, 2) \in Seq(V) /\ Len(Memory!Top(rows, 2)) <= 2
        /\ Memory!Top(rows, 4) \in Seq(V) /\ Len(Memory!Top(rows, 4)) <= 4
        /\ ToSet(Memory!Top(rows, 4)) \subseteq ToSet(rows)
        /\ \A keep : Memory!Among(rows, keep) \in Seq(V)
        /\ Memory!Fresh(rows, {}, "id").rows \in Seq(V)
  <2> SUFFICES ASSUME NEW rows \in Seq(V)
               PROVE /\ near(rows) \in Seq(V)
                     /\ Memory!Top(rows, 2) \in Seq(V) /\ Len(Memory!Top(rows, 2)) <= 2
                     /\ Memory!Top(rows, 4) \in Seq(V) /\ Len(Memory!Top(rows, 4)) <= 4
                     /\ ToSet(Memory!Top(rows, 4)) \subseteq ToSet(rows)
                     /\ \A keep : Memory!Among(rows, keep) \in Seq(V)
                     /\ Memory!Fresh(rows, {}, "id").rows \in Seq(V)
    OBVIOUS
  <2>1. near(rows) \in Seq(V)
    BY EmptySeq
  <2>2. 2 \in Nat /\ 4 \in Nat
    OBVIOUS
  <2>3. Memory!Top(rows, 2) \in Seq(V) /\ Len(Memory!Top(rows, 2)) <= 2
    BY <2>2, TopIs
  <2>4. /\ Memory!Top(rows, 4) \in Seq(V) /\ Len(Memory!Top(rows, 4)) <= 4
        /\ ToSet(Memory!Top(rows, 4)) \subseteq ToSet(rows)
    BY <2>2, TopIs
  <2>5. \A keep : Memory!Among(rows, keep) \in Seq(V)
    BY AmongPicks
  <2>6. Memory!Fresh(rows, {}, "id").rows \in Seq(V)
    BY FreshIs
  <2> HIDE DEF near
  <2> QED BY <2>1, <2>3, <2>4, <2>5, <2>6
<1>6. \A V : \A s, t \in Seq(V) : s \o t \in Seq(V) /\ ToSet(s \o t) = ToSet(s) \cup ToSet(t)
  BY ConcatSet
<1> HIDE DEF near
<1>7. pages \in Seq(P)
  <2>1. read \in Seq(P)
    <3>1. near(db.wikiVec) \in Seq(P)
      BY <1>1, <1>5
    <3>2. Memory!Top(near(db.wikiVec), 2) \in Seq(P) /\ Memory!Top(db.wikiText, 2) \in Seq(P)
      BY <1>1, <1>5, <3>1
    <3> QED BY <1>6, <3>2
  <2> HIDE DEF read
  <2> QED BY <1>5, <2>1
<1>8. typed \in Seq(T)
  <2>1. found \in Seq(T)
    <3>1. near(db.vec) \in Seq(T)
      BY <1>1, <1>5
    <3>2. Memory!Top(near(db.vec), 2) \in Seq(T) /\ Memory!Top(db.text, 2) \in Seq(T)
      BY <1>1, <1>5, <3>1
    <3> QED BY <1>6, <3>2
  <2> HIDE DEF found
  <2>2. few \in Seq(T)
    BY <1>5, <2>1
  <2> HIDE DEF few
  <2> QED BY <1>5, <2>2
<1> HIDE DEF pages, typed
<1>9. named(pages) \in Seq(P) /\ named(typed) \in Seq(T)
  BY <1>5, <1>7, <1>8
<1> HIDE DEF named
<1>10. shown \in Seq(P) /\ Len(shown) <= 2
  BY <1>5, <1>9
<1> HIDE DEF shown
<1>11. shown \in Seq(A) /\ named(typed) \in Seq(A)
  BY <1>2, <1>9, <1>10, SeqMonotonic
<1>12. both \in Seq(A) /\ ToSet(both) = ToSet(shown) \cup ToSet(named(typed))
  BY <1>6, <1>11
<1> HIDE DEF both
<1>13. top \in Seq(A) /\ Len(top) <= 4 /\ ToSet(top) \subseteq ToSet(both)
  BY <1>5, <1>12
<1>14. \A e \in ToSet(shown) : e.wiki
  BY <1>3, <1>10, SetOf
<1>15. \A e \in ToSet(named(typed)) : e.of = of
  BY <1>3, <1>9, SetOf
<1> HIDE DEF top
<1>16. Len(shown) <= 4
  BY <1>10, LenProperties
<1>17. /\ r \in Seq(A) /\ Len(r) <= 4 /\ (~own => Len(r) <= 2)
       /\ \A e \in ToSet(r) : e.wiki \/ (own /\ e.of = of)
  <2>1. CASE ~db.up
    <3>1. r = <<>>
      BY <1>4, <2>1
    <3>2. <<>> \in Seq(A) /\ Len(<<>>) = 0 /\ ToSet(<<>>) = {}
      BY EmptySeq, NothingIn
    <3> QED BY <3>1, <3>2
  <2>2. CASE db.up /\ ~own
    <3>1. r = shown
      BY <1>4, <2>2
    <3> QED BY <1>10, <1>11, <1>14, <1>16, <2>2, <3>1
  <2>3. CASE db.up /\ own
    <3>1. r = top
      BY <1>4, <2>3
    <3>2. \A e \in ToSet(r) : e.wiki \/ e.of = of
      BY <1>12, <1>13, <1>14, <1>15, <3>1, Zenon
    <3> QED BY <1>13, <2>3, <3>1, <3>2
  <2> QED BY <2>1, <2>2, <2>3
<1> QED BY <1>17 DEF r, A

BootAnswer(q, a) ==
    /\ Len(a) <= 8 /\ \A e \in ToSet(a) : e.wiki \/ e.of = q.group
    /\ \A e, f \in ToSet(a) : e.wiki /\ e.name = f.name => f.wiki

LEMMA BootTold ==
    ASSUME NEW q, q.group \in STRING,
           \A s \in ToSet(Memory!EntitledScopes(q.group, "v1")) :
                q.dbs[s] \in Memory!Databases(IF s.tier = "global" THEN "global" ELSE s.of)
    PROVE  BootAnswer(q, OnBoot(q))
<1> DEFINE O == {"global", "v1", q.group}
           A == AnyHit(O)
           vigne == Memory!VigneScope(q.group)
           hits(s) == Memory!BootHits(q.dbs[s], s = vigne, q.embedded, 2)
           one == hits(Memory!Global)
           two == hits(Memory!VignobleScope("v1"))
           three == hits(vigne)
           entries == one \o two \o three
           titles == {e.name : e \in {x \in ToSet(entries) : x.wiki}}
           keep == {e \in ToSet(entries) : e.wiki \/ e.name \notin titles}
           a == OnBoot(q)
<1>1. a = IF q.group = "" THEN <<>> ELSE Memory!DedupeBootEntries(entries)
  <2>1. ~("v1" = "")
    OBVIOUS
  <2>2. a = IF q.group = "" \/ "v1" = "" THEN <<>> ELSE Memory!DedupeBootEntries(entries)
    BY Zenon DEF OnBoot, Memory!BootContext
  <2> HIDE DEF entries, a
  <2> QED BY <2>1, <2>2
<1>2. CASE q.group = ""
  <2>1. a = <<>> /\ Len(<<>>) = 0 /\ ToSet(<<>>) = {}
    BY <1>1, <1>2, EmptySeq, NothingIn
  <2> HIDE DEF a
  <2>2. BootAnswer(q, a)
    BY <2>1 DEF BootAnswer
  <2> QED BY <2>2 DEF a
<1>3. CASE q.group # ""
  <2>1. {vigne, Memory!VignobleScope("v1"), Memory!Global} = ToSet(Memory!EntitledScopes(q.group, "v1"))
    BY <1>3, ScopesAre
  <2>2. /\ q.dbs[Memory!Global] \in Memory!Databases("global")
        /\ q.dbs[Memory!VignobleScope("v1")] \in Memory!Databases("v1")
        /\ q.dbs[vigne] \in Memory!Databases(q.group)
        /\ Memory!Global # vigne /\ Memory!VignobleScope("v1") # vigne
    <3>1. /\ Memory!Global.tier = "global" /\ Memory!VignobleScope("v1").tier = "vignoble"
          /\ Memory!VignobleScope("v1").of = "v1" /\ vigne.tier = "vigne" /\ vigne.of = q.group
      BY DEF Memory!Global, Memory!VigneScope, Memory!VignobleScope
    <3>2. "global" # "vigne" /\ "vignoble" # "vigne" /\ "vignoble" # "global"
      OBVIOUS
    <3> HIDE DEF vigne
    <3> QED BY <2>1, <3>1, <3>2
  <2> HIDE DEF vigne
  <2>3. one \in Seq(A) /\ Len(one) <= 2 /\ \A e \in ToSet(one) : e.wiki
    <3> DEFINE mine == (Memory!Global = vigne)
               here == q.dbs[Memory!Global]
    <3>1. mine \in BOOLEAN /\ ~mine /\ "global" \in O /\ here \in Memory!Databases("global")
      BY <2>2
    <3> HIDE DEF mine, here, O
    <3>2. LET r == Memory!BootHits(here, mine, q.embedded, 2) IN
          /\ r \in Seq(A) /\ (~mine => Len(r) <= 2) /\ \A e \in ToSet(r) : e.wiki \/ (mine /\ e.of = "global")
      BY <3>1, BootHitsAre
    <3> QED BY <3>1, <3>2, Zenon DEF mine, here
  <2>4. two \in Seq(A) /\ Len(two) <= 2 /\ \A e \in ToSet(two) : e.wiki
    <3> DEFINE mine == (Memory!VignobleScope("v1") = vigne)
               here == q.dbs[Memory!VignobleScope("v1")]
    <3>1. mine \in BOOLEAN /\ ~mine /\ "v1" \in O /\ here \in Memory!Databases("v1")
      BY <2>2
    <3> HIDE DEF mine, here, O
    <3>2. LET r == Memory!BootHits(here, mine, q.embedded, 2) IN
          /\ r \in Seq(A) /\ (~mine => Len(r) <= 2) /\ \A e \in ToSet(r) : e.wiki \/ (mine /\ e.of = "v1")
      BY <3>1, BootHitsAre
    <3> QED BY <3>1, <3>2, Zenon DEF mine, here
  <2>5. three \in Seq(A) /\ Len(three) <= 4 /\ \A e \in ToSet(three) : e.wiki \/ e.of = q.group
    <3> DEFINE mine == (vigne = vigne)
               here == q.dbs[vigne]
               g == q.group
    <3>1. mine \in BOOLEAN /\ mine /\ g \in O /\ here \in Memory!Databases(g)
      BY <2>2
    <3> HIDE DEF mine, here, O, g
    <3>2. LET r == Memory!BootHits(here, mine, q.embedded, 2) IN
          /\ r \in Seq(A) /\ Len(r) <= 4 /\ \A e \in ToSet(r) : e.wiki \/ (mine /\ e.of = g)
      BY <3>1, BootHitsAre
    <3> QED BY <3>1, <3>2, Zenon DEF mine, here, g
  <2> HIDE DEF one, two, three, A
  <2>6. one \o two \in Seq(A) /\ Len(one \o two) = Len(one) + Len(two)
        /\ ToSet(one \o two) = ToSet(one) \cup ToSet(two)
    BY <2>3, <2>4, ConcatSet
  <2> DEFINE start == one \o two
  <2>15. start \in Seq(A)
    BY <2>6
  <2> HIDE DEF start
  <2>7. start \o three \in Seq(A) /\ Len(start \o three) = Len(start) + Len(three)
        /\ ToSet(start \o three) = ToSet(start) \cup ToSet(three)
    BY <2>5, <2>15, ConcatSet
  <2>8. entries \in Seq(A) /\ Len(entries) <= 8 /\ \A e \in ToSet(entries) : e.wiki \/ e.of = q.group
    <3>1. entries = start \o three
      BY DEF start
    <3> HIDE DEF entries
    <3>2. Len(one) \in Nat /\ Len(two) \in Nat /\ Len(three) \in Nat
      BY <2>3, <2>4, <2>5, LenProperties
    <3>3. Len(entries) <= 8
      BY <2>3, <2>4, <2>5, <2>6, <2>7, <3>1, <3>2 DEF start
    <3>4. \A e \in ToSet(entries) : e.wiki \/ e.of = q.group
      BY <2>3, <2>4, <2>5, <2>6, <2>7, <3>1, Zenon DEF start
    <3> QED BY <2>7, <3>1, <3>3, <3>4
  <2> HIDE DEF entries
  <2>9. a = Among(entries, keep)
    <3>1. Memory!ToSet(entries) = ToSet(entries)
      BY SameToSetMemory
    <3>2. Memory!Among(entries, keep) = Among(entries, keep)
      <4> HIDE DEF keep
      <4> QED BY <2>8, AmongPicks
    <3>3. Memory!DedupeBootEntries(entries) = Memory!Among(entries, keep)
      BY <3>1 DEF Memory!DedupeBootEntries
    <3> HIDE DEF keep, a
    <3> QED BY <1>1, <1>3, <3>2, <3>3
  <2>10. ToSet(a) = ToSet(entries) \cap keep /\ Len(a) <= Len(entries)
    <3> DEFINE n == Len(entries)
               kept == {i \in DOMAIN entries : entries[i] \in keep}
    <3> HIDE DEF keep
    <3>1. ToSet(a) = ToSet(entries) \cap keep
      BY <2>8, <2>9, AmongSet
    <3>2. Len(a) = Cardinality(kept)
      BY <2>8, <2>9, AmongCounts
    <3>3. n \in Nat /\ DOMAIN entries = 1..n
      BY <2>8, LenProperties
    <3> HIDE DEF n, a
    <3>4. kept \subseteq 1..n
      BY <3>3
    <3> HIDE DEF kept
    <3>5. IsFiniteSet(1..n) /\ Cardinality(1..n) = n
      <4>1. n \in Int /\ 1 \in Int /\ n >= 0
        BY <3>3
      <4>2. IsFiniteSet(1..n) /\ Cardinality(1..n) = IF 1 > n THEN 0 ELSE n - 1 + 1
        BY <4>1, FS_Interval
      <4> QED BY <4>1, <4>2
    <3>6. Cardinality(kept) <= n
      BY <3>4, <3>5, FS_Subset
    <3> QED BY <3>1, <3>2, <3>6 DEF n
  <2> HIDE DEF a
  <2>11. Len(a) <= 8
    <3>1. Len(entries) \in Nat /\ Len(a) \in Int
      <4>1. a \in Seq(A)
        <5> HIDE DEF keep
        <5> QED BY <2>8, <2>9, AmongSet
      <4> QED BY <2>8, <4>1, LenProperties
    <3> QED BY <2>8, <2>10, <3>1
  <2>12. \A e \in ToSet(a) : e.wiki \/ e.of = q.group
    BY <2>8, <2>10, Zenon
  <2>13. \A e, f \in ToSet(a) : e.wiki /\ e.name = f.name => f.wiki
    BY <2>10, Zenon
  <2>14. BootAnswer(q, a)
    BY <2>11, <2>12, <2>13, Zenon DEF BootAnswer
  <2> QED BY <2>14 DEF a
<1> QED BY <1>2, <1>3

(* What a scope gives to a roll-up.                                            *)
Taken(db, label) ==
    IF db.up THEN [i \in DOMAIN db.served |-> [db.served[i] EXCEPT !.label = label]] ELSE <<>>

LEMMA TakenIs ==
    ASSUME NEW db, db.served \in Seq(Placed), NEW label \in Labels
    PROVE  /\ Taken(db, label) \in Seq(Placed)
           /\ \A p \in ToSet(Taken(db, label)) : db.up /\ p.id \in {x.id : x \in ToSet(db.served)}
<1> DEFINE s == db.served
           as(x) == [x EXCEPT !.label = label]
           t == [i \in DOMAIN s |-> as(s[i])]
<1>1. Len(s) \in Nat /\ DOMAIN s = 1..Len(s) /\ \A i \in 1..Len(s) : s[i] \in Placed
  BY LenProperties, ElementOfSeq
<1>2. \A x \in Placed : as(x) \in Placed /\ as(x).id = x.id
  BY DEF Placed
<1> HIDE DEF as
<1>3. t \in Seq(Placed) /\ DOMAIN t = 1..Len(s) /\ \A i \in 1..Len(s) : t[i] = as(s[i])
  <2>1. t \in [1..Len(s) -> Placed]
    BY <1>1, <1>2
  <2>2. \A n \in Nat : \A f : f \in [1..n -> Placed] => f \in Seq(Placed)
    OBVIOUS
  <2> QED BY <1>1, <2>1, <2>2
<1>4. Taken(db, label) = IF db.up THEN t ELSE <<>>
  BY DEF Taken, as
<1> HIDE DEF t
<1>5. CASE ~db.up
  BY <1>4, <1>5, NothingIn, EmptySeq
<1>6. CASE db.up
  <2>1. Taken(db, label) = t
    BY <1>4, <1>6
  <2>2. ASSUME NEW p \in ToSet(t) PROVE p.id \in {x.id : x \in ToSet(db.served)}
    <3>1. PICK i \in 1..Len(s) : p = t[i]
      BY <1>3 DEF ToSet
    <3>2. p.id = s[i].id /\ s[i] \in ToSet(s)
      BY <1>1, <1>2, <1>3, <3>1 DEF ToSet
    <3> QED BY <3>2
  <2> QED BY <1>3, <1>6, <2>1, <2>2
<1> QED BY <1>5, <1>6

(* What a roll-up promotes comes from a scope that answers.                    *)
From(dbs, c) ==
    \A p \in ToSet(c) : \E s \in DOMAIN dbs : dbs[s].up /\ p.id \in {x.id : x \in ToSet(dbs[s].served)}

LEMMA PromotedFrom ==
    ASSUME NEW dbs, \A s \in DOMAIN dbs : dbs[s].served \in Seq(Placed),
           NEW sources \in Seq(DOMAIN dbs), NEW label \in Labels
    PROVE  \A c \in ToSet(Memory!PromoteToScope(dbs, sources, label)) : From(dbs, c)
<1> DEFINE P == Placed
           n == Len(sources)
           lists == [i \in DOMAIN sources |-> Taken(dbs[sources[i]], label)]
           clusters == Memory!ClusterEntities(FlattenSeq(lists))
           most == {c \in ToSet(clusters) : Memory!Cardinality({p.label : p \in ToSet(c)}) >= Spread}
<1>1. n \in Nat /\ DOMAIN sources = 1..n /\ \A i \in 1..n : sources[i] \in DOMAIN dbs
  BY LenProperties, ElementOfSeq
<1>2. \A i \in 1..n : /\ Taken(dbs[sources[i]], label) \in Seq(P)
                      /\ \A p \in ToSet(Taken(dbs[sources[i]], label)) :
                            dbs[sources[i]].up /\ p.id \in {x.id : x \in ToSet(dbs[sources[i]].served)}
  <2> SUFFICES ASSUME NEW i \in 1..n
               PROVE  /\ Taken(dbs[sources[i]], label) \in Seq(P)
                      /\ \A p \in ToSet(Taken(dbs[sources[i]], label)) :
                            dbs[sources[i]].up /\ p.id \in {x.id : x \in ToSet(dbs[sources[i]].served)}
    OBVIOUS
  <2>1. dbs[sources[i]].served \in Seq(P)
    BY <1>1
  <2> QED BY <2>1, TakenIs
<1>3. lists \in Seq(Seq(P)) /\ DOMAIN lists = 1..n /\ \A i \in 1..n : lists[i] = Taken(dbs[sources[i]], label)
  <2> DEFINE S == Seq(P)
  <2>1. lists \in [1..n -> S]
    BY <1>1, <1>2
  <2> HIDE DEF lists, S
  <2>2. \A m \in Nat : \A f : f \in [1..m -> S] => f \in Seq(S)
    OBVIOUS
  <2>3. lists \in Seq(S)
    BY <1>1, <2>1, <2>2
  <2> QED BY <1>1, <2>3 DEF S, lists
<1>4. Memory!PromoteToScope(dbs, sources, label) = Memory!Among(clusters, most)
  <2> DEFINE of(db) == IF db.up
                       THEN [i \in DOMAIN db.served |-> [db.served[i] EXCEPT !.label = label]] ELSE <<>>
             same == [i \in DOMAIN sources |-> of(dbs[sources[i]])]
  <2>1. same = lists
    BY DEF Taken
  <2>2. Memory!FlattenSeq(lists) = FlattenSeq(lists)
    <3> HIDE DEF lists
    <3> QED BY <1>3, FlattenGrows
  <2>3. Memory!ClusterEntities(Memory!FlattenSeq(same)) = clusters
    BY <2>1, <2>2
  <2> HIDE DEF lists, clusters
  <2> QED BY <2>3, SameToSetMemory, Zenon DEF Memory!PromoteToScope
<1> HIDE DEF lists
<1>5. FlattenSeq(lists) \in Seq(P) /\ ToSet(FlattenSeq(lists)) = InSome(lists)
  BY <1>3, FlattenedIn
<1>6. clusters \in Clusterings(P) /\ ToSet(FlattenSeq(clusters)) \subseteq ToSet(FlattenSeq(lists))
  <2> DEFINE f == FlattenSeq(lists)
  <2>1. f \in Seq(P)
    BY <1>5
  <2> HIDE DEF f
  <2>2. /\ Memory!ClusterEntities(f) \in Clusterings(P)
        /\ ToSet(FlattenSeq(Memory!ClusterEntities(f))) = ToSet(Among(f, {p \in ToSet(f) : p.at >= 0}))
    BY <2>1, ClustersAre
  <2>3. ToSet(Among(f, {p \in ToSet(f) : p.at >= 0})) \subseteq ToSet(f)
    <3> DEFINE keep == {p \in ToSet(f) : p.at >= 0}
    <3>1. keep \subseteq ToSet(f)
      OBVIOUS
    <3> HIDE DEF keep
    <3>2. ToSet(Among(f, keep)) = ToSet(f) \cap keep
      BY <2>1, AmongSet
    <3> QED BY <3>1, <3>2 DEF keep
  <2> QED BY <2>2, <2>3 DEF f
<1> HIDE DEF clusters
<1>7. clusters \in Seq(Seq(P))
  <2> DEFINE N == Seq(P) \ {<<>>}
  <2>1. clusters \in Seq(N) /\ N \subseteq Seq(P)
    BY <1>6 DEF Clusterings
  <2> HIDE DEF N
  <2> QED BY <2>1, SeqMonotonic
<1>8. ToSet(FlattenSeq(clusters)) = InSome(clusters)
  BY <1>7, FlattenedIn
<1> HIDE DEF most
<1>9. ASSUME NEW c \in ToSet(Memory!Among(clusters, most)) PROVE From(dbs, c)
  <2>1. Memory!Among(clusters, most) = Among(clusters, most) /\ ToSet(Among(clusters, most)) = ToSet(clusters) \cap most
    <3> DEFINE S == Seq(P)
    <3>1. clusters \in Seq(S)
      BY <1>7
    <3> HIDE DEF S
    <3> QED BY <3>1, AmongPicks, AmongSet
  <2>2. c \in ToSet(clusters)
    BY <2>1
  <2>3. PICK k \in DOMAIN clusters : c = clusters[k]
    BY <2>2 DEF ToSet
  <2>4. ToSet(c) \subseteq InSome(clusters)
    BY <2>3 DEF InSome
  <2>5. ASSUME NEW p \in ToSet(c)
        PROVE  \E s \in DOMAIN dbs : dbs[s].up /\ p.id \in {x.id : x \in ToSet(dbs[s].served)}
    <3>1. p \in InSome(lists)
      BY <1>5, <1>6, <1>8, <2>4
    <3>2. PICK i \in 1..n : p \in ToSet(Taken(dbs[sources[i]], label))
      BY <1>3, <3>1 DEF InSome
    <3> QED BY <1>1, <1>2, <3>2
  <2> QED BY <2>5 DEF From
<1> QED BY <1>4, <1>9

RollupAnswer(q, a) ==
    LET placed == Among(q.pages, {p \in ToSet(q.pages) : p.at >= 0}) IN
    /\ Len(FlattenSeq(a.clusters)) = Len(placed) /\ ToSet(FlattenSeq(a.clusters)) = ToSet(placed)
    /\ \A c \in ToSet(a.clusters) : \A i \in 2 .. Len(c) :
            \E j \in 1 .. (i - 1) : c[i].at - c[j].at \in -Apart .. Apart
    /\ \A c \in ToSet(a.made.local["v1"]) \cup ToSet(a.made.local["v2"]) : \A p \in ToSet(c) :
            \E s \in DOMAIN q.dbs : q.dbs[s].up /\ p.id \in {x.id : x \in ToSet(q.dbs[s].served)}

LEMMA RollupTold ==
    ASSUME NEW q, q.pages \in Seq(Memory!Pages),
           \A s \in DOMAIN q.dbs : q.dbs[s].served \in Seq(Memory!Pages),
           {Memory!VigneScope("g"), Memory!VigneScope("h")} \subseteq DOMAIN q.dbs
    PROVE  RollupAnswer(q, OnRollup(q))
<1> DEFINE a == OnRollup(q)
           members == [v1 |-> <<"g">>, v2 |-> <<"g", "h">>]
           scopes(v) == [i \in DOMAIN members[v] |-> Memory!VigneScope(members[v][i])]
<1>1. a.clusters = Memory!ClusterEntities(q.pages) /\ a.made = Memory!RunRollup(q.dbs, members)
  BY DEF OnRollup
<1> HIDE DEF a
<1>2. \A v \in {"v1", "v2"} : a.made.local[v] = Memory!PromoteToScope(q.dbs, scopes(v), v)
  <2>1. DOMAIN members = {"v1", "v2"}
    OBVIOUS
  <2> DEFINE made == Memory!RunRollup(q.dbs, members)
  <2> HIDE DEF members
  <2>2. made.local = [v \in DOMAIN members |-> Memory!PromoteToScope(q.dbs, scopes(v), v)]
    BY DEF Memory!RunRollup
  <2> QED BY <1>1, <2>1, <2>2
<1>3. \A v \in {"v1", "v2"} : scopes(v) \in Seq(DOMAIN q.dbs)
  <2> DEFINE D == DOMAIN q.dbs
             g == Memory!VigneScope("g")
             h == Memory!VigneScope("h")
  <2>1. scopes("v1") = <<g>> /\ scopes("v2") = <<g, h>>
    <3>1. members["v1"] = <<"g">> /\ members["v2"] = <<"g", "h">>
      OBVIOUS
    <3> HIDE DEF members
    <3>2. scopes("v1") = <<g>>
      BY <3>1
    <3>3. scopes("v2") = <<g, h>>
      BY <3>1
    <3> QED BY <3>2, <3>3
  <2>2. g \in D /\ h \in D
    OBVIOUS
  <2> HIDE DEF D, g, h, scopes
  <2>3. <<g>> \in Seq(D) /\ <<g, h>> \in Seq(D)
    BY <2>2
  <2> QED BY <2>1, <2>3 DEF D
<1> HIDE DEF scopes
<1>4. ASSUME NEW v \in {"v1", "v2"} PROVE \A c \in ToSet(a.made.local[v]) : From(q.dbs, c)
  <2>1. v \in Labels
    BY DEF Labels
  <2>2. scopes(v) \in Seq(DOMAIN q.dbs)
    BY <1>3, Zenon
  <2>5. \A s \in DOMAIN q.dbs : q.dbs[s].served \in Seq(Placed)
    BY PagesPlaced
  <2>3. \A r \in Seq(DOMAIN q.dbs) : \A c \in ToSet(Memory!PromoteToScope(q.dbs, r, v)) : From(q.dbs, c)
    BY <2>1, <2>5, PromotedFrom
  <2>4. \A c \in ToSet(Memory!PromoteToScope(q.dbs, scopes(v), v)) : From(q.dbs, c)
    BY <2>2, <2>3, Zenon
  <2> QED BY <1>2, <2>4, Zenon
<1> DEFINE cs == Memory!ClusterEntities(q.pages)
<1>5. /\ cs \in Clusterings(Placed)
      /\ LET placed == Among(q.pages, {p \in ToSet(q.pages) : p.at >= 0}) IN
         Len(FlattenSeq(cs)) = Len(placed) /\ ToSet(FlattenSeq(cs)) = ToSet(placed)
      /\ \A i \in 1..Len(cs) : Chained(cs[i])
  <2>1. q.pages \in Seq(Placed)
    BY PagesPlaced
  <2> QED BY <2>1, ClustersAre
<1> HIDE DEF cs
<1>6. \A c \in ToSet(cs) : Chained(c)
  <2> DEFINE N == Seq(Placed) \ {<<>>}
  <2>1. cs \in Seq(N)
    BY <1>5 DEF Clusterings
  <2>2. DOMAIN cs = 1..Len(cs)
    <3> HIDE DEF N
    <3> QED BY <2>1, LenProperties
  <2> QED BY <1>5, <2>2 DEF ToSet
<1>7. \A c \in ToSet(a.clusters) : \A i \in 2 .. Len(c) :
            \E j \in 1 .. (i - 1) : c[i].at - c[j].at \in -Apart .. Apart
  BY <1>1, <1>6 DEF Chained, cs
<1>8. \A c \in ToSet(a.made.local["v1"]) \cup ToSet(a.made.local["v2"]) : \A p \in ToSet(c) :
            \E s \in DOMAIN q.dbs : q.dbs[s].up /\ p.id \in {x.id : x \in ToSet(q.dbs[s].served)}
  BY <1>4, Zenon DEF From
<1>9. LET placed == Among(q.pages, {p \in ToSet(q.pages) : p.at >= 0}) IN
      Len(FlattenSeq(a.clusters)) = Len(placed) /\ ToSet(FlattenSeq(a.clusters)) = ToSet(placed)
  BY <1>1, <1>5 DEF cs
<1> QED BY <1>7, <1>8, <1>9, Zenon DEF RollupAnswer, a

GardenAnswer(q, a) ==
    /\ Len(FlattenSeq(a.clusters)) = Len(a.rows)
    /\ {r.name : r \in ToSet(a.rows)} = {o.name : o \in ToSet(q.seen)}
    /\ \A r \in ToSet(a.rows) : r.count = Cardinality({i \in DOMAIN q.seen : q.seen[i].name = r.name})
    /\ Cardinality({r.name : r \in ToSet(a.rows)}) = Len(a.rows)
    /\ \A g \in a.done.proposed : \A n \in g :
            Cardinality({i \in DOMAIN q.seen : q.seen[i].name = n}) >= q.min
    /\ a.done.proposed # {} => "Extend" \in ToSet(q.says) /\ q.llm

(* What the gardener proposes: names of rows seen often enough, and only when  *)
(* the model answers that the ontology should be extended.                     *)
LEMMA Proposed ==
    ASSUME NEW rows \in Seq(Staged), NEW min \in Nat, NEW asked, NEW says \in Seq(STRING), Len(rows) <= Len(says)
    PROVE  LET proposed == Memory!RunGardener(rows, min, asked, says).proposed IN
           /\ \A g \in proposed : \A n \in g : \E r \in ToSet(rows) : r.name = n /\ r.count >= min
           /\ proposed # {} => "Extend" \in ToSet(says) /\ asked
<1> DEFINE often == {r \in ToSet(rows) : r.count >= min}
           some == Among(rows, often)
           cs == Memory!ClusterStagingRows(some)
           verdict(i) == IF ~asked THEN "Hold" ELSE IF says[i] \in {"Map", "Extend"} THEN says[i] ELSE "Hold"
           heard == {i \in DOMAIN cs : asked => says[i] # "error"}
           proposed == Memory!RunGardener(rows, min, asked, says).proposed
<1>1. some \in Seq(Staged) /\ Memory!Among(rows, often) = some /\ ToSet(some) = ToSet(rows) \cap often
  BY AmongPicks, AmongSet
<1>2. Len(some) <= Len(rows)
  BY NoLonger
<1>3. proposed = {{r.name : r \in Memory!ToSet(cs[i])} : i \in {j \in heard : verdict(j) = "Extend"}}
  <2>1. Memory!ClusterStagingRows(Memory!Among(rows, {r \in Memory!ToSet(rows) : r.count >= min})) = cs
    BY <1>1, SameToSetMemory
  <2> HIDE DEF cs
  <2> QED BY <2>1 DEF Memory!RunGardener
<1> HIDE DEF some
<1>4. /\ cs \in Clusterings(Staged) /\ Len(cs) <= Len(some) /\ ToSet(FlattenSeq(cs)) = ToSet(some)
  BY <1>1, RowClustersAre
<1> HIDE DEF cs
<1> DEFINE N == Seq(Staged) \ {<<>>}
<1>5. cs \in Seq(N) /\ N \subseteq Seq(Staged)
  BY <1>4 DEF Clusterings
<1> HIDE DEF N
<1>6. DOMAIN cs = 1..Len(cs) /\ Len(cs) \in Nat /\ cs \in Seq(Seq(Staged))
  BY <1>5, LenProperties, SeqMonotonic
<1>7. ToSet(FlattenSeq(cs)) = InSome(cs)
  BY <1>6, FlattenedIn
<1> HIDE DEF verdict, proposed
<1>8. ASSUME NEW g \in proposed, NEW n \in g PROVE \E r \in ToSet(rows) : r.name = n /\ r.count >= min
  <2>1. PICK i \in heard : g = {r.name : r \in Memory!ToSet(cs[i])}
    BY <1>3
  <2>2. PICK r \in ToSet(cs[i]) : n = r.name
    BY <2>1, SameToSetMemory
  <2>3. i \in DOMAIN cs
    OBVIOUS
  <2>4. r \in InSome(cs)
    BY <2>2, <2>3 DEF InSome
  <2>5. r \in often
    BY <1>1, <1>4, <1>7, <2>4
  <2> QED BY <2>2, <2>5
<1>9. ASSUME proposed # {} PROVE "Extend" \in ToSet(says) /\ asked
  <2>1. PICK i \in heard : verdict(i) = "Extend"
    BY <1>3, <1>9
  <2>2. asked /\ says[i] = "Extend"
    BY <2>1 DEF verdict
  <2>3. Len(says) \in Nat /\ DOMAIN says = 1..Len(says) /\ Len(some) \in Nat /\ Len(rows) \in Nat
    BY <1>1, LenProperties
  <2>4. i \in 1..Len(cs)
    BY <1>6
  <2>5. i \in 1..Len(says)
    <3> HIDE DEF heard
    <3> QED BY <1>2, <1>4, <1>6, <2>3, <2>4
  <2>6. says[i] \in ToSet(says)
    BY <2>3, <2>5 DEF ToSet
  <2> QED BY <2>2, <2>6
<1> QED BY <1>8, <1>9 DEF proposed

LEMMA GardenTold ==
    ASSUME NEW q, q.seen \in Seq(Sightings), q.min \in Nat, q.says \in Seq(STRING),
           Cardinality({o.name : o \in ToSet(q.seen)}) <= Len(q.says)
    PROVE  GardenAnswer(q, OnGarden(q))
<1> DEFINE a == OnGarden(q)
           seen == q.seen
           n == Len(seen)
           R == FoldLeft(StageOne, {}, seen)
           rows == SetToSeq(R)
           names == {r.name : r \in ToSet(rows)}
<1>1. a.rows = rows /\ a.clusters = Memory!ClusterStagingRows(rows) /\ a.done = Memory!RunGardener(rows, q.min, q.llm, q.says)
  BY DEF OnGarden, StageOne
<1>2. n \in Nat /\ DOMAIN seen = 1..n
  BY LenProperties
<1>3. Upserted(R, seen, n)
  BY StagedAre
<1> HIDE DEF a, R
<1>4. /\ R \in SUBSET Staged /\ IsFiniteSet(R)
      /\ \A r, t \in R : r.name = t.name => r = t
      /\ {r.name : r \in R} = {seen[i].name : i \in 1..n}
      /\ \A r \in R : r.count = Cardinality(Occurrences(seen, n, r.name))
  BY <1>3, Zenon DEF Upserted
<1>5. /\ rows \in Seq(R) /\ ToSet(rows) = R
      /\ \A k, l \in DOMAIN rows : rows[k] = rows[l] => k = l
  BY <1>4, ListOfSet
<1> HIDE DEF rows
<1>6. rows \in Seq(Staged)
  BY <1>4, <1>5, SeqMonotonic
<1>7. Len(rows) \in Nat /\ DOMAIN rows = 1..Len(rows) /\ \A k \in 1..Len(rows) : rows[k] \in R
  BY <1>5, LenProperties, ElementOfSeq
<1>8. \A k, l \in DOMAIN rows : rows[k].name = rows[l].name => k = l
  BY <1>4, <1>5, <1>7
<1>9. Cardinality({r["name"] : r \in ToSet(rows)}) = Len(rows)
  BY <1>6, <1>8, OneKeyEach
<1>10. names = {o.name : o \in ToSet(seen)}
  <2>1. {seen[i].name : i \in 1..n} = {o.name : o \in ToSet(seen)}
    BY <1>2 DEF ToSet
  <2> QED BY <1>4, <1>5, <2>1
<1>11. Len(rows) <= Len(q.says)
  <2>1. Cardinality(names) = Len(rows)
    BY <1>9
  <2> QED BY <1>10, <2>1
<1>12. \A name : Occurrences(seen, n, name) = {i \in DOMAIN seen : seen[i].name = name}
  BY <1>2 DEF Occurrences
<1>13. \A r \in ToSet(rows) : r.count = Cardinality({i \in DOMAIN seen : seen[i].name = r.name})
  BY <1>4, <1>5, <1>12
<1>14. /\ \A g \in a.done.proposed : \A m \in g : \E r \in ToSet(rows) : r.name = m /\ r.count >= q.min
       /\ a.done.proposed # {} => "Extend" \in ToSet(q.says) /\ q.llm
  BY <1>1, <1>6, <1>11, Proposed
<1>15. \A g \in a.done.proposed : \A m \in g :
            Cardinality({i \in DOMAIN seen : seen[i].name = m}) >= q.min
  BY <1>13, <1>14
<1>16. Len(FlattenSeq(a.clusters)) = Len(rows)
  BY <1>1, <1>6, RowClustersAre
<1> QED BY <1>1, <1>9, <1>10, <1>13, <1>14, <1>15, <1>16 DEF GardenAnswer, a

(* A turn is told what is its own to hear, once, and never nothing where there *)
(* is something; a session boots on pages and its own vigne's entities; every  *)
(* page is in one cluster, and what is promoted comes from a scope that        *)
(* answers; the schema is applied only when both of its halves were; the read  *)
(* position is never lost; the gardener proposes what was seen often enough,   *)
(* and asks; each token service has its turn; what an ontology suppresses is   *)
(* gone (the memory services' answers).                                        *)
THEOREM MemoryIsSound == DecisionSpec => []MemorySound
<1>1. Answer => MemorySound
  <2> SUFFICES ASSUME Answer PROVE MemorySound
    OBVIOUS
  <2> DEFINE q == decision.in
             a == decision.out
  <2>1. CASE decision.rule = "recall"
    <3>1. /\ q.group \in STRING
          /\ \A s \in ToSet(Memory!EntitledScopes(q.group, "v1")) :
                q.dbs[s] \in Memory!Databases(IF s.tier = "global" THEN "global" ELSE s.of)
          /\ a = OnRecall(q)
      BY <2>1, CasesAssumption DEF Answer, MemoryAnswers, Gave, CasesTypes, MemoryCases
    <3> HIDE DEF q, a
    <3>2. RecallAnswer(q, a)
      BY <3>1, RecallTold
    <3> QED BY <2>1, <3>2, Zenon DEF MemorySound, Of, RecallAnswer, q, a
  <2>2. CASE decision.rule = "boot"
    <3>1. /\ q.group \in STRING
          /\ \A s \in ToSet(Memory!EntitledScopes(q.group, "v1")) :
                q.dbs[s] \in Memory!Databases(IF s.tier = "global" THEN "global" ELSE s.of)
          /\ a = OnBoot(q)
      BY <2>2, CasesAssumption DEF Answer, MemoryAnswers, Gave, CasesTypes, MemoryCases
    <3> HIDE DEF q, a
    <3>2. BootAnswer(q, a)
      BY <3>1, BootTold
    <3> QED BY <2>2, <3>2, Zenon DEF MemorySound, Of, BootAnswer, q, a
  <2>3. CASE decision.rule = "rollup"
    <3>1. /\ q.pages \in Seq(Memory!Pages)
          /\ \A s \in DOMAIN q.dbs : q.dbs[s].served \in Seq(Memory!Pages)
          /\ {Memory!VigneScope("g"), Memory!VigneScope("h")} \subseteq DOMAIN q.dbs
          /\ a = OnRollup(q)
      BY <2>3, CasesAssumption DEF Answer, MemoryAnswers, Gave, CasesTypes, MemoryCases
    <3> HIDE DEF q, a
    <3>2. RollupAnswer(q, a)
      BY <3>1, RollupTold
    <3> QED BY <2>3, <3>2, Zenon DEF MemorySound, Of, RollupAnswer, q, a
  <2>4. CASE decision.rule = "schema"
    <3>1. /\ {q.boot, q.ddl} \subseteq [1..Attempts -> {"ok", "conflict", "error"}]
          /\ a = OnSchema(q)
      BY <2>4, CasesAssumption DEF Answer, MemoryAnswers, Gave, CasesTypes, MemoryCases
    <3> HIDE DEF q, a
    <3>2. SchemaAnswer(q, a)
      BY <3>1, SchemaTold
    <3> QED BY <2>4, <3>2, Zenon DEF MemorySound, Of, SchemaAnswer, q, a
  <2>5. CASE decision.rule = "cursors"
    <3>1. /\ IsFiniteSet(q.rows) /\ q.rows \subseteq [id : STRING, source : STRING, seq : Nat]
          /\ \A r, s \in q.rows : r.id = s.id /\ r.source = s.source => r = s
          /\ a = OnCursors(q)
      BY <2>5, CasesAssumption DEF Answer, MemoryAnswers, Gave, CasesTypes, MemoryCases
    <3> HIDE DEF q, a
    <3>2. CursorsAnswer(q, a)
      BY <3>1, CursorsTold
    <3> QED BY <2>5, <3>2, Zenon DEF MemorySound, Of, CursorsAnswer, RowsOf, q, a
  <2>6. CASE decision.rule = "chunks"
    <3>1. /\ q.stored \in Seq(Nat) /\ q.chunks \in Seq(Nat) /\ q.written \in 0..Len(q.chunks)
          /\ a = OnChunks(q)
      BY <2>6, CasesAssumption DEF Answer, MemoryAnswers, Gave, CasesTypes, MemoryCases
    <3> HIDE DEF q, a
    <3>2. ChunksAnswer(q, a)
      BY <3>1, ChunksTold
    <3> QED BY <2>6, <3>2, Zenon DEF MemorySound, Of, ChunksAnswer, q, a
  <2>7. CASE decision.rule = "statement"
    <3>1. a = OnStatement(q)
      BY <2>7 DEF Answer, MemoryAnswers, Gave
    <3> HIDE DEF q, a
    <3>2. StatementAnswer(q, a)
      BY <3>1, StatementTold
    <3> QED BY <2>7, <3>2, Zenon DEF MemorySound, Of, StatementAnswer, q, a
  <2>8. CASE decision.rule = "edges"
    <3>1. a = OnEdges(q)
      BY <2>8 DEF Answer, MemoryAnswers, Gave
    <3> HIDE DEF q, a
    <3>2. EdgesAnswer(q, a)
      BY <3>1, EdgesTold
    <3> QED BY <2>8, <3>2, Zenon DEF MemorySound, Of, EdgesAnswer, q, a
  <2>9. CASE decision.rule = "status"
    <3>1. /\ \A i \in DOMAIN q : {q[i].max, q[i].cursor, q[i].failed} \subseteq Nat
          /\ a = OnStatus(q)
      BY <2>9, CasesAssumption DEF Answer, MemoryAnswers, Gave, CasesTypes, MemoryCases
    <3> HIDE DEF q, a
    <3>2. StatusAnswer(q, a)
      BY <3>1, StatusTold
    <3> QED BY <2>9, <3>2, Zenon DEF MemorySound, Of, StatusAnswer, q, a
  <2>10. CASE decision.rule = "garden"
    <3>1. /\ q.seen \in Seq(Sightings) /\ q.min \in Nat /\ q.says \in Seq(STRING)
          /\ Cardinality({o.name : o \in ToSet(q.seen)}) <= Len(q.says)
          /\ a = OnGarden(q)
      BY <2>10, CasesAssumption DEF Answer, MemoryAnswers, Gave, CasesTypes, MemoryCases, Sightings
    <3> HIDE DEF q, a
    <3>2. GardenAnswer(q, a)
      BY <3>1, GardenTold
    <3> QED BY <2>10, <3>2, Zenon DEF MemorySound, Of, GardenAnswer, q, a
  <2>11. CASE decision.rule = "token"
    <3>1. /\ q.answers \in Seq([reached : BOOLEAN, status : Nat, key : STRING]) /\ q.answers # <<>> /\ q.now \in Int
          /\ a = OnToken(q)
      BY <2>11, CasesAssumption DEF Answer, MemoryAnswers, Gave, CasesTypes, MemoryCases
    <3> HIDE DEF q, a
    <3>2. TokenAnswer(q, a)
      BY <3>1, TokenTold
    <3> QED BY <2>11, <3>2, Zenon DEF MemorySound, Of, TokenAnswer, q, a
  <2>12. CASE decision.rule = "ontology"
    <3>1. /\ "g" \in q.one.groups /\ IsFiniteSet(DOMAIN q.core.entities)
          /\ IsFiniteSet(DOMAIN q.one.entities) /\ IsFiniteSet(DOMAIN q.two.entities)
          /\ a = OnOntology(q)
      BY <2>12, CasesAssumption DEF Answer, MemoryAnswers, Gave, CasesTypes, MemoryCases
    <3> HIDE DEF q, a
    <3>2. OntologyAnswer(q, a)
      BY <3>1, OntologyTold
    <3> QED BY <2>12, <3>2, Zenon DEF MemorySound, Of, OntologyAnswer, q, a
  <2>13. CASE decision.rule = "groups"
    <3>1. a = OnGroups(q)
      BY <2>13 DEF Answer, MemoryAnswers, Gave
    <3> HIDE DEF q, a
    <3>2. GroupsAnswer(q, a)
      BY <3>1, GroupsTold
    <3> QED BY <2>13, <3>2, Zenon DEF MemorySound, Of, GroupsAnswer, q, a
  <2>14. CASE decision.rule \notin {"recall", "boot", "rollup", "schema", "cursors", "chunks", "statement", "edges", "status", "garden", "token", "ontology", "groups"}
    BY <2>14 DEF MemorySound, Of
  <2> QED BY <2>1, <2>2, <2>3, <2>4, <2>5, <2>6, <2>7, <2>8, <2>9, <2>10, <2>11, <2>12, <2>13, <2>14
<1> QED BY <1>1, AnswerInv, PTL
=============================================================================
