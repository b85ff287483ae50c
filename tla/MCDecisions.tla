----------------------------- MODULE MCDecisions -----------------------------
(* Small sets of questions for each area of Decisions.                         *)
EXTENDS Decisions

MCOldest == <<20, 6, 0>>
OkOr == {"ok", "failed"}
UpTo(S, n) == UNION {[1 .. k -> S] : k \in 0 .. n}

(* Schedules: an hour has 3 minutes, a day 2 hours, a week 2 days.             *)
Value(v) == {[k |-> "value", v |-> v]}
Minutes == {Cron!Any, Value(0), {[k |-> "step", base |-> 0, by |-> 2]}, {[k |-> "range", lo |-> 1, hi |-> 2]}, {[k |-> "bad"]}}
Exprs == [fields : {5, 6}, minute : Minutes, hour : {Cron!Any, Value(1)}, weekday : {Cron!Any, Value(0)}]
Crons == {q \in [expr : Exprs, last : -1 .. 26, now : 14 .. 27] : q.last < q.now}

(* The web terminal.                                                           *)
Records == [key : {"k"}, name : {"", "a", "b"}, vignoble : {"ours", "theirs"}, seen : {"none", "stale", "fresh"},
            standalone : BOOLEAN, parcelle : {"", "p"}, issue : {"", "u"}]
Others == [key : {"a"}, name : {"a"}, vignoble : {"ours"}, seen : {"fresh"}, standalone : {TRUE},
           parcelle : {"", "q"}, issue : {"", "w"}]
Indexes == [sessions : SUBSET {"conductor", "a"}, kv : {{r, o} : r \in Records, o \in Others}]
Windows == {ws \in SUBSET [index : 0 .. 2, named : BOOLEAN] : \A v, w \in ws : v.index = w.index => v = w}

(* Workers.                                                                    *)
Spawns == [issue : BOOLEAN, explicit : BOOLEAN, noCapsule : BOOLEAN, fetched : BOOLEAN,
           says : [1 .. 3 -> Spawn!Contracts], runtime : {"podman", "singularity"}, provider : {"github", "gitlab"},
           funded : BOOLEAN]
Branch == {"main", "dev", "cuv"}
Repositories == {r \in [head : {"", "main", "dev"}, origin : SUBSET Branch, remote : SUBSET Branch,
                        local : SUBSET Branch, leftover : BOOLEAN] : r.remote \subseteq r.origin}
Branchings == [flag : {"", "cuv"}, configured : {"", "dev"}, repo : Repositories, pushed : BOOLEAN]
Identity == [process : {"", "p"}, run : {"", "r1"}, issue : {"", "i"}, name : {"m", "n"}]
Guards == [trees : [{"conductor", "s1", "s2"} -> SUBSET {"r1", "r2"}], process : {"", "p"}, force : BOOLEAN]
Entry2 == [vignoble : {"ours", "theirs"}, kind : {"conductor", "worker"}, tempo : {"active", "blocked", "completed"},
           ephemeral : BOOLEAN, dated : BOOLEAN, process : BOOLEAN, standalone : BOOLEAN, age : Gc!Ages,
           state : {"running", "stopped"}, mr : Gc!MRStates, session : BOOLEAN]
Cleanups == [tree : Spawn!Worktrees, window : [name : {"regisseur", "w"}, config : BOOLEAN, status : {"archived", "active"}],
             socket : [kind : {"pinard", "other"}, sessions : BOOLEAN],
             inPlace : BOOLEAN, exists : BOOLEAN, vigneHasOne : BOOLEAN]
Reviews == {q \in [done : 0 .. 4, total : 0 .. 4] : q.done <= q.total}

(* Forges.                                                                     *)
Runs == {[status |-> "queued", conclusion |-> "odd"], [status |-> "in_progress", conclusion |-> "odd"]}
            \cup [status : {"completed"}, conclusion : Host!Conclusion]
CIs == [checks : UpTo(Runs, 3), flows : UpTo(Runs, 1), pipelines : {<<>>, <<"failed", "success">>},
        fates : [graphql : OkOr, checks : OkOr, flows : OkOr, pr : OkOr]]
Approvals == [reviews : UpTo([user : User, state : {"APPROVED", "CHANGES_REQUESTED", "COMMENTED", "DISMISSED"}], 3),
              required : 0 .. 2, fates : [pr : OkOr, reviews : OkOr, protection : OkOr]]
Comments == [at : [path : FilePath, line : {2}, side : Host!Side], now : {0, 5},
             fates : [pr : Host!Fate, post : Host!Fate, note : Host!Fate]]
Said == {[system |-> FALSE, review |-> 1], [system |-> TRUE, review |-> 1], [system |-> FALSE, review |-> 2]}
Lists == [pages : UNION {[1 .. n -> UpTo(Said, 2)] : n \in {1, 2}}, enterprise : BOOLEAN, fates : [1 .. 2 -> OkOr]]
Gets == [body : [1 .. 2 -> {"x", "y"}], fates : [1 .. 2 -> OkOr], tagged : BOOLEAN,
         refusal : [remaining : {0, 1}, reset : {-1, 3, 50}, retryAfter : {"absent", "date", "seconds"}, now : {10}]]
Tasks == [body : UpTo([child : {1, 10}, mark : {" ", "x", "X"}], 2), child : {1, 10},
          fates : [child : OkOr, post : Host!Fate, read : OkOr, update : Host!Fate]]
Issues == [issues : SUBSET {[id |-> i, pull |-> i = 3, state |-> IF i = 2 THEN "closed" ELSE "open",
                             labels |-> IF i = 1 THEN {} ELSE {"go"}, assignee |-> IF i = 4 THEN "" ELSE "bot"] : i \in 1 .. 4},
           filter : [assignee : {"", "bot"}, label : {"", "go"}, state : {"", "open", "all"}]]
Closings == [refs : UpTo([word : {"close", "closes", "mentions"}, issue : {1, 2}], 2), readable : SUBSET {1, 2}]
Merges == [changes : UpTo([new : {"", "f", "g"}, old : {"f", "g"}], 2), draft : BOOLEAN, merged : BOOLEAN,
           found : UpTo([name : {"bot", "botany"}, id : {1, 2}], 2)]
Adapters == [provider : {"github", "gitlab"}, host : {"", "h"}, env : {"", "e"}]

(* Tracking.                                                                   *)
At(repo, mr) == Track!NewEntry(repo, mr, 0)
EntriesOf ==
    {[At("r1", 1) EXCEPT !.note = 1, !.asked = TRUE], [At("r1", 1) EXCEPT !.state = "post_merge", !.checked = 1, !.fails = 1],
     [At("r1", 1) EXCEPT !.note = 2, !.reviewed = 1], [At("r1", 2) EXCEPT !.note = 1, !.checked = 1], At("r2", 1), At("", 0), At("", 1)}
Agent(state) == [state |-> state]
Reconciles == [watched : [{"k1", "k2", "k3"} -> EntriesOf], order : {<<"k1", "k2", "k3">>, <<"k3", "k1", "k2">>},
               agents : UNION {[S -> {Agent("working"), Agent("stopped")}] : S \in SUBSET {"k1", "k2"}}]
Registers == [watched : UNION {[S -> EntriesOf] : S \in SUBSET {"k1", "k2"}}, key : Key,
              repo : {"r1", "r2"}, mr : {1, 2}, parcelle : {"", "p"}]
Worker == [vignoble : {"", "theirs"}, project : {"p", "q"}, repo : {"r1", "r2"}, process : {"", "babysitter"},
           mr : {0, 1, 2}, name : {"n"}, parcelle : {""}]
Finds == [agents : [{"k1", "k2"} -> Worker], order : {<<"k2", "k1">>}, project : {"p"}, mr : {0, 1}, repo : {"", "r1"}]
Scans == [watched : UNION {[S -> EntriesOf] : S \in SUBSET {"k1", "k3"}}, order : {<<"k2", "k1">>},
          agents : {[k1 |-> [w EXCEPT !.name = "n1"], k2 |-> v] : w \in {x \in Worker : x.vignoble = ""},
                        v \in {x \in Worker : x.mr = 0 /\ x.process = ""}},
          m : [session : {"", "n", "n1", "k1"}, project : {"p"}, iid : {1}, repo : {"r1"}, placeholder : {"k3"}]]
Trackings == [rest : {<<"a", "b", "hex">>, <<"a", "hex">>, <<"c", "hex">>, <<"c">>}, vignes : SUBSET {<<"a">>, <<"a", "b">>},
              hasRecord : BOOLEAN, isNew : BOOLEAN, linksOn : BOOLEAN, notes : [err : BOOLEAN, seen : SUBSET {"link"}]]
Notes == [system : BOOLEAN, lines : {<<>>, <<"prose">>, <<"@memory", "noise">>, <<"marker", "prose">>, <<"noise">>}]
Publishes == [mr : [labels : SUBSET {"memory:skip", "memory:capture"}, described : BOOLEAN, cuvee : BOOLEAN, mechanical : {FALSE},
                    notes : UpTo(Notes, 2), files : {{"f"}}, closes : {{1}}, mentions : {{1, 2}}],
              fates : [changes : {"ok"}, closes : OkOr, issue : OkOr, notes : OkOr, publish : OkOr]]

(* The memory.                                                                 *)
Row(id, name, of, dist) == [id |-> id, name |-> name, of |-> of, dist |-> dist, text |-> "t", wiki |-> id = "w", typed |-> id = "e"]
Db(of) ==
    {[up |-> up, vec |-> v, text |-> t, wikiVec |-> <<Row("w", "p", of, 3)>>, wikiText |-> w] :
        up \in BOOLEAN, v \in {<<>>, <<Row("e", "n", of, 0), Row("f", "m", of, 4)>>},
        t \in {<<>>, <<Row("e", "p", of, 0)>>}, w \in {<<>>, <<Row("w", "n", of, 0)>>}}
Dbs == {[s \in {Memory!Global, Memory!VignobleScope("v1"), Memory!VigneScope("g"), Memory!VigneScope("h")} |->
            CASE s.tier = "global" -> a [] s.tier = "vignoble" -> b [] s.of = "g" -> c
              [] OTHER -> [up |-> TRUE, vec |-> <<Row("e", "x", "h", 0)>>, text |-> <<>>, wikiVec |-> <<>>, wikiText |-> <<>>]] :
        a \in {d \in Db("global") : d.up}, b \in Db("v1"), c \in Db("g")}
Recalls == [group : {"", "g"}, dbs : Dbs, embedded : BOOLEAN, llm : {"none", "ok"}]
Boots == [group : {"g", "h"}, dbs : Dbs, embedded : BOOLEAN]
Pages == [at : {-1, 0, 1, 3}, label : {""}, id : {"p1", "p2"}]
Rollups == {[pages |-> ps, dbs |-> [s \in {Memory!VigneScope("g"), Memory!VigneScope("h"), Memory!VignobleScope("v1"), Memory!VignobleScope("v2")} |->
                                        [up |-> s.of # down, served |-> IF s.of = "h" THEN <<>> ELSE ps]]] :
                ps \in UpTo(Pages, 3), down \in {"g", "v1"}}
Rows == {rs \in SUBSET [id : {"own", "old"}, source : {"", "a", "b"}, seq : {1, 2}] :
            \A r, s \in rs : r.id = s.id /\ r.source = s.source => r = s}
Cursors == [rows : Rows, fails : {{}, {<<"orphans">>}, {<<"group">>}, {<<"set", "a">>}, {<<"delete", "a">>}}]
Rechunks == {q \in [stored : UpTo({1, 2}, 2), chunks : UpTo({1, 2}, 2), deleted : BOOLEAN, written : 0 .. 2] :
                q.written <= Len(q.chunks)}
EdgeTables == [{"x", "y"} -> [readable : BOOLEAN, out : [{"e"} -> SUBSET {"", "t"}]]]
Group == [up : BOOLEAN, max : {0, 1}, cursor : {0, 1}, failed : {0, 1}, docs : {0, 1}, published : BOOLEAN]
Gardens == [seen : UpTo([name : {"n1", "n2"}, role : {"r"}, at : {0, 1, 3}], 3), min : {1, 2}, llm : BOOLEAN,
            says : [1 .. 2 -> {"Extend", "Map", "error"}]]
Answer == {[reached |-> FALSE, status |-> 0, key |-> ""], [reached |-> TRUE, status |-> 500, key |-> "k"],
           [reached |-> TRUE, status |-> 200, key |-> "k"]}
Tokens == [answers : UpTo(Answer, 3) \ {<<>>}, auth : {"google-sa", "url", "static-key", ""}, account : BOOLEAN,
           status : {200, 401, 500}, now : {1, 2}]
NoProps == [p \in {} |-> ""]
File(entities, edges, suppressed, groups) ==
    [entities |-> entities, edges |-> edges, suppressed |-> suppressed, groups |-> groups]
Entity(isa, props, required) == [isa |-> isa, props |-> props, required |-> required]
Base2 == Entity("", [name |-> "string", size |-> "int"], {"name"})
Kind == {Entity("base", NoProps, {}), Entity("kind", [size |-> "float"], {"passed"}), Entity("nowhere", [role |-> "int"], {})}
Core == {File([base |-> Base2], [e |-> {<<"base", "base">>}], off, {}) : off \in SUBSET {"base", "e"}}
Domain(g) == {File([kind |-> k], [e |-> {<<"kind", "base">>}], off, g) : k \in Kind, off \in {{}, {"base"}}}
                \cup {File([base |-> Entity("", [size |-> "text"], {})], NoProps, {"e"}, g)}
Ontologies == [core : Core, one : Domain({"g"}), two : Domain({"g"}) \cup Domain({})]

(* Supervision.                                                                *)
Holder == {"free", "ours", "foreign", "silent"}
Serves == [first : Holder, second : Holder, launched : BOOLEAN, gone : BOOLEAN, reused : BOOLEAN, checksum : 0 .. 4]
Stores == [exists : BOOLEAN, table : BOOLEAN, state : {"", "degraded"},
           mutations : SUBSET {[project |-> "p", acked |-> TRUE], [project |-> "p", acked |-> FALSE], [project |-> "", acked |-> FALSE]}]
Syncs == [exit : {0, 1}, lines : SUBSET {"done", "noise", "other"}, configured : BOOLEAN, store : Stores,
          fails : SUBSET {<<"enroll", "p">>, <<"sync", "base">>}]
RemoteRecords == {[name |-> "n1", vignoble |-> "ours", safe |-> TRUE, state |-> "working"],
                  [name |-> "n2", vignoble |-> "ours", safe |-> TRUE, state |-> "stopped"],
                  [name |-> "n2", vignoble |-> "theirs", safe |-> TRUE, state |-> "working"],
                  [name |-> "n2", vignoble |-> "ours", safe |-> TRUE, state |-> "working"]}
Mirrors == [host : [{"n1", "n2"} -> {"nothing", "worker"}], records : [1 .. 2 -> SUBSET RemoteRecords],
            listed : BOOLEAN, failed : {{}, {"n1"}}]
Days == [day : UpTo({"start", "stop", "restart", "die"}, 5), obeys : {{}, {1}, 1 .. 6}]
Version == [pi : BOOLEAN, version : {<<18, 9, 9>>, <<20, 5, 9>>, <<20, 6, 0>>, <<22, 0, 0>>}]
Nodes == [given : {"", "file", "missing"}, versions : UpTo(Version, 2)]
Envs == [env : [{"vignoble", "x"} -> {"1"}], secrets : UNION {[S -> {"2"}] : S \in SUBSET {"vignoble", "x", "y"}}]

MCCases ==
    [cron |-> Crons,
     request |-> Access!Requests, posted |-> [auth : BOOLEAN, enabled : BOOLEAN, auto : BOOLEAN, post : BOOLEAN],
     login |-> Access!Callbacks, grant |-> [signed : BOOLEAN, expired : BOOLEAN, vignoble : {"", "ours", "theirs"}],
     index |-> Indexes, windows |-> Windows, pump |-> UpTo(0 .. 5, 4),
     spawn |-> Spawns, branch |-> Branchings, keys |-> [1 .. 2 -> Identity], guard |-> Guards, reap |-> Entry2,
     cleanup |-> Cleanups, review |-> Reviews, unschedule |-> [file : UpTo({"a", "b"}, 3), name : {"a", "b"}],
     ci |-> CIs, approval |-> Approvals, comment |-> Comments, lists |-> Lists, get |-> Gets, tasks |-> Tasks,
     issues |-> Issues, closing |-> Closings, merge |-> Merges, adapter |-> Adapters,
     reconcile |-> Reconciles, register |-> Registers, find |-> Finds, scan |-> Scans, track |-> Trackings,
     publish |-> Publishes,
     recall |-> Recalls, boot |-> Boots, rollup |-> Rollups,
     schema |-> [boot : [1 .. 2 -> {"ok", "conflict", "error"}], ddl : [1 .. 2 -> {"ok", "conflict", "error"}]],
     cursors |-> Cursors, chunks |-> Rechunks, statement |-> [reached : BOOLEAN, statements : UpTo({"OK", "ERR"}, 2)],
     edges |-> EdgeTables, status |-> UpTo(Group, 2), garden |-> Gardens, token |-> Tokens, ontology |-> Ontologies,
     groups |-> SUBSET [prefixed : BOOLEAN, name : {"a", "b"}],
     serve |-> Serves, sync |-> Syncs, mirror |-> Mirrors, daemon |-> Days, node |-> Nodes, env |-> Envs]
=============================================================================
