------------------------------ MODULE TermAccess ------------------------------
(* Who may open which terminal: internal/webterm's authz.go, operator.go,      *)
(* link.go, grant.go, auth.go, the HTTP handlers of gateway.go, the control    *)
(* room index, and cmd/aoc/cmd_webterm.go.  A request is a record:             *)
(*   auth       the gateway runs with an Authenticator                         *)
(*   cookie     the session cookie: "none", "forged", "expired", or the user   *)
(*              it names: "owner", "funder", "other"                           *)
(*   v          vignoble asked for: "", "ours" (its owner is published),       *)
(*              "silent" (no owner published or KV not readable)               *)
(*   target, rw the query names a target; asks for mode=rw                     *)
(*   link       the link in the query: "none", "forged", "expired", "valid"    *)
(*   discovery  the gateway has an OwnerStore and a FunderStore                *)
(*   allow      the gateway's list of vignobles                                *)
EXTENDS Naturals, FiniteSets, Sequences

Users == {"owner", "funder", "other"}
Cookies == {"none", "forged", "expired"} \cup Users
Links == {"none", "forged", "expired", "valid"}
Vignobles == {"ours", "silent"}

Requests == [auth : BOOLEAN, cookie : Cookies, v : Vignobles \cup {""}, target : BOOLEAN,
             rw : BOOLEAN, link : Links, discovery : BOOLEAN, allow : SUBSET Vignobles]

Nobody == ""

(* verifySession: signature and expiry; without an Authenticator everybody is  *)
(* an identity without a name.                                                 *)
Identify(q) ==
    IF ~q.auth THEN [ok |-> TRUE, username |-> Nobody]
    ELSE IF q.cookie \in Users THEN [ok |-> TRUE, username |-> q.cookie]
    ELSE [ok |-> FALSE, username |-> Nobody]

Owner(q, v) == IF q.discovery /\ v = "ours" THEN "owner" ELSE Nobody
Funder(q, v, target) == IF q.discovery /\ v = "ours" /\ target THEN "funder" ELSE Nobody

(* IsOperator and IsFunder are false for the empty name, whoever owns.         *)
IsOperator(q, v) ==
    Identify(q).username # Nobody /\ Owner(q, v) = Identify(q).username
IsFunder(q, v) ==
    Identify(q).username # Nobody /\ Funder(q, v, q.target) = Identify(q).username

(* resolveTarget and VerifyLink: a link counts only with a target.             *)
LinkValid(q) == q.target /\ q.link = "valid"

(* ownedBy: over the list by direct reads, else over the bucket's keys.        *)
OwnedBy(q) ==
    IF ~q.discovery \/ Identify(q).username = Nobody THEN {}
    ELSE {v \in IF q.allow # {} THEN q.allow ELSE Vignobles : IsOperator(q, v)}

Serves(q, v) ==
    /\ v # ""
    /\ IF q.allow # {} THEN v \in q.allow
       ELSE q.discovery => Owner(q, v) # Nobody

Deny == [allowed |-> FALSE, mode |-> "", role |-> ""]
Allow(mode, role) == [allowed |-> TRUE, mode |-> mode, role |-> role]

(* Mutant of Authorize: whoever may look may steer.                            *)
AuthorizeSteer(id, linkValid, isOperator, isFunder, authRequired, rw) ==
    LET mode == IF rw THEN "rw" ELSE "ro" IN
    IF authRequired /\ id.username = Nobody THEN Deny
    ELSE IF isOperator THEN Allow(mode, "operator")
    ELSE IF isFunder THEN Allow(mode, "funder")
    ELSE IF linkValid THEN Allow("ro", "viewer") ELSE Deny

Authorize(id, linkValid, isOperator, isFunder, authRequired, rw) ==
    IF authRequired /\ id.username = Nobody THEN Deny
    ELSE IF isOperator THEN Allow(IF rw THEN "rw" ELSE "ro", "operator")
    ELSE IF isFunder THEN Allow("ro", "funder")
    ELSE IF linkValid THEN Allow("ro", "viewer") ELSE Deny

Decide(q) ==
    Authorize(Identify(q), LinkValid(q), IsOperator(q, q.v), IsFunder(q, q.v), q.auth, q.rw)

(* The handlers: a status, and what is shown.                                  *)
Status(code) == [code |-> code, mode |-> "", shows |-> {}]

HandlePage(q) ==
    IF ~Identify(q).ok THEN Status(302)
    ELSE IF ~q.target
    THEN IF ~q.auth \/ OwnedBy(q) = {} THEN Status(403) ELSE Status(200)
    ELSE IF ~Serves(q, q.v) \/ ~Decide(q).allowed THEN Status(403)
    ELSE [code |-> 200, mode |-> Decide(q).mode, shows |-> {q.v}]

HandleWS(q) ==
    IF ~Identify(q).ok THEN Status(401)
    ELSE IF ~Serves(q, q.v) \/ ~Decide(q).allowed THEN Status(403)
    ELSE IF ~q.target THEN Status(400)
    ELSE [code |-> 101, mode |-> Decide(q).mode, shows |-> {q.v}]

HandleAPIVignobles(q) ==
    IF ~Identify(q).ok THEN Status(401)
    ELSE [code |-> 200, mode |-> "", shows |-> OwnedBy(q)]

(* The list of vignobles the gateway serves is not consulted here.             *)
HandleAPISessions(q) ==
    IF ~Identify(q).ok THEN Status(401)
    ELSE IF q.v = "" THEN Status(400)
    ELSE IF ~IsOperator(q, q.v) THEN Status(403)
    ELSE [code |-> 200, mode |-> "list", shows |-> {q.v}]

(* Handler: the index APIs and the login exist only with an Authenticator.     *)
Answers(q) ==
    {HandlePage(q), HandleWS(q)}
        \cup IF q.auth THEN {HandleAPIVignobles(q), HandleAPISessions(q)} ELSE {}

(* VerifyGrant in handleRequest and handleList: signed with the shared secret, *)
(* not expired, and for no vignoble or this one; anything else is met with     *)
(* silence, since the request reaches every responder.                         *)
GrantAccepted(grant, vignoble) ==
    grant.signed /\ ~grant.expired /\ grant.vignoble \in {"", vignoble}

(* HandleCallback: the session cookie, or none.                                *)
Callbacks == [flow : {"none", "forged", "expired", "mine", "other"}, code : BOOLEAN,
              exchanged : BOOLEAN, token : {"none", "invalid", "valid"},
              preferred : {"", "owner"}, sub : {"", "other"}, returnTo : {"path", "elsewhere"}]

SafeReturnTo(p) == IF p = "path" THEN p ELSE "/sessions"

HandleCallback(c) ==
    LET username == IF c.preferred # "" THEN c.preferred ELSE c.sub IN
    IF \/ c.flow \in {"none", "forged", "expired"}
       \/ c.flow # "mine" \/ ~c.code
       \/ ~c.exchanged \/ c.token # "valid" \/ username = ""
    THEN [username |-> Nobody, goes |-> "error"]
    ELSE [username |-> username, goes |-> SafeReturnTo(c.returnTo)]

(* webtermLinkCmd: what the link it prints lets its reader do.                 *)
PrintedLink(authOn, enabled, auto, postLinks) ==
    IF ~enabled \/ (auto /\ ~postLinks) THEN "nothing"
    ELSE IF authOn THEN "none" ELSE "valid"
=============================================================================
