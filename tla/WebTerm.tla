------------------------------- MODULE WebTerm -------------------------------
(* internal/webterm/gateway.go (handleWS) and responder.go: the life of a      *)
(* browser's view of one session.  The gateway asks every responder of the     *)
(* vignoble over core NATS for a viewer; the first answer counts.  Responders  *)
(* that own the session stream to the viewer's own subjects until the tab      *)
(* closes, the session ends or no heartbeat came for long.                     *)
(*                                                                             *)
(* Core NATS keeps nothing: what is published on a subject nobody subscribes   *)
(* to is lost.  An answer, a close or an end notice may be taken any time      *)
(* after it was sent, or be lost with the connection.  Gateway and responders  *)
(* may die at any step.                                                        *)
EXTENDS Naturals, FiniteSets

CONSTANTS
    Viewer,        \* viewer IDs, one per opened tab
    Responder,     \* the responders of the vignoble
    Owns,          \* pairs <<r, v>>: r's backend has the session that v opens
    MaxViewers,
    MaxFaults      \* environment bound: crashes and lost messages

ASSUME MaxViewersAssumption == MaxViewers \in Nat \ {0}
ASSUME FiniteAssumption == IsFiniteSet(Viewer)
ASSUME BoundAssumption == MaxFaults \in Nat

VARIABLES
    session,  \* TRUE while the sessions exist, in tmux or as a worker's PTY
    tab,      \* tab[v]: handleWS for v: its place, `done`, and whether the browser left
    answers,  \* answers[v]: replies sent and not yet taken, TRUE for OK
    job,      \* job[r][v]: the responder's side of v
    active,   \* active[r]: Responder.active
    closes,   \* closes[r]: viewers with a CtlClose on its way to r
    ends,     \* viewers with an EvtEnded on its way to the gateway
    faults    \* crashes and losses so far

vars == <<session, tab, answers, job, active, closes, ends, faults>>

At(pc) == [pc |-> pc, done |-> FALSE, gone |-> FALSE]

Held == {"accepted", "attached", "serving", "torn"}

Init ==
    /\ session = TRUE
    /\ tab = [v \in Viewer |-> At("new")]
    /\ answers = [v \in Viewer |-> {}]
    /\ job = [r \in Responder |-> [v \in Viewer |-> "none"]]
    /\ active = [r \in Responder |-> 0]
    /\ closes = [r \in Responder |-> {}]
    /\ ends = {}
    /\ faults = 0

Fault == faults < MaxFaults /\ faults' = faults + 1

Listening(v) == tab[v].pc \in {"asking", "open"}

-----------------------------------------------------------------------------
(* The gateway: handleWS from the upgrade on, and the browser it serves.       *)

(* Subscribed to the viewer's output and events, it publishes the request.     *)
(* A responder without the session stays silent, so that its owner answers.    *)
Open(v) ==
    /\ tab[v].pc = "new"
    /\ tab' = [tab EXCEPT ![v] = At("asking")]
    /\ job' = [r \in Responder |->
                 IF <<r, v>> \in Owns THEN [job[r] EXCEPT ![v] = "asked"] ELSE job[r]]
    /\ UNCHANGED <<session, answers, active, closes, ends, faults>>

TakeAnswer(v) ==
    /\ tab[v].pc = "asking"
    /\ \E ok \in answers[v] :
        tab' = [tab EXCEPT ![v] = IF ok THEN [@ EXCEPT !.pc = "open"] ELSE At("left")]
    /\ answers' = [answers EXCEPT ![v] = {}]
    /\ UNCHANGED <<session, job, active, closes, ends, faults>>

(* No answer within reqTimeout, 5 s: an answer may still come, or be lost.     *)
GiveUpAsking(v) ==
    /\ tab[v].pc = "asking"
    /\ tab' = [tab EXCEPT ![v] = At("left")]
    /\ answers' = [answers EXCEPT ![v] = {}]
    /\ UNCHANGED <<session, job, active, closes, ends, faults>>

Notice(v) ==
    /\ tab[v].pc = "open"
    /\ tab[v].gone /\ ~tab[v].done
    /\ tab' = [tab EXCEPT ![v].done = TRUE]
    /\ UNCHANGED <<session, answers, job, active, closes, ends, faults>>

TakeEnd(v) ==
    /\ v \in ends
    /\ Listening(v)
    /\ tab' = [tab EXCEPT ![v].done = TRUE]
    /\ ends' = ends \ {v}
    /\ UNCHANGED <<session, answers, job, active, closes, faults>>

(* After <-done: only responders subscribed by now can get the close.          *)
Close(v) ==
    /\ tab[v].pc = "open"
    /\ tab[v].done
    /\ tab' = [tab EXCEPT ![v] = At("left")]
    /\ closes' = [r \in Responder |->
                    IF job[r][v] \in {"serving", "torn"} THEN closes[r] \cup {v} ELSE closes[r]]
    /\ UNCHANGED <<session, answers, job, active, ends, faults>>

GatewayCrash ==
    /\ Fault
    /\ tab' = [v \in Viewer |-> IF Listening(v) THEN At("left") ELSE tab[v]]
    /\ answers' = [v \in Viewer |-> {}]
    /\ UNCHANGED <<session, job, active, closes, ends>>

BrowserLeaves(v) ==
    /\ Listening(v) /\ ~tab[v].gone
    /\ tab' = [tab EXCEPT ![v].gone = TRUE]
    /\ UNCHANGED <<session, answers, job, active, closes, ends, faults>>

-----------------------------------------------------------------------------
(* The responder.  Its requests are handled one after the other; each viewer   *)
(* it accepts gets a goroutine, counted in `active`.                           *)

Replied(v, ok) == IF tab[v].pc = "asking" THEN [answers EXCEPT ![v] = @ \cup {ok}] ELSE answers

(* publishEnded reaches the gateway only while handleWS is subscribed.  Mutant: *)
(* handleWS subscribes to events once it was answered.                         *)
EndedOnceOpen(v) == ends' = IF tab[v].pc = "open" THEN ends \cup {v} ELSE ends

Ended(v) == ends' = IF Listening(v) THEN ends \cup {v} ELSE ends

(* A grant outlives its request by a minute only, so an unverifiable one has   *)
(* been given up by the gateway.                                               *)
Ignore(r, v) ==
    /\ job[r][v] = "asked"
    /\ ~session \/ tab[v].pc # "asking"
    /\ job' = [job EXCEPT ![r][v] = "none"]
    /\ UNCHANGED <<session, tab, answers, active, closes, ends, faults>>

Refuse(r, v) ==
    /\ job[r][v] = "asked" /\ session
    /\ active[r] >= MaxViewers
    /\ job' = [job EXCEPT ![r][v] = "none"]
    /\ answers' = Replied(v, FALSE)
    /\ UNCHANGED <<session, tab, active, closes, ends, faults>>

(* Mutant of Accept: the last free place is given away twice.                  *)
AcceptOneMore(r, v) ==
    /\ job[r][v] = "asked" /\ session
    /\ active[r] <= MaxViewers
    /\ answers' = Replied(v, TRUE)
    /\ active' = [active EXCEPT ![r] = @ + 1]
    /\ job' = [job EXCEPT ![r][v] = "accepted"]
    /\ UNCHANGED <<session, tab, closes, ends, faults>>

Accept(r, v) ==
    /\ job[r][v] = "asked" /\ session
    /\ active[r] < MaxViewers
    /\ answers' = Replied(v, TRUE)
    /\ active' = [active EXCEPT ![r] = @ + 1]
    /\ job' = [job EXCEPT ![r][v] = "accepted"]
    /\ UNCHANGED <<session, tab, closes, ends, faults>>

(* serveViewer returns: its subscriptions go, and with them pending closes.    *)
(* Mutant: the place is given back by the goroutine and by serveViewer.        *)
ReturnTwice(r, v) ==
    /\ job' = [job EXCEPT ![r][v] = "none"]
    /\ active' = [active EXCEPT ![r] = @ - 2]
    /\ closes' = [closes EXCEPT ![r] = @ \ {v}]

Return(r, v) ==
    /\ job' = [job EXCEPT ![r][v] = "none"]
    /\ active' = [active EXCEPT ![r] = @ - 1]
    /\ closes' = [closes EXCEPT ![r] = @ \ {v}]

Attach(r, v) ==
    /\ job[r][v] = "accepted"
    /\ job' = [job EXCEPT ![r][v] = "attached"]
    /\ UNCHANGED <<session, tab, answers, active, closes, ends, faults>>

AttachFails(r, v) ==
    /\ job[r][v] = "accepted"
    /\ Return(r, v)
    /\ Ended(v)
    /\ UNCHANGED <<session, tab, answers, faults>>

SubscribeCtl(r, v) ==
    /\ job[r][v] = "attached"
    /\ job' = [job EXCEPT ![r][v] = "serving"]
    /\ UNCHANGED <<session, tab, answers, active, closes, ends, faults>>

(* The connection is gone: serveViewer returns without an end notice.          *)
SubscribeFails(r, v) ==
    /\ job[r][v] = "attached"
    /\ Fault
    /\ Return(r, v)
    /\ UNCHANGED <<session, tab, answers, ends>>

TakeClose(r, v) ==
    /\ v \in closes[r]
    /\ closes' = [closes EXCEPT ![r] = @ \ {v}]
    /\ job' = [job EXCEPT ![r][v] = "torn"]
    /\ UNCHANGED <<session, tab, answers, active, ends, faults>>

(* term.html sends a heartbeat every 20 s, unless the page is asleep.          *)
Beating(v) == tab[v].pc = "open" /\ ~tab[v].gone

Reap(r, v) ==
    /\ job' = [job EXCEPT ![r][v] = "torn"]
    /\ Ended(v)
    /\ UNCHANGED <<session, tab, answers, active, closes>>

(* Mutant of Idle: the watchdog looks only at viewers that were answered.      *)
IdleIfOpen(r, v) ==
    /\ job[r][v] = "serving"
    /\ IF Beating(v) THEN Fault ELSE tab[v].pc = "open" /\ UNCHANGED faults
    /\ Reap(r, v)

(* The watchdog.  idleTimeout is minutes, a request seconds: while it is being *)
(* answered nobody is idle.  A page whose machine sleeps is a fault.           *)
Idle(r, v) ==
    /\ job[r][v] = "serving" /\ tab[v].pc # "asking"
    /\ IF Beating(v) THEN Fault ELSE UNCHANGED faults
    /\ Reap(r, v)

(* Mutant of PumpReturns: no end notice.                                       *)
PumpReturnsSilently(r, v) ==
    /\ job[r][v] = "torn" \/ (job[r][v] = "serving" /\ ~session)
    /\ Return(r, v)
    /\ UNCHANGED <<session, tab, answers, ends, faults>>

(* The context was cancelled or the PTY is at its end.                         *)
PumpReturns(r, v) ==
    /\ job[r][v] = "torn" \/ (job[r][v] = "serving" /\ ~session)
    /\ Return(r, v)
    /\ Ended(v)
    /\ UNCHANGED <<session, tab, answers, faults>>

ResponderCrash(r) ==
    /\ Fault
    /\ job' = [job EXCEPT ![r] = [v \in Viewer |-> "none"]]
    /\ active' = [active EXCEPT ![r] = 0]
    /\ closes' = [closes EXCEPT ![r] = {}]
    /\ UNCHANGED <<session, tab, answers, ends>>

-----------------------------------------------------------------------------

SessionEnds ==
    /\ session
    /\ session' = FALSE
    /\ UNCHANGED <<tab, answers, job, active, closes, ends, faults>>

Lose ==
    /\ Fault
    /\ \/ /\ \E v \in ends : ends' = ends \ {v}
          /\ UNCHANGED <<answers, closes>>
       \/ /\ \E v \in Viewer : \E ok \in answers[v] :
                answers' = [answers EXCEPT ![v] = @ \ {ok}]
          /\ UNCHANGED <<ends, closes>>
       \/ /\ \E r \in Responder : \E v \in closes[r] :
                closes' = [closes EXCEPT ![r] = @ \ {v}]
          /\ UNCHANGED <<answers, ends>>
    /\ UNCHANGED <<session, tab, job, active>>

Gateway(v) ==
    \/ TakeAnswer(v) \/ GiveUpAsking(v) \/ Notice(v) \/ TakeEnd(v) \/ Close(v)

Serve(r, v) ==
    \/ Ignore(r, v) \/ Refuse(r, v) \/ Accept(r, v)
    \/ Attach(r, v) \/ AttachFails(r, v) \/ SubscribeCtl(r, v) \/ SubscribeFails(r, v)
    \/ TakeClose(r, v) \/ Idle(r, v) \/ PumpReturns(r, v)

Next ==
    \/ \E v \in Viewer : Open(v) \/ BrowserLeaves(v) \/ Gateway(v)
    \/ \E r \in Responder : ResponderCrash(r) \/ \E v \in Viewer : Serve(r, v)
    \/ GatewayCrash \/ SessionEnds \/ Lose

Spec == Init /\ [][Next]_vars

(* Goroutines keep running, timers fire and callbacks are run: a viewer moves  *)
(* on unless its step waits for the browser or the session.                    *)
FairSpec ==
    /\ Spec
    /\ \A v \in Viewer : WF_vars(Gateway(v))
    /\ \A r \in Responder, v \in Viewer : WF_vars(Serve(r, v))

-----------------------------------------------------------------------------

Jobs == {"none", "asked"} \cup Held

TypeOK ==
    /\ session \in BOOLEAN
    /\ tab \in [Viewer -> [pc : {"new", "asking", "open", "left"},
                           done : BOOLEAN, gone : BOOLEAN]]
    /\ answers \in [Viewer -> SUBSET BOOLEAN]
    /\ job \in [Responder -> [Viewer -> Jobs]]
    /\ active \in [Responder -> Nat]
    /\ closes \in [Responder -> SUBSET Viewer]
    /\ ends \in SUBSET Viewer
    /\ faults \in Nat

Holds(r) == {v \in Viewer : job[r][v] \in Held}

(* The counter in `active` is the number of viewers a responder serves, and    *)
(* never above the limit: each way out of serveViewer gives its place back     *)
(* once, however the watchdog, a close and the end of the session race.        *)
CountExact == \A r \in Responder :
    active[r] = Cardinality(Holds(r)) /\ active[r] <= MaxViewers

(* A tab that is open is served by some responder, or its end is on the way;   *)
(* only a crash or a lost message can leave it open with nobody behind.        *)
OpenIsServed == \A v \in Viewer :
    tab[v].pc = "open" /\ ~tab[v].done /\ faults = 0
    => v \in ends \/ \E r \in Responder : v \in Holds(r)

(* A tab open when its session ends is told and closed, unless something was   *)
(* lost or crashed (the code has no other way to find out).                    *)
EndedIsTold == \A v \in Viewer :
    tab[v].pc = "open" /\ ~session
    ~> tab[v].pc = "left" \/ faults > 0

Pool == INSTANCE ViewerPool WITH
    asked <- {v \in Viewer : tab[v].pc # "new"},
    gone <- {v \in Viewer : tab[v].pc = "left"},
    holders <- [r \in Responder |-> Holds(r)]

(* Gateway and responders together keep the promise of ViewerPool: no viewer   *)
(* beyond the limit, and none kept for ever behind a closed tab, although a    *)
(* close may come before the responder listens, or never.                      *)
ImplementsPool == Pool!Spec
=============================================================================
