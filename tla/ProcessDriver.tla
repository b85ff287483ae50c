---------------------------- MODULE ProcessDriver ----------------------------
(* A worker that is led by a process: the babysitter extension, which asks the *)
(* engine for the next step and hands it to the agent, and the inbox of the    *)
(* worker extension, which resolves the steps that wait for an event.          *)
(*                                                                             *)
(* The two extensions share only a file, .babysitter-event-wait.json, and the  *)
(* run's journal.  Events come from a durable JetStream consumer, which gives  *)
(* a message again until it is acknowledged.  The engine (deps/babysitter) is  *)
(* known from its use: run:iterate, run:status, run:create and task:post,      *)
(* which refuses a step that is already resolved.                              *)
EXTENDS Naturals, Sequences

CONSTANTS
    Process,      \* the steps: a sequence of [kind, types]
    Type,         \* the types of events
    AutoApprove,  \* PINARD_BREAKPOINT_AUTO_APPROVE
    MaxDeliver,   \* a message not waited for is dropped at this delivery (11)
    MaxSend,      \* bound: messages sent to the inbox
    MaxCrashes,   \* bound: deaths of the worker
    MaxSlips,     \* bound: calls of the engine's command line that fail
    MaxEdits      \* bound: changes of the process file (0 or 1)

Kind == {"task", "gate", "event"}
Steps == 1..Len(Process)

ASSUME ProcessAssumption ==
    /\ Process \in Seq([kind : Kind, types : SUBSET Type])
    /\ AutoApprove \in BOOLEAN /\ MaxDeliver \in Nat
    /\ MaxSend \in Nat /\ MaxCrashes \in Nat /\ MaxSlips \in Nat /\ MaxEdits \in 0..1

VARIABLES
    journal,  \* journal[r]: steps the engine asked for, and those resolved
    forked,   \* the fork of the run exists
    edited,   \* the process file no longer replays the first run's journal
    driver,   \* the variables of the babysitter extension
    file,     \* the signal file: the step waited for, or NoWait
    pending,  \* pendingEventEffect of the worker extension, or NoWait
    turn,     \* the agent works
    prompts,  \* user messages wait for the agent
    stream,   \* messages not acknowledged, with their deliveries
    inbox,    \* the message whose event is posted and not yet acknowledged
    numSent, crashes, slips,
    by,       \* by[k]: types of the messages that resolved event step k
    uses,     \* uses[m]: steps message m resolved
    mixed,    \* event steps during whose wait another message was handled
    torn      \* the worker died between task:post and removing the signal file

engine == <<journal, forked, edited>>
atWork == <<turn, prompts>>
mail == <<stream, inbox, numSent>>
hist == <<by, uses, mixed, torn>>
driverVars == <<engine, driver, file, pending, atWork, mail, crashes, slips, hist>>

Run == {"base", "fork"}
NoRun == "none"
Effect == [run : Run, step : Steps]
NoWait == [run |-> NoRun, step |-> 0]
Msg == 1..MaxSend
NoMsg == [id |-> 0, stage |-> "none"]

Down == [up |-> FALSE, run |-> NoRun, effect |-> 0, waiting |-> FALSE,
         finished |-> FALSE, dispatched |-> FALSE, ready |-> FALSE, forking |-> FALSE]

DriverInit ==
    /\ journal = [r \in Run |-> [asked |-> 0, done |-> 0]]
    /\ forked = FALSE /\ edited = FALSE
    /\ driver = Down
    /\ file = NoWait /\ pending = NoWait
    /\ turn = FALSE /\ prompts = FALSE
    /\ stream = {} /\ inbox = NoMsg /\ numSent = 0
    /\ crashes = 0 /\ slips = 0
    /\ by = [k \in Steps |-> {}] /\ uses = [m \in Msg |-> 0] /\ mixed = {}
    /\ torn = FALSE

(* JavaScript runs one handler at a time.                                      *)
DriverFree == driver.up /\ inbox = NoMsg

Slip == slips < MaxSlips /\ slips' = slips + 1

-----------------------------------------------------------------------------
(* driveIteration, with the handler's view d of the variables.                 *)

(* run:iterate: the step after the last resolved one; gates that are approved  *)
(* on the spot are passed over.                                                *)
Gate(k) == Process[k].kind = "gate" /\ AutoApprove
Reached(r) ==
    CHOOSE k \in (journal[r].done + 1)..(Len(Process) + 1) :
        /\ \A j \in (journal[r].done + 1)..(k - 1) : Gate(j)
        /\ k = Len(Process) + 1 \/ ~Gate(k)

Replays(r) == ~(edited /\ r = "base" /\ journal[r].done > 0)

(* The process has run to its end: the extension leaves with it.               *)
Complete(d) ==
    /\ Replays(d.run) /\ Reached(d.run) > Len(Process)
    /\ driver' = [d EXCEPT !.finished = TRUE, !.up = FALSE]
    /\ journal' = [journal EXCEPT ![d.run] = [asked |-> Len(Process), done |-> Len(Process)]]
    /\ turn' = FALSE /\ prompts' = FALSE /\ pending' = NoWait
    /\ UNCHANGED <<forked, edited, file, slips>>

(* A step that waits for an event: the signal file tells the worker.           *)
AwaitEvent(d) ==
    LET k == Reached(d.run) IN
    /\ Replays(d.run) /\ k \in Steps /\ Process[k].kind = "event"
    /\ journal' = [journal EXCEPT ![d.run] = [asked |-> k, done |-> k - 1]]
    /\ driver' = [d EXCEPT !.effect = k, !.waiting = TRUE]
    /\ file' = [run |-> d.run, step |-> k]
    /\ UNCHANGED <<forked, edited, prompts, slips, pending>>

(* A task, or a gate the operator decides: the agent is told.                  *)
Dispatch(d) ==
    LET k == Reached(d.run) IN
    /\ Replays(d.run) /\ k \in Steps /\ Process[k].kind # "event"
    /\ journal' = [journal EXCEPT ![d.run] = [asked |-> k, done |-> k - 1]]
    /\ driver' = [d EXCEPT !.effect = k, !.dispatched = TRUE]
    /\ prompts' = TRUE
    /\ UNCHANGED <<forked, edited, file, slips, pending>>

(* The journal does not fit the process any more: a second run is created, but *)
(* not driven.  An existing fork may be refused by run:create.                 *)
Fork(d) ==
    /\ ~Replays(d.run)
    /\ \/ /\ ~d.forking
          /\ driver' = [d EXCEPT !.forking = TRUE, !.run = "fork"]
          /\ forked' = TRUE
       \/ /\ d.forking \/ forked
          /\ driver' = [d EXCEPT !.forking = TRUE, !.finished = TRUE]
          /\ UNCHANGED forked
    /\ UNCHANGED <<journal, edited, file, prompts, slips, pending>>

(* run:iterate fails, or answers that the process failed; an approval on the   *)
(* spot that fails halts the driver.                                           *)
IterateFails(d) ==
    /\ Slip
    /\ \E halt \in BOOLEAN : driver' = [d EXCEPT !.finished = halt]
    /\ UNCHANGED <<engine, file, prompts, pending>>

Drive(d) ==
    \/ Complete(d)
    \/ /\ AwaitEvent(d) \/ Dispatch(d) \/ Fork(d) \/ IterateFails(d)
       /\ turn' = FALSE

-----------------------------------------------------------------------------
(* The babysitter extension.                                                   *)

(* session_start: RUN_ID is resumed or created; a run that waits for an event  *)
(* is parked at once, any other is driven at the end of the first turn.        *)
Start ==
    /\ ~driver.up /\ ~driver.finished
    /\ LET j == journal["base"]
           parked == j.asked > j.done /\ Process[j.asked].kind = "event"
       IN  /\ driver' = [Down EXCEPT !.up = TRUE, !.run = "base", !.waiting = parked,
                             !.ready = parked, !.effect = IF parked THEN j.asked ELSE 0]
           /\ file' = IF parked THEN [run |-> "base", step |-> j.asked] ELSE file
    /\ prompts' = TRUE
    /\ UNCHANGED <<engine, pending, turn, mail, crashes, slips, hist>>

(* The engine does not answer at the start: the run is never driven.           *)
StartBlind ==
    /\ ~driver.up /\ ~driver.finished /\ Slip
    /\ driver' = [Down EXCEPT !.up = TRUE]
    /\ prompts' = TRUE
    /\ UNCHANGED <<engine, file, pending, turn, mail, crashes, hist>>

BeginTurn ==
    /\ DriverFree /\ prompts /\ ~turn
    /\ turn' = TRUE /\ prompts' = FALSE
    /\ UNCHANGED <<engine, driver, file, pending, mail, crashes, slips, hist>>

Unresolved(e) == e.run \in Run /\ journal[e.run].done < e.step
Current == [run |-> driver.run, step |-> driver.effect]

(* The agent runs task:post for the task it was given.                         *)
PostResult ==
    /\ DriverFree /\ turn /\ driver.dispatched /\ Unresolved(Current)
    /\ journal' = [journal EXCEPT ![driver.run].done = driver.effect]
    /\ UNCHANGED <<forked, edited, driver, file, pending, atWork, mail, crashes, slips, hist>>

(* turn_end, where there is nothing to do: no run, a finished one, an event    *)
(* still waited for, or a task whose result the journal does not have.         *)
Idles ==
    \/ driver.run = NoRun \/ driver.finished
    \/ driver.waiting /\ file # NoWait
    \/ ~driver.waiting /\ driver.ready /\ driver.dispatched /\ Unresolved(Current)

EndTurn ==
    /\ DriverFree /\ turn
    /\ IF Idles
       THEN turn' = FALSE /\ UNCHANGED <<engine, driver, file, pending, prompts, slips>>
       ELSE Drive([driver EXCEPT !.ready = TRUE, !.waiting = FALSE,
                                 !.dispatched = FALSE, !.effect = 0])
    /\ UNCHANGED <<mail, crashes, hist>>

-----------------------------------------------------------------------------
(* The inbox of the worker extension.                                          *)

(* Mutant of Matches: the types of the signal file are not looked at.          *)
MatchesAny(m) == m.type # "chat"

(* Mutant of Matches: a step without known types is resolved by no event.      *)
MatchesListed(m) ==
    /\ m.type # "chat" /\ pending = NoWait
    /\ m.type \in Process[file.step].types

(* The step a message is handled for, and whether it may resolve it: the types *)
(* come with the file, which is read only when no step is pending yet.         *)
Waited == IF pending # NoWait THEN pending ELSE file
Matches(m) ==
    LET expected == IF pending = NoWait THEN Process[file.step].types ELSE {} IN
    m.type # "chat" /\ (expected = {} \/ m.type \in expected)

(* An event nobody waits for is put back for five seconds, then given up.      *)
NotWaiting(m) ==
    /\ m.type # "chat" /\ Waited = NoWait
    /\ stream' = (stream \ {m}) \cup
                    (IF m.n + 1 >= MaxDeliver THEN {} ELSE {[m EXCEPT !.n = @ + 1]})
    /\ UNCHANGED <<engine, prompts, pending, inbox, slips, hist>>

(* Chat goes to the agent; it and an event of another type leave the wait as   *)
(* it is, but pendingEventEffect is set from now on.                           *)
SetAside(m) ==
    /\ m.type = "chat" \/ (Waited # NoWait /\ ~Matches(m))
    /\ prompts' = (prompts \/ m.type = "chat")
    /\ pending' = Waited
    /\ mixed' = mixed \cup ({Waited.step} \ {0})
    /\ stream' = stream \ {m}
    /\ UNCHANGED <<engine, inbox, slips, by, uses, torn>>

(* task:post resolves the step.                                                *)
Resolve(m) ==
    /\ journal' = [journal EXCEPT ![Waited.run].done = Waited.step]
    /\ by' = [by EXCEPT ![Waited.step] = @ \cup {m.type}]
    /\ uses' = [uses EXCEPT ![m.id] = @ + 1]

Post(m) ==
    /\ Waited # NoWait /\ Matches(m) /\ Unresolved(Waited)
    /\ Resolve(m)
    /\ pending' = Waited
    /\ inbox' = [id |-> m.id, stage |-> "posted"]
    /\ stream' = (stream \ {m}) \cup {[m EXCEPT !.n = @ + 1]}
    /\ UNCHANGED <<forked, edited, prompts, slips, mixed, torn>>

(* It is refused, fails, or does its work but not within ten seconds: the      *)
(* message is acknowledged all the same.                                       *)
PostFails(m) ==
    /\ Waited # NoWait /\ Matches(m)
    /\ \/ ~Unresolved(Waited) /\ UNCHANGED <<journal, by, uses, slips>>
       \/ Slip /\ UNCHANGED <<journal, by, uses>>
       \/ Slip /\ Unresolved(Waited) /\ Resolve(m)
    /\ pending' = Waited
    /\ mixed' = mixed \cup {Waited.step}
    /\ stream' = stream \ {m}
    /\ UNCHANGED <<forked, edited, prompts, inbox, torn>>

Deliver ==
    /\ DriverFree
    /\ \E m \in stream : NotWaiting(m) \/ SetAside(m) \/ Post(m) \/ PostFails(m)
    /\ UNCHANGED <<driver, file, turn, numSent, crashes>>

(* Mutant of Unlink: no turn is triggered.                                     *)
UnlinkQuietly ==
    /\ driver.up /\ inbox.stage = "posted"
    /\ inbox' = [inbox EXCEPT !.stage = "unlinked"]
    /\ pending' = NoWait /\ file' = NoWait
    /\ UNCHANGED <<engine, driver, atWork, stream, numSent, crashes, slips, hist>>

(* After task:post: the wait is over, and a message triggers the turn at whose *)
(* end the babysitter extension finds the file gone.                           *)
Unlink ==
    /\ driver.up /\ inbox.stage = "posted"
    /\ inbox' = [inbox EXCEPT !.stage = "unlinked"]
    /\ pending' = NoWait /\ file' = NoWait
    /\ prompts' = TRUE
    /\ UNCHANGED <<engine, driver, turn, stream, numSent, crashes, slips, hist>>

(* Mutant of Ack: the message stays in the stream.                             *)
AckNever ==
    /\ driver.up /\ inbox.stage = "unlinked"
    /\ inbox' = NoMsg
    /\ UNCHANGED <<engine, driver, file, pending, atWork, stream, numSent, crashes, slips, hist>>

Ack ==
    /\ driver.up /\ inbox.stage = "unlinked"
    /\ stream' = {m \in stream : m.id # inbox.id}
    /\ inbox' = NoMsg
    /\ UNCHANGED <<engine, driver, file, pending, atWork, numSent, crashes, slips, hist>>

-----------------------------------------------------------------------------
(* Everybody else.                                                             *)

(* The daemon publishes an event, or the conductor sends chat.                 *)
Send ==
    /\ numSent < MaxSend /\ numSent' = numSent + 1
    /\ \E t \in Type \cup {"chat"} : stream' = stream \cup {[id |-> numSent', type |-> t, n |-> 0]}
    /\ UNCHANGED <<engine, driver, file, pending, atWork, inbox, crashes, slips, hist>>

(* The worker dies; the file and the message in its hands stay.                *)
Crash ==
    /\ driver.up /\ crashes < MaxCrashes
    /\ crashes' = crashes + 1
    /\ torn' = (torn \/ inbox.stage = "posted")
    /\ driver' = Down /\ turn' = FALSE /\ prompts' = FALSE
    /\ pending' = NoWait /\ inbox' = NoMsg
    /\ UNCHANGED <<engine, file, stream, numSent, slips, by, uses, mixed>>

(* Somebody changes the process while it runs.                                 *)
Edit ==
    /\ ~edited /\ MaxEdits = 1 /\ edited' = TRUE
    /\ UNCHANGED <<journal, forked, driver, file, pending, atWork, mail, crashes, slips, hist>>

Worker ==
    \/ Start \/ BeginTurn \/ EndTurn \/ Deliver \/ Unlink \/ Ack

DriverNext == Worker \/ StartBlind \/ PostResult \/ Send \/ Crash \/ Edit

DriverSpec == DriverInit /\ [][DriverNext]_driverVars

(* The daemon starts a dead worker again, turns begin and end, and JetStream   *)
(* delivers; nothing obliges the agent to post a result.                       *)
FairDriverSpec ==
    /\ DriverSpec
    /\ WF_driverVars(Start) /\ WF_driverVars(BeginTurn) /\ WF_driverVars(EndTurn)
    /\ WF_driverVars(Deliver) /\ WF_driverVars(Unlink) /\ WF_driverVars(Ack)

-----------------------------------------------------------------------------
DriverTypes ==
    /\ journal \in [Run -> [asked : 0..Len(Process), done : 0..Len(Process)]]
    /\ forked \in BOOLEAN /\ edited \in BOOLEAN
    /\ driver \in [up : BOOLEAN, run : Run \cup {NoRun}, effect : 0..Len(Process),
                   waiting : BOOLEAN, finished : BOOLEAN, dispatched : BOOLEAN,
                   ready : BOOLEAN, forking : BOOLEAN]
    /\ file \in Effect \cup {NoWait} /\ pending \in Effect \cup {NoWait}
    /\ turn \in BOOLEAN /\ prompts \in BOOLEAN
    /\ stream \subseteq [id : Msg, type : Type \cup {"chat"}, n : Nat]
    /\ inbox \in [id : Msg, stage : {"posted", "unlinked"}] \cup {NoMsg}
    /\ numSent \in 0..MaxSend /\ crashes \in 0..MaxCrashes /\ slips \in 0..MaxSlips
    /\ by \in [Steps -> SUBSET (Type \cup {"chat"})]
    /\ uses \in [Msg -> Nat] /\ mixed \subseteq Steps /\ torn \in BOOLEAN

(* A step that waits for an event is resolved by an event of a type it waits   *)
(* for, never by chat, unless another message was handled during the wait:     *)
(* pendingEventEffect is then set, the types are not read again, and the next  *)
(* event resolves the step whatever its type (worker/index.ts:365-397).  A     *)
(* step that names no types waits for any.                                     *)
ResolvedInKind ==
    \A k \in Steps :
        by[k] \subseteq (IF k \in mixed \/ Process[k].types = {} THEN Type ELSE Process[k].types)

(* A message resolves one step, and one more only for each time the worker     *)
(* died while it handled it (and for the fork, which begins anew).             *)
OneStepPerEvent == \A m \in Msg : uses[m] <= 1 + crashes

(* The run and its driver keep to their states, and no event is used twice.    *)
DriverInv == DriverTypes /\ OneStepPerEvent

(* When nobody works and no message is waiting for the agent, there is a       *)
(* reason: the process ended, waits for an event the worker extension knows    *)
(* of, the agent did not post its result, the run was forked, or a call of the *)
(* engine failed.                                                              *)
ParkedForCause ==
    DriverFree /\ ~turn /\ ~prompts =>
        \/ driver.finished \/ driver.forking \/ slips > 0
        \/ driver.waiting /\ file = Current /\ Unresolved(file)
        \/ driver.dispatched /\ Unresolved(Current)

(* An event the process waits for resolves its step once it is in the stream,  *)
(* whatever was sent before it and however often the worker is restarted;      *)
(* unless it died between task:post and the removal of the file, which leaves  *)
(* a file of a resolved step behind.                                           *)
EventResolves ==
    \A k \in Steps :
        (/\ driver.waiting /\ file = [run |-> "base", step |-> k] /\ Unresolved(file)
         /\ \E m \in stream : m.type \in Process[k].types)
            ~> (journal["base"].done >= k \/ torn \/ slips > 0)
=============================================================================
