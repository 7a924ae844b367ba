------------------------------- MODULE Broker -------------------------------
(***************************************************************************)
(* The inside of a session broker (scripts/noetic_sessions.py, Broker):    *)
(* handler threads serve one action at a time under the action lock and    *)
(* write commands to Pi; a reader thread, which takes no lock, turns Pi's  *)
(* records into answers of pending commands and into the session's status. *)
(*                                                                         *)
(* Pi is external: it answers its commands in order, may be silent for     *)
(* longer than the broker waits, and works, asks and settles by itself.    *)
(***************************************************************************)
EXTENDS Naturals, Sequences, FiniteSets

CONSTANTS
  Handlers,
  MaxCommands,  \* commands written to Pi
  MaxDialogs    \* questions Pi asks

ASSUME BrokerAssumption == MaxCommands \in Nat /\ MaxDialogs \in Nat

VARIABLES
  handler,  \* [at, action, prior, waits, command, answer]: where an action is
  pending,  \* commands registered for an answer
  last,     \* the number of the last command
  status,   \* of the registry row; "failed" is one way of being "idle" here
  dialogs,  \* questions waiting for a person
  reading,  \* the reader runs
  closed,   \* the broker was asked to end
  pi,       \* [working, queued, asking]: asking is a question's number, or 0
  inbox,    \* commands Pi has not taken
  outbox,   \* records the reader has not read
  asked,    \* questions so far
  stage     \* of the main thread: "serving", "finished", "exited"

piState == <<pi, inbox, outbox, asked>>
vars == <<handler, pending, last, status, dialogs, reading, closed, stage, piState>>

NoAnswer == [command |-> 0, ok |-> FALSE, busy |-> FALSE]
Free == [at |-> "idle", action |-> "none", prior |-> "idle", waits |-> FALSE,
         command |-> 0, answer |-> NoAnswer]
Ended == [working |-> FALSE, queued |-> 0, asking |-> 0, up |-> FALSE]

Init ==
  /\ handler = [h \in Handlers |-> Free]
  /\ pending = {} /\ last = 0
  /\ status = "idle" /\ dialogs = {} /\ reading = TRUE /\ closed = FALSE /\ stage = "serving"
  /\ pi = [Ended EXCEPT !.up = TRUE]
  /\ inbox = <<>> /\ outbox = <<>> /\ asked = 0

---------------------------------------------------------------------------
(* Pi *)

Answer(command, ok) ==
  [type |-> "response", command |-> command, ok |-> ok,
   busy |-> pi.working \/ pi.queued > 0]
Event(type, question) == [type |-> type, command |-> question, ok |-> TRUE, busy |-> FALSE]

Emits(records) == \E sequence \in records : outbox' = outbox \o sequence

\* A first record and a second one, in an order Pi chooses.
Either(first, second) == {<<first, second>>, <<second, first>>}

PiTakes ==
  /\ pi.up /\ inbox # <<>>
  /\ inbox' = Tail(inbox)
  /\ LET c == Head(inbox)
     IN \/ /\ c.kind \in {"prompt", "steer"} /\ ~pi.working
           /\ pi' = [pi EXCEPT !.working = TRUE]
           /\ Emits(Either(Answer(c.command, TRUE), Event("start", 0)))
        \/ /\ c.kind = "prompt" /\ pi.working
           /\ Emits({<<Answer(c.command, FALSE)>>})
           /\ UNCHANGED pi
        \/ /\ c.kind = "steer" /\ pi.working
           /\ pi' = [pi EXCEPT !.queued = @ + 1]
           /\ Emits({<<Answer(c.command, TRUE)>>})
        \/ /\ c.kind = "clear_queue"
           /\ pi' = [pi EXCEPT !.queued = 0]
           /\ Emits({<<Answer(c.command, TRUE)>>})
        \/ /\ c.kind = "abort" /\ pi.working /\ pi.queued = 0
           /\ pi' = [pi EXCEPT !.working = FALSE, !.asking = 0]
           /\ Emits(Either(Answer(c.command, TRUE), Event("settled", 0)))
        \/ /\ c.kind = "abort" /\ pi.working /\ pi.queued > 0
           /\ pi' = [pi EXCEPT !.queued = @ - 1, !.asking = 0]
           /\ Emits(Either(Answer(c.command, TRUE), Event("start", 0)))
        \/ /\ c.kind = "abort" /\ ~pi.working
           /\ Emits({<<Answer(c.command, TRUE)>>})
           /\ UNCHANGED pi
        \/ /\ c.kind = "get_state"
           /\ Emits({<<Answer(c.command, TRUE)>>})
           /\ UNCHANGED pi
        \/ /\ c.kind = "ui_response"
           /\ pi' = [pi EXCEPT !.asking = IF @ = c.command THEN 0 ELSE @]
           /\ UNCHANGED outbox
  /\ UNCHANGED <<handler, pending, last, status, dialogs, reading, closed, stage, asked>>

PiAsks ==
  /\ pi.working /\ pi.asking = 0 /\ asked < MaxDialogs
  /\ asked' = asked + 1
  /\ pi' = [pi EXCEPT !.asking = asked + 1]
  /\ Emits({<<Event("request", asked + 1)>>})
  /\ UNCHANGED <<handler, pending, last, status, dialogs, reading, closed, stage, inbox>>

PiSettles ==
  /\ pi.working /\ pi.asking = 0
  /\ IF pi.queued > 0
     THEN pi' = [pi EXCEPT !.queued = @ - 1] /\ Emits({<<Event("start", 0)>>})
     ELSE pi' = [pi EXCEPT !.working = FALSE] /\ Emits({<<Event("settled", 0)>>})
  /\ UNCHANGED <<handler, pending, last, status, dialogs, reading, closed, stage, inbox, asked>>

PiExits ==
  /\ pi.up
  /\ pi' = Ended /\ inbox' = <<>>
  /\ UNCHANGED <<handler, pending, last, status, dialogs, reading, closed, stage, outbox, asked>>

---------------------------------------------------------------------------
(* The reader *)

\* A response to whoever waits.
ReadForAnyone ==
  /\ Head(outbox).type = "response"
  /\ handler' = [h \in Handlers |->
       IF handler[h].waits
       THEN [handler[h] EXCEPT !.answer = [command |-> Head(outbox).command,
                                           ok |-> Head(outbox).ok, busy |-> Head(outbox).busy]]
       ELSE handler[h]]
  /\ UNCHANGED <<status, dialogs>>

\* A response is given to the command that waits for it; one that came too
\* late finds nobody.
ReadResponse ==
  /\ Head(outbox).type = "response"
  /\ handler' = [h \in Handlers |->
       IF handler[h].waits /\ handler[h].command = Head(outbox).command
       THEN [handler[h] EXCEPT !.answer = [command |-> Head(outbox).command,
                                           ok |-> Head(outbox).ok, busy |-> Head(outbox).busy]]
       ELSE handler[h]]
  /\ UNCHANGED <<status, dialogs>>

ReadEvent ==
  /\ UNCHANGED handler
  /\ \/ Head(outbox).type = "start" /\ status' = "running" /\ UNCHANGED dialogs
     \/ Head(outbox).type = "settled" /\ status' = "idle" /\ dialogs' = {}
     \/ /\ Head(outbox).type = "request" /\ status' = "needs_input"
        /\ dialogs' = dialogs \union {Head(outbox).command}

Read ==
  /\ stage # "exited" /\ reading /\ outbox # <<>>
  /\ outbox' = Tail(outbox)
  /\ ReadResponse \/ ReadEvent
  /\ UNCHANGED <<pending, last, reading, closed, stage, pi, inbox, asked>>

\* The stream ends, or a record is not what the protocol says: whatever waits
\* is answered with an error, and the broker closes.
ReadEnd ==
  /\ stage # "exited" /\ reading
  /\ reading' = FALSE /\ closed' = TRUE
  /\ handler' = [h \in Handlers |->
       IF handler[h].waits
       THEN [handler[h] EXCEPT !.answer = [NoAnswer EXCEPT !.command = handler[h].command]]
       ELSE handler[h]]
  /\ UNCHANGED <<pending, last, status, dialogs, stage, piState>>

EndOfStream == ~pi.up /\ outbox = <<>> /\ ReadEnd
ProtocolError == outbox # <<>> /\ ReadEnd

---------------------------------------------------------------------------
(* Handlers *)

LockFree == \A h \in Handlers : handler[h].at = "idle"

At(h, places) == stage # "exited" /\ handler[h].at \in places
Goes(h, place) == handler' = [handler EXCEPT ![h].at = place, ![h].waits = FALSE]
Leaves(h) == handler' = [handler EXCEPT ![h] = Free]

\* Without the action lock.
BeginAtOnce(h, action, place) ==
  /\ At(h, {"idle"}) /\ stage = "serving"
  /\ handler' = [handler EXCEPT ![h] =
       [Free EXCEPT !.at = place, !.action = action, !.prior = status]]

\* The action lock is held to the end of the action.
Begin(h, action, place) ==
  /\ At(h, {"idle"}) /\ LockFree /\ stage = "serving"
  /\ handler' = [handler EXCEPT ![h] =
       [Free EXCEPT !.at = place, !.action = action, !.prior = status]]

\* A prompt reads the status, and shows an idle session as submitted before
\* it is written.
Prompt(h) ==
  /\ last < MaxCommands
  /\ \E mode \in {"prompt", "steer"} :
       /\ Begin(h, mode, IF status = "idle" THEN "submitting" ELSE "prompt")
  /\ UNCHANGED <<pending, last, status, dialogs, reading, closed, stage, piState>>

Submit(h) ==
  /\ At(h, {"submitting"})
  /\ status' = "submitted"
  /\ Goes(h, "prompt")
  /\ UNCHANGED <<pending, last, dialogs, reading, closed, stage, piState>>

Stop(h) ==
  /\ last + 3 <= MaxCommands
  /\ \E action \in {"stop", "shutdown"} : Begin(h, action, "clear_queue")
  /\ status' = "stopping"
  /\ UNCHANGED <<pending, last, dialogs, reading, closed, stage, piState>>

\* rpc: the command is registered, then written to Pi's stdin.
Commands == {"prompt", "clear_queue", "abort", "get_state"}

Send(h) ==
  /\ At(h, Commands) /\ ~handler[h].waits /\ pi.up
  /\ last' = last + 1
  /\ pending' = pending \union {last + 1}
  /\ inbox' = Append(inbox, [command |-> last + 1, kind |->
       IF handler[h].at = "prompt" THEN handler[h].action ELSE handler[h].at])
  /\ handler' = [handler EXCEPT ![h].waits = TRUE, ![h].command = last + 1]
  /\ UNCHANGED <<status, dialogs, reading, closed, stage, pi, outbox, asked>>

\* A prompt whose command failed goes on to take its status back.
Fails(h) == IF handler[h].at = "prompt" THEN Goes(h, "failed") ELSE Leaves(h)

SendFails(h) ==
  /\ At(h, Commands) /\ ~handler[h].waits /\ ~pi.up
  /\ Fails(h)
  /\ UNCHANGED <<pending, last, status, dialogs, reading, closed, stage, piState>>

Answered(h) == At(h, Commands) /\ handler[h].waits /\ handler[h].answer # NoAnswer

Refused(h) ==
  /\ Answered(h) /\ ~handler[h].answer.ok
  /\ pending' = pending \ {handler[h].command}
  /\ Fails(h)
  /\ UNCHANGED <<last, status, dialogs, reading, closed, stage, piState>>

\* event.wait without a timeout.
TimesOutNever(h) ==
  /\ At(h, Commands) /\ handler[h].waits /\ MaxCommands = 0
  /\ UNCHANGED vars

\* 20 seconds without an answer: the outcome remains uncertain.
TimesOut(h) ==
  /\ At(h, Commands) /\ handler[h].waits /\ handler[h].answer = NoAnswer
  /\ pending' = pending \ {handler[h].command}
  /\ Fails(h)
  /\ UNCHANGED <<last, status, dialogs, reading, closed, stage, piState>>

Succeeds(h) ==
  /\ Answered(h) /\ handler[h].answer.ok
  /\ pending' = pending \ {handler[h].command}
  /\ CASE handler[h].at = "prompt"      -> Leaves(h)
       [] handler[h].at = "clear_queue" -> handler' = [handler EXCEPT ![h].at = "abort",
                                              ![h].waits = FALSE, ![h].answer = NoAnswer]
       [] handler[h].at = "abort"       -> handler' = [handler EXCEPT ![h].at = "get_state",
                                              ![h].waits = FALSE, ![h].answer = NoAnswer]
       [] handler[h].at = "get_state"   -> Goes(h, "stopped")
  /\ UNCHANGED <<last, status, dialogs, reading, closed, stage, piState>>

\* An agent message that Pi accepted without fetching its envelope.
Unconfirmed(h) ==
  /\ Answered(h) /\ handler[h].answer.ok /\ handler[h].at = "prompt"
  /\ pending' = pending \ {handler[h].command}
  /\ Fails(h)
  /\ UNCHANGED <<last, status, dialogs, reading, closed, stage, piState>>

\* The status a failed prompt takes back, read and then written.
TakeBack(h) ==
  /\ At(h, {"failed"})
  /\ IF status = "submitted" THEN Goes(h, "reverting") ELSE Leaves(h)
  /\ UNCHANGED <<pending, last, status, dialogs, reading, closed, stage, piState>>

Revert(h) ==
  /\ At(h, {"reverting"})
  /\ status' = handler[h].prior
  /\ Leaves(h)
  /\ UNCHANGED <<pending, last, dialogs, reading, closed, stage, piState>>

\* The end of a stop, with what get_state answered; a shutdown closes.
Stopped(h) ==
  /\ At(h, {"stopped"})
  /\ status' = IF handler[h].answer.busy THEN "stopping" ELSE "idle"
  /\ closed' = (closed \/ handler[h].action = "shutdown")
  /\ Leaves(h)
  /\ UNCHANGED <<pending, last, dialogs, reading, stage, piState>>

\* A dialog's answer is written, then forgotten, then shown.
Reply(h) ==
  /\ \E d \in dialogs :
       /\ At(h, {"idle"}) /\ LockFree /\ stage = "serving" /\ pi.up
       /\ inbox' = Append(inbox, [command |-> d, kind |-> "ui_response"])
       /\ handler' = [handler EXCEPT ![h] = [Free EXCEPT !.at = "replied", !.command = d]]
  /\ UNCHANGED <<pending, last, status, dialogs, reading, closed, stage, pi, outbox, asked>>

\* The reader may have cleared the dialogs: the pop raises.
Forget(h) ==
  /\ At(h, {"replied"})
  /\ dialogs' = dialogs \ {handler[h].command}
  /\ IF handler[h].command \in dialogs
     THEN Goes(h, IF dialogs = {handler[h].command} THEN "resuming" ELSE "asking")
     ELSE Leaves(h)
  /\ UNCHANGED <<pending, last, status, reading, closed, stage, piState>>

Resume(h) ==
  /\ At(h, {"resuming", "asking"})
  /\ status' = IF handler[h].at = "asking" THEN "needs_input" ELSE "running"
  /\ Leaves(h)
  /\ UNCHANGED <<pending, last, dialogs, reading, closed, stage, piState>>

---------------------------------------------------------------------------
(* The main thread *)

Finish ==
  /\ stage = "serving" /\ closed
  /\ status' = "closed" /\ stage' = "finished"
  /\ pi' = Ended /\ inbox' = <<>>
  /\ UNCHANGED <<handler, pending, last, dialogs, reading, closed, outbox, asked>>

\* The process ends, and its daemon threads with it.
Exit ==
  /\ stage = "finished"
  /\ stage' = "exited"
  /\ UNCHANGED <<handler, pending, last, status, dialogs, reading, closed, piState>>

---------------------------------------------------------------------------
Work(h) ==
  \/ Send(h) \/ SendFails(h) \/ Refused(h) \/ TimesOut(h) \/ Succeeds(h)
  \/ Submit(h) \/ Unconfirmed(h) \/ TakeBack(h) \/ Revert(h) \/ Stopped(h) \/ Forget(h) \/ Resume(h)

Next ==
  \/ PiTakes \/ PiAsks \/ PiSettles \/ PiExits
  \/ Read \/ EndOfStream \/ ProtocolError \/ Finish \/ Exit
  \/ \E h \in Handlers : Prompt(h) \/ Stop(h) \/ Reply(h) \/ Work(h)

\* The broker's threads run; Pi and the people around it need not do anything.
Fairness ==
  /\ WF_vars(Read) /\ WF_vars(EndOfStream) /\ WF_vars(Finish) /\ WF_vars(Exit)
  /\ \A h \in Handlers : WF_vars(Work(h))

Spec == Init /\ [][Next]_vars /\ Fairness

---------------------------------------------------------------------------
(* Properties *)

Statuses == {"idle", "submitted", "running", "needs_input", "stopping", "closed"}

TypeOK ==
  /\ \A h \in Handlers : handler[h].command \in 0..(MaxCommands + MaxDialogs)
  /\ pending \subseteq 1..last
  /\ last <= MaxCommands /\ asked <= MaxDialogs
  /\ status \in Statuses /\ dialogs \subseteq 1..asked
  /\ reading \in BOOLEAN /\ closed \in BOOLEAN
  /\ stage \in {"serving", "finished", "exited"}
  /\ pi.queued \in 0..MaxCommands /\ pi.asking \in 0..asked

\* A command is answered by its own response: the late response to one that
\* was given up is dropped, it never answers the command sent after it.
AnswersMatch ==
  \A h \in Handlers : handler[h].answer # NoAnswer =>
    handler[h].answer.command = handler[h].command

\* What is registered for an answer is awaited: commands that were refused,
\* timed out or released by the end of the stream leave nothing behind.
PendingIsAwaited ==
  pending = {handler[h].command : h \in {k \in Handlers : handler[k].waits}}

\* The exchange with Pi stays in step through timeouts, refusals and its end.
ExchangeIsSound == TypeOK /\ AnswersMatch /\ PendingIsAwaited

\* A stop that is about to answer "stopped" leaves a Pi that does not work and
\* has no prompt queued or on its way; no prompt slips in between the commands
\* of a stop, and none that a caller gave up on is taken after it.
StoppedIsStopped ==
  \A h \in Handlers : handler[h].at = "stopped" /\ ~handler[h].answer.busy =>
    /\ ~pi.working /\ pi.queued = 0
    /\ \A i \in DOMAIN inbox : inbox[i].kind \notin {"prompt", "steer"}

\* An action ends, answered or not, and with it the lock is free again, even
\* if Pi never answers anything.
ActionEnds ==
  \A h \in Handlers :
    handler[h].at # "idle" ~> (handler[h].at = "idle" \/ stage = "exited")

\* docs/developer-sessions.md:75: "`agent_settled` establishes settlement."
SettledIsShown ==
  reading /\ pi.up /\ ~pi.working /\ inbox = <<>> /\ outbox = <<>> /\ LockFree /\ stage = "serving"
    => status \notin {"submitted", "running", "needs_input"}
=============================================================================
