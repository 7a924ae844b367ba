----------------------------- MODULE BrokerProofs -----------------------------
(***************************************************************************)
(* Theorems of the inside of a session broker, for any number of handler   *)
(* threads, of commands and of dialogs.                                    *)
(***************************************************************************)
EXTENDS Broker, TLAPS

USE BrokerAssumption

-----------------------------------------------------------------------------
\* Types.

Numbers == 0 .. MaxCommands + MaxDialogs
Answers == [command : Nat, ok : BOOLEAN, busy : BOOLEAN]
Places == {"idle", "submitting", "failed", "reverting", "stopped", "replied", "resuming",
           "asking"} \union Commands
Actions == {"none", "prompt", "steer", "stop", "shutdown"}
HandlerStates ==
  [at : Places, action : Actions, prior : Statuses, waits : BOOLEAN, command : Nat,
   answer : Answers]

Inputs == [command : Nat, kind : Commands \union {"steer", "ui_response"}]
Outputs == [type : {"response", "start", "settled", "request"}, command : Nat,
            ok : BOOLEAN, busy : BOOLEAN]
PiStates == [working : BOOLEAN, queued : Nat, asking : Nat, up : BOOLEAN]

Typed ==
  /\ handler \in [Handlers -> HandlerStates] /\ last \in Nat /\ asked \in Nat
  /\ pi \in PiStates /\ inbox \in Seq(Inputs) /\ outbox \in Seq(Outputs)
  /\ status \in Statuses /\ reading \in BOOLEAN /\ closed \in BOOLEAN
  /\ stage \in {"serving", "finished", "exited"}

-----------------------------------------------------------------------------
\* The inductive invariant.

\* Every action that can be at work holds the action lock.
OneActs == \A g, h \in Handlers :
  handler[g].at # "idle" /\ handler[h].at # "idle" => g = h

\* Commands an action may still write, within their bound.
Left(h) ==
  CASE h.at \in {"submitting", "prompt", "get_state"} -> 1
    [] h.at = "abort" -> 2
    [] h.at = "clear_queue" -> 3
    [] OTHER -> 0

HandlerKnown(h) ==
  /\ h.at = "idle" => h.answer = NoAnswer
  /\ h.at \in {"submitting", "prompt"} => h.action \in {"prompt", "steer"}
  /\ h.waits => h.at \in Commands /\ h.command = last /\ h.command # 0
  /\ h.at \in Commands \union {"submitting"} /\ ~h.waits => h.answer = NoAnswer
  /\ h.answer # NoAnswer => h.answer.command = h.command
  /\ h.command <= last \/ h.command <= asked
  /\ last + Left(h) <= (IF h.waits THEN MaxCommands + 1 ELSE MaxCommands)

HandlersKnown == \A h \in Handlers : HandlerKnown(handler[h])

Counted ==
  /\ last <= MaxCommands /\ asked <= MaxDialogs
  /\ pi.queued <= last /\ pi.asking <= asked /\ dialogs \subseteq 1 .. asked

\* The commands on their way to Pi are numbered in their order.
IsCommand(input) == input.kind # "ui_response"

InboxKnown ==
  \A i \in DOMAIN inbox : IsCommand(inbox[i]) =>
    /\ pi.queued < inbox[i].command /\ inbox[i].command <= last
    /\ \A j \in DOMAIN inbox : i < j /\ IsCommand(inbox[j]) =>
         inbox[i].command < inbox[j].command

\* A response is older than every command Pi has not taken.
OutboxKnown ==
  \A i \in DOMAIN outbox :
    /\ outbox[i].type = "response" =>
         /\ outbox[i].command <= last
         /\ \A j \in DOMAIN inbox : IsCommand(inbox[j]) => outbox[i].command < inbox[j].command
    /\ outbox[i].type = "request" => outbox[i].command \in 1 .. asked

\* Pi neither works nor will by what is on its way.
Quiet ==
  /\ ~pi.working /\ pi.queued = 0
  /\ \A i \in DOMAIN inbox : inbox[i].kind \notin {"prompt", "steer"}

\* What the last command of a stop hears is still so.
StopKnown ==
  \A h \in Handlers :
    /\ handler[h].at = "get_state" /\ handler[h].waits =>
         /\ \A i \in DOMAIN inbox :
              IsCommand(inbox[i]) /\ inbox[i].command = last => inbox[i].kind = "get_state"
         /\ \A i \in DOMAIN outbox :
              outbox[i].type = "response" /\ outbox[i].command = last /\ ~outbox[i].busy => Quiet
         /\ handler[h].answer.ok /\ ~handler[h].answer.busy => Quiet
    /\ handler[h].at = "stopped" /\ ~handler[h].answer.busy => Quiet

BrokerInv ==
  /\ Typed /\ OneActs /\ HandlersKnown /\ Counted /\ PendingIsAwaited
  /\ InboxKnown /\ OutboxKnown /\ StopKnown

-----------------------------------------------------------------------------
\* Sequences.

LEMMA TailIs ==
  ASSUME NEW S, NEW s \in Seq(S), s # <<>>
  PROVE /\ Tail(s) \in Seq(S) /\ 1 \in DOMAIN s /\ Head(s) = s[1] /\ Head(s) \in S
        /\ \A i \in DOMAIN Tail(s) : i + 1 \in DOMAIN s /\ Tail(s)[i] = s[i + 1] /\ i \in Nat
        /\ \A i \in DOMAIN Tail(s) : 1 < i + 1
  OBVIOUS

LEMMA AppendIs ==
  ASSUME NEW S, NEW s \in Seq(S), NEW e \in S
  PROVE /\ Append(s, e) \in Seq(S)
        /\ \A i \in DOMAIN Append(s, e) :
             (i \in DOMAIN s /\ Append(s, e)[i] = s[i])
               \/ (i = Len(s) + 1 /\ Append(s, e)[i] = e)
        /\ \A i \in DOMAIN s : i \in Nat /\ i < Len(s) + 1 /\ Len(s) \in Nat
  OBVIOUS

LEMMA ConcatIs ==
  ASSUME NEW S, NEW s \in Seq(S), NEW t \in Seq(S)
  PROVE /\ s \o t \in Seq(S)
        /\ \A i \in DOMAIN (s \o t) :
             (i \in DOMAIN s /\ (s \o t)[i] = s[i]) \/ \E j \in DOMAIN t : (s \o t)[i] = t[j]
<1>1. s \o t \in Seq(S) /\ Len(s \o t) = Len(s) + Len(t) /\ Len(s) \in Nat /\ Len(t) \in Nat
  OBVIOUS
<1>2. ASSUME NEW i \in DOMAIN (s \o t), i > Len(s)
      PROVE \E j \in DOMAIN t : (s \o t)[i] = t[j]
  <2>1. i - Len(s) \in DOMAIN t /\ (s \o t)[i] = t[i - Len(s)]
    BY <1>1, <1>2
  <2> QED
    BY <2>1
<1>3. ASSUME NEW i \in DOMAIN (s \o t), ~(i > Len(s))
      PROVE i \in DOMAIN s /\ (s \o t)[i] = s[i]
  BY <1>1, <1>3
<1> QED
  BY <1>1, <1>2, <1>3

-----------------------------------------------------------------------------
\* The initial states.

LEMMA InitInv == Init => BrokerInv
<1> SUFFICES ASSUME Init PROVE BrokerInv
  OBVIOUS
<1>1. Free \in HandlerStates /\ Free.at = "idle" /\ Free.answer = NoAnswer /\ ~Free.waits
      /\ Free.command = 0
  BY DEF Free, HandlerStates, Places, Actions, Statuses, Answers, NoAnswer
<1>2. \A h \in Handlers : handler[h] = Free
  BY DEF Init
<1>3. pi \in PiStates /\ pi.queued = 0 /\ pi.asking = 0
  BY DEF Init, PiStates, Ended
<1>4. Typed
  <2>1. handler \in [Handlers -> HandlerStates]
    BY <1>1 DEF Init
  <2>2. <<>> \in Seq(Inputs) /\ <<>> \in Seq(Outputs) /\ "idle" \in Statuses
    BY DEF Statuses
  <2> QED
    BY <1>3, <2>1, <2>2 DEF Init, Typed
<1>5. HandlersKnown
  BY <1>1, <1>2 DEF Init, HandlersKnown, HandlerKnown, Left
<1>6. PendingIsAwaited
  BY <1>1, <1>2 DEF Init, PendingIsAwaited
<1>7. OneActs /\ Counted /\ StopKnown
  BY <1>1, <1>2, <1>3 DEF Init, OneActs, Counted, StopKnown
<1>8. InboxKnown /\ OutboxKnown
  BY DEF Init, InboxKnown, OutboxKnown
<1> QED
  BY <1>4, <1>5, <1>6, <1>7, <1>8 DEF BrokerInv

-----------------------------------------------------------------------------
\* Pi.

(* Whatever Pi does, it takes commands in their order, answers the one it  *)
(* takes, and starts working by a prompt only.                             *)
LEMMA PiMoves ==
  ASSUME BrokerInv,
         UNCHANGED <<handler, pending, last, status, dialogs, reading, closed, stage>>,
         pi' \in PiStates, asked' \in Nat, asked <= asked', asked' <= MaxDialogs,
         pi'.asking <= asked',
         NEW said \in Seq(Outputs), outbox' = outbox \o said,
         NEW takes \in BOOLEAN, NEW first, ~takes => inbox' = inbox,
         takes => inbox # <<>> /\ first = Head(inbox) /\ inbox' = Tail(inbox),
         pi'.queued <= pi.queued
           \/ (takes /\ IsCommand(first) /\ pi'.queued <= pi.queued + 1),
         (~pi.working /\ pi.queued = 0 /\ ~(takes /\ first.kind \in {"prompt", "steer"}))
           => ~pi'.working /\ pi'.queued = 0,
         \A i \in DOMAIN said :
           /\ said[i].type = "response" =>
                /\ takes /\ IsCommand(first) /\ said[i].command = first.command
                /\ first.kind = "get_state" /\ ~said[i].busy =>
                     ~pi'.working /\ pi'.queued = 0
           /\ said[i].type = "request" => said[i].command \in 1 .. asked'
  PROVE BrokerInv'
<1>1. Typed
  BY DEF BrokerInv
<1>2. /\ takes => inbox' \in Seq(Inputs) /\ first \in Inputs /\ 1 \in DOMAIN inbox
                    /\ first = inbox[1]
                    /\ \A i \in DOMAIN inbox' : /\ i + 1 \in DOMAIN inbox
                                                /\ inbox'[i] = inbox[i + 1] /\ i \in Nat
                                                /\ 1 < i + 1
      /\ ~takes => inbox' = inbox
  <2>1. CASE takes
    <3>1. inbox \in Seq(Inputs) /\ inbox # <<>> /\ inbox' = Tail(inbox) /\ first = Head(inbox)
      BY <1>1, <2>1 DEF Typed
    <3>2. /\ Tail(inbox) \in Seq(Inputs) /\ 1 \in DOMAIN inbox /\ Head(inbox) = inbox[1]
          /\ Head(inbox) \in Inputs
          /\ \A i \in DOMAIN Tail(inbox) : /\ i + 1 \in DOMAIN inbox
                                            /\ Tail(inbox)[i] = inbox[i + 1] /\ i \in Nat
                                            /\ 1 < i + 1
      BY <3>1, TailIs
    <3> QED
      BY <2>1, <3>1, <3>2
  <2> QED
    BY <2>1
<1>3. /\ outbox' \in Seq(Outputs)
      /\ \A i \in DOMAIN outbox' :
             (i \in DOMAIN outbox /\ outbox'[i] = outbox[i])
               \/ \E j \in DOMAIN said : outbox'[i] = said[j]
  BY <1>1, ConcatIs DEF Typed
<1>4. Typed'
  BY <1>1, <1>2, <1>3 DEF Typed
<1>5. OneActs' /\ PendingIsAwaited'
  BY DEF BrokerInv, OneActs, PendingIsAwaited
<1>6. HandlersKnown'
  BY <1>1 DEF BrokerInv, HandlersKnown, HandlerKnown, Left, Typed, HandlerStates
<1>7. InboxKnown
  BY DEF BrokerInv
<1>8. \A i \in DOMAIN inbox : inbox[i] \in Inputs /\ inbox[i].command \in Nat
  <2>1. \A i \in DOMAIN inbox : inbox[i] \in Inputs
    BY <1>1 DEF Typed
  <2> QED
    BY <2>1 DEF Inputs
<1>9. last \in Nat /\ pi.queued \in Nat /\ pi'.queued \in Nat /\ pi.queued <= last
  BY <1>1 DEF Typed, PiStates, BrokerInv, Counted
<1>10. takes /\ IsCommand(first) =>
         /\ pi.queued < first.command /\ first.command <= last /\ first.command \in Nat
         /\ \A i \in DOMAIN inbox' : IsCommand(inbox'[i]) => first.command < inbox'[i].command
  BY <1>2, <1>7, <1>8 DEF InboxKnown
<1>11. Counted'
  BY SMTT(60), <1>1, <1>9, <1>10 DEF BrokerInv, Counted, Typed
<1>12. InboxKnown'
  <2>1. CASE ~takes
    BY <1>2, <1>7, <1>8, <1>9, <2>1 DEF InboxKnown
  <2>2. CASE takes
    <3>1. ASSUME NEW i \in DOMAIN inbox', IsCommand(inbox'[i])
          PROVE pi'.queued < inbox'[i].command /\ inbox'[i].command <= last
      <4>1. i + 1 \in DOMAIN inbox /\ inbox'[i] = inbox[i + 1]
        BY <1>2, <2>2
      <4>2. /\ inbox'[i].command \in Nat /\ inbox'[i].command <= last
            /\ pi.queued < inbox'[i].command
        BY <1>7, <1>8, <3>1, <4>1 DEF InboxKnown
      <4>3. CASE pi'.queued <= pi.queued
        BY <1>9, <4>2, <4>3
      <4>4. CASE IsCommand(first) /\ pi'.queued <= pi.queued + 1
        BY <1>9, <1>10, <2>2, <3>1, <4>2, <4>4
      <4> QED
        BY <4>2, <4>3, <4>4
    <3>2. ASSUME NEW i \in DOMAIN inbox', IsCommand(inbox'[i]),
                 NEW j \in DOMAIN inbox', i < j, IsCommand(inbox'[j])
          PROVE inbox'[i].command < inbox'[j].command
      <4>1. /\ i + 1 \in DOMAIN inbox /\ inbox'[i] = inbox[i + 1]
            /\ j + 1 \in DOMAIN inbox /\ inbox'[j] = inbox[j + 1]
            /\ i \in Nat /\ j \in Nat
        BY <1>2, <2>2
      <4>2. i + 1 < j + 1
        BY <3>2, <4>1
      <4> QED
        BY <1>7, <3>2, <4>1, <4>2 DEF InboxKnown
    <3> QED
      BY <3>1, <3>2 DEF InboxKnown
  <2> QED
    BY <2>1, <2>2
<1>13. \A j \in DOMAIN inbox' : \E i \in DOMAIN inbox : inbox'[j] = inbox[i]
  BY <1>2
<1>14. OutboxKnown'
  <2>1. ASSUME NEW i \in DOMAIN outbox', outbox'[i].type = "response"
        PROVE outbox'[i].command <= last /\ \A j \in DOMAIN inbox' :
                IsCommand(inbox'[j]) => outbox'[i].command < inbox'[j].command
    <3>1. CASE i \in DOMAIN outbox /\ outbox'[i] = outbox[i]
      BY <1>13, <2>1, <3>1 DEF BrokerInv, OutboxKnown
    <3>2. CASE \E j \in DOMAIN said : outbox'[i] = said[j]
      BY <1>10, <2>1, <3>2
    <3> QED
      BY <1>3, <3>1, <3>2
  <2>2. ASSUME NEW i \in DOMAIN outbox', outbox'[i].type = "request"
        PROVE outbox'[i].command \in 1 .. asked'
    <3>1. CASE i \in DOMAIN outbox /\ outbox'[i] = outbox[i]
      <4>1. outbox[i].command \in 1 .. asked
        BY <2>2, <3>1 DEF BrokerInv, OutboxKnown
      <4> QED
        BY <1>1, <3>1, <4>1 DEF Typed
    <3>2. CASE \E j \in DOMAIN said : outbox'[i] = said[j]
      BY <2>2, <3>2
    <3> QED
      BY <1>3, <3>1, <3>2
  <2> QED
    BY <2>1, <2>2 DEF OutboxKnown
<1>15. StopKnown'
  <2>1. Quiet => Quiet'
    BY <1>2, <1>13 DEF Quiet
  <2>2. ASSUME NEW h \in Handlers, handler[h].at = "get_state", handler[h].waits
        PROVE /\ \A i \in DOMAIN inbox' :
                   IsCommand(inbox'[i]) /\ inbox'[i].command = last
                     => inbox'[i].kind = "get_state"
              /\ \A i \in DOMAIN outbox' :
                   outbox'[i].type = "response" /\ outbox'[i].command = last
                     /\ ~outbox'[i].busy => Quiet'
              /\ handler[h].answer.ok /\ ~handler[h].answer.busy => Quiet'
    <3>1. \A i \in DOMAIN inbox' :
            IsCommand(inbox'[i]) /\ inbox'[i].command = last => inbox'[i].kind = "get_state"
      BY <1>13, <2>2 DEF BrokerInv, StopKnown
    <3>2. ASSUME NEW i \in DOMAIN outbox', outbox'[i].type = "response",
                 outbox'[i].command = last, ~outbox'[i].busy
          PROVE Quiet'
      <4>1. CASE i \in DOMAIN outbox /\ outbox'[i] = outbox[i]
        BY <2>1, <2>2, <3>2, <4>1 DEF BrokerInv, StopKnown
      <4>2. CASE \E j \in DOMAIN said : outbox'[i] = said[j]
        <5>1. takes /\ IsCommand(first) /\ first.command = last
          BY <3>2, <4>2
        <5>2. first.kind = "get_state"
          BY <1>2, <2>2, <5>1 DEF BrokerInv, StopKnown
        <5>3. ~pi'.working /\ pi'.queued = 0
          BY <3>2, <4>2, <5>2
        <5>4. \A j \in DOMAIN inbox' : ~IsCommand(inbox'[j])
          <6>1. ASSUME NEW j \in DOMAIN inbox', IsCommand(inbox'[j]) PROVE FALSE
            <7>1. last < inbox'[j].command /\ inbox'[j].command <= last
              BY <1>10, <1>12, <5>1, <6>1 DEF InboxKnown
            <7>2. inbox'[j].command \in Nat
              BY <1>8, <1>13
            <7> QED
              BY <1>9, <7>1, <7>2
          <6> QED
            BY <6>1
        <5> QED
          BY <5>3, <5>4 DEF Quiet, IsCommand
      <4> QED
        BY <1>3, <4>1, <4>2
    <3>3. handler[h].answer.ok /\ ~handler[h].answer.busy => Quiet'
      BY <2>1, <2>2 DEF BrokerInv, StopKnown
    <3> QED
      BY <3>1, <3>2, <3>3
  <2> QED
    BY <2>1, <2>2 DEF BrokerInv, StopKnown
<1> QED
  BY <1>4, <1>5, <1>6, <1>11, <1>12, <1>14, <1>15 DEF BrokerInv

LEMMA PiStateIs ==
  ASSUME NEW p \in PiStates, NEW works \in BOOLEAN
  PROVE /\ [p EXCEPT !.working = works] \in PiStates
        /\ [p EXCEPT !.working = works].queued = p.queued
        /\ [p EXCEPT !.working = works].asking = p.asking
        /\ [p EXCEPT !.working = works, !.asking = 0] \in PiStates
        /\ [p EXCEPT !.working = works, !.asking = 0].queued = p.queued
        /\ [p EXCEPT !.working = works, !.asking = 0].asking = 0
  BY DEF PiStates

LEMMA PiCountIs ==
  ASSUME NEW p \in PiStates, NEW n \in Nat
  PROVE /\ [p EXCEPT !.queued = n] \in PiStates
        /\ [p EXCEPT !.queued = n].queued = n
        /\ [p EXCEPT !.queued = n].asking = p.asking
        /\ [p EXCEPT !.queued = n, !.asking = 0] \in PiStates
        /\ [p EXCEPT !.queued = n, !.asking = 0].queued = n
        /\ [p EXCEPT !.queued = n, !.asking = 0].asking = 0
        /\ [p EXCEPT !.asking = n] \in PiStates
        /\ [p EXCEPT !.asking = n].queued = p.queued
        /\ [p EXCEPT !.asking = n].asking = n
  BY DEF PiStates

(* A command Pi takes: what it answers is of that command and of that      *)
(* moment, and what it does is no more than the command asks.              *)
LEMMA PiTakesKeeps ==
  ASSUME BrokerInv, PiTakes
  PROVE BrokerInv'
<1>1. PICK c : c = Head(inbox)
  OBVIOUS
<1>2. /\ inbox # <<>> /\ inbox' = Tail(inbox) /\ asked' = asked
      /\ UNCHANGED <<handler, pending, last, status, dialogs, reading, closed, stage>>
  BY DEF PiTakes
<1>3. Typed /\ Counted
  BY DEF BrokerInv
<1>4. c \in Inputs /\ c.command \in Nat
  <2>1. c \in Inputs
    BY <1>1, <1>2, <1>3, TailIs DEF Typed
  <2> QED
    BY <2>1 DEF Inputs
<1>5. /\ pi \in PiStates /\ pi.working \in BOOLEAN /\ pi.queued \in Nat /\ pi.asking \in Nat
      /\ asked \in Nat /\ asked <= MaxDialogs /\ pi.asking <= asked
  BY <1>3 DEF Typed, Counted, PiStates
<1>6. ASSUME NEW answer \in Outputs, NEW event \in Outputs,
             answer.type = "response", answer.command = c.command,
             answer.busy <=> (pi.working \/ pi.queued > 0), event.type \in {"start", "settled"},
             NEW said, said \in {<<>>, <<answer>>, <<answer, event>>, <<event, answer>>},
             outbox' = outbox \o said, said # <<>> => IsCommand(c),
             pi' \in PiStates, pi'.asking <= asked,
             pi'.queued <= pi.queued \/ (IsCommand(c) /\ pi'.queued <= pi.queued + 1),
             (~pi.working /\ pi.queued = 0 /\ c.kind \notin {"prompt", "steer"})
               => ~pi'.working /\ pi'.queued = 0,
             c.kind = "get_state" => pi' = pi
      PROVE BrokerInv'
  <2>1. /\ said \in Seq(Outputs)
        /\ \A i \in DOMAIN said : said # <<>> /\ said[i] \in {answer, event}
    <3>1. CASE said = <<>>
      BY <3>1
    <3>2. CASE said = <<answer>>
      BY <1>6, <3>2
    <3>3. CASE said = <<answer, event>>
      BY <1>6, <3>3
    <3>4. CASE said = <<event, answer>>
      BY <1>6, <3>4
    <3> QED
      BY <1>6, <3>1, <3>2, <3>3, <3>4
  <2>2. \A i \in DOMAIN said :
          /\ said[i].type = "response" =>
               /\ IsCommand(c) /\ said[i].command = c.command
               /\ c.kind = "get_state" /\ ~said[i].busy => ~pi'.working /\ pi'.queued = 0
          /\ said[i].type # "request"
    <3>1. IsCommand(c) \/ said = <<>>
      BY <1>6
    <3>2. ~answer.busy /\ c.kind = "get_state" => ~pi'.working /\ pi'.queued = 0
      BY <1>5, <1>6
    <3> QED
      BY <1>6, <2>1, <3>1, <3>2
  <2>3. PICK takes \in BOOLEAN : takes
    OBVIOUS
  <2>4. /\ ~takes => inbox' = inbox
        /\ takes => inbox # <<>> /\ c = Head(inbox) /\ inbox' = Tail(inbox)
    BY <1>1, <1>2, <2>3
  <2>5. /\ asked' \in Nat /\ asked <= asked' /\ asked' <= MaxDialogs /\ pi'.asking <= asked'
        /\ pi'.queued <= pi.queued \/ (takes /\ IsCommand(c) /\ pi'.queued <= pi.queued + 1)
    BY <1>2, <1>5, <1>6, <2>3
  <2>6. (~pi.working /\ pi.queued = 0 /\ ~(takes /\ c.kind \in {"prompt", "steer"}))
          => ~pi'.working /\ pi'.queued = 0
    BY <1>6, <2>3
  <2>7. \A i \in DOMAIN said :
           /\ said[i].type = "response" =>
                /\ takes /\ IsCommand(c) /\ said[i].command = c.command
                /\ c.kind = "get_state" /\ ~said[i].busy => ~pi'.working /\ pi'.queued = 0
           /\ said[i].type = "request" => said[i].command \in 1 .. asked'
    BY <2>2, <2>3
  <2> QED
    BY <1>2, <1>6, <2>1, <2>4, <2>5, <2>6, <2>7, PiMoves
<1>7. outbox \o <<>> = outbox
  BY <1>3 DEF Typed
<1>8. PICK yes, no, start, settled :
        /\ yes = Answer(c.command, TRUE) /\ no = Answer(c.command, FALSE)
        /\ start = Event("start", 0) /\ settled = Event("settled", 0)
  OBVIOUS
<1>9. \A answer \in {yes, no} :
        /\ answer \in Outputs /\ answer.type = "response" /\ answer.command = c.command
        /\ answer.busy <=> (pi.working \/ pi.queued > 0)
  <2>1. PICK busy \in BOOLEAN : busy <=> (pi.working \/ pi.queued > 0)
    BY <1>5
  <2>2. /\ yes = [type |-> "response", command |-> c.command, ok |-> TRUE, busy |-> busy]
        /\ no = [type |-> "response", command |-> c.command, ok |-> FALSE, busy |-> busy]
    <3>1. busy = (pi.working \/ pi.queued > 0)
      BY <2>1
    <3> QED
      BY <1>8, <3>1, Zenon DEF Answer
  <2>3. yes \in Outputs /\ yes.type = "response" /\ yes.command = c.command /\ yes.busy = busy
    BY <1>4, <2>1, <2>2 DEF Outputs
  <2>4. no \in Outputs /\ no.type = "response" /\ no.command = c.command /\ no.busy = busy
    BY <1>4, <2>1, <2>2 DEF Outputs
  <2> QED
    BY <2>1, <2>3, <2>4
<1>10. \A event \in {start, settled} : event \in Outputs /\ event.type \in {"start", "settled"}
  <2>1. /\ start = [type |-> "start", command |-> 0, ok |-> TRUE, busy |-> FALSE]
        /\ settled = [type |-> "settled", command |-> 0, ok |-> TRUE, busy |-> FALSE]
    BY <1>8, Zenon DEF Event
  <2>2. start \in Outputs /\ start.type = "start" /\ settled \in Outputs /\ settled.type = "settled"
    BY <2>1 DEF Outputs
  <2> QED
    BY <2>2
<1>11. ASSUME NEW answer \in {yes, no}, NEW event \in {start, settled},
              \/ Emits({<<answer>>})
              \/ Emits({<<answer, event>>, <<event, answer>>})
              \/ UNCHANGED outbox /\ c.kind = "ui_response",
              pi' \in PiStates, pi'.asking <= asked,
              pi'.queued <= pi.queued \/ (c.kind = "steer" /\ pi'.queued <= pi.queued + 1),
              ~pi.working /\ pi.queued = 0 =>
                c.kind \in {"prompt", "steer"} \/ (~pi'.working /\ pi'.queued = 0),
              c.kind = "get_state" => pi' = pi,
              c.kind = "ui_response" => UNCHANGED outbox
       PROVE BrokerInv'
  <2>1. PICK said \in {<<>>, <<answer>>, <<answer, event>>, <<event, answer>>} :
          /\ outbox' = outbox \o said
          /\ c.kind = "ui_response" => said = <<>>
    BY <1>7, <1>11 DEF Emits
  <2>2. said # <<>> => IsCommand(c)
    BY <2>1 DEF IsCommand
  <2>3. c.kind = "steer" => IsCommand(c)
    BY DEF IsCommand
  <2> QED
    BY <1>6, <1>9, <1>10, <1>11, <2>1, <2>2, <2>3
<1>12. CASE c.kind \in {"prompt", "steer"} /\ ~pi.working /\ pi' = [pi EXCEPT !.working = TRUE]
            /\ Emits(Either(yes, start))
  <2>1. Emits({<<yes, start>>, <<start, yes>>})
    BY <1>12 DEF Either
  <2>2. pi' \in PiStates /\ pi'.asking <= asked /\ pi'.queued <= pi.queued
    <3>1. pi' \in PiStates /\ pi'.asking = pi.asking /\ pi'.queued = pi.queued
      BY <1>5, <1>12, PiStateIs
    <3> QED
      BY <1>5, <3>1
  <2> QED
    BY <1>5, <1>11, <1>12, <2>1, <2>2
<1>13. CASE c.kind = "prompt" /\ pi.working /\ Emits({<<no>>}) /\ UNCHANGED pi
  BY <1>5, <1>11, <1>13
<1>14. CASE c.kind = "steer" /\ pi.working /\ pi' = [pi EXCEPT !.queued = @ + 1] /\ Emits({<<yes>>})
  BY <1>5, <1>11, <1>14 DEF PiStates
<1>15. CASE c.kind = "clear_queue" /\ pi' = [pi EXCEPT !.queued = 0] /\ Emits({<<yes>>})
  BY <1>5, <1>11, <1>15 DEF PiStates
<1>16. CASE /\ c.kind = "abort" /\ pi.working /\ pi.queued = 0
            /\ pi' = [pi EXCEPT !.working = FALSE, !.asking = 0] /\ Emits(Either(yes, settled))
  <2>1. Emits({<<yes, settled>>, <<settled, yes>>})
    BY <1>16 DEF Either
  <2>2. pi' \in PiStates /\ pi'.asking <= asked /\ pi'.queued <= pi.queued
    <3>1. pi' \in PiStates /\ pi'.asking = 0 /\ pi'.queued = pi.queued
      BY <1>5, <1>16, PiStateIs
    <3> QED
      BY <1>5, <3>1
  <2> QED
    BY <1>5, <1>11, <1>16, <2>1, <2>2
<1>17. CASE /\ c.kind = "abort" /\ pi.working /\ pi.queued > 0
            /\ pi' = [pi EXCEPT !.queued = @ - 1, !.asking = 0] /\ Emits(Either(yes, start))
  <2>1. Emits({<<yes, start>>, <<start, yes>>})
    BY <1>17 DEF Either
  <2>2. pi' \in PiStates /\ pi'.asking <= asked /\ pi'.queued <= pi.queued
    <3>1. PICK n \in Nat : n = pi.queued - 1 /\ n <= pi.queued
      BY <1>5, <1>17
    <3>2. pi' = [pi EXCEPT !.queued = n, !.asking = 0]
      BY <1>17, <3>1
    <3>3. pi' \in PiStates /\ pi'.asking = 0 /\ pi'.queued = n
      <4>1. pi \in PiStates
        BY <1>5
      <4> QED
        BY <3>1, <3>2, <4>1, PiCountIs
    <3> QED
      BY <1>5, <3>1, <3>3
  <2> QED
    BY <1>5, <1>11, <1>17, <2>1, <2>2
<1>18. CASE c.kind \in {"abort", "get_state"} /\ UNCHANGED pi /\ Emits({<<yes>>})
  BY <1>5, <1>11, <1>18
<1>19. CASE /\ c.kind = "ui_response" /\ UNCHANGED outbox
            /\ pi' = [pi EXCEPT !.asking = IF @ = c.command THEN 0 ELSE @]
  BY <1>5, <1>11, <1>19 DEF PiStates
<1> QED
  BY <1>1, <1>8, <1>12, <1>13, <1>14, <1>15, <1>16, <1>17, <1>18, <1>19 DEF PiTakes

(* Without Pi nothing works and nothing is on its way.                     *)
LEMMA EndKeeps ==
  ASSUME BrokerInv, pi' = Ended, inbox' = <<>>, status' \in Statuses,
         stage' \in {"serving", "finished", "exited"},
         UNCHANGED <<handler, pending, last, dialogs, reading, closed, outbox, asked>>
  PROVE BrokerInv'
<1>1. Ended \in PiStates /\ ~Ended.working /\ Ended.queued = 0 /\ Ended.asking = 0
  BY DEF Ended, PiStates
<1>2. <<>> \in Seq(Inputs) /\ DOMAIN inbox' = {}
  OBVIOUS
<1>3. Typed'
  BY <1>1, <1>2 DEF BrokerInv, Typed
<1>4. OneActs' /\ PendingIsAwaited' /\ HandlersKnown'
  BY DEF BrokerInv, OneActs, PendingIsAwaited, HandlersKnown, HandlerKnown, Left
<1>5. Counted'
  BY <1>1 DEF BrokerInv, Typed, Counted
<1>6. InboxKnown' /\ OutboxKnown'
  BY <1>2 DEF BrokerInv, InboxKnown, OutboxKnown
<1>7. Quiet'
  BY <1>1, <1>2 DEF Quiet
<1>8. StopKnown'
  BY <1>2, <1>7 DEF StopKnown
<1> QED
  BY <1>3, <1>4, <1>5, <1>6, <1>8 DEF BrokerInv

LEMMA PiKeeps ==
  ASSUME BrokerInv, PiAsks \/ PiSettles \/ PiExits
  PROVE BrokerInv'
<1>1. UNCHANGED <<handler, pending, last, status, dialogs, reading, closed, stage>>
  BY DEF PiAsks, PiSettles, PiExits
<1>2. Typed /\ Counted
  BY DEF BrokerInv
<1>3. /\ pi \in PiStates /\ pi.working \in BOOLEAN /\ pi.queued \in Nat /\ pi.asking \in Nat
      /\ asked \in Nat /\ asked <= MaxDialogs /\ pi.asking <= asked
  BY <1>2 DEF Typed, Counted, PiStates
<1>4. ASSUME NEW type \in {"start", "settled", "request"}, NEW question \in 0 .. asked',
             outbox' = outbox \o <<Event(type, question)>>, inbox' = inbox,
             type = "request" => question # 0, question \in Nat,
             asked' \in Nat, asked <= asked', asked' <= MaxDialogs, pi.working,
             pi' \in PiStates, pi'.asking <= asked', pi'.queued <= pi.queued
      PROVE BrokerInv'
  <2>1. PICK event : event = Event(type, question)
    OBVIOUS
  <2>2. event \in Outputs /\ event.type = type /\ event.command = question
    BY <1>4, <2>1 DEF Event, Outputs
  <2>3. PICK said \in Seq(Outputs) : said = <<event>>
    <3>1. event \in Outputs
      BY <2>2
    <3>2. <<event>> \in Seq(Outputs)
      BY <3>1
    <3> QED
      BY <3>2
  <2>4. PICK takes \in BOOLEAN : ~takes
    OBVIOUS
  <2>5. /\ ~takes => inbox' = inbox
        /\ takes => inbox # <<>> /\ event = Head(inbox) /\ inbox' = Tail(inbox)
        /\ pi'.queued <= pi.queued \/ (takes /\ IsCommand(event) /\ pi'.queued <= pi.queued + 1)
        /\ (~pi.working /\ pi.queued = 0 /\ ~(takes /\ event.kind \in {"prompt", "steer"}))
             => ~pi'.working /\ pi'.queued = 0
    BY <1>4, <2>4
  <2>6. \A i \in DOMAIN said :
           /\ said[i].type = "response" =>
                /\ takes /\ IsCommand(event) /\ said[i].command = event.command
                /\ event.kind = "get_state" /\ ~said[i].busy => ~pi'.working /\ pi'.queued = 0
           /\ said[i].type = "request" => said[i].command \in 1 .. asked'
    BY <1>4, <2>2, <2>3
  <2>7. outbox' = outbox \o said
    BY <1>4, <2>1, <2>3
  <2> QED
    BY ZenonT(60), <1>1, <1>4, <2>3, <2>5, <2>6, <2>7, PiMoves
<1>5. CASE PiAsks
  <2>1. pi' = [pi EXCEPT !.asking = asked + 1] /\ pi.working /\ asked' = asked + 1
        /\ outbox' = outbox \o <<Event("request", asked + 1)>> /\ inbox' = inbox
        /\ asked < MaxDialogs
    BY <1>5 DEF PiAsks, Emits
  <2>2. asked + 1 \in Nat /\ asked + 1 \in 0 .. asked' /\ asked + 1 # 0 /\ asked <= asked'
        /\ asked' \in Nat /\ asked' <= MaxDialogs
    BY <1>3, <2>1
  <2>3. pi' \in PiStates /\ pi'.asking <= asked' /\ pi'.queued <= pi.queued
    <3>0. PICK n \in Nat : n = asked + 1
      BY <2>2
    <3>1. pi' \in PiStates /\ pi'.asking = asked + 1 /\ pi'.queued = pi.queued
      BY ZenonT(60), <1>3, <2>1, <3>0, PiCountIs
    <3> QED
      BY <1>3, <2>1, <2>2, <3>1
  <2> QED
    BY <1>4, <2>1, <2>2, <2>3
<1>6. CASE PiSettles
  <2>1. pi.working /\ asked' = asked /\ inbox' = inbox
    BY <1>6 DEF PiSettles
  <2>2. CASE pi.queued > 0
    <3>1. pi' = [pi EXCEPT !.queued = @ - 1] /\ outbox' = outbox \o <<Event("start", 0)>>
      BY <1>6, <2>2 DEF PiSettles, Emits
    <3>0. PICK n \in Nat : n = pi.queued - 1 /\ n <= pi.queued
      BY <1>3, <2>2
    <3>2. pi' \in PiStates /\ pi'.asking = pi.asking /\ pi'.queued = n
      BY ZenonT(60), <1>3, <3>0, <3>1, PiCountIs
    <3>3. pi'.asking <= asked' /\ pi'.queued <= pi.queued /\ 0 \in 0 .. asked'
      BY <1>3, <2>1, <3>0, <3>2
    <3>4. asked' \in Nat /\ asked <= asked' /\ asked' <= MaxDialogs
      BY <1>3, <2>1
    <3> QED
      BY <1>4, <2>1, <3>1, <3>2, <3>3, <3>4
  <2>3. CASE ~(pi.queued > 0)
    <3>1. pi' = [pi EXCEPT !.working = FALSE] /\ outbox' = outbox \o <<Event("settled", 0)>>
      BY <1>6, <2>3 DEF PiSettles, Emits
    <3>2. pi' \in PiStates /\ pi'.asking = pi.asking /\ pi'.queued = pi.queued
      BY <1>3, <3>1, PiStateIs
    <3>3. pi'.asking <= asked' /\ pi'.queued <= pi.queued /\ 0 \in 0 .. asked'
      BY <1>3, <2>1, <3>2
    <3>4. asked' \in Nat /\ asked <= asked' /\ asked' <= MaxDialogs
      BY <1>3, <2>1
    <3> QED
      BY <1>4, <2>1, <3>1, <3>2, <3>3, <3>4
  <2> QED
    BY <2>2, <2>3
<1>7. CASE PiExits
  <2>1. pi' = Ended /\ inbox' = <<>> /\ UNCHANGED <<outbox, asked>>
    BY <1>7 DEF PiExits
  <2> QED
    BY <1>1, <1>2, <2>1, EndKeeps DEF Typed
<1> QED
  BY <1>5, <1>6, <1>7

-----------------------------------------------------------------------------
\* The handlers.

(* A step of the action that holds the lock, or that takes it: Pi and what *)
(* is on its way stay, and what the action waited for is no longer awaited.*)
LEMMA HandlerStep ==
  ASSUME BrokerInv, NEW h \in Handlers, NEW new \in HandlerStates,
         handler' = [handler EXCEPT ![h] = new],
         UNCHANGED <<last, asked, pi, inbox, outbox, reading, stage>>,
         status' \in Statuses, closed' \in BOOLEAN, dialogs' \subseteq dialogs,
         HandlerKnown(new), ~new.waits, handler[h].at # "idle" \/ LockFree,
         pending' = IF handler[h].waits THEN pending \ {handler[h].command} ELSE pending,
         new.at = "stopped" /\ ~new.answer.busy => Quiet
  PROVE BrokerInv'
<1>1. Typed /\ Counted
  BY DEF BrokerInv
<1>2. /\ handler' \in [Handlers -> HandlerStates] /\ handler'[h] = new
      /\ \A g \in Handlers : g # h => handler'[g] = handler[g]
  BY <1>1 DEF Typed
<1>3. Typed'
  BY <1>1, <1>2 DEF Typed
<1>4. \A g \in Handlers : g # h => handler[g].at = "idle"
  BY DEF BrokerInv, OneActs, LockFree
<1>5. OneActs'
  BY <1>2, <1>4 DEF OneActs
<1>6. HandlersKnown'
  BY <1>2 DEF BrokerInv, HandlersKnown, HandlerKnown, Left
<1>7. Counted'
  BY <1>1 DEF Counted
<1>8. PendingIsAwaited'
  <2>1. \A g \in Handlers : g # h => ~handler[g].waits
    BY <1>4 DEF BrokerInv, HandlersKnown, HandlerKnown, Commands
  <2>2. \A g \in Handlers : ~handler'[g].waits
    BY <1>2, <2>1
  <2>3. pending = IF handler[h].waits THEN {handler[h].command} ELSE {}
    BY <2>1 DEF BrokerInv, PendingIsAwaited
  <2>4. pending' = {}
    BY <2>3
  <2> QED
    BY <2>2, <2>4 DEF PendingIsAwaited
<1>9. InboxKnown' /\ OutboxKnown'
  BY DEF BrokerInv, InboxKnown, OutboxKnown
<1>10. StopKnown'
  BY <1>2, <1>4 DEF BrokerInv, StopKnown, Quiet
<1> QED
  BY <1>3, <1>5, <1>6, <1>7, <1>8, <1>9, <1>10 DEF BrokerInv

LEMMA GoesKeeps ==
  ASSUME BrokerInv, NEW h \in Handlers, handler[h].at # "idle",
         NEW place \in {"prompt", "failed", "reverting", "stopped", "resuming", "asking"},
         Goes(h, place), place = "prompt" => handler[h].at = "submitting",
         UNCHANGED <<last, asked, pi, inbox, outbox, reading, stage>>,
         status' \in Statuses, closed' \in BOOLEAN, dialogs' \subseteq dialogs,
         pending' = IF handler[h].waits THEN pending \ {handler[h].command} ELSE pending,
         place = "stopped" /\ ~handler[h].answer.busy => Quiet
  PROVE BrokerInv'
<1> DEFINE new == [handler[h] EXCEPT !.at = place, !.waits = FALSE]
<1>1. handler \in [Handlers -> HandlerStates] /\ last \in Nat /\ last <= MaxCommands
  BY DEF BrokerInv, Typed, Counted
<1>2. handler' = [handler EXCEPT ![h] = new]
  BY <1>1 DEF Goes, HandlerStates
<1>3. new \in HandlerStates
  BY <1>1 DEF HandlerStates, Places, Commands
<1>4. /\ new.at = place /\ ~new.waits /\ new.action = handler[h].action
      /\ new.command = handler[h].command /\ new.answer = handler[h].answer
  BY <1>1 DEF HandlerStates
<1> HIDE DEF new
<1>5. HandlerKnown(handler[h])
  BY DEF BrokerInv, HandlersKnown
<1>6. HandlerKnown(new)
  <2>1. CASE place = "prompt"
    BY <1>1, <1>4, <1>5, <2>1 DEF HandlerKnown, Left, Commands
  <2>2. CASE place # "prompt"
    BY <1>1, <1>4, <1>5, <2>2 DEF HandlerKnown, Left, Commands
  <2> QED
    BY <2>1, <2>2
<1> QED
  BY <1>2, <1>3, <1>4, <1>6, HandlerStep

LEMMA LeavesKeeps ==
  ASSUME BrokerInv, NEW h \in Handlers, handler[h].at # "idle", Leaves(h),
         UNCHANGED <<last, asked, pi, inbox, outbox, reading, stage>>,
         status' \in Statuses, closed' \in BOOLEAN, dialogs' \subseteq dialogs,
         pending' = IF handler[h].waits THEN pending \ {handler[h].command} ELSE pending
  PROVE BrokerInv'
<1>1. last \in Nat /\ last <= MaxCommands
  BY DEF BrokerInv, Typed, Counted
<1>2. Free \in HandlerStates /\ Free.at = "idle" /\ Free.answer = NoAnswer /\ ~Free.waits
      /\ Free.command = 0
  BY DEF Free, HandlerStates, Places, Actions, Statuses, Answers, NoAnswer
<1>3. HandlerKnown(Free)
  BY <1>1, <1>2 DEF HandlerKnown, Left
<1> QED
  BY <1>2, <1>3, HandlerStep DEF Leaves

LEMMA FailsKeeps ==
  ASSUME BrokerInv, NEW h \in Handlers, handler[h].at # "idle", Fails(h),
         UNCHANGED <<last, asked, pi, inbox, outbox, reading, stage, status, closed, dialogs>>,
         pending' = IF handler[h].waits THEN pending \ {handler[h].command} ELSE pending
  PROVE BrokerInv'
<1>1. status' \in Statuses /\ closed' \in BOOLEAN /\ dialogs' \subseteq dialogs
  BY DEF BrokerInv, Typed
<1> QED
  BY <1>1, GoesKeeps, LeavesKeeps DEF Fails

(* What ends the wait for an answer.                                       *)
LEMMA EndOfWaitKeeps ==
  ASSUME BrokerInv, NEW h \in Handlers,
         SendFails(h) \/ Refused(h) \/ TimesOut(h) \/ Unconfirmed(h)
  PROVE BrokerInv'
<1>1. handler[h].at \in Commands /\ Fails(h)
      /\ UNCHANGED <<last, asked, pi, inbox, outbox, reading, stage, status, closed, dialogs>>
  BY DEF SendFails, Refused, TimesOut, Unconfirmed, Answered, At, piState
<1>2. pending' = IF handler[h].waits THEN pending \ {handler[h].command} ELSE pending
  BY DEF SendFails, Refused, TimesOut, Unconfirmed, Answered
<1> QED
  BY <1>1, <1>2, FailsKeeps DEF Commands

LEMMA SucceedsKeeps ==
  ASSUME BrokerInv, NEW h \in Handlers, Succeeds(h)
  PROVE BrokerInv'
<1>1. handler[h].at \in Commands /\ handler[h].waits /\ handler[h].answer.ok
      /\ UNCHANGED <<last, asked, pi, inbox, outbox, reading, stage, status, closed, dialogs>>
      /\ pending' = pending \ {handler[h].command}
  BY DEF Succeeds, Answered, At, piState
<1>2. status' \in Statuses /\ closed' \in BOOLEAN /\ dialogs' \subseteq dialogs
      /\ handler[h].at # "idle"
  BY <1>1 DEF BrokerInv, Typed, Commands
<1>3. CASE handler[h].at = "prompt"
  BY <1>1, <1>2, <1>3, LeavesKeeps DEF Succeeds
<1>4. ASSUME NEW place \in {"abort", "get_state"},
             handler[h].at = IF place = "abort" THEN "clear_queue" ELSE "abort",
             handler' = [handler EXCEPT ![h].at = place, ![h].waits = FALSE,
                                        ![h].answer = NoAnswer]
      PROVE BrokerInv'
  <2> DEFINE new == [handler[h] EXCEPT !.at = place, !.waits = FALSE, !.answer = NoAnswer]
  <2>1. handler \in [Handlers -> HandlerStates] /\ last \in Nat
    BY DEF BrokerInv, Typed
  <2>2. handler' = [handler EXCEPT ![h] = new]
    BY <1>4, <2>1 DEF HandlerStates
  <2>3. NoAnswer \in Answers
    BY DEF NoAnswer, Answers
  <2>4. new \in HandlerStates
    BY <2>1, <2>3 DEF HandlerStates, Places, Commands
  <2>5. new.at = place /\ ~new.waits /\ new.command = handler[h].command /\ new.answer = NoAnswer
    BY <2>1 DEF HandlerStates
  <2> HIDE DEF new
  <2>6. HandlerKnown(new)
    <3>1. HandlerKnown(handler[h])
      BY DEF BrokerInv, HandlersKnown
    <3> QED
      BY <1>1, <1>4, <2>1, <2>5, <3>1 DEF HandlerKnown, Left
  <2> QED
    BY <1>1, <1>2, <2>2, <2>4, <2>5, <2>6, HandlerStep
<1>5. CASE handler[h].at = "get_state"
  <2>1. ~handler[h].answer.busy => Quiet
    BY <1>1, <1>5 DEF BrokerInv, StopKnown
  <2>2. Goes(h, "stopped")
    BY <1>5 DEF Succeeds
  <2> QED
    BY <1>1, <1>2, <2>1, <2>2, GoesKeeps
<1>6. CASE handler[h].at = "clear_queue"
  BY <1>4, <1>6 DEF Succeeds
<1>7. CASE handler[h].at = "abort"
  BY <1>4, <1>7 DEF Succeeds
<1> QED
  BY <1>1, <1>3, <1>5, <1>6, <1>7 DEF Commands

LEMMA StepsKeep ==
  ASSUME BrokerInv, NEW h \in Handlers,
         Submit(h) \/ TakeBack(h) \/ Revert(h) \/ Stopped(h) \/ Forget(h) \/ Resume(h)
  PROVE BrokerInv'
<1>1. /\ handler \in [Handlers -> HandlerStates] /\ status \in Statuses /\ closed \in BOOLEAN
      /\ HandlerKnown(handler[h])
  BY DEF BrokerInv, Typed, HandlersKnown
<1>2. handler[h].at \in {"submitting", "failed", "reverting", "stopped", "replied", "resuming",
                          "asking"}
      /\ UNCHANGED <<last, asked, pi, inbox, outbox, reading, stage, pending>>
  BY DEF Submit, TakeBack, Revert, Stopped, Forget, Resume, At, piState
<1>3. handler[h].at # "idle" /\ ~handler[h].waits
  BY <1>1, <1>2 DEF HandlerKnown, Commands
<1>4. status' \in Statuses /\ closed' \in BOOLEAN /\ dialogs' \subseteq dialogs
  <2>1. CASE Submit(h) \/ TakeBack(h) \/ Forget(h) \/ Resume(h)
    BY <1>1, <2>1 DEF Submit, TakeBack, Forget, Resume, Statuses
  <2>2. CASE Revert(h)
    BY <1>1, <2>2 DEF Revert, HandlerStates
  <2>3. CASE Stopped(h)
    BY <1>1, <2>3 DEF Stopped, Statuses
  <2> QED
    BY <2>1, <2>2, <2>3
<1>5. CASE Leaves(h)
  BY <1>2, <1>3, <1>4, <1>5, LeavesKeeps
<1>6. ASSUME NEW place \in {"prompt", "reverting", "resuming", "asking"}, Goes(h, place),
             place = "prompt" => handler[h].at = "submitting"
      PROVE BrokerInv'
  BY <1>2, <1>3, <1>4, <1>6, GoesKeeps
<1> QED
  BY <1>5, <1>6 DEF Submit, TakeBack, Revert, Stopped, Forget, Resume, At

(* An action begins when no other is at work.                              *)
LEMMA BeginKeeps ==
  ASSUME BrokerInv, NEW h \in Handlers, Prompt(h) \/ Stop(h)
  PROVE BrokerInv'
<1>1. PICK action \in Actions, place \in {"submitting", "prompt", "clear_queue"} :
        /\ Begin(h, action, place)
        /\ place # "clear_queue" => action \in {"prompt", "steer"} /\ last < MaxCommands
        /\ place = "clear_queue" => last + 3 <= MaxCommands
  <2>1. CASE Prompt(h)
    BY <2>1 DEF Prompt, Actions
  <2>2. CASE Stop(h)
    BY <2>2 DEF Stop, Actions
  <2> QED
    BY <2>1, <2>2
<1>2. /\ handler \in [Handlers -> HandlerStates] /\ status \in Statuses /\ closed \in BOOLEAN
      /\ last \in Nat /\ HandlerKnown(handler[h])
  BY DEF BrokerInv, Typed, HandlersKnown
<1> DEFINE new == [Free EXCEPT !.at = place, !.action = action, !.prior = status]
<1>3. handler' = [handler EXCEPT ![h] = new] /\ LockFree /\ handler[h].at = "idle"
  BY <1>1 DEF Begin, At
<1>4. new \in HandlerStates /\ new.at = place /\ new.action = action /\ new.answer = NoAnswer
      /\ ~new.waits /\ new.command = 0
  BY <1>2 DEF Free, HandlerStates, Places, Actions, Commands, Answers, NoAnswer
<1> HIDE DEF new
<1>5. HandlerKnown(new)
  BY <1>1, <1>2, <1>4 DEF HandlerKnown, Left
<1>6. ~handler[h].waits
  BY <1>2, <1>3 DEF HandlerKnown, Commands
<1>7. /\ UNCHANGED <<last, asked, pi, inbox, outbox, reading, stage, closed, dialogs, pending>>
      /\ status' \in Statuses
  BY <1>2 DEF Prompt, Stop, piState, Statuses
<1>8. new.at # "stopped" /\ closed' \in BOOLEAN /\ dialogs' \subseteq dialogs
      /\ pending' = IF handler[h].waits THEN pending \ {handler[h].command} ELSE pending
  BY <1>2, <1>4, <1>6, <1>7
<1> QED
  BY <1>3, <1>4, <1>5, <1>7, <1>8, HandlerStep

(* A command is the newest on its way and the only one that is awaited.    *)
LEMMA SendKeeps ==
  ASSUME BrokerInv, NEW h \in Handlers, Send(h)
  PROVE BrokerInv'
<1>1. /\ handler \in [Handlers -> HandlerStates] /\ last \in Nat /\ asked \in Nat
      /\ inbox \in Seq(Inputs) /\ pi \in PiStates /\ last <= MaxCommands /\ pi.queued <= last
      /\ HandlerKnown(handler[h])
  BY DEF BrokerInv, Typed, Counted, HandlersKnown
<1>2. /\ handler[h].at \in Commands /\ ~handler[h].waits /\ last' = last + 1
      /\ pending' = pending \union {last + 1}
      /\ UNCHANGED <<status, dialogs, reading, closed, stage, pi, outbox, asked>>
  BY DEF Send, At
<1>3. PICK input \in Inputs :
        /\ inbox' = Append(inbox, input) /\ input.command = last + 1 /\ IsCommand(input)
        /\ handler[h].at = "get_state" => input.kind = "get_state"
  <2> DEFINE kind == IF handler[h].at = "prompt" THEN handler[h].action ELSE handler[h].at
  <2>1. kind \in Commands \union {"steer"}
    BY <1>1, <1>2 DEF HandlerKnown, Commands
  <2>2. handler[h].at = "get_state" => kind = "get_state"
    OBVIOUS
  <2>3. inbox' = Append(inbox, [command |-> last + 1, kind |-> kind])
    BY DEF Send
  <2> HIDE DEF kind
  <2>4. kind # "ui_response"
    BY <2>1 DEF Commands
  <2>5. [command |-> last + 1, kind |-> kind] \in Inputs
    BY <1>1, <2>1 DEF Inputs
  <2> QED
    BY <2>2, <2>3, <2>4, <2>5 DEF IsCommand
<1>19. PICK next \in Nat : next = last + 1
  BY <1>1
<1> DEFINE new == [handler[h] EXCEPT !.waits = TRUE, !.command = next]
<1>4. handler' = [handler EXCEPT ![h] = new]
  BY <1>1, <1>19 DEF Send, HandlerStates
<1>5. new \in HandlerStates /\ new.at = handler[h].at /\ new.waits /\ new.command = last + 1
      /\ new.answer = handler[h].answer /\ new.action = handler[h].action
  BY <1>1, <1>19 DEF HandlerStates
<1> HIDE DEF new
<1>6. /\ handler' \in [Handlers -> HandlerStates] /\ handler'[h] = new
      /\ \A g \in Handlers : g # h => handler'[g] = handler[g]
  BY <1>1, <1>4, <1>5
<1>7. \A g \in Handlers : g # h => handler[g].at = "idle" /\ ~handler[g].waits
  <2>1. handler[h].at # "idle"
    BY <1>2 DEF Commands
  <2> QED
    BY <2>1 DEF BrokerInv, OneActs, HandlersKnown, HandlerKnown, Commands
<1>8. /\ inbox' \in Seq(Inputs)
      /\ \A i \in DOMAIN inbox' : (i \in DOMAIN inbox /\ inbox'[i] = inbox[i])
                                    \/ (i = Len(inbox) + 1 /\ inbox'[i] = input)
      /\ \A i \in DOMAIN inbox : i \in Nat /\ i < Len(inbox) + 1 /\ Len(inbox) \in Nat
  BY <1>1, <1>3, AppendIs
<1>9. Typed'
  BY <1>1, <1>2, <1>6, <1>8 DEF BrokerInv, Typed
<1>10. OneActs'
  BY <1>5, <1>6, <1>7 DEF OneActs
<1>11. HandlersKnown'
  <2>1. \A g \in Handlers : HandlerKnown(handler[g])
    BY DEF BrokerInv, HandlersKnown
  <2>2. ASSUME NEW g \in Handlers, g # h
        PROVE HandlerKnown(handler[g])'
    <3>1. handler'[g] = handler[g] /\ handler[g].at = "idle" /\ ~handler[g].waits
          /\ handler[g].answer = NoAnswer /\ handler[g].command \in Nat
          /\ (handler[g].command <= last \/ handler[g].command <= asked)
      BY <1>1, <1>6, <1>7, <2>1, <2>2 DEF HandlerKnown, HandlerStates
    <3>2. Left(handler[g]) = 0 /\ last + 1 + 0 <= MaxCommands
      BY <1>1, <1>2, <3>1 DEF HandlerKnown, Left, Commands
    <3>3. "idle" \notin Commands
      BY DEF Commands
    <3> QED
      BY <1>1, <1>2, <3>1, <3>2, <3>3 DEF HandlerKnown, Left
  <2>3. HandlerKnown(handler[h])'
    BY SMTT(60), <1>1, <1>2, <1>5, <1>6, <2>1 DEF HandlerKnown, Left, Commands
  <2> QED
    BY <2>2, <2>3 DEF HandlersKnown
<1>12. Counted'
  BY <1>1, <1>2 DEF BrokerInv, Counted, HandlerKnown, Left, Commands, PiStates
<1>13. PendingIsAwaited'
  <2>1. pending = {}
    BY <1>2, <1>7 DEF BrokerInv, PendingIsAwaited
  <2>2. \A g \in Handlers : handler'[g].waits <=> g = h
    BY <1>5, <1>6, <1>7
  <2> QED
    BY <1>2, <1>5, <1>6, <2>1, <2>2 DEF PendingIsAwaited
<1>14. \A i \in DOMAIN inbox : inbox[i].command \in Nat
  <2>1. \A i \in DOMAIN inbox : inbox[i] \in Inputs
    BY <1>1
  <2> QED
    BY <2>1 DEF Inputs
<1>15. InboxKnown'
  <2>1. \A i \in DOMAIN inbox' : IsCommand(inbox'[i]) =>
          pi.queued < inbox'[i].command /\ inbox'[i].command <= last + 1
    BY <1>1, <1>3, <1>8, <1>14 DEF BrokerInv, InboxKnown, PiStates
  <2>2. ASSUME NEW i \in DOMAIN inbox', IsCommand(inbox'[i]),
               NEW j \in DOMAIN inbox', i < j, IsCommand(inbox'[j])
        PROVE inbox'[i].command < inbox'[j].command
    <3>1. i \in DOMAIN inbox /\ inbox'[i] = inbox[i]
      BY <1>8, <2>2
    <3>2. CASE j \in DOMAIN inbox /\ inbox'[j] = inbox[j]
      BY <2>2, <3>1, <3>2 DEF BrokerInv, InboxKnown
    <3>3. CASE inbox'[j] = input
      BY <1>1, <1>3, <1>14, <2>2, <3>1, <3>3 DEF BrokerInv, InboxKnown
    <3> QED
      BY <1>8, <3>2, <3>3
  <2> QED
    BY <1>2, <2>1, <2>2 DEF InboxKnown
<1>16. \A i \in DOMAIN outbox : outbox[i].command \in Nat
  <2>1. \A i \in DOMAIN outbox : outbox[i] \in Outputs
    BY DEF BrokerInv, Typed
  <2> QED
    BY <2>1 DEF Outputs
<1>17. OutboxKnown'
  BY <1>1, <1>2, <1>3, <1>8, <1>16 DEF BrokerInv, OutboxKnown
<1>18. StopKnown'
  <2>1. \A g \in Handlers : g # h => handler'[g].at = "idle"
    BY <1>6, <1>7
  <2>2. handler'[h].at \in Commands /\ handler'[h].answer = NoAnswer
    BY <1>2, <1>5, <1>6 DEF BrokerInv, HandlersKnown, HandlerKnown
  <2>3. ASSUME handler[h].at = "get_state", NEW i \in DOMAIN inbox', IsCommand(inbox'[i]),
               inbox'[i].command = last + 1
        PROVE inbox'[i].kind = "get_state"
    BY <1>1, <1>3, <1>8, <1>14, <2>3 DEF BrokerInv, InboxKnown
  <2>4. \A i \in DOMAIN outbox : outbox[i].type = "response" => outbox[i].command # last + 1
    BY <1>1, <1>16 DEF BrokerInv, OutboxKnown
  <2> QED
    BY <1>2, <1>5, <1>6, <2>1, <2>2, <2>3, <2>4 DEF StopKnown, Commands, NoAnswer
<1> QED
  BY <1>9, <1>10, <1>11, <1>12, <1>13, <1>15, <1>17, <1>18 DEF BrokerInv

(* An answer to a dialog asks nothing of Pi.                               *)
LEMMA ReplyKeeps ==
  ASSUME BrokerInv, NEW h \in Handlers, Reply(h)
  PROVE BrokerInv'
<1>1. PICK d \in dialogs :
        /\ inbox' = Append(inbox, [command |-> d, kind |-> "ui_response"])
        /\ handler' = [handler EXCEPT ![h] = [Free EXCEPT !.at = "replied", !.command = d]]
  BY DEF Reply
<1>2. /\ UNCHANGED <<pending, last, status, dialogs, reading, closed, stage, pi, outbox, asked>>
      /\ \A g \in Handlers : handler[g].at = "idle"
  BY <1>1 DEF Reply, LockFree
<1>3. /\ handler \in [Handlers -> HandlerStates] /\ last \in Nat /\ asked \in Nat
      /\ inbox \in Seq(Inputs) /\ last <= MaxCommands /\ dialogs \subseteq 1 .. asked
  BY DEF BrokerInv, Typed, Counted
<1>4. d \in Nat /\ d <= asked
  BY <1>1, <1>3
<1> DEFINE new == [Free EXCEPT !.at = "replied", !.command = d]
           input == [command |-> d, kind |-> "ui_response"]
<1>5. new \in HandlerStates /\ new.at = "replied" /\ ~new.waits /\ new.command = d
      /\ new.answer = NoAnswer
  BY <1>4 DEF Free, HandlerStates, Places, Actions, Statuses, Answers, NoAnswer
<1>6. input \in Inputs /\ ~IsCommand(input) /\ input.kind \notin {"prompt", "steer"}
  BY <1>4 DEF Inputs, IsCommand
<1>7. handler' = [handler EXCEPT ![h] = new] /\ inbox' = Append(inbox, input)
  BY <1>1
<1> HIDE DEF new, input
<1>8. /\ handler' \in [Handlers -> HandlerStates] /\ handler'[h] = new
      /\ \A g \in Handlers : g # h => handler'[g] = handler[g]
  BY <1>3, <1>5, <1>7
<1>9. /\ inbox' \in Seq(Inputs)
      /\ \A i \in DOMAIN inbox' : (i \in DOMAIN inbox /\ inbox'[i] = inbox[i])
                                    \/ (i = Len(inbox) + 1 /\ inbox'[i] = input)
  BY <1>3, <1>6, <1>7, AppendIs
<1>10. Typed'
  BY <1>2, <1>8, <1>9 DEF BrokerInv, Typed
<1>11. OneActs'
  BY <1>2, <1>8 DEF OneActs
<1>12. HandlersKnown'
  <2>1. HandlerKnown(new)
    BY <1>3, <1>4, <1>5 DEF HandlerKnown, Left, Commands
  <2> QED
    BY <1>2, <1>8, <2>1 DEF BrokerInv, HandlersKnown, HandlerKnown, Left
<1>13. Counted'
  BY <1>2 DEF BrokerInv, Counted
<1>14. PendingIsAwaited'
  <2>1. \A g \in Handlers : ~handler[g].waits /\ ~handler'[g].waits
    BY <1>2, <1>5, <1>8 DEF BrokerInv, HandlersKnown, HandlerKnown, Commands
  <2> QED
    BY <1>2, <2>1 DEF BrokerInv, PendingIsAwaited
<1>15. \A i \in DOMAIN inbox' : IsCommand(inbox'[i]) => i \in DOMAIN inbox /\ inbox'[i] = inbox[i]
  BY <1>6, <1>9
<1>16. InboxKnown' /\ OutboxKnown'
  BY <1>2, <1>15 DEF BrokerInv, InboxKnown, OutboxKnown
<1>17. StopKnown'
  BY <1>2, <1>5, <1>8 DEF StopKnown
<1> QED
  BY <1>10, <1>11, <1>12, <1>13, <1>14, <1>16, <1>17 DEF BrokerInv

-----------------------------------------------------------------------------
\* The reader and the main thread.

(* What waits may hear an answer to its own command.                       *)
LEMMA ReaderStep ==
  ASSUME BrokerInv, handler' \in [Handlers -> HandlerStates],
         \A h \in Handlers :
           /\ handler'[h].at = handler[h].at /\ handler'[h].action = handler[h].action
           /\ handler'[h].waits = handler[h].waits /\ handler'[h].command = handler[h].command
           /\ \/ handler'[h].answer = handler[h].answer
              \/ /\ handler[h].waits /\ handler'[h].answer.command = handler[h].command
                 /\ handler[h].at = "get_state" /\ handler'[h].answer.ok
                      /\ ~handler'[h].answer.busy => Quiet,
         outbox' \in Seq(Outputs),
         \A i \in DOMAIN outbox' : \E j \in DOMAIN outbox : outbox'[i] = outbox[j],
         status' \in Statuses, dialogs' \subseteq 1 .. asked,
         reading' \in BOOLEAN, closed' \in BOOLEAN,
         UNCHANGED <<pending, last, stage, pi, inbox, asked>>
  PROVE BrokerInv'
<1>1. Typed'
  BY DEF BrokerInv, Typed
<1>2. OneActs' /\ Counted'
  BY DEF BrokerInv, OneActs, Counted
<1>3. HandlersKnown'
  <2> SUFFICES ASSUME NEW h \in Handlers PROVE HandlerKnown(handler[h])'
    BY DEF HandlersKnown
  <2>1. HandlerKnown(handler[h])
    BY DEF BrokerInv, HandlersKnown
  <2>2. CASE handler'[h].answer = handler[h].answer
    BY <2>1, <2>2 DEF HandlerKnown, Left
  <2>3. CASE handler[h].waits /\ handler'[h].answer.command = handler[h].command
    BY <2>1, <2>3 DEF HandlerKnown, Left, Commands
  <2> QED
    BY <2>2, <2>3
<1>4. PendingIsAwaited'
  BY DEF BrokerInv, PendingIsAwaited
<1>5. InboxKnown' /\ OutboxKnown'
  BY DEF BrokerInv, InboxKnown, OutboxKnown
<1>6. StopKnown'
  <2> SUFFICES ASSUME NEW h \in Handlers
               PROVE /\ handler'[h].at = "get_state" /\ handler'[h].waits =>
                          /\ \A i \in DOMAIN inbox :
                               IsCommand(inbox[i]) /\ inbox[i].command = last
                                 => inbox[i].kind = "get_state"
                          /\ \A i \in DOMAIN outbox' :
                               outbox'[i].type = "response" /\ outbox'[i].command = last
                                 /\ ~outbox'[i].busy => Quiet
                          /\ handler'[h].answer.ok /\ ~handler'[h].answer.busy => Quiet
                     /\ handler'[h].at = "stopped" /\ ~handler'[h].answer.busy => Quiet
    BY DEF StopKnown, Quiet
  <2>1. handler[h].waits => handler[h].at # "stopped"
    BY DEF BrokerInv, HandlersKnown, HandlerKnown, Commands
  <2> QED
    BY <2>1 DEF BrokerInv, StopKnown
<1> QED
  BY <1>1, <1>2, <1>3, <1>4, <1>5, <1>6 DEF BrokerInv

LEMMA ReadKeeps ==
  ASSUME BrokerInv, Read
  PROVE BrokerInv'
<1>1. /\ outbox # <<>> /\ outbox' = Tail(outbox)
      /\ UNCHANGED <<pending, last, reading, closed, stage, pi, inbox, asked>>
  BY DEF Read
<1>2. /\ handler \in [Handlers -> HandlerStates] /\ outbox \in Seq(Outputs) /\ asked \in Nat
      /\ status \in Statuses /\ reading \in BOOLEAN /\ closed \in BOOLEAN
      /\ dialogs \subseteq 1 .. asked
  BY DEF BrokerInv, Typed, Counted
<1>3. PICK head \in Outputs : head = Head(outbox) /\ 1 \in DOMAIN outbox /\ head = outbox[1]
  BY <1>1, <1>2, TailIs
<1>4. /\ outbox' \in Seq(Outputs)
      /\ \A i \in DOMAIN outbox' : \E j \in DOMAIN outbox : outbox'[i] = outbox[j]
  BY <1>1, <1>2, TailIs
<1>5. CASE ReadEvent
  <2>1. handler' = handler /\ status' \in Statuses
    BY <1>2, <1>5 DEF ReadEvent, Statuses
  <2>2. head.type = "request" => head.command \in 1 .. asked
    BY <1>3 DEF BrokerInv, OutboxKnown
  <2>3. dialogs' \subseteq 1 .. asked
    BY <1>2, <1>3, <1>5, <2>2 DEF ReadEvent
  <2> QED
    BY <1>1, <1>2, <1>4, <2>1, <2>3, ReaderStep
<1>6. CASE ReadResponse
  <2> DEFINE answer == [command |-> head.command, ok |-> head.ok, busy |-> head.busy]
             mine(h) == handler[h].waits /\ handler[h].command = head.command
  <2>1. /\ handler' = [h \in Handlers |->
             IF mine(h) THEN [handler[h] EXCEPT !.answer = answer] ELSE handler[h]]
        /\ status' = status /\ dialogs' = dialogs /\ head.type = "response"
    BY <1>3, <1>6 DEF ReadResponse
  <2>2. answer \in Answers /\ answer.command = head.command /\ (answer.busy <=> head.busy)
    BY <1>3 DEF Outputs, Answers
  <2> HIDE DEF answer
  <2>3. \A h \in Handlers :
          /\ [handler[h] EXCEPT !.answer = answer] \in HandlerStates
          /\ [handler[h] EXCEPT !.answer = answer].at = handler[h].at
          /\ [handler[h] EXCEPT !.answer = answer].action = handler[h].action
          /\ [handler[h] EXCEPT !.answer = answer].waits = handler[h].waits
          /\ [handler[h] EXCEPT !.answer = answer].command = handler[h].command
          /\ [handler[h] EXCEPT !.answer = answer].answer = answer
    BY <1>2, <2>2 DEF HandlerStates
  <2>4. handler' \in [Handlers -> HandlerStates]
    BY <1>2, <2>1, <2>3
  <2>5. ASSUME NEW h \in Handlers, mine(h), handler[h].at = "get_state", ~head.busy
        PROVE Quiet
    <3>1. head.command = last
      BY <2>5 DEF BrokerInv, HandlersKnown, HandlerKnown
    <3> QED
      BY <1>3, <2>1, <2>5, <3>1 DEF BrokerInv, StopKnown
  <2>6. \A h \in Handlers :
           /\ handler'[h].at = handler[h].at /\ handler'[h].action = handler[h].action
           /\ handler'[h].waits = handler[h].waits /\ handler'[h].command = handler[h].command
           /\ \/ handler'[h].answer = handler[h].answer
              \/ /\ handler[h].waits /\ handler'[h].answer.command = handler[h].command
                 /\ handler[h].at = "get_state" /\ handler'[h].answer.ok
                      /\ ~handler'[h].answer.busy => Quiet
    BY <2>1, <2>2, <2>3, <2>5
  <2> HIDE DEF mine
  <2> QED
    BY <1>1, <1>2, <1>4, <2>1, <2>4, <2>6, ReaderStep
<1> QED
  BY <1>5, <1>6 DEF Read

LEMMA ReadEndKeeps ==
  ASSUME BrokerInv, ReadEnd
  PROVE BrokerInv'
<1> DEFINE none(h) == [NoAnswer EXCEPT !.command = handler[h].command]
<1>1. /\ reading' = FALSE /\ closed' = TRUE
      /\ handler' = [h \in Handlers |->
           IF handler[h].waits THEN [handler[h] EXCEPT !.answer = none(h)] ELSE handler[h]]
      /\ UNCHANGED <<pending, last, status, dialogs, stage, pi, inbox, outbox, asked>>
  BY DEF ReadEnd, piState
<1>2. /\ handler \in [Handlers -> HandlerStates] /\ outbox \in Seq(Outputs) /\ status \in Statuses
      /\ dialogs \subseteq 1 .. asked
  BY DEF BrokerInv, Typed, Counted
<1>3. \A h \in Handlers :
        none(h) \in Answers /\ none(h).command = handler[h].command /\ ~none(h).ok
  BY <1>2 DEF HandlerStates, NoAnswer, Answers
<1> HIDE DEF none
<1>4. \A h \in Handlers :
        /\ [handler[h] EXCEPT !.answer = none(h)] \in HandlerStates
        /\ [handler[h] EXCEPT !.answer = none(h)].at = handler[h].at
        /\ [handler[h] EXCEPT !.answer = none(h)].action = handler[h].action
        /\ [handler[h] EXCEPT !.answer = none(h)].waits = handler[h].waits
        /\ [handler[h] EXCEPT !.answer = none(h)].command = handler[h].command
        /\ [handler[h] EXCEPT !.answer = none(h)].answer = none(h)
  BY <1>2, <1>3 DEF HandlerStates
<1>5. handler' \in [Handlers -> HandlerStates]
  BY <1>1, <1>2, <1>4
<1>6. \A h \in Handlers :
         /\ handler'[h].at = handler[h].at /\ handler'[h].action = handler[h].action
         /\ handler'[h].waits = handler[h].waits /\ handler'[h].command = handler[h].command
         /\ \/ handler'[h].answer = handler[h].answer
            \/ /\ handler[h].waits /\ handler'[h].answer.command = handler[h].command
               /\ handler[h].at = "get_state" /\ handler'[h].answer.ok
                    /\ ~handler'[h].answer.busy => Quiet
  BY <1>1, <1>3, <1>4
<1> QED
  BY <1>1, <1>2, <1>5, <1>6, ReaderStep

LEMMA MainKeeps ==
  ASSUME BrokerInv, Finish \/ Exit
  PROVE BrokerInv'
<1>1. CASE Finish
  BY <1>1, EndKeeps DEF Finish, Statuses
<1>2. CASE Exit
  BY <1>2 DEF Exit, piState, BrokerInv, Typed, OneActs, HandlersKnown, HandlerKnown, Left, Counted,
    PendingIsAwaited, InboxKnown, OutboxKnown, StopKnown, Quiet
<1> QED
  BY <1>1, <1>2

LEMMA StepInv == BrokerInv /\ [Next]_vars => BrokerInv'
<1> SUFFICES ASSUME BrokerInv, [Next]_vars
             PROVE BrokerInv'
  OBVIOUS
<1>1. CASE UNCHANGED vars
  BY <1>1 DEF vars, piState, BrokerInv, Typed, OneActs, HandlersKnown, HandlerKnown, Left, Counted,
    PendingIsAwaited, InboxKnown, OutboxKnown, StopKnown, Quiet
<1>2. CASE \/ PiTakes \/ PiAsks \/ PiSettles \/ PiExits
           \/ Read \/ EndOfStream \/ ProtocolError \/ Finish \/ Exit
  BY <1>2, PiTakesKeeps, PiKeeps, ReadKeeps, ReadEndKeeps, MainKeeps DEF EndOfStream, ProtocolError
<1>3. ASSUME NEW h \in Handlers, Prompt(h) \/ Stop(h) \/ Reply(h) \/ Work(h)
      PROVE BrokerInv'
  BY <1>3, BeginKeeps, ReplyKeeps, SendKeeps, EndOfWaitKeeps, SucceedsKeeps, StepsKeep DEF Work
<1> QED
  BY <1>1, <1>2, <1>3 DEF Next

-----------------------------------------------------------------------------
\* The theorems.

(* The action lock admits one action, the commands on their way to Pi keep *)
(* their order, and a response is never of a command Pi has yet to take    *)
(* (Broker.rpc, noetic_sessions.py:1176-1202; read_stdout, :1204-1244).    *)
THEOREM AlwaysInStep == Spec => []BrokerInv
<1> QED
  BY InitInv, StepInv, PTL DEF Spec

(* A response answers the command it names and no later one, and a command *)
(* that was refused, timed out or released leaves nothing registered: the  *)
(* exchange with Pi stays in step (Broker.rpc, noetic_sessions.py:1176).   *)
THEOREM ExchangeStaysSound == Spec => []ExchangeIsSound
<1>1. BrokerInv => ExchangeIsSound
  <2> SUFFICES ASSUME BrokerInv PROVE ExchangeIsSound
    OBVIOUS
  <2>1. /\ handler \in [Handlers -> HandlerStates] /\ last \in Nat /\ asked \in Nat
        /\ pi \in PiStates /\ Counted /\ HandlersKnown
    BY DEF BrokerInv, Typed
  <2>2. \A h \in Handlers : handler[h].command \in 0 .. MaxCommands + MaxDialogs
    BY <2>1 DEF Counted, HandlersKnown, HandlerKnown, HandlerStates
  <2>3. pending \subseteq 1 .. last
    BY <2>1 DEF BrokerInv, PendingIsAwaited, HandlersKnown, HandlerKnown
  <2>4. pi.queued \in 0 .. MaxCommands /\ pi.asking \in 0 .. asked
    BY <2>1 DEF Counted, PiStates
  <2>5. TypeOK
    BY <2>1, <2>2, <2>3, <2>4 DEF BrokerInv, Typed, Counted, TypeOK
  <2>6. AnswersMatch
    BY <2>1 DEF AnswersMatch, HandlersKnown, HandlerKnown
  <2> QED
    BY <2>5, <2>6 DEF BrokerInv, ExchangeIsSound
<1> QED
  BY <1>1, AlwaysInStep, PTL

(* A stop that is about to answer "stopped" leaves a Pi that neither works *)
(* nor will: what get_state answered is still so when it is told, for the  *)
(* lock keeps every prompt out and what was given up had been taken before *)
(* (Broker.handle, noetic_sessions.py:1333, :1382-1393).                   *)
THEOREM StopsStay == Spec => []StoppedIsStopped
<1>1. BrokerInv => StoppedIsStopped
  BY DEF BrokerInv, StopKnown, Quiet, StoppedIsStopped
<1> QED
  BY <1>1, AlwaysInStep, PTL
=============================================================================
