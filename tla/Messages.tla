------------------------------- MODULE Messages -------------------------------
(***************************************************************************)
(* One agent's message to several others (scripts/noetic_sessions.py): the *)
(* threads of a fan-out bind and deliver it to brokers of the exact        *)
(* sessions, whose Pis fetch it, while positions pass to new sessions,     *)
(* brokers die, the store refuses and an operator delivers again.  What is *)
(* recorded of it is correlated with the ordinal domain.                   *)
(***************************************************************************)
EXTENDS Naturals, Sequences, FiniteSets

CONSTANTS
  Recipients,  \* positions of the sender's effort the message is for
  Sender,      \* and the sender's own
  MaxMishaps   \* bound on successions, deaths and refusals of the store

ASSUME MessagesAssumption == Sender \notin Recipients /\ MaxMishaps \in Nat

Positions == Recipients \union {Sender}
Contexts == Positions \X {1, 2}  \* the two sessions a position may have in turn
SenderContext == <<Sender, 1>>

VARIABLES
  designated,   \* per position, the number of its current session
  broker,       \* per context, whether its broker serves
  rows,         \* per context, the registry's events: [kind, message, marked]
  correlated,      \* and what the domain recorded of them, by their sequence
  interrupted,  \* correlations that ended between record and mark
  sends,        \* per recipient, its sending thread: [at, target, bound, outcome]
  requests,     \* what brokers were asked to deliver: [at, of, before]
  inbox,        \* per context, the delivery commands its Pi has not handled
  fetch,        \* per context, the message whose fetch is being recorded, or none
  taken,        \* messages in a Pi's conversation: <<context, message>>
  mishaps

log == <<rows, correlated, interrupted>>
pis == <<inbox, fetch, taken>>
messageVars == <<designated, broker, log, sends, requests, pis, mishaps>>

Askers == {"thread", "operator"}
Deliveries == Recipients \X Askers
Unasked == [at |-> "none", of |-> SenderContext, before |-> 0]

MessagesInit ==
  /\ designated = [p \in Positions |-> 1] /\ broker = [c \in Contexts |-> c[2] = 1]
  /\ rows = [c \in Contexts |-> <<>>] /\ correlated = [c \in Contexts |-> <<>>]
  /\ interrupted = 0
  /\ \E number \in [Recipients -> {1, 2}] :
       sends = [r \in Recipients |-> [at |-> "select", target |-> <<r, number[r]>>,
                                      bound |-> FALSE, outcome |-> "none"]]
  /\ requests = [d \in Deliveries |-> Unasked]
  /\ inbox = [c \in Contexts |-> <<>>] /\ fetch = [c \in Contexts |-> {}]
  /\ taken = {} /\ mishaps = 0

Mishap == mishaps < MaxMishaps /\ mishaps' = mishaps + 1

(* select(..., current=True) of the target and of the sender.              *)
IsCurrent(context) == designated[context[1]] = context[2]
MayPass(message) == IsCurrent(sends[message].target) /\ IsCurrent(SenderContext)

-----------------------------------------------------------------------------
(* Registry.event: insert a row, then correlate.                           *)

Inserted(context, kind, message) ==
  [rows EXCEPT ![context] = Append(@, [kind |-> kind, message |-> message, marked |-> FALSE])]

(* The unmarked rows by their sequence: the k-th has k of them up to it.   *)
Unmarked(all, context) ==
  LET left == {i \in DOMAIN all[context] : ~all[context][i].marked}
  IN [k \in 1..Cardinality(left) |->
        CHOOSE i \in left : Cardinality({j \in left : j <= i}) = k]

Mark(events, marked) ==
  [i \in DOMAIN events |-> IF \E k \in DOMAIN marked : marked[k] = i
                           THEN [events[i] EXCEPT !.marked = TRUE] ELSE events[i]]

(* Not the code: each row is marked and then recorded.                     *)
MarkFirst(all, context, recorded, marked) ==
  LET left == Unmarked(all, context)
  IN /\ correlated' = [correlated EXCEPT ![context] = @ \o SubSeq(left, 1, marked)]
     /\ rows' = [all EXCEPT ![context] = Mark(@, SubSeq(left, 1, recorded))]
     /\ interrupted' = interrupted + (recorded - marked)

(* Under correlation.lock: each row is recorded in the domain, then marked. *)
Correlate(all, context, recorded, marked) ==
  LET left == Unmarked(all, context)
  IN /\ correlated' = [correlated EXCEPT ![context] = @ \o SubSeq(left, 1, recorded)]
     /\ rows' = [all EXCEPT ![context] = Mark(@, SubSeq(left, 1, marked))]
     /\ interrupted' = interrupted + (recorded - marked)

CorrelateAll(all, context) ==
  LET number == Len(Unmarked(all, context)) IN Correlate(all, context, number, number)

(* Raised, or ended with its process, at one of the rows.                  *)
CorrelatePart(all, context) ==
  \E marked \in 0..(Len(Unmarked(all, context)) - 1), last \in {0, 1} :
    Correlate(all, context, marked + last, marked)

-----------------------------------------------------------------------------
(* fanout, message and deliver: one thread a recipient, all of them in the *)
(* sender's broker.                                                        *)

SendAt(r, place) == sends[r].at = place /\ broker[SenderContext]
SendTo(r, place) == sends' = [sends EXCEPT ![r].at = place]
Told(r, outcome) == sends' = [sends EXCEPT ![r].at = "report", ![r].outcome = outcome]

Select(r) ==
  /\ SendAt(r, "select")
  /\ IF MayPass(r) THEN SendTo(r, "bind") ELSE Told(r, "not-dispatched")
  /\ UNCHANGED <<designated, broker, log, requests, pis, mishaps>>

(* bind_action requires nothing current; then the row of the sending.      *)
Bind(r) ==
  /\ SendAt(r, "bind") /\ sends' = [sends EXCEPT ![r].at = "sending", ![r].bound = TRUE]
  /\ rows' = Inserted(SenderContext, "sent", r)
  /\ UNCHANGED <<designated, broker, correlated, interrupted, requests, pis, mishaps>>

SendRecorded(r) ==
  /\ SendAt(r, "sending") /\ CorrelateAll(rows, SenderContext) /\ SendTo(r, "deliver")
  /\ UNCHANGED <<designated, broker, requests, pis, mishaps>>

(* Raised before attempted is set: in the insertion, or in correlate.      *)
SendUnrecorded(r) ==
  /\ Mishap
  /\ \/ /\ SendAt(r, "bind") /\ UNCHANGED log
        /\ sends' = [sends EXCEPT ![r].at = "report", ![r].bound = TRUE,
                                  ![r].outcome = "not-dispatched"]
     \/ /\ SendAt(r, "sending") /\ CorrelatePart(rows, SenderContext)
        /\ Told(r, "not-dispatched")
  /\ UNCHANGED <<designated, broker, requests, pis>>

(* The broker a binding goes to is that of its own target.                 *)
Selected(message) == sends[message].target

MayDeliver(message) == MayPass(message) /\ broker[Selected(message)]
AskFor(d) == requests' = [requests EXCEPT ![d].at = "asked", ![d].of = Selected(d[1])]

Deliver(r) ==
  /\ SendAt(r, "deliver")
  /\ IF MayDeliver(r) THEN SendTo(r, "waiting") /\ AskFor(<<r, "thread">>)
     ELSE Told(r, "uncertain") /\ UNCHANGED requests
  /\ UNCHANGED <<designated, broker, log, pis, mishaps>>

(* Not the code: attempted is set when deliver has returned.               *)
LearnHopefully(r) ==
  /\ SendAt(r, "waiting")
  /\ \/ requests[<<r, "thread">>].at = "accepted" /\ Told(r, "accepted")
     \/ requests[<<r, "thread">>].at # "accepted" /\ Told(r, "not-dispatched")
  /\ UNCHANGED <<designated, broker, log, requests, pis, mishaps>>

(* The broker's answer; or 30 seconds, or the connection is lost.          *)
Learn(r) ==
  /\ SendAt(r, "waiting")
  /\ \/ requests[<<r, "thread">>].at = "accepted" /\ Told(r, "accepted")
     \/ requests[<<r, "thread">>].at # "accepted" /\ Told(r, "uncertain")
  /\ UNCHANGED <<designated, broker, log, requests, pis, mishaps>>

(* agent_fanout_recipient: if it raises, that is a receipt_error.          *)
RecordOutcome(r) ==
  LET all == Inserted(SenderContext, "outcome", r)
  IN /\ SendAt(r, "report") /\ SendTo(r, "done")
     /\ \/ CorrelateAll(all, SenderContext) /\ UNCHANGED mishaps
        \/ CorrelatePart(all, SenderContext) /\ Mishap
     /\ UNCHANGED <<designated, broker, requests, pis>>

(* An operator delivers, once, a binding that its thread did not see taken. *)
DeliverAgain(message) ==
  /\ sends[message].bound /\ sends[message].at \in {"done", "dead"}
  /\ sends[message].outcome # "accepted"
  /\ \A r \in Recipients : requests[<<r, "operator">>].at = "none"
  /\ MayDeliver(message) /\ AskFor(<<message, "operator">>)
  /\ UNCHANGED <<designated, broker, log, sends, pis, mishaps>>

-----------------------------------------------------------------------------
(* The broker asked: handle.                                               *)

RequestAt(d, place) == requests[d].at = place /\ broker[requests[d].of]
RequestTo(d, place) == requests' = [requests EXCEPT ![d].at = place]

ActionLockHeld(context) ==
  \E d \in Deliveries : requests[d].of = context /\ requests[d].at = "prompting"

(* The binding's target is this broker's own, and may still be delivered.  *)
IsBound(d) == requests[d].of = sends[d[1]].target /\ MayPass(d[1])

Prompt(d) ==
  /\ RequestAt(d, "asked") /\ ~ActionLockHeld(requests[d].of)
  /\ IF IsBound(d)
     THEN /\ requests' = [requests EXCEPT ![d].at = "prompting", ![d].before = Len(rows[requests[d].of])]
          /\ inbox' = [inbox EXCEPT ![requests[d].of] = Append(@, d[1])]
     ELSE RequestTo(d, "refused") /\ UNCHANGED inbox
  /\ UNCHANGED <<designated, broker, log, sends, fetch, taken, mishaps>>

ReceivedRows(message, context) ==
  {i \in DOMAIN rows[context] : /\ rows[context][i].kind = "received"
                                /\ rows[context][i].message = message}

HasFetched(d) ==
  \E i \in ReceivedRows(d[1], requests[d].of) : i > requests[d].before

(* Pi acknowledges the command, whether or not its handler has fetched; or *)
(* 20 seconds pass, or it refuses, and it may handle it all the same.      *)
Answer(d) ==
  /\ RequestAt(d, "prompting")
  /\ \/ HasFetched(d) /\ RequestTo(d, "accepted")
     \/ RequestTo(d, "refused")
  /\ UNCHANGED <<designated, broker, log, sends, pis, mishaps>>

-----------------------------------------------------------------------------
(* The Pi of a context runs noetic-deliver: agent_delivery.                *)

Fetch(c) ==
  /\ broker[c] /\ fetch[c] = {} /\ inbox[c] # <<>>
  /\ inbox' = [inbox EXCEPT ![c] = Tail(@)]
  /\ LET message == Head(inbox[c])
     IN IF sends[message].target = c /\ MayPass(message)
        THEN /\ rows' = Inserted(c, "received", message)
             /\ fetch' = [fetch EXCEPT ![c] = {message}]
        ELSE UNCHANGED <<rows, fetch>>
  /\ UNCHANGED <<designated, broker, correlated, interrupted, sends, requests, taken, mishaps>>

(* The envelope joins the conversation, unless event raised after its row. *)
Take(c) ==
  /\ broker[c] /\ fetch[c] # {} /\ fetch' = [fetch EXCEPT ![c] = {}]
  /\ \/ /\ CorrelateAll(rows, c) /\ UNCHANGED mishaps
        /\ taken' = taken \union ({c} \X fetch[c])
     \/ CorrelatePart(rows, c) /\ Mishap /\ UNCHANGED taken
  /\ UNCHANGED <<designated, broker, sends, requests, inbox>>

-----------------------------------------------------------------------------
(* What happens to positions and brokers meanwhile.                        *)

Succeed(p) ==
  /\ designated[p] = 1 /\ Mishap
  /\ designated' = [designated EXCEPT ![p] = 2] /\ broker' = [broker EXCEPT ![<<p, 2>>] = TRUE]
  /\ UNCHANGED <<log, sends, requests, pis>>

Records(c) ==
  \/ fetch[c] # {}
  \/ c = SenderContext /\ \E r \in Recipients : sends[r].at = "sending"

(* The sending threads, or the handlers and the Pi, end with their broker. *)
BrokerEnds(c) ==
  /\ broker[c] /\ Mishap /\ broker' = [broker EXCEPT ![c] = FALSE]
  /\ UNCHANGED log \/ (Records(c) /\ CorrelatePart(rows, c))
  /\ sends' = [r \in Recipients |-> IF c = SenderContext /\ sends[r].at # "done"
                                    THEN [sends[r] EXCEPT !.at = "dead"] ELSE sends[r]]
  /\ requests' = [d \in Deliveries |->
                    IF requests[d].of = c /\ requests[d].at \in {"asked", "prompting"}
                    THEN [requests[d] EXCEPT !.at = "lost"] ELSE requests[d]]
  /\ inbox' = [inbox EXCEPT ![c] = <<>>] /\ fetch' = [fetch EXCEPT ![c] = {}]
  /\ UNCHANGED <<designated, taken>>

(* Its next broker correlates, in attach, what it finds.                   *)
BrokerReopens(c) ==
  /\ ~broker[c] /\ IsCurrent(c) /\ broker' = [broker EXCEPT ![c] = TRUE]
  /\ CorrelateAll(rows, c)
  /\ UNCHANGED <<designated, sends, requests, pis, mishaps>>

-----------------------------------------------------------------------------
Sending(r) ==
  \/ Select(r) \/ Bind(r) \/ SendRecorded(r) \/ SendUnrecorded(r)
  \/ Deliver(r) \/ Learn(r) \/ RecordOutcome(r) \/ DeliverAgain(r)

MessagesNext ==
  \/ \E r \in Recipients : Sending(r)
  \/ \E d \in Deliveries : Prompt(d) \/ Answer(d)
  \/ \E c \in Contexts : Fetch(c) \/ Take(c) \/ BrokerEnds(c) \/ BrokerReopens(c)
  \/ \E p \in Positions : Succeed(p)

MessagesSpec == MessagesInit /\ [][MessagesNext]_messageVars

-----------------------------------------------------------------------------
Dispatched(message) == {o \in Askers : requests[<<message, o>>].at # "none"}
IsSent(message) == \E i \in DOMAIN rows[SenderContext] :
  rows[SenderContext][i].kind = "sent" /\ rows[SenderContext][i].message = message

(* What message tells the sender (noetic_sessions.py:835-843) is true of   *)
(* the message, then and ever after: "accepted" was recorded as sent and   *)
(* fetched by the Pi of the exact target; "not-dispatched" is fetched only *)
(* if an operator delivers it; nothing is fetched more often than it was   *)
(* dispatched, by a successor of its target, or unrecorded.                *)
OutcomeIsTrue ==
  /\ \A r \in Recipients :
       LET fetched == Cardinality(ReceivedRows(r, sends[r].target))
       IN /\ sends[r].outcome = "accepted" => fetched > 0 /\ IsSent(r)
          /\ sends[r].outcome = "not-dispatched" => Dispatched(r) \subseteq {"operator"}
          /\ fetched <= Cardinality(Dispatched(r))
  /\ \A c \in Contexts : \A i \in DOMAIN rows[c] :
       rows[c][i].kind = "received" => sends[rows[c][i].message].target = c
  /\ \A t \in taken : ReceivedRows(t[2], t[1]) # {}

(* correlate (noetic_sessions.py:242): a marked row is in the domain's     *)
(* history, the rows of a session enter it in their order whoever          *)
(* correlates them, and none enters twice but for a correlation that ended *)
(* between record_event and the mark.                                      *)
HistoryIsFaithful ==
  \A c \in Contexts :
    LET recorded == {correlated[c][k] : k \in DOMAIN correlated[c]}
    IN /\ \A i \in DOMAIN rows[c] : rows[c][i].marked => i \in recorded
       /\ \A k \in DOMAIN correlated[c] :
            1..(correlated[c][k] - 1) \subseteq {correlated[c][l] : l \in 1..(k - 1)}
       /\ Len(correlated[c]) <= Cardinality(recorded) + interrupted
=============================================================================
