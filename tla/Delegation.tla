----------------------------- MODULE Delegation -----------------------------
(***************************************************************************)
(* Planned delegation of one development run (DelegationPolicy in          *)
(* scripts/noetic_harness.py, with the actor bridge and the child creation *)
(* of scripts/noetic_sessions.py).                                         *)
(*                                                                         *)
(* An implementation activation (a turn: the first one, then remediations) *)
(* has a parent actor that asks the bridge to launch the tasks of the      *)
(* accepted plan and reads its children.  Requests arrive on threads of    *)
(* the bridge and are decided under one policy lock, so at most one is in  *)
(* hand; the thread outlives the parent.  The journal of the run outlives  *)
(* the turn, and with it the record of every task.                         *)
(***************************************************************************)
EXTENDS Naturals, Sequences, FiniteSets

CONSTANTS Tasks,     \* task identifiers of the plan
          Turns,     \* bound on the implementation activations of the run
          MaxEvents  \* bound on the journal events of one task

VARIABLES
  deps,       \* the accepted plan: what each task depends on
  turn,
  parent,     \* "unbound", "bound" or "ended"
  outcome,    \* of the turn: "open", "accepted" or "failed"
  journal,    \* delegation.task events of each task
  children,   \* sessions created for tasks, with their actor binding
  inspected,  \* tasks whose child the parent has read, in this turn
  request,    \* the request in hand under the policy lock
  reply       \* how the last decided request was answered (history)

plan == <<deps, turn, parent, outcome, inspected>>
vars == <<plan, journal, children, request, reply>>

Idle  == [task |-> "none", place |-> "idle", left |-> {}]
NoRecord == [status |-> "none", child |-> 0, checks |-> "none"]

\* _state: the last event of the task.
Record(t) == IF journal[t] = <<>> THEN NoRecord ELSE journal[t][Len(journal[t])]
Note(t, entry) == journal' = [journal EXCEPT ![t] = Append(@, entry)]

-----------------------------------------------------------------------------
Peel(d, pending)     == {t \in pending : d[t] \cap pending = {}}

Pending(d) ==
  LET after[n \in 0 .. Cardinality(Tasks)] ==
        IF n = 0 THEN Tasks ELSE after[n - 1] \ Peel(d, after[n - 1])
  IN after[Cardinality(Tasks)]

AcceptedPlans == {d \in [Tasks -> SUBSET Tasks] :
                    /\ \A t \in Tasks : t \notin d[t]
                    /\ Pending(d) = {}}

Init ==
  /\ deps \in AcceptedPlans
  /\ turn = 1 /\ parent = "unbound" /\ outcome = "open"
  /\ journal = [t \in Tasks |-> <<>>] /\ children = <<>>
  /\ inspected = {} /\ request = Idle /\ reply = "none"

-----------------------------------------------------------------------------
Owned(c, t)  == children[c].task = t /\ children[c].turn = turn
Own(t)       == {c \in DOMAIN children : Owned(c, t)}
Finished(t)  == \E c \in Own(t) : Own(t) = {c} /\ children[c].state = "finished"

\* bind_parent: the genuine native state was observed.
BindParent ==
  /\ parent = "unbound" /\ outcome = "open"
  /\ parent' = "bound"
  /\ UNCHANGED <<deps, turn, outcome, inspected, journal, children, request, reply>>

Release(answer) == request' = Idle /\ reply' = answer

\* A task already dispatched: its child is returned, and the bridge then
\* insists that it carries this activation's binding.
Known(t) ==
  /\ Record(t).status = "dispatched"
  /\ Release(IF Owned(Record(t).child, t) THEN "returned" ELSE "known but refused")

UnknownRetried(t) ==
  /\ Record(t).status = "unknown"
  /\ request' = [task |-> t, place |-> "deciding", left |-> deps[t]]
  /\ UNCHANGED reply

Unknown(t) == Record(t).status = "unknown" /\ Release("refused")

Fresh(t) ==
  /\ Record(t).status \notin {"dispatched", "unknown"}
  /\ request' = [task |-> t, place |-> "deciding", left |-> deps[t]]
  /\ UNCHANGED reply

Delegate(t) ==
  /\ parent = "bound" /\ request = Idle
  /\ Known(t) \/ Unknown(t) \/ Fresh(t)
  /\ UNCHANGED <<plan, journal, children>>

\* _dependencies, one at a time: returned, read by the parent, finished, and
\* its declared checks pass (a pass is kept, a failure is tried again).
Ready(t) == Record(t).status = "dispatched" /\ t \in inspected /\ Finished(t)

Checked(t, result) ==
  IF Record(t).checks = "passed" THEN result = "passed" /\ UNCHANGED journal
                                 ELSE Note(t, [Record(t) EXCEPT !.checks = result])

CheckDependency(t) ==
  /\ request.place = "deciding" /\ t \in request.left /\ Ready(t)
  /\ \E result \in {"passed", "failed"} :
       /\ result = "failed" => Len(journal[t]) < MaxEvents
       /\ Checked(t, result)
       /\ IF result = "passed"
          THEN request' = [request EXCEPT !.left = @ \ {t}] /\ UNCHANGED reply
          ELSE Release("refused")
  /\ UNCHANGED <<plan, children>>

RefuseDependency ==
  /\ request.place = "deciding"
  /\ \E t \in request.left : ~Ready(t)
  /\ Release("refused")
  /\ UNCHANGED <<plan, journal, children>>

\* The attempt is durable before its effects.  (The dispatch budget, at least
\* one, can only refuse a task whose journal ends inside an attempt: the run
\* has failed by then, so no request meets it.)
Entry(status, child) == [status |-> status, child |-> child, checks |-> "none"]

DispatchUnrecorded ==
  /\ request.place = "deciding" /\ request.left = {}
  /\ request' = [request EXCEPT !.place = "creating"]
  /\ UNCHANGED <<plan, journal, children, reply>>

Dispatch ==
  /\ request.place = "deciding" /\ request.left = {}
  /\ Note(request.task, Entry("dispatching", 0))
  /\ request' = [request EXCEPT !.place = "creating"]
  /\ UNCHANGED <<plan, children, reply>>

\* create_actor_child: a position, a session with its binding, a launch and a
\* prompt, for a parent context that is still the current one.
CreateChild ==
  /\ request.place = "creating"
  /\ children' = Append(children, [task |-> request.task, turn |-> turn, state |-> "running"])
  /\ request' = [request EXCEPT !.place = "created"]
  /\ UNCHANGED <<plan, journal, reply>>

RecordChild ==
  /\ request.place = "created"
  /\ Note(request.task, Entry("dispatched", Len(children)))
  /\ Release("returned")
  /\ UNCHANGED <<plan, children>>

\* Whatever was raised, before or after the session exists.
AttemptFails ==
  /\ request.place \in {"creating", "created"}
  /\ Note(request.task, Entry("unknown", 0))
  /\ Release("refused")
  /\ UNCHANGED <<plan, children>>

ChildEnds ==
  /\ \E c \in DOMAIN children, end \in {"finished", "broken"} :
       /\ children[c].state = "running"
       /\ children' = [children EXCEPT ![c].state = end]
  /\ UNCHANGED <<plan, journal, request, reply>>

\* read and wait name an owned child; reading a running one counts as well.
Read ==
  /\ parent = "bound"
  /\ \E t \in Tasks : Own(t) # {} /\ inspected' = inspected \cup {t}
  /\ UNCHANGED <<deps, turn, parent, outcome, journal, children, request, reply>>

ParentEnds ==
  /\ parent = "bound"
  /\ parent' = "ended"
  /\ UNCHANGED <<deps, turn, outcome, inspected, journal, children, request, reply>>

\* complete(), under the same lock: every task, or the activation fails.
Complete ==
  /\ parent = "ended" /\ outcome = "open" /\ request = Idle
  /\ \A t \in Tasks : Ready(t)
  /\ journal' = [t \in Tasks |->
                   IF Record(t).checks = "passed" THEN journal[t]
                   ELSE Append(journal[t], [Record(t) EXCEPT !.checks = "passed"])]
  /\ outcome' = "accepted"
  /\ UNCHANGED <<deps, turn, parent, inspected, children, request, reply>>

\* A missing task, a failing check, a timeout, a refused result, a crash: the
\* run fails, while a request may still be in hand.
TurnFails ==
  /\ outcome = "open"
  /\ outcome' = "failed" /\ parent' = "ended"
  /\ UNCHANGED <<deps, turn, inspected, journal, children, request, reply>>

\* The review asks for a remediation: a new activation of the same plan.
Remediate ==
  /\ outcome = "accepted" /\ turn < Turns
  /\ turn' = turn + 1 /\ parent' = "unbound" /\ outcome' = "open" /\ inspected' = {}
  /\ UNCHANGED <<deps, journal, children, request, reply>>

Next ==
  \/ BindParent \/ ParentEnds \/ Read \/ ChildEnds
  \/ \E t \in Tasks : Delegate(t) \/ CheckDependency(t)
  \/ RefuseDependency \/ Dispatch \/ CreateChild \/ RecordChild \/ AttemptFails
  \/ Complete \/ TurnFails \/ Remediate

Spec == Init /\ [][Next]_vars

-----------------------------------------------------------------------------
\* A task is launched at most once in a run, however often and by however many
\* threads it is requested, whatever went wrong in an attempt.
OneChildPerTask ==
  \A b, c \in DOMAIN children : children[b].task = children[c].task => b = c

\* A child is launched only after the work it depends on had finished, was
\* read by its own parent and passed its declared checks (:319-327).
DependenciesFirst ==
  \A c \in DOMAIN children : \A t \in deps[children[c].task] :
    /\ Record(t).checks = "passed"
    /\ \E b \in DOMAIN children : b < c /\ children[b].task = t /\ children[b].state = "finished"
    /\ children[c].turn = turn => t \in inspected

\* An implementation that delegates is accepted only when every planned task
\* has exactly one child of this very activation, which finished, was read,
\* and passed its checks.
ReceiptIsWhole ==
  outcome = "accepted" =>
    \A t \in Tasks :
      /\ \E c \in DOMAIN children : Own(t) = {c} /\ children[c].state = "finished"
      /\ t \in inspected /\ Record(t).checks = "passed"

\* Delegated work is launched once, in its order, and accepted whole.
DelegationIsSound == OneChildPerTask /\ DependenciesFirst /\ ReceiptIsWhole

\* scripts/noetic_harness.py:274-275: "a known dispatched task returns its
\* exact existing child without another launch".
KnownChildIsReturned == reply # "known but refused"
=============================================================================
