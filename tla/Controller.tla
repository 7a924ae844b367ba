----------------------------- MODULE Controller -----------------------------
(***************************************************************************)
(* The executive controller kernel (scripts/noetic_controller.py): one run *)
(* in one SQLite store, reserving one role activation at a time.           *)
(*                                                                         *)
(* Every public operation is a BEGIN IMMEDIATE transaction, hence one      *)
(* atomic action here; an operation that raises rolls back, hence is not   *)
(* enabled.  Callers are any number of adapters holding any earlier        *)
(* version: they name an activation and an expected version, both of which *)
(* may be stale.                                                           *)
(*                                                                         *)
(* Identifiers are numbered in the order in which the store first sees     *)
(* them: activation (and actor) i, artifact i, command i, session i.  None *)
(* (0) is the absence of one.  An actor record mirrors the status and the  *)
(* session of its activation in every operation, so the two are one record *)
(* here.                                                                   *)
(*                                                                         *)
(* An operator placed before the definition it imitates and used nowhere   *)
(* is a plausible bug of that definition; each one is known to break a     *)
(* property below.                                                         *)
(***************************************************************************)
EXTENDS Naturals, Sequences

CONSTANTS
  Kinds,            \* the bundled patterns a run may be started with
  LastPhase,        \* index of the last phase: 3 in both bundled patterns
  MaxRemediations,  \* remediation budget of one phase (development)
  MaxReturns        \* return budget of the whole run (cognition)

Verified  == "verified_sequence"
Recurrent == "recurrent_operations"

ASSUME ControllerAssumption ==
  /\ Kinds \subseteq {Verified, Recurrent}
  /\ LastPhase \in Nat
  /\ MaxRemediations \in Nat
  /\ MaxReturns \in Nat

None   == 0
Phases == 0 .. LastPhase

VARIABLES
  kind,         \* the pattern the store was started with
  version,      \* incremented once per accepted operation
  status,       \* active, completed, blocked, failed, cancelled
  machine,      \* machine_state; "pending" never survives a transaction
  phase,        \* phase_index
  generation,   \* remediations already spent on this phase
  returnsUsed,
  visits,       \* how often each phase was entered
  current,      \* current_activation
  activations,
  artifacts,
  slots,        \* accepted.<phase> or effective.<phase>
  subject,      \* subject_artifact_id: the draft under review
  review,       \* review_artifact_id: the QA feedback a remediation answers
  feedback,     \* feedback artifacts of returns, oldest first
  receipts,     \* the commands table: request and original response
  answers       \* what submit_result returned to its callers (history)

run == <<kind, version, status, machine, phase, generation, returnsUsed, visits,
         current, activations, artifacts, slots, subject, review, feedback>>
vars == <<run, receipts, answers>>

Statuses == {"active", "completed", "blocked", "failed", "cancelled"}
Machines == {"producing", "remediating", "qa_review", "operating"}
            \cup (Statuses \ {"active"})

ActivationRecord ==
  [phase : Phases, generation : Nat, visit : Nat,
   mode : {"produce", "review", "operate"},
   status : {"ready", "running", "retired", "failed"},
   session : Nat, result : Nat,
   basis : [Phases -> Nat],   \* artifact bound to each prior phase's slot
   subject : Nat, qa : Nat, reopened : Nat]

ArtifactRecord ==
  [type : {"work", "review", "feedback"}, by : Nat, partial : BOOLEAN,
   verdict : {"none", "pass", "fail"}, names : Nat, blocking : BOOLEAN,
   accepted : BOOLEAN]

\* A role result, reduced to what _validate_result and _transition look at.
ResultRecord ==
  [outcome : {"produced", "advance", "complete", "return", "pass", "fail"},
   names : Nat,          \* subject_artifact_id of a review
   blocking : BOOLEAN,   \* some finding of a review is blocking
   target : Phases,      \* phase a return reopens
   full : BOOLEAN]       \* content has every field the phase requires

RequestRecord == [activation : Nat, version : Nat, result : ResultRecord, session : Nat]

SnapshotRecord == [version : Nat, status : Statuses, machine : Machines,
                   phase : Phases, current : Nat, slots : [Phases -> Nat]]

Snapshot == [version |-> version, status |-> status, machine |-> machine,
             phase |-> phase, current |-> current, slots |-> slots]

-----------------------------------------------------------------------------
\* Reading the store.

newest == Len(artifacts) + 1

\* _guard, one definition per name.
HasNext               == phase < LastPhase
IsLast                == phase = LastPhase
CanRemediate          == generation < MaxRemediations
ExhaustedEarly        == generation + 1 >= MaxRemediations
RemediationsExhausted == generation >= MaxRemediations
CanReturnOnceMore     == returnsUsed <= MaxReturns
CanReturn             == returnsUsed < MaxReturns
ReturnsExhausted      == returnsUsed >= MaxReturns

ReturnTargets == {p \in Phases : p < phase}

\* _current: the caller's version and activation are the store's, and the
\* activation is where the operation expects it.
CurrentUnversioned(a, v, expected) ==
  /\ status = "active"
  /\ current = a
  /\ activations[a].status \in expected

Current(a, v, expected) ==
  /\ v = version
  /\ status = "active"
  /\ current = a
  /\ activations[a].status \in expected

Ordinary(mode) == IF mode = "produce" THEN "produced"
                  ELSE IF phase = LastPhase THEN "complete" ELSE "advance"

ReviewOfAnything(r) ==
  r.outcome \in {"pass", "fail"} /\ (r.outcome = "pass" => ~r.blocking)

ValidReview(r) ==
  /\ r.outcome \in {"pass", "fail"}
  /\ r.names = subject
  /\ r.outcome = "pass" => ~r.blocking

ValidResult(a, r) ==
  LET mode == activations[a].mode IN
  \/ mode = "review" /\ ValidReview(r)
  \/ /\ mode = "operate"
     /\ r.outcome = "return"
     /\ r.target \in ReturnTargets
  \/ /\ mode # "review"
     /\ r.outcome = Ordinary(mode)
     /\ r.full

FreshInPhase(s) ==
  \A i \in DOMAIN activations :
    activations[i].phase = phase => activations[i].session # s

FreshSession(s) == \A i \in DOMAIN activations : activations[i].session # s

-----------------------------------------------------------------------------
\* Parts of an accepted result.

Reservation(mode, p, gen, visit, sl, sub, rev, fb) ==
  [phase |-> p, generation |-> gen, visit |-> visit, mode |-> mode,
   status |-> "ready", session |-> None, result |-> None,
   basis |-> [q \in Phases |-> IF q < p THEN sl[q] ELSE None],
   subject |-> sub, qa |-> rev,
   reopened |-> IF fb = <<>> THEN None ELSE fb[Len(fb)]]

Number(base)          == Len(base) + 1

\* _allocate, evaluated on the state the row of the table has produced.  It
\* raises, and with it the whole submission, if a prior phase's slot does not
\* hold a nonpartial artifact of its type.
Allocate(mode, base) ==
  /\ \A q \in Phases : q < phase' =>
       /\ slots'[q] # None
       /\ artifacts'[slots'[q]].type = "work"
       /\ ~artifacts'[slots'[q]].partial
  /\ activations' = Append(base, Reservation(mode, phase', generation',
                             visits'[phase'], slots', subject', review', feedback'))
  /\ current' = Number(base)

Stop(outcome, base) ==
  /\ status' = outcome
  /\ machine' = outcome
  /\ activations' = base
  /\ current' = None

\* The activation and its actor retire with the session that did the work.
Retired(a, s) == [activations EXCEPT ![a].status = "retired",
                                     ![a].session = s, ![a].result = newest]

Artifact(type, a, r) ==
  [type |-> type, by |-> a, partial |-> r.outcome = "return" /\ type = "work",
   verdict |-> IF type = "review" THEN r.outcome ELSE "none",
   names |-> IF type = "review" THEN r.names ELSE None,
   blocking |-> r.blocking, accepted |-> type = "feedback" /\ CanReturn]

Enter(p) == /\ phase' = p
            /\ visits' = [visits EXCEPT ![p] = @ + 1]

-----------------------------------------------------------------------------
\* _transition: one definition per row of the two transition tables.  The
\* "pending / activate" row is taken in the same transaction by the rows that
\* lead to it.

Produced(a, r, s) ==
  /\ machine \in {"producing", "remediating"} /\ r.outcome = "produced"
  /\ artifacts' = Append(artifacts, Artifact("work", a, r))
  /\ machine' = "qa_review"
  /\ subject' = newest
  /\ UNCHANGED <<status, phase, generation, visits, slots, review, feedback, returnsUsed>>
  /\ Allocate("review", Retired(a, s))

PassNext(a, r, s) ==
  /\ machine = "qa_review" /\ r.outcome = "pass" /\ HasNext
  /\ artifacts' = Append(artifacts, Artifact("review", a, r))
  /\ slots' = [slots EXCEPT ![phase] = subject]
  /\ subject' = None /\ review' = None
  /\ Enter(phase + 1)
  /\ generation' = 0
  /\ machine' = "producing"
  /\ UNCHANGED <<status, feedback, returnsUsed>>
  /\ Allocate("produce", Retired(a, s))

PassLast(a, r, s) ==
  /\ machine = "qa_review" /\ r.outcome = "pass" /\ IsLast
  /\ artifacts' = Append(artifacts, Artifact("review", a, r))
  /\ slots' = [slots EXCEPT ![phase] = subject]
  /\ subject' = None /\ review' = None
  /\ Stop("completed", Retired(a, s))
  /\ UNCHANGED <<phase, generation, visits, feedback, returnsUsed>>

FailRemediate(a, r, s) ==
  /\ machine = "qa_review" /\ r.outcome = "fail" /\ CanRemediate
  /\ artifacts' = Append(artifacts, Artifact("review", a, r))
  /\ review' = newest
  /\ generation' = generation + 1
  /\ machine' = "remediating"
  /\ UNCHANGED <<status, phase, visits, slots, subject, feedback, returnsUsed>>
  /\ Allocate("produce", Retired(a, s))

FailBlock(a, r, s) ==
  /\ machine = "qa_review" /\ r.outcome = "fail" /\ RemediationsExhausted
  /\ artifacts' = Append(artifacts, Artifact("review", a, r))
  /\ review' = newest
  /\ Stop("blocked", Retired(a, s))
  /\ UNCHANGED <<phase, generation, visits, slots, subject, feedback, returnsUsed>>

Advance(a, r, s) ==
  /\ machine = "operating" /\ r.outcome = "advance" /\ HasNext
  /\ artifacts' = Append(artifacts, Artifact("work", a, r))
  /\ slots' = [slots EXCEPT ![phase] = newest]
  /\ subject' = None /\ review' = None
  /\ Enter(phase + 1)
  /\ generation' = 0
  /\ UNCHANGED <<status, machine, feedback, returnsUsed>>
  /\ Allocate("operate", Retired(a, s))

Complete(a, r, s) ==
  /\ machine = "operating" /\ r.outcome = "complete" /\ IsLast
  /\ artifacts' = Append(artifacts, Artifact("work", a, r))
  /\ slots' = [slots EXCEPT ![phase] = newest]
  /\ subject' = None /\ review' = None
  /\ Stop("completed", Retired(a, s))
  /\ UNCHANGED <<phase, generation, visits, feedback, returnsUsed>>

InvalidateTarget(t) == [slots EXCEPT ![t] = None]
Invalidate(t)       == [q \in Phases |-> IF q >= t THEN None ELSE slots[q]]

\* A return leaves two artifacts, the partial work and the feedback naming it.
RecordReturn(a, r) ==
  /\ artifacts' = artifacts \o <<Artifact("work", a, r), Artifact("feedback", a, r)>>
  /\ feedback' = Append(feedback, newest + 1)

Return(a, r, s) ==
  /\ machine = "operating" /\ r.outcome = "return" /\ CanReturn
  /\ RecordReturn(a, r)
  /\ slots' = Invalidate(r.target)
  /\ returnsUsed' = returnsUsed + 1
  /\ Enter(r.target)
  /\ UNCHANGED <<status, machine, generation, subject, review>>
  /\ Allocate("operate", Retired(a, s))

ReturnBlock(a, r, s) ==
  /\ machine = "operating" /\ r.outcome = "return" /\ ReturnsExhausted
  /\ RecordReturn(a, r)
  /\ Stop("blocked", Retired(a, s))
  /\ UNCHANGED <<phase, generation, visits, slots, subject, review, returnsUsed>>

-----------------------------------------------------------------------------
\* The operations.

BeginActivationAgain(a, v) ==
  /\ Current(a, v, {"ready", "running"})
  /\ version' = version + 1
  /\ activations' = [activations EXCEPT ![a].status = "running"]
  /\ UNCHANGED <<kind, status, machine, phase, generation, returnsUsed, visits, current,
                 artifacts, slots, subject, review, feedback, receipts, answers>>

BeginActivation(a, v) ==
  /\ Current(a, v, {"ready"})
  /\ version' = version + 1
  /\ activations' = [activations EXCEPT ![a].status = "running"]
  /\ UNCHANGED <<kind, status, machine, phase, generation, returnsUsed, visits, current,
                 artifacts, slots, subject, review, feedback, receipts, answers>>

Transition(a, r, s) ==
  \/ Produced(a, r, s)
  \/ PassNext(a, r, s)
  \/ PassLast(a, r, s)
  \/ FailRemediate(a, r, s)
  \/ FailBlock(a, r, s)
  \/ Advance(a, r, s)
  \/ Complete(a, r, s)
  \/ Return(a, r, s)
  \/ ReturnBlock(a, r, s)

\* A command the store has not seen.
SubmitResult(a, v, r, s) ==
  /\ Current(a, v, {"running"})
  /\ ValidResult(a, r)
  /\ FreshSession(s)
  /\ version' = version + 1 /\ UNCHANGED kind
  /\ Transition(a, r, s)
  /\ receipts' = Append(receipts,
       [request |-> [activation |-> a, version |-> v, result |-> r, session |-> s],
        response |-> Snapshot'])
  /\ answers' = answers \cup {[command |-> Len(receipts) + 1, response |-> Snapshot']}

\* The exact request again, at any later time: the receipt answers it before
\* any other check.  (The same command with another request is refused.)
RedeliverResult(c) ==
  /\ answers' = answers \cup {[command |-> c, response |-> receipts[c].response]}
  /\ UNCHANGED <<run, receipts>>

FailActivation(a, outcome) ==
  /\ version' = version + 1
  /\ Stop(outcome, [activations EXCEPT ![a].status = "failed"])
  /\ UNCHANGED <<kind, phase, generation, returnsUsed, visits, artifacts, slots,
                 subject, review, feedback, receipts, answers>>

RuntimeFailed(a, v) == Current(a, v, {"ready", "running"}) /\ FailActivation(a, "failed")

\* Repeating a cancellation changes nothing; any other terminal run refuses it.
CancelRun == status = "active" /\ FailActivation(current, "cancelled")

-----------------------------------------------------------------------------
\* start_run: the store holds the external inputs (never partial and never
\* rebound, so their slots are left out) and the first reservation.
Init ==
  /\ kind \in Kinds /\ version = 1 /\ status = "active"
  /\ machine = IF kind = Verified THEN "producing" ELSE "operating"
  /\ phase = 0 /\ generation = 0 /\ returnsUsed = 0
  /\ visits = [p \in Phases |-> IF p = 0 THEN 1 ELSE 0]
  /\ current = 1
  /\ slots = [p \in Phases |-> None]
  /\ subject = None /\ review = None /\ feedback = <<>> /\ artifacts = <<>>
  /\ activations = <<Reservation(IF kind = Verified THEN "produce" ELSE "operate",
                                 0, 0, 1, slots, None, None, <<>>)>>
  /\ receipts = <<>> /\ answers = {}

\* What a role may hand in, contract or not.
Results ==
  [outcome : {"pass", "fail"}, names : 0 .. Len(artifacts), blocking : BOOLEAN,
   target : {0}, full : {TRUE}]
  \cup [outcome : {"produced", "advance", "complete"}, names : {None},
        blocking : {FALSE}, target : {0}, full : BOOLEAN]
  \cup [outcome : {"return"}, names : {None}, blocking : {FALSE},
        target : Phases, full : BOOLEAN]

\* Sessions and activations are offered by every caller, used ones included.
\* (Current comes first here only to spare TLC the results of stale callers.)
Submit ==
  \E a \in DOMAIN activations, v \in 1 .. version :
    /\ Current(a, v, {"running"})
    /\ \E s \in 1 .. Len(receipts) + 1, r \in Results : SubmitResult(a, v, r, s)

Begin == \E a \in DOMAIN activations, v \in 1 .. version : BeginActivation(a, v)
Redeliver == \E c \in DOMAIN receipts : RedeliverResult(c)
Fail == \E a \in DOMAIN activations, v \in 1 .. version : RuntimeFailed(a, v)

Next == Begin \/ Submit \/ Redeliver \/ Fail \/ CancelRun

Spec == Init /\ [][Next]_vars

-----------------------------------------------------------------------------
DataTypeOK ==
  /\ version \in Nat /\ generation \in Nat /\ returnsUsed \in Nat
  /\ status \in Statuses /\ machine \in Machines
  /\ phase \in Phases /\ visits \in [Phases -> Nat]
  /\ artifacts \in Seq(ArtifactRecord) /\ feedback \in Seq(Nat)
  /\ slots \in [Phases -> Nat] /\ subject \in Nat /\ review \in Nat

\* Every variable holds a value of its kind, and the current activation is one
\* that was allocated.
TypeOK ==
  /\ kind \in {Verified, Recurrent} /\ DataTypeOK
  /\ activations \in Seq(ActivationRecord)
  /\ current \in 0 .. Len(activations)
  /\ receipts \in Seq([request : RequestRecord, response : SnapshotRecord])
  /\ answers \subseteq [command : Nat, response : SnapshotRecord]

\* An active run has exactly one open activation, the current one, and a
\* stopped run has none.
OneOpen ==
  /\ status = "active" <=> current # None
  /\ \A a \in DOMAIN activations :
       activations[a].status \in {"ready", "running"} <=> a = current

\* Every version of an active run is a reservation or the one beginning of it.
EachBegunOnce ==
  status = "active" =>
    version = 2 * Len(activations) - IF activations[current].status = "ready" THEN 1 ELSE 0

\* The kernel is serial: whichever callers raced to begin, submit, fail or
\* cancel, an active run has one open activation and a stopped run none, and
\* every activation is begun exactly once before the next one is reserved.
SerialReservation == OneOpen /\ EachBegunOnce

\* Development: a draft reaches an accepted slot only after a passing review
\* without blocking findings that named that very draft, made in the same
\* generation of the same phase by another actor in another session.
AcceptedWorkWasReviewed ==
  kind = Verified =>
    \A p \in Phases : slots[p] # None =>
      LET author == artifacts[slots[p]].by IN
      \E x \in DOMAIN artifacts :
        LET reviewer == artifacts[x].by IN
        /\ artifacts[x].verdict = "pass" /\ ~artifacts[x].blocking
        /\ artifacts[x].names = slots[p]
        /\ reviewer # author
        /\ activations[reviewer].session # activations[author].session
        /\ activations[reviewer].phase = p /\ activations[author].phase = p
        /\ activations[reviewer].generation = activations[author].generation

\* Whatever was returned, reopened or remediated: the artifacts in the slots
\* form one consistent line of work.  Each was made, complete, by the last
\* visit of its phase from exactly the artifacts that now fill the earlier
\* slots, and no slot after the current phase survives.
CoherentBasis ==
  \A p \in Phases :
    IF p < phase \/ status = "completed"
    THEN LET a == artifacts[slots[p]].by IN
         /\ slots[p] # None
         /\ artifacts[slots[p]].type = "work" /\ ~artifacts[slots[p]].partial
         /\ activations[a].phase = p /\ activations[a].visit = visits[p]
         /\ \A q \in Phases : q < p => activations[a].basis[q] = slots[q]
    ELSE slots[p] = None

\* Receipts and retired activations are one to one: a result is applied
\* exactly once however often and by whomever it is submitted, on the version
\* its caller had seen, the receipt says who did the work, and every delivery
\* is answered with the original state, even after later progress or the end.
ResultsAppliedOnce ==
  /\ \A c \in DOMAIN receipts :
       LET q == receipts[c].request IN
       /\ activations[q.activation].status = "retired"
       /\ activations[q.activation].session = q.session
       /\ receipts[c].response.version = q.version + 1
  /\ \A c, d \in DOMAIN receipts :
       receipts[c].request.activation = receipts[d].request.activation => c = d
  /\ \A a \in DOMAIN activations : activations[a].status = "retired"
       => \E c \in DOMAIN receipts : receipts[c].request.activation = a
  /\ \A m \in answers : m.response = receipts[m.command].response

=============================================================================
