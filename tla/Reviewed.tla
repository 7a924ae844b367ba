------------------------------- MODULE Reviewed -------------------------------
(***************************************************************************)
(* Reviewed runs, and batches of them.  A run is a directory with a        *)
(* journal of events from which its state is projected: a worker's step,   *)
(* its verification, a review by a fresh session or by an operator.  A     *)
(* batch develops its children one after the other under a lock, each when *)
(* the children it depends on are accepted, and retries none.  It has a    *)
(* governing chain, which a controller tells of each run it ends.          *)
(* Controllers are interrupted and killed; the actor of a killed one works *)
(* on.                                                                     *)
(***************************************************************************)
EXTENDS Naturals, Sequences, FiniteSets, SequencesExt

CONSTANTS
  Children,      \* tasks of the batch
  Controllers,   \* processes that run the batch
  NativeIds,     \* identities the client's sessions may have
  MaxResumes     \* bound on the times the batch is taken up

VARIABLES
  depends,     \* the manifest: what each child depends on
  batch,       \* none, making (directory without its file) or frozen
  events,      \* per child, its directory and what its events say
  actors,      \* steps whose actor is alive: child and step
  controller,  \* per controller, where it is
  batchLock,   \* the holder of .execution.lock, or nobody
  resumes,
  abandoned    \* history: accepted children whose controller was killed before it told

reviewedVars ==
  <<depends, batch, events, actors, controller, batchLock, resumes, abandoned>>

Manifest == SetToSeq(Children)
Nobody == "nobody"

(* A controller is a process; the session of a client has a UUID.          *)
ASSUME ReviewedAssumption == Nobody \notin Controllers /\ "operator" \notin NativeIds

Ends == {"passed", "failed"}    \* timed out and interrupted are ways to fail
Unoccupied == [stage |-> "idle"]

(* place: whether the run's directory exists and holds a journal.          *)
(* finished: the last run.finished event; state: what project makes of it  *)
(* and of review.recorded, the later of the two.  told: whether Telos holds *)
(* the run's subgoal complete; telosError: what the journal says of the    *)
(* last attempt to tell it.                                                *)
NoJournal ==
  [place |-> "absent", steps |-> [s \in {"work", "verify", "review"} |-> "none"],
   finished |-> "none", state |-> "unfinished", review |-> "none",
   worker |-> "none", reviewer |-> "none", told |-> FALSE, telosError |-> FALSE]

-----------------------------------------------------------------------------
(* The batch.                                                              *)

ReadyAfter(done) ==
  SelectSeq(Manifest, LAMBDA t : t \notin ToSet(done) /\ depends[t] \subseteq ToSet(done))

(* task_order: the first ready entry of the manifest, again and again.     *)
Order ==
  FoldLeft(LAMBDA order, t : IF ReadyAfter(order) = <<>> THEN order
                             ELSE Append(order, Head(ReadyAfter(order))), <<>>, Manifest)

CreateBatch ==
  /\ batch = "none" /\ Len(Order) = Cardinality(Children)
  /\ batch' = "making"
  /\ UNCHANGED <<depends, events, actors, controller, batchLock, resumes, abandoned>>

FreezeBatch ==
  /\ batch = "making" /\ batch' = "frozen"
  /\ UNCHANGED <<depends, events, actors, controller, batchLock, resumes, abandoned>>

(* batch_status: the state of a child, read afresh from its journal.       *)
AcceptedUnreported(t) ==
  events[t].place = "written" /\ events[t].state = "accepted" /\ events[t].review = "accept"
Accepted(t) ==
  /\ events[t].place = "written" /\ events[t].state = "accepted"
  /\ events[t].review = "accept" /\ ~events[t].telosError

NeedsDispositionOnceOver(t) ==
  events[t].place # "absent" /\ ~Accepted(t) /\ events[t].state # "unfinished"
NeedsDisposition(t) == events[t].place # "absent" /\ ~Accepted(t)

BatchState ==
  IF \E t \in Children : NeedsDisposition(t) THEN "held"
  ELSE IF \A t \in Children : Accepted(t) THEN "complete" ELSE "ready"

ReadyChild(t) == events[t].place = "absent" /\ \A d \in depends[t] : Accepted(d)

FirstReadyChild(t) ==
  \E i \in DOMAIN Order : /\ Order[i] = t /\ ReadyChild(t)
                         /\ \A j \in DOMAIN Order : j < i => ~ReadyChild(Order[j])

Unmoved == <<depends, batch, resumes, abandoned>>

At(c, stage) == controller[c].stage = stage
Child(c) == controller[c].child
Go(c, stage) == controller' = [controller EXCEPT ![c].stage = stage]
Stop(c) ==
  /\ controller' = [controller EXCEPT ![c] = Unoccupied]
  /\ batchLock' = IF batchLock = c THEN Nobody ELSE batchLock

(* resume_batch takes the lock, or says that the batch is already running. *)
TakeBatchLock(c) ==
  /\ At(c, "idle") /\ batch = "frozen" /\ resumes < MaxResumes
  /\ batchLock = Nobody
  /\ batchLock' = c /\ resumes' = resumes + 1
  /\ controller' = [controller EXCEPT ![c] = [stage |-> "choosing", child |-> Manifest[1]]]
  /\ UNCHANGED <<depends, batch, events, actors, abandoned>>

NextChild(c) ==
  /\ At(c, "choosing")
  /\ IF BatchState = "ready" /\ \E t \in Children : FirstReadyChild(t)
       THEN /\ \E t \in Children :
                 /\ FirstReadyChild(t)
                 /\ controller' = [controller EXCEPT ![c] = [stage |-> "creating", child |-> t]]
            /\ UNCHANGED batchLock
       ELSE Stop(c)
  /\ UNCHANGED <<Unmoved, events, actors>>

-----------------------------------------------------------------------------
(* A run.                                                                  *)

(* develop reads the runs of the dependencies once more; create_run makes  *)
(* the directory, which must not be there, and then the journal.           *)
DependenciesStand(t) ==
  \A d \in depends[t] : events[d].state = "accepted" /\ events[d].review # "none"

CreateRun(c) ==
  /\ At(c, "creating")
  /\ IF DependenciesStand(Child(c)) /\ events[Child(c)].place = "absent"
       THEN /\ events' = [events EXCEPT ![Child(c)].place = "bare"]
            /\ Go(c, "journalling") /\ UNCHANGED batchLock
       ELSE Stop(c) /\ UNCHANGED events
  /\ UNCHANGED <<Unmoved, actors>>

CreateJournal(c) ==
  /\ At(c, "journalling")
  /\ events' = [events EXCEPT ![Child(c)].place = "written"]
  /\ Go(c, "work")
  /\ UNCHANGED <<Unmoved, actors, batchLock>>

(* execute_step: the actor runs in a group of its own, which is stopped    *)
(* when the step ends, however it ends.                                    *)
Steps == {"work", "verify", "review"}
InStep == [work |-> "working", verify |-> "verifying", review |-> "reviewing"]
Passed == [work |-> "after work", verify |-> "after verify", review |-> "after review"]

StartStep(c, step) ==
  /\ At(c, step)
  /\ actors' = actors \union {<<Child(c), step>>}
  /\ events' = [events EXCEPT ![Child(c)].steps[step] = "started"]
  /\ Go(c, InStep[step])
  /\ UNCHANGED <<Unmoved, batchLock>>

EndStep(c, step, end) ==
  /\ At(c, InStep[step])
  /\ actors' = actors \ {<<Child(c), step>>}
  /\ events' = [events EXCEPT ![Child(c)].steps[step] = end]
  /\ Go(c, IF end = "passed" THEN Passed[step]
           ELSE IF step = "review" THEN "reporting" ELSE "failing")
  /\ UNCHANGED <<Unmoved, batchLock>>

(* retain_result: a transcript of one session with a completed last turn.  *)
RetainWork(c, native) ==
  /\ At(c, "after work")
  /\ events' = [events EXCEPT ![Child(c)].worker = native]
  /\ \E stage \in {"verify", "awaiting"} : Go(c, stage)
  /\ UNCHANGED <<Unmoved, actors, batchLock>>

FinishRun(t, state) == events' = [events EXCEPT ![t].finished = state, ![t].state = state]

PassVerification(c) ==
  /\ At(c, "after verify") /\ Go(c, "awaiting")
  /\ UNCHANGED <<Unmoved, events, actors, batchLock>>

(* run.finished, with the state of the step that did not pass.             *)
FailRun(c) ==
  /\ At(c, "failing")
  /\ LET steps == events[Child(c)].steps IN
     FinishRun(Child(c), IF steps["verify"] # "none" THEN steps["verify"] ELSE steps["work"])
  /\ Go(c, "reporting")
  /\ UNCHANGED <<Unmoved, actors, batchLock>>

AwaitReview(c) ==
  /\ At(c, "awaiting")
  /\ FinishRun(Child(c), "awaiting_review") /\ Go(c, "review")
  /\ UNCHANGED <<Unmoved, actors, batchLock>>

(* review_run, in one transaction: only a run that awaits a review.        *)
AwaitsReview(t) == events[t].finished = "awaiting_review" /\ events[t].review = "none"

RecordReview(t, verdict, who) ==
  events' = [events EXCEPT ![t].review = verdict, ![t].reviewer = who,
                             ![t].state = IF verdict = "accept" THEN "accepted" ELSE "rejected"]

(* An exception of the program: recorded, and the run is finished by it    *)
(* unless it awaits its review.                                            *)
Raised(t, state) ==
  IF events[t].state = "awaiting_review" THEN UNCHANGED events ELSE FinishRun(t, state)

JudgeReview(c, native) ==
  /\ At(c, "after review")
  /\ \/ /\ native # events[Child(c)].worker /\ AwaitsReview(Child(c))
        /\ \E verdict \in {"accept", "reject"} : RecordReview(Child(c), verdict, native)
     \/ Raised(Child(c), "failed")
  /\ Go(c, "judged")
  /\ UNCHANGED <<Unmoved, actors, batchLock>>

(* An error, or the signal that interrupts the controller, outside a step. *)
RaiseInRun(c) ==
  /\ controller[c].stage \in Steps \union {"after work", "after verify", "awaiting", "failing",
                                       "judged"}
  /\ Raised(Child(c), "failed")
  /\ Go(c, "reporting")
  /\ UNCHANGED <<Unmoved, actors, batchLock>>

(* record_result: the subgoal is complete when the run is accepted, and    *)
(* active when it is not.                                                  *)
Completes(t) == events[t].state = "accepted" /\ events[t].review = "accept"

TellTelos(c) ==
  /\ controller[c].stage \in {"judged", "reporting"}
  /\ events' = [events EXCEPT ![Child(c)].told = Completes(Child(c))]
  /\ Go(c, "telling")
  /\ UNCHANGED <<Unmoved, actors, batchLock>>

(* finish: Telos could not be told, or the journal not say that it was; a  *)
(* run that failed before it was linked to the chain is not reported.      *)
ReportRun(c) ==
  /\ \/ At(c, "telling")
        /\ \E failed \in BOOLEAN : events' = [events EXCEPT ![Child(c)].telosError = failed]
     \/ /\ controller[c].stage \in {"judged", "reporting"}
        /\ \/ events' = [events EXCEPT ![Child(c)].telosError = TRUE]
           \/ events[Child(c)].steps["work"] = "none" /\ UNCHANGED events
  /\ Go(c, "choosing")
  /\ UNCHANGED <<Unmoved, actors, batchLock>>

(* noetic telos record: an operator has a reviewed run told again.         *)
OperatorReports(t) ==
  /\ events[t].review # "none"
  /\ \E noted \in BOOLEAN :
       events' = [events EXCEPT ![t].told = Completes(t),
                                ![t].telosError = IF noted THEN FALSE ELSE @]
  /\ UNCHANGED <<Unmoved, actors, controller, batchLock>>

(* An operator records a review of his own.                                *)
OperatorReviews(t, verdict) ==
  /\ AwaitsReview(t)
  /\ RecordReview(t, verdict, "operator")
  /\ UNCHANGED <<Unmoved, actors, controller, batchLock>>

(* A killed controller leaves its actor and everything else as they are,   *)
(* and so does one that is interrupted while it reports.                   *)
KillController(c) ==
  /\ ~At(c, "idle") /\ Stop(c)
  /\ abandoned' = abandoned \union
       {t \in {Child(c)} : ~At(c, "choosing") /\ Completes(t) /\ ~events[t].told}
  /\ UNCHANGED <<depends, batch, resumes, events, actors>>

(* An orphan actor ends by itself.                                         *)
EndActor(actor) ==
  /\ actor[1] \notin {Child(c) : c \in {d \in Controllers : ~At(d, "idle")}}
  /\ actors' = actors \ {actor}
  /\ UNCHANGED <<Unmoved, events, controller, batchLock>>

ReviewedInit ==
  /\ depends \in [Children -> SUBSET Children]
  /\ batch = "none" /\ events = [t \in Children |-> NoJournal] /\ actors = {}
  /\ controller = [c \in Controllers |-> Unoccupied] /\ batchLock = Nobody /\ resumes = 0
  /\ abandoned = {}

ReviewedNext ==
  \/ CreateBatch \/ FreezeBatch
  \/ \E c \in Controllers :
       \/ TakeBatchLock(c) \/ NextChild(c) \/ CreateRun(c) \/ CreateJournal(c)
       \/ \E step \in Steps : StartStep(c, step) \/ \E end \in Ends : EndStep(c, step, end)
       \/ \E native \in NativeIds : RetainWork(c, native) \/ JudgeReview(c, native)
       \/ PassVerification(c) \/ FailRun(c) \/ AwaitReview(c) \/ RaiseInRun(c)
       \/ TellTelos(c) \/ ReportRun(c) \/ KillController(c)
  \/ \E t \in Children, verdict \in {"accept", "reject"} : OperatorReviews(t, verdict)
  \/ \E t \in Children : OperatorReports(t)
  \/ \E actor \in actors : EndActor(actor)

ReviewedSpec == ReviewedInit /\ [][ReviewedNext]_reviewedVars

-----------------------------------------------------------------------------
(* A child is begun only after every child it depends on was reviewed and  *)
(* accepted, and no failure to tell Telos of it is outstanding, whoever    *)
(* took the batch up and however often (noetic_batch.py:184-228).          *)
DependenciesWereAccepted ==
  \A t \in Children : events[t].place # "absent" =>
    \A d \in depends[t] :
      events[d].state = "accepted" /\ events[d].review = "accept" /\ ~events[d].telosError

(* What a begun child depends on is complete in Telos, but for two cases   *)
(* that leave an accepted run of which Telos was never told and no error   *)
(* to hold the batch on: an operator reviewed it (review_run tells nobody, *)
(* noetic_run.py:244-264), or its controller was killed between the review *)
(* and finish (noetic_develop.py:242-250).                                 *)
DependenciesWereTold ==
  \A t \in Children : events[t].place # "absent" =>
    \A d \in depends[t] :
      events[d].told \/ events[d].reviewer = "operator" \/ d \in abandoned

(* Acceptance is earned, by the journal or by Telos: the worker's step     *)
(* passed, its verification did if there was one, and the review is not    *)
(* the worker's own.                                                       *)
AcceptedWasEarned ==
  \A t \in Children : events[t].state = "accepted" \/ events[t].told =>
    /\ events[t].steps["work"] = "passed" /\ events[t].steps["verify"] \in {"none", "passed"}
    /\ events[t].review # "none" /\ events[t].reviewer # events[t].worker

(* Nothing in a batch is accepted, complete in Telos or built on that was  *)
(* not worked out, verified and reviewed by another; and a controller that *)
(* lives to report an acceptance of its own reviewer has told Telos of it, *)
(* or recorded that it could not, before anything is built on it.          *)
AcceptanceIsEarned == AcceptedWasEarned /\ DependenciesWereAccepted /\ DependenciesWereTold

(* The children share a workspace: no two of them are ever written by at   *)
(* once, though the actor of a killed controller goes on working.          *)
OneWriter ==
  \A a, b \in {x \in actors : x[2] # "review"} : a = b
=============================================================================
