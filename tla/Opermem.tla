------------------------------- MODULE Opermem -------------------------------
(***************************************************************************)
(* One reviewed operation on the operational memory: a context is read     *)
(* from the native store, an actor works and a reviewer accepts under it,  *)
(* and the contribution is submitted to the native host, once.  A run      *)
(* owned by a discipline is prepared, attached and observed in the ordinal *)
(* domain; one that is not has its link file only.  Answers are lost, the  *)
(* process dies with files half written, others deposit meanwhile, and the *)
(* submission is resumed, even by two processes at once.                   *)
(***************************************************************************)
EXTENDS Naturals

CONSTANTS
  Resumers,     \* processes that resume the submission
  MaxCommits,   \* bound on deposits of other runs
  MaxResumptions    \* bound on resumptions

VARIABLES
  kind,        \* plain, superseding (its deposit closes its own context) or checking
  owned,       \* whether a discipline owns the run
  native,      \* the store: the anchor's version, whether it is current, the cut, the slot
  requests,    \* commands a host has not handled yet
  correspondence, \* correspondence events of the run in the ordinal domain
  files,       \* the run's files: absent, torn, or what they hold
  verdict,     \* the run: open, accepted or rejected
  identity,    \* per step, the native session observed
  telos,       \* the Telos subgoal: active, complete, or an error recorded
  process,     \* per process, where it is and what it read
  commits, resumptions

opermemVars == <<kind, owned, native, requests, correspondence, files, verdict, identity, telos,
                 process, commits, resumptions>>
given == <<kind, owned>>
store == <<native, requests, commits>>
cameTo == <<verdict, identity, telos>>

Task == "task"
Workers == {Task} \union Resumers
Away == [stage |-> "away"]
Nothing == "nothing"
RunFiles == {"preparation", "scope", "link", "pending", "receipt", "evidence", "report"}
Is(p, stage) == process[p].stage = stage
Enter(p, stage) == process' = [process EXCEPT ![p].stage = stage]
Absent(f) == files[f].state = "absent"
Torn(f) == files[f].state = "torn"
Whole(f) == files[f].state = "whole"
Put(f, content) == files' = [files EXCEPT ![f] = [state |-> "whole", holds |-> content]]
Tear(f) == files' = [files EXCEPT ![f] = [state |-> "torn", holds |-> Nothing]]
Establish(event) == correspondence' = correspondence \union {event}

(* Where the task is with an actor, and what is recorded of it.            *)
Steps == {"work", "review"}
Acting == [work |-> "acting work", review |-> "acting review"]
Acted == [work |-> "acted work", review |-> "acted review"]
Reserved == [work |-> "participant work", review |-> "participant review"]
Opened == [work |-> "session work", review |-> "session review"]
Finished == [work |-> "closed work", review |-> "closed review"]
Broken == [work |-> "failed work", review |-> "failed review"]
Unnamed == [work |-> "unavailable work", review |-> "unavailable review"]
SessionOf == [work |-> "that of work", review |-> "that of review"]

-----------------------------------------------------------------------------
(* The native store and its host (external).                               *)

(* The context of the run's purpose: unavailable when the anchor is not    *)
(* current, and another with every change of what it supplies.             *)
NativeContext == [version |-> native.version, cut |-> native.cut]
ParentIsLive == native.current
ContextIsAvailable == ParentIsLive

NoSlot == [outcome |-> "none", version |-> 0]
Slot == native.slot

(* native_accepted_receipt: the slot of the run's key, if accepted.        *)
Committed == Slot.outcome = "accepted"

(* A command commits once, at the version it expects; what it came to is   *)
(* kept under its key, and the same command again is told that.            *)
Handle(request) ==
  /\ requests' = requests \ {request}
  /\ \/ /\ Slot.outcome # "none"
        /\ process' = [process EXCEPT ![request.by] =
             IF @.stage = "awaiting" THEN [@ EXCEPT !.stage = "answered",
               !.answer = [class |-> "replay", accepted |-> Committed]] ELSE @]
        /\ UNCHANGED native
     \/ /\ Slot.outcome = "none" /\ request.version = native.version /\ native.current
        /\ native' = [native EXCEPT !.slot = [outcome |-> "accepted", version |-> request.version],
                                    !.cut = @ + 1, !.current = kind # "superseding"]
        /\ process' = [process EXCEPT ![request.by] =
             IF @.stage = "awaiting" THEN [@ EXCEPT !.stage = "answered",
               !.answer = [class |-> "success", accepted |-> TRUE]] ELSE @]
     \/ /\ Slot.outcome = "none"
        /\ native' \in {native, [native EXCEPT !.slot = [outcome |-> "rejected",
                                                         version |-> request.version]]}
        /\ process' = [process EXCEPT ![request.by] =
             IF @.stage = "awaiting" THEN [@ EXCEPT !.stage = "failed"] ELSE @]
  /\ UNCHANGED <<given, correspondence, files, cameTo, commits, resumptions>>

(* Another run deposits: the cut moves, and perhaps the anchor with it.    *)
OtherDeposit ==
  /\ commits < MaxCommits /\ commits' = commits + 1
  /\ native' \in {[native EXCEPT !.cut = @ + 1],
                  [native EXCEPT !.cut = @ + 1, !.version = @ + 1],
                  [native EXCEPT !.cut = @ + 1, !.current = FALSE]}
  /\ UNCHANGED <<given, requests, correspondence, files, cameTo, process, resumptions>>

-----------------------------------------------------------------------------
(* Preparation, and the run.                                               *)


PrepareExecution ==
  /\ Is(Task, "preparing") /\ owned
  /\ Establish("execution") /\ Enter(Task, "writing preparation")
  /\ UNCHANGED <<given, store, files, cameTo, resumptions>>

WritePreparation ==
  /\ Is(Task, "writing preparation")
  /\ Put("preparation", Nothing) /\ Enter(Task, "requesting")
  /\ UNCHANGED <<given, store, correspondence, cameTo, resumptions>>

RequestNative ==
  /\ Is(Task, "requesting")
  /\ Establish("requested") /\ Enter(Task, "retrieving")
  /\ UNCHANGED <<given, store, files, cameTo, resumptions>>

PrepareUnowned ==
  /\ Is(Task, "preparing") /\ ~owned /\ Enter(Task, "retrieving")
  /\ UNCHANGED <<given, store, correspondence, files, cameTo, resumptions>>

(* retrieve and validate_context; a check's command is run and captured    *)
(* under this context before any actor.                                    *)
RetrieveContext ==
  /\ Is(Task, "retrieving") /\ ContextIsAvailable
  /\ process' = [process EXCEPT ![Task].stage = IF kind = "checking" THEN "capturing"
                                                ELSE "attaching", ![Task].context = NativeContext]
  /\ UNCHANGED <<given, store, correspondence, files, cameTo, resumptions>>

CaptureEvidence ==
  /\ Is(Task, "capturing")
  /\ Put("evidence", [current |-> TRUE]) /\ Enter(Task, "attaching")
  /\ UNCHANGED <<given, store, correspondence, cameTo, resumptions>>

(* revalidate: what the check has read is as it was when it was captured.  *)
EvidenceIsCurrent ==
  kind = "checking" => Whole("evidence") /\ files["evidence"].holds.current

(* Somebody edits what the check has read.                                 *)
EditSources ==
  /\ kind = "checking" /\ Whole("evidence") /\ files["evidence"].holds.current
  /\ Put("evidence", [current |-> FALSE])
  /\ UNCHANGED <<given, store, correspondence, cameTo, process, resumptions>>

(* run_created: the attachment is recorded, then copied into the run.      *)
Attach ==
  /\ Is(Task, "attaching")
  /\ IF owned THEN Establish("attached") /\ Enter(Task, "writing scope")
     ELSE UNCHANGED correspondence /\ Enter(Task, Acting["work"])
  /\ UNCHANGED <<given, store, files, cameTo, resumptions>>

WriteScope ==
  /\ Is(Task, "writing scope")
  /\ Put("scope", Nothing) /\ Enter(Task, "declaring")
  /\ UNCHANGED <<given, store, correspondence, cameTo, resumptions>>

DeclareScope ==
  /\ Is(Task, "declaring")
  /\ Establish("declared") /\ Enter(Task, "writing link")
  /\ UNCHANGED <<given, store, files, cameTo, resumptions>>

(* The link binds the run to its context.  An unowned run gets it when the *)
(* review is over.                                                         *)
WriteLink ==
  /\ Is(Task, "writing link")
  /\ Put("link", process[Task].context)
  /\ Enter(Task, IF owned THEN "binding" ELSE "ending")
  /\ UNCHANGED <<given, store, correspondence, cameTo, resumptions>>

BindNative ==
  /\ Is(Task, "binding")
  /\ Establish("native-bound") /\ Enter(Task, Acting["work"])
  /\ UNCHANGED <<given, store, files, cameTo, resumptions>>

-----------------------------------------------------------------------------
(* The actors.                                                             *)

(* _validate_run and owned_run: what was recorded is all there and agrees  *)
(* with the files.                                                         *)
Attached == {"execution", "attached", "declared"} \subseteq correspondence /\ Whole("scope")
RunIsOwned == Attached /\ "native-bound" \in correspondence /\ Whole("link") /\ Whole("preparation")

(* before_actor: a participant is reserved, the reviewer only after the    *)
(* worker's session was observed.                                          *)
ReserveActor(step) ==
  /\ Is(Task, Acting[step])
  /\ owned => /\ RunIsOwned
              /\ step = "review" => Opened["work"] \in correspondence
  /\ IF owned THEN Establish(Reserved[step]) ELSE UNCHANGED correspondence
  /\ Enter(Task, Acted[step])
  /\ UNCHANGED <<given, store, files, cameTo, resumptions>>

(* The actor's stream names one native session, or none to speak of.       *)
(* after_actor opens it in the domain and closes it as completed or        *)
(* failed; a reviewer in the worker's session is no participant.           *)
Sessions(step) == {"none", SessionOf["work"], SessionOf[step]}

Genuine(step, session) ==
  session # "none" /\ (step = "review" => session # identity["work"])

ObserveActor(step, session, completed, formed) ==
  /\ Is(Task, Acted[step])
  /\ IF step = "work" /\ completed /\ Genuine(step, session) /\ kind # "checking"
       THEN Put("report", [formed |-> formed]) ELSE formed /\ UNCHANGED files
  /\ identity' = [identity EXCEPT ![step] = IF Genuine(step, session) THEN session ELSE @]
  /\ correspondence' = IF ~owned THEN correspondence ELSE correspondence \union
       (IF ~Genuine(step, session) THEN {Unnamed[step]}
        ELSE {Opened[step], IF completed THEN Finished[step] ELSE Broken[step]})
  /\ Enter(Task, IF ~(completed /\ Genuine(step, session)) THEN "unaccepted"
                 ELSE IF step = "review" THEN "judging"
                 ELSE IF EvidenceIsCurrent THEN Acting["review"] ELSE "unaccepted")
  /\ UNCHANGED <<given, store, verdict, telos, resumptions>>

JudgeRun ==
  /\ Is(Task, "judging")
  /\ verdict' \in {"accepted", "rejected"}
  /\ Enter(Task, IF owned THEN "ending" ELSE "writing link")
  /\ UNCHANGED <<given, store, correspondence, files, identity, telos, resumptions>>

FailToWork ==
  /\ Is(Task, "unaccepted") /\ verdict' = "rejected"
  /\ Enter(Task, IF owned THEN "ending" ELSE "writing link")
  /\ UNCHANGED <<given, store, correspondence, files, identity, telos, resumptions>>

(* _owned_gate with participants: both completed in sessions of their own. *)
ParticipantsAreGenuine == {Finished["work"], Finished["review"]} \subseteq correspondence
Gate == owned => RunIsOwned /\ ParticipantsAreGenuine

(* The contribution is read from the worker's report, where it stands once *)
(* and in its fields; that of a check is the captured evidence.            *)
ContributionIsFormed ==
  kind = "checking" \/ (Whole("report") /\ files["report"].holds.formed)

EndTask ==
  /\ Is(Task, "ending")
  /\ Enter(Task, IF verdict = "accepted" /\ Gate /\ EvidenceIsCurrent /\ ContributionIsFormed
                 THEN "rereading" ELSE "reporting")
  /\ UNCHANGED <<given, store, correspondence, files, cameTo, resumptions>>

-----------------------------------------------------------------------------
(* Submission by the task.                                                 *)

(* The context must be the one the actor saw, to the letter.               *)
AvailableContext(p) == ContextIsAvailable
SameContext(p) == ContextIsAvailable /\ NativeContext = process[p].context

(* submit: the context again, and the command made from it.                *)
RereadContext ==
  /\ Is(Task, "rereading")
  /\ process' = [process EXCEPT ![Task] =
       IF SameContext(Task) /\ EvidenceIsCurrent
         THEN [@ EXCEPT !.stage = "writing pending", !.context = NativeContext]
       ELSE [@ EXCEPT !.stage = "failed"]]
  /\ UNCHANGED <<given, store, correspondence, files, cameTo, resumptions>>

(* The command is kept on disk before it is sent; never over another.      *)
WritePending(p) ==
  /\ Is(p, "writing pending")
  /\ IF Absent("pending")
       THEN Put("pending", process[p].context) /\ Enter(p, "sending")
       ELSE UNCHANGED files /\ Enter(p, "failed")
  /\ UNCHANGED <<given, store, correspondence, cameTo, resumptions>>

(* The command expects the version its context was read at.                *)
CommandFor(p) == [by |-> p, version |-> process[p].context.version]

(* exchange *)
Send(p) ==
  /\ Is(p, "sending")
  /\ requests' = requests \union {CommandFor(p)}
  /\ Enter(p, "awaiting")
  /\ UNCHANGED <<given, native, commits, correspondence, files, cameTo, resumptions>>

(* Ten seconds without an answer, or its end: the host is made to end,     *)
(* whether it has handled the command or not.                              *)
LoseAnswer(p) ==
  /\ Is(p, "awaiting") /\ Enter(p, "failed")
  /\ requests' = {r \in requests : r.by # p}
  /\ UNCHANGED <<given, native, commits, correspondence, files, cameTo, resumptions>>

(* A resumption that found the deposit must be told of that very deposit.  *)
AnswerIsExpected(p) == process[p].committed =>
  process[p].answer.class = "replay" /\ process[p].answer.accepted

WriteReceipt(p) ==
  /\ Is(p, "answered")
  /\ IF AnswerIsExpected(p)
       THEN Put("receipt", process[p].answer) /\ Enter(p, "retaining")
       ELSE UNCHANGED files /\ Enter(p, "failed")
  /\ UNCHANGED <<given, store, correspondence, cameTo, resumptions>>

(* _retain_receipt: the receipt of an owned run must be the slot's.        *)
RetainReceipt(p) ==
  /\ Is(p, "retaining")
  /\ IF ~owned THEN UNCHANGED correspondence /\ Enter(p, "reporting")
     ELSE IF Gate /\ Whole("receipt") /\ ("native-receipt" \in correspondence \/ Committed)
       THEN Establish("native-receipt") /\ Enter(p, "reporting")
     ELSE UNCHANGED correspondence /\ process' = [process EXCEPT ![p] = Away]
  /\ UNCHANGED <<given, store, files, cameTo, resumptions>>

(* The task reports a failed submission; a resumption just ends.           *)
FailSubmission(p) ==
  /\ Is(p, "failed")
  /\ IF p = Task THEN Enter(p, "reporting") ELSE process' = [process EXCEPT ![p] = Away]
  /\ UNCHANGED <<given, store, correspondence, files, cameTo, resumptions>>

(* sync_telos and record_result: what the run came to, read ...            *)
ReceiptEstablishes == Whole("receipt") /\ files["receipt"].holds.accepted
ReceiptIsThere == Whole("receipt")

Disposition ==
  IF (owned /\ ~RunIsOwned) \/ Torn("link") \/ Torn("receipt") THEN "error"
  ELSE IF ReceiptIsThere /\ ~ReceiptEstablishes THEN "error"
  ELSE IF ReceiptEstablishes /\ verdict = "accepted" THEN "complete"
  ELSE "active"

ReadDisposition(p) ==
  /\ Is(p, "reporting")
  /\ process' = [process EXCEPT ![p].stage = "synchronizing", ![p].disposition = Disposition]
  /\ UNCHANGED <<given, store, correspondence, files, cameTo, resumptions>>

(* ... and then told to Telos.                                             *)
SyncTelos(p) ==
  /\ Is(p, "synchronizing")
  /\ telos' = process[p].disposition
  /\ process' = [process EXCEPT ![p] = Away]
  /\ UNCHANGED <<given, store, correspondence, files, verdict, identity, resumptions>>

-----------------------------------------------------------------------------
(* Resumption.                                                             *)

Worker(stage) == [stage |-> stage, context |-> Nothing, committed |-> FALSE,
                  answer |-> Nothing, disposition |-> Nothing]

(* resume_run, up to the host: an accepted run, with its link; a receipt   *)
(* that is there is only checked again, and a run that is not owned must   *)
(* have its command on disk.                                               *)
Resume(p) ==
  /\ p \in Resumers /\ Is(p, "away") /\ resumptions < MaxResumptions
  /\ Whole("link") /\ Gate /\ verdict = "accepted" /\ ContributionIsFormed
  /\ ~Torn("receipt") /\ ~Torn("pending")
  /\ owned \/ ~Absent("pending") \/ ~Absent("receipt")
  /\ resumptions' = resumptions + 1
  /\ process' = [process EXCEPT ![p] =
       [Worker(IF ~Absent("receipt") THEN "retaining"
               ELSE IF Absent("pending") THEN "rewriting" ELSE "looking")
          EXCEPT !.context = files["link"].holds]]
  /\ UNCHANGED <<given, store, correspondence, files, cameTo>>

(* The command of an owned run is made again from its link.                *)
RewritePending(p) ==
  /\ Is(p, "rewriting")
  /\ CASE Absent("pending") -> Put("pending", process[p].context) /\ Enter(p, "looking")
       [] Torn("pending") -> UNCHANGED files /\ Enter(p, "failed")
       [] OTHER -> UNCHANGED files /\ Enter(p, "looking")
  /\ UNCHANGED <<given, store, correspondence, cameTo, resumptions>>

(* A superseding deposit is looked for before its context, which it may    *)
(* have closed.                                                            *)
LookForDeposit(p) ==
  /\ Is(p, "looking")
  /\ process' = [process EXCEPT
       ![p].stage = IF kind = "superseding" /\ Committed THEN "sending" ELSE "comparing",
       ![p].committed = kind = "superseding" /\ Committed]
  /\ UNCHANGED <<given, store, correspondence, files, cameTo, resumptions>>

(* A context that has moved leaves only the replay of what was committed.  *)
CompareContext(p) ==
  /\ Is(p, "comparing")
  /\ process' = [process EXCEPT ![p] =
       IF SameContext(p) THEN [@ EXCEPT !.stage = "sending"]
       ELSE IF ContextIsAvailable /\ Committed
         THEN [@ EXCEPT !.stage = "sending", !.committed = TRUE]
       ELSE [@ EXCEPT !.stage = "failed"]]
  /\ UNCHANGED <<given, store, correspondence, files, cameTo, resumptions>>

-----------------------------------------------------------------------------
(* Deaths.                                                                 *)

Written(stage) ==
  CASE stage = "writing preparation" -> {"preparation"}
    [] stage = "writing scope" -> {"scope"}
    [] stage = "writing link" -> {"link"}
    [] stage \in {"writing pending", "rewriting"} -> {"pending"}
    [] stage = "answered" -> {"receipt"}
    [] OTHER -> {}

(* A process dies anywhere, perhaps halfway through its file; its host     *)
(* goes on with a command it was sent.                                     *)
WorkerDies(p) ==
  /\ ~Is(p, "away")
  /\ process' = [process EXCEPT ![p] = Away]
  /\ \/ UNCHANGED files
     \/ \E f \in Written(process[p].stage) : Absent(f) /\ Tear(f)
  /\ UNCHANGED <<given, store, correspondence, cameTo, resumptions>>

(* A host whose process is gone ends without having handled the command.   *)
HostEnds(request) ==
  /\ ~Is(request.by, "awaiting")
  /\ requests' = requests \ {request}
  /\ UNCHANGED <<given, native, commits, correspondence, files, cameTo, process, resumptions>>

OpermemInit ==
  /\ kind \in {"plain", "superseding", "checking"} /\ owned \in BOOLEAN
  /\ native = [version |-> 1, current |-> TRUE, cut |-> 1, slot |-> NoSlot]
  /\ requests = {} /\ correspondence = {}
  /\ files = [f \in RunFiles |-> [state |-> "absent", holds |-> Nothing]]
  /\ verdict = "open" /\ telos = "active"
  /\ identity = [step \in Steps |-> "none"]
  /\ process = [p \in Workers |-> IF p = Task THEN Worker("preparing") ELSE Away]
  /\ commits = 0 /\ resumptions = 0

OpermemNext ==
  \/ PrepareExecution \/ WritePreparation \/ RequestNative \/ PrepareUnowned
  \/ RetrieveContext \/ CaptureEvidence
  \/ Attach \/ WriteScope \/ DeclareScope \/ WriteLink \/ BindNative
  \/ \E step \in Steps :
       \/ ReserveActor(step)
       \/ \E session \in Sessions(step), completed, formed \in BOOLEAN :
            ObserveActor(step, session, completed, formed)
  \/ JudgeRun \/ FailToWork \/ EndTask \/ RereadContext
  \/ \E p \in Workers :
       \/ WritePending(p) \/ Send(p) \/ LoseAnswer(p) \/ WriteReceipt(p) \/ RetainReceipt(p)
       \/ FailSubmission(p) \/ ReadDisposition(p) \/ SyncTelos(p)
       \/ Resume(p) \/ RewritePending(p) \/ LookForDeposit(p) \/ CompareContext(p)
       \/ WorkerDies(p)
  \/ \E request \in requests : Handle(request) \/ HostEnds(request)
  \/ OtherDeposit \/ EditSources

OpermemSpec == OpermemInit /\ [][OpermemNext]_opermemVars

-----------------------------------------------------------------------------
(* What is deposited was worked out and accepted under the very context it *)
(* is deposited in, by two sessions of the run's own when it is owned,     *)
(* however often and by whomever the submission was taken up.              *)
DepositIsWitnessed ==
  Committed =>
    /\ verdict = "accepted" /\ Slot.version = files["link"].holds.version
    /\ ContributionIsFormed
    /\ identity["work"] # identity["review"]
    /\ owned => RunIsOwned /\ ParticipantsAreGenuine

(* Telos is told that the subgoal is complete, and the domain of the       *)
(* receipt, only of a deposit the native store has committed.              *)
TelosIsEarned ==
  telos = "complete" \/ "native-receipt" \in correspondence => Committed /\ verdict = "accepted"

(* A contribution, in the native store as in what Telos was told of it, is *)
(* the one accepted piece of work, however it was interrupted and resumed  *)
(* (noetic_opermem.py:546-627, :846-894).                                  *)
ContributionIsEarned == DepositIsWitnessed /\ TelosIsEarned
=============================================================================
