------------------------------ MODULE Harness -------------------------------
(***************************************************************************)
(* The harness driver (scripts/noetic_harness.py) over the controller      *)
(* kernel, with the process ownership it relies on                         *)
(* (scripts/noetic_processes.py).                                          *)
(*                                                                         *)
(* One run directory: the kernel's store, the driver lock, the submission  *)
(* envelopes, the request files and the ownership records survive a crash; *)
(* the driver's program counter and the answer it holds do not.  A drive   *)
(* holds the lock from Drive to Leave; another drive finds it busy and     *)
(* raises, hence does nothing.  Any number of operators would behave as    *)
(* the one here: each call of cancel() is independent of the others.       *)
(*                                                                         *)
(* A step is one process group of an activation: its actor or its          *)
(* verification.                                                           *)
(***************************************************************************)
EXTENDS Controller

CONSTANTS
  RoleResults,  \* results an actor may hand in, acceptable or not
  MaxCrashes    \* bound on driver, operator and host crashes

ASSUME HarnessAssumption ==
  /\ RoleResults \subseteq ResultRecord /\ RoleResults # {}
  /\ MaxCrashes \in Nat

VARIABLES
  drive,            \* where the driver is; "out" when no driver runs
  name,             \* the step it is at: "actor" or "verify"
  held,             \* the answer in the driver's memory
  envelope,         \* submission.json of each activation
  begun,            \* activations with an activation.running event
  proc,             \* process group, ownership record and launches of each step
  cancelRequested,  \* cancel.requested
  pauseRequested,   \* pause.requested
  operator,         \* where a call of cancel() is
  reason,           \* what the harness gave as the reason of the stop
  finished,         \* run.finished records of the journal
  crashes

driver == <<drive, name, held>>
files  == <<envelope, cancelRequested, pauseRequested>>
world  == <<begun, proc>>
told   == <<reason, finished>>
hvars  == <<vars, driver, files, world, operator, told, crashes>>

\* Activations a run can need, whichever pattern it follows.
Numbers == 1 .. (IF Verified \in Kinds THEN 2 * (LastPhase + 1) * (MaxRemediations + MaxReturns + 1)
                 ELSE (LastPhase + 1) * (MaxReturns + 1))
Names   == {"actor", "verify"}
Steps   == Numbers \X Names
Answers == [result : RoleResults, session : 1 .. Len(receipts) + 1]
NoAnswer == [result |-> CHOOSE r \in RoleResults : TRUE, session |-> None]

Groups  == {"none", "live", "members", "gone"}   \* "members": the leader is dead
Places  == {"out", "loop", "admitted", "launch", "spawning", "recording",
            "working", "answered", "deliver", "leaving"}
Reasons == {"none", "error", "refused", "absent", "uncertain", "confirmed", "interrupted"}

step    == <<current, name>>
Living(s) == proc[s].group \in {"live", "members"}

-----------------------------------------------------------------------------
\* Process ownership.

\* inspect() of one step: confirmed only by the recorded identity.
Clean(s) == proc[s].recorded /\ proc[s].group = "gone"

\* process_info: every actor of a begun activation, and every verification
\* whose logs show an attempt.  A confirmable cleanup may still be reported as
\* unconfirmed, when the number of a dead process has been reused.
Inspected == {s \in Steps : s[1] \in begun /\ (s[2] = "verify" => proc[s].opened)}
Confirmable == \A s \in Inspected : Clean(s)
Reports == {sure \in BOOLEAN : sure => Confirmable}

\* reconcile(terminate=True) signals a group only while its recorded leader
\* lives: the group may go, lose just its leader, or stay (a zombie).
Terminate ==
  \E fate \in {"live", "members", "gone"} :
    proc' = [s \in Steps |-> IF proc[s].recorded /\ proc[s].group = "live"
                             THEN [proc[s] EXCEPT !.group = fate] ELSE proc[s]]

\* stop_process: the driver's own child, with its surviving children.
StopLeader == [proc EXCEPT ![step].group = IF @ = "none" THEN @ ELSE "members"]
StopGroup  == [proc EXCEPT ![step].group = IF @ = "none" THEN @ ELSE "gone"]

-----------------------------------------------------------------------------
\* How a drive ends a run.  Every break and exception goes on to the export.

StopFailed(why) ==
  /\ RuntimeFailed(current, version)
  /\ reason' = why
  /\ drive' = "leaving"

CheckpointOnCancel(why) == UNCHANGED <<vars, reason>> /\ drive' = "leaving"

StopCancelled(why) ==
  /\ IF status = "active" THEN CancelRun /\ reason' = why
                          ELSE UNCHANGED <<vars, reason>>
  /\ drive' = "leaving"

\* The body of the drive: the kernel, the journal and the operator rest.
Go(place) == drive' = place /\ UNCHANGED <<vars, told, operator, crashes>>
Rest == UNCHANGED <<finished, operator, crashes>>

Drive ==
  /\ drive = "out" /\ operator \notin {"holding", "sure", "unsure"}
  /\ Go("loop")
  /\ UNCHANGED <<name, held, files, world>>

Stopped ==
  /\ drive = "loop" /\ status # "active"
  /\ Go("leaving")
  /\ UNCHANGED <<name, held, files, world>>

\* A request found at the top of the loop: sweep first, then decide.
CancelFound ==
  /\ drive = "loop" /\ status = "active" /\ cancelRequested
  /\ Terminate /\ UNCHANGED begun
  /\ \E sure \in Reports' :
       IF sure THEN StopCancelled("confirmed") ELSE StopFailed("uncertain")
  /\ UNCHANGED <<name, held, files>> /\ Rest

Uncancelled(s) == /\ drive = "loop" /\ status = "active" /\ ~cancelRequested
                  /\ activations[current].status = s

RelaunchAbandoned ==
  /\ Uncancelled("running") /\ envelope[current] = NoAnswer
  /\ Go("launch") /\ name' = "actor"
  /\ UNCHANGED <<held, files, world>>

\* A running activation nobody finished: never replayed.
Abandon ==
  /\ Uncancelled("running") /\ envelope[current] = NoAnswer
  /\ \E sure \in Reports : StopFailed(IF sure THEN "absent" ELSE "uncertain")
  /\ UNCHANGED <<name, held, files, world>> /\ Rest

Recover ==
  /\ Uncancelled("running") /\ envelope[current] # NoAnswer
  /\ Go("deliver")
  /\ UNCHANGED <<name, held, files, world>>

\* Held by a pause, by max_activations, or for want of a capacity slot: the
\* last two are the caller's and other drivers' doing.
Hold ==
  /\ Uncancelled("ready")
  /\ Go("leaving")
  /\ UNCHANGED <<name, held, files, world>>

AdmitPaused ==
  /\ Uncancelled("ready")
  /\ Go("admitted")
  /\ UNCHANGED <<name, held, files, world>>

Admit ==
  /\ Uncancelled("ready") /\ ~pauseRequested
  /\ Go("admitted")
  /\ UNCHANGED <<name, held, files, world>>

RefuseParticipant ==
  /\ drive = "admitted"
  /\ StopFailed("refused")
  /\ UNCHANGED <<name, held, files, world>> /\ Rest

Start ==
  /\ drive = "admitted"
  /\ BeginActivation(current, version)
  /\ begun' = begun \cup {current}
  /\ drive' = "launch" /\ name' = "actor"
  /\ UNCHANGED <<held, files, proc, operator, told, crashes>>

\* Anything that raises once the activation runs: no baseline, a broken
\* delegation plan, a changed product, an unfinished transcript, a timeout.
\* The child, if any, is stopped on the way out.
StepFails ==
  /\ drive \in {"launch", "spawning", "recording", "working", "answered"}
  /\ StopFailed("error")
  /\ proc' = StopGroup
  /\ UNCHANGED <<name, held, files, begun>> /\ Rest

\* _execute and _rpc_actor: the logs are opened before the cancellation test.
OpenStep ==
  /\ drive = "launch"
  /\ proc' = [proc EXCEPT ![step].opened = TRUE]
  /\ IF cancelRequested
     THEN StopCancelled("interrupted") /\ Rest
     ELSE Go("spawning")
  /\ UNCHANGED <<name, held, files, begun>>

Spawn ==
  /\ drive = "spawning"
  /\ proc' = [proc EXCEPT ![step].group = "live", ![step].launches = @ + 1]
  /\ Go("recording")
  /\ UNCHANGED <<name, held, files, begun>>

SaveOwner ==
  /\ drive = "recording"
  /\ proc' = [proc EXCEPT ![step].recorded = TRUE]
  /\ Go("working")
  /\ UNCHANGED <<name, held, files, begun>>

\* A supplied check that cannot be started is evidence, not an error.
NotStarted ==
  /\ drive \in {"spawning", "recording"} /\ name = "verify"
  /\ proc' = StopGroup
  /\ Go("answered")
  /\ UNCHANGED <<name, held, files, begun>>

ActorAnswers ==
  /\ drive = "working" /\ name = "actor"
  /\ proc' = StopGroup
  /\ held' \in Answers
  /\ Go("answered")
  /\ UNCHANGED <<name, files, begun>>

CheckEnds ==
  /\ drive = "working" /\ name = "verify"
  /\ proc' = StopGroup
  /\ Go("answered")
  /\ UNCHANGED <<name, held, files, begun>>

CancelPolled ==
  /\ drive = "working" /\ cancelRequested
  /\ proc' = StopGroup
  /\ StopCancelled("interrupted")
  /\ UNCHANGED <<name, held, files, begun>> /\ Rest

\* The verification runs after the actor, when the phase and options ask for it.
Verify ==
  /\ drive = "answered" /\ name = "actor"
  /\ name' = "verify"
  /\ Go("launch")
  /\ UNCHANGED <<held, files, world>>

WriteEnvelope ==
  /\ drive = "answered"
  /\ envelope' = [envelope EXCEPT ![current] = held]
  /\ held' = NoAnswer /\ name' = "actor"
  /\ Go("deliver")
  /\ UNCHANGED <<cancelRequested, pauseRequested, world>>

\* submission.json is read back, whoever wrote it, and submitted as it is.
Delivered(r, s) == SubmitResult(current, version, r, s)
Refused(r, s)   == ~(ValidResult(current, r) /\ FreshSession(s))

RetryRefused ==
  /\ Refused(envelope[current].result, envelope[current].session)
  /\ Go("loop")

FailRefused ==
  /\ Refused(envelope[current].result, envelope[current].session)
  /\ StopFailed("refused") /\ Rest

Deliver ==
  /\ drive = "deliver"
  /\ \/ cancelRequested /\ StopCancelled("interrupted") /\ Rest
     \/ /\ ~cancelRequested
        /\ Delivered(envelope[current].result, envelope[current].session)
        /\ drive' = "loop"
        /\ UNCHANGED reason /\ Rest
     \/ ~cancelRequested /\ FailRefused
  /\ UNCHANGED <<name, held, files, world>>

\* SIGTERM or Ctrl-C.  The child is stopped, unless the signal struck inside
\* Popen, before the driver held the process.
Interrupt ==
  /\ drive \notin {"out", "leaving"}
  /\ proc' \in CASE drive = "working"   -> {StopGroup}
                 [] drive = "recording" -> {StopGroup, proc}
                 [] OTHER               -> {proc}
  /\ StopCancelled("interrupted")
  /\ UNCHANGED <<name, held, files, begun>> /\ Rest

Export      == IF status = "active" \/ finished # <<>> THEN finished
                                                        ELSE Append(finished, status)

Forget == drive' = "out" /\ held' = NoAnswer /\ name' = "actor"

Leave ==
  /\ drive = "leaving"
  /\ finished' = Export
  /\ Forget
  /\ UNCHANGED <<vars, files, world, reason, operator, crashes>>

-----------------------------------------------------------------------------
\* cancel(), step by step, beside the driver.

At(place) == operator' = place /\ UNCHANGED <<driver, world, crashes>>

Ask ==
  /\ operator = "idle"
  /\ At(IF status = "active" THEN "saw" ELSE "asked")
  /\ UNCHANGED <<vars, files, told>>

Request ==
  /\ operator = "saw"
  /\ cancelRequested' = TRUE
  /\ At("asked")
  /\ UNCHANGED <<vars, envelope, pauseRequested, told>>

TakeBusyLock == operator = "asked" /\ At("holding") /\ UNCHANGED <<vars, files, told>>

TakeLock ==
  /\ operator = "asked"
  /\ At(IF drive = "out" THEN "holding" ELSE "idle")   \* DriverBusy
  /\ UNCHANGED <<vars, files, told>>

Sweep ==
  /\ operator = "holding"
  /\ Terminate /\ UNCHANGED begun
  /\ \E sure \in Reports' : operator' = IF sure THEN "sure" ELSE "unsure"
  /\ UNCHANGED <<vars, driver, files, told, crashes>>

Conclude ==
  /\ operator \in {"sure", "unsure"}
  /\ IF operator = "sure" /\ status = "active"
     THEN CancelRun /\ reason' = "confirmed"
     ELSE UNCHANGED <<vars, reason>>
  /\ finished' = IF status' = "active" \/ finished # <<>> THEN finished
                                                          ELSE Append(finished, status')
  /\ At("idle")
  /\ UNCHANGED files

\* pause() takes no lock; resume() (and the advance command) does.
Pause ==
  /\ status = "active" /\ ~pauseRequested
  /\ pauseRequested' = TRUE
  /\ UNCHANGED <<vars, driver, envelope, cancelRequested, world, operator, told, crashes>>

Resume ==
  /\ drive = "out" /\ operator \notin {"holding", "sure", "unsure"}
  /\ status = "active" /\ pauseRequested
  /\ pauseRequested' = FALSE
  /\ UNCHANGED <<vars, driver, envelope, cancelRequested, world, operator, told, crashes>>

-----------------------------------------------------------------------------
\* The world: groups end on their own, drivers and hosts die.

GroupEnds ==
  /\ \E s \in Steps, fate \in {"members", "gone"} :
       /\ Living(s) /\ fate # proc[s].group
       /\ proc' = [proc EXCEPT ![s].group = fate]
  /\ UNCHANGED <<vars, driver, files, begun, operator, told, crashes>>

Crash ==
  /\ crashes < MaxCrashes /\ crashes' = crashes + 1
  /\ \/ drive # "out" /\ Forget /\ UNCHANGED operator
     \/ operator # "idle" /\ operator' = "idle" /\ UNCHANGED driver
  /\ UNCHANGED <<vars, files, world, told>>

Reboot ==
  /\ crashes < MaxCrashes /\ crashes' = crashes + 1
  /\ Forget /\ operator' = "idle"
  /\ proc' = [s \in Steps |-> IF Living(s) THEN [proc[s] EXCEPT !.group = "gone"] ELSE proc[s]]
  /\ UNCHANGED <<vars, files, begun, told>>

-----------------------------------------------------------------------------
HarnessInit ==
  /\ Init
  /\ drive = "out" /\ name = "actor" /\ held = NoAnswer
  /\ envelope = [a \in Numbers |-> NoAnswer]
  /\ begun = {}
  /\ proc = [s \in Steps |-> [group |-> "none", opened |-> FALSE,
                              recorded |-> FALSE, launches |-> 0]]
  /\ cancelRequested = FALSE /\ pauseRequested = FALSE
  /\ operator = "idle" /\ reason = "none" /\ finished = <<>>
  /\ crashes = 0

DriverStep ==
  \/ Stopped \/ CancelFound \/ Abandon \/ Recover \/ Hold \/ Admit
  \/ RefuseParticipant \/ Start \/ StepFails \/ OpenStep \/ Spawn \/ SaveOwner
  \/ NotStarted \/ ActorAnswers \/ CheckEnds \/ CancelPolled \/ Verify
  \/ WriteEnvelope \/ Deliver \/ Leave

HarnessNext ==
  \/ Drive \/ DriverStep \/ Interrupt
  \/ Ask \/ Request \/ TakeLock \/ Sweep \/ Conclude \/ Pause \/ Resume
  \/ GroupEnds \/ Crash \/ Reboot

HarnessSpec == HarnessInit /\ [][HarnessNext]_hvars

\* A driver that entered goes on: every wait in it ends by a timeout.
FairHarness == HarnessSpec /\ WF_hvars(DriverStep)

-----------------------------------------------------------------------------
\* Effects are never replayed: whatever crashes and however often the run is
\* reopened, no actor and no verification is launched twice.
NothingReplayed == \A s \in Steps : proc[s].launches <= 1

\* At most one process group of the run lives, and while the run is active it
\* belongs to the running activation: no orphan of an earlier activation is
\* left behind a later one.
OneGroupLives ==
  \A s \in Steps : Living(s) =>
    /\ \A t \in Steps : Living(t) => s = t
    /\ status = "active" => s[1] = current /\ activations[current].status = "running"

\* A cleanup reported as confirmed is real, and stays so until the operator
\* has acted on it: a run stopped for "cleanup confirmed" or "group absent"
\* has no process left.
ConfirmedMeansGone ==
  (reason \in {"confirmed", "absent"} \/ operator = "sure")
    => \A s \in Steps : ~Living(s)

\* What the programs say of the processes of a run is true whenever they can be
\* interrupted (reconcile, noetic_processes.py:96-119; drive and cancel,
\* noetic_harness.py:1043-1202, 1265-1293).
CleanupIsTrue == OneGroupLives /\ ConfirmedMeansGone

\* Every drive ends, whatever the roles answer and the operator asks.
DriveEnds == drive # "out" ~> drive = "out"

AtWork == {"launch", "spawning", "recording", "working", "answered", "deliver"}

\* A cancellation requested while an activation is being worked on stops the
\* run, unless a crash gets in between (and leaves it to the next drive).
CancelIsHonoured ==
  \A c \in 0 .. MaxCrashes :
    (cancelRequested /\ crashes = c /\ drive \in AtWork)
      ~> (status # "active" \/ crashes > c)
=============================================================================
