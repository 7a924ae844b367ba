------------------------------- MODULE Release -------------------------------
(***************************************************************************)
(* The release manager of a private home: installation of a release beside *)
(* the others, and the switch of the pointer `current' to an installed one *)
(* (a rollback), in three modes: strict, code only, and code only with the *)
(* live brokers of declared releases left running.  An operation holds the *)
(* maintenance lock throughout; an exception runs its cleanup, a death of  *)
(* the process does not.  Meanwhile brokers of sessions start and end.     *)
(***************************************************************************)
EXTENDS Naturals, FiniteSets

CONSTANTS
  Releases,        \* identities of releases
  BrokerSessions,  \* sessions whose brokers run from a release
  MaxOperations,   \* bound on operations begun
  MaxStarts        \* bound on brokers started

ASSUME ReleaseAssumption ==
  /\ "legacy" \notin Releases /\ "none" \notin Releases
  /\ MaxOperations \in Nat /\ MaxStarts \in Nat

VARIABLES
  installed,    \* per release: absent, partial (being written or removed) or whole
  pointer,      \* the symlink `current': none, legacy or a release
  nextPointer,  \* the symlink `.current-next', left behind by a death
  wrapper,      \* bin/noetic: absent, old (an earlier generation), managed or torn
  report,       \* maintenance-result.json: none, written or torn
  adopted,      \* adoption.json names an external state and a legacy launcher
  brokers,      \* per session: none, ended, unconfirmed, or the live broker
  starts,
  operation,    \* the one in progress, or NoOperation
  ended         \* how the last one ended, and from what

home == <<installed, pointer, nextPointer, wrapper, report, adopted>>
brokerState == <<brokers, starts>>
releaseVars == <<installed, pointer, nextPointer, wrapper, report, adopted, brokers, starts,
                 operation, ended>>

NoOperation == [stage |-> "idle"]
Modes == {"strict", "code", "live"}

Content == [pointer |-> pointer, wrapper |-> wrapper, installed |-> installed]

Running(s) == brokers[s] \notin [state : {"none", "ended", "unconfirmed"}]
RunningSessions == {s \in BrokerSessions : Running(s)}
KnownSessions == {s \in BrokerSessions : brokers[s].state # "none"}

-----------------------------------------------------------------------------
(* The gates.                                                              *)

(* _coexist_plan: every live broker must be of a declared release.         *)
AllDeclared(declared) == \A s \in RunningSessions : brokers[s].release \in declared

Plan == [s \in RunningSessions |-> brokers[s]]

(* _coexist_evidence: the declared releases are installed and intact.      *)
Evident(declared) == \A r \in declared : installed[r] = "whole"

LiveReadyUndeclared(declared) ==
  pointer \in Releases /\ nextPointer = "none" /\ Evident(declared) /\ AllDeclared(declared)

(* _live_code_maintenance *)
LiveReady(declared) ==
  /\ pointer \in Releases /\ nextPointer = "none"
  /\ Evident(declared) /\ AllDeclared(declared)
  /\ pointer \in declared

(* maintenance: with brokers to coexist with, those live now are planned.  *)
LockedReady(declared) == declared # {} => Evident(declared) /\ AllDeclared(declared)

(* _check_code_state: nothing runs or is unverifiable but the planned      *)
(* brokers, which are still the same.                                      *)
CodeStateHolds(o) ==
  /\ \A s \in BrokerSessions : brokers[s].state # "unconfirmed"
  /\ IF o.declared = {} THEN RunningSessions = {}
     ELSE AllDeclared(o.declared) /\ Plan = o.plan

(* _check_live_code_state: and the pointer has not moved.                  *)
LiveStateHolds(o) ==
  /\ \A s \in BrokerSessions : brokers[s].state # "unconfirmed"
  /\ AllDeclared(o.declared) /\ Plan = o.plan
  /\ pointer = o.previous

(* Before an installation, and again after it.                             *)
StateHolds(o) ==
  /\ o.mode = "code" => CodeStateHolds(o)
  /\ o.mode = "live" => LiveStateHolds(o)

-----------------------------------------------------------------------------
(* An operation, up to its first change.                                   *)

Stage(stage) == operation.stage = stage
Proceed(stage) == operation' = [operation EXCEPT !.stage = stage]

(* The maintenance lock is free, the report readable, and the mode's first *)
(* reading of the brokers done.                                            *)
BeginOperation(kind, mode, release, declared) ==
  /\ Stage("idle") /\ ended.count < MaxOperations
  /\ report # "torn"
  /\ mode = "strict" => declared = {}
  /\ IF mode = "live" THEN declared # {} /\ release \in Releases /\ LiveReady(declared)
     ELSE LockedReady(declared)
  /\ operation' = [stage |-> "locking", kind |-> kind, mode |-> mode, release |-> release,
                   declared |-> declared, listed |-> KnownSessions, held |-> {},
                   plan |-> IF declared = {} THEN <<>> ELSE Plan, previous |-> pointer,
                   rewriting |-> FALSE, was |-> Content]
  /\ UNCHANGED <<home, brokerState, ended>>

(* An installation into a home that does not exist yet may adopt a state.  *)
Adopt ==
  /\ Stage("locking") /\ operation.kind = "install" /\ operation.mode = "code"
  /\ operation.declared = {}
  /\ ended.count = 0 /\ pointer = "none" /\ ~adopted
  /\ adopted' = TRUE
  /\ UNCHANGED <<installed, pointer, nextPointer, wrapper, report, brokerState, operation, ended>>

Conclude(outcome) ==
  /\ operation' = NoOperation
  /\ ended' = [count |-> ended.count + 1, outcome |-> outcome, was |-> operation.was,
               release |-> operation.release]

(* Only the very brokers that were recognised keep their locks.            *)
Exempt(o) == DOMAIN o.plan

(* Every listed lock is taken but those of the brokers planned with; live  *)
(* mode takes none.                                                        *)
LockState ==
  /\ Stage("locking")
  /\ LET held == IF operation.mode = "live" THEN {}
                 ELSE operation.listed \ Exempt(operation)
     IN IF held \intersect RunningSessions = {}
          THEN /\ operation' = [operation EXCEPT !.stage = "checking", !.held = held]
               /\ UNCHANGED ended
          ELSE Conclude("failed")
  /\ UNCHANGED <<home, brokerState>>

CanInstall(o) == installed[o.release] = "absent" /\ wrapper \in {"absent", "old", "managed"}

(* A rollback verifies what is installed; legacy needs its binding.        *)
CanSelect(o) == IF o.release = "legacy" THEN adopted ELSE installed[o.release] = "whole"

CheckState ==
  /\ Stage("checking")
  /\ IF StateHolds(operation)
        /\ (IF operation.kind = "install" THEN CanInstall(operation) ELSE CanSelect(operation))
       THEN /\ operation' = [operation EXCEPT !.previous = pointer, !.stage =
                 IF operation.kind = "install" THEN "extracting"
                 ELSE IF operation.release = "legacy" THEN "linking" ELSE "rechecking"]
            /\ UNCHANGED ended
       ELSE Conclude("failed")
  /\ UNCHANGED <<home, brokerState>>

-----------------------------------------------------------------------------
(* An installation writes its release; then both kinds switch.             *)

Extract ==
  /\ Stage("extracting")
  /\ installed' = [installed EXCEPT ![operation.release] = "partial"]
  /\ Proceed("building")
  /\ UNCHANGED <<pointer, nextPointer, wrapper, report, adopted, brokerState, ended>>

(* The environment is built and what is installed compared with the wheel. *)
Build ==
  /\ Stage("building")
  /\ installed' = [installed EXCEPT ![operation.release] = "whole"]
  /\ Proceed("rechecking")
  /\ UNCHANGED <<pointer, nextPointer, wrapper, report, adopted, brokerState, ended>>

Recheck ==
  /\ Stage("rechecking")
  /\ Proceed(IF ~StateHolds(operation) THEN "failing"
             ELSE IF operation.kind = "install" THEN "opening" ELSE "linking")
  /\ UNCHANGED <<home, brokerState, ended>>

(* The wrapper is truncated, then written.                                 *)
OpenWrapper ==
  /\ Stage("opening")
  /\ wrapper' = "torn"
  /\ operation' = [operation EXCEPT !.stage = "wrapping", !.rewriting = TRUE]
  /\ UNCHANGED <<installed, pointer, nextPointer, report, adopted, brokerState, ended>>

WriteWrapper ==
  /\ Stage("wrapping")
  /\ wrapper' = "managed"
  /\ Proceed("linking")
  /\ UNCHANGED <<installed, pointer, nextPointer, report, adopted, brokerState, ended>>

(* _switch: the new link is made beside, never over a leftover one, ...    *)
Link ==
  /\ Stage("linking")
  /\ IF nextPointer = "none"
       THEN /\ nextPointer' = operation.release
            /\ Proceed("replacing")
       ELSE /\ Proceed("failing")
            /\ UNCHANGED nextPointer
  /\ UNCHANGED <<installed, pointer, wrapper, report, adopted, brokerState, ended>>

(* ... and moved over the pointer.                                         *)
Replace ==
  /\ Stage("replacing")
  /\ pointer' = nextPointer /\ nextPointer' = "none"
  /\ Proceed("reporting")
  /\ UNCHANGED <<installed, wrapper, report, adopted, brokerState, ended>>

(* Live mode replaces the report, the others truncate and write it.        *)
OpenReport ==
  /\ Stage("reporting") /\ operation.mode # "live"
  /\ report' = "torn"
  /\ Proceed("reported")
  /\ UNCHANGED <<installed, pointer, nextPointer, wrapper, adopted, brokerState, ended>>

Finish ==
  /\ Stage("reported") \/ (Stage("reporting") /\ operation.mode = "live")
  /\ report' = "written"
  /\ Conclude("done")
  /\ UNCHANGED <<installed, pointer, nextPointer, wrapper, adopted, brokerState>>

-----------------------------------------------------------------------------
(* Failures.                                                               *)

(* Any step may raise.                                                     *)
Raise ==
  /\ operation.stage \in {"locking", "checking", "extracting", "building", "rechecking",
                          "opening", "wrapping", "linking", "replacing", "reporting", "reported"}
  /\ IF operation.stage \in {"locking", "checking"} THEN Conclude("failed")
     ELSE Proceed("failing") /\ UNCHANGED ended
  /\ UNCHANGED <<home, brokerState>>

(* _live_code_switch undoes its own switch before the cleanup.             *)
Linked == nextPointer = operation.release
Switched == pointer = operation.release /\ operation.previous # operation.release
Reverted == operation.mode = "live" => ~Linked /\ ~Switched

RevertLive ==
  /\ Stage("failing") /\ ~Reverted
  /\ pointer' = IF Switched THEN operation.previous ELSE pointer
  /\ nextPointer' = "none"
  /\ UNCHANGED <<installed, wrapper, report, adopted, brokerState, operation, ended>>

CleanUpAlways == operation.kind = "install"

(* Only what `current' does not name is removed; a report that cannot be   *)
(* read raises again before anything is.                                   *)
CleansUp ==
  operation.kind = "install" /\ pointer # operation.release /\ report # "torn"

RestoreWrapper ==
  /\ Stage("failing") /\ Reverted
  /\ IF CleansUp
       THEN /\ wrapper' = IF operation.rewriting THEN operation.was.wrapper ELSE wrapper
            /\ Proceed("removing") /\ UNCHANGED ended
       ELSE Conclude("failed") /\ UNCHANGED wrapper
  /\ UNCHANGED <<installed, pointer, nextPointer, report, adopted, brokerState>>

RemoveRelease ==
  /\ Stage("removing")
  /\ installed' = [installed EXCEPT ![operation.release] = "absent"]
  /\ Conclude("failed")
  /\ UNCHANGED <<pointer, nextPointer, wrapper, report, adopted, brokerState>>

(* The process dies: the lock is released and all stays as it is.          *)
OperationDies ==
  /\ ~Stage("idle")
  /\ \/ /\ Stage("removing")
        /\ installed' = [installed EXCEPT ![operation.release] = "partial"]
     \/ UNCHANGED installed
  /\ Conclude("died")
  /\ UNCHANGED <<pointer, nextPointer, wrapper, report, adopted, brokerState>>

-----------------------------------------------------------------------------
(* The brokers.                                                            *)

(* A launcher runs a broker from the current release, unless the session's *)
(* lock is held.                                                           *)
StartBroker(s) ==
  /\ pointer \in Releases /\ starts < MaxStarts
  /\ brokers[s].state \in {"none", "ended"}
  /\ ~Stage("idle") => s \notin operation.held
  /\ brokers' = [brokers EXCEPT ![s] = [state |-> "owned", release |-> pointer, run |-> starts]]
  /\ starts' = starts + 1
  /\ UNCHANGED <<home, operation, ended>>

EndBroker(s) ==
  /\ Running(s)
  /\ \E state \in {"ended", "unconfirmed"} : brokers' = [brokers EXCEPT ![s] = [state |-> state]]
  /\ UNCHANGED <<home, starts, operation, ended>>

ConfirmBroker(s) ==
  /\ brokers[s].state = "unconfirmed"
  /\ brokers' = [brokers EXCEPT ![s] = [state |-> "ended"]]
  /\ UNCHANGED <<home, starts, operation, ended>>

-----------------------------------------------------------------------------
(* A home that is empty, or that an earlier generation installed.          *)
ReleaseInit ==
  /\ \/ /\ pointer = "none" /\ wrapper = "absent"
        /\ installed = [r \in Releases |-> "absent"]
     \/ /\ wrapper = "old"
        /\ pointer \in Releases
        /\ installed = [r \in Releases |-> IF r = pointer THEN "whole" ELSE "absent"]
  /\ nextPointer = "none" /\ report = "none" /\ adopted = FALSE
  /\ brokers = [s \in BrokerSessions |-> [state |-> "none"]] /\ starts = 0
  /\ operation = NoOperation
  /\ ended = [count |-> 0, outcome |-> "done", release |-> "none", was |-> Content]

ReleaseNext ==
  \/ \E mode \in Modes, declared \in SUBSET Releases :
       \/ \E r \in Releases : BeginOperation("install", mode, r, declared)
       \/ \E r \in Releases \union {"legacy"} : BeginOperation("rollback", mode, r, declared)
  \/ Adopt \/ LockState \/ CheckState
  \/ Extract \/ Build \/ Recheck \/ OpenWrapper \/ WriteWrapper
  \/ Link \/ Replace \/ OpenReport \/ Finish
  \/ Raise \/ RevertLive \/ RestoreWrapper \/ RemoveRelease \/ OperationDies
  \/ \E s \in BrokerSessions : StartBroker(s) \/ EndBroker(s) \/ ConfirmBroker(s)

ReleaseSpec == ReleaseInit /\ [][ReleaseNext]_releaseVars

-----------------------------------------------------------------------------
(* Whatever fails or dies, and when, the pointer names a release that was  *)
(* installed completely, or a launcher that was adopted.                   *)
CurrentIsWhole ==
  /\ pointer \in Releases => installed[pointer] = "whole"
  /\ pointer = "legacy" => adopted

(* An operation that failed left the home as it found it, unless it failed *)
(* behind the switch: then the new release is current, and whole.          *)
FailureIsClean ==
  ended.outcome = "failed" /\ Stage("idle") =>
    \/ Content = ended.was
    \/ /\ pointer = ended.release
       /\ wrapper \in {"managed", ended.was.wrapper}

(* The home is sound wherever an operation fails, raises or is killed      *)
(* (noetic_release.py, the handlers around the switch).                    *)
HomeIsSound == CurrentIsWhole /\ FailureIsClean

(* When the pointer is switched, no broker runs that the operator had not  *)
(* allowed: in live mode every one is of a declared release, in the others *)
(* a session that was there before runs only if it was recognised.         *)
SwitchIsDeclared ==
  [][Stage("replacing") /\ pointer' # pointer =>
       \A s \in RunningSessions :
         IF operation.mode = "live" THEN brokers[s].release \in operation.declared
         ELSE s \in operation.listed => s \in DOMAIN operation.plan]_releaseVars
=============================================================================
