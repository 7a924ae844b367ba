------------------------------- MODULE Archive -------------------------------
(***************************************************************************)
(* The offline maintenance of one run: export of a snapshot, its import    *)
(* under a new root, and the protection of the run's files.  An export     *)
(* holds both locks of a harness run; a reviewed run's program takes none, *)
(* nor does a protection.  Drivers are launched, killed and started over,  *)
(* their actors outlive them, operators review, and maintenance dies       *)
(* anywhere.                                                               *)
(***************************************************************************)
EXTENDS Naturals, Sequences

CONSTANTS
  LastTurn,       \* activations of a harness run
  MaxMaintenance  \* bound on maintenance operations

VARIABLES
  program,     \* what drives the run: harness or reviewed
  history,     \* events.sqlite3: steps finished, whether one is open, the run's state
  authority,   \* controller.sqlite3: activations done and status; status none without one
  kept,        \* the run's files: turns with a result, and the actor's group by its record
  modes,       \* per part of the run, whether its files are broad or private
  locks,       \* application-driver.lock and driver.lock: who holds each
  driver,      \* where the program that drives the run is
  moments,     \* what the parts of the run have been at one time or other
  bundle,      \* the archive: absent, torn, or whole with what it holds
  restored,    \* the new root: absent, or what was restored
  inventory,   \* what the last protection reported
  maintainer,    \* where the maintenance operation is, and what it has read
  undertaken

theRun == <<history, authority, kept>>
results == <<bundle, restored, inventory>>
archiveVars == <<program, theRun, modes, locks, driver, moments, results, maintainer, undertaken>>
maintenance == <<program, results, maintainer, undertaken>>

Parts == <<"files", "controller", "events">>
Contents == [events |-> history, controller |-> authority, files |-> kept]
Unread == [events |-> "unread", controller |-> "unread", files |-> "unread"]
Free(lock) == locks[lock] = "free"
Released(who) == [l \in DOMAIN locks |-> IF locks[l] = who THEN "free" ELSE locks[l]]
Seen == moments' = moments \union {Contents'}
Narrow(parts, mode) == modes' = [p \in DOMAIN modes |-> IF p \in parts THEN mode ELSE modes[p]]

-----------------------------------------------------------------------------
(* A harness run and its driver.                                           *)

(* The application launches a driver that inherits its lock.               *)
LaunchDriver ==
  /\ driver = "away" /\ authority.status = "ready" /\ Free("application")
  /\ locks' = [locks EXCEPT !["application"] = "driver"] /\ driver' = "launched"
  /\ UNCHANGED <<theRun, modes, maintenance>>

TakeDriverLock ==
  /\ program = "harness" /\ driver \in {"away", "launched"}
  /\ IF Free("driver")
       THEN locks' = [locks EXCEPT !["driver"] = "driver"] /\ driver' = "driving"
       ELSE locks' = Released("driver") /\ driver' = "away"
  /\ UNCHANGED <<theRun, modes, maintenance>>

(* A reserved activation is begun; its actor's group is recorded and then  *)
(* its step, first its start and last its end.                             *)
TakeReservation ==
  /\ driver = "driving" /\ authority.status = "ready" /\ driver' = "begun"
  /\ authority' = [authority EXCEPT !.status = "running"]
  /\ kept' = [kept EXCEPT !.group = "unknown"]
  /\ UNCHANGED <<history, modes, locks, maintenance>>

SpawnActor ==
  /\ driver = "begun" /\ driver' = "spawned"
  /\ kept' = [kept EXCEPT !.group = "alive"]
  /\ UNCHANGED <<history, authority, modes, locks, maintenance>>

RecordStart ==
  /\ driver = "spawned" /\ driver' = "acting"
  /\ history' = [history EXCEPT !.open = TRUE]
  /\ UNCHANGED <<authority, kept, modes, locks, maintenance>>

ActorEnds ==
  /\ kept.group = "alive" /\ kept' = [kept EXCEPT !.group = "gone"]
  /\ UNCHANGED <<history, authority, modes, locks, driver, maintenance>>

RecordFinish ==
  /\ driver = "acting" /\ kept.group = "gone" /\ driver' = "ended"
  /\ history' = [history EXCEPT !.open = FALSE, !.steps = @ + 1]
  /\ UNCHANGED <<authority, kept, modes, locks, maintenance>>

(* The result is kept in its envelope, and only then submitted.            *)
KeepResult ==
  /\ driver = "ended"
  /\ \/ /\ kept' = [kept EXCEPT !.turns = @ + 1] /\ driver' = "submitting"
        /\ UNCHANGED authority
     \/ /\ authority' = [authority EXCEPT !.status = "failed"] /\ driver' = "leaving"
        /\ UNCHANGED kept
  /\ UNCHANGED <<history, modes, locks, maintenance>>

SubmitEnvelope ==
  /\ driver = "submitting" /\ driver' = "driving"
  /\ authority' = [turn |-> authority.turn + 1,
                   status |-> IF authority.turn + 1 = LastTurn THEN "completed" ELSE "ready"]
  /\ UNCHANGED <<history, kept, modes, locks, maintenance>>

(* A running activation found on reopening is submitted when its envelope  *)
(* is there, and else is failed: nothing is replayed.                      *)
ReopenActivation ==
  /\ driver = "driving" /\ authority.status = "running"
  /\ IF kept.turns > authority.turn THEN driver' = "submitting" /\ UNCHANGED authority
     ELSE driver' = "leaving" /\ authority' = [authority EXCEPT !.status = "failed"]
  /\ UNCHANGED <<history, kept, modes, locks, maintenance>>

InterruptDriver ==
  /\ driver \in {"driving", "submitting"} /\ authority.status \in {"ready", "running"}
  /\ authority' = [authority EXCEPT !.status = "cancelled"] /\ driver' = "leaving"
  /\ UNCHANGED <<history, kept, modes, locks, maintenance>>

(* Paused, out of budget, or with nothing left to drive.                   *)
LeaveRun ==
  /\ driver = "leaving" \/ (driver = "driving" /\ authority.status # "running")
  /\ driver' = "away" /\ locks' = Released("driver")
  /\ UNCHANGED <<theRun, modes, maintenance>>

DriverIsKilled ==
  /\ driver # "away" /\ driver' = "away" /\ locks' = Released("driver")
  /\ UNCHANGED <<theRun, modes, maintenance>>

Confirmed(group) == group \in {"none", "gone"}

(* cancel, when no driver is there: the group is made to end first.        *)
CancelHarnessRun ==
  /\ program = "harness" /\ Free("driver")
  /\ kept' = [kept EXCEPT !.group = IF @ = "alive" THEN "gone" ELSE @]
  /\ authority' = [authority EXCEPT !.status =
       IF @ \in {"ready", "running"} /\ Confirmed(kept'.group) THEN "cancelled" ELSE @]
  /\ UNCHANGED <<history, modes, locks, driver, maintenance>>

-----------------------------------------------------------------------------
(* A reviewed run: work, its end, the reviewer's step, the review.         *)

OpenStep ==
  /\ program = "reviewed" /\ driver = "between" /\ driver' = "stepping"
  /\ <<history.steps, history.state>> \in {<<0, "unfinished">>, <<1, "awaiting_review">>}
  /\ history' = [history EXCEPT !.open = TRUE]
  /\ UNCHANGED <<authority, kept, modes, locks, maintenance>>

CloseStep ==
  /\ driver = "stepping" /\ driver' = "retaining"
  /\ history' = [history EXCEPT !.open = FALSE, !.steps = @ + 1]
  /\ UNCHANGED <<authority, kept, modes, locks, maintenance>>

(* The report is written with the modes the umask gives it.                *)
RetainReport ==
  /\ driver = "retaining" /\ driver' = "between"
  /\ kept' = [kept EXCEPT !.turns = @ + 1] /\ Narrow({"files"}, "broad")
  /\ UNCHANGED <<history, authority, locks, maintenance>>

FinishWork ==
  /\ driver = "between" /\ history.steps = 1 /\ history.state = "unfinished"
  /\ \E state \in {"awaiting_review", "failed"} : history' = [history EXCEPT !.state = state]
  /\ UNCHANGED <<authority, kept, modes, locks, driver, maintenance>>

(* review_run: the program's own, or an operator's while it is at work.     *)
ReviewRun ==
  /\ history.state = "awaiting_review"
  /\ \E state \in {"accepted", "rejected"} : history' = [history EXCEPT !.state = state]
  /\ UNCHANGED <<authority, kept, modes, locks, driver, maintenance>>

RunSteps ==
  \/ LaunchDriver \/ TakeDriverLock \/ TakeReservation \/ SpawnActor \/ RecordStart
  \/ ActorEnds \/ RecordFinish \/ KeepResult \/ SubmitEnvelope \/ ReopenActivation
  \/ InterruptDriver \/ LeaveRun \/ DriverIsKilled \/ CancelHarnessRun
  \/ OpenStep \/ CloseStep \/ RetainReport \/ FinishWork \/ ReviewRun

-----------------------------------------------------------------------------
(* Maintenance.                                                            *)

NoMaintenance == [stage |-> "idle", held |-> FALSE, part |-> 1,
                  first |-> Unread, last |-> Unread, exposed |-> {}]
Stands(stage) == maintainer.stage = stage
Onward(stage) == maintainer' = [maintainer EXCEPT !.stage = stage]
Abandon == maintainer' = NoMaintenance /\ locks' = Released("maintainer")
Others == <<program, theRun, driver, moments>>

BeginMaintenance(stage, held) ==
  /\ Stands("idle") /\ undertaken < MaxMaintenance /\ undertaken' = undertaken + 1
  /\ maintainer' = [NoMaintenance EXCEPT !.stage = stage, !.held = held]
  /\ UNCHANGED <<Others, modes, locks, results>>

BeginExport == \E held \in BOOLEAN : BeginMaintenance("locking application", held)
BeginProtection == BeginMaintenance("inspecting", FALSE)

(* check_run: nothing runs, nobody's end is in doubt, and a reservation is *)
(* archived only when the operator allows it.                                *)
Quiescent(c, held) ==
  IF c.controller.status # "none"
  THEN /\ c.controller.status # "running"
       /\ c.controller.status = "ready" => held
       /\ Confirmed(c.files.group)
  ELSE c.events.state # "unfinished" /\ ~c.events.open

(* quiescent_run: both locks, or none.                                     *)
TakeLock(lock, stage) ==
  IF Free(lock) THEN locks' = [locks EXCEPT ![lock] = "maintainer"] /\ Onward(stage) ELSE Abandon

LockApplication ==
  /\ Stands("locking application") /\ TakeLock("application", "locking driver")
  /\ UNCHANGED <<Others, modes, results, undertaken>>

LockDriverUnheld ==
  /\ Stands("locking driver") /\ Onward("checking") /\ UNCHANGED locks
  /\ UNCHANGED <<Others, modes, results, undertaken>>

LockDriver ==
  /\ Stands("locking driver") /\ TakeLock("driver", "checking")
  /\ UNCHANGED <<Others, modes, results, undertaken>>

CheckRun ==
  /\ Stands("checking")
  /\ IF Quiescent(Contents, maintainer.held)
       THEN Onward("copying events") /\ UNCHANGED locks ELSE Abandon
  /\ UNCHANGED <<Others, modes, results, undertaken>>

Copy(stage, part, next) ==
  /\ Stands(stage)
  /\ maintainer' = [maintainer EXCEPT !.stage = next, !.first[part] = Contents[part]]
  /\ UNCHANGED <<Others, modes, locks, results, undertaken>>

CopyRun ==
  \/ Copy("copying events", "events", "copying controller")
  \/ Copy("copying controller", "controller", "copying files")
  \/ Copy("copying files", "files", "bundling")

(* The bundle is created, never overwritten; the run is checked again only *)
(* when it is there, and it stays whatever this says.                      *)
WriteBundle ==
  /\ Stands("bundling")
  /\ IF bundle.state = "absent"
       THEN bundle' = [state |-> "whole", holds |-> maintainer.first] /\ Onward("rechecking")
            /\ UNCHANGED locks
       ELSE UNCHANGED bundle /\ Abandon
  /\ UNCHANGED <<Others, modes, restored, inventory, undertaken>>

EndExport ==
  /\ Stands("rechecking") /\ Abandon
  /\ UNCHANGED <<Others, modes, results, undertaken>>

(* Bytes of the bundle are lost: its checksums no longer agree.            *)
DamageBundle ==
  /\ bundle.state = "whole" /\ bundle' = [state |-> "torn", holds |-> Unread]
  /\ UNCHANGED <<Others, modes, locks, restored, inventory, maintainer, undertaken>>

(* read_bundle: every entry is there with its checksum, and no other.      *)
Readable == bundle.state = "whole"

(* import_run: all of a bundle is extracted beside the root, checked as a  *)
(* run, and moved into its place.                                          *)
BeginImport ==
  /\ Stands("idle") /\ undertaken < MaxMaintenance /\ undertaken' = undertaken + 1
  /\ Readable /\ restored.state = "absent"
  /\ maintainer' = [NoMaintenance EXCEPT !.stage = "extracted", !.first = bundle.holds]
  /\ UNCHANGED <<Others, modes, locks, results>>

CheckRestored ==
  /\ Stands("extracted")
  /\ IF Quiescent(maintainer.first, TRUE) THEN Onward("moving") /\ UNCHANGED locks ELSE Abandon
  /\ UNCHANGED <<Others, modes, results, undertaken>>

MoveRestored ==
  /\ Stands("moving") /\ restored' = [state |-> "whole", holds |-> maintainer.first] /\ Abandon
  /\ UNCHANGED <<Others, modes, bundle, inventory, undertaken>>

(* protect_tree: three walks, which read, narrow and read again.           *)
Walked == maintainer.part = Len(Parts)
Visited == Parts[maintainer.part]
Walk(stage, next) == [maintainer EXCEPT !.stage = IF Walked THEN next ELSE stage,
                                      !.part = IF Walked THEN 1 ELSE @ + 1]

InspectPart ==
  /\ Stands("inspecting")
  /\ maintainer' = [Walk("inspecting", "protecting") EXCEPT !.first[Visited] = Contents[Visited]]
  /\ UNCHANGED <<Others, modes, locks, results, undertaken>>

ProtectPart ==
  /\ Stands("protecting") /\ Narrow({Visited}, "private")
  /\ maintainer' = Walk("protecting", "reinspecting")
  /\ UNCHANGED <<Others, locks, results, undertaken>>

ReinspectPart ==
  /\ Stands("reinspecting")
  /\ maintainer' = [Walk("reinspecting", "comparing") EXCEPT
       !.last[Visited] = Contents[Visited],
       !.exposed = IF modes[Visited] = "broad" THEN @ \union {Visited} ELSE @]
  /\ UNCHANGED <<Others, modes, locks, results, undertaken>>

Preserved == maintainer.first = maintainer.last

ReportProtection ==
  /\ Stands("comparing") /\ Abandon
  /\ inventory' = IF ~Preserved THEN inventory
                  ELSE [state |-> "whole", holds |-> maintainer.last,
                        exposed |-> maintainer.exposed]
  /\ UNCHANGED <<Others, modes, bundle, restored, undertaken>>

(* A walk that meets a changed entry, or the process that is killed: what  *)
(* was narrowed stays so, and half a bundle stays where it is.             *)
OperatorDies ==
  /\ ~Stands("idle") /\ Abandon
  /\ \/ UNCHANGED bundle
     \/ Stands("bundling") /\ bundle.state = "absent"
        /\ bundle' = [state |-> "torn", holds |-> Unread]
  /\ UNCHANGED <<Others, modes, restored, inventory, undertaken>>

MaintenanceSteps ==
  \/ BeginExport \/ LockApplication \/ LockDriver \/ CheckRun \/ CopyRun \/ WriteBundle
  \/ EndExport \/ DamageBundle \/ BeginImport \/ CheckRestored \/ MoveRestored
  \/ BeginProtection \/ InspectPart \/ ProtectPart \/ ReinspectPart \/ ReportProtection
  \/ OperatorDies

ArchiveInit ==
  /\ program \in {"harness", "reviewed"}
  /\ history = [steps |-> 0, open |-> FALSE, state |-> "unfinished"]
  /\ authority = [turn |-> 0, status |-> IF program = "harness" THEN "ready" ELSE "none"]
  /\ kept = [turns |-> 0, group |-> "none"]
  /\ modes = [p \in {"files", "controller", "events"} |-> "broad"]
  /\ locks = [l \in {"application", "driver"} |-> "free"]
  /\ driver = IF program = "harness" THEN "away" ELSE "between"
  /\ moments = {Contents}
  /\ bundle = [state |-> "absent", holds |-> Unread]
  /\ restored = [state |-> "absent", holds |-> Unread]
  /\ inventory = [state |-> "absent", holds |-> Unread, exposed |-> {}]
  /\ maintainer = NoMaintenance /\ undertaken = 0

ArchiveNext == (RunSteps /\ Seen) \/ MaintenanceSteps

ArchiveSpec == ArchiveInit /\ [][ArchiveNext]_archiveVars

-----------------------------------------------------------------------------
RestoredIsAsItWas ==
  restored.state = "whole" =>
    /\ Quiescent(restored.holds, TRUE)
    /\ program = "harness" => restored.holds \in moments

InventoryIsOfOneMoment ==
  inventory.state = "whole" =>
    /\ inventory.holds \in moments
    /\ program = "harness" /\ inventory.exposed = {} =>
         \A p \in DOMAIN modes : modes[p] = "private"

(* What is restored is at rest, and a harness run is restored whole as it  *)
(* once was: no part of it is older than another (export_run and           *)
(* import_run, noetic_archive.py:184-249).  A protection that reports its  *)
(* contents preserved gives the inventory of one moment, though the run    *)
(* was driven meanwhile, and a harness run it found private stays so       *)
(* (protect_tree, noetic_storage.py:190-199).                              *)
CopiesAreTrue == RestoredIsAsItWas /\ InventoryIsOfOneMoment
=============================================================================
