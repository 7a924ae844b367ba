-------------------------------- MODULE Apply --------------------------------
(***************************************************************************)
(* Development runs of one project: each works in a copy of it, and what   *)
(* its review accepted is applied to the project file by file, under the   *)
(* application's lock.  The project's owner edits it meanwhile under no    *)
(* lock, and so may anybody the copy; an apply fails or dies anywhere.     *)
(***************************************************************************)
EXTENDS Naturals

CONSTANTS
  Works,       \* the runs
  LastPath,    \* the project's files are 1..LastPath, the last of them not there at first
  MaxMeddling  \* bound on what is done to project and copies from outside

(* What a file holds, other than a run's work, is named for its origin.    *)
Origins == {"missing", "unlisted", "torn", "base", "owner", "late", "unreviewed"}

ASSUME ApplyAssumption ==
  /\ LastPath \in Nat /\ MaxMeddling \in Nat
  /\ Works \intersect Origins = {}

VARIABLES
  project,  \* what each of its files holds
  works,    \* per run: its status, its copy and what is recorded of it
  backup,   \* per run: what its last apply copied aside
  apply,    \* the operation that holds the application's lock
  edited    \* edits made

applyVars == <<project, works, backup, apply, edited>>

Paths == 1..LastPath
Missing == <<"missing", 0>>
Unlisted == <<"unlisted", 0>>
Torn == <<"torn", 0>>
WorkOf(w) == <<w, 0>>

NotApplying == [work |-> "nobody", stage |-> "idle", changes |-> {}, left |-> {}, done |-> {},
                temporary |-> Missing, unrestored |-> {}, touched |-> {}]

ApplyInit ==
  /\ project = [p \in Paths |-> IF p = LastPath THEN Missing ELSE <<"base", 0>>]
  /\ works = [w \in Works |-> [status |-> "new", recorded |-> FALSE, baseline |-> project,
                               task |-> project, accepted |-> project, receipt |-> "none"]]
  /\ backup = [w \in Works |-> [p \in Paths |-> Missing]]
  /\ apply = NotApplying
  /\ edited = 0

-----------------------------------------------------------------------------
(* The runs.                                                               *)

(* check_workspace: a run whose project was never recorded is not seen.    *)
NoOtherActive(w) == \A o \in Works \ {w} : ~(works[o].recorded /\ works[o].status = "active")

(* task_worktree: the files as they are, nothing staged or committed; the  *)
(* baseline is what the copy then holds.                                   *)
Copied(work) == [work EXCEPT !.task = project, !.baseline = project]

(* record_project, unless the application dies before it.                  *)
Recordings(work) == {work, [work EXCEPT !.recorded = TRUE]}

StartWork(w) ==
  /\ apply.stage = "idle" /\ works[w].status = "new" /\ NoOtherActive(w)
  /\ \E work \in Recordings(Copied(works[w])) :
       works' = [works EXCEPT ![w] = [work EXCEPT !.status = "active"]]
  /\ UNCHANGED <<project, backup, apply, edited>>

(* The work is accepted, checks passed and the actor is gone.  The         *)
(* accepted manifest is of the last implementation alone, and may leave    *)
(* out what an earlier one changed.  A run whose project was not recorded  *)
(* goes on as well, but nothing of it is ever applied.                     *)
CompleteWork(w) ==
  /\ works[w].status = "active" /\ works[w].recorded
  /\ \E made \in [Paths -> {"kept", "written", "deleted"}], listed \in {Paths, {LastPath}} :
       LET result == [p \in Paths |-> CASE made[p] = "kept" -> works[w].task[p]
                                        [] made[p] = "written" -> WorkOf(w)
                                        [] made[p] = "deleted" -> Missing]
       IN works' = [works EXCEPT ![w] = [@ EXCEPT
            !.status = "completed", !.task = result,
            !.accepted = [p \in Paths |-> IF p \in listed \/ made[p] = "kept"
                                      THEN result[p] ELSE Unlisted]]]
  /\ UNCHANGED <<project, backup, apply, edited>>

CancelWork(w) ==
  /\ works[w].status = "active" /\ works' = [works EXCEPT ![w].status = "cancelled"]
  /\ UNCHANGED <<project, backup, apply, edited>>

-----------------------------------------------------------------------------
(* What is done from outside.                                              *)

(* The apply goes through its files in order, and back through them.       *)
IsNextLeft(p) == p \in apply.left /\ \A q \in apply.left : p <= q
IsLastDone(p) == p \in apply.done /\ \A q \in apply.done : q <= p

(* The file the next step of the apply writes without looking at it again. *)
IsCommitted(p) ==
  \/ apply.stage = "writing" /\ IsNextLeft(p)
  \/ apply.stage = "restoring" /\ IsLastDone(p)

EditProject(p) ==
  /\ edited < MaxMeddling /\ edited' = edited + 1
  /\ project' = [project EXCEPT ![p] = <<IF IsCommitted(p) THEN "late" ELSE "owner", edited'>>]
  /\ apply' = IF apply.stage = "idle" THEN apply
              ELSE [apply EXCEPT !.touched = @ \union {p}]
  /\ UNCHANGED <<works, backup>>

EditTask(w, p) ==
  /\ edited < MaxMeddling /\ edited' = edited + 1
  /\ works[w].status = "completed"
  /\ works' = [works EXCEPT ![w].task[p] = <<"unreviewed", edited'>>]
  /\ UNCHANGED <<project, backup, apply>>

-----------------------------------------------------------------------------
(* project_changes and apply_changes.                                      *)

Subject == works[apply.work]
InStage(stage) == apply.stage = stage
ToStage(stage) == apply' = [apply EXCEPT !.stage = stage]

Divergent(w) == {p \in Paths : works[w].task[p] # works[w].baseline[p]}

Eligible(w) ==
  /\ works[w].status = "completed" /\ works[w].recorded
  /\ works[w].receipt \notin {"applied", "torn"}
  /\ Divergent(w) # {}
  /\ \A p \in Divergent(w) : /\ works[w].task[p] = works[w].accepted[p]
                           /\ project[p] = works[w].baseline[p]

StartApply(w) ==
  /\ InStage("idle") /\ Eligible(w) /\ NoOtherActive(w)
  /\ apply' = [NotApplying EXCEPT !.work = w, !.stage = "saving", !.changes = Divergent(w),
                           !.left = Divergent(w)]
  /\ backup' = [backup EXCEPT ![w] = [p \in Paths |-> Missing]]
  /\ UNCHANGED <<project, works, edited>>

AsBefore(p) == project[p] = Subject.baseline[p]

(* Every file that will be written is copied aside before the first is.    *)
SaveFile ==
  /\ InStage("saving")
  /\ \E p \in Paths :
       /\ IsNextLeft(p) /\ AsBefore(p)
       /\ backup' = [backup EXCEPT ![apply.work][p] = project[p]]
       /\ apply' = IF apply.left = {p}
                   THEN [apply EXCEPT !.stage = "looking", !.left = apply.changes]
                   ELSE [apply EXCEPT !.left = @ \ {p}]
  /\ UNCHANGED <<project, works, edited>>

LookAtFile ==
  /\ InStage("looking")
  /\ \E p \in Paths :
       /\ IsNextLeft(p) /\ AsBefore(p) /\ Subject.task[p] = Subject.accepted[p]
       /\ IF Subject.accepted[p] = Missing
            THEN apply' = [apply EXCEPT !.stage = "writing", !.temporary = Missing]
            ELSE ToStage("copying")
  /\ UNCHANGED <<project, works, backup, edited>>

CopyUnlooked ==
  /\ InStage("copying")
  /\ \E p \in Paths :
       /\ IsNextLeft(p) /\ Subject.task[p] = Subject.accepted[p]
       /\ apply' = [apply EXCEPT !.stage = "writing", !.temporary = Subject.task[p]]
  /\ UNCHANGED <<project, works, backup, edited>>

(* The copy beside the file is checked, and the file again.                *)
CopyFile ==
  /\ InStage("copying")
  /\ \E p \in Paths :
       /\ IsNextLeft(p) /\ Subject.task[p] = Subject.accepted[p] /\ AsBefore(p)
       /\ apply' = [apply EXCEPT !.stage = "writing", !.temporary = Subject.task[p]]
  /\ UNCHANGED <<project, works, backup, edited>>

WriteFile ==
  /\ InStage("writing")
  /\ \E p \in Paths :
       /\ IsNextLeft(p) /\ project' = [project EXCEPT ![p] = apply.temporary]
       /\ apply' = [apply EXCEPT !.stage = "looking", !.left = @ \ {p}, !.done = @ \union {p}]
  /\ UNCHANGED <<works, backup, edited>>

Retain(receipt) == works' = [works EXCEPT ![apply.work].receipt = receipt]

ReportApplied ==
  /\ InStage("looking") /\ apply.left = {}
  /\ Retain("applied") /\ apply' = NotApplying
  /\ UNCHANGED <<project, backup, edited>>

(* A file is not as it was, or the system refuses an operation.            *)
AbortApply ==
  /\ apply.stage \in {"saving", "looking", "copying", "writing"} /\ apply.left # {}
  /\ ToStage("undoing")
  /\ UNCHANGED <<project, works, backup, edited>>

(* Backwards over what was written: what is no longer what the apply wrote *)
(* is somebody's later edit.                                               *)
UndoFile ==
  /\ InStage("undoing")
  /\ \E p \in Paths :
       /\ IsLastDone(p)
       /\ IF project[p] = Subject.accepted[p] THEN ToStage("restoring")
            ELSE apply' = [apply EXCEPT !.done = @ \ {p}]
  /\ UNCHANGED <<project, works, backup, edited>>

RestoreFile ==
  /\ InStage("restoring")
  /\ \E p \in Paths :
       /\ IsLastDone(p) /\ project' = [project EXCEPT ![p] = backup[apply.work][p]]
       /\ apply' = [apply EXCEPT !.stage = "undoing", !.done = @ \ {p}]
  /\ UNCHANGED <<works, backup, edited>>

(* A restoration copies over the file in place, so half of it may be left. *)
HalfRestored ==
  \/ UNCHANGED project
  \/ \E p \in Paths :
       /\ InStage("restoring") /\ IsLastDone(p) /\ backup[apply.work][p] # Missing
       /\ project' = [project EXCEPT ![p] = Torn]

RestoreFails ==
  /\ apply.stage \in {"undoing", "restoring"} /\ HalfRestored
  /\ \E p \in Paths :
       /\ IsLastDone(p)
       /\ apply' = [apply EXCEPT !.stage = "undoing", !.done = @ \ {p},
                                 !.unrestored = @ \union {p}]
  /\ UNCHANGED <<works, backup, edited>>

ReportFailed ==
  /\ InStage("undoing") /\ apply.done = {}
  /\ Retain("failed") /\ apply' = NotApplying
  /\ UNCHANGED <<project, backup, edited>>

(* The lock goes with the process; the receipt is written in place.        *)
ApplyDies ==
  /\ ~InStage("idle") /\ apply' = NotApplying
  /\ HalfRestored
  /\ \/ UNCHANGED works
     \/ /\ \/ InStage("looking") /\ apply.left = {}
           \/ InStage("undoing") /\ apply.done = {}
        /\ Retain("torn")
  /\ UNCHANGED <<backup, edited>>

ApplyNext ==
  \/ \E w \in Works : StartWork(w) \/ CompleteWork(w) \/ CancelWork(w) \/ StartApply(w)
  \/ \E p \in Paths : EditProject(p)
  \/ \E w \in Works, p \in Paths : EditTask(w, p)
  \/ SaveFile \/ LookAtFile \/ CopyFile \/ WriteFile \/ ReportApplied \/ AbortApply
  \/ UndoFile \/ RestoreFile \/ RestoreFails \/ ReportFailed \/ ApplyDies

ApplySpec == ApplyInit /\ [][ApplyNext]_applyVars

-----------------------------------------------------------------------------
(* Nothing unreviewed reaches the project: what a run wrote there is what  *)
(* its accepted manifest lists, and what was in the copy's place before is *)
(* kept aside, also when the apply died.                                   *)
OnlyReviewed ==
  \A p \in Paths, w \in Works :
    /\ project[p][1] # "unreviewed"
    /\ project[p] = WorkOf(w) => works[w].accepted[p] = WorkOf(w)
    /\ p \in apply.done => backup[apply.work][p] = Subject.baseline[p]
    /\ project[p] = Torn => \E o \in Works : backup[o][p] = works[o].baseline[p]

(* An apply writes over what the run started from, or back over what it    *)
(* wrote itself: an owner's edit survives, if it was not made in the       *)
(* instant between the last look at the file and the write.                *)
EditsSurvive ==
  \A p \in Paths :
    edited' = edited /\ project'[p] # project[p] =>
      project[p] \in {Subject.baseline[p], Subject.accepted[p]} \/ project[p][1] = "late"

(* An apply that reports itself applied changed every file, one that       *)
(* reports itself failed none, but for those edited meanwhile and those it *)
(* says it could not restore.                                              *)
AllOrNothing ==
  \A p \in apply.changes \ apply.touched :
    /\ Subject.receipt # "applied" /\ works'[apply.work].receipt = "applied" =>
         project[p] = Subject.accepted[p]
    /\ InStage("undoing") /\ apply.done = {} /\ apply'.stage = "idle" =>
         p \in apply.unrestored \/ project[p] = Subject.baseline[p]

(* What docs/project-workspaces.md promises of Apply (apply_changes,       *)
(* noetic_application.py:791-865).                                         *)
ApplyIsSound == []OnlyReviewed /\ [][EditsSurvive /\ AllOrNothing]_applyVars
=============================================================================
