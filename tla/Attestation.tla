----------------------------- MODULE Attestation -----------------------------
(***************************************************************************)
(* The route attestation operator: in passes over the inventory of review  *)
(* runs newer than its cursor it validates the successful ones whose pull  *)
(* request was merged, writes a receipt or a disposition for each, and     *)
(* moves the cursor.  Meanwhile runs start, end, are started again and     *)
(* leave the inventory, and pull requests are pushed to, merged or closed. *)
(* A pass of the timer and one by hand may overlap, and any may die.       *)
(***************************************************************************)
EXTENDS Naturals, Sequences, FiniteSetsExt

CONSTANTS
  Operators,   \* processes of the operator
  Pulls,       \* pull requests
  MaxRuns,     \* bound on review runs
  MaxChanges,   \* bound on pushes, other merges, runs started again or no longer listed
  MaxPasses    \* bound on passes begun

VARIABLES
  runs,        \* the runs so far, in order: pull request, head, base, attempt, state,
               \* whether the artifact is kept, and the rules those it ran under
  pulls,       \* per pull request: its state, head, and the base it was merged on
  base,        \* the protected branch
  changes,
  oldest,      \* the oldest run the inventory still lists
  receipts, skips, gaps, cursor,   \* the operator's directory
  dropped,     \* runs an inventory listed twice, in conflict
  together,    \* runs that stood when the rules in force were read for them
  passes, operator

world == <<runs, pulls, base, changes, oldest>>
directory == <<receipts, skips, gaps, cursor>>
attestationVars ==
  <<runs, pulls, base, changes, oldest, receipts, skips, gaps, cursor, dropped, together, passes,
    operator>>

Resting == [stage |-> "resting"]
In(o, stage) == operator[o].stage = stage
Bootstrap == 1
NothingRead == "nothing"
RunIds == DOMAIN runs \ {Bootstrap}

-----------------------------------------------------------------------------
(* The world.                                                              *)

(* A review run starts for the head a pull request is at.                  *)
StartRun(p) ==
  /\ Len(runs) < MaxRuns /\ pulls[p].state = "open"
  /\ runs' = Append(runs, [pull |-> p, head |-> pulls[p].head, base |-> base,
                           attempt |-> 1, state |-> "pending",
                           artifact |-> TRUE, rules |-> TRUE])
  /\ UNCHANGED <<pulls, base, changes, oldest, directory, dropped, together, passes, operator>>

EndRun(r) ==
  /\ runs[r].state = "pending"
  /\ \E state \in {"success", "failure"} : runs' = [runs EXCEPT ![r].state = state]
  /\ UNCHANGED <<pulls, base, changes, oldest, directory, dropped, together, passes, operator>>

Rerun(r) ==
  /\ runs[r].state # "pending" /\ runs[r].attempt = 1
  /\ changes < MaxChanges /\ changes' = changes + 1
  /\ runs' = [runs EXCEPT ![r] = [@ EXCEPT !.state = "pending", !.attempt = 2]]
  /\ UNCHANGED <<pulls, base, oldest, directory, dropped, together, passes, operator>>

Push(p) ==
  /\ pulls[p].state = "open" /\ changes < MaxChanges /\ changes' = changes + 1
  /\ pulls' = [pulls EXCEPT ![p].head = @ + 1]
  /\ UNCHANGED <<runs, base, oldest, directory, dropped, together, passes, operator>>

ClosePull(p) ==
  /\ pulls[p].state = "open"
  /\ \/ /\ pulls' = [pulls EXCEPT ![p].state = "closed"]
        /\ UNCHANGED base
     \/ /\ pulls' = [pulls EXCEPT ![p] = [@ EXCEPT !.state = "merged", !.on = base]]
        /\ base' = base + 1
  /\ UNCHANGED <<runs, changes, oldest, directory, dropped, together, passes, operator>>

(* Another pull request is merged.                                         *)
MergeOther ==
  /\ changes < MaxChanges /\ changes' = changes + 1 /\ base' = base + 1
  /\ UNCHANGED <<runs, pulls, oldest, directory, dropped, together, passes, operator>>

(* The inventory is bounded: the oldest run leaves it.                     *)
Expire ==
  /\ oldest < Len(runs) /\ oldest' = oldest + 1
  /\ changes < MaxChanges /\ changes' = changes + 1
  /\ UNCHANGED <<runs, pulls, base, directory, dropped, together, passes, operator>>

(* An artifact expires; the rules of the protected branch are edited.      *)
Lapse(r) ==
  /\ runs[r].artifact /\ changes < MaxChanges /\ changes' = changes + 1
  /\ runs' = [runs EXCEPT ![r].artifact = FALSE]
  /\ UNCHANGED <<pulls, base, oldest, directory, dropped, together, passes, operator>>

EditRules ==
  /\ changes < MaxChanges /\ changes' = changes + 1
  /\ runs' = [r \in DOMAIN runs |-> [runs[r] EXCEPT !.rules = FALSE]]
  /\ UNCHANGED <<pulls, base, oldest, directory, dropped, together, passes, operator>>

-----------------------------------------------------------------------------
(* Selection.                                                              *)

(* select_runs: what is newer than the cursor and successful, up to the    *)
(* first run that is still going.                                          *)
SelectedPast(listing, after) ==
  {r \in DOMAIN listing : r > after /\ listing[r].state = "success"}

StillGoing(listing, after) ==
  {r \in DOMAIN listing : r > after /\ listing[r].state = "pending"}

Selected(listing, after) ==
  {r \in SelectedPast(listing, after) : \A going \in StillGoing(listing, after) : r < going}

Truncated(listing, after) == after > 0 /\ after \notin DOMAIN listing

Listed == [r \in oldest..Len(runs) |-> runs[r]]

(* The inventory comes in pages: a run that changes between two of them is *)
(* listed as it was, as it is, or as both; two records of one attempt are  *)
(* in conflict, and the attempt is left out.                               *)
Ended(listing) ==
  {r \in DOMAIN listing : /\ listing[r].state # runs[r].state
                          /\ listing[r].attempt = runs[r].attempt}
Repeated(listing) == {r \in DOMAIN listing : listing[r].attempt # runs[r].attempt}

Paged(listing, late, conflicted) ==
  [r \in DOMAIN listing \ conflicted |-> IF r \in late THEN runs[r] ELSE listing[r]]

BeginPass(o) ==
  /\ In(o, "resting") /\ passes < MaxPasses /\ passes' = passes + 1
  /\ operator' = [operator EXCEPT ![o] =
       [stage |-> "listing", cursor |-> cursor, listing |-> Listed]]
  /\ UNCHANGED <<world, directory, dropped, together>>

Pass(after, selected, listing, recovering, held) ==
  [stage |-> "choosing", cursor |-> after, queue |-> selected, recovering |-> recovering,
   again |-> {r \in selected : listing[r].attempt # 1},
   progress |-> 0, blocked |-> held, before |-> NothingRead]

ListRuns(o) ==
  /\ In(o, "listing")
  /\ \E conflicted \in SUBSET Ended(operator[o].listing),
        late \in SUBSET (Ended(operator[o].listing) \union Repeated(operator[o].listing)) :
       LET listing == Paged(operator[o].listing, late, conflicted)
       IN /\ late \cap conflicted = {}
          /\ dropped' = dropped \union conflicted
          /\ operator' = [operator EXCEPT ![o] =
               IF Truncated(listing, operator[o].cursor) THEN Resting
               ELSE Pass(operator[o].cursor, Selected(listing, operator[o].cursor),
                         listing, FALSE, FALSE)]
  /\ UNCHANGED <<world, directory, together, passes>>

(* --recover-run-id: only past a cursor the inventory has lost, and with   *)
(* one newer run, read by itself.                                          *)
BeginRecovery(o, r) ==
  /\ In(o, "resting") /\ passes < MaxPasses /\ passes' = passes + 1
  /\ cursor > 0 /\ r > cursor /\ Truncated(Listed, cursor)
  /\ runs[r].state = "success"
  /\ operator' = [operator EXCEPT ![o] = Pass(cursor, {r}, runs, TRUE, FALSE)]
  /\ UNCHANGED <<world, directory, dropped, together>>

(* --run-id: the run alone, whatever the cursor, which such a pass leaves   *)
(* where it is, like one that was held back.                               *)
BeginSingle(o, r) ==
  /\ In(o, "resting") /\ passes < MaxPasses /\ passes' = passes + 1
  /\ runs[r].state = "success"
  /\ operator' = [operator EXCEPT ![o] = Pass(cursor, {r}, runs, FALSE, TRUE)]
  /\ UNCHANGED <<world, directory, dropped, together>>

-----------------------------------------------------------------------------
(* One run of a pass.                                                      *)

Current(o) == Min(operator[o].queue)
Again(o) == Current(o) \in operator[o].again

(* A run that is dealt with moves the cursor unless one before it is not;  *)
(* one that is deferred or failed holds it back.                           *)
Settled(o) ==
  [operator[o] EXCEPT !.stage = "choosing", !.queue = @ \ {Current(o)},
                      !.progress = IF operator[o].blocked THEN @ ELSE Current(o)]

Held(o) == [operator[o] EXCEPT !.stage = "choosing", !.queue = @ \ {Current(o)}, !.blocked = TRUE,
                           !.before = NothingRead]

Skip(o) ==
  /\ skips' = skips \union {Current(o)}
  /\ operator' = [operator EXCEPT ![o] =
       IF operator[o].recovering THEN Held(o) ELSE Settled(o)]
  /\ UNCHANGED <<receipts, gaps, cursor>>

(* What the remote says of a run: its metadata and its pull request, but   *)
(* nothing of the rules.                                                   *)
Context(r) == [run |-> [runs[r] EXCEPT !.rules = TRUE], pull |-> pulls[runs[r].pull]]

FirstSuccess(run) == run.attempt = 1 /\ run.state = "success"

MergedAsReviewed(context) ==
  /\ context.pull.state = "merged"
  /\ context.pull.head = context.run.head /\ context.pull.on = context.run.base

(* The evidence downloads while its artifact is kept.                      *)
Retained(context) == context.run.artifact /\ context.pull.state = "merged"

(* load_attestation_context: everything agrees with a first attempt that   *)
(* succeeded, of the head that was merged on the base it was reviewed on.  *)
Attestable(context) ==
  FirstSuccess(context.run) /\ Retained(context) /\ MergedAsReviewed(context)

(* The rules in force are older than the run and those it ran under.       *)
RulesHold(run) == run.rules

(* A receipt that is there already is checked, and stands or fails; a      *)
(* later attempt is not attested.                                          *)
Choose(o) ==
  /\ In(o, "choosing") /\ operator[o].queue # {}
  /\ \/ /\ Current(o) \in receipts /\ ~Again(o)
        /\ \E after \in {Settled(o), Held(o)} : operator' = [operator EXCEPT ![o] = after]
        /\ UNCHANGED directory
     \/ /\ Again(o)
        /\ Skip(o)
     \/ /\ Current(o) \notin receipts /\ ~Again(o)
        /\ operator' = [operator EXCEPT ![o].stage = "loading"]
        /\ UNCHANGED directory
  /\ UNCHANGED <<world, dropped, together, passes>>

(* The first look: an open pull request defers the run, a closed one is    *)
(* disposed of.                                                            *)
Load(o) ==
  /\ In(o, "loading")
  /\ LET context == Context(Current(o)) IN
     \/ /\ context.pull.state = "open" \/ (context.pull.state = "merged" /\ ~Attestable(context))
        /\ operator' = [operator EXCEPT ![o] = Held(o)]
        /\ UNCHANGED directory
     \/ context.pull.state = "closed" /\ Skip(o)
     \/ /\ Attestable(context)
        /\ operator' = [operator EXCEPT ![o] =
             [@ EXCEPT !.stage = "validating", !.before = context]]
        /\ UNCHANGED directory
  /\ UNCHANGED <<world, dropped, together, passes>>

(* The validator of the base the run was reviewed on reads all of this     *)
(* again, the rules in force last and by themselves; then the context must *)
(* not have changed under it.                                              *)
Validate(o) ==
  /\ In(o, "validating")
  /\ operator' = [operator EXCEPT ![o] =
       IF Attestable(Context(Current(o))) THEN [operator[o] EXCEPT !.stage = "judging"]
       ELSE Held(o)]
  /\ UNCHANGED <<world, directory, dropped, together, passes>>

(* A run stands while its evidence and the rules it ran under both do.     *)
Stands(r) == Attestable(Context(r)) /\ runs[r].rules

ReadRules(o) ==
  /\ In(o, "judging")
  /\ operator' = [operator EXCEPT ![o] =
       IF RulesHold(runs[Current(o)]) THEN [operator[o] EXCEPT !.stage = "reloading"]
       ELSE Held(o)]
  /\ together' = together \union {r \in {Current(o)} : Stands(r)}
  /\ UNCHANGED <<world, directory, dropped, passes>>

Reload(o) ==
  /\ In(o, "reloading")
  /\ operator' = [operator EXCEPT ![o] =
       IF Attestable(Context(Current(o))) /\ Context(Current(o)) = operator[o].before
         THEN [operator[o] EXCEPT !.stage = "publishing", !.before = NothingRead]
       ELSE Held(o)]
  /\ UNCHANGED <<world, directory, dropped, together, passes>>

(* Whatever a pass asks of the remote or the disk may fail.                *)
Fail(o) ==
  /\ operator[o].stage \in {"loading", "validating", "judging", "reloading", "publishing"}
  /\ operator' = [operator EXCEPT ![o] = Held(o)]
  /\ UNCHANGED <<world, directory, dropped, together, passes>>

(* write_receipt: under a lock, and never over a receipt.                  *)
Publish(o) ==
  /\ In(o, "publishing")
  /\ receipts' = receipts \union {Current(o)}
  /\ operator' = [operator EXCEPT ![o] = IF Current(o) \in receipts THEN Held(o) ELSE Settled(o)]
  /\ UNCHANGED <<world, skips, gaps, cursor, dropped, together, passes>>

-----------------------------------------------------------------------------
(* The end of a pass.                                                      *)

Advances(o) == operator[o].progress > operator[o].cursor

SaveCursor(o) ==
  /\ In(o, "choosing") /\ operator[o].queue = {} /\ ~operator[o].recovering
  /\ cursor' = IF Advances(o) THEN operator[o].progress ELSE cursor
  /\ operator' = [operator EXCEPT ![o] = Resting]
  /\ UNCHANGED <<world, receipts, skips, gaps, dropped, together, passes>>

(* A recovery records the gap before it moves the cursor.                  *)
RecordGap(o) ==
  /\ In(o, "choosing") /\ operator[o].queue = {} /\ operator[o].recovering
  /\ IF operator[o].blocked
       THEN /\ operator' = [operator EXCEPT ![o] = Resting]
            /\ UNCHANGED gaps
       ELSE /\ gaps' = gaps \union {<<operator[o].cursor, operator[o].progress>>}
            /\ operator' = [operator EXCEPT ![o].stage = "advancing"]
  /\ UNCHANGED <<world, receipts, skips, cursor, dropped, together, passes>>

AdvanceCursor(o) ==
  /\ In(o, "advancing")
  /\ cursor' = operator[o].progress
  /\ operator' = [operator EXCEPT ![o] = Resting]
  /\ UNCHANGED <<world, receipts, skips, gaps, dropped, together, passes>>

PassDies(o) ==
  /\ ~In(o, "resting")
  /\ operator' = [operator EXCEPT ![o] = Resting]
  /\ UNCHANGED <<world, directory, dropped, together, passes>>

(* The operator is installed with the run of its own pull request, which   *)
(* it leaves aside, for a cursor.                                          *)
AttestationInit ==
  /\ runs = <<[pull |-> "none", head |-> 1, base |-> 0, attempt |-> 1, state |-> "success",
              artifact |-> TRUE, rules |-> TRUE]>>
  /\ pulls = [p \in Pulls |-> [state |-> "open", head |-> 1, on |-> 0]]
  /\ base = 0 /\ changes = 0 /\ oldest = 1
  /\ receipts = {} /\ skips = {} /\ gaps = {} /\ cursor = Bootstrap
  /\ dropped = {} /\ together = {}
  /\ passes = 0 /\ operator = [o \in Operators |-> Resting]

AttestationNext ==
  \/ \E p \in Pulls : StartRun(p) \/ Push(p) \/ ClosePull(p)
  \/ \E r \in RunIds : EndRun(r) \/ Rerun(r) \/ Lapse(r)
  \/ MergeOther \/ Expire \/ EditRules
  \/ \E o \in Operators :
       \/ BeginPass(o) \/ ListRuns(o) \/ \E r \in RunIds : BeginRecovery(o, r) \/ BeginSingle(o, r)
       \/ Choose(o) \/ Load(o) \/ Validate(o) \/ ReadRules(o) \/ Reload(o) \/ Fail(o) \/ Publish(o)
       \/ SaveCursor(o) \/ RecordGap(o) \/ AdvanceCursor(o) \/ PassDies(o)

AttestationSpec == AttestationInit /\ [][AttestationNext]_attestationVars

-----------------------------------------------------------------------------
InGap(r) == \E gap \in gaps : gap[1] < r /\ r < gap[2]

NothingIsPassedOver ==
  \A r \in RunIds : r <= cursor /\ runs[r].attempt = 1 /\ runs[r].state = "success" =>
    r \in receipts \union skips \union dropped \/ InGap(r)

ReceiptIsTrue ==
  \A r \in receipts : /\ pulls[runs[r].pull].state = "merged"
                      /\ pulls[runs[r].pull].head = runs[r].head
                      /\ pulls[runs[r].pull].on = runs[r].base

(* A receipt rests on one moment: the rules held while the rest of its     *)
(* evidence, read before and after them, still stood.                      *)
ReceiptStoodTogether == receipts \subseteq together

(* The cursor passes over no run that could still be attested: behind it   *)
(* every first attempt that succeeded has a receipt or a disposition, is   *)
(* in a recorded gap, or was left out of a listing for a conflict          *)
(* (route_attestation.py:216).  And a receipt tells the truth for good:    *)
(* its run reviewed the very head that was merged, on the very base it was *)
(* merged on, and when the rules were read for it they held and it was     *)
(* still the first attempt with its artifact kept, whatever moved between  *)
(* the reads (route_attestation.py:421, 354-361).                          *)
AttestationIsSound == NothingIsPassedOver /\ ReceiptIsTrue /\ ReceiptStoodTogether
=============================================================================
