------------------------- MODULE ControllerRefines --------------------------
(***************************************************************************)
(* The kernel implements RunPromise: a phase stands while its slot is      *)
(* bound.                                                                  *)
(***************************************************************************)
EXTENDS Controller

Standing == {p \in Phases : slots[p] # None}

Outcome == CASE status = "active"    -> "open"
             [] status = "completed" -> "completed"
             [] status = "blocked"   -> "blocked"
             [] OTHER                -> "stopped"

Promise == INSTANCE RunPromise WITH
  Reopenings <- MaxReturns, Retries <- MaxRemediations, accepted <- Standing,
  left <- MaxReturns - returnsUsed, retries <- MaxRemediations - generation, outcome <- Outcome

\* Seen from outside, the versioned store with its drafts, reviews, feedback
\* and receipts is a run that keeps the promise: among others it is blocked
\* only with the returns of the run or the remediations of the phase spent.
KeepsPromise == Promise!Spec
=============================================================================
