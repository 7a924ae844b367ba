-------------------------------- MODULE Review --------------------------------
(***************************************************************************)
(* The agent review broker: one request at a time is checked against the   *)
(* pull request, routed by the external router over the candidate models   *)
(* in their order, invoked, and every routed decision is reported back to  *)
(* the router, until a model answers or all have failed.  The answer       *)
(* carries the evidence of the attempts, which an independent validator    *)
(* judges again.  The router may answer anything and may die; a requester  *)
(* may give up; the pull request may move.                                 *)
(***************************************************************************)
EXTENDS Naturals, Sequences, FiniteSets, SequencesExt

CONSTANTS
  Heads,         \* revisions a pull request may be at
  DecisionIds,   \* identities of the router's decisions, well formed
  MaxReviews,    \* bound on reviews requested
  MaxMoves       \* bound on changes of the pull request

VARIABLES
  pull,        \* the pull request: its head, and whether it is open and not a draft
  moves,
  router,      \* the router's session: ready, changed (its tools), or gone
  recorded,    \* what the router recorded for the decisions of this review
  review,      \* the request in progress, or NoReview
  requester,   \* what the requester has: nothing yet, given up, or the answer
  reviews

reviewVars == <<pull, moves, router, recorded, review, requester, reviews>>

Candidates == <<"terra", "sol", "luna">>

NoReview == [stage |-> "none"]
Reviewing(stage) == review.stage = stage

(* The first candidate that is not excluded, if one is left.               *)
IsNext(model, excluded) ==
  \E i \in 1..Len(Candidates) : /\ model = Candidates[i] /\ model \notin excluded
                               /\ \A j \in 1..i - 1 : Candidates[j] \in excluded

-----------------------------------------------------------------------------
(* What is valid.                                                          *)

(* A decision of the router: its identity, model and fallbacks, and        *)
(* whether all its other fields are those of a protected review.           *)
Decisions ==
  [id : DecisionIds \union {"malformed"}, model : ToSet(Candidates), faithful : BOOLEAN]

ValidDecision(decision, excluded) ==
  /\ decision.id \in DecisionIds /\ IsNext(decision.model, excluded) /\ decision.faithful

(* A malformed decision that still says which candidate it is about.       *)
Attributable(decision, excluded) ==
  decision.id \in DecisionIds /\ IsNext(decision.model, excluded)

IdsBefore(attempts, i) == {attempts[j].id : j \in 1..i - 1}
ModelsBefore(attempts, i) == {attempts[j].model : j \in 1..i - 1}

(* validate_route_evidence: the attempts follow the candidates, no         *)
(* decision is used twice, only the last may have succeeded, and an        *)
(* ending failure has exhausted the candidates.                            *)
ValidAttempt(attempts, i) ==
  /\ attempts[i].id \in DecisionIds \ IdsBefore(attempts, i)
  /\ IsNext(attempts[i].model, ModelsBefore(attempts, i))
  /\ \/ /\ attempts[i].kind = "decision" /\ attempts[i].faithful
        /\ attempts[i].invocations = 1
        /\ i < Len(attempts) => attempts[i].outcome = "failure"
     \/ /\ attempts[i].kind = "rejection"
        /\ attempts[i].invocations = 0 /\ attempts[i].outcome = "failure"

ValidEvidence(attempts) ==
  /\ Len(attempts) \in 1..Len(Candidates)
  /\ \A i \in 1..Len(attempts) : ValidAttempt(attempts, i)
  /\ Last(attempts).kind = "rejection" \/ Last(attempts).outcome = "failure" =>
       Len(attempts) = Len(Candidates)

-----------------------------------------------------------------------------
(* A request, up to its prompt.                                            *)

(* A requester sends a request, which the broker takes when it is free.    *)
Request(head, valid) ==
  /\ Reviewing("none") /\ reviews < MaxReviews /\ router # "gone"
  /\ requester.state # "waiting"
  /\ review' = [stage |-> IF valid THEN "reading" ELSE "refused", head |-> head,
                excluded |-> <<>>, attempts |-> <<>>, ids |-> {}, current |-> "none",
                verdict |-> "none"]
  /\ recorded' = <<>> /\ requester' = [state |-> "waiting"] /\ reviews' = reviews + 1
  /\ UNCHANGED <<pull, moves, router>>

Step(stage) == review' = [review EXCEPT !.stage = stage]
Aside == <<pull, moves, router, requester, reviews>>

(* validate_pr *)
Reviewable == pull.open /\ pull.head = review.head

ReadPull ==
  /\ Reviewing("reading")
  /\ Step(IF Reviewable THEN "fetching" ELSE "refused")
  /\ UNCHANGED <<Aside, recorded>>

(* run_bounded: a command ends by itself and has printed something, or it  *)
(* is killed, late or for printing too much; nothing of it lives on.       *)
RunBounded == {"printed", "failed"}

FetchDiff ==
  /\ Reviewing("fetching")
  /\ \E end \in RunBounded : Step(IF end = "printed" THEN "rereading" ELSE "refused")
  /\ UNCHANGED <<Aside, recorded>>

RereadPull ==
  /\ Reviewing("rereading")
  /\ Step(IF Reviewable THEN "routing" ELSE "refused")
  /\ UNCHANGED <<Aside, recorded>>

-----------------------------------------------------------------------------
(* The candidates.                                                         *)

Attempt(kind, decision, outcome) ==
  [kind |-> kind, id |-> decision.id, model |-> decision.model, faithful |-> decision.faithful,
   invocations |-> IF kind = "decision" THEN 1 ELSE 0, outcome |-> outcome]

Exhausted == Len(review.excluded) = Len(Candidates)

(* What the broker makes of a decision: a decision identity used before or *)
(* one it cannot attribute ends the review; a malformed one is rejected,   *)
(* and counts as a failure of its model.                                   *)
Judge(decision) ==
  IF decision.id \in review.ids THEN [review EXCEPT !.stage = "refused"]
  ELSE IF ValidDecision(decision, ToSet(review.excluded))
    THEN [review EXCEPT !.stage = "invoking", !.ids = @ \union {decision.id},
                        !.current = Attempt("decision", decision, "failure")]
  ELSE IF Attributable(decision, ToSet(review.excluded))
    THEN [review EXCEPT !.stage = "reporting",
                        !.current = Attempt("rejection", decision, "failure")]
  ELSE [review EXCEPT !.stage = "refused"]

RouterAnswers == router # "gone"

(* route_task answers with a decision, or fails.                           *)
Route ==
  /\ Reviewing("routing") /\ ~Exhausted
  /\ \/ \E decision \in Decisions : RouterAnswers /\ review' = Judge(decision)
     \/ Step("refused")
  /\ UNCHANGED <<Aside, recorded>>

(* What a model may print, and what of it parses as a review.              *)
Outputs == [verdict : {"pass", "changes-needed"}, findings : BOOLEAN, formed : BOOLEAN]

IsReview(output) ==
  output.formed /\ (output.verdict = "changes-needed" <=> output.findings)

(* run_terra                                                               *)
Invoke ==
  /\ Reviewing("invoking")
  /\ \E end \in RunBounded, output \in Outputs :
          review' = IF end = "printed" /\ IsReview(output)
            THEN [review EXCEPT !.stage = "reporting", !.current.outcome = "success",
                                !.verdict = output.verdict]
            ELSE [review EXCEPT !.stage = "reporting"]
  /\ UNCHANGED <<Aside, recorded>>

(* A reported attempt enters the evidence; a failed one excludes its model.*)
Reported ==
  [review EXCEPT
    !.attempts = Append(@, review.current), !.ids = @ \union {review.current.id},
    !.excluded = IF review.current.outcome = "success" THEN @
                 ELSE Append(@, review.current.model),
    !.stage = IF review.current.outcome = "success" THEN "proving" ELSE "routing"]

(* report_outcome: the router records it and says so, or the report or its *)
(* acknowledgement is lost.                                                *)
ReportAnyway ==
  /\ Reviewing("reporting")
  /\ \/ recorded' = Append(recorded, <<review.current.id, review.current.outcome>>)
     \/ UNCHANGED recorded
  /\ review' = Reported
  /\ UNCHANGED Aside

Report ==
  /\ Reviewing("reporting")
  /\ \/ /\ RouterAnswers
        /\ recorded' = Append(recorded, <<review.current.id, review.current.outcome>>)
        /\ review' = Reported \/ Step("refused")
     \/ Step("refused") /\ UNCHANGED recorded
  /\ UNCHANGED Aside

(* With every candidate excluded the router must have none left.           *)
ConfirmExhaustion ==
  /\ Reviewing("routing") /\ Exhausted
  /\ \/ RouterAnswers /\ Step("proving")
     \/ Step("refused")
  /\ UNCHANGED <<Aside, recorded>>

-----------------------------------------------------------------------------
(* The answer.                                                             *)

(* The requester writes the answer down, if it still waits.                *)
Deliver(answer) ==
  requester' = IF requester.state = "waiting" THEN answer ELSE requester

Answer(status, attempts) ==
  /\ Deliver([state |-> "answered", status |-> status, verdict |-> review.verdict,
              attempts |-> attempts])
  /\ review' = NoReview
  /\ UNCHANGED <<pull, moves, router, recorded, reviews>>

(* validated_route_evidence, and the response to it.                       *)
Prove ==
  /\ Reviewing("proving")
  /\ IF ~ValidEvidence(review.attempts) THEN Answer("disproved", <<>>)
     ELSE Answer(IF Last(review.attempts).outcome = "success" THEN "reviewed" ELSE "exhausted",
                 review.attempts)

Refuse == Reviewing("refused") /\ Answer("refused", <<>>)

(* The requester waits a bounded time; the broker works on.                *)
GiveUp ==
  /\ requester.state = "waiting"
  /\ requester' = [state |-> "gone"]
  /\ UNCHANGED <<pull, moves, router, recorded, review, reviews>>

-----------------------------------------------------------------------------
(* The world.                                                              *)

MovePull ==
  /\ moves < MaxMoves /\ moves' = moves + 1
  /\ pull' \in [head : Heads, open : BOOLEAN] /\ pull' # pull
  /\ UNCHANGED <<router, recorded, review, requester, reviews>>

(* The router's process ends, or its tools change and the next health      *)
(* check ends the session.                                                 *)
RouterFails ==
  /\ router # "gone"
  /\ router' = IF router = "ready" THEN "changed" ELSE "gone"
  /\ UNCHANGED <<pull, moves, recorded, review, requester, reviews>>

(* The broker serves only while the router lives; it is started again.     *)
Restart ==
  /\ router = "gone" /\ Reviewing("none")
  /\ router' = "ready"
  /\ UNCHANGED <<pull, moves, recorded, review, requester, reviews>>

ReviewInit ==
  /\ pull \in [head : Heads, open : {TRUE}] /\ moves = 0
  /\ router = "ready" /\ recorded = <<>>
  /\ review = NoReview /\ requester = [state |-> "none"] /\ reviews = 0

ReviewNext ==
  \/ \E head \in Heads, valid \in BOOLEAN : Request(head, valid)
  \/ ReadPull \/ FetchDiff \/ RereadPull
  \/ Route \/ Invoke \/ Report \/ ConfirmExhaustion \/ Prove \/ Refuse
  \/ GiveUp \/ MovePull \/ RouterFails \/ Restart

ReviewSpec == ReviewInit /\ [][ReviewNext]_reviewVars

-----------------------------------------------------------------------------
(* The evidence the broker hands out agrees with what the router recorded: *)
(* every attempt of the answer was recorded there, in its order, with the  *)
(* outcome the evidence claims, and nothing else was.                      *)
EvidenceIsRecorded ==
  requester.state = "answered" /\ requester.status \in {"reviewed", "exhausted"} =>
    recorded = [i \in 1..Len(requester.attempts) |->
                  <<requester.attempts[i].id, requester.attempts[i].outcome>>]

(* The two validators agree: what the broker accepted decision by decision *)
(* is never refused as a whole, after the model's work is done.            *)
EvidenceStands == Reviewing("proving") => ValidEvidence(review.attempts)

(* What the broker answers with can be relied on: the router's record says *)
(* the same, and the broker's own validators say so twice.                 *)
EvidenceIsTrue == EvidenceIsRecorded /\ EvidenceStands
=============================================================================
