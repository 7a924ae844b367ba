------------------------------- MODULE M0Trace -------------------------------
(***************************************************************************)
(* The direct-pass trace: eight records by which a purpose delegates one   *)
(* piece of work, a controller runs it, quality assurance passes it and    *)
(* the purpose adjudicates it.  Accepts is the whole-trace validator and   *)
(* Projection what it returns.  The shapes of names, digests and times are *)
(* left to the parser; a digest is the very material it is taken of, and   *)
(* the six identifiers of a binding that never differ apart are one value, *)
(* `bound', with the digest beside it.                                     *)
(***************************************************************************)
EXTENDS Naturals, Sequences, SequencesExt

Version == "m0"

(* Each record's type, and the state it leads to from the one before. *)
Transitions ==
  << <<"delegation.authorized", "delegated">>, <<"run.created", "run_created">>,
     <<"run.started", "run_started">>, <<"generation.accepted", "generation_accepted">>,
     <<"verification.adjudicated", "qa_pass_attributed">>, <<"run.succeeded", "run_succeeded">>,
     <<"result.reported", "result_reported">>, <<"sub_goal.adjudicated", "telos_adjudicated">> >>

ExpectedRoles ==
  <<"telos", "controller", "controller", "controller", "qa", "controller", "controller", "telos">>

Roles == {"telos", "controller", "implementer", "qa"}

(* What a delegation grants: these actions to these roles, no more, no less. *)
Grants ==
  [telos       |-> {"sub_goal.adjudicated"},
   controller  |-> {"run.created", "run.started", "generation.accepted", "run.succeeded",
                    "result.reported"},
   implementer |-> {},
   qa          |-> {"verification.adjudicated"}]

DelegationHolds(p) ==
  /\ DOMAIN p = {"purpose", "authorized", "from", "until", "revocation", "grants"} \union Roles
  /\ p.from <= p.authorized /\ p.authorized < p.until
  /\ p.revocation = "not_revoked"
  /\ p.grants = Grants
  /\ \A r, q \in Roles : r # q => p[r] # p[q]

(* The digest binds everything that identifies and authorises a delegation. *)
DelegationDigest(r) ==
  [id |-> r.id, type |-> r.type, at |-> r.at, role |-> r.role, actor |-> r.actor,
   bound |-> r.bound, generation |-> r.generation, delegation |-> r.payload]

(* The records in sequence: each caused by its predecessor, none repeated. *)
RecordsFollow(t) ==
  /\ DOMAIN t = DOMAIN Transitions
  /\ \A i \in DOMAIN t :
       /\ \A j \in 1..(i - 1) : t[j].id # t[i].id
       /\ t[i].type = Transitions[i][1]
       /\ t[i].role = ExpectedRoles[i]
       /\ t[i].generation = 1
       /\ t[i].causes = IF i = 1 THEN <<>> ELSE <<t[i - 1].id>>

(* One binding and one clock within the validity of the delegation. *)
BoundInTime(t) ==
  /\ \A i \in 1..(Len(t) - 1) : t[i].at < t[i + 1].at
  /\ \A i \in DOMAIN t :
       /\ t[i].bound = t[1].bound /\ t[i].digest = t[1].digest
       /\ t[1].payload.from <= t[i].at /\ t[i].at < t[1].payload.until
  /\ t[1].at = t[1].payload.authorized
  /\ t[1].digest = DelegationDigest(t[1])

(* Every record comes from the actor its role was delegated to. *)
ActorsAreDelegated(t) ==
  \A i \in DOMAIN t :
     /\ t[i].actor = t[1].payload[t[i].role]
     /\ i > 1 => t[i].type \in t[1].payload.grants[t[i].role]

SameProduct(p, accepted) ==
  \A f \in {"candidate", "artifact"} : p[f] = accepted.payload[f]

SameWork(p, accepted) ==
  \A f \in {"candidate", "artifact", "obligation"} : p[f] = accepted.payload[f]

AcceptedHolds(p) == DOMAIN p = {"candidate", "artifact", "implementer", "obligation"}

VerdictHolds(p, accepted) ==
  /\ DOMAIN p = {"accepted", "candidate", "artifact", "obligation", "conclusion"}
  /\ p.accepted = accepted.id
  /\ SameWork(p, accepted)
  /\ p.conclusion = "PASS"

SuccessHolds(p, accepted, qa) ==
  /\ DOMAIN p = {"accepted", "qa", "candidate", "artifact", "obligation", "conclusion"}
  /\ p.accepted = accepted.id /\ p.qa = qa.id
  /\ SameWork(p, accepted)
  /\ p.conclusion = qa.payload.conclusion

ResultHolds(p, accepted, qa, success) ==
  /\ DOMAIN p = {"result", "accepted", "qa", "success", "candidate", "artifact", "obligation",
                 "outcome", "evidence"}
  /\ p.accepted = accepted.id /\ p.qa = qa.id /\ p.success = success.id
  /\ SameWork(p, accepted)
  /\ p.outcome = "succeeded"
  /\ p.evidence = <<accepted.id, qa.id, success.id>>

TelosHolds(p, result) ==
  /\ DOMAIN p = {"result", "resultEvent", "disposition", "evidence"}
  /\ p.result = result.payload.result /\ p.resultEvent = result.id
  /\ p.disposition = "complete"
  /\ p.evidence = Append(result.payload.evidence, result.id)

Accepts(t) ==
  /\ RecordsFollow(t)
  /\ DelegationHolds(t[1].payload)
  /\ BoundInTime(t)
  /\ ActorsAreDelegated(t)
  /\ \A i \in 2..3 : DOMAIN t[i].payload = {}
  /\ AcceptedHolds(t[4].payload)
  /\ VerdictHolds(t[5].payload, t[4])
  /\ SuccessHolds(t[6].payload, t[4], t[5])
  /\ ResultHolds(t[7].payload, t[4], t[5], t[6])
  /\ TelosHolds(t[8].payload, t[7])
  /\ t[4].payload.implementer = t[1].payload.implementer
  /\ t[5].actor # t[4].payload.implementer

Projection(t) ==
  [version    |-> Version,
   state      |-> Last(Transitions)[2],
   binding    |-> [bound |-> t[1].bound, digest |-> t[1].digest, generation |-> t[1].generation],
   delegation |-> [event |-> t[1].id, actor |-> t[1].actor, purpose |-> t[1].payload.purpose,
                   revocation |-> t[1].payload.revocation],
   accepted   |-> [event |-> t[4].id, generation |-> t[1].generation,
                   candidate |-> t[4].payload.candidate, artifact |-> t[4].payload.artifact,
                   implementer |-> t[4].payload.implementer,
                   obligation |-> t[4].payload.obligation],
   qa         |-> [event |-> t[5].id, actor |-> t[5].actor, accepted |-> t[5].payload.accepted,
                   obligation |-> t[5].payload.obligation,
                   conclusion |-> t[5].payload.conclusion],
   controller |-> [event |-> t[7].id, actor |-> t[7].actor, result |-> t[7].payload.result,
                   outcome |-> t[7].payload.outcome, evidence |-> t[7].payload.evidence],
   telos      |-> [event |-> t[8].id, actor |-> t[8].actor, result |-> t[8].payload.result,
                   disposition |-> t[8].payload.disposition,
                   evidence |-> t[8].payload.evidence]]
=============================================================================
