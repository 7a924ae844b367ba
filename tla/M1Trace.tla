------------------------------- MODULE M1Trace -------------------------------
(***************************************************************************)
(* The trace of a bounded remediation: eleven records in which the first   *)
(* generation fails its verification, one remediation is started and the   *)
(* second generation passes.  As in M0Trace, a digest is the material it   *)
(* is taken of, and the identifiers of a binding other than its generation *)
(* are the value `bound' with the digest beside it.                        *)
(***************************************************************************)
EXTENDS Naturals, Sequences, FiniteSets, SequencesExt

Version == "m1"

Transitions ==
  << <<"delegation.authorized", "delegated">>, <<"run.created", "run_created">>,
     <<"run.started", "run_started">>, <<"generation.accepted", "generation_1_accepted">>,
     <<"verification.adjudicated", "generation_1_qa_failed">>,
     <<"remediation.started", "generation_2_remediation_started">>,
     <<"generation.accepted", "generation_2_accepted">>,
     <<"verification.adjudicated", "generation_2_qa_passed">>,
     <<"run.succeeded", "run_succeeded">>, <<"result.reported", "result_reported">>,
     <<"sub_goal.adjudicated", "telos_adjudicated">> >>

GenerationSequence == <<1, 1, 1, 1, 1, 2, 2, 2, 2, 2, 2>>

ExpectedRoles ==
  <<"telos", "controller", "controller", "controller", "qa", "controller", "controller", "qa",
    "controller", "controller", "telos">>

Roles == {"telos", "controller", "implementer", "qa"}

DelegatedActions ==
  [telos       |-> {"sub_goal.adjudicated"},
   controller  |-> {"run.created", "run.started", "generation.accepted", "remediation.started",
                    "run.succeeded", "result.reported"},
   implementer |-> {},
   qa          |-> {"verification.adjudicated"}]

DelegationHolds(p) ==
  /\ DOMAIN p =
       {"purpose", "authorized", "from", "until", "revocation", "budget", "grants"} \union Roles
  /\ p.from <= p.authorized /\ p.authorized < p.until
  /\ p.revocation = "not_revoked"
  /\ p.budget = 1
  /\ p.grants = DelegatedActions
  /\ \A r, q \in Roles : r # q => p[r] # p[q]

DelegationDigest(r) ==
  [id |-> r.id, type |-> r.type, at |-> r.at, role |-> r.role, actor |-> r.actor,
   bound |-> r.bound, generation |-> r.generation, delegation |-> r.payload]

RecordsFollow(t) ==
  /\ DOMAIN t = DOMAIN Transitions
  /\ \A i \in DOMAIN t :
       /\ \A j \in 1..(i - 1) : t[j].id # t[i].id
       /\ t[i].type = Transitions[i][1]
       /\ t[i].role = ExpectedRoles[i]
       /\ t[i].generation = GenerationSequence[i]
       /\ t[i].causes = IF i = 1 THEN <<>> ELSE <<t[i - 1].id>>

BoundInTime(t) ==
  /\ \A i \in 1..(Len(t) - 1) : t[i].at < t[i + 1].at
  /\ \A i \in DOMAIN t :
       /\ t[i].bound = t[1].bound /\ t[i].digest = t[1].digest
       /\ t[1].payload.from <= t[i].at /\ t[i].at < t[1].payload.until
  /\ t[1].at = t[1].payload.authorized
  /\ t[1].digest = DelegationDigest(t[1])

ActorsAreDelegated(t) ==
  \A i \in DOMAIN t :
     /\ t[i].actor = t[1].payload[t[i].role]
     /\ i > 1 => t[i].type \in t[1].payload.grants[t[i].role]

(* What a candidate is known by; a verdict must repeat it, and the second  *)
(* generation may share none of it with the first.                         *)
Work == {"candidate", "artifact", "obligation"}

SameWork(p, accepted) == \A f \in Work : p[f] = accepted.payload[f]

AcceptedHolds(p, generation) ==
  DOMAIN p = {"candidate", "artifact", "implementer", "obligation"}
               \union IF generation = 2 THEN {"remediation", "superseded"} ELSE {}

VerdictHolds(p, accepted, conclusion) ==
  /\ DOMAIN p = {"accepted", "candidate", "artifact", "obligation", "conclusion"}
                  \union IF conclusion = "FAIL" THEN {"finding", "findingDigest"} ELSE {}
  /\ p.accepted = accepted.id
  /\ SameWork(p, accepted)
  /\ p.conclusion = conclusion

RemediationHolds(p, failed, verdict) ==
  /\ DOMAIN p = {"ordinal", "target", "failedAccepted", "failedQa", "failedObligation", "finding",
                 "findingDigest"}
  /\ p.ordinal = 1
  /\ p.target = verdict.generation + 1
  /\ p.failedAccepted = failed.id /\ p.failedQa = verdict.id
  /\ p.failedObligation = failed.payload.obligation
  /\ p.finding = verdict.payload.finding /\ p.findingDigest = verdict.payload.findingDigest

SuccessHolds(p, accepted, qa) ==
  /\ DOMAIN p = {"accepted", "qa", "candidate", "artifact", "obligation", "conclusion"}
  /\ p.accepted = accepted.id /\ p.qa = qa.id
  /\ SameWork(p, accepted)
  /\ p.conclusion = qa.payload.conclusion /\ p.conclusion = "PASS"

ResultHolds(p, accepted, qa, success) ==
  /\ DOMAIN p = {"result", "accepted", "qa", "success", "candidate", "artifact", "obligation",
                 "outcome", "evidence"}
  /\ p.accepted = accepted.id /\ p.qa = qa.id /\ p.success = success.id
  /\ SameWork(p, accepted)
  /\ p.outcome = "succeeded"
  /\ p.evidence = <<accepted.id, qa.id, success.id>>

(* The adjudication answers for everything since the first acceptance.     *)
TelosHolds(p, t) ==
  /\ DOMAIN p = {"result", "resultEvent", "disposition", "evidence"}
  /\ p.result = t[10].payload.result /\ p.resultEvent = t[10].id
  /\ p.disposition = "complete"
  /\ p.evidence = [i \in 1..7 |-> t[i + 3].id]

Remediations(t) == Cardinality({i \in DOMAIN t : t[i].type = "remediation.started"})

GenerationsDiffer(t) ==
  /\ t[7].payload.remediation = t[6].id /\ t[7].payload.superseded = t[4].id
  /\ \A i \in {4, 7} : t[i].payload.implementer = t[1].payload.implementer
  /\ \A f \in Work : t[4].payload[f] # t[7].payload[f]
  /\ Remediations(t) = 1 /\ Remediations(t) <= t[1].payload.budget

Accepts(t) ==
  /\ RecordsFollow(t)
  /\ DelegationHolds(t[1].payload)
  /\ BoundInTime(t)
  /\ ActorsAreDelegated(t)
  /\ \A i \in 2..3 : DOMAIN t[i].payload = {}
  /\ AcceptedHolds(t[4].payload, 1)
  /\ VerdictHolds(t[5].payload, t[4], "FAIL")
  /\ RemediationHolds(t[6].payload, t[4], t[5])
  /\ AcceptedHolds(t[7].payload, 2)
  /\ VerdictHolds(t[8].payload, t[7], "PASS")
  /\ SuccessHolds(t[9].payload, t[7], t[8])
  /\ ResultHolds(t[10].payload, t[7], t[8], t[9])
  /\ TelosHolds(t[11].payload, t)
  /\ GenerationsDiffer(t)

(* A record with the fields of both: `@@', in a form that is known to the   *)
(* proof system too.                                                       *)
Beside(r, s) == [f \in DOMAIN r \union DOMAIN s |-> IF f \in DOMAIN r THEN r[f] ELSE s[f]]

(* A payload projected beside the identity of the record it came in.       *)
Attributed(r) == Beside([event |-> r.id, actor |-> r.actor], r.payload)

GenerationWhole(accepted, qa, generation) ==
  [generation |-> generation,
   accepted   |-> Beside([event |-> accepted.id], accepted.payload),
   qa         |-> Attributed(qa)]

Generation(accepted, qa, generation) ==
  [generation |-> generation,
   accepted   |-> Beside([event |-> accepted.id], accepted.payload),
   qa         |-> [f \in DOMAIN Attributed(qa) \ {"candidate", "artifact"} |-> Attributed(qa)[f]]]

Projection(t) ==
  [version     |-> Version,
   state       |-> Last(Transitions)[2],
   binding     |-> [bound |-> t[1].bound, digest |-> t[1].digest],
   delegation  |-> [event |-> t[1].id, actor |-> t[1].actor, purpose |-> t[1].payload.purpose,
                    revocation |-> t[1].payload.revocation, policy |-> t[1].payload.budget],
   budget      |-> [authorized |-> t[1].payload.budget, consumed |-> Remediations(t),
                    remaining |-> t[1].payload.budget - Remediations(t)],
   history     |-> <<Generation(t[4], t[5], 1), Generation(t[7], t[8], 2)>>,
   remediation |-> Beside([event |-> t[6].id, generation |-> t[6].generation], t[6].payload),
   success     |-> Beside([generation |-> t[9].generation], Attributed(t[9])),
   controller  |-> Beside([generation |-> t[10].generation], Attributed(t[10])),
   telos       |-> Beside([generation |-> t[11].generation], Attributed(t[11]))]
=============================================================================
