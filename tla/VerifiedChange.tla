---------------------------- MODULE VerifiedChange ----------------------------
(***************************************************************************)
(* The verified change: a packet of what was attended to, understood and   *)
(* planned, bound to the trace of the work, and the three pure stages over *)
(* them.  Each stage checks the fields of the one before against a table   *)
(* of its own; leaf types and the constant labels of a view are left out.  *)
(***************************************************************************)
EXTENDS Naturals, Sequences, SequencesExt

M0 == INSTANCE M0Trace
M1 == INSTANCE M1Trace

Refused == [verdict |-> "refused"]

(* ---- development_verified_change: the packet and its source ----------- *)

FinalFields == {"candidate", "artifact", "implementer", "obligation", "generation"}

PacketFields ==
  [attention |-> {"id", "question"}, insight |-> {"id", "attention", "question"},
   procedure |-> {"id", "insight"}, final |-> FinalFields \union {"accepted", "procedure"}]

PacketHolds(p) ==
  /\ \A f \in DOMAIN PacketFields : DOMAIN p[f] = PacketFields[f]
  /\ p.profile \in {"m0", "m1"}
  /\ p.insight.attention = p.attention.id
  /\ p.insight.question = p.attention.question
  /\ p.procedure.insight = p.insight.id
  /\ IsInjective(<<p.attention.id, p.insight.id, p.procedure.id>>)
  /\ p.final.procedure = p.procedure.id

(* The digest of a source is the source. *)
SourceDigest(source) == source

SourceHolds(p, source) ==
  /\ p.version = p.profile /\ source.version = p.profile
  /\ IF p.profile = "m0" THEN M0!Accepts(source.records) ELSE M1!Accepts(source.records)

SourceProjection(p, source) ==
  IF p.profile = "m0" THEN M0!Projection(source.records) ELSE M1!Projection(source.records)

(* The acceptance that counts: the only one, or the second generation's.   *)
Terminal(p, s) ==
  IF p.profile = "m0" THEN s.accepted
  ELSE M1!Beside([generation |-> s.history[2].generation], s.history[2].accepted)

TerminalVerdict(p, s) == IF p.profile = "m0" THEN s.qa ELSE s.history[2].qa

BindsSource(p, s) ==
  /\ p.program = s.binding.bound
  /\ p.purpose = s.delegation.purpose
  /\ p.final.accepted = Terminal(p, s).event
  /\ \A f \in FinalFields : p.final[f] = Terminal(p, s)[f]

LineageGates(p) ==
  [attention |-> [attention |-> p.attention.id, insight |-> p.insight.id,
                  question |-> p.attention.question],
   procedure |-> [insight |-> p.insight.id, procedure |-> p.procedure.id,
                  final |-> p.final.procedure],
   final     |-> [f \in FinalFields \union {"accepted"} |-> p.final[f]]]

VerificationGate(p, s) ==
  LET accepted == Terminal(p, s)
      qa       == TerminalVerdict(p, s)
  IN [actor |-> qa.actor, event |-> qa.event, generation |-> accepted.generation,
      accepted |-> qa.accepted, candidate |-> accepted.candidate,
      artifact |-> accepted.artifact, obligation |-> qa.obligation,
      conclusion |-> qa.conclusion]

RemediationGate(p, s) ==
  IF p.profile = "m0" THEN [represented |-> FALSE]
  ELSE [represented |-> TRUE, budget |-> s.budget, remediation |-> s.remediation]

(* What validate_and_project returns, or Refused.                          *)
Verify(p, source) ==
  LET s == SourceProjection(p, source) IN
  IF PacketHolds(p) /\ p.digest = SourceDigest(source) /\ SourceHolds(p, source)
       /\ BindsSource(p, s)
    THEN [verdict |-> "projected", profile |-> p.profile, program |-> p.program,
          state |-> "telos_adjudicated", purpose |-> p.purpose, attention |-> p.attention,
          insight |-> p.insight, procedure |-> p.procedure, final |-> p.final,
          digest |-> p.digest, version |-> p.version, source |-> s,
          gates |-> M1!Beside(LineageGates(p),
                      [verification |-> VerificationGate(p, s),
                       remediation  |-> RemediationGate(p, s),
                       controller   |-> s.controller, telos |-> s.telos])]
    ELSE Refused

(* ---- development_verified_change_observe: the read model --------------- *)

ObservedFields ==
  [root  |-> {"verdict", "profile", "program", "state", "purpose", "attention", "insight",
              "procedure", "final", "digest", "version", "source", "gates"},
   final |-> FinalFields \union {"accepted", "procedure"},
   gates |-> {"attention", "procedure", "final", "verification", "remediation", "controller",
              "telos"},
   verification |-> {"actor", "event", "generation", "accepted", "candidate", "artifact",
                     "obligation", "conclusion"}]

ObservedM0Fields ==
  [source     |-> {"version", "state", "binding", "delegation", "accepted", "qa", "controller",
                   "telos"},
   binding    |-> {"bound", "digest", "generation"},
   delegation |-> {"actor", "event", "purpose", "revocation"},
   accepted   |-> {"artifact", "candidate", "event", "generation", "implementer", "obligation"},
   qa         |-> {"accepted", "actor", "conclusion", "event", "obligation"},
   controller |-> {"actor", "event", "evidence", "result", "outcome"},
   telos      |-> {"actor", "disposition", "event", "evidence", "result"}]

ObservedM1Fields ==
  [source      |-> {"version", "state", "binding", "delegation", "history", "budget",
                    "remediation", "success", "controller", "telos"},
   binding     |-> {"bound", "digest"},
   delegation  |-> {"actor", "event", "policy", "purpose", "revocation"},
   accepted    |-> <<{"artifact", "candidate", "event", "implementer", "obligation"},
                     {"artifact", "candidate", "event", "implementer", "obligation",
                      "remediation", "superseded"}>>,
   qa          |-> <<{"accepted", "actor", "conclusion", "event", "findingDigest", "finding",
                      "obligation"},
                     {"accepted", "actor", "conclusion", "event", "obligation"}>>,
   budget      |-> {"authorized", "consumed", "remaining"},
   remediation |-> {"event", "failedAccepted", "failedQa", "failedObligation", "findingDigest",
                    "finding", "generation", "ordinal", "target"},
   success     |-> {"accepted", "actor", "artifact", "candidate", "event", "generation",
                    "conclusion", "qa", "obligation"},
   controller  |-> {"accepted", "actor", "artifact", "candidate", "event", "evidence",
                    "generation", "qa", "result", "outcome", "success", "obligation"},
   telos       |-> {"actor", "disposition", "event", "evidence", "generation", "resultEvent",
                    "result"}]

ObservableCommon(r) ==
  /\ DOMAIN r = ObservedFields.root
  /\ r.state = "telos_adjudicated" /\ r.profile \in {"m0", "m1"}
  /\ \A f \in {"final", "gates"} : DOMAIN r[f] = ObservedFields[f]
  /\ DOMAIN r.gates.verification = ObservedFields.verification

ObservableM0(r) ==
  LET s == r.source IN
  /\ r.version = "m0" /\ s.version = "m0" /\ s.state = "telos_adjudicated"
  /\ DOMAIN s = ObservedM0Fields.source
  /\ \A f \in {"binding", "delegation", "accepted", "qa", "controller", "telos"} :
        DOMAIN s[f] = ObservedM0Fields[f]
  /\ DOMAIN r.gates.remediation = {"represented"} /\ ~r.gates.remediation.represented
  /\ \A f \in {"controller", "telos"} : DOMAIN r.gates[f] = ObservedM0Fields[f]

ObservableM1(r) ==
  LET s == r.source IN
  /\ r.version = "m1" /\ s.version = "m1" /\ s.state = "telos_adjudicated"
  /\ DOMAIN s = ObservedM1Fields.source
  /\ \A f \in {"binding", "delegation", "budget", "remediation", "success", "controller",
               "telos"} : DOMAIN s[f] = ObservedM1Fields[f]
  /\ Len(s.history) = 2
  /\ \A i \in 1..2 : /\ DOMAIN s.history[i] = {"accepted", "generation", "qa"}
                     /\ DOMAIN s.history[i].accepted = ObservedM1Fields.accepted[i]
                     /\ DOMAIN s.history[i].qa = ObservedM1Fields.qa[i]
  /\ DOMAIN r.gates.remediation = {"represented", "budget", "remediation"}
  /\ r.gates.remediation.represented
  /\ \A f \in {"budget", "remediation"} :
        DOMAIN r.gates.remediation[f] = ObservedM1Fields[f]
  /\ \A f \in {"controller", "telos"} : DOMAIN r.gates[f] = ObservedM1Fields[f]

HistoryOf(r) ==
  IF r.profile = "m0"
    THEN <<[generation |-> r.source.accepted.generation, accepted |-> r.source.accepted,
            qa |-> r.source.qa]>>
    ELSE r.source.history

Observe(r) ==
  IF /\ r # Refused
     /\ ObservableCommon(r)
     /\ IF r.profile = "m0" THEN ObservableM0(r) ELSE ObservableM1(r)
    THEN [verdict |-> "observed",
          subject |-> [profile |-> r.profile, program |-> r.program, purpose |-> r.purpose,
                       state |-> r.state,
                       source |-> [version |-> r.version, digest |-> r.digest,
                                   state |-> r.source.state, binding |-> r.source.binding]],
          evidence |-> [attention |-> r.attention, insight |-> r.insight,
                        procedure |-> r.procedure, final |-> r.final,
                        lineage |-> [f \in {"attention", "procedure", "final"} |-> r.gates[f]]],
          qa |-> [history |-> HistoryOf(r), terminal |-> r.gates.verification],
          remediation |-> r.gates.remediation, controller |-> r.gates.controller,
          telos |-> [delegation |-> r.source.delegation, adjudication |-> r.gates.telos]]
    ELSE Refused

(* ---- development_verified_change_status: the terminal status ----------- *)

StatusFields ==
  [m0 |-> [binding    |-> {"bound", "digest", "generation"},
           controller |-> {"actor", "event", "evidence", "result", "outcome"},
           telos      |-> {"actor", "disposition", "event", "evidence", "result"},
           accepted   |-> <<{"artifact", "candidate", "event", "generation", "implementer",
                             "obligation"}>>,
           qa         |-> <<{"accepted", "actor", "conclusion", "event", "obligation"}>>,
           remediation |-> {"represented"}],
   m1 |-> [binding    |-> {"bound", "digest"},
           controller |-> {"accepted", "actor", "artifact", "candidate", "event", "evidence",
                           "generation", "qa", "result", "outcome", "success", "obligation"},
           telos      |-> {"actor", "disposition", "event", "evidence", "generation",
                           "resultEvent", "result"},
           accepted   |-> <<{"artifact", "candidate", "event", "implementer", "obligation"},
                            {"artifact", "candidate", "event", "implementer", "obligation",
                             "remediation", "superseded"}>>,
           qa         |-> <<{"accepted", "actor", "conclusion", "event", "obligation",
                             "findingDigest", "finding"},
                            {"accepted", "actor", "conclusion", "event", "obligation"}>>,
           remediation |-> {"represented", "budget", "remediation"}]]

StatusCommon(o) ==
  /\ DOMAIN o = {"verdict", "subject", "evidence", "qa", "remediation", "controller", "telos"}
  /\ o.subject.state = "telos_adjudicated" /\ o.subject.profile \in {"m0", "m1"}
  /\ o.subject.source.version = o.subject.profile
  /\ o.subject.source.state = "telos_adjudicated"
  /\ DOMAIN o.subject.source.binding = StatusFields[o.subject.profile].binding
  /\ DOMAIN o.evidence.final = FinalFields \union {"accepted", "procedure"}
  /\ DOMAIN o.evidence.lineage = {"attention", "procedure", "final"}
  /\ DOMAIN o.qa.terminal = ObservedFields.verification
  /\ DOMAIN o.telos = {"delegation", "adjudication"}

(* The history is whole, and each generation ended as its profile says.    *)
QaHolds(qa, profile) ==
  /\ Len(qa.history) = IF profile = "m0" THEN 1 ELSE 2
  /\ \A i \in DOMAIN qa.history :
       /\ qa.history[i].generation = i
       /\ DOMAIN qa.history[i].accepted = StatusFields[profile].accepted[i]
       /\ DOMAIN qa.history[i].qa = StatusFields[profile].qa[i]
       /\ qa.history[i].qa.conclusion = IF profile = "m1" /\ i = 1 THEN "FAIL" ELSE "PASS"
  /\ qa.terminal.generation = Len(qa.history)
  /\ qa.terminal.conclusion = "PASS"

GenerationStatus(item) ==
  [generation |-> item.generation, accepted |-> item.accepted.event, qa |-> item.qa.event,
   conclusion |-> item.qa.conclusion, finding |-> "finding" \in DOMAIN item.qa,
   remediated |-> "remediation" \in DOMAIN item.accepted]

RemediationHolds(r, profile) ==
  /\ DOMAIN r = StatusFields[profile].remediation
  /\ r.represented = (profile = "m1")
  /\ r.represented => /\ DOMAIN r.budget = ObservedM1Fields.budget
                      /\ DOMAIN r.remediation = ObservedM1Fields.remediation

ControllerStatus(result, profile) ==
  [known |-> DOMAIN result = StatusFields[profile].controller,
   told  |-> [f \in DOMAIN result \intersect
                     {"outcome", "event", "result", "evidence", "generation", "accepted", "qa",
                      "success"} |-> result[f]]]

TelosStatus(adjudication, profile) ==
  [known |-> DOMAIN adjudication = StatusFields[profile].telos,
   told  |-> [f \in DOMAIN adjudication \ {"actor"} |-> adjudication[f]]]

Status(o) ==
  IF /\ o # Refused
     /\ StatusCommon(o)
     /\ ControllerStatus(o.controller, o.subject.profile).known
     /\ TelosStatus(o.telos.adjudication, o.subject.profile).known
     /\ QaHolds(o.qa, o.subject.profile)
     /\ RemediationHolds(o.remediation, o.subject.profile)
    THEN [verdict |-> "explained", subject |-> o.subject,
          controller |-> ControllerStatus(o.controller, o.subject.profile).told,
          telos |-> TelosStatus(o.telos.adjudication, o.subject.profile).told,
          event |-> o.qa.terminal.event,
          generations |-> [i \in DOMAIN o.qa.history |-> GenerationStatus(o.qa.history[i])],
          remediation |-> o.remediation,
          candidate |-> o.evidence.final.candidate, artifact |-> o.evidence.final.artifact,
          obligation |-> o.evidence.final.obligation]
    ELSE Refused

(* ---- development_verified_change_explain ------------------------------- *)

Explain(p, source) == Status(Observe(Verify(p, source)))
=============================================================================
