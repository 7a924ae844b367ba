------------------------------ MODULE MCJournal ------------------------------
(* One accepted source per profile, the packet bound to it, and the values  *)
(* an edit may put in each place.                                           *)
EXTENDS Journal

Record(n, type, at, role, actor, generation, causes, payload) ==
  [id |-> n, type |-> type, at |-> at, role |-> role, actor |-> actor, bound |-> "b",
   digest |-> [of |-> "nothing"], generation |-> generation, causes |-> causes,
   payload |-> payload]

(* The digest of a trace's delegation, put into each of its records.        *)
Digested(records, digest) == [i \in DOMAIN records |-> [records[i] EXCEPT !.digest = digest]]

Who == [telos |-> "T", controller |-> "C", implementer |-> "I", qa |-> "Q"]

Authority(grants) ==
  [purpose |-> "p", authorized |-> 1, from |-> 1, until |-> 20, revocation |-> "not_revoked",
   grants |-> grants] @@ Who

Acceptance(n) ==
  [candidate |-> <<"c", n>>, artifact |-> <<"a", n>>, implementer |-> "I",
   obligation |-> <<"o", n>>]

Verdict(accepted, n, conclusion) ==
  [accepted |-> accepted, candidate |-> <<"c", n>>, artifact |-> <<"a", n>>,
   obligation |-> <<"o", n>>, conclusion |-> conclusion]

Result(accepted, qa, success, n) ==
  [result |-> "r", accepted |-> accepted, qa |-> qa, success |-> success,
   candidate |-> <<"c", n>>, artifact |-> <<"a", n>>, obligation |-> <<"o", n>>,
   outcome |-> "succeeded", evidence |-> <<accepted, qa, success>>]

GoldM0 ==
  LET t == << Record("e1", "delegation.authorized", 1, "telos", "T", 1, <<>>,
                     Authority(M0!Grants)),
              Record("e2", "run.created", 2, "controller", "C", 1, <<"e1">>, <<>>),
              Record("e3", "run.started", 3, "controller", "C", 1, <<"e2">>, <<>>),
              Record("e4", "generation.accepted", 4, "controller", "C", 1, <<"e3">>,
                     Acceptance(1)),
              Record("e5", "verification.adjudicated", 5, "qa", "Q", 1, <<"e4">>,
                     Verdict("e4", 1, "PASS")),
              Record("e6", "run.succeeded", 6, "controller", "C", 1, <<"e5">>,
                     [qa |-> "e5"] @@ Verdict("e4", 1, "PASS")),
              Record("e7", "result.reported", 7, "controller", "C", 1, <<"e6">>,
                     Result("e4", "e5", "e6", 1)),
              Record("e8", "sub_goal.adjudicated", 8, "telos", "T", 1, <<"e7">>,
                     [result |-> "r", resultEvent |-> "e7", disposition |-> "complete",
                      evidence |-> <<"e4", "e5", "e6", "e7">>]) >>
  IN [version |-> "m0", records |-> Digested(t, M0!DelegationDigest(t[1]))]

GoldM1 ==
  LET t == << Record("e1", "delegation.authorized", 1, "telos", "T", 1, <<>>,
                     [budget |-> 1] @@ Authority(M1!DelegatedActions)),
              Record("e2", "run.created", 2, "controller", "C", 1, <<"e1">>, <<>>),
              Record("e3", "run.started", 3, "controller", "C", 1, <<"e2">>, <<>>),
              Record("e4", "generation.accepted", 4, "controller", "C", 1, <<"e3">>,
                     Acceptance(1)),
              Record("e5", "verification.adjudicated", 5, "qa", "Q", 1, <<"e4">>,
                     [finding |-> "f", findingDigest |-> "fd"] @@ Verdict("e4", 1, "FAIL")),
              Record("e6", "remediation.started", 6, "controller", "C", 2, <<"e5">>,
                     [ordinal |-> 1, target |-> 2, failedAccepted |-> "e4", failedQa |-> "e5",
                      failedObligation |-> <<"o", 1>>, finding |-> "f",
                      findingDigest |-> "fd"]),
              Record("e7", "generation.accepted", 7, "controller", "C", 2, <<"e6">>,
                     [remediation |-> "e6", superseded |-> "e4"] @@ Acceptance(2)),
              Record("e8", "verification.adjudicated", 8, "qa", "Q", 2, <<"e7">>,
                     Verdict("e7", 2, "PASS")),
              Record("e9", "run.succeeded", 9, "controller", "C", 2, <<"e8">>,
                     [qa |-> "e8"] @@ Verdict("e7", 2, "PASS")),
              Record("e10", "result.reported", 10, "controller", "C", 2, <<"e9">>,
                     Result("e7", "e8", "e9", 2)),
              Record("e11", "sub_goal.adjudicated", 11, "telos", "T", 2, <<"e10">>,
                     [result |-> "r", resultEvent |-> "e10", disposition |-> "complete",
                      evidence |-> <<"e4", "e5", "e6", "e7", "e8", "e9", "e10">>]) >>
  IN [version |-> "m1", records |-> Digested(t, M1!DelegationDigest(t[1]))]

GoldSources == [m0 |-> GoldM0, m1 |-> GoldM1]

(* The packet whose final claim is the acceptance at place i of a source.   *)
PacketFor(src, i) ==
  LET r == src.records[i] IN
  [profile |-> src.version, version |-> src.version, program |-> "b", purpose |-> "p",
   attention |-> [id |-> "at", question |-> "why"],
   insight   |-> [id |-> "in", attention |-> "at", question |-> "why"],
   procedure |-> [id |-> "pr", insight |-> "in"],
   final     |-> [generation |-> r.generation, accepted |-> r.id, procedure |-> "pr",
                  candidate |-> r.payload.candidate, artifact |-> r.payload.artifact,
                  implementer |-> "I", obligation |-> r.payload.obligation],
   digest    |-> src]

GoldPackets == [m0 |-> PacketFor(GoldM0, 4), m1 |-> PacketFor(GoldM1, 7)]

Ids == {"e0", "e4", "e5", "e7"}

EditValues ==
  [id |-> {"e0", "e2"}, at |-> {0, 3, 30}, type |-> {"run.started", "remediation.started"},
   role |-> {"qa", "controller"}, actor |-> {"I", "Q"}, bound |-> {"other"},
   digest |-> {[of |-> "another"]}, generation |-> {1, 2}, causes |-> {<<>>, <<"e3">>},
   purpose |-> {"other"}, authorized |-> {2}, from |-> {2}, until |-> {5},
   revocation |-> {"revoked"}, budget |-> {0, 2}, grants |-> {M0!Grants, M1!DelegatedActions},
   telos |-> {"Q"}, controller |-> {"I"}, implementer |-> {"C", "J"}, qa |-> {"I", "e0", "e4"},
   candidate |-> {<<"c", 1>>, <<"c", 3>>}, artifact |-> {<<"a", 1>>, <<"a", 3>>},
   obligation |-> {<<"o", 1>>, <<"o", 3>>}, conclusion |-> {"PASS", "FAIL"},
   accepted |-> Ids, success |-> {"e5"}, result |-> {"another"}, outcome |-> {"failed"},
   evidence |-> {<<"e4">>, <<"e7", "e8", "e9", "e10">>}, resultEvent |-> {"e6"},
   disposition |-> {"incomplete"}, finding |-> {"g"}, findingDigest |-> {"gd"},
   ordinal |-> {0, 2}, target |-> {3}, failedAccepted |-> {"e7"}, failedQa |-> {"e8"},
   failedObligation |-> {<<"o", 2>>}, remediation |-> {"e5"}, superseded |-> {"e5"}]
=============================================================================
