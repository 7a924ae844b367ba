--------------------------- MODULE RecordsProofs ----------------------------
(***************************************************************************)
(* Theorems of what is recorded of runs: the journal of a verified change  *)
(* and what the three programs say of its trace, for every source, packet  *)
(* and number of edits and deaths; the copies of a run, for every length   *)
(* of the run and number of operations; and what runs apply to their       *)
(* project, for all runs, files and numbers of edits.                      *)
(***************************************************************************)
EXTENDS Journal, Archive, Apply, SequenceTheorems, TLAPS

USE JournalAssumption, ApplyAssumption

-----------------------------------------------------------------------------
(* The journal.                                                            *)

Begun == file # <<>> \/ writing # <<>> \/ torn

\* A sequence of whatever records were handed in.
Lines(s) == \E S : s \in Seq(S)

\* The terminated lines replay, one after the other, and the record being
\* written was admitted after all of them; what was told is a part of them.
JournalInv ==
  /\ Lines(file) /\ IsPrefix(told, file) /\ Lines(told)
  /\ \A n \in DOMAIN file : Admits(packet, SubSeq(file, 1, n - 1), file[n])
  /\ writing # <<>> => \E r : writing = <<r>> /\ Admits(packet, file, r)

\* What is explained was verified, and what is verified is what its packet
\* was sealed with.
LEMMA ExplainedIsSealed ==
  ASSUME NEW p, NEW s, Explain(p, s) # Refused
  PROVE  p.digest = s
<1>1. Observe(Verify(p, s)) # Refused
  BY DEF Explain, Status
<1>2. Verify(p, s) # Refused
  BY <1>1 DEF Observe
<1>3. p.digest = SourceDigest(s)
  BY <1>2 DEF Verify
<1> QED BY <1>3 DEF SourceDigest

LEMMA LinesGrow ==
  ASSUME NEW s, NEW r, Lines(s)
  PROVE  /\ Lines(s \o <<r>>) /\ Len(s) \in Nat /\ Len(s \o <<r>>) = Len(s) + 1
         /\ DOMAIN (s \o <<r>>) = DOMAIN s \cup {Len(s) + 1}
         /\ (s \o <<r>>)[Len(s) + 1] = r
         /\ \A n \in DOMAIN s : (s \o <<r>>)[n] = s[n]
         /\ SubSeq(s \o <<r>>, 1, Len(s)) = s
         /\ \A n \in DOMAIN s : SubSeq(s \o <<r>>, 1, n - 1) = SubSeq(s, 1, n - 1)
         /\ IsPrefix(s, s) /\ IsPrefix(s, s \o <<r>>)
         /\ \A t : Lines(t) /\ IsPrefix(t, s) => IsPrefix(t, s \o <<r>>)
<1>1. PICK S : s \in Seq(S)
  BY DEF Lines
<1> DEFINE T == S \cup {r}
           u == s \o <<r>>
<1>2. s \in Seq(T) /\ <<r>> \in Seq(T) /\ u \in Seq(T)
  BY <1>1
<1>3. /\ Len(s) \in Nat /\ Len(u) = Len(s) + 1 /\ DOMAIN s = 1 .. Len(s)
      /\ DOMAIN u = 1 .. Len(u) /\ u[Len(s) + 1] = r /\ \A n \in DOMAIN s : u[n] = s[n]
  BY <1>2
<1> HIDE DEF T, u
<1>4. \A n \in 0 .. Len(s) : SubSeq(u, 1, n) = SubSeq(s, 1, n)
  BY <1>2, <1>3
<1>5. SubSeq(s, 1, Len(s)) = s
  BY <1>2
<1>6. \A n \in DOMAIN s : n - 1 \in 0 .. Len(s)
  BY <1>3
<1>7. Lines(u)
  BY <1>2 DEF Lines
<1>8. IsPrefix(s, s) /\ IsPrefix(s, u)
  BY <1>3, <1>4 DEF IsPrefix
<1>9. ASSUME NEW t, Lines(t), IsPrefix(t, s)
      PROVE  IsPrefix(t, u)
  <2>1. Len(t) \in Nat
    BY <1>9 DEF Lines
  <2> QED BY <1>3, <1>4, <1>9, <2>1 DEF IsPrefix
<1> QED BY <1>3, <1>4, <1>5, <1>6, <1>7, <1>8, <1>9 DEF u

\* A written line was admitted after the lines before it.
LEMMA LineWritten ==
  ASSUME JournalInv, writing # <<>>, file' = file \o writing, packet' = packet, writing' = <<>>,
         told' = told \/ told' = file'
  PROVE  JournalInv'
<1>1. PICK r : writing = <<r>> /\ Admits(packet, file, r)
  BY DEF JournalInv
<1>2. file' = file \o <<r>> /\ Lines(file)
  BY <1>1 DEF JournalInv
<1>3. /\ Lines(file') /\ DOMAIN file' = DOMAIN file \cup {Len(file) + 1}
      /\ file'[Len(file) + 1] = r /\ \A n \in DOMAIN file : file'[n] = file[n]
      /\ Len(file) \in Nat /\ SubSeq(file', 1, Len(file)) = file
      /\ \A n \in DOMAIN file : SubSeq(file', 1, n - 1) = SubSeq(file, 1, n - 1)
      /\ IsPrefix(told, file')
  BY <1>2, LinesGrow DEF JournalInv
<1>4. ASSUME NEW n \in DOMAIN file'
      PROVE  Admits(packet, SubSeq(file', 1, n - 1), file'[n])
  <2>1. CASE n \in DOMAIN file
    BY <1>3, <2>1 DEF JournalInv
  <2>2. CASE n = Len(file) + 1
    <3>1. n - 1 = Len(file)
      BY <1>3, <2>2
    <3> QED BY <1>1, <1>3, <2>2, <3>1
  <2> QED BY <1>3, <2>1, <2>2
<1>5. Lines(told)' /\ IsPrefix(told', file')
  <2>1. IsPrefix(file', file')
    BY <1>3, LinesGrow
  <2> QED BY <1>3, <2>1 DEF JournalInv, Lines
<1>6. Lines(file)'
  BY <1>3 DEF Lines
<1>7. \A n \in DOMAIN file' : Admits(packet, SubSeq(file, 1, n - 1), file[n])'
  BY <1>4 DEF Admits, Source
<1> QED BY <1>5, <1>6, <1>7 DEF JournalInv

\* Nothing of the journal moves; an answer may tell all of it.
LEMMA JournalStands ==
  ASSUME JournalInv, file' = file, packet' = packet, writing' = writing \/ writing' = <<>>,
         told' = told \/ told' = file
  PROVE  JournalInv'
<1>1. IsPrefix(file, file)
  BY LinesGrow DEF JournalInv
<1>2. Lines(file)' /\ Lines(told)' /\ IsPrefix(told', file')
  BY <1>1 DEF JournalInv, Lines
<1>3. \A n \in DOMAIN file' : Admits(packet, SubSeq(file, 1, n - 1), file[n])'
  BY DEF JournalInv, Admits, Source
<1>4. writing' # <<>> => \E r : writing' = <<r>> /\ Admits(packet, file, r)'
  BY DEF JournalInv, Admits, Source
<1> QED BY <1>2, <1>3, <1>4 DEF JournalInv

LEMMA JournalNext ==
  ASSUME JournalInv, [Next]_vars
  PROVE  JournalInv'
<1>1. CASE EditSource
  BY <1>1, JournalStands DEF EditSource
<1>2. CASE EditPacket
  <2>1. file' = file /\ file = <<>> /\ writing' = writing /\ writing = <<>> /\ told' = told
    BY <1>2 DEF EditPacket
  <2>2. \A n \in DOMAIN file : FALSE
    BY <2>1
  <2> QED BY <2>1, <2>2 DEF JournalInv, Lines
<1>3. ASSUME NEW r \in Offered, BeginAppend(r)
      PROVE  JournalInv'
  <2>1. /\ file' = file /\ packet' = packet /\ told' = told /\ writing' = <<r>>
        /\ Admits(packet, file, r)
    BY <1>3 DEF BeginAppend, supply
  <2>2. Lines(file)' /\ Lines(told)' /\ IsPrefix(told', file')
    BY <2>1 DEF JournalInv, Lines
  <2>3. \A n \in DOMAIN file' : Admits(packet, SubSeq(file, 1, n - 1), file[n])'
    BY <2>1 DEF JournalInv, Admits, Source
  <2>4. writing' = <<r>> /\ Admits(packet, file, r)'
    BY <2>1 DEF Admits, Source
  <2> QED BY <2>2, <2>3, <2>4 DEF JournalInv
<1>4. CASE FinishAppend
  BY <1>4, LineWritten DEF FinishAppend, supply
<1>5. CASE Crash
  <2>1. /\ writing # <<>> /\ packet' = packet /\ told' = told /\ writing' = <<>>
        /\ file' = file \/ file' = file \o writing
    BY <1>5 DEF Crash, supply
  <2> QED BY <2>1, LineWritten, JournalStands
<1>6. CASE Inspect
  BY <1>6, JournalStands DEF Inspect, supply
<1>7. CASE Recover
  BY <1>7, JournalStands DEF Recover, supply
<1>8. CASE UNCHANGED vars
  BY <1>8, JournalStands DEF vars
<1> QED BY <1>1, <1>2, <1>3, <1>4, <1>5, <1>6, <1>7, <1>8 DEF Next

LEMMA JournalInit ==
  Init => JournalInv
<1>1. Lines(<<>>) /\ IsPrefix(<<>>, <<>>)
  BY DEF Lines, IsPrefix
<1>2. \A n \in DOMAIN <<>> : FALSE
  OBVIOUS
<1> QED BY <1>1, <1>2 DEF Init, JournalInv

\* A complete journal ends with a record that was admitted because all of it
\* was explained.
LEMMA CompleteImplied ==
  ASSUME JournalInv, Complete(file)
  PROVE  Source(file) = packet.digest
<1> DEFINE n == Len(file)
<1>1. n = Len(M0!Transitions) /\ Len(M0!Transitions) = 8
  BY DEF Complete, M0!Transitions
<1>2. PICK S : file \in Seq(S)
  BY DEF JournalInv, Lines
<1>3. n \in DOMAIN file /\ n \in Nat /\ n - 1 \in Nat
  BY <1>1, <1>2
<1>4. Admits(packet, SubSeq(file, 1, n - 1), file[n])
  BY <1>3 DEF JournalInv
<1>5. Len(SubSeq(file, 1, n - 1)) = n - 1 /\ Append(SubSeq(file, 1, n - 1), file[n]) = file
  <2>1. PICK m \in Nat : m = n - 1
    BY <1>3
  <2>2. m + 1 = Len(file)
    BY <1>3, <2>1
  <2>3. /\ SubSeq(file, 1, m) \in Seq(S) /\ Len(SubSeq(file, 1, m)) = m
        /\ \A i \in 1 .. m : SubSeq(file, 1, m)[i] = file[i]
    BY <1>2, <2>2
  <2>4. PICK a \in Seq(S) : a = SubSeq(file, 1, m)
    BY <2>3
  <2>5. file[n] \in S
    BY <1>2, <1>3
  <2>6. /\ Append(a, file[n]) \in Seq(S) /\ Len(Append(a, file[n])) = Len(file)
        /\ \A i \in 1 .. Len(file) : Append(a, file[n])[i] = file[i]
    BY <2>1, <2>2, <2>3, <2>4, <2>5
  <2>7. Append(a, file[n]) = file
    BY <1>2, <2>6
  <2> QED BY <2>1, <2>3, <2>4, <2>7
<1>6. n - 1 + 1 = Len(M0!Transitions)
  BY <1>1
<1>7. Explain(packet, Source(file)) # Refused
  BY <1>4, <1>5, <1>6 DEF Admits
<1> QED BY <1>7, ExplainedIsSealed

\* What an answer has told of the journal stays in it, what stands can always
\* be replayed, and when it is complete it is the very trace its packet was
\* sealed with, whichever edits, torn writes and recoveries came between.
THEOREM JournalStaysTrue == Spec => []JournalIsTrue
<1>1. JournalInv => JournalIsTrue
  <2>1. JournalInv => Replays(packet, file) /\ IsPrefix(told, file)
    BY DEF JournalInv, Replays
  <2> QED BY <2>1, CompleteImplied DEF JournalIsTrue, AnswersAreKept, CompleteIsSealed
<1>2. JournalInv /\ [Next]_vars => JournalInv'
  BY JournalNext
<1> QED BY JournalInit, <1>1, <1>2, PTL DEF Spec

-----------------------------------------------------------------------------
(* What is said of a trace.                                                *)

\* A record beside another has the fields of both, its own first.
LEMMA BesideWhole ==
  ASSUME NEW r, NEW s
  PROVE  /\ DOMAIN M1!Beside(r, s) = DOMAIN r \cup DOMAIN s
         /\ \A f \in DOMAIN r : M1!Beside(r, s)[f] = r[f]
         /\ \A f \in DOMAIN s \ DOMAIN r : M1!Beside(r, s)[f] = s[f]
BY DEF M1!Beside

\* What the first stage returns, and what it has tested.
LEMMA VerifiedWhole ==
  ASSUME NEW p, NEW trace, Verify(p, trace) # Refused
  PROVE  /\ PacketHolds(p) /\ SourceHolds(p, trace)
         /\ BindsSource(p, SourceProjection(p, trace))
         /\ Verify(p, trace) =
              [verdict |-> "projected", profile |-> p.profile, program |-> p.program,
               state |-> "telos_adjudicated", purpose |-> p.purpose, attention |-> p.attention,
               insight |-> p.insight, procedure |-> p.procedure, final |-> p.final,
               digest |-> p.digest, version |-> p.version,
               source |-> SourceProjection(p, trace),
               gates |-> M1!Beside(LineageGates(p),
                 [verification |-> VerificationGate(p, SourceProjection(p, trace)),
                  remediation  |-> RemediationGate(p, SourceProjection(p, trace)),
                  controller   |-> SourceProjection(p, trace).controller,
                  telos |-> SourceProjection(p, trace).telos])]
BY DEF Verify

LEMMA GatesWhole ==
  ASSUME NEW p, NEW v, NEW r, NEW c, NEW t,
         NEW gates, gates = M1!Beside(LineageGates(p),
           [verification |-> v, remediation |-> r, controller |-> c, telos |-> t])
  PROVE  /\ DOMAIN gates = ObservedFields.gates
         /\ gates.verification = v /\ gates.remediation = r
         /\ gates.controller = c /\ gates.telos = t
         /\ gates.attention = LineageGates(p).attention
         /\ gates.procedure = LineageGates(p).procedure
         /\ gates.final = LineageGates(p).final
<1> DEFINE own == [verification |-> v, remediation |-> r, controller |-> c, telos |-> t]
<1>1. DOMAIN own = {"verification", "remediation", "controller", "telos"}
  OBVIOUS
<1>2. DOMAIN LineageGates(p) = {"attention", "procedure", "final"}
  BY DEF LineageGates
<1>3. own.verification = v /\ own.remediation = r /\ own.controller = c /\ own.telos = t
  OBVIOUS
<1>4. gates = M1!Beside(LineageGates(p), own) OBVIOUS
<1> HIDE DEF own
<1>5. /\ DOMAIN gates = DOMAIN LineageGates(p) \cup DOMAIN own
      /\ \A x \in DOMAIN LineageGates(p) : gates[x] = LineageGates(p)[x]
      /\ \A x \in DOMAIN own \ DOMAIN LineageGates(p) : gates[x] = own[x]
  BY <1>4 DEF M1!Beside
<1>6. DOMAIN gates = ObservedFields.gates
  BY <1>1, <1>2, <1>5 DEF ObservedFields
<1> QED BY <1>1, <1>2, <1>3, <1>5, <1>6

-----------------------------------------------------------------------------
\* The direct pass.

LEMMA M0Projected ==
  ASSUME NEW t, NEW s, s = M0!Projection(t), M0!Accepts(t)
  PROVE  /\ DOMAIN s = ObservedM0Fields.source
         /\ s.version = "m0" /\ s.state = "telos_adjudicated"
         /\ \A f \in {"binding", "delegation", "accepted", "qa", "controller", "telos"} :
               DOMAIN s[f] = ObservedM0Fields[f]
         /\ s.accepted.generation = 1 /\ s.qa.conclusion = "PASS"
         /\ s.accepted.event = t[4].id /\ s.accepted.candidate = t[4].payload.candidate
         /\ s.qa.event = t[5].id
         /\ s.telos.evidence = t[8].payload.evidence
<1>1. DOMAIN s = ObservedM0Fields.source
  BY DEF M0!Projection, ObservedM0Fields
<1>2. s.version = "m0" /\ s.state = "telos_adjudicated"
  BY DEF M0!Projection, M0!Version, M0!Transitions, M0!Last
<1>3. /\ DOMAIN s.binding = ObservedM0Fields.binding
      /\ DOMAIN s.delegation = ObservedM0Fields.delegation
      /\ DOMAIN s.accepted = ObservedM0Fields.accepted
  BY DEF M0!Projection, ObservedM0Fields
<1>4. /\ DOMAIN s.qa = ObservedM0Fields.qa
      /\ DOMAIN s.controller = ObservedM0Fields.controller
      /\ DOMAIN s.telos = ObservedM0Fields.telos
  BY DEF M0!Projection, ObservedM0Fields
<1>5. s.accepted.generation = t[1].generation /\ s.qa.conclusion = t[5].payload.conclusion
  BY DEF M0!Projection
<1>6. t[1].generation = 1
  <2>1. 1 \in DOMAIN t BY DEF M0!Accepts, M0!RecordsFollow, M0!Transitions
  <2> QED BY <2>1 DEF M0!Accepts, M0!RecordsFollow
<1>7. t[5].payload.conclusion = "PASS"
  BY DEF M0!Accepts, M0!VerdictHolds
<1>8. /\ s.accepted.event = t[4].id /\ s.accepted.candidate = t[4].payload.candidate
      /\ s.qa.event = t[5].id
      /\ s.telos.evidence = t[8].payload.evidence
  BY DEF M0!Projection
<1> QED BY <1>1, <1>2, <1>3, <1>4, <1>5, <1>6, <1>7, <1>8

LEMMA M0Observed ==
  ASSUME NEW p, NEW trace, NEW r, r = Verify(p, trace), r # Refused, p.profile = "m0",
         NEW s, s = M0!Projection(trace.records)
  PROVE  /\ ObservableCommon(r) /\ ObservableM0(r)
         /\ M0!Accepts(trace.records) /\ r.profile = "m0" /\ r.version = "m0"
         /\ r.state = "telos_adjudicated" /\ r.source = s /\ r.final = p.final
         /\ DOMAIN p.final = FinalFields \cup {"accepted", "procedure"}
         /\ p.final.candidate = s.accepted.candidate
         /\ DOMAIN r.gates = ObservedFields.gates
         /\ DOMAIN r.gates.verification = ObservedFields.verification
         /\ r.gates.verification.generation = s.accepted.generation
         /\ r.gates.verification.conclusion = s.qa.conclusion
         /\ r.gates.verification.event = s.qa.event
         /\ r.gates.remediation = [represented |-> FALSE]
         /\ r.gates.controller = s.controller /\ r.gates.telos = s.telos
<1>0. SourceProjection(p, trace) = s BY DEF SourceProjection
<1>1. /\ PacketHolds(p) /\ SourceHolds(p, trace) /\ BindsSource(p, s)
      /\ r = [verdict |-> "projected", profile |-> p.profile, program |-> p.program,
              state |-> "telos_adjudicated", purpose |-> p.purpose, attention |-> p.attention,
              insight |-> p.insight, procedure |-> p.procedure, final |-> p.final,
              digest |-> p.digest, version |-> p.version, source |-> s,
              gates |-> M1!Beside(LineageGates(p),
                [verification |-> VerificationGate(p, s), remediation |-> RemediationGate(p, s),
                 controller |-> s.controller, telos |-> s.telos])]
  BY <1>0, VerifiedWhole
<1>2. /\ r.profile = "m0" /\ r.version = p.version /\ r.state = "telos_adjudicated"
      /\ r.source = s /\ r.final = p.final /\ DOMAIN r = ObservedFields.root
  BY <1>1 DEF ObservedFields
<1>3. /\ p.version = "m0" /\ M0!Accepts(trace.records)
      /\ DOMAIN p.final = FinalFields \cup {"accepted", "procedure"}
  BY <1>1 DEF SourceHolds, PacketHolds, PacketFields
<1>4. p.final.candidate = s.accepted.candidate
  BY <1>1 DEF BindsSource, FinalFields, Terminal
<1>5. r.gates = M1!Beside(LineageGates(p),
        [verification |-> VerificationGate(p, s), remediation |-> RemediationGate(p, s),
         controller |-> s.controller, telos |-> s.telos])
  BY <1>1
<1>6. /\ DOMAIN r.gates = ObservedFields.gates
      /\ r.gates.verification = VerificationGate(p, s)
      /\ r.gates.remediation = RemediationGate(p, s)
      /\ r.gates.controller = s.controller /\ r.gates.telos = s.telos
  BY <1>5, GatesWhole
<1>7. /\ DOMAIN VerificationGate(p, s) = ObservedFields.verification
      /\ VerificationGate(p, s).generation = s.accepted.generation
      /\ VerificationGate(p, s).conclusion = s.qa.conclusion
      /\ VerificationGate(p, s).event = s.qa.event
  BY DEF VerificationGate, Terminal, TerminalVerdict, ObservedFields
<1>8. RemediationGate(p, s) = [represented |-> FALSE] BY DEF RemediationGate
<1>9. /\ DOMAIN s = ObservedM0Fields.source
      /\ s.version = "m0" /\ s.state = "telos_adjudicated"
      /\ \A f \in {"binding", "delegation", "accepted", "qa", "controller", "telos"} :
            DOMAIN s[f] = ObservedM0Fields[f]
  BY <1>3, M0Projected
<1>10. ObservableCommon(r)
  <2>1. DOMAIN r.final = ObservedFields.final BY <1>2, <1>3 DEF ObservedFields
  <2> QED BY <1>2, <1>6, <1>7, <2>1 DEF ObservableCommon
<1>11. ObservableM0(r)
  <2>1. DOMAIN r.gates.remediation = {"represented"} /\ ~r.gates.remediation.represented
    BY <1>6, <1>8
  <2> QED BY <1>2, <1>3, <1>6, <1>9, <2>1 DEF ObservableM0
<1> QED BY <1>2, <1>3, <1>4, <1>6, <1>7, <1>8, <1>10, <1>11

\* The read model of a view the second stage accepts.
LEMMA ObservedWhole ==
  ASSUME NEW r, r # Refused, ObservableCommon(r),
         IF r.profile = "m0" THEN ObservableM0(r) ELSE ObservableM1(r),
         NEW o, o = Observe(r)
  PROVE  /\ o # Refused
         /\ DOMAIN o = {"verdict", "subject", "evidence", "qa", "remediation", "controller",
                        "telos"}
         /\ o.subject.state = r.state /\ o.subject.profile = r.profile
         /\ o.subject.source.version = r.version
         /\ o.subject.source.state = r.source.state
         /\ o.subject.source.binding = r.source.binding
         /\ o.evidence.final = r.final
         /\ DOMAIN o.evidence.lineage = {"attention", "procedure", "final"}
         /\ o.qa.history = HistoryOf(r) /\ o.qa.terminal = r.gates.verification
         /\ o.remediation = r.gates.remediation /\ o.controller = r.gates.controller
         /\ DOMAIN o.telos = {"delegation", "adjudication"}
         /\ o.telos.adjudication = r.gates.telos
<1>1. o = [verdict |-> "observed",
          subject |-> [profile |-> r.profile, program |-> r.program, purpose |-> r.purpose,
                       state |-> r.state,
                       source |-> [version |-> r.version, digest |-> r.digest,
                                   state |-> r.source.state, binding |-> r.source.binding]],
          evidence |-> [attention |-> r.attention, insight |-> r.insight,
                        procedure |-> r.procedure, final |-> r.final,
                        lineage |-> [f \in {"attention", "procedure", "final"} |-> r.gates[f]]],
          qa |-> [history |-> HistoryOf(r), terminal |-> r.gates.verification],
          remediation |-> r.gates.remediation, controller |-> r.gates.controller,
          telos |-> [delegation |-> r.source.delegation, adjudication |-> r.gates.telos]]
  BY DEF Observe
<1>2. o # Refused
  <2>1. o.verdict # Refused.verdict BY <1>1 DEF Refused
  <2> QED BY <2>1
<1> QED BY <1>1, <1>2

\* The status of a read model the third stage accepts.
LEMMA StatusWhole ==
  ASSUME NEW o, o # Refused, StatusCommon(o),
         DOMAIN o.controller = StatusFields[o.subject.profile].controller,
         DOMAIN o.telos.adjudication = StatusFields[o.subject.profile].telos,
         QaHolds(o.qa, o.subject.profile), RemediationHolds(o.remediation, o.subject.profile),
         "evidence" \in DOMAIN o.telos.adjudication,
         NEW status, status = Status(o)
  PROVE  /\ status # Refused
         /\ status.event = o.qa.terminal.event
         /\ status.candidate = o.evidence.final.candidate
         /\ status.telos.evidence = o.telos.adjudication.evidence
         /\ DOMAIN status.generations = DOMAIN o.qa.history
         /\ \A i \in DOMAIN o.qa.history :
              /\ status.generations[i].accepted = o.qa.history[i].accepted.event
              /\ status.generations[i].qa = o.qa.history[i].qa.event
<1>1. ControllerStatus(o.controller, o.subject.profile).known
  BY DEF ControllerStatus
<1>2. TelosStatus(o.telos.adjudication, o.subject.profile).known
  BY DEF TelosStatus
<1>3. status = [verdict |-> "explained", subject |-> o.subject,
          controller |-> ControllerStatus(o.controller, o.subject.profile).told,
          telos |-> TelosStatus(o.telos.adjudication, o.subject.profile).told,
          event |-> o.qa.terminal.event,
          generations |-> [i \in DOMAIN o.qa.history |-> GenerationStatus(o.qa.history[i])],
          remediation |-> o.remediation,
          candidate |-> o.evidence.final.candidate, artifact |-> o.evidence.final.artifact,
          obligation |-> o.evidence.final.obligation]
  BY <1>1, <1>2 DEF Status
<1>4. status # Refused
  <2>1. status.verdict # Refused.verdict BY <1>3 DEF Refused
  <2> QED BY <2>1
<1>5. TelosStatus(o.telos.adjudication, o.subject.profile).told.evidence
        = o.telos.adjudication.evidence
  BY DEF TelosStatus
<1>6. \A i \in DOMAIN o.qa.history :
        /\ status.generations[i].accepted = o.qa.history[i].accepted.event
        /\ status.generations[i].qa = o.qa.history[i].qa.event
  <2>1. status.generations = [i \in DOMAIN o.qa.history |-> GenerationStatus(o.qa.history[i])]
    BY <1>3
  <2>2. SUFFICES ASSUME NEW i \in DOMAIN o.qa.history
                 PROVE  /\ status.generations[i].accepted = o.qa.history[i].accepted.event
                        /\ status.generations[i].qa = o.qa.history[i].qa.event
    OBVIOUS
  <2>3. status.generations[i] = GenerationStatus(o.qa.history[i]) BY <2>1
  <2>4. /\ GenerationStatus(o.qa.history[i]).accepted = o.qa.history[i].accepted.event
        /\ GenerationStatus(o.qa.history[i]).qa = o.qa.history[i].qa.event
    BY DEF GenerationStatus
  <2> QED BY <2>3, <2>4
<1>7. /\ status.event = o.qa.terminal.event
      /\ status.candidate = o.evidence.final.candidate
      /\ DOMAIN status.generations = DOMAIN o.qa.history
  BY <1>3
<1>8. status.telos.evidence = o.telos.adjudication.evidence
  <2>1. status.telos = TelosStatus(o.telos.adjudication, o.subject.profile).told BY <1>3
  <2> QED BY <1>5, <2>1
<1> QED BY <1>4, <1>6, <1>7, <1>8

LEMMA M0Explained ==
  ASSUME NEW p, NEW trace, Verify(p, trace) # Refused, p.profile = "m0",
         NEW t, t = trace.records, NEW status, status = Explain(p, trace)
  PROVE  /\ status # Refused /\ M0!Accepts(t)
         /\ status.event = t[5].id /\ status.candidate = t[4].payload.candidate
         /\ status.telos.evidence = t[8].payload.evidence
         /\ DOMAIN status.generations = {1}
         /\ status.generations[1].accepted = t[4].id /\ status.generations[1].qa = t[5].id
<1> DEFINE r == Verify(p, trace)
           s == M0!Projection(t)
           o == Observe(r)
<1>1. /\ ObservableCommon(r) /\ ObservableM0(r)
      /\ M0!Accepts(t) /\ r.profile = "m0" /\ r.version = "m0"
      /\ r.state = "telos_adjudicated" /\ r.source = s /\ r.final = p.final
      /\ DOMAIN p.final = FinalFields \cup {"accepted", "procedure"}
      /\ p.final.candidate = s.accepted.candidate
      /\ DOMAIN r.gates.verification = ObservedFields.verification
      /\ r.gates.verification.generation = s.accepted.generation
      /\ r.gates.verification.conclusion = s.qa.conclusion
      /\ r.gates.verification.event = s.qa.event
      /\ r.gates.remediation = [represented |-> FALSE]
      /\ r.gates.controller = s.controller /\ r.gates.telos = s.telos
  BY M0Observed
<1>2. /\ s.state = "telos_adjudicated"
      /\ \A f \in {"binding", "delegation", "accepted", "qa", "controller", "telos"} :
            DOMAIN s[f] = ObservedM0Fields[f]
      /\ s.accepted.generation = 1 /\ s.qa.conclusion = "PASS"
      /\ s.accepted.event = t[4].id /\ s.accepted.candidate = t[4].payload.candidate
      /\ s.qa.event = t[5].id
      /\ s.telos.evidence = t[8].payload.evidence
  BY <1>1, M0Projected
<1>3. r # Refused /\ status = Status(o) BY DEF Explain
<1> HIDE DEF r, s
<1>4. /\ o # Refused
      /\ DOMAIN o = {"verdict", "subject", "evidence", "qa", "remediation", "controller",
                     "telos"}
      /\ o.subject.state = r.state /\ o.subject.profile = r.profile
      /\ o.subject.source.version = r.version
      /\ o.subject.source.state = r.source.state
      /\ o.subject.source.binding = r.source.binding
      /\ o.evidence.final = r.final
      /\ DOMAIN o.evidence.lineage = {"attention", "procedure", "final"}
      /\ o.qa.history = HistoryOf(r) /\ o.qa.terminal = r.gates.verification
      /\ o.remediation = r.gates.remediation /\ o.controller = r.gates.controller
      /\ DOMAIN o.telos = {"delegation", "adjudication"}
      /\ o.telos.adjudication = r.gates.telos
  BY <1>1, <1>3, ObservedWhole
<1> HIDE DEF o
<1>5. HistoryOf(r) = <<[generation |-> s.accepted.generation, accepted |-> s.accepted,
                        qa |-> s.qa]>>
  BY <1>1 DEF HistoryOf
<1>6. StatusCommon(o)
  <2>1. DOMAIN o.subject.source.binding = StatusFields["m0"].binding
    BY <1>1, <1>2, <1>4 DEF ObservedM0Fields, StatusFields
  <2> QED BY <1>1, <1>2, <1>4, <2>1 DEF StatusCommon
<1>7. QaHolds(o.qa, "m0")
  <2>1. /\ Len(o.qa.history) = 1 /\ DOMAIN o.qa.history = {1}
        /\ o.qa.history[1].generation = 1 /\ o.qa.history[1].accepted = s.accepted
        /\ o.qa.history[1].qa = s.qa
    BY <1>2, <1>4, <1>5
  <2>2. /\ StatusFields["m0"].accepted[1] = ObservedM0Fields.accepted
        /\ StatusFields["m0"].qa[1] = ObservedM0Fields.qa
    BY DEF StatusFields, ObservedM0Fields
  <2>3. DOMAIN s.accepted = ObservedM0Fields.accepted /\ DOMAIN s.qa = ObservedM0Fields.qa
    BY <1>2
  <2> QED BY <1>1, <1>2, <1>4, <2>1, <2>2, <2>3 DEF QaHolds
<1>8. RemediationHolds(o.remediation, "m0")
  <2>1. o.remediation = [represented |-> FALSE] BY <1>1, <1>4
  <2>2. DOMAIN o.remediation = {"represented"} /\ o.remediation.represented = FALSE BY <2>1
  <2>3. StatusFields["m0"].remediation = {"represented"} BY DEF StatusFields
  <2> QED BY <2>2, <2>3 DEF RemediationHolds
<1>9. /\ DOMAIN o.controller = StatusFields["m0"].controller
      /\ DOMAIN o.telos.adjudication = StatusFields["m0"].telos
      /\ "evidence" \in DOMAIN o.telos.adjudication
  <2>1. /\ StatusFields["m0"].controller = ObservedM0Fields.controller
        /\ StatusFields["m0"].telos = ObservedM0Fields.telos
        /\ "evidence" \in ObservedM0Fields.telos
    BY DEF StatusFields, ObservedM0Fields
  <2> QED BY <1>1, <1>2, <1>4, <2>1
<1>10. /\ status # Refused
       /\ status.event = o.qa.terminal.event
       /\ status.candidate = o.evidence.final.candidate
       /\ status.telos.evidence = o.telos.adjudication.evidence
       /\ DOMAIN status.generations = DOMAIN o.qa.history
       /\ \A i \in DOMAIN o.qa.history :
            /\ status.generations[i].accepted = o.qa.history[i].accepted.event
            /\ status.generations[i].qa = o.qa.history[i].qa.event
  <2>1. /\ DOMAIN o.controller = StatusFields[o.subject.profile].controller
        /\ DOMAIN o.telos.adjudication = StatusFields[o.subject.profile].telos
        /\ QaHolds(o.qa, o.subject.profile) /\ RemediationHolds(o.remediation, o.subject.profile)
    BY <1>1, <1>4, <1>7, <1>8, <1>9
  <2> QED BY <1>3, <1>4, <1>6, <1>9, <2>1, StatusWhole
<1>11. /\ DOMAIN o.qa.history = {1} /\ o.qa.history[1].accepted = s.accepted
       /\ o.qa.history[1].qa = s.qa
  BY <1>4, <1>5
<1> QED BY <1>1, <1>2, <1>4, <1>10, <1>11

-----------------------------------------------------------------------------
\* The bounded remediation.

LEMMA AttributedWhole ==
  ASSUME NEW r, "event" \notin DOMAIN r.payload, "actor" \notin DOMAIN r.payload,
         NEW a, a = M1!Attributed(r)
  PROVE  /\ DOMAIN a = {"event", "actor"} \cup DOMAIN r.payload
         /\ a.event = r.id /\ a.actor = r.actor
         /\ \A f \in DOMAIN r.payload : a[f] = r.payload[f]
BY DEF M1!Attributed, M1!Beside

LEMMA GenerationAttributed ==
  ASSUME NEW r, "event" \notin DOMAIN r.payload, "actor" \notin DOMAIN r.payload,
         "generation" \notin DOMAIN r.payload,
         NEW a, a = M1!Beside([generation |-> r.generation], M1!Attributed(r))
  PROVE  /\ DOMAIN a = {"generation", "event", "actor"} \cup DOMAIN r.payload
         /\ \A f \in DOMAIN r.payload : a[f] = r.payload[f]
<1> DEFINE b == M1!Attributed(r)
<1>1. /\ DOMAIN b = {"event", "actor"} \cup DOMAIN r.payload
      /\ \A f \in DOMAIN r.payload : b[f] = r.payload[f]
  BY AttributedWhole
<1>2. a = M1!Beside([generation |-> r.generation], b) OBVIOUS
<1> HIDE DEF b
<1> QED BY <1>1, <1>2 DEF M1!Beside

LEMMA GenerationProjected ==
  ASSUME NEW accepted, NEW qa, NEW n, NEW g, g = M1!Generation(accepted, qa, n),
         "event" \notin DOMAIN accepted.payload,
         "event" \notin DOMAIN qa.payload, "actor" \notin DOMAIN qa.payload
  PROVE  /\ DOMAIN g = {"generation", "accepted", "qa"} /\ g.generation = n
         /\ DOMAIN g.accepted = {"event"} \cup DOMAIN accepted.payload
         /\ g.accepted.event = accepted.id
         /\ \A f \in DOMAIN accepted.payload : g.accepted[f] = accepted.payload[f]
         /\ DOMAIN g.qa = {"event", "actor"} \cup (DOMAIN qa.payload \ {"candidate", "artifact"})
         /\ g.qa.event = qa.id
         /\ \A f \in DOMAIN qa.payload \ {"candidate", "artifact"} : g.qa[f] = qa.payload[f]
<1> DEFINE b == M1!Attributed(qa)
           c == M1!Beside([event |-> accepted.id], accepted.payload)
<1>1. /\ DOMAIN b = {"event", "actor"} \cup DOMAIN qa.payload
      /\ b.event = qa.id /\ \A f \in DOMAIN qa.payload : b[f] = qa.payload[f]
  BY AttributedWhole
<1>2. /\ DOMAIN c = {"event"} \cup DOMAIN accepted.payload
      /\ c.event = accepted.id
      /\ \A f \in DOMAIN accepted.payload : c[f] = accepted.payload[f]
  BY DEF M1!Beside
<1>3. g = [generation |-> n, accepted |-> c,
           qa |-> [f \in DOMAIN b \ {"candidate", "artifact"} |-> b[f]]]
  BY DEF M1!Generation
<1> HIDE DEF b, c
<1>4. DOMAIN g = {"generation", "accepted", "qa"} /\ g.generation = n /\ g.accepted = c
  BY <1>3
<1>5. /\ DOMAIN g.qa = DOMAIN b \ {"candidate", "artifact"}
      /\ \A f \in DOMAIN b \ {"candidate", "artifact"} : g.qa[f] = b[f]
  BY <1>3
<1> QED BY <1>1, <1>2, <1>4, <1>5

LEMMA M1Domains ==
  ASSUME NEW t, M1!Accepts(t)
  PROVE  /\ DOMAIN t[4].payload = {"candidate", "artifact", "implementer", "obligation"}
         /\ DOMAIN t[5].payload = {"accepted", "candidate", "artifact", "obligation",
                                   "conclusion", "finding", "findingDigest"}
         /\ DOMAIN t[6].payload = {"ordinal", "target", "failedAccepted", "failedQa",
                                   "failedObligation", "finding", "findingDigest"}
         /\ DOMAIN t[7].payload = {"candidate", "artifact", "implementer", "obligation",
                                   "remediation", "superseded"}
         /\ DOMAIN t[8].payload = {"accepted", "candidate", "artifact", "obligation",
                                   "conclusion"}
         /\ DOMAIN t[9].payload = {"accepted", "qa", "candidate", "artifact", "obligation",
                                   "conclusion"}
         /\ DOMAIN t[10].payload = {"result", "accepted", "qa", "success", "candidate",
                                    "artifact", "obligation", "outcome", "evidence"}
         /\ DOMAIN t[11].payload = {"result", "resultEvent", "disposition", "evidence"}
<1>1. DOMAIN t[4].payload = {"candidate", "artifact", "implementer", "obligation"}
  BY DEF M1!Accepts, M1!AcceptedHolds
<1>2. DOMAIN t[5].payload = {"accepted", "candidate", "artifact", "obligation",
                             "conclusion", "finding", "findingDigest"}
  BY DEF M1!Accepts, M1!VerdictHolds
<1>3. DOMAIN t[7].payload = {"candidate", "artifact", "implementer", "obligation",
                             "remediation", "superseded"}
  BY DEF M1!Accepts, M1!AcceptedHolds
<1>4. DOMAIN t[8].payload = {"accepted", "candidate", "artifact", "obligation", "conclusion"}
  BY DEF M1!Accepts, M1!VerdictHolds
<1>5. DOMAIN t[6].payload = {"ordinal", "target", "failedAccepted", "failedQa",
                             "failedObligation", "finding", "findingDigest"}
  BY DEF M1!Accepts, M1!RemediationHolds
<1>6. /\ DOMAIN t[9].payload = {"accepted", "qa", "candidate", "artifact", "obligation",
                                "conclusion"}
      /\ DOMAIN t[10].payload = {"result", "accepted", "qa", "success", "candidate",
                                 "artifact", "obligation", "outcome", "evidence"}
      /\ DOMAIN t[11].payload = {"result", "resultEvent", "disposition", "evidence"}
  BY DEF M1!Accepts, M1!SuccessHolds, M1!ResultHolds, M1!TelosHolds
<1> QED BY <1>1, <1>2, <1>3, <1>4, <1>5, <1>6

LEMMA M1Projected ==
  ASSUME NEW t, NEW s, s = M1!Projection(t), M1!Accepts(t)
  PROVE  /\ DOMAIN s = ObservedM1Fields.source
         /\ s.version = "m1" /\ s.state = "telos_adjudicated"
         /\ \A f \in {"binding", "delegation", "budget", "remediation", "success",
                      "controller", "telos"} : DOMAIN s[f] = ObservedM1Fields[f]
         /\ Len(s.history) = 2 /\ DOMAIN s.history = {1, 2}
         /\ \A i \in 1..2 : /\ DOMAIN s.history[i] = {"accepted", "generation", "qa"}
                            /\ DOMAIN s.history[i].accepted = ObservedM1Fields.accepted[i]
                            /\ DOMAIN s.history[i].qa = ObservedM1Fields.qa[i]
                            /\ s.history[i].generation = i
         /\ s.history[1].qa.conclusion = "FAIL" /\ s.history[2].qa.conclusion = "PASS"
         /\ s.history[1].accepted.event = t[4].id /\ s.history[1].qa.event = t[5].id
         /\ s.history[2].accepted.event = t[7].id /\ s.history[2].qa.event = t[8].id
         /\ s.history[2].accepted.candidate = t[7].payload.candidate
         /\ s.telos.evidence = t[11].payload.evidence
<1>1. /\ DOMAIN s = ObservedM1Fields.source
      /\ DOMAIN s.binding = ObservedM1Fields.binding
      /\ DOMAIN s.delegation = ObservedM1Fields.delegation
      /\ DOMAIN s.budget = ObservedM1Fields.budget
  BY DEF M1!Projection, ObservedM1Fields
<1>2. s.version = "m1" /\ s.state = "telos_adjudicated"
  BY DEF M1!Projection, M1!Version, M1!Transitions, M1!Last
<1>3. DOMAIN s.remediation = ObservedM1Fields.remediation
  <2>1. s.remediation = M1!Beside([event |-> t[6].id, generation |-> t[6].generation],
                                  t[6].payload)
    BY DEF M1!Projection
  <2>2. DOMAIN s.remediation = {"event", "generation"} \cup DOMAIN t[6].payload
    BY <2>1 DEF M1!Beside
  <2> QED BY <2>2, M1Domains DEF ObservedM1Fields
<1>4. DOMAIN s.success = ObservedM1Fields.success
  <2>1. s.success = M1!Beside([generation |-> t[9].generation], M1!Attributed(t[9]))
    BY DEF M1!Projection
  <2>0. /\ "event" \notin DOMAIN t[9].payload /\ "actor" \notin DOMAIN t[9].payload
        /\ "generation" \notin DOMAIN t[9].payload
    BY M1Domains
  <2>2. DOMAIN s.success = {"generation", "event", "actor"} \cup DOMAIN t[9].payload
    BY <2>0, <2>1, GenerationAttributed
  <2> QED BY <2>2, M1Domains DEF ObservedM1Fields
<1>5. DOMAIN s.controller = ObservedM1Fields.controller
  <2>1. s.controller = M1!Beside([generation |-> t[10].generation], M1!Attributed(t[10]))
    BY DEF M1!Projection
  <2>0. /\ "event" \notin DOMAIN t[10].payload /\ "actor" \notin DOMAIN t[10].payload
        /\ "generation" \notin DOMAIN t[10].payload
    BY M1Domains
  <2>2. DOMAIN s.controller = {"generation", "event", "actor"} \cup DOMAIN t[10].payload
    BY <2>0, <2>1, GenerationAttributed
  <2> QED BY <2>2, M1Domains DEF ObservedM1Fields
<1>6. DOMAIN s.telos = ObservedM1Fields.telos /\ s.telos.evidence = t[11].payload.evidence
  <2>1. s.telos = M1!Beside([generation |-> t[11].generation], M1!Attributed(t[11]))
    BY DEF M1!Projection
  <2>0. /\ "event" \notin DOMAIN t[11].payload /\ "actor" \notin DOMAIN t[11].payload
        /\ "generation" \notin DOMAIN t[11].payload
    BY M1Domains
  <2>2. /\ DOMAIN s.telos = {"generation", "event", "actor"} \cup DOMAIN t[11].payload
        /\ \A f \in DOMAIN t[11].payload : s.telos[f] = t[11].payload[f]
    BY <2>0, <2>1, GenerationAttributed
  <2> QED BY <2>2, M1Domains DEF ObservedM1Fields
<1>7. /\ s.history = <<M1!Generation(t[4], t[5], 1), M1!Generation(t[7], t[8], 2)>>
      /\ Len(s.history) = 2 /\ DOMAIN s.history = {1, 2}
  BY DEF M1!Projection
<1>8. /\ DOMAIN s.history[1] = {"accepted", "generation", "qa"} /\ s.history[1].generation = 1
      /\ DOMAIN s.history[1].accepted = ObservedM1Fields.accepted[1]
      /\ DOMAIN s.history[1].qa = ObservedM1Fields.qa[1]
      /\ s.history[1].accepted.event = t[4].id /\ s.history[1].qa.event = t[5].id
      /\ s.history[1].qa.conclusion = "FAIL"
  <2> DEFINE g == s.history[1]
  <2>1. g = M1!Generation(t[4], t[5], 1) BY <1>7
  <2> HIDE DEF g
  <2>2. /\ DOMAIN g = {"generation", "accepted", "qa"} /\ g.generation = 1
        /\ DOMAIN g.accepted = {"event"} \cup DOMAIN t[4].payload
        /\ g.accepted.event = t[4].id
        /\ DOMAIN g.qa = {"event", "actor"} \cup (DOMAIN t[5].payload \ {"candidate", "artifact"})
        /\ g.qa.event = t[5].id
        /\ \A f \in DOMAIN t[5].payload \ {"candidate", "artifact"} : g.qa[f] = t[5].payload[f]
    BY <2>1, M1Domains, GenerationProjected
  <2>3. g.qa.conclusion = "FAIL"
    BY <2>2, M1Domains DEF M1!Accepts, M1!VerdictHolds
  <2>4. DOMAIN g.accepted = ObservedM1Fields.accepted[1]
    BY <2>2, M1Domains DEF ObservedM1Fields
  <2>5. DOMAIN g.qa = ObservedM1Fields.qa[1]
    BY <2>2, M1Domains DEF ObservedM1Fields
  <2> QED BY <2>2, <2>3, <2>4, <2>5 DEF g
<1>9. /\ DOMAIN s.history[2] = {"accepted", "generation", "qa"} /\ s.history[2].generation = 2
      /\ DOMAIN s.history[2].accepted = ObservedM1Fields.accepted[2]
      /\ DOMAIN s.history[2].qa = ObservedM1Fields.qa[2]
      /\ s.history[2].accepted.event = t[7].id /\ s.history[2].qa.event = t[8].id
      /\ s.history[2].qa.conclusion = "PASS"
      /\ s.history[2].accepted.candidate = t[7].payload.candidate
  <2> DEFINE g == s.history[2]
  <2>1. g = M1!Generation(t[7], t[8], 2) BY <1>7
  <2> HIDE DEF g
  <2>2. /\ DOMAIN g = {"generation", "accepted", "qa"} /\ g.generation = 2
        /\ DOMAIN g.accepted = {"event"} \cup DOMAIN t[7].payload
        /\ g.accepted.event = t[7].id
        /\ \A f \in DOMAIN t[7].payload : g.accepted[f] = t[7].payload[f]
        /\ DOMAIN g.qa = {"event", "actor"} \cup (DOMAIN t[8].payload \ {"candidate", "artifact"})
        /\ g.qa.event = t[8].id
        /\ \A f \in DOMAIN t[8].payload \ {"candidate", "artifact"} : g.qa[f] = t[8].payload[f]
    BY <2>1, M1Domains, GenerationProjected
  <2>3. g.qa.conclusion = "PASS"
    BY <2>2, M1Domains DEF M1!Accepts, M1!VerdictHolds
  <2>4. DOMAIN g.accepted = ObservedM1Fields.accepted[2]
    BY <2>2, M1Domains DEF ObservedM1Fields
  <2>5. DOMAIN g.qa = ObservedM1Fields.qa[2]
    BY <2>2, M1Domains DEF ObservedM1Fields
  <2>6. g.accepted.candidate = t[7].payload.candidate BY <2>2, M1Domains
  <2> QED BY <2>2, <2>3, <2>4, <2>5, <2>6 DEF g
<1> QED BY <1>1, <1>2, <1>3, <1>4, <1>5, <1>6, <1>7, <1>8, <1>9

\* The field tables of the last two programs agree where both have one.
LEMMA M1TablesAgree ==
  /\ StatusFields["m1"].binding = ObservedM1Fields.binding
  /\ StatusFields["m1"].controller = ObservedM1Fields.controller
  /\ StatusFields["m1"].telos = ObservedM1Fields.telos
  /\ StatusFields["m1"].accepted[1] = ObservedM1Fields.accepted[1]
  /\ StatusFields["m1"].accepted[2] = ObservedM1Fields.accepted[2]
  /\ StatusFields["m1"].qa[1] = ObservedM1Fields.qa[1]
  /\ StatusFields["m1"].qa[2] = ObservedM1Fields.qa[2]
<1>1. /\ StatusFields["m1"].binding = ObservedM1Fields.binding
      /\ StatusFields["m1"].controller = ObservedM1Fields.controller
      /\ StatusFields["m1"].telos = ObservedM1Fields.telos
  BY DEF StatusFields, ObservedM1Fields
<1>2. /\ StatusFields["m1"].accepted[1] = ObservedM1Fields.accepted[1]
      /\ StatusFields["m1"].accepted[2] = ObservedM1Fields.accepted[2]
  BY DEF StatusFields, ObservedM1Fields
<1>3. StatusFields["m1"].qa[1] = ObservedM1Fields.qa[1]
  <2>1. StatusFields["m1"].qa[1] = {"accepted", "actor", "conclusion", "event", "obligation",
                                    "findingDigest", "finding"}
    BY DEF StatusFields
  <2>2. ObservedM1Fields.qa[1] = {"accepted", "actor", "conclusion", "event",
                                  "findingDigest", "finding", "obligation"}
    BY DEF ObservedM1Fields
  <2> QED BY <2>1, <2>2
<1>4. StatusFields["m1"].qa[2] = ObservedM1Fields.qa[2]
  BY DEF StatusFields, ObservedM1Fields
<1> QED BY <1>1, <1>2, <1>3, <1>4

LEMMA M1Terminal ==
  ASSUME NEW p, p.profile # "m0", NEW s, NEW terminal, terminal = Terminal(p, s),
         DOMAIN s.history[2].accepted = ObservedM1Fields.accepted[2]
  PROVE  /\ terminal.generation = s.history[2].generation
         /\ terminal.candidate = s.history[2].accepted.candidate
<1>1. terminal = M1!Beside([generation |-> s.history[2].generation], s.history[2].accepted)
  BY DEF Terminal
<1>2. "candidate" \in DOMAIN s.history[2].accepted BY DEF ObservedM1Fields
<1> QED BY <1>1, <1>2 DEF M1!Beside

LEMMA M1Observed ==
  ASSUME NEW p, NEW trace, NEW r, r = Verify(p, trace), r # Refused, p.profile # "m0",
         NEW s, s = M1!Projection(trace.records)
  PROVE  /\ ObservableCommon(r) /\ ObservableM1(r)
         /\ M1!Accepts(trace.records) /\ r.profile = "m1" /\ r.version = "m1"
         /\ r.state = "telos_adjudicated" /\ r.source = s /\ r.final = p.final
         /\ DOMAIN p.final = FinalFields \cup {"accepted", "procedure"}
         /\ p.final.candidate = s.history[2].accepted.candidate
         /\ DOMAIN r.gates.verification = ObservedFields.verification
         /\ r.gates.verification.generation = s.history[2].generation
         /\ r.gates.verification.conclusion = s.history[2].qa.conclusion
         /\ r.gates.verification.event = s.history[2].qa.event
         /\ r.gates.remediation =
              [represented |-> TRUE, budget |-> s.budget, remediation |-> s.remediation]
         /\ r.gates.controller = s.controller /\ r.gates.telos = s.telos
<1>0. SourceProjection(p, trace) = s BY DEF SourceProjection
<1>1. /\ PacketHolds(p) /\ SourceHolds(p, trace) /\ BindsSource(p, s)
      /\ r = [verdict |-> "projected", profile |-> p.profile, program |-> p.program,
              state |-> "telos_adjudicated", purpose |-> p.purpose, attention |-> p.attention,
              insight |-> p.insight, procedure |-> p.procedure, final |-> p.final,
              digest |-> p.digest, version |-> p.version, source |-> s,
              gates |-> M1!Beside(LineageGates(p),
                [verification |-> VerificationGate(p, s), remediation |-> RemediationGate(p, s),
                 controller |-> s.controller, telos |-> s.telos])]
  BY <1>0, VerifiedWhole
<1>2. /\ p.profile = "m1" /\ p.version = "m1" /\ M1!Accepts(trace.records)
      /\ DOMAIN p.final = FinalFields \cup {"accepted", "procedure"}
  BY <1>1 DEF SourceHolds, PacketHolds, PacketFields
<1>3. /\ r.profile = "m1" /\ r.version = "m1" /\ r.state = "telos_adjudicated"
      /\ r.source = s /\ r.final = p.final /\ DOMAIN r = ObservedFields.root
  BY <1>1, <1>2 DEF ObservedFields
<1>4. r.gates = M1!Beside(LineageGates(p),
        [verification |-> VerificationGate(p, s), remediation |-> RemediationGate(p, s),
         controller |-> s.controller, telos |-> s.telos])
  BY <1>1
<1>5. /\ DOMAIN r.gates = ObservedFields.gates
      /\ r.gates.verification = VerificationGate(p, s)
      /\ r.gates.remediation = RemediationGate(p, s)
      /\ r.gates.controller = s.controller /\ r.gates.telos = s.telos
  BY <1>4, GatesWhole
<1>6. /\ DOMAIN s = ObservedM1Fields.source
      /\ s.version = "m1" /\ s.state = "telos_adjudicated"
      /\ \A f \in {"binding", "delegation", "budget", "remediation", "success", "controller",
                   "telos"} : DOMAIN s[f] = ObservedM1Fields[f]
      /\ Len(s.history) = 2
      /\ \A i \in 1..2 : /\ DOMAIN s.history[i] = {"accepted", "generation", "qa"}
                         /\ DOMAIN s.history[i].accepted = ObservedM1Fields.accepted[i]
                         /\ DOMAIN s.history[i].qa = ObservedM1Fields.qa[i]
  BY <1>2, M1Projected
<1>7. DOMAIN s.history[2].accepted = ObservedM1Fields.accepted[2] BY <1>6
<1>8. /\ Terminal(p, s).generation = s.history[2].generation
      /\ Terminal(p, s).candidate = s.history[2].accepted.candidate
  BY <1>2, <1>7, M1Terminal
<1>9. p.final.candidate = s.history[2].accepted.candidate
  BY <1>1, <1>8 DEF BindsSource, FinalFields
<1>10. /\ DOMAIN VerificationGate(p, s) = ObservedFields.verification
       /\ VerificationGate(p, s).generation = s.history[2].generation
       /\ VerificationGate(p, s).conclusion = s.history[2].qa.conclusion
       /\ VerificationGate(p, s).event = s.history[2].qa.event
  BY <1>2, <1>8 DEF VerificationGate, TerminalVerdict, ObservedFields
<1>11. RemediationGate(p, s) =
         [represented |-> TRUE, budget |-> s.budget, remediation |-> s.remediation]
  BY <1>2 DEF RemediationGate
<1>12. ObservableCommon(r)
  <2>1. DOMAIN r.final = ObservedFields.final BY <1>2, <1>3 DEF ObservedFields
  <2> QED BY <1>3, <1>5, <1>10, <2>1 DEF ObservableCommon
<1>13. ObservableM1(r)
  <2>1. /\ DOMAIN r.gates.remediation = {"represented", "budget", "remediation"}
        /\ r.gates.remediation.represented
        /\ \A f \in {"budget", "remediation"} :
              DOMAIN r.gates.remediation[f] = ObservedM1Fields[f]
    BY <1>5, <1>6, <1>11
  <2>2. \A f \in {"controller", "telos"} : DOMAIN r.gates[f] = ObservedM1Fields[f]
    BY <1>5, <1>6
  <2> QED BY <1>3, <1>6, <2>1, <2>2 DEF ObservableM1
<1> QED BY <1>2, <1>3, <1>5, <1>9, <1>10, <1>11, <1>12, <1>13

LEMMA M1Explained ==
  ASSUME NEW p, NEW trace, Verify(p, trace) # Refused, p.profile # "m0",
         NEW t, t = trace.records, NEW status, status = Explain(p, trace)
  PROVE  /\ status # Refused /\ M1!Accepts(t)
         /\ status.event = t[8].id /\ status.candidate = t[7].payload.candidate
         /\ status.telos.evidence = t[11].payload.evidence
         /\ DOMAIN status.generations = {1, 2}
         /\ status.generations[1].accepted = t[4].id /\ status.generations[1].qa = t[5].id
         /\ status.generations[2].accepted = t[7].id /\ status.generations[2].qa = t[8].id
<1> DEFINE r == Verify(p, trace)
           s == M1!Projection(t)
           o == Observe(r)
<1>1. /\ ObservableCommon(r) /\ ObservableM1(r)
      /\ M1!Accepts(t) /\ r.profile = "m1" /\ r.version = "m1"
      /\ r.state = "telos_adjudicated" /\ r.source = s /\ r.final = p.final
      /\ DOMAIN p.final = FinalFields \cup {"accepted", "procedure"}
      /\ p.final.candidate = s.history[2].accepted.candidate
      /\ DOMAIN r.gates.verification = ObservedFields.verification
      /\ r.gates.verification.generation = s.history[2].generation
      /\ r.gates.verification.conclusion = s.history[2].qa.conclusion
      /\ r.gates.verification.event = s.history[2].qa.event
      /\ r.gates.remediation =
           [represented |-> TRUE, budget |-> s.budget, remediation |-> s.remediation]
      /\ r.gates.controller = s.controller /\ r.gates.telos = s.telos
  BY M1Observed
<1>2. /\ s.state = "telos_adjudicated"
      /\ \A f \in {"binding", "delegation", "budget", "remediation", "success", "controller",
                   "telos"} : DOMAIN s[f] = ObservedM1Fields[f]
      /\ Len(s.history) = 2 /\ DOMAIN s.history = {1, 2}
      /\ \A i \in 1..2 : /\ DOMAIN s.history[i].accepted = ObservedM1Fields.accepted[i]
                         /\ DOMAIN s.history[i].qa = ObservedM1Fields.qa[i]
                         /\ s.history[i].generation = i
      /\ s.history[1].qa.conclusion = "FAIL" /\ s.history[2].qa.conclusion = "PASS"
      /\ s.history[1].accepted.event = t[4].id /\ s.history[1].qa.event = t[5].id
      /\ s.history[2].accepted.event = t[7].id /\ s.history[2].qa.event = t[8].id
      /\ s.history[2].accepted.candidate = t[7].payload.candidate
      /\ s.telos.evidence = t[11].payload.evidence
  <2>1. s = M1!Projection(t) /\ M1!Accepts(t) BY <1>1
  <2> HIDE DEF r, s
  <2>2. s.state = "telos_adjudicated"
        /\ \A f \in {"binding", "delegation", "budget", "remediation", "success",
                     "controller", "telos"} : DOMAIN s[f] = ObservedM1Fields[f]
    BY <2>1, M1Projected
  <2>3. Len(s.history) = 2 /\ DOMAIN s.history = {1, 2} BY <2>1, M1Projected
  <2>4. \A i \in 1..2 : /\ DOMAIN s.history[i].accepted = ObservedM1Fields.accepted[i]
                        /\ DOMAIN s.history[i].qa = ObservedM1Fields.qa[i]
                        /\ s.history[i].generation = i
    BY <2>1, M1Projected
  <2>5. /\ s.history[1].qa.conclusion = "FAIL" /\ s.history[2].qa.conclusion = "PASS"
        /\ s.history[1].accepted.event = t[4].id /\ s.history[1].qa.event = t[5].id
        /\ s.history[2].accepted.event = t[7].id /\ s.history[2].qa.event = t[8].id
        /\ s.history[2].accepted.candidate = t[7].payload.candidate
        /\ s.telos.evidence = t[11].payload.evidence
    BY <2>1, M1Projected
  <2> QED BY <2>2, <2>3, <2>4, <2>5
<1>3. r # Refused /\ status = Status(o) BY DEF Explain
<1> HIDE DEF r, s
<1>4. /\ o # Refused
      /\ DOMAIN o = {"verdict", "subject", "evidence", "qa", "remediation", "controller",
                     "telos"}
      /\ o.subject.state = r.state /\ o.subject.profile = r.profile
      /\ o.subject.source.version = r.version
      /\ o.subject.source.state = r.source.state
      /\ o.subject.source.binding = r.source.binding
      /\ o.evidence.final = r.final
      /\ DOMAIN o.evidence.lineage = {"attention", "procedure", "final"}
      /\ o.qa.history = HistoryOf(r) /\ o.qa.terminal = r.gates.verification
      /\ o.remediation = r.gates.remediation /\ o.controller = r.gates.controller
      /\ DOMAIN o.telos = {"delegation", "adjudication"}
      /\ o.telos.adjudication = r.gates.telos
  BY <1>1, <1>3, ObservedWhole
<1> HIDE DEF o
<1>5. o.qa.history = s.history BY <1>1, <1>4 DEF HistoryOf
<1>6. StatusCommon(o)
  <2>1. DOMAIN o.subject.source.binding = StatusFields["m1"].binding
    BY <1>1, <1>2, <1>4, M1TablesAgree
  <2> QED BY <1>1, <1>2, <1>4, <2>1 DEF StatusCommon
<1>7. QaHolds(o.qa, "m1")
  <2>1. /\ DOMAIN s.history[1].accepted = StatusFields["m1"].accepted[1]
        /\ DOMAIN s.history[2].accepted = StatusFields["m1"].accepted[2]
    BY <1>2, M1TablesAgree
  <2>2. /\ DOMAIN s.history[1].qa = StatusFields["m1"].qa[1]
        /\ DOMAIN s.history[2].qa = StatusFields["m1"].qa[2]
    BY <1>2, M1TablesAgree
  <2>3. \A i \in {1, 2} :
          /\ o.qa.history[i].generation = i
          /\ DOMAIN o.qa.history[i].accepted = StatusFields["m1"].accepted[i]
          /\ DOMAIN o.qa.history[i].qa = StatusFields["m1"].qa[i]
          /\ o.qa.history[i].qa.conclusion = IF i = 1 THEN "FAIL" ELSE "PASS"
    BY <1>2, <1>5, <2>1, <2>2
  <2>4. /\ o.qa.terminal.generation = 2 /\ o.qa.terminal.conclusion = "PASS"
    BY <1>1, <1>2, <1>4
  <2> QED BY <1>2, <1>5, <2>3, <2>4 DEF QaHolds
<1>8. RemediationHolds(o.remediation, "m1")
  <2>1. o.remediation = [represented |-> TRUE, budget |-> s.budget,
                         remediation |-> s.remediation]
    BY <1>1, <1>4
  <2>2. /\ DOMAIN o.remediation = {"represented", "budget", "remediation"}
        /\ o.remediation.represented = TRUE
        /\ o.remediation.budget = s.budget /\ o.remediation.remediation = s.remediation
    BY <2>1
  <2>3. StatusFields["m1"].remediation = {"represented", "budget", "remediation"}
    BY DEF StatusFields
  <2> QED BY <1>2, <2>2, <2>3 DEF RemediationHolds
<1>9. /\ DOMAIN o.controller = StatusFields["m1"].controller
      /\ DOMAIN o.telos.adjudication = StatusFields["m1"].telos
      /\ "evidence" \in DOMAIN o.telos.adjudication
  <2>1. "evidence" \in ObservedM1Fields.telos BY DEF ObservedM1Fields
  <2> QED BY <1>1, <1>2, <1>4, <2>1, M1TablesAgree
<1>10. /\ status # Refused
       /\ status.event = o.qa.terminal.event
       /\ status.candidate = o.evidence.final.candidate
       /\ status.telos.evidence = o.telos.adjudication.evidence
       /\ DOMAIN status.generations = DOMAIN o.qa.history
       /\ \A i \in DOMAIN o.qa.history :
            /\ status.generations[i].accepted = o.qa.history[i].accepted.event
            /\ status.generations[i].qa = o.qa.history[i].qa.event
  <2>1. /\ DOMAIN o.controller = StatusFields[o.subject.profile].controller
        /\ DOMAIN o.telos.adjudication = StatusFields[o.subject.profile].telos
        /\ QaHolds(o.qa, o.subject.profile) /\ RemediationHolds(o.remediation, o.subject.profile)
    BY <1>1, <1>4, <1>7, <1>8, <1>9
  <2> QED BY <1>3, <1>4, <1>6, <1>9, <2>1, StatusWhole
<1> QED BY <1>1, <1>2, <1>4, <1>5, <1>10

-----------------------------------------------------------------------------
\* What a status says is in the trace.

LEMMA FourthAppended ==
  ASSUME NEW a, NEW b, NEW c, NEW d
  PROVE  Append(<<a, b, c>>, d) = <<a, b, c, d>>
<1> DEFINE S == {a, b, c, d}
<1>1. <<a, b, c>> \in Seq(S) /\ d \in S OBVIOUS
<1>2. <<a, b, c, d>> \in Seq(S) /\ Len(<<a, b, c, d>>) = 4 OBVIOUS
<1>3. Append(<<a, b, c>>, d) \in Seq(S) /\ Len(Append(<<a, b, c>>, d)) = 4
  BY <1>1, AppendProperties
<1>4. \A i \in 1..4 : Append(<<a, b, c>>, d)[i] = <<a, b, c, d>>[i]
  BY <1>1
<1> HIDE DEF S
<1> QED BY <1>2, <1>3, <1>4, SeqEqual

LEMMA M0Evidence ==
  ASSUME NEW t, M0!Accepts(t)
  PROVE  /\ t[4].id \in ToSet(t[8].payload.evidence) /\ t[5].id \in ToSet(t[8].payload.evidence)
         /\ t[5].payload.conclusion = "PASS" /\ t[5].payload.accepted = t[4].id
         /\ t[4].payload.implementer # t[5].actor
         /\ DOMAIN t = 1..8
         /\ \A i \in DOMAIN t : t[i].type \in {"generation.accepted", "verification.adjudicated"}
                                  => i \in {4, 5}
<1>1. t[8].payload.evidence = Append(<<t[4].id, t[5].id, t[6].id>>, t[7].id)
  BY DEF M0!Accepts, M0!ResultHolds, M0!TelosHolds
<1>2. t[8].payload.evidence = <<t[4].id, t[5].id, t[6].id, t[7].id>> BY <1>1, FourthAppended
<1>3. t[4].id \in ToSet(t[8].payload.evidence) /\ t[5].id \in ToSet(t[8].payload.evidence)
  BY <1>2 DEF ToSet
<1>4. t[5].payload.conclusion = "PASS" /\ t[5].payload.accepted = t[4].id
      /\ t[4].payload.implementer # t[5].actor
  BY DEF M0!Accepts, M0!VerdictHolds
<1>5. DOMAIN t = 1..8 /\ \A i \in DOMAIN t : t[i].type = M0!Transitions[i][1]
  <2>1. DOMAIN M0!Transitions = 1..8 BY DEF M0!Transitions
  <2> QED BY <2>1 DEF M0!Accepts, M0!RecordsFollow
<1>6. \A i \in 1..8 :
        M0!Transitions[i][1] \in {"generation.accepted", "verification.adjudicated"}
          => i \in {4, 5}
  BY DEF M0!Transitions
<1> QED BY <1>3, <1>4, <1>5, <1>6

LEMMA M1Evidence ==
  ASSUME NEW t, M1!Accepts(t)
  PROVE  /\ \A i \in {4, 5, 7, 8} : t[i].id \in ToSet(t[11].payload.evidence)
         /\ t[8].payload.conclusion = "PASS" /\ t[8].payload.accepted = t[7].id
         /\ t[7].payload.implementer # t[8].actor
         /\ DOMAIN t = 1..11
         /\ \A i \in DOMAIN t : t[i].type \in {"generation.accepted", "verification.adjudicated"}
                                  => i \in {4, 5, 7, 8}
<1>1. t[11].payload.evidence = [i \in 1..7 |-> t[i + 3].id]
  BY DEF M1!Accepts, M1!TelosHolds
<1>2. \A i \in {4, 5, 7, 8} : t[i].id \in ToSet(t[11].payload.evidence)
  <2> SUFFICES ASSUME NEW i \in {4, 5, 7, 8} PROVE t[i].id \in ToSet(t[11].payload.evidence)
    OBVIOUS
  <2>1. i - 3 \in 1..7 /\ (i - 3) + 3 = i OBVIOUS
  <2>2. t[11].payload.evidence[i - 3] = t[i].id /\ i - 3 \in DOMAIN t[11].payload.evidence
    BY <1>1, <2>1
  <2> QED BY <2>2 DEF ToSet
<1>3. t[8].payload.conclusion = "PASS" /\ t[8].payload.accepted = t[7].id
  BY DEF M1!Accepts, M1!VerdictHolds
<1>4. DOMAIN t = 1..11 /\ \A i \in DOMAIN t : t[i].type = M1!Transitions[i][1]
  <2>1. DOMAIN M1!Transitions = 1..11 BY DEF M1!Transitions
  <2> QED BY <2>1 DEF M1!Accepts, M1!RecordsFollow
<1>5. \A i \in 1..11 :
        M1!Transitions[i][1] \in {"generation.accepted", "verification.adjudicated"}
          => i \in {4, 5, 7, 8}
  BY DEF M1!Transitions
<1>6. t[7].payload.implementer # t[8].actor
  <2>1. t[8].role = M1!ExpectedRoles[8] BY <1>4 DEF M1!Accepts, M1!RecordsFollow
  <2>2. t[8].role = "qa" BY <2>1 DEF M1!ExpectedRoles
  <2>3. t[8].actor = t[1].payload.qa BY <1>4, <2>2 DEF M1!Accepts, M1!ActorsAreDelegated
  <2>4. t[7].payload.implementer = t[1].payload.implementer
    BY DEF M1!Accepts, M1!GenerationsDiffer
  <2>5. \A r, q \in M1!Roles : r # q => t[1].payload[r] # t[1].payload[q]
    BY DEF M1!Accepts, M1!DelegationHolds
  <2>6. t[1].payload.implementer # t[1].payload.qa BY <2>5 DEF M1!Roles
  <2> QED BY <2>3, <2>4, <2>6
<1> QED BY <1>2, <1>3, <1>4, <1>5, <1>6

\* Whatever the first program accepts, the other two explain, and what they
\* say of it is in the trace.
LEMMA VerifiedIsExplained ==
  ASSUME NEW p, NEW trace, Verify(p, trace) # Refused,
         NEW t, t = trace.records, NEW status, status = Explain(p, trace)
  PROVE  /\ status # Refused
         /\ \E i \in DOMAIN t :
              /\ t[i].id = status.event /\ t[i].payload.conclusion = "PASS"
              /\ \E j \in 1..(i - 1) :
                   /\ t[j].id = t[i].payload.accepted
                   /\ t[j].payload.candidate = status.candidate
                   /\ t[j].payload.implementer # t[i].actor
         /\ \A i \in DOMAIN t :
              t[i].type \in {"generation.accepted", "verification.adjudicated"} =>
                /\ t[i].id \in ToSet(status.telos.evidence)
                /\ \E g \in DOMAIN status.generations :
                      t[i].id \in {status.generations[g].accepted, status.generations[g].qa}
<1>1. CASE p.profile = "m0"
  <2>1. /\ status # Refused /\ M0!Accepts(t)
        /\ status.event = t[5].id /\ status.candidate = t[4].payload.candidate
        /\ status.telos.evidence = t[8].payload.evidence
        /\ DOMAIN status.generations = {1}
        /\ status.generations[1].accepted = t[4].id /\ status.generations[1].qa = t[5].id
    BY <1>1, M0Explained
  <2>2. /\ t[4].id \in ToSet(t[8].payload.evidence) /\ t[5].id \in ToSet(t[8].payload.evidence)
        /\ t[5].payload.conclusion = "PASS" /\ t[5].payload.accepted = t[4].id
        /\ t[4].payload.implementer # t[5].actor
        /\ DOMAIN t = 1..8
        /\ \A i \in DOMAIN t : t[i].type \in {"generation.accepted", "verification.adjudicated"}
                                 => i \in {4, 5}
    BY <2>1, M0Evidence
  <2>3. 5 \in DOMAIN t /\ 4 \in 1..(5 - 1) BY <2>2
  <2>4. \A i \in {4, 5} :
          /\ t[i].id \in ToSet(status.telos.evidence)
          /\ t[i].id \in {status.generations[1].accepted, status.generations[1].qa}
    BY <2>1, <2>2
  <2> QED BY <2>1, <2>2, <2>3, <2>4
<1>2. CASE p.profile # "m0"
  <2>1. /\ status # Refused /\ M1!Accepts(t)
        /\ status.event = t[8].id /\ status.candidate = t[7].payload.candidate
        /\ status.telos.evidence = t[11].payload.evidence
        /\ DOMAIN status.generations = {1, 2}
        /\ status.generations[1].accepted = t[4].id /\ status.generations[1].qa = t[5].id
        /\ status.generations[2].accepted = t[7].id /\ status.generations[2].qa = t[8].id
    BY <1>2, M1Explained
  <2>2. /\ \A i \in {4, 5, 7, 8} : t[i].id \in ToSet(t[11].payload.evidence)
        /\ t[8].payload.conclusion = "PASS" /\ t[8].payload.accepted = t[7].id
        /\ t[7].payload.implementer # t[8].actor
        /\ DOMAIN t = 1..11
        /\ \A i \in DOMAIN t : t[i].type \in {"generation.accepted", "verification.adjudicated"}
                                 => i \in {4, 5, 7, 8}
    BY <2>1, M1Evidence
  <2>3. 8 \in DOMAIN t /\ 7 \in 1..(8 - 1) BY <2>2
  <2>4. \A i \in {4, 5, 7, 8} :
          /\ t[i].id \in ToSet(status.telos.evidence)
          /\ \E g \in {1, 2} :
                t[i].id \in {status.generations[g].accepted, status.generations[g].qa}
    BY <2>1, <2>2
  <2> QED BY <2>1, <2>2, <2>3, <2>4
<1> QED BY <1>1, <1>2

(* The three programs, run one after another, say the same of one trace:   *)
(* what the first projects the other two explain, and a status names a     *)
(* passing verdict of the trace, the candidate accepted before it by       *)
(* another actor's work, and the evidence of every acceptance and verdict  *)
(* (development_verified_change.py:454-487,                                *)
(* development_verified_change_observe.py:532-593,                         *)
(* development_verified_change_status.py:470-503).                         *)
THEOREM SourcesStayExplained == Spec => []SourcesAreExplained
<1>1. ProjectionsAreExplained
  BY VerifiedIsExplained DEF ProjectionsAreExplained
<1>2. StatusIsGrounded
  <2> DEFINE status == Explain(Sealed, source)
             t == source.records
  <2>1. SUFFICES ASSUME status # Refused
                 PROVE  /\ \E i \in {i \in DOMAIN t : t[i].id = status.event} :
                             /\ t[i].payload.conclusion = "PASS"
                             /\ \E j \in 1..(i - 1) :
                                  /\ t[j].id = t[i].payload.accepted
                                  /\ t[j].payload.candidate = status.candidate
                                  /\ t[j].payload.implementer # t[i].actor
                        /\ \A i \in DOMAIN t :
                             t[i].type \in {"generation.accepted", "verification.adjudicated"} =>
                               /\ t[i].id \in ToSet(status.telos.evidence)
                               /\ \E g \in DOMAIN status.generations :
                                    t[i].id \in {status.generations[g].accepted,
                                                 status.generations[g].qa}
    BY DEF StatusIsGrounded
  <2>2. Verify(Sealed, source) # Refused
    <3>1. Observe(Verify(Sealed, source)) # Refused BY <2>1 DEF Explain, Status
    <3> QED BY <3>1 DEF Observe
  <2> QED BY <2>2, VerifiedIsExplained
<1>3. SourcesAreExplained BY <1>1, <1>2 DEF SourcesAreExplained
<1> QED BY <1>3, PTL

-----------------------------------------------------------------------------
(* The copies of a run.                                                    *)

HistoryRecord   == [steps : Nat, open : BOOLEAN,
                    state : {"unfinished", "awaiting_review", "failed", "accepted", "rejected"}]
AuthorityRecord == [turn : Nat,
                    status : {"none", "ready", "running", "completed", "failed", "cancelled"}]
KeptRecord      == [turns : Nat, group : {"none", "unknown", "alive", "gone"}]
Moment          == [events : HistoryRecord, controller : AuthorityRecord, files : KeptRecord]
Copies          == [events : HistoryRecord \cup {"unread"},
                    controller : AuthorityRecord \cup {"unread"}, files : KeptRecord \cup {"unread"}]
Part            == {"files", "controller", "events"}
Lock            == {"application", "driver"}

CopyStages  == {"copying events", "copying controller", "copying files", "bundling"}
WalkStages  == {"inspecting", "protecting", "reinspecting"}
Stages      == {"idle", "locking application", "locking driver", "checking", "rechecking",
                "extracted", "moving", "comparing"} \cup CopyStages \cup WalkStages

Serves      == {"begun", "spawned", "acting", "ended", "submitting"}
Drives      == Serves \cup {"driving", "leaving"}

MaintainerSet == [stage : Stages, held : BOOLEAN, part : 1 .. 3, first : Copies, last : Copies,
                  exposed : SUBSET Part]

RunTypes ==
  /\ program \in {"harness", "reviewed"}
  /\ history \in HistoryRecord /\ authority \in AuthorityRecord /\ kept \in KeptRecord
  /\ modes \in [Part -> {"broad", "private"}]
  /\ locks \in [Lock -> {"free", "driver", "maintainer"}]

ArchiveTypes ==
  /\ RunTypes
  /\ moments \subseteq Moment
  /\ bundle \in [state : {"absent", "torn", "whole"}, holds : Copies]
  /\ restored \in [state : {"absent", "whole"}, holds : Copies]
  /\ inventory \in [state : {"absent", "whole"}, holds : Copies, exposed : SUBSET Part]
  /\ maintainer \in MaintainerSet

\* What drives a run is of its program; a driver at work holds its lock, and an
\* activation is running while it serves it.
Driven ==
  /\ program = "harness" =>
       /\ authority.status # "none" /\ history.state = "unfinished"
       /\ driver \in Drives \cup {"away", "launched"}
  /\ program = "reviewed" =>
       /\ authority.status = "none" /\ driver \in {"away", "between", "stepping", "retaining"}
  /\ driver \in Drives => locks["driver"] = "driver"
  /\ driver \in Serves => authority.status = "running"

\* An export holds the application's lock, then both, until it is over.
Excluded ==
  /\ Stands("locking driver") => locks["application"] = "maintainer"
  /\ maintainer.stage \in CopyStages \cup {"checking", "rechecking"} =>
       \A l \in Lock : locks[l] = "maintainer"

\* What an export has copied of a quiescent harness run is what the run is.
CopiedWhole ==
  program = "harness" =>
    /\ maintainer.stage \in CopyStages => Quiescent(Contents, TRUE)
    /\ maintainer.stage \in {"copying controller", "copying files", "bundling"} =>
         maintainer.first.events = history
    /\ maintainer.stage \in {"copying files", "bundling"} => maintainer.first.controller = authority
    /\ Stands("bundling") => maintainer.first.files = kept

\* What is carried from a bundle to a new root.
Carried ==
  /\ program = "harness" =>
       /\ bundle.state = "whole" => bundle.holds \in moments
       /\ maintainer.stage \in {"extracted", "moving"} => maintainer.first \in moments
  /\ Stands("moving") => Quiescent(maintainer.first, TRUE)

\* The record of events and the authority only move on: no value comes twice.
EventsRank(h) ==
  2 * h.steps + (IF h.open THEN 1 ELSE 0)
    + (IF h.state = "unfinished" THEN 0 ELSE IF h.state \in {"accepted", "rejected"} THEN 2 ELSE 1)
AuthorityRank(a) ==
  3 * a.turn + (IF a.status = "ready" THEN 0 ELSE IF a.status = "running" THEN 1 ELSE 2)

EventsBefore(h, other)    == h = other \/ EventsRank(h) < EventsRank(other)
AuthorityBefore(a, other) == a = other \/ AuthorityRank(a) < AuthorityRank(other)

\* How far the first and the last walk of a protection have read.
ReadFirst(part) ==
  \/ maintainer.stage \in {"protecting", "reinspecting", "comparing"}
  \/ Stands("inspecting") /\ part < maintainer.part
ReadLast(part) == Stands("comparing") \/ (Stands("reinspecting") /\ part < maintainer.part)

\* A moment between the two readings of authority and events had the files
\* that were read last.
Between(m) ==
  /\ m.files = maintainer.last.files
  /\ AuthorityBefore(maintainer.first.controller, m.controller)
  /\ EventsBefore(maintainer.first.events, m.events)
  /\ AuthorityBefore(m.controller, IF ReadLast(2) THEN maintainer.last.controller ELSE authority)
  /\ EventsBefore(m.events, IF ReadLast(3) THEN maintainer.last.events ELSE history)

Walks ==
  /\ ReadFirst(1) => maintainer.first.files \in KeptRecord
  /\ ReadFirst(2) => /\ maintainer.first.controller \in AuthorityRecord
                     /\ AuthorityBefore(maintainer.first.controller, authority)
  /\ ReadFirst(3) => /\ maintainer.first.events \in HistoryRecord
                     /\ EventsBefore(maintainer.first.events, history)
  /\ ReadLast(1) => \E m \in moments : Between(m)
  /\ ReadLast(2) => /\ maintainer.last.controller \in AuthorityRecord
                    /\ AuthorityBefore(maintainer.last.controller, authority)
  /\ ReadLast(3) => /\ maintainer.last.events \in HistoryRecord
                    /\ EventsBefore(maintainer.last.events, history)

\* What the last walk of a protection of a harness run found private is so.
Protected ==
  program = "harness" => \A i \in 1 .. 3 :
    ReadLast(i) => Parts[i] \in maintainer.exposed \/ modes[Parts[i]] = "private"

ArchiveInv ==
  /\ ArchiveTypes /\ Contents \in moments
  /\ Driven /\ Excluded /\ CopiedWhole /\ Carried /\ Walks /\ Protected
  /\ CopiesAreTrue

-----------------------------------------------------------------------------
(* A step of the run.                                                      *)

AtRest == \A l \in Lock : locks[l] = "maintainer"

\* What every step of the run does: it keeps its types and what drives it, the
\* record of events and the authority move on or stay, no lock of a maintainer
\* is taken or given back, and a harness run that rests does not change.
Advances ==
  /\ RunTypes' /\ Driven'
  /\ EventsBefore(history, history') /\ AuthorityBefore(authority, authority')
  /\ \A l \in Lock : (locks[l] = "maintainer") <=> (locks'[l] = "maintainer")
  /\ program = "harness" => modes' = modes
  /\ UNCHANGED maintenance
  /\ (program = "harness" /\ AtRest /\ Quiescent(Contents, TRUE)) => UNCHANGED theRun

\* How the record of events moves on.
LEMMA EventsMove ==
  ASSUME NEW h \in HistoryRecord
  PROVE  /\ EventsBefore(h, h)
         /\ EventsBefore(h, [h EXCEPT !.open = TRUE])
         /\ EventsBefore(h, [h EXCEPT !.open = FALSE, !.steps = @ + 1])
         /\ h.state = "unfinished" => \A s \in {"awaiting_review", "failed"} :
              EventsBefore(h, [h EXCEPT !.state = s])
         /\ h.state = "awaiting_review" => \A s \in {"accepted", "rejected"} :
              EventsBefore(h, [h EXCEPT !.state = s])
<1> USE DEF HistoryRecord, EventsBefore, EventsRank
<1>0. h.steps \in Nat /\ h.open \in BOOLEAN OBVIOUS
<1>1. EventsBefore(h, h) OBVIOUS
<1>2. EventsBefore(h, [h EXCEPT !.open = TRUE])
  <2> DEFINE g == [h EXCEPT !.open = TRUE]
  <2>1. g.open = TRUE /\ g.steps = h.steps /\ g.state = h.state OBVIOUS
  <2>2. CASE h.open BY <2>2
  <2>3. CASE ~h.open BY <2>1, <2>3, <1>0
  <2> QED BY <2>2, <2>3, <1>0
<1>3. EventsBefore(h, [h EXCEPT !.open = FALSE, !.steps = @ + 1])
  <2> DEFINE g == [h EXCEPT !.open = FALSE, !.steps = @ + 1]
  <2>1. g.open = FALSE /\ g.steps = h.steps + 1 /\ g.state = h.state BY <1>0
  <2> QED BY <2>1, <1>0
<1>4. ASSUME h.state = "unfinished", NEW s \in {"awaiting_review", "failed"}
      PROVE  EventsBefore(h, [h EXCEPT !.state = s])
  <2> DEFINE g == [h EXCEPT !.state = s]
  <2>1. g.open = h.open /\ g.steps = h.steps /\ g.state = s OBVIOUS
  <2> QED BY <2>1, <1>0, <1>4
<1>5. ASSUME h.state = "awaiting_review", NEW s \in {"accepted", "rejected"}
      PROVE  EventsBefore(h, [h EXCEPT !.state = s])
  <2> DEFINE g == [h EXCEPT !.state = s]
  <2>1. g.open = h.open /\ g.steps = h.steps /\ g.state = s OBVIOUS
  <2> QED BY <2>1, <1>0, <1>5
<1> QED BY <1>1, <1>2, <1>3, <1>4, <1>5

LEMMA StepTyped ==
  ASSUME NEW h \in HistoryRecord
  PROVE  [h EXCEPT !.open = FALSE, !.steps = @ + 1] \in HistoryRecord
<1> DEFINE g == [h EXCEPT !.open = FALSE, !.steps = @ + 1]
<1>1. PICK n \in Nat : n = h.steps BY DEF HistoryRecord
<1>2. n + 1 \in Nat OBVIOUS
<1>3. g = [h EXCEPT !.open = FALSE, !.steps = n + 1] BY <1>1 DEF HistoryRecord
<1>4. PICK m \in Nat : m = n + 1 BY <1>2
<1> QED BY <1>3, <1>4 DEF HistoryRecord

LEMMA LaunchAdvances ==
  ASSUME RunTypes, Driven, LaunchDriver \/ TakeDriverLock \/ LeaveRun \/ DriverIsKilled
  PROVE  Advances
<1> USE DEF RunTypes, Driven, Serves, Drives, Lock, Released, theRun, maintenance, Advances,
            EventsBefore, AuthorityBefore, Free
<1>1. CASE LaunchDriver BY <1>1 DEF LaunchDriver
<1>2. CASE TakeDriverLock BY <1>2 DEF TakeDriverLock
<1>3. CASE LeaveRun BY <1>3 DEF LeaveRun
<1>4. CASE DriverIsKilled BY <1>4 DEF DriverIsKilled
<1> QED BY <1>1, <1>2, <1>3, <1>4

LEMMA ServingAdvances ==
  ASSUME RunTypes, Driven,
         TakeReservation \/ SpawnActor \/ RecordStart \/ ActorEnds \/ RecordFinish
  PROVE  Advances
<1> USE DEF RunTypes, Driven, Serves, Drives, Lock, theRun, maintenance, Advances, AuthorityBefore,
            AuthorityRank, HistoryRecord, AuthorityRecord, KeptRecord,
            AtRest, Quiescent, Contents, Confirmed
<1>0. /\ EventsBefore(history, history)
      /\ EventsBefore(history, [history EXCEPT !.open = TRUE])
      /\ EventsBefore(history, [history EXCEPT !.open = FALSE, !.steps = @ + 1])
  BY EventsMove
<1>1. CASE TakeReservation BY <1>0, <1>1 DEF TakeReservation
<1>2. CASE SpawnActor BY <1>0, <1>2 DEF SpawnActor
<1>3. CASE RecordStart BY <1>0, <1>3 DEF RecordStart
<1>4. CASE ActorEnds BY <1>0, <1>4 DEF ActorEnds
<1>5. CASE RecordFinish
  <2>0. history' = [history EXCEPT !.open = FALSE, !.steps = @ + 1] BY <1>5 DEF RecordFinish
  <2>a. history \in HistoryRecord OBVIOUS
  <2>b. history' \in HistoryRecord BY <2>0, <2>a, StepTyped
  <2>1. RunTypes' BY <1>5, <2>b DEF RecordFinish
  <2>2. Driven' BY <1>5 DEF RecordFinish
  <2>3. EventsBefore(history, history') BY <1>0, <1>5 DEF RecordFinish
  <2>4. AuthorityBefore(authority, authority') BY <1>5 DEF RecordFinish
  <2>5. /\ \A l \in Lock : (locks[l] = "maintainer") <=> (locks'[l] = "maintainer")
        /\ program = "harness" => modes' = modes
        /\ UNCHANGED maintenance
        /\ (program = "harness" /\ AtRest /\ Quiescent(Contents, TRUE)) => UNCHANGED theRun
    BY <1>5 DEF RecordFinish
  <2> QED BY <2>1, <2>2, <2>3, <2>4, <2>5
<1> QED BY <1>1, <1>2, <1>3, <1>4, <1>5

LEMMA ResultAdvances ==
  ASSUME RunTypes, Driven,
         KeepResult \/ SubmitEnvelope \/ ReopenActivation \/ InterruptDriver \/ CancelHarnessRun
  PROVE  Advances
<1> USE DEF RunTypes, Driven, Serves, Drives, Lock, theRun, maintenance, Advances, EventsBefore,
            AuthorityBefore, EventsRank, AuthorityRank, HistoryRecord, AuthorityRecord, KeptRecord,
            AtRest, Quiescent, Contents, Confirmed, Free
<1>1. CASE KeepResult BY <1>1 DEF KeepResult
<1>2. CASE SubmitEnvelope BY <1>2 DEF SubmitEnvelope
<1>3. CASE ReopenActivation BY <1>3 DEF ReopenActivation
<1>4. CASE InterruptDriver BY <1>4 DEF InterruptDriver
<1>5. CASE CancelHarnessRun BY <1>5 DEF CancelHarnessRun
<1> QED BY <1>1, <1>2, <1>3, <1>4, <1>5

LEMMA ReviewedAdvances ==
  ASSUME RunTypes, Driven,
         OpenStep \/ CloseStep \/ RetainReport \/ FinishWork \/ ReviewRun
  PROVE  Advances
<1> USE DEF RunTypes, Driven, Serves, Drives, Lock, theRun, maintenance, Advances, AuthorityBefore,
            AuthorityRank, HistoryRecord, AuthorityRecord, KeptRecord
<1>0. /\ EventsBefore(history, history)
      /\ EventsBefore(history, [history EXCEPT !.open = TRUE])
      /\ EventsBefore(history, [history EXCEPT !.open = FALSE, !.steps = @ + 1])
      /\ history.state = "unfinished" => \A s \in {"awaiting_review", "failed"} :
           EventsBefore(history, [history EXCEPT !.state = s])
      /\ history.state = "awaiting_review" => \A s \in {"accepted", "rejected"} :
           EventsBefore(history, [history EXCEPT !.state = s])
  BY EventsMove
<1>1. CASE OpenStep BY <1>0, <1>1 DEF OpenStep
<1>2. CASE CloseStep
  <2>0. history' = [history EXCEPT !.open = FALSE, !.steps = @ + 1] BY <1>2 DEF CloseStep
  <2>a. history \in HistoryRecord OBVIOUS
  <2>b. history' \in HistoryRecord BY <2>0, <2>a, StepTyped
  <2>1. RunTypes' BY <1>2, <2>b DEF CloseStep
  <2>2. Driven' BY <1>2 DEF CloseStep
  <2>3. EventsBefore(history, history') BY <1>0, <1>2 DEF CloseStep
  <2>4. AuthorityBefore(authority, authority') BY <1>2 DEF CloseStep
  <2>5. /\ \A l \in Lock : (locks[l] = "maintainer") <=> (locks'[l] = "maintainer")
        /\ program = "harness" => modes' = modes
        /\ UNCHANGED maintenance
        /\ (program = "harness" /\ AtRest /\ Quiescent(Contents, TRUE)) => UNCHANGED theRun
    BY <1>2 DEF CloseStep
  <2> QED BY <2>1, <2>2, <2>3, <2>4, <2>5
<1>3. CASE RetainReport
  <2>1. RunTypes' BY <1>3 DEF RetainReport, Narrow, Part
  <2>2. Driven' BY <1>3 DEF RetainReport
  <2>3. EventsBefore(history, history') BY <1>0, <1>3 DEF RetainReport
  <2>4. AuthorityBefore(authority, authority') BY <1>3 DEF RetainReport
  <2>5. /\ \A l \in Lock : (locks[l] = "maintainer") <=> (locks'[l] = "maintainer")
        /\ program = "harness" => modes' = modes
        /\ UNCHANGED maintenance
        /\ (program = "harness" /\ AtRest /\ Quiescent(Contents, TRUE)) => UNCHANGED theRun
    BY <1>3 DEF RetainReport
  <2> QED BY <2>1, <2>2, <2>3, <2>4, <2>5
<1>4. CASE FinishWork
  <2>1. RunTypes' BY <1>4 DEF FinishWork
  <2>2. Driven' BY <1>4 DEF FinishWork
  <2>3. EventsBefore(history, history') BY <1>0, <1>4 DEF FinishWork
  <2>4. AuthorityBefore(authority, authority') BY <1>4 DEF FinishWork
  <2>5. /\ \A l \in Lock : (locks[l] = "maintainer") <=> (locks'[l] = "maintainer")
        /\ program = "harness" => modes' = modes
        /\ UNCHANGED maintenance
        /\ (program = "harness" /\ AtRest /\ Quiescent(Contents, TRUE)) => UNCHANGED theRun
    BY <1>4 DEF FinishWork
  <2> QED BY <2>1, <2>2, <2>3, <2>4, <2>5
<1>5. CASE ReviewRun
  <2>1. RunTypes' BY <1>5 DEF ReviewRun
  <2>2. Driven' BY <1>5 DEF ReviewRun
  <2>3. EventsBefore(history, history') BY <1>0, <1>5 DEF ReviewRun
  <2>4. AuthorityBefore(authority, authority') BY <1>5 DEF ReviewRun
  <2>5. /\ \A l \in Lock : (locks[l] = "maintainer") <=> (locks'[l] = "maintainer")
        /\ program = "harness" => modes' = modes
        /\ UNCHANGED maintenance
        /\ (program = "harness" /\ AtRest /\ Quiescent(Contents, TRUE)) => UNCHANGED theRun
    BY <1>5 DEF ReviewRun
  <2> QED BY <2>1, <2>2, <2>3, <2>4, <2>5
<1> QED BY <1>1, <1>2, <1>3, <1>4, <1>5

LEMMA RunAdvances ==
  ASSUME RunTypes, Driven, RunSteps
  PROVE  Advances
BY LaunchAdvances, ServingAdvances, ResultAdvances, ReviewedAdvances DEF RunSteps

\* The two orders are partial orders.
LEMMA RanksAreNumbers ==
  /\ \A h \in HistoryRecord : EventsRank(h) \in Nat
  /\ \A a \in AuthorityRecord : AuthorityRank(a) \in Nat
<1>1. ASSUME NEW h \in HistoryRecord PROVE EventsRank(h) \in Nat
  <2>1. PICK n \in Nat : n = h.steps BY DEF HistoryRecord
  <2> QED BY <2>1 DEF EventsRank
<1>2. ASSUME NEW a \in AuthorityRecord PROVE AuthorityRank(a) \in Nat
  <2>1. PICK n \in Nat : n = a.turn BY DEF AuthorityRecord
  <2> QED BY <2>1 DEF AuthorityRank
<1> QED BY <1>1, <1>2

LEMMA EventsOrder ==
  ASSUME NEW f \in HistoryRecord, NEW g \in HistoryRecord
  PROVE  /\ EventsBefore(f, f)
         /\ \A h \in HistoryRecord :
              EventsBefore(f, g) /\ EventsBefore(g, h) => EventsBefore(f, h)
         /\ EventsBefore(f, g) /\ EventsBefore(g, f) => f = g
BY RanksAreNumbers DEF EventsBefore

LEMMA AuthorityOrder ==
  ASSUME NEW a \in AuthorityRecord, NEW b \in AuthorityRecord
  PROVE  /\ AuthorityBefore(a, a)
         /\ \A c \in AuthorityRecord :
              AuthorityBefore(a, b) /\ AuthorityBefore(b, c) => AuthorityBefore(a, c)
         /\ AuthorityBefore(a, b) /\ AuthorityBefore(b, a) => a = b
BY RanksAreNumbers DEF AuthorityBefore

LEMMA RunStep ==
  ASSUME ArchiveInv, RunSteps, Seen
  PROVE  ArchiveInv'
<1>1. Advances BY RunAdvances DEF ArchiveInv, ArchiveTypes
<1>2. UNCHANGED maintenance BY <1>1 DEF Advances
<1>3. Contents' \in moments' /\ moments \subseteq moments' BY DEF Seen
<1>4. Contents' \in Moment BY <1>1 DEF Advances, RunTypes, Contents, Moment
<1>5. ArchiveTypes'
  BY <1>1, <1>2, <1>4 DEF Advances, ArchiveTypes, ArchiveInv, Seen, maintenance, results
<1>6. Driven' BY <1>1 DEF Advances
<1>7. Excluded'
  BY <1>1, <1>2 DEF Advances, ArchiveInv, Excluded, maintenance, Stands, CopyStages, Lock
<1>8. CopiedWhole'
  <2> SUFFICES ASSUME program = "harness", maintainer.stage \in CopyStages PROVE CopiedWhole'
    BY <1>2 DEF CopiedWhole, maintenance, CopyStages, Stands
  <2>1. AtRest /\ Quiescent(Contents, TRUE)
    BY DEF ArchiveInv, Excluded, CopiedWhole, AtRest
  <2>2. UNCHANGED theRun BY <1>1, <2>1 DEF Advances
  <2>3. Contents' = Contents BY <2>2 DEF Contents, theRun
  <2> QED BY <1>2, <2>1, <2>2, <2>3 DEF ArchiveInv, CopiedWhole, maintenance, theRun, Stands
<1>9. Carried' BY <1>2, <1>3 DEF ArchiveInv, Carried, maintenance, results, Stands
<1>10. Walks'
  <2>1. /\ history \in HistoryRecord /\ history' \in HistoryRecord
        /\ authority \in AuthorityRecord /\ authority' \in AuthorityRecord
    BY <1>1 DEF Advances, RunTypes, ArchiveInv, ArchiveTypes
  <2>2. /\ EventsBefore(history, history') /\ AuthorityBefore(authority, authority')
        /\ Walks /\ maintainer' = maintainer
    BY <1>1, <1>2 DEF Advances, ArchiveInv, maintenance
  <2>3. \A h \in HistoryRecord : EventsBefore(h, history) => EventsBefore(h, history')
    BY <2>1, <2>2, EventsOrder
  <2>4. \A a \in AuthorityRecord : AuthorityBefore(a, authority) => AuthorityBefore(a, authority')
    BY <2>1, <2>2, AuthorityOrder
  <2>5. ReadFirst(1)' = ReadFirst(1) /\ ReadFirst(2)' = ReadFirst(2) /\ ReadFirst(3)' = ReadFirst(3)
    BY <2>2 DEF ReadFirst, Stands
  <2>6. ReadLast(1)' = ReadLast(1) /\ ReadLast(2)' = ReadLast(2) /\ ReadLast(3)' = ReadLast(3)
    BY <2>2 DEF ReadLast, Stands
  <2>7. ASSUME NEW m \in moments, Between(m) PROVE Between(m)'
    <3>1. m.controller \in AuthorityRecord /\ m.events \in HistoryRecord
      BY DEF ArchiveInv, ArchiveTypes, Moment
    <3> QED BY <2>2, <2>3, <2>4, <2>6, <2>7, <3>1 DEF Between
  <2>8. ReadLast(1) => \E m \in moments' : Between(m)'
    BY <2>2, <2>7, <1>3 DEF Walks
  <2> QED BY <2>2, <2>3, <2>4, <2>5, <2>6, <2>8 DEF Walks
<1>11. Protected'
  BY <1>1, <1>2 DEF ArchiveInv, Protected, Advances, maintenance, ReadLast, Stands
<1>12. CopiesAreTrue'
  BY <1>1, <1>2, <1>3 DEF ArchiveInv, CopiesAreTrue, RestoredIsAsItWas, InventoryIsOfOneMoment,
       Advances, maintenance, results, Quiescent, Confirmed
<1> QED BY <1>3, <1>5, <1>6, <1>7, <1>8, <1>9, <1>10, <1>11, <1>12 DEF ArchiveInv

-----------------------------------------------------------------------------
(* The steps of a maintenance.                                             *)

\* What no step of a maintenance changes, and what it may.
Apart ==
  /\ UNCHANGED Others
  /\ locks' \in [Lock -> {"free", "driver", "maintainer"}]
  /\ locks["driver"] = "driver" => locks'["driver"] = "driver"

LEMMA RunStands ==
  ASSUME ArchiveInv, Apart, modes' \in [Part -> {"broad", "private"}]
  PROVE  RunTypes' /\ Driven' /\ Contents' = Contents /\ Contents' \in moments' /\ moments' \subseteq Moment
BY DEF Apart, Others, theRun, ArchiveInv, ArchiveTypes, RunTypes, Driven, Contents

LEMMA LocksReleased ==
  ASSUME ArchiveInv
  PROVE  /\ Released("maintainer") \in [Lock -> {"free", "driver", "maintainer"}]
         /\ locks["driver"] = "driver" => Released("maintainer")["driver"] = "driver"
BY DEF Released, ArchiveInv, ArchiveTypes, RunTypes, Lock

\* Away from the stages it is about, a part of the invariant says nothing.
LEMMA NotWalking ==
  ASSUME maintainer.stage' \notin WalkStages \cup {"comparing"}
  PROVE  Walks' /\ Protected'
<1>1. ReadFirst(1)' = FALSE /\ ReadFirst(2)' = FALSE /\ ReadFirst(3)' = FALSE
  BY DEF ReadFirst, Stands, WalkStages
<1>2. \A i \in 1 .. 3 : ReadLast(i)' = FALSE
  BY DEF ReadLast, Stands, WalkStages
<1> QED BY <1>1, <1>2 DEF Walks, Protected

LEMMA NotExporting ==
  ASSUME maintainer.stage' \notin CopyStages \cup {"locking driver", "checking", "rechecking"}
  PROVE  Excluded' /\ CopiedWhole'
BY DEF Excluded, CopiedWhole, CopyStages, Stands

LEMMA NotImporting ==
  ASSUME ArchiveInv, UNCHANGED <<program, moments, bundle>>,
         maintainer.stage' \notin {"extracted", "moving"}
  PROVE  Carried'
BY DEF ArchiveInv, Carried, Stands

LEMMA ResultsStand ==
  ASSUME ArchiveInv, UNCHANGED <<program, moments, restored, inventory>>,
         \A p \in Part : modes[p] = "private" => modes'[p] = "private",
         modes' \in [Part -> {"broad", "private"}]
  PROVE  CopiesAreTrue'
<1>1. DOMAIN modes = Part /\ DOMAIN modes' = Part
  BY DEF ArchiveInv, ArchiveTypes, RunTypes
<1> QED BY <1>1 DEF ArchiveInv, CopiesAreTrue, RestoredIsAsItWas, InventoryIsOfOneMoment,
             Quiescent, Confirmed

LEMMA AtIdle ==
  /\ NoMaintenance \in MaintainerSet
  /\ NoMaintenance.stage = "idle" /\ Unread \in Copies
<1>1. Unread \in Copies BY DEF Unread, Copies
<1> QED BY <1>1 DEF NoMaintenance, Stages, MaintainerSet

LEMMA AbandonKeeps ==
  ASSUME ArchiveInv, Abandon, UNCHANGED <<Others, modes, results>>
  PROVE  ArchiveInv'
<1>1. Apart BY LocksReleased DEF Apart, Abandon
<1>2. modes' \in [Part -> {"broad", "private"}] BY DEF ArchiveInv, ArchiveTypes, RunTypes
<1>3. maintainer' = NoMaintenance /\ maintainer.stage' = "idle" BY AtIdle DEF Abandon
<1>4. ArchiveTypes'
  BY <1>1, <1>2, <1>3, RunStands, AtIdle DEF ArchiveTypes, ArchiveInv, results
<1>5. Walks' /\ Protected' BY <1>3, NotWalking DEF WalkStages
<1>6. Excluded' /\ CopiedWhole' BY <1>3, NotExporting DEF CopyStages
<1>7. Carried' BY <1>3, NotImporting DEF Others, results
<1>8. CopiesAreTrue' BY <1>2, ResultsStand DEF Others, results
<1> QED BY <1>1, <1>2, <1>4, <1>5, <1>6, <1>7, <1>8, RunStands DEF ArchiveInv

\* A step that goes on to a stage from which nothing is claimed of the walks,
\* of the modes or of the bundle.
LEMMA OnwardKeeps ==
  ASSUME ArchiveInv, Apart, UNCHANGED <<modes, results>>,
         maintainer' \in MaintainerSet,
         maintainer.stage' \notin WalkStages \cup {"comparing", "extracted", "moving"},
         Excluded', CopiedWhole'
  PROVE  ArchiveInv'
<1>2. modes' \in [Part -> {"broad", "private"}] BY DEF ArchiveInv, ArchiveTypes, RunTypes
<1>4. ArchiveTypes' BY <1>2, RunStands DEF ArchiveTypes, ArchiveInv, results
<1>5. Walks' /\ Protected' BY NotWalking
<1>7. Carried' BY NotImporting DEF Apart, Others, results
<1>8. CopiesAreTrue' BY <1>2, ResultsStand DEF Apart, Others, results
<1> QED BY <1>2, <1>4, <1>5, <1>7, <1>8, RunStands DEF ArchiveInv

LEMMA ExportKeeps ==
  ASSUME ArchiveInv, BeginExport \/ LockApplication \/ LockDriver \/ CheckRun
  PROVE  ArchiveInv'
<1> USE DEF MaintainerSet
<1>0. /\ maintainer \in MaintainerSet /\ Contents' = Contents
      /\ locks \in [Lock -> {"free", "driver", "maintainer"}]
  <2>1. UNCHANGED Others
    BY DEF BeginExport, BeginMaintenance, LockApplication, LockDriver, CheckRun
  <2> QED BY <2>1 DEF ArchiveInv, ArchiveTypes, RunTypes, Contents, Others, theRun
<1>1. CASE BeginExport
  <2>1. PICK held \in BOOLEAN : BeginMaintenance("locking application", held) BY <1>1 DEF BeginExport
  <2>2. maintainer' = [NoMaintenance EXCEPT !.stage = "locking application", !.held = held]
    BY <2>1 DEF BeginMaintenance
  <2>3. maintainer' \in MaintainerSet /\ maintainer.stage' = "locking application"
    BY <2>2, AtIdle DEF Stages
  <2>4. Apart /\ UNCHANGED <<modes, results>>
    BY <1>0, <2>1 DEF BeginMaintenance, Apart
  <2>5. Excluded' /\ CopiedWhole' BY <2>3, NotExporting DEF CopyStages
  <2> QED BY <2>3, <2>4, <2>5, OnwardKeeps DEF WalkStages
<1>2. CASE LockApplication
  <2>1. CASE Abandon BY <1>2, <2>1, AbandonKeeps DEF LockApplication
  <2>2. CASE ~Abandon
    <3>1. /\ locks' = [locks EXCEPT !["application"] = "maintainer"]
          /\ maintainer' = [maintainer EXCEPT !.stage = "locking driver"]
      BY <1>2, <2>2 DEF LockApplication, TakeLock, Onward
    <3>2. maintainer' \in MaintainerSet /\ maintainer.stage' = "locking driver"
      BY <1>0, <3>1 DEF Stages
    <3>3. Apart /\ UNCHANGED <<modes, results>>
      BY <1>0, <1>2, <3>1 DEF LockApplication, Apart, Lock
    <3>4. Excluded' /\ CopiedWhole'
      BY <1>0, <3>1, <3>2 DEF Excluded, CopiedWhole, CopyStages, Stands, Lock
    <3> QED BY <3>2, <3>3, <3>4, OnwardKeeps DEF WalkStages
  <2> QED BY <2>1, <2>2
<1>3. CASE LockDriver
  <2>1. CASE Abandon BY <1>3, <2>1, AbandonKeeps DEF LockDriver
  <2>2. CASE ~Abandon
    <3>1. /\ locks' = [locks EXCEPT !["driver"] = "maintainer"] /\ locks["driver"] = "free"
          /\ maintainer' = [maintainer EXCEPT !.stage = "checking"]
      BY <1>3, <2>2 DEF LockDriver, TakeLock, Onward, Free
    <3>2. maintainer' \in MaintainerSet /\ maintainer.stage' = "checking"
      BY <1>0, <3>1 DEF Stages
    <3>3. Apart /\ UNCHANGED <<modes, results>>
      BY <1>0, <1>3, <3>1 DEF LockDriver, Apart, Lock
    <3>4. locks["application"] = "maintainer" BY <1>3 DEF LockDriver, ArchiveInv, Excluded
    <3>5. Excluded' /\ CopiedWhole'
      BY <1>0, <3>1, <3>2, <3>4 DEF Excluded, CopiedWhole, CopyStages, Stands, Lock
    <3> QED BY <3>2, <3>3, <3>5, OnwardKeeps DEF WalkStages
  <2> QED BY <2>1, <2>2
<1>4. CASE CheckRun
  <2>1. CASE Abandon BY <1>4, <2>1, AbandonKeeps DEF CheckRun
  <2>2. CASE ~Abandon
    <3>1. /\ UNCHANGED locks /\ Quiescent(Contents, maintainer.held)
          /\ maintainer' = [maintainer EXCEPT !.stage = "copying events"]
      BY <1>4, <2>2 DEF CheckRun, Onward
    <3>2. maintainer' \in MaintainerSet /\ maintainer.stage' = "copying events"
      BY <1>0, <3>1 DEF Stages, CopyStages
    <3>3. Apart /\ UNCHANGED <<modes, results>>
      BY <1>0, <1>4, <3>1 DEF CheckRun, Apart
    <3>4. Excluded'
      BY <1>4, <3>1, <3>2 DEF CheckRun, ArchiveInv, Excluded, Stands
    <3>5. Quiescent(Contents, TRUE) BY <3>1 DEF Quiescent
    <3>6. Quiescent(Contents', TRUE)
      BY <1>0, <3>5
    <3>7. CopiedWhole' BY <3>2, <3>6 DEF CopiedWhole, Stands, Quiescent, Confirmed
    <3> QED BY <3>2, <3>3, <3>4, <3>7, OnwardKeeps DEF WalkStages
  <2> QED BY <2>1, <2>2
<1> QED BY <1>1, <1>2, <1>3, <1>4

LEMMA CopyKeeps ==
  ASSUME ArchiveInv, CopyRun
  PROVE  ArchiveInv'
<1> USE DEF MaintainerSet
<1>0. /\ maintainer \in MaintainerSet /\ UNCHANGED <<Others, modes, locks, results>>
      /\ history \in HistoryRecord /\ authority \in AuthorityRecord /\ kept \in KeptRecord
  BY DEF ArchiveInv, ArchiveTypes, RunTypes, CopyRun, Copy
<1>1. Contents' = Contents /\ UNCHANGED <<program, history, authority, kept>>
  BY <1>0 DEF Contents, Others, theRun
<1>2. maintainer.first \in Copies BY <1>0
<1>3. /\ [maintainer.first EXCEPT !.events = history] \in Copies
      /\ [maintainer.first EXCEPT !.controller = authority] \in Copies
      /\ [maintainer.first EXCEPT !.files = kept] \in Copies
  BY <1>0, <1>2 DEF Copies
<1>4. \/ /\ Stands("copying events")
         /\ maintainer' = [maintainer EXCEPT !.stage = "copying controller", !.first = [@ EXCEPT !.events = history]]
      \/ /\ Stands("copying controller")
         /\ maintainer' = [maintainer EXCEPT !.stage = "copying files", !.first = [@ EXCEPT !.controller = authority]]
      \/ /\ Stands("copying files")
         /\ maintainer' = [maintainer EXCEPT !.stage = "bundling", !.first = [@ EXCEPT !.files = kept]]
  BY DEF CopyRun, Copy, Contents
<1>5. maintainer' \in MaintainerSet /\ maintainer.stage' \in {"copying controller", "copying files", "bundling"}
  BY <1>0, <1>3, <1>4 DEF Stages, CopyStages
<1>6. Apart BY <1>0 DEF Apart, ArchiveInv, ArchiveTypes, RunTypes
<1>7. Excluded'
  BY <1>0, <1>4, <1>5 DEF ArchiveInv, Excluded, CopyStages, Stands
<1>8. CopiedWhole'
  <2> SUFFICES ASSUME program = "harness" PROVE CopiedWhole' BY <1>1 DEF CopiedWhole
  <2>1. Quiescent(Contents, TRUE)
    BY <1>4 DEF ArchiveInv, CopiedWhole, CopyStages, Stands
  <2>2. Quiescent(Contents', TRUE) BY <1>1, <2>1
  <2>3. Quiescent(Contents, TRUE)' BY <2>2 DEF Quiescent, Confirmed
  <2>4. CopiedWhole BY DEF ArchiveInv
  <2>5. \/ /\ maintainer.stage' = "copying controller" /\ maintainer.first.events' = history
        \/ /\ maintainer.stage' = "copying files" /\ maintainer.first.events' = history
           /\ maintainer.first.controller' = authority
        \/ /\ maintainer.stage' = "bundling" /\ maintainer.first.events' = history
           /\ maintainer.first.controller' = authority /\ maintainer.first.files' = kept
    <3>1. CASE Stands("copying events")
      <4>1. maintainer' = [maintainer EXCEPT !.stage = "copying controller",
                                             !.first = [@ EXCEPT !.events = history]]
        BY <1>4, <3>1 DEF Stands
      <4> QED BY <4>1, <1>0, <1>2 DEF Copies
    <3>2. CASE Stands("copying controller")
      <4>1. maintainer' = [maintainer EXCEPT !.stage = "copying files",
                                             !.first = [@ EXCEPT !.controller = authority]]
        BY <1>4, <3>2 DEF Stands
      <4>2. maintainer.first.events = history BY <2>4, <3>2 DEF CopiedWhole, Stands
      <4> QED BY <4>1, <4>2, <1>0, <1>2 DEF Copies
    <3>3. CASE Stands("copying files")
      <4>1. maintainer' = [maintainer EXCEPT !.stage = "bundling", !.first = [@ EXCEPT !.files = kept]]
        BY <1>4, <3>3 DEF Stands
      <4>2. maintainer.first.events = history /\ maintainer.first.controller = authority
        BY <2>4, <3>3 DEF CopiedWhole, Stands
      <4> QED BY <4>1, <4>2, <1>0, <1>2 DEF Copies
    <3> QED BY <1>4, <3>1, <3>2, <3>3
  <2> QED BY <1>1, <2>3, <2>5 DEF CopiedWhole, Stands
<1> QED BY <1>0, <1>5, <1>6, <1>7, <1>8, OnwardKeeps DEF WalkStages

LEMMA BundleKeeps ==
  ASSUME ArchiveInv, WriteBundle \/ EndExport \/ DamageBundle \/ OperatorDies
  PROVE  ArchiveInv'
<1> USE DEF MaintainerSet
<1>0. /\ maintainer \in MaintainerSet /\ UNCHANGED <<Others, modes, restored, inventory>>
      /\ modes' \in [Part -> {"broad", "private"}]
  BY DEF ArchiveInv, ArchiveTypes, RunTypes, WriteBundle, EndExport, DamageBundle, OperatorDies,
         results
<1>1. CopiesAreTrue' BY <1>0, ResultsStand DEF Others
<1>2. ASSUME Abandon, bundle' \in [state : {"absent", "torn", "whole"}, holds : Copies],
             bundle.state' = "whole" => bundle' = bundle
      PROVE  ArchiveInv'
  <2>1. Apart BY <1>0, <1>2, LocksReleased DEF Apart, Abandon
  <2>2. maintainer' = NoMaintenance /\ maintainer.stage' = "idle" BY <1>2, AtIdle DEF Abandon
  <2>3. ArchiveTypes'
    BY <1>0, <1>2, <2>1, <2>2, RunStands, AtIdle DEF ArchiveTypes, ArchiveInv
  <2>4. Walks' /\ Protected' BY <2>2, NotWalking DEF WalkStages
  <2>5. Excluded' /\ CopiedWhole' BY <2>2, NotExporting DEF CopyStages
  <2>6. Carried' BY <1>0, <1>2, <2>2 DEF ArchiveInv, Carried, Others, Stands
  <2> QED BY <1>0, <1>1, <2>1, <2>3, <2>4, <2>5, <2>6, RunStands DEF ArchiveInv
<1>3. [state |-> "torn", holds |-> Unread] \in [state : {"absent", "torn", "whole"}, holds : Copies]
  BY AtIdle
<1>4. CASE WriteBundle
  <2>1. CASE Abandon /\ UNCHANGED bundle
    BY <1>2, <2>1 DEF ArchiveInv, ArchiveTypes
  <2>2. CASE ~(Abandon /\ UNCHANGED bundle)
    <3>1. /\ Stands("bundling") /\ UNCHANGED locks
          /\ bundle' = [state |-> "whole", holds |-> maintainer.first]
          /\ maintainer' = [maintainer EXCEPT !.stage = "rechecking"]
      BY <1>4, <2>2 DEF WriteBundle, Onward
    <3>2. maintainer' \in MaintainerSet /\ maintainer.stage' = "rechecking"
      BY <1>0, <3>1 DEF Stages
    <3>3. Apart BY <1>0, <3>1 DEF Apart, ArchiveInv, ArchiveTypes, RunTypes
    <3>4. maintainer.first \in Copies /\ bundle' \in [state : {"absent", "torn", "whole"}, holds : Copies]
      BY <1>0, <3>1
    <3>5. ArchiveTypes' BY <1>0, <3>2, <3>3, <3>4, RunStands DEF ArchiveTypes, ArchiveInv
    <3>6. Walks' /\ Protected' BY <3>2, NotWalking DEF WalkStages
    <3>7. Excluded' BY <1>0, <3>1, <3>2 DEF ArchiveInv, Excluded, Stands, CopyStages
    <3>8. CopiedWhole' BY <3>2 DEF CopiedWhole, Stands, CopyStages
    <3>9. program = "harness" => maintainer.first \in moments
      <4>1. SUFFICES ASSUME program = "harness" PROVE maintainer.first = Contents
        BY DEF ArchiveInv
      <4>2. /\ maintainer.first.events = history /\ maintainer.first.controller = authority
            /\ maintainer.first.files = kept
        BY <3>1, <4>1 DEF ArchiveInv, CopiedWhole, Stands
      <4> QED BY <3>4, <4>2 DEF Copies, Contents
    <3>10. Carried' BY <1>0, <3>1, <3>2, <3>9 DEF Carried, Stands, Others
    <3> QED BY <1>0, <1>1, <3>3, <3>5, <3>6, <3>7, <3>8, <3>10, RunStands DEF ArchiveInv
  <2> QED BY <2>1, <2>2
<1>5. CASE EndExport
  BY <1>2, <1>5 DEF EndExport, results, ArchiveInv, ArchiveTypes
<1>6. CASE DamageBundle
  <2>1. /\ bundle' = [state |-> "torn", holds |-> Unread] /\ UNCHANGED <<maintainer, locks, modes>>
    BY <1>6 DEF DamageBundle
  <2>2. Apart BY <1>0, <2>1 DEF Apart, ArchiveInv, ArchiveTypes, RunTypes
  <2>3. ArchiveTypes' BY <1>0, <1>3, <2>1, <2>2, RunStands DEF ArchiveTypes, ArchiveInv
  <2>4. UNCHANGED <<program, history, authority, kept, moments>> BY <1>0 DEF Others, theRun
  <2>5. Walks'
    BY <2>1, <2>4 DEF ArchiveInv, Walks, ReadFirst, ReadLast, Stands, Between, AuthorityBefore,
         EventsBefore, AuthorityRank, EventsRank
  <2>6. Protected' BY <2>1, <2>4 DEF ArchiveInv, Protected, ReadLast, Stands
  <2>7. Excluded' BY <2>1 DEF ArchiveInv, Excluded, Stands
  <2>8. CopiedWhole' BY <2>1, <2>4 DEF ArchiveInv, CopiedWhole, Stands, Quiescent, Confirmed, Contents
  <2>9. Carried'
    BY <2>1, <2>4 DEF ArchiveInv, Carried, Stands, Quiescent, Confirmed
  <2> QED BY <1>0, <1>1, <2>2, <2>3, <2>5, <2>6, <2>7, <2>8, <2>9, RunStands DEF ArchiveInv
<1>7. CASE OperatorDies
  <2>1. CASE UNCHANGED bundle
    BY <1>2, <1>7, <2>1 DEF OperatorDies, ArchiveInv, ArchiveTypes
  <2>2. CASE bundle' = [state |-> "torn", holds |-> Unread]
    BY <1>2, <1>3, <1>7, <2>2 DEF OperatorDies
  <2> QED BY <1>7, <2>1, <2>2 DEF OperatorDies
<1> QED BY <1>4, <1>5, <1>6, <1>7

LEMMA ImportKeeps ==
  ASSUME ArchiveInv, BeginImport \/ CheckRestored \/ MoveRestored
  PROVE  ArchiveInv'
<1> USE DEF MaintainerSet
<1>0. /\ maintainer \in MaintainerSet /\ UNCHANGED <<Others, modes, inventory>>
      /\ modes' \in [Part -> {"broad", "private"}]
  BY DEF ArchiveInv, ArchiveTypes, RunTypes, BeginImport, CheckRestored, MoveRestored, results
<1>1. CASE BeginImport
  <2>1. /\ bundle.state = "whole" /\ UNCHANGED <<locks, bundle, restored>>
        /\ maintainer' = [NoMaintenance EXCEPT !.stage = "extracted", !.first = bundle.holds]
    BY <1>1 DEF BeginImport, Readable, results
  <2>2. bundle.holds \in Copies BY DEF ArchiveInv, ArchiveTypes
  <2>3. /\ maintainer' \in MaintainerSet /\ maintainer.stage' = "extracted"
        /\ maintainer.first' = bundle.holds
    BY <2>1, <2>2, AtIdle DEF Stages
  <2>4. Apart BY <1>0, <2>1 DEF Apart, ArchiveInv, ArchiveTypes, RunTypes
  <2>5. ArchiveTypes' BY <1>0, <2>1, <2>3, <2>4, RunStands DEF ArchiveTypes, ArchiveInv
  <2>6. Walks' /\ Protected' BY <2>3, NotWalking DEF WalkStages
  <2>7. Excluded' /\ CopiedWhole' BY <2>3, NotExporting DEF CopyStages
  <2>8. Carried' BY <1>0, <2>1, <2>3 DEF ArchiveInv, Carried, Stands, Others
  <2>9. CopiesAreTrue' BY <1>0, <2>1, ResultsStand DEF Others
  <2> QED BY <1>0, <2>4, <2>5, <2>6, <2>7, <2>8, <2>9, RunStands DEF ArchiveInv
<1>2. CASE CheckRestored
  <2>1. CASE Abandon BY <1>2, <2>1, AbandonKeeps DEF CheckRestored
  <2>2. CASE ~Abandon
    <3>1. /\ Stands("extracted") /\ Quiescent(maintainer.first, TRUE)
          /\ UNCHANGED <<locks, bundle, restored>>
          /\ maintainer' = [maintainer EXCEPT !.stage = "moving"]
      BY <1>2, <2>2 DEF CheckRestored, Onward, results
    <3>2. /\ maintainer' \in MaintainerSet /\ maintainer.stage' = "moving"
          /\ maintainer.first' = maintainer.first
      BY <1>0, <3>1 DEF Stages
    <3>4. Apart BY <1>0, <3>1 DEF Apart, ArchiveInv, ArchiveTypes, RunTypes
    <3>5. ArchiveTypes' BY <1>0, <3>1, <3>2, <3>4, RunStands DEF ArchiveTypes, ArchiveInv
    <3>6. Walks' /\ Protected' BY <3>2, NotWalking DEF WalkStages
    <3>7. Excluded' /\ CopiedWhole' BY <3>2, NotExporting DEF CopyStages
    <3>8. Quiescent(maintainer.first, TRUE)' BY <3>1, <3>2 DEF Quiescent, Confirmed
    <3>9. Carried' BY <1>0, <3>1, <3>2, <3>8 DEF ArchiveInv, Carried, Stands, Others
    <3>10. CopiesAreTrue' BY <1>0, <3>1, ResultsStand DEF Others
    <3> QED BY <1>0, <3>4, <3>5, <3>6, <3>7, <3>9, <3>10, RunStands DEF ArchiveInv
  <2> QED BY <2>1, <2>2
<1>3. CASE MoveRestored
  <2>1. /\ Stands("moving") /\ restored' = [state |-> "whole", holds |-> maintainer.first]
        /\ UNCHANGED bundle /\ Abandon
    BY <1>3 DEF MoveRestored
  <2>2. maintainer' = NoMaintenance /\ maintainer.stage' = "idle" BY <2>1, AtIdle DEF Abandon
  <2>3. Apart BY <1>0, <2>1, LocksReleased DEF Apart, Abandon
  <2>4. maintainer.first \in Copies BY <1>0
  <2>5. ArchiveTypes' BY <1>0, <2>1, <2>2, <2>3, <2>4, RunStands, AtIdle DEF ArchiveTypes, ArchiveInv
  <2>6. Walks' /\ Protected' BY <2>2, NotWalking DEF WalkStages
  <2>7. Excluded' /\ CopiedWhole' BY <2>2, NotExporting DEF CopyStages
  <2>8. Carried' BY <1>0, <2>1, <2>2, NotImporting DEF Others
  <2>9. /\ Quiescent(maintainer.first, TRUE)
        /\ program = "harness" => maintainer.first \in moments
    BY <2>1 DEF ArchiveInv, Carried, Stands
  <2>10. RestoredIsAsItWas'
    <3>1. restored.holds' = maintainer.first BY <2>1
    <3> QED BY <1>0, <2>9, <3>1 DEF RestoredIsAsItWas, Quiescent, Confirmed, Others
  <2>11. InventoryIsOfOneMoment'
    BY <1>0 DEF ArchiveInv, CopiesAreTrue, InventoryIsOfOneMoment, Others
  <2> QED BY <1>0, <2>3, <2>5, <2>6, <2>7, <2>8, <2>10, <2>11, RunStands
          DEF ArchiveInv, CopiesAreTrue
<1> QED BY <1>1, <1>2, <1>3

\* The three parts, in the order in which a walk visits them.
LEMMA Visits ==
  /\ Len(Parts) = 3
  /\ Parts[1] = "files" /\ Parts[2] = "controller" /\ Parts[3] = "events"
BY DEF Parts

LEMMA BeginProtectionKeeps ==
  ASSUME ArchiveInv, BeginProtection
  PROVE  ArchiveInv'
<1> USE DEF MaintainerSet
<1>1. /\ maintainer' = [NoMaintenance EXCEPT !.stage = "inspecting", !.held = FALSE]
      /\ UNCHANGED <<Others, modes, locks, results>>
  BY DEF BeginProtection, BeginMaintenance
<1>2. /\ maintainer' \in MaintainerSet /\ maintainer.stage' = "inspecting"
      /\ maintainer.part' = 1
  BY <1>1, AtIdle DEF Stages, WalkStages, NoMaintenance
<1>3. Apart /\ modes' \in [Part -> {"broad", "private"}]
  BY <1>1 DEF Apart, ArchiveInv, ArchiveTypes, RunTypes
<1>4. ArchiveTypes' BY <1>1, <1>2, <1>3, RunStands DEF ArchiveTypes, ArchiveInv, results
<1>5. /\ ReadFirst(1)' = FALSE /\ ReadFirst(2)' = FALSE /\ ReadFirst(3)' = FALSE
      /\ \A i \in 1 .. 3 : ReadLast(i)' = FALSE
  BY <1>2 DEF ReadFirst, ReadLast, Stands
<1>6. Walks' /\ Protected' BY <1>5 DEF Walks, Protected
<1>7. Excluded' /\ CopiedWhole' BY <1>2, NotExporting DEF CopyStages
<1>8. Carried' BY <1>1, <1>2, NotImporting DEF Others, results
<1>9. CopiesAreTrue' BY <1>1, <1>3, ResultsStand DEF Others, results
<1> QED BY <1>3, <1>4, <1>6, <1>7, <1>8, <1>9, RunStands DEF ArchiveInv

\* What a step of a walk leaves to be shown.
LEMMA WalkKeeps ==
  ASSUME ArchiveInv, UNCHANGED <<Others, locks, results>>,
         maintainer' \in MaintainerSet,
         maintainer.stage' \in WalkStages \cup {"comparing"},
         modes' \in [Part -> {"broad", "private"}],
         \A p \in Part : modes[p] = "private" => modes'[p] = "private",
         Walks', Protected'
  PROVE  ArchiveInv'
<1>1. Apart BY DEF Apart, ArchiveInv, ArchiveTypes, RunTypes
<1>2. ArchiveTypes' BY <1>1, RunStands DEF ArchiveTypes, ArchiveInv, results
<1>3. Excluded' /\ CopiedWhole' BY NotExporting DEF CopyStages, WalkStages
<1>4. Carried' BY NotImporting DEF Others, results, WalkStages
<1>5. CopiesAreTrue' BY ResultsStand DEF Others, results
<1> QED BY <1>1, <1>2, <1>3, <1>4, <1>5, RunStands DEF ArchiveInv

LEMMA WalkTyped ==
  ASSUME maintainer \in MaintainerSet, NEW s \in Stages, NEW i \in 1 .. 3, NEW f \in Copies,
         maintainer' = [maintainer EXCEPT !.stage = s, !.part = i, !.first = f]
  PROVE  /\ maintainer' \in MaintainerSet /\ maintainer.stage' = s /\ maintainer.part' = i
         /\ maintainer.first' = f
BY DEF MaintainerSet

LEMMA InspectKeeps ==
  ASSUME ArchiveInv, InspectPart
  PROVE  ArchiveInv'
<1> USE DEF MaintainerSet
<1>0. /\ maintainer \in MaintainerSet /\ Stands("inspecting")
      /\ UNCHANGED <<Others, modes, locks, results>>
      /\ history \in HistoryRecord /\ authority \in AuthorityRecord /\ kept \in KeptRecord
      /\ modes' \in [Part -> {"broad", "private"}]
  BY DEF ArchiveInv, ArchiveTypes, RunTypes, InspectPart
<1>1. UNCHANGED <<program, history, authority, kept, moments>> BY <1>0 DEF Others, theRun
<1>2. maintainer.first \in Copies BY <1>0
<1>3. Walks BY DEF ArchiveInv
<1>4. EventsBefore(history, history) /\ AuthorityBefore(authority, authority)
  BY DEF EventsBefore, AuthorityBefore
<1>5. CASE maintainer.part = 1
  <2>1. maintainer' = [maintainer EXCEPT !.stage = "inspecting", !.part = 2,
                                         !.first = [@ EXCEPT !.files = kept]]
    <3>1. /\ Visited = "files" /\ Contents["files"] = kept
          /\ Walk("inspecting", "protecting") = [maintainer EXCEPT !.stage = "inspecting", !.part = 2]
      BY <1>5, Visits DEF Walk, Walked, Visited, Contents
    <3>2. maintainer' = [Walk("inspecting", "protecting") EXCEPT !.first["files"] = kept]
      BY <3>1 DEF InspectPart
    <3> QED BY <1>0, <3>1, <3>2
  <2>2. [maintainer.first EXCEPT !.files = kept] \in Copies BY <1>0, <1>2 DEF Copies
  <2>a. /\ maintainer' \in MaintainerSet /\ maintainer.stage' = "inspecting" /\ maintainer.part' = 2
        /\ maintainer.first' = [maintainer.first EXCEPT !.files = kept]
    <3>1. PICK f \in Copies : f = [maintainer.first EXCEPT !.files = kept] BY <2>2
    <3>2. maintainer' = [maintainer EXCEPT !.stage = "inspecting", !.part = 2, !.first = f]
      BY <1>0, <2>1, <3>1
    <3>3. "inspecting" \in Stages /\ 2 \in 1 .. 3 BY DEF Stages, WalkStages
    <3> QED BY <1>0, <3>1, <3>2, <3>3, WalkTyped
  <2>3. /\ maintainer' \in MaintainerSet /\ maintainer.stage' = "inspecting"
        /\ maintainer.part' = 2 /\ maintainer.first.files' = kept
    BY <1>2, <2>a DEF Copies
  <2>4. /\ ReadFirst(2)' = FALSE /\ ReadFirst(3)' = FALSE
        /\ \A i \in 1 .. 3 : ReadLast(i)' = FALSE
    BY <2>3 DEF ReadFirst, ReadLast, Stands
  <2>5. Walks' /\ Protected' BY <1>0, <2>3, <2>4 DEF Walks, Protected
  <2> QED BY <1>0, <2>3, <2>5, WalkKeeps DEF WalkStages
<1>6. CASE maintainer.part = 2
  <2>1. maintainer' = [maintainer EXCEPT !.stage = "inspecting", !.part = 3,
                                         !.first = [@ EXCEPT !.controller = authority]]
    <3>1. /\ Visited = "controller" /\ Contents["controller"] = authority
          /\ Walk("inspecting", "protecting") = [maintainer EXCEPT !.stage = "inspecting", !.part = 3]
      BY <1>6, Visits DEF Walk, Walked, Visited, Contents
    <3>2. maintainer' = [Walk("inspecting", "protecting") EXCEPT !.first["controller"] = authority]
      BY <3>1 DEF InspectPart
    <3> QED BY <1>0, <3>1, <3>2
  <2>2. [maintainer.first EXCEPT !.controller = authority] \in Copies BY <1>0, <1>2 DEF Copies
  <2>a. /\ maintainer' \in MaintainerSet /\ maintainer.stage' = "inspecting" /\ maintainer.part' = 3
        /\ maintainer.first' = [maintainer.first EXCEPT !.controller = authority]
    <3>1. PICK f \in Copies : f = [maintainer.first EXCEPT !.controller = authority] BY <2>2
    <3>2. maintainer' = [maintainer EXCEPT !.stage = "inspecting", !.part = 3, !.first = f]
      BY <1>0, <2>1, <3>1
    <3>3. "inspecting" \in Stages /\ 3 \in 1 .. 3 BY DEF Stages, WalkStages
    <3> QED BY <1>0, <3>1, <3>2, <3>3, WalkTyped
  <2>3. /\ maintainer' \in MaintainerSet /\ maintainer.stage' = "inspecting"
        /\ maintainer.part' = 3 /\ maintainer.first.files' = maintainer.first.files
        /\ maintainer.first.controller' = authority
    BY <1>2, <2>a DEF Copies
  <2>4. /\ ReadFirst(3)' = FALSE /\ ReadFirst(1)
        /\ \A i \in 1 .. 3 : ReadLast(i)' = FALSE
    BY <1>0, <1>6, <2>3 DEF ReadFirst, ReadLast, Stands
  <2>5. AuthorityBefore(maintainer.first.controller, authority)'
    BY <1>1, <1>4, <2>3 DEF AuthorityBefore
  <2>6. Walks' /\ Protected' BY <1>0, <1>1, <1>3, <2>3, <2>4, <2>5 DEF Walks, Protected
  <2> QED BY <1>0, <2>3, <2>6, WalkKeeps DEF WalkStages
<1>7. CASE maintainer.part = 3
  <2>1. maintainer' = [maintainer EXCEPT !.stage = "protecting", !.part = 1,
                                         !.first = [@ EXCEPT !.events = history]]
    <3>1. /\ Visited = "events" /\ Contents["events"] = history
          /\ Walk("inspecting", "protecting") = [maintainer EXCEPT !.stage = "protecting", !.part = 1]
      BY <1>7, Visits DEF Walk, Walked, Visited, Contents
    <3>2. maintainer' = [Walk("inspecting", "protecting") EXCEPT !.first["events"] = history]
      BY <3>1 DEF InspectPart
    <3> QED BY <1>0, <3>1, <3>2
  <2>2. [maintainer.first EXCEPT !.events = history] \in Copies BY <1>0, <1>2 DEF Copies
  <2>a. /\ maintainer' \in MaintainerSet /\ maintainer.stage' = "protecting" /\ maintainer.part' = 1
        /\ maintainer.first' = [maintainer.first EXCEPT !.events = history]
    <3>1. PICK f \in Copies : f = [maintainer.first EXCEPT !.events = history] BY <2>2
    <3>2. maintainer' = [maintainer EXCEPT !.stage = "protecting", !.part = 1, !.first = f]
      BY <1>0, <2>1, <3>1
    <3>3. "protecting" \in Stages /\ 1 \in 1 .. 3 BY DEF Stages, WalkStages
    <3> QED BY <1>0, <3>1, <3>2, <3>3, WalkTyped
  <2>3. /\ maintainer' \in MaintainerSet /\ maintainer.stage' = "protecting"
        /\ maintainer.first.files' = maintainer.first.files
        /\ maintainer.first.controller' = maintainer.first.controller
        /\ maintainer.first.events' = history
    BY <1>2, <2>a DEF Copies
  <2>4. /\ ReadFirst(1) /\ ReadFirst(2)
        /\ \A i \in 1 .. 3 : ReadLast(i)' = FALSE
    BY <1>0, <1>7, <2>3 DEF ReadFirst, ReadLast, Stands
  <2>5. AuthorityBefore(maintainer.first.controller, authority)'
    BY <1>1, <1>3, <2>3, <2>4 DEF Walks, AuthorityBefore, AuthorityRank
  <2>6. EventsBefore(maintainer.first.events, history)'
    BY <1>1, <1>4, <2>3 DEF EventsBefore
  <2>7. Walks' /\ Protected' BY <1>0, <1>1, <1>3, <2>3, <2>4, <2>5, <2>6 DEF Walks, Protected
  <2> QED BY <1>0, <2>3, <2>7, WalkKeeps DEF WalkStages
<1> QED BY <1>0, <1>5, <1>6, <1>7

LEMMA ProtectKeeps ==
  ASSUME ArchiveInv, ProtectPart
  PROVE  ArchiveInv'
<1> USE DEF MaintainerSet
<1>0. /\ maintainer \in MaintainerSet /\ Stands("protecting")
      /\ UNCHANGED <<Others, locks, results>>
      /\ modes \in [Part -> {"broad", "private"}]
  BY DEF ArchiveInv, ArchiveTypes, RunTypes, ProtectPart
<1>1. UNCHANGED <<program, history, authority, kept, moments>> BY <1>0 DEF Others, theRun
<1>2. /\ modes' \in [Part -> {"broad", "private"}]
      /\ \A p \in Part : modes[p] = "private" => modes'[p] = "private"
  BY <1>0 DEF ProtectPart, Narrow
<1>3. PICK s \in {"protecting", "reinspecting"}, i \in 1 .. 3 :
        /\ maintainer' = [maintainer EXCEPT !.stage = s, !.part = i]
        /\ s = "reinspecting" => i = 1
  <2>1. CASE maintainer.part = 3
    BY <2>1, Visits DEF ProtectPart, Walk, Walked
  <2>2. CASE maintainer.part = 1
    BY <2>2, Visits DEF ProtectPart, Walk, Walked
  <2>3. CASE maintainer.part = 2
    BY <2>3, Visits DEF ProtectPart, Walk, Walked
  <2> QED BY <1>0, <2>1, <2>2, <2>3
<1>4. /\ maintainer' \in MaintainerSet /\ maintainer.stage' = s /\ maintainer.part' = i
      /\ maintainer.first' = maintainer.first
  BY <1>0, <1>3 DEF Stages, WalkStages
<1>5. /\ ReadFirst(1) /\ ReadFirst(2) /\ ReadFirst(3)
      /\ \A j \in 1 .. 3 : ReadLast(j)' = FALSE
  BY <1>0, <1>3, <1>4 DEF ReadFirst, ReadLast, Stands
<1>6. Walks' /\ Protected'
  BY <1>1, <1>4, <1>5 DEF ArchiveInv, Walks, Protected, AuthorityBefore, EventsBefore,
       AuthorityRank, EventsRank
<1> QED BY <1>0, <1>2, <1>4, <1>6, WalkKeeps DEF WalkStages

LEMMA ReinspectKeeps ==
  ASSUME ArchiveInv, ReinspectPart
  PROVE  ArchiveInv'
<1> USE DEF MaintainerSet
<1>0. /\ maintainer \in MaintainerSet /\ Stands("reinspecting")
      /\ UNCHANGED <<Others, modes, locks, results>>
      /\ history \in HistoryRecord /\ authority \in AuthorityRecord /\ kept \in KeptRecord
      /\ modes \in [Part -> {"broad", "private"}] /\ modes' \in [Part -> {"broad", "private"}]
  BY DEF ArchiveInv, ArchiveTypes, RunTypes, ReinspectPart
<1>1. UNCHANGED <<program, history, authority, kept, moments>> BY <1>0 DEF Others, theRun
<1>2. maintainer.last \in Copies BY <1>0
<1>3. /\ ReadFirst(1) /\ ReadFirst(2) /\ ReadFirst(3)
      /\ maintainer.first.files \in KeptRecord
      /\ maintainer.first.controller \in AuthorityRecord
      /\ AuthorityBefore(maintainer.first.controller, authority)
      /\ maintainer.first.events \in HistoryRecord
      /\ EventsBefore(maintainer.first.events, history)
  BY <1>0 DEF ArchiveInv, Walks, ReadFirst, Stands
<1>4. EventsBefore(history, history) /\ AuthorityBefore(authority, authority)
  BY DEF EventsBefore, AuthorityBefore
<1>8. Walks /\ Protected BY DEF ArchiveInv
<1>5. CASE maintainer.part = 1
  <2>1. PICK x \in SUBSET Part : x = IF modes["files"] = "broad"
                                   THEN maintainer.exposed \cup {"files"} ELSE maintainer.exposed
    BY <1>0 DEF Part
  <2>2. PICK f \in Copies : f = [maintainer.last EXCEPT !.files = kept] BY <1>0, <1>2 DEF Copies
  <2>3. /\ Visited = "files" /\ Contents["files"] = kept
        /\ Walk("reinspecting", "comparing") = [maintainer EXCEPT !.stage = "reinspecting", !.part = 2]
    BY <1>5, Visits DEF Walk, Walked, Visited, Contents
  <2>4. maintainer' = [maintainer EXCEPT !.stage = "reinspecting", !.part = 2, !.last = f, !.exposed = x]
    BY <1>0, <2>1, <2>2, <2>3 DEF ReinspectPart
  <2>b. PICK stage \in Stages : stage = "reinspecting" BY DEF Stages, WalkStages
  <2>c. PICK i \in 1 .. 3 : i = 2 OBVIOUS
  <2>d. /\ maintainer' = [maintainer EXCEPT !.stage = stage, !.part = i, !.last = f, !.exposed = x]
        /\ maintainer' \in MaintainerSet
    BY <1>0, <2>4, <2>b, <2>c
  <2>5. /\ maintainer' \in MaintainerSet /\ maintainer.stage' = "reinspecting" /\ maintainer.part' = 2
        /\ maintainer.first' = maintainer.first /\ maintainer.last' = f /\ maintainer.exposed' = x
    BY <1>0, <2>b, <2>c, <2>d
  <2>a. /\ maintainer.first.files' \in KeptRecord
        /\ maintainer.first.controller' \in AuthorityRecord
        /\ AuthorityBefore(maintainer.first.controller, authority)'
        /\ maintainer.first.events' \in HistoryRecord
        /\ EventsBefore(maintainer.first.events, history)'
    BY <1>1, <1>3, <2>5 DEF AuthorityBefore, EventsBefore, AuthorityRank, EventsRank
  <2>6. f.files = kept BY <1>2, <2>2 DEF Copies
  <2>7. /\ ReadLast(1)' = TRUE /\ ReadLast(2)' = FALSE /\ ReadLast(3)' = FALSE
    BY <2>5 DEF ReadLast, Stands
  <2>8. Between(Contents)'
    <3>1. /\ (Contents.files)' = kept /\ (Contents.controller)' = authority
          /\ (Contents.events)' = history
      BY <1>1 DEF Contents
    <3> QED BY <1>1, <1>3, <1>4, <2>5, <2>6, <2>7, <3>1
            DEF Between, AuthorityBefore, EventsBefore, AuthorityRank, EventsRank
  <2>9. \E m \in moments' : Between(m)'
    BY <1>1, <2>8 DEF ArchiveInv, Contents
  <2>10. Walks' BY <1>1, <1>3, <2>a, <2>7, <2>9 DEF Walks
  <2>11. Protected' BY <1>0, <2>1, <2>5, <2>7, Visits DEF Protected, Part
  <2> QED BY <1>0, <2>5, <2>10, <2>11, WalkKeeps DEF WalkStages
<1>6. CASE maintainer.part = 2
  <2>1. PICK x \in SUBSET Part : x = IF modes["controller"] = "broad"
                                   THEN maintainer.exposed \cup {"controller"} ELSE maintainer.exposed
    BY <1>0 DEF Part
  <2>2. PICK f \in Copies : f = [maintainer.last EXCEPT !.controller = authority] BY <1>0, <1>2 DEF Copies
  <2>3. /\ Visited = "controller" /\ Contents["controller"] = authority
        /\ Walk("reinspecting", "comparing") = [maintainer EXCEPT !.stage = "reinspecting", !.part = 3]
    BY <1>6, Visits DEF Walk, Walked, Visited, Contents
  <2>4. maintainer' = [maintainer EXCEPT !.stage = "reinspecting", !.part = 3, !.last = f, !.exposed = x]
    BY <1>0, <2>1, <2>2, <2>3 DEF ReinspectPart
  <2>b. PICK stage \in Stages : stage = "reinspecting" BY DEF Stages, WalkStages
  <2>c. PICK i \in 1 .. 3 : i = 3 OBVIOUS
  <2>d. /\ maintainer' = [maintainer EXCEPT !.stage = stage, !.part = i, !.last = f, !.exposed = x]
        /\ maintainer' \in MaintainerSet
    BY <1>0, <2>4, <2>b, <2>c
  <2>5. /\ maintainer' \in MaintainerSet /\ maintainer.stage' = "reinspecting" /\ maintainer.part' = 3
        /\ maintainer.first' = maintainer.first /\ maintainer.last' = f /\ maintainer.exposed' = x
    BY <1>0, <2>b, <2>c, <2>d
  <2>a. /\ maintainer.first.files' \in KeptRecord
        /\ maintainer.first.controller' \in AuthorityRecord
        /\ AuthorityBefore(maintainer.first.controller, authority)'
        /\ maintainer.first.events' \in HistoryRecord
        /\ EventsBefore(maintainer.first.events, history)'
    BY <1>1, <1>3, <2>5 DEF AuthorityBefore, EventsBefore, AuthorityRank, EventsRank
  <2>6. f.files = maintainer.last.files /\ f.controller = authority BY <1>2, <2>2 DEF Copies
  <2>7. /\ ReadLast(1) /\ ~ReadLast(2) /\ ~ReadLast(3)
        /\ ReadLast(1)' = TRUE /\ ReadLast(2)' = TRUE /\ ReadLast(3)' = FALSE
    BY <1>0, <1>6, <2>5 DEF ReadLast, Stands
  <2>8. PICK m \in moments : Between(m) BY <1>8, <2>7 DEF Walks
  <2>9. Between(m)'
    BY <1>1, <2>5, <2>6, <2>7, <2>8
       DEF Between, AuthorityBefore, EventsBefore, AuthorityRank, EventsRank
  <2>10. AuthorityBefore(maintainer.last.controller, authority)'
    BY <1>1, <1>4, <2>5, <2>6 DEF AuthorityBefore
  <2>11. maintainer.last.controller' \in AuthorityRecord BY <1>0, <2>5, <2>6
  <2>12. Walks' BY <1>1, <1>3, <2>a, <2>7, <2>8, <2>9, <2>10, <2>11 DEF Walks
  <2>13. Protected'
    <3>1. SUFFICES ASSUME program = "harness", NEW j \in 1 .. 3, ReadLast(j)'
                   PROVE  Parts[j] \in maintainer.exposed' \/ modes[Parts[j]] = "private"
      BY <1>0, <1>1 DEF Protected
    <3>2. CASE j = 2
      BY <1>0, <2>1, <2>5, <3>2, Visits DEF Part
    <3>3. CASE j # 2
      <4>1. ReadLast(j) BY <1>0, <1>6, <2>5, <2>7, <3>1, <3>3 DEF ReadLast, Stands
      <4>2. Parts[j] \in maintainer.exposed \/ modes[Parts[j]] = "private"
        BY <1>8, <3>1, <4>1 DEF Protected
      <4> QED BY <2>1, <2>5, <4>2
    <3> QED BY <3>2, <3>3
  <2> QED BY <1>0, <2>5, <2>12, <2>13, WalkKeeps DEF WalkStages
<1>7. CASE maintainer.part = 3
  <2>1. PICK x \in SUBSET Part : x = IF modes["events"] = "broad"
                                   THEN maintainer.exposed \cup {"events"} ELSE maintainer.exposed
    BY <1>0 DEF Part
  <2>2. PICK f \in Copies : f = [maintainer.last EXCEPT !.events = history] BY <1>0, <1>2 DEF Copies
  <2>3. /\ Visited = "events" /\ Contents["events"] = history
        /\ Walk("reinspecting", "comparing") = [maintainer EXCEPT !.stage = "comparing", !.part = 1]
    BY <1>7, Visits DEF Walk, Walked, Visited, Contents
  <2>4. maintainer' = [maintainer EXCEPT !.stage = "comparing", !.part = 1, !.last = f, !.exposed = x]
    BY <1>0, <2>1, <2>2, <2>3 DEF ReinspectPart
  <2>b. PICK stage \in Stages : stage = "comparing" BY DEF Stages, WalkStages
  <2>c. PICK i \in 1 .. 3 : i = 1 OBVIOUS
  <2>d. /\ maintainer' = [maintainer EXCEPT !.stage = stage, !.part = i, !.last = f, !.exposed = x]
        /\ maintainer' \in MaintainerSet
    BY <1>0, <2>4, <2>b, <2>c
  <2>5. /\ maintainer' \in MaintainerSet /\ maintainer.stage' = "comparing" /\ maintainer.part' = 1
        /\ maintainer.first' = maintainer.first /\ maintainer.last' = f /\ maintainer.exposed' = x
    BY <1>0, <2>b, <2>c, <2>d
  <2>a. /\ maintainer.first.files' \in KeptRecord
        /\ maintainer.first.controller' \in AuthorityRecord
        /\ AuthorityBefore(maintainer.first.controller, authority)'
        /\ maintainer.first.events' \in HistoryRecord
        /\ EventsBefore(maintainer.first.events, history)'
    BY <1>1, <1>3, <2>5 DEF AuthorityBefore, EventsBefore, AuthorityRank, EventsRank
  <2>6. /\ f.files = maintainer.last.files /\ f.controller = maintainer.last.controller
        /\ f.events = history
    BY <1>2, <2>2 DEF Copies
  <2>7. /\ ReadLast(1) /\ ReadLast(2) /\ ~ReadLast(3)
        /\ ReadLast(1)' = TRUE /\ ReadLast(2)' = TRUE /\ ReadLast(3)' = TRUE
    BY <1>0, <1>7, <2>5 DEF ReadLast, Stands
  <2>8. PICK m \in moments : Between(m) BY <1>8, <2>7 DEF Walks
  <2>9. Between(m)'
    BY <1>1, <2>5, <2>6, <2>7, <2>8
       DEF Between, AuthorityBefore, EventsBefore, AuthorityRank, EventsRank
  <2>10. /\ AuthorityBefore(maintainer.last.controller, authority)'
         /\ maintainer.last.controller' \in AuthorityRecord
    BY <1>1, <1>8, <2>5, <2>6, <2>7 DEF Walks, AuthorityBefore, AuthorityRank
  <2>11. /\ EventsBefore(maintainer.last.events, history)'
         /\ maintainer.last.events' \in HistoryRecord
    BY <1>0, <1>1, <1>4, <2>5, <2>6 DEF EventsBefore
  <2>12. Walks' BY <1>1, <1>3, <2>a, <2>7, <2>8, <2>9, <2>10, <2>11 DEF Walks
  <2>13. Protected'
    <3>1. SUFFICES ASSUME program = "harness", NEW j \in 1 .. 3, ReadLast(j)'
                   PROVE  Parts[j] \in maintainer.exposed' \/ modes[Parts[j]] = "private"
      BY <1>0, <1>1 DEF Protected
    <3>2. CASE j = 3
      BY <1>0, <2>1, <2>5, <3>2, Visits DEF Part
    <3>3. CASE j # 3
      <4>1. ReadLast(j) BY <1>0, <1>7, <2>5, <2>7, <3>1, <3>3 DEF ReadLast, Stands
      <4>2. Parts[j] \in maintainer.exposed \/ modes[Parts[j]] = "private"
        BY <1>8, <3>1, <4>1 DEF Protected
      <4> QED BY <2>1, <2>5, <4>2
    <3> QED BY <3>2, <3>3
  <2> QED BY <1>0, <2>5, <2>12, <2>13, WalkKeeps DEF WalkStages
<1> QED BY <1>0, <1>5, <1>6, <1>7

\* What is reported as preserved is the run as it was when its files were read
\* last: nothing that only moves on can have been elsewhere meanwhile.
LEMMA PreservedIsAMoment ==
  ASSUME ArchiveInv, Stands("comparing"), Preserved
  PROVE  maintainer.last \in moments
<1>1. /\ ReadFirst(1) /\ ReadFirst(2) /\ ReadFirst(3)
      /\ ReadLast(1) /\ ReadLast(2) /\ ReadLast(3)
  BY DEF ReadFirst, ReadLast, Stands
<1>2. PICK m \in moments : Between(m) BY <1>1 DEF ArchiveInv, Walks
<1>3. /\ m.events \in HistoryRecord /\ m.controller \in AuthorityRecord
      /\ m = [events |-> m.events, controller |-> m.controller, files |-> m.files]
  BY DEF ArchiveInv, ArchiveTypes, Moment
<1>4. maintainer.first = maintainer.last BY DEF Preserved
<1>5. /\ maintainer.last.controller \in AuthorityRecord /\ maintainer.last.events \in HistoryRecord
  BY <1>1 DEF ArchiveInv, Walks
<1>6. m.controller = maintainer.last.controller
  BY <1>1, <1>2, <1>3, <1>4, <1>5, AuthorityOrder DEF Between
<1>7. m.events = maintainer.last.events
  BY <1>1, <1>2, <1>3, <1>4, <1>5, EventsOrder DEF Between
<1>8. m.files = maintainer.last.files BY <1>2 DEF Between
<1>9. maintainer.last = [events |-> maintainer.last.events,
                         controller |-> maintainer.last.controller, files |-> maintainer.last.files]
  BY DEF ArchiveInv, ArchiveTypes, MaintainerSet, Copies
<1>10. m = maintainer.last BY <1>3, <1>6, <1>7, <1>8, <1>9
<1> QED BY <1>2, <1>10

LEMMA ReportKeeps ==
  ASSUME ArchiveInv, ReportProtection
  PROVE  ArchiveInv'
<1>0. Stands("comparing") /\ Abandon /\ UNCHANGED <<Others, modes, bundle, restored>>
  BY DEF ReportProtection
<1>1. CASE ~Preserved
  BY <1>0, <1>1, AbandonKeeps DEF ReportProtection, results
<1>2. CASE Preserved
  <2>1. /\ inventory'.state = "whole" /\ inventory'.holds = maintainer.last
        /\ inventory'.exposed = maintainer.exposed
        /\ inventory' = [state |-> "whole", holds |-> maintainer.last,
                         exposed |-> maintainer.exposed]
    BY <1>2 DEF ReportProtection
  <2>2. /\ maintainer' = NoMaintenance /\ maintainer.stage' = "idle" /\ maintainer' \in MaintainerSet
    BY <1>0, AtIdle DEF Abandon
  <2>3. Apart BY <1>0, LocksReleased DEF Apart, Abandon
  <2>4. maintainer.last \in Copies /\ maintainer.exposed \in SUBSET Part
    BY DEF ArchiveInv, ArchiveTypes, MaintainerSet
  <2>5. inventory' \in [state : {"absent", "whole"}, holds : Copies, exposed : SUBSET Part]
    BY <2>1, <2>4
  <2>6. modes' \in [Part -> {"broad", "private"}] /\ modes' = modes
    BY <1>0 DEF ArchiveInv, ArchiveTypes, RunTypes
  <2>7. ArchiveTypes' BY <1>0, <2>2, <2>3, <2>5, <2>6, RunStands DEF ArchiveTypes, ArchiveInv
  <2>8. Walks' /\ Protected' BY <2>2, NotWalking DEF WalkStages
  <2>9. Excluded' /\ CopiedWhole' BY <2>2, NotExporting DEF CopyStages
  <2>10. Carried' BY <1>0, <2>2, NotImporting DEF Others
  <2>11. RestoredIsAsItWas'
    BY <1>0 DEF ArchiveInv, CopiesAreTrue, RestoredIsAsItWas, Quiescent, Confirmed, Others
  <2>12. InventoryIsOfOneMoment'
    <3>1. maintainer.last \in moments' BY <1>0, <1>2, PreservedIsAMoment DEF Others
    <3>2. ASSUME program = "harness", maintainer.exposed = {}, NEW p \in Part
          PROVE  modes[p] = "private"
      <4>1. PICK i \in 1 .. 3 : Parts[i] = p
        <5>1. 1 \in 1 .. 3 /\ 2 \in 1 .. 3 /\ 3 \in 1 .. 3 OBVIOUS
        <5> QED BY <5>1, Visits DEF Part
      <4>2. ReadLast(i) BY <1>0 DEF ReadLast
      <4> QED BY <3>2, <4>1, <4>2 DEF ArchiveInv, Protected
    <3>3. DOMAIN modes' = Part BY <2>6
    <3> QED BY <1>0, <2>1, <2>6, <3>1, <3>2, <3>3 DEF InventoryIsOfOneMoment, Others
  <2> QED BY <2>3, <2>6, <2>7, <2>8, <2>9, <2>10, <2>11, <2>12, RunStands
          DEF ArchiveInv, CopiesAreTrue
<1> QED BY <1>1, <1>2

LEMMA ArchiveStutters ==
  ASSUME ArchiveInv, UNCHANGED archiveVars
  PROVE  ArchiveInv'
<1>1. Contents' = Contents BY DEF archiveVars, theRun, Contents
<1>2. UNCHANGED <<program, history, authority, kept, modes, locks, driver, moments, bundle, restored,
                  inventory, maintainer>>
  BY DEF archiveVars, theRun, results
<1>3. /\ ArchiveTypes' /\ Driven' /\ Excluded' /\ Carried' /\ Protected'
  <2>1. ArchiveTypes' BY <1>2 DEF ArchiveInv, ArchiveTypes, RunTypes
  <2>2. Driven' /\ Excluded' BY <1>2 DEF ArchiveInv, Driven, Excluded, Stands
  <2>3. Carried' BY <1>2 DEF ArchiveInv, Carried, Stands, Quiescent, Confirmed
  <2>4. Protected' BY <1>2 DEF ArchiveInv, Protected, ReadLast, Stands
  <2> QED BY <2>1, <2>2, <2>3, <2>4
<1>4. CopiedWhole'
  BY <1>1, <1>2 DEF ArchiveInv, CopiedWhole, Stands, Quiescent, Confirmed, Contents
<1>5. Walks'
  BY <1>2 DEF ArchiveInv, Walks, ReadFirst, ReadLast, Stands, Between, AuthorityBefore,
       EventsBefore, AuthorityRank, EventsRank
<1>6. CopiesAreTrue'
  BY <1>2 DEF ArchiveInv, CopiesAreTrue, RestoredIsAsItWas, InventoryIsOfOneMoment, Quiescent,
       Confirmed
<1> QED BY <1>1, <1>2, <1>3, <1>4, <1>5, <1>6 DEF ArchiveInv

LEMMA ArchiveNextKeeps ==
  ASSUME ArchiveInv, [ArchiveNext]_archiveVars
  PROVE  ArchiveInv'
<1>1. CASE RunSteps /\ Seen BY <1>1, RunStep
<1>2. CASE MaintenanceSteps
  BY <1>2, ExportKeeps, CopyKeeps, BundleKeeps, ImportKeeps, BeginProtectionKeeps, InspectKeeps,
     ProtectKeeps, ReinspectKeeps, ReportKeeps DEF MaintenanceSteps
<1> QED BY <1>1, <1>2, ArchiveStutters DEF ArchiveNext

LEMMA ArchiveInitKeeps ==
  ASSUME ArchiveInit
  PROVE  ArchiveInv
<1>1. /\ history \in HistoryRecord /\ authority \in AuthorityRecord /\ kept \in KeptRecord
      /\ history.state = "unfinished"
      /\ authority.status = IF program = "harness" THEN "ready" ELSE "none"
  BY DEF ArchiveInit, HistoryRecord, AuthorityRecord, KeptRecord
<1>2. RunTypes BY <1>1 DEF ArchiveInit, RunTypes, Part, Lock
<1>3. moments = {Contents} /\ Contents \in Moment BY <1>1 DEF ArchiveInit, Contents, Moment
<1>4. maintainer = NoMaintenance /\ maintainer.stage = "idle" /\ maintainer \in MaintainerSet
  BY AtIdle DEF ArchiveInit
<1>5. ArchiveTypes BY <1>2, <1>3, <1>4, AtIdle DEF ArchiveTypes, ArchiveInit
<1>6. Driven BY <1>1 DEF ArchiveInit, Driven, Drives, Serves
<1>7. Excluded /\ CopiedWhole BY <1>4 DEF Excluded, CopiedWhole, Stands, CopyStages
<1>8. bundle.state = "absent" /\ restored.state = "absent" /\ inventory.state = "absent"
  BY DEF ArchiveInit
<1>9. Carried /\ CopiesAreTrue
  BY <1>4, <1>8 DEF Carried, Stands, CopiesAreTrue, RestoredIsAsItWas, InventoryIsOfOneMoment
<1>10. Walks /\ Protected
  BY <1>4 DEF Walks, Protected, ReadFirst, ReadLast, Stands
<1> QED BY <1>3, <1>5, <1>6, <1>7, <1>9, <1>10 DEF ArchiveInv

(* What is restored is at rest, and a harness run is restored whole as it  *)
(* once was; a protection that reports its contents preserved has reported *)
(* the inventory of one moment (export_run and import_run,                 *)
(* noetic_archive.py:184-249; protect_tree, noetic_storage.py:190-199).    *)
THEOREM CopiesStayTrue == ArchiveSpec => []CopiesAreTrue
<1>1. ArchiveInv /\ [ArchiveNext]_archiveVars => ArchiveInv' BY ArchiveNextKeeps
<1>2. ArchiveInv => CopiesAreTrue BY DEF ArchiveInv
<1> QED BY ArchiveInitKeeps, <1>1, <1>2, PTL DEF ArchiveSpec

-----------------------------------------------------------------------------
(* What is applied to a project.                                           *)

ApplyStages == {"idle", "saving", "looking", "copying", "writing", "undoing", "restoring"}
FileContents == (Works \cup Origins) \X Nat
Files == [Paths -> FileContents]

WorkSet == [status : {"new", "active", "completed", "cancelled"}, recorded : BOOLEAN,
            baseline : Files, task : Files, accepted : Files,
            receipt : {"none", "applied", "failed", "torn"}]

ApplySet == [work : Works \cup {"nobody"}, stage : ApplyStages, changes : SUBSET Paths,
             left : SUBSET Paths, done : SUBSET Paths, temporary : FileContents,
             unrestored : SUBSET Paths, touched : SUBSET Paths]

ApplyTypes ==
  /\ project \in Files /\ works \in [Works -> WorkSet] /\ backup \in [Works -> Files]
  /\ apply \in ApplySet /\ edited \in Nat

\* What a file may hold: nothing unreviewed, and of a run's work only what its
\* manifest lists.
Reviewed(all, content, p) ==
  /\ content[1] # "unreviewed"
  /\ \A w \in Works : content = WorkOf(w) =>
       all[w].status = "completed" /\ all[w].accepted[p] = WorkOf(w)

\* A run works on its baseline, and what is accepted of it goes back to that.
WorkIs(w) ==
  /\ works[w].status \in {"new", "active"} => works[w].task = works[w].baseline
  /\ works[w].status = "completed" => \A p \in Paths :
       works[w].accepted[p] \in {works[w].baseline[p], WorkOf(w), Missing, Unlisted}
  /\ \A p \in Paths : /\ Reviewed(works, works[w].baseline[p], p)
                      /\ Reviewed(works, works[w].accepted[p], p)
                      /\ Reviewed(works, backup[w][p], p)

\* A run keeps aside what a file it changes held, and that was whole.
KeptBy(all, aside, w, p) ==
  /\ all[w].status = "completed" /\ all[w].task[p] # all[w].baseline[p]
  /\ all[w].baseline[p] # Torn /\ aside[w][p] = all[w].baseline[p]

IsKept(all, aside, p) == \E w \in Works : KeptBy(all, aside, w, p)

FileIs(p) == Reviewed(works, project[p], p) /\ (project[p] = Torn => IsKept(works, backup, p))

\* A file of the apply holds this, but for an edit.
Holds(p, content) == p \in apply.touched \/ project[p] = content

\* A file that the apply is to change, or has changed.
ChangeIs(p) ==
  LET work == works[apply.work]
      before == work.baseline[p]
  IN /\ work.task[p] # before /\ (before = Torn => IsKept(works, backup, p))
     /\ p \in apply.done => Holds(p, work.accepted[p])
     /\ p \notin apply.done =>
          \/ Holds(p, before)
          \/ apply.stage \in {"undoing", "restoring"} /\ p \in apply.unrestored
     /\ (\/ p \in apply.done
         \/ apply.stage \in {"looking", "copying", "writing"}
         \/ apply.stage = "saving" /\ p \notin apply.left)
        => backup[apply.work][p] = before
     /\ apply.stage = "writing" /\ IsNextLeft(p) =>
          /\ apply.temporary = work.accepted[p]
          /\ project[p] = before \/ project[p][1] = "late"
     /\ apply.stage = "restoring" /\ IsLastDone(p) =>
          project[p] = work.accepted[p] \/ project[p][1] = "late"

Applying ==
  /\ apply.work \in Works
  /\ works[apply.work].status = "completed"
  /\ works[apply.work].receipt \notin {"applied", "torn"}
  /\ apply.left \subseteq apply.changes /\ apply.done \subseteq apply.changes
  /\ apply.left \cap apply.done = {}
  /\ apply.stage = "saving" => apply.done = {}
  /\ apply.stage \in {"looking", "copying", "writing"} =>
       apply.changes \subseteq apply.left \cup apply.done
  /\ \A p \in apply.changes : ChangeIs(p)

Resting == apply.changes = {} /\ apply.done = {}

ApplyInv ==
  /\ ApplyTypes
  /\ \A w \in Works : WorkIs(w)
  /\ \A p \in Paths : FileIs(p)
  /\ apply.stage = "idle" => Resting
  /\ apply.stage # "idle" => Applying

LEMMA ContentsDiffer ==
  /\ Missing \in FileContents /\ Unlisted \in FileContents /\ Torn \in FileContents
  /\ \A w \in Works : /\ WorkOf(w) \in FileContents /\ WorkOf(w)[1] # "unreviewed"
                      /\ WorkOf(w) \notin {Missing, Unlisted, Torn}
  /\ Missing # Torn /\ Unlisted # Torn
BY DEF FileContents, Missing, Unlisted, Torn, WorkOf, Origins

LEMMA OriginsReviewed ==
  ASSUME NEW all, NEW o \in Origins \ {"unreviewed"}, NEW n, NEW p
  PROVE  Reviewed(all, <<o, n>>, p)
BY DEF Reviewed, WorkOf, Origins

LEMMA NextAreOne ==
  ASSUME ApplyTypes, NEW p, NEW q
  PROVE  /\ IsNextLeft(p) /\ IsNextLeft(q) => p = q
         /\ IsLastDone(p) /\ IsLastDone(q) => p = q
<1>1. apply.left \subseteq Nat /\ apply.done \subseteq Nat BY DEF ApplyTypes, ApplySet, Paths
<1> QED BY <1>1 DEF IsNextLeft, IsLastDone

-----------------------------------------------------------------------------
(* The runs.                                                               *)

\* What a run goes on to leaves what was known of the files and of the others.
LEMMA WorkGoesOn ==
  ASSUME ApplyTypes, \A v \in Works : WorkIs(v), NEW w \in Works, NEW new \in WorkSet,
         works' = [works EXCEPT ![w] = new], backup' = backup,
         works[w].status = "completed" =>
           /\ new.status = "completed" /\ new.accepted = works[w].accepted
           /\ new.baseline = works[w].baseline
           /\ \A p \in Paths : works[w].task[p] # works[w].baseline[p] =>
                                new.task[p] # new.baseline[p],
         new.status \in {"new", "active"} => new.task = new.baseline,
         new.status = "completed" => \A p \in Paths :
           new.accepted[p] \in {new.baseline[p], WorkOf(w), Missing, Unlisted},
         \A p \in Paths :
           /\ Reviewed(works, new.baseline[p], p)
           /\ \/ Reviewed(works, new.accepted[p], p)
              \/ new.status = "completed" /\ new.accepted[p] = WorkOf(w)
  PROVE  /\ works' \in [Works -> WorkSet]
         /\ \A c : \A p \in Paths : Reviewed(works, c, p) => Reviewed(works', c, p)
         /\ \A p \in Paths : IsKept(works, backup, p) => IsKept(works', backup', p)
         /\ \A v \in Works : WorkIs(v)'
<1>1. works' \in [Works -> WorkSet] /\ works'[w] = new
      /\ \A v \in Works \ {w} : works'[v] = works[v]
  BY DEF ApplyTypes
<1>2. \A v \in Works : works[v].status = "completed" =>
        works'[v].status = "completed" /\ works'[v].accepted = works[v].accepted
  BY <1>1
<1>3. ASSUME NEW c, NEW p \in Paths, Reviewed(works, c, p)
      PROVE  Reviewed(works', c, p)
  BY <1>2, <1>3 DEF Reviewed
<1>4. ASSUME NEW p \in Paths, IsKept(works, backup, p)
      PROVE  IsKept(works', backup', p)
  <2>1. PICK v \in Works : KeptBy(works, backup, v, p) BY <1>4 DEF IsKept
  <2>2. KeptBy(works', backup', v, p)
    <3>1. CASE v = w BY <1>1, <2>1, <3>1 DEF KeptBy
    <3>2. CASE v # w BY <1>1, <2>1, <3>2 DEF KeptBy
    <3> QED BY <3>1, <3>2
  <2> QED BY <2>2 DEF IsKept
<1>5. ASSUME NEW v \in Works PROVE WorkIs(v)'
  <2>1. CASE v = w
    <3>1. \A p \in Paths : Reviewed(works', new.baseline[p], p) BY <1>3
    <3>2. \A p \in Paths : Reviewed(works', backup'[w][p], p) BY <1>3 DEF WorkIs
    <3>3. ASSUME NEW p \in Paths PROVE Reviewed(works', new.accepted[p], p)
      <4>1. CASE Reviewed(works, new.accepted[p], p) BY <1>3, <4>1
      <4>2. CASE new.status = "completed" /\ new.accepted[p] = WorkOf(w)
        <5>1. \A x \in Works : WorkOf(w) = WorkOf(x) => x = w BY DEF WorkOf
        <5> QED BY <1>1, <4>2, <5>1, ContentsDiffer DEF Reviewed
      <4> QED BY <4>1, <4>2
    <3> QED BY <1>1, <2>1, <3>1, <3>2, <3>3 DEF WorkIs
  <2>2. CASE v # w
    <3>1. works'[v] = works[v] BY <1>1, <2>2
    <3> QED BY <1>3, <3>1 DEF WorkIs
  <2> QED BY <2>1, <2>2
<1> QED BY <1>1, <1>3, <1>4, <1>5

\* The files stay what they are, if none of them changes.
LEMMA FilesStay ==
  ASSUME \A p \in Paths : FileIs(p), project' = project,
         \A c : \A p \in Paths : Reviewed(works, c, p) => Reviewed(works', c, p),
         \A p \in Paths : IsKept(works, backup, p) => IsKept(works', backup', p)
  PROVE  \A p \in Paths : FileIs(p)'
BY DEF FileIs

\* An apply is not disturbed by what becomes of the runs meanwhile.
LEMMA RunKeeps ==
  ASSUME ApplyInv, NEW w \in Works, NEW new \in WorkSet, works' = [works EXCEPT ![w] = new],
         UNCHANGED <<project, backup, apply>>, edited' \in Nat,
         works[w].status = "completed" =>
           /\ new.status = "completed" /\ new.accepted = works[w].accepted
           /\ new.baseline = works[w].baseline /\ new.receipt = works[w].receipt
           /\ \A p \in Paths : works[w].task[p] # works[w].baseline[p] =>
                                new.task[p] # new.baseline[p],
         new.status \in {"new", "active"} => new.task = new.baseline,
         new.status = "completed" => \A p \in Paths :
           new.accepted[p] \in {new.baseline[p], WorkOf(w), Missing, Unlisted},
         \A p \in Paths :
           /\ Reviewed(works, new.baseline[p], p)
           /\ \/ Reviewed(works, new.accepted[p], p)
              \/ new.status = "completed" /\ new.accepted[p] = WorkOf(w)
  PROVE  ApplyInv'
<1>0. ApplyTypes /\ \A v \in Works : WorkIs(v) BY DEF ApplyInv
<1>1. /\ works' \in [Works -> WorkSet]
      /\ \A c : \A p \in Paths : Reviewed(works, c, p) => Reviewed(works', c, p)
      /\ \A p \in Paths : IsKept(works, backup, p) => IsKept(works', backup', p)
      /\ \A v \in Works : WorkIs(v)'
  BY <1>0, WorkGoesOn
<1>2. \A p \in Paths : FileIs(p)' BY <1>1, FilesStay DEF ApplyInv
<1>3. ApplyTypes' BY <1>1 DEF ApplyTypes, ApplyInv
<1>4. apply.stage # "idle" => Applying'
  <2> SUFFICES ASSUME apply.stage # "idle" PROVE Applying' OBVIOUS
  <2>1. Applying BY DEF ApplyInv
  <2> DEFINE a == apply.work
  <2>2. a \in Works /\ works[a].status = "completed" BY <2>1 DEF Applying
  <2>3. /\ works'[a].status = "completed" /\ works'[a].receipt = works[a].receipt
        /\ works'[a].baseline = works[a].baseline /\ works'[a].accepted = works[a].accepted
        /\ \A p \in Paths : works[a].task[p] # works[a].baseline[p] =>
                            works'[a].task[p] # works'[a].baseline[p]
    <3>1. CASE a = w BY <1>0, <2>2, <3>1 DEF ApplyTypes
    <3>2. CASE a # w BY <1>0, <2>2, <3>2 DEF ApplyTypes
    <3> QED BY <3>1, <3>2
  <2>4. ASSUME NEW p \in apply.changes PROVE ChangeIs(p)'
    <3>1. ChangeIs(p) /\ p \in Paths BY <2>1 DEF Applying, ApplyInv, ApplyTypes, ApplySet
    <3>2. /\ IsNextLeft(p)' = IsNextLeft(p) /\ IsLastDone(p)' = IsLastDone(p)
          /\ \A c : Holds(p, c)' = Holds(p, c)
      BY DEF IsNextLeft, IsLastDone, Holds
    <3>3. /\ apply' = apply /\ backup' = backup /\ project' = project
          /\ IsKept(works, backup, p) => IsKept(works', backup', p)
      BY <1>1, <3>1
    <3> QED BY <2>3, <3>1, <3>2, <3>3 DEF ChangeIs
  <2> QED BY <2>1, <2>3, <2>4 DEF Applying
<1>5. apply.stage = "idle" => Resting' BY DEF ApplyInv, Resting
<1> QED BY <1>1, <1>2, <1>3, <1>4, <1>5 DEF ApplyInv

LEMMA StartWorkKeeps ==
  ASSUME ApplyInv, NEW w \in Works, StartWork(w)
  PROVE  ApplyInv'
<1>0. ApplyTypes /\ WorkIs(w) BY DEF ApplyInv
<1>1. PICK work \in Recordings(Copied(works[w])) :
        works' = [works EXCEPT ![w] = [work EXCEPT !.status = "active"]]
  BY DEF StartWork
<1>2. works[w] \in WorkSet /\ project \in Files BY <1>0 DEF ApplyTypes
<1>3. PICK copied \in WorkSet :
        /\ copied = Copied(works[w]) /\ copied.task = project /\ copied.baseline = project
        /\ copied.accepted = works[w].accepted
  <2> DEFINE copied == [works[w] EXCEPT !.task = project, !.baseline = project]
  <2>1. copied \in WorkSet BY <1>2 DEF WorkSet
  <2>2. copied.task = project /\ copied.baseline = project
        /\ copied.accepted = works[w].accepted
    BY <1>2 DEF WorkSet
  <2> HIDE DEF copied
  <2> QED BY <2>1, <2>2 DEF Copied, copied
<1>4. /\ work \in WorkSet /\ work.task = project /\ work.baseline = project
      /\ work.accepted = works[w].accepted
  <2>1. work = copied \/ work = [copied EXCEPT !.recorded = TRUE]
    BY <1>1, <1>3 DEF Recordings
  <2>2. CASE work = copied BY <1>3, <2>2
  <2>3. CASE work = [copied EXCEPT !.recorded = TRUE]
    <3>1. /\ work \in WorkSet /\ work.task = copied.task /\ work.baseline = copied.baseline
          /\ work.accepted = copied.accepted
      BY <2>3 DEF WorkSet
    <3> QED BY <1>3, <3>1
  <2> QED BY <2>1, <2>2, <2>3
<1>5. PICK new \in WorkSet :
        /\ new = [work EXCEPT !.status = "active"] /\ new.status = "active"
        /\ new.task = project /\ new.baseline = project /\ new.accepted = works[w].accepted
  <2> DEFINE new == [work EXCEPT !.status = "active"]
  <2>1. new \in WorkSet /\ new.status = "active" BY <1>4 DEF WorkSet
  <2>2. new.task = project /\ new.baseline = project /\ new.accepted = works[w].accepted
    BY <1>4 DEF WorkSet
  <2> QED BY <2>1, <2>2
<1>6. works' = [works EXCEPT ![w] = new] BY <1>1, <1>5
<1>7. works[w].status = "new" /\ UNCHANGED <<project, backup, apply, edited>>
  BY DEF StartWork
<1>8. \A p \in Paths : /\ Reviewed(works, new.baseline[p], p)
                       /\ Reviewed(works, new.accepted[p], p)
  BY <1>0, <1>5 DEF WorkIs, FileIs, ApplyInv
<1>9. edited' \in Nat BY <1>0, <1>7 DEF ApplyTypes
<1> QED BY <1>5, <1>6, <1>7, <1>8, <1>9, RunKeeps

LEMMA CompleteWorkKeeps ==
  ASSUME ApplyInv, NEW w \in Works, CompleteWork(w)
  PROVE  ApplyInv'
<1>0. ApplyTypes /\ WorkIs(w) BY DEF ApplyInv
<1>1. PICK made \in [Paths -> {"kept", "written", "deleted"}], listed \in {Paths, {LastPath}} :
        LET result == [p \in Paths |-> CASE made[p] = "kept" -> works[w].task[p]
                                         [] made[p] = "written" -> WorkOf(w)
                                         [] made[p] = "deleted" -> Missing]
        IN works' = [works EXCEPT ![w] = [@ EXCEPT
             !.status = "completed", !.task = result,
             !.accepted = [p \in Paths |-> IF p \in listed \/ made[p] = "kept"
                                           THEN result[p] ELSE Unlisted]]]
  BY DEF CompleteWork
<1> DEFINE result == [p \in Paths |-> CASE made[p] = "kept" -> works[w].task[p]
                                        [] made[p] = "written" -> WorkOf(w)
                                        [] made[p] = "deleted" -> Missing]
           accepted == [p \in Paths |-> IF p \in listed \/ made[p] = "kept"
                                        THEN result[p] ELSE Unlisted]
<1>2. works[w] \in WorkSet /\ works[w].status = "active" /\ works[w].task = works[w].baseline
      /\ works[w].baseline \in Files
  BY <1>0 DEF ApplyTypes, CompleteWork, WorkIs, WorkSet
<1>3. ASSUME NEW p \in Paths
      PROVE  /\ result[p] \in {works[w].baseline[p], WorkOf(w), Missing}
             /\ made[p] = "kept" => result[p] = works[w].baseline[p]
  <2>1. CASE made[p] = "kept" BY <1>2, <2>1
  <2>2. CASE made[p] = "written" BY <2>2
  <2>3. CASE made[p] = "deleted" BY <2>3
  <2> QED BY <2>1, <2>2, <2>3
<1>4. result \in Files
  <2>1. \A p \in Paths : result[p] \in FileContents BY <1>2, <1>3, ContentsDiffer DEF Files
  <2>2. result = [p \in Paths |-> result[p]] OBVIOUS
  <2> HIDE DEF result
  <2> QED BY <2>1, <2>2 DEF Files
<1>5. \A p \in Paths : accepted[p] \in {works[w].baseline[p], WorkOf(w), Missing, Unlisted}
  <2> HIDE DEF result
  <2> QED BY <1>3
<1>6. accepted \in Files
  <2> HIDE DEF result
  <2>1. \A p \in Paths : accepted[p] \in FileContents BY <1>2, <1>5, ContentsDiffer DEF Files
  <2>2. accepted = [p \in Paths |-> accepted[p]] OBVIOUS
  <2> HIDE DEF accepted
  <2> QED BY <2>1, <2>2 DEF Files
<1> HIDE DEF result, accepted
<1>7. PICK new \in WorkSet :
        /\ new = [works[w] EXCEPT !.status = "completed", !.task = result,
                                  !.accepted = accepted]
        /\ new.status = "completed" /\ new.accepted = accepted
        /\ new.baseline = works[w].baseline
  <2> DEFINE new == [works[w] EXCEPT !.status = "completed", !.task = result,
                                     !.accepted = accepted]
  <2>1. new \in WorkSet BY <1>2, <1>4, <1>6 DEF WorkSet
  <2>2. new.status = "completed" /\ new.accepted = accepted
        /\ new.baseline = works[w].baseline
    BY <1>2 DEF WorkSet
  <2> QED BY <2>1, <2>2
<1>8. works' = [works EXCEPT ![w] = new] BY <1>1, <1>7 DEF result, accepted
<1>9. ASSUME NEW p \in Paths
      PROVE  /\ Reviewed(works, new.baseline[p], p)
             /\ \/ Reviewed(works, new.accepted[p], p)
                \/ new.status = "completed" /\ new.accepted[p] = WorkOf(w)
  <2>1. Reviewed(works, works[w].baseline[p], p) BY <1>0 DEF WorkIs
  <2>2. Reviewed(works, Missing, p) /\ Reviewed(works, Unlisted, p)
    BY OriginsReviewed DEF Missing, Unlisted, Origins
  <2> QED BY <1>5, <1>7, <2>1, <2>2
<1>10. UNCHANGED <<project, backup, apply>> /\ edited' \in Nat
  BY <1>0 DEF CompleteWork, ApplyTypes
<1>11. \A p \in Paths : new.accepted[p] \in {new.baseline[p], WorkOf(w), Missing, Unlisted}
  BY <1>5, <1>7
<1> QED BY <1>2, <1>7, <1>8, <1>9, <1>10, <1>11, RunKeeps

LEMMA CancelWorkKeeps ==
  ASSUME ApplyInv, NEW w \in Works, CancelWork(w)
  PROVE  ApplyInv'
<1>0. ApplyTypes /\ WorkIs(w) BY DEF ApplyInv
<1>1. works[w] \in WorkSet BY <1>0 DEF ApplyTypes
<1>2. PICK new \in WorkSet :
        /\ new = [works[w] EXCEPT !.status = "cancelled"] /\ new.status = "cancelled"
        /\ new.baseline = works[w].baseline /\ new.accepted = works[w].accepted
  <2> DEFINE new == [works[w] EXCEPT !.status = "cancelled"]
  <2>1. new \in WorkSet /\ new.status = "cancelled" BY <1>1 DEF WorkSet
  <2>2. new.baseline = works[w].baseline /\ new.accepted = works[w].accepted
    BY <1>1 DEF WorkSet
  <2> QED BY <2>1, <2>2
<1>3. works' = [works EXCEPT ![w] = new] BY <1>0, <1>2 DEF CancelWork, ApplyTypes
<1>4. works[w].status = "active" /\ UNCHANGED <<project, backup, apply>> /\ edited' \in Nat
  BY <1>0 DEF CancelWork, ApplyTypes
<1>5. \A p \in Paths : /\ Reviewed(works, new.baseline[p], p)
                       /\ Reviewed(works, new.accepted[p], p)
  BY <1>0, <1>2 DEF WorkIs
<1> QED BY <1>2, <1>3, <1>4, <1>5, RunKeeps

LEMMA EditTaskKeeps ==
  ASSUME ApplyInv, NEW w \in Works, NEW p \in Paths, EditTask(w, p)
  PROVE  ApplyInv'
<1>0. ApplyTypes /\ WorkIs(w) BY DEF ApplyInv
<1>1. works[w] \in WorkSet /\ works[w].task \in Files BY <1>0 DEF ApplyTypes, WorkSet
<1>2. PICK n \in Nat : n = edited' BY <1>0 DEF EditTask, ApplyTypes
<1>3. PICK task \in Files : task = [works[w].task EXCEPT ![p] = <<"unreviewed", n>>]
  <2>1. <<"unreviewed", n>> \in FileContents BY DEF FileContents, Origins
  <2> QED BY <1>1, <2>1 DEF Files
<1>4. PICK new \in WorkSet :
        /\ new = [works[w] EXCEPT !.task = task] /\ new.task = task
        /\ new.status = works[w].status /\ new.receipt = works[w].receipt
        /\ new.baseline = works[w].baseline /\ new.accepted = works[w].accepted
  <2> DEFINE new == [works[w] EXCEPT !.task = task]
  <2>1. new \in WorkSet BY <1>1 DEF WorkSet
  <2>2. /\ new.task = task /\ new.status = works[w].status
        /\ new.receipt = works[w].receipt
        /\ new.baseline = works[w].baseline /\ new.accepted = works[w].accepted
    BY <1>1 DEF WorkSet
  <2> QED BY <2>1, <2>2
<1>5. works' = [works EXCEPT ![w] = new] BY <1>0, <1>1, <1>2, <1>3, <1>4 DEF EditTask, ApplyTypes
<1>6. \A q \in Paths : /\ Reviewed(works, new.baseline[q], q)
                       /\ Reviewed(works, new.accepted[q], q)
  BY <1>0, <1>4 DEF WorkIs
<1>7. ASSUME NEW q \in Paths, works[w].task[q] # works[w].baseline[q]
      PROVE  new.task[q] # new.baseline[q]
  <2>1. CASE q = p
    <3>1. task[p] = <<"unreviewed", n>> BY <1>1, <1>3 DEF Files
    <3>2. works[w].baseline[p][1] # "unreviewed" BY <1>0 DEF WorkIs, Reviewed
    <3>3. works[w].baseline[p] # <<"unreviewed", n>> BY <3>2
    <3> QED BY <1>4, <2>1, <3>1, <3>3
  <2>2. CASE q # p
    <3>1. task[q] = works[w].task[q] BY <1>1, <1>3, <2>2 DEF Files
    <3> QED BY <1>4, <1>7, <3>1
  <2> QED BY <2>1, <2>2
<1>8. works[w].status = "completed" /\ UNCHANGED <<project, backup, apply>>
  BY DEF EditTask
<1>9. \A q \in Paths : new.accepted[q] \in {new.baseline[q], WorkOf(w), Missing, Unlisted}
  BY <1>0, <1>4, <1>8 DEF WorkIs
<1> QED BY <1>2, <1>4, <1>5, <1>6, <1>7, <1>8, <1>9, RunKeeps

-----------------------------------------------------------------------------
(* The apply, file by file.                                                *)

\* What is known of the run that is applied.
LEMMA ApplyingIs ==
  ASSUME ApplyInv, apply.stage # "idle"
  PROVE  /\ Applying /\ apply.work \in Works /\ works[apply.work] \in WorkSet
         /\ backup[apply.work] \in Files /\ project \in Files /\ apply \in ApplySet
         /\ apply.changes \subseteq Paths
         /\ works[apply.work].baseline \in Files /\ works[apply.work].accepted \in Files
         /\ works[apply.work].task \in Files
         /\ \A p \in apply.changes : ChangeIs(p)
BY DEF ApplyInv, Applying, ApplyTypes, ApplySet, WorkSet

LEMMA ApplyGoesOn ==
  ASSUME ApplyInv, apply.stage # "idle", apply'.stage # "idle", UNCHANGED <<works, edited>>,
         project' \in Files, backup' \in [Works -> Files], apply' \in ApplySet,
         apply'.work = apply.work, apply'.changes = apply.changes,
         apply'.left \subseteq apply.changes, apply'.done \subseteq apply.changes,
         apply'.left \cap apply'.done = {}, apply'.stage = "saving" => apply'.done = {},
         apply'.stage \in {"looking", "copying", "writing"} =>
           apply.changes \subseteq apply'.left \cup apply'.done,
         \A w \in Works : \A p \in Paths : Reviewed(works, backup'[w][p], p),
         \A p \in Paths : FileIs(p)', \A p \in apply.changes : ChangeIs(p)'
  PROVE  ApplyInv'
<1>1. Applying BY DEF ApplyInv
<1>2. Applying' BY <1>1 DEF Applying
<1>3. \A w \in Works : WorkIs(w)' BY DEF ApplyInv, WorkIs
<1>4. ApplyTypes' BY DEF ApplyInv, ApplyTypes
<1> QED BY <1>2, <1>3, <1>4 DEF ApplyInv

LEMMA StartApplyKeeps ==
  ASSUME ApplyInv, NEW w \in Works, StartApply(w)
  PROVE  ApplyInv'
<1>0. /\ ApplyTypes /\ works \in [Works -> WorkSet] /\ backup \in [Works -> Files]
      /\ \A v \in Works : WorkIs(v)
      /\ \A p \in Paths : FileIs(p)
  BY DEF ApplyInv, ApplyTypes
<1>1. /\ Eligible(w) /\ UNCHANGED <<project, works, edited>>
      /\ apply' = [NotApplying EXCEPT !.work = w, !.stage = "saving", !.changes = Divergent(w),
                                      !.left = Divergent(w)]
      /\ backup' = [backup EXCEPT ![w] = [p \in Paths |-> Missing]]
  BY DEF StartApply
<1>2. Divergent(w) \subseteq Paths BY DEF Divergent
<1>3. /\ apply' \in ApplySet /\ apply'.work = w /\ apply'.stage = "saving"
      /\ apply'.changes = Divergent(w) /\ apply'.left = Divergent(w)
  BY <1>1, <1>2, ContentsDiffer DEF NotApplying, ApplySet, ApplyStages
<1>4. apply'.done = {} /\ apply'.touched = {} BY <1>1 DEF NotApplying
<1>5. [p \in Paths |-> Missing] \in Files BY ContentsDiffer DEF Files
<1>6. /\ backup' \in [Works -> Files]
      /\ \A v \in Works \ {w} : backup'[v] = backup[v]
      /\ \A p \in Paths : backup'[w][p] = Missing
  BY <1>0, <1>1, <1>5
<1>7. ASSUME NEW p \in Paths, project[p] = Torn PROVE IsKept(works', backup', p)
  <2>1. PICK v \in Works : KeptBy(works, backup, v, p) BY <1>0, <1>7 DEF FileIs, IsKept
  <2>2. v # w BY <1>1, <1>7, <2>1 DEF KeptBy, Eligible, Divergent
  <2>3. KeptBy(works', backup', v, p) BY <1>1, <1>6, <2>1, <2>2 DEF KeptBy
  <2> QED BY <2>3 DEF IsKept
<1>8. \A p \in Paths : FileIs(p)' BY <1>0, <1>1, <1>7 DEF FileIs
<1>9. ASSUME NEW v \in Works PROVE WorkIs(v)'
  <2>1. ASSUME NEW p \in Paths PROVE Reviewed(works, backup'[v][p], p)
    <3>1. CASE v = w
      <4>1. Reviewed(works, Missing, p) BY OriginsReviewed DEF Missing, Origins
      <4> QED BY <1>6, <3>1, <4>1
    <3>2. CASE v # w BY <1>0, <1>6, <3>2 DEF WorkIs
    <3> QED BY <3>1, <3>2
  <2> QED BY <1>0, <1>1, <2>1 DEF WorkIs
<1>10. ASSUME NEW p \in Divergent(w) PROVE ChangeIs(p)'
  <2>1. works[w].task[p] # works[w].baseline[p] /\ project[p] = works[w].baseline[p]
    BY <1>1 DEF Eligible, Divergent
  <2>2. works[w].baseline[p] = Torn => IsKept(works', backup', p) BY <1>2, <1>7, <2>1
  <2> QED BY <1>1, <1>3, <1>4, <2>1, <2>2 DEF ChangeIs, Holds
<1>11. Applying' BY <1>1, <1>3, <1>4, <1>10 DEF Applying, Eligible
<1>12. ApplyTypes' BY <1>0, <1>1, <1>3, <1>6 DEF ApplyTypes
<1> QED BY <1>3, <1>8, <1>9, <1>11, <1>12 DEF ApplyInv

LEMMA SaveFileKeeps == ASSUME ApplyInv, SaveFile PROVE ApplyInv'
<1> DEFINE w == apply.work
<1>0. /\ apply.stage = "saving" /\ Applying /\ w \in Works /\ works[w] \in WorkSet
      /\ backup[w] \in Files /\ project \in Files /\ apply \in ApplySet
      /\ backup \in [Works -> Files] /\ apply.changes \subseteq Paths
      /\ \A p \in apply.changes : ChangeIs(p)
  BY ApplyingIs DEF SaveFile, InStage, ApplyInv, ApplyTypes
<1>1. PICK p \in Paths :
        /\ IsNextLeft(p) /\ AsBefore(p)
        /\ backup' = [backup EXCEPT ![apply.work][p] = project[p]]
        /\ apply' = IF apply.left = {p}
                    THEN [apply EXCEPT !.stage = "looking", !.left = apply.changes]
                    ELSE [apply EXCEPT !.left = @ \ {p}]
  BY DEF SaveFile
<1>2. UNCHANGED <<project, works, edited>> BY DEF SaveFile
<1>3. /\ p \in apply.left /\ p \in apply.changes /\ apply.done = {}
      /\ project[p] = works[w].baseline[p] /\ apply.left \subseteq apply.changes
  BY <1>0, <1>1 DEF IsNextLeft, Applying, AsBefore, Subject
<1>4. /\ apply' \in ApplySet /\ apply'.work = w /\ apply'.changes = apply.changes
      /\ apply'.done = {} /\ apply'.touched = apply.touched
      /\ \/ apply'.stage = "looking" /\ apply'.left = apply.changes /\ apply.left = {p}
         \/ apply'.stage = "saving" /\ apply'.left = apply.left \ {p}
  <2>1. CASE apply.left = {p}
    <3>1. apply' = [apply EXCEPT !.stage = "looking", !.left = apply.changes] BY <1>1, <2>1
    <3> QED BY <1>0, <1>3, <2>1, <3>1 DEF ApplySet, ApplyStages
  <2>2. CASE apply.left # {p}
    <3>1. apply' = [apply EXCEPT !.left = apply.left \ {p}] BY <1>1, <2>2
    <3> QED BY <1>0, <1>3, <3>1 DEF ApplySet, ApplyStages
  <2> QED BY <2>1, <2>2
<1>5. PICK aside \in Files : aside = [backup[w] EXCEPT ![p] = project[p]]
  BY <1>0 DEF Files
<1>6. /\ aside[p] = project[p] /\ \A q \in Paths \ {p} : aside[q] = backup[w][q]
  BY <1>0, <1>5 DEF Files
<1>7. /\ backup' = [backup EXCEPT ![w] = aside] /\ backup' \in [Works -> Files]
      /\ backup'[w] = aside /\ \A v \in Works \ {w} : backup'[v] = backup[v]
  BY <1>0, <1>1, <1>5
<1>8. ASSUME NEW q \in Paths, IsKept(works, backup, q) PROVE IsKept(works', backup', q)
  <2>1. PICK v \in Works : KeptBy(works, backup, v, q) BY <1>8 DEF IsKept
  <2>2. CASE v = w /\ q = p
    <3>1. KeptBy(works', backup', w, p) BY <1>2, <1>3, <1>6, <1>7, <2>1, <2>2 DEF KeptBy
    <3> QED BY <1>0, <2>2, <3>1 DEF IsKept
  <2>3. CASE ~(v = w /\ q = p)
    <3>1. backup'[v][q] = backup[v][q] BY <1>6, <1>7, <2>3
    <3>2. KeptBy(works', backup', v, q) BY <1>2, <2>1, <3>1 DEF KeptBy
    <3> QED BY <3>2 DEF IsKept
  <2> QED BY <2>2, <2>3
<1>9. \A q \in Paths : FileIs(q)' BY <1>2, <1>8 DEF FileIs, ApplyInv
<1>10. ASSUME NEW v \in Works, NEW q \in Paths PROVE Reviewed(works, backup'[v][q], q)
  <2>1. Reviewed(works, project[q], q) /\ Reviewed(works, backup[v][q], q)
    BY DEF ApplyInv, FileIs, WorkIs
  <2>2. backup'[v][q] \in {project[q], backup[v][q]} BY <1>6, <1>7
  <2> QED BY <2>1, <2>2
<1>11. ASSUME NEW q \in apply.changes PROVE ChangeIs(q)'
  <2>1. ChangeIs(q) /\ q \in Paths BY <1>0
  <2>2. q \notin apply.left => backup[w][q] = works[w].baseline[q]
    BY <1>0, <2>1 DEF ChangeIs
  <2>3. q # p /\ (q \notin apply'.left \/ apply'.stage = "looking") => q \notin apply.left
    BY <1>4
  <2>4. q \notin apply'.left \/ apply'.stage = "looking" => backup'[w][q] = works[w].baseline[q]
    <3>1. CASE q = p BY <1>3, <1>6, <1>7, <3>1
    <3>2. CASE q # p
      <4>1. backup'[w][q] = backup[w][q] BY <1>6, <1>7, <2>1, <3>2
      <4> QED BY <1>4, <2>2, <2>3, <3>2, <4>1
    <3> QED BY <3>1, <3>2
  <2>5. Holds(q, works[w].baseline[q]) BY <1>0, <1>3, <2>1 DEF ChangeIs
  <2> QED BY <1>0, <1>2, <1>3, <1>4, <1>8, <2>1, <2>4, <2>5 DEF ChangeIs, Holds
<1>12. /\ apply'.left \subseteq apply.changes
       /\ apply'.stage = "looking" => apply.changes \subseteq apply'.left
  BY <1>3, <1>4
<1> HIDE DEF w
<1> QED BY <1>0, <1>2, <1>4, <1>7, <1>9, <1>10, <1>11, <1>12, ApplyGoesOn DEF w

\* The apply goes on to a stage, with no file of it changed or done.
LEMMA StageKeeps ==
  ASSUME ApplyInv, apply.stage # "idle", apply'.stage # "idle",
         UNCHANGED <<project, works, backup, edited>>, apply' \in ApplySet,
         apply'.work = apply.work, apply'.changes = apply.changes, apply'.left = apply.left,
         apply'.done = apply.done, apply'.touched = apply.touched,
         apply'.unrestored = apply.unrestored,
         \/ apply.stage \in {"looking", "copying"} /\ apply'.stage \in {"copying", "writing"}
         \/ apply'.stage \in {"undoing", "restoring"},
         apply'.stage = "writing" => \A p \in Paths : IsNextLeft(p) =>
           /\ apply'.temporary = works[apply.work].accepted[p]
           /\ project[p] = works[apply.work].baseline[p],
         apply'.stage = "restoring" => \A p \in Paths : IsLastDone(p) =>
           project[p] = works[apply.work].accepted[p]
  PROVE  ApplyInv'
<1>0. /\ Applying /\ apply.changes \subseteq Paths /\ \A p \in apply.changes : ChangeIs(p)
  BY ApplyingIs
<1>1. ASSUME NEW p \in apply.changes PROVE ChangeIs(p)'
  <2>1. ChangeIs(p) /\ p \in Paths BY <1>0
  <2>2. /\ IsNextLeft(p)' <=> IsNextLeft(p)
        /\ IsLastDone(p)' <=> IsLastDone(p)
    BY DEF IsNextLeft, IsLastDone
  <2> QED BY <2>1, <2>2 DEF ChangeIs, Holds
<1>2. \A p \in Paths : FileIs(p)' BY DEF FileIs, ApplyInv
<1>3. \A w \in Works, p \in Paths : Reviewed(works, backup'[w][p], p) BY DEF ApplyInv, WorkIs
<1>4. project' \in Files /\ backup' \in [Works -> Files] BY DEF ApplyInv, ApplyTypes
<1>5. /\ apply.left \subseteq apply.changes /\ apply.done \subseteq apply.changes
      /\ apply.left \cap apply.done = {}
      /\ apply.stage \in {"looking", "copying"} => apply.changes \subseteq apply.left \cup apply.done
  BY <1>0 DEF Applying
<1> QED BY <1>1, <1>2, <1>3, <1>4, <1>5, ApplyGoesOn

LEMMA LookAtFileKeeps == ASSUME ApplyInv, LookAtFile PROVE ApplyInv'
<1>0. apply.stage = "looking" /\ apply \in ApplySet /\ ApplyTypes
  BY DEF LookAtFile, InStage, ApplyInv, ApplyTypes
<1>1. PICK p \in Paths :
        /\ IsNextLeft(p) /\ AsBefore(p)
        /\ IF Subject.accepted[p] = Missing
           THEN apply' = [apply EXCEPT !.stage = "writing", !.temporary = Missing]
           ELSE ToStage("copying")
  BY DEF LookAtFile
<1>2. UNCHANGED <<project, works, backup, edited>> BY DEF LookAtFile
<1>3. /\ apply' \in ApplySet /\ apply'.work = apply.work /\ apply'.changes = apply.changes
      /\ apply'.left = apply.left /\ apply'.done = apply.done
      /\ apply'.touched = apply.touched /\ apply'.unrestored = apply.unrestored
      /\ \/ apply'.stage = "copying"
         \/ /\ apply'.stage = "writing" /\ apply'.temporary = Missing
            /\ works[apply.work].accepted[p] = Missing
  <2>1. CASE Subject.accepted[p] = Missing
    <3>1. apply' = [apply EXCEPT !.stage = "writing", !.temporary = Missing] BY <1>1, <2>1
    <3> QED BY <1>0, <2>1, <3>1, ContentsDiffer DEF ApplySet, ApplyStages, Subject
  <2>2. CASE Subject.accepted[p] # Missing
    <3>1. apply' = [apply EXCEPT !.stage = "copying"] BY <1>1, <2>2 DEF ToStage
    <3> QED BY <1>0, <3>1 DEF ApplySet, ApplyStages
  <2> QED BY <2>1, <2>2
<1>4. \A q \in Paths : IsNextLeft(q) => q = p BY <1>0, <1>1, NextAreOne
<1>5. project[p] = works[apply.work].baseline[p] BY <1>1 DEF AsBefore, Subject
<1> QED BY <1>0, <1>2, <1>3, <1>4, <1>5, StageKeeps

LEMMA CopyFileKeeps == ASSUME ApplyInv, CopyFile PROVE ApplyInv'
<1>0. apply.stage = "copying" /\ apply \in ApplySet /\ ApplyTypes
  BY DEF CopyFile, InStage, ApplyInv, ApplyTypes
<1>1. PICK p \in Paths :
        /\ IsNextLeft(p) /\ Subject.task[p] = Subject.accepted[p] /\ AsBefore(p)
        /\ apply' = [apply EXCEPT !.stage = "writing", !.temporary = Subject.task[p]]
  BY DEF CopyFile
<1>2. UNCHANGED <<project, works, backup, edited>> BY DEF CopyFile
<1>3. Subject.task[p] \in FileContents
  BY <1>0, ApplyingIs DEF Subject, Files
<1>4. /\ apply' \in ApplySet /\ apply'.work = apply.work /\ apply'.changes = apply.changes
      /\ apply'.left = apply.left /\ apply'.done = apply.done
      /\ apply'.touched = apply.touched /\ apply'.unrestored = apply.unrestored
      /\ apply'.stage = "writing" /\ apply'.temporary = works[apply.work].accepted[p]
  BY <1>0, <1>1, <1>3 DEF ApplySet, ApplyStages, Subject
<1>5. \A q \in Paths : IsNextLeft(q) => q = p BY <1>0, <1>1, NextAreOne
<1>6. project[p] = works[apply.work].baseline[p] BY <1>1 DEF AsBefore, Subject
<1> QED BY <1>0, <1>2, <1>4, <1>5, <1>6, StageKeeps

LEMMA AbortApplyKeeps == ASSUME ApplyInv, AbortApply PROVE ApplyInv'
<1>0. apply.stage # "idle" /\ apply \in ApplySet
  BY DEF AbortApply, ApplyInv, ApplyTypes
<1>1. apply' = [apply EXCEPT !.stage = "undoing"] /\ UNCHANGED <<project, works, backup, edited>>
  BY DEF AbortApply, ToStage
<1>2. /\ apply' \in ApplySet /\ apply'.work = apply.work /\ apply'.changes = apply.changes
      /\ apply'.left = apply.left /\ apply'.done = apply.done
      /\ apply'.touched = apply.touched /\ apply'.unrestored = apply.unrestored
      /\ apply'.stage = "undoing"
  BY <1>0, <1>1 DEF ApplySet, ApplyStages
<1> QED BY <1>0, <1>1, <1>2, StageKeeps

LEMMA WriteFileKeeps == ASSUME ApplyInv, WriteFile PROVE ApplyInv'
<1> DEFINE w == apply.work
<1>0. /\ apply.stage = "writing" /\ Applying /\ w \in Works /\ apply \in ApplySet /\ ApplyTypes
      /\ project \in Files /\ works[w].accepted \in Files
      /\ apply.changes \subseteq Paths /\ \A q \in apply.changes : ChangeIs(q)
  BY ApplyingIs DEF WriteFile, InStage, ApplyInv
<1>1. PICK p \in Paths :
        /\ IsNextLeft(p) /\ project' = [project EXCEPT ![p] = apply.temporary]
        /\ apply' = [apply EXCEPT !.stage = "looking", !.left = @ \ {p}, !.done = @ \cup {p}]
  BY DEF WriteFile
<1>2. UNCHANGED <<works, backup, edited>> BY DEF WriteFile
<1>3. p \in apply.left /\ p \in apply.changes /\ apply.left \subseteq apply.changes
  BY <1>0, <1>1 DEF IsNextLeft, Applying
<1>4. /\ apply' \in ApplySet /\ apply'.work = w /\ apply'.changes = apply.changes
      /\ apply'.left = apply.left \ {p} /\ apply'.done = apply.done \cup {p}
      /\ apply'.touched = apply.touched /\ apply'.stage = "looking"
  BY <1>0, <1>1 DEF ApplySet, ApplyStages
<1>5. apply.temporary = works[w].accepted[p] BY <1>0, <1>1, <1>3 DEF ChangeIs
<1>6. /\ project' \in Files /\ project'[p] = works[w].accepted[p]
      /\ \A q \in Paths \ {p} : project'[q] = project[q]
  BY <1>0, <1>1, <1>5 DEF Files
<1>7. ASSUME NEW q \in Paths PROVE FileIs(q)'
  <2>1. FileIs(q) BY DEF ApplyInv
  <2>2. CASE q = p
    <3>1. Reviewed(works, works[w].accepted[p], p) BY <1>0 DEF ApplyInv, WorkIs
    <3>2. works[w].accepted[p] \in {works[w].baseline[p], WorkOf(w), Missing, Unlisted}
      BY <1>0 DEF ApplyInv, WorkIs, Applying
    <3>3. works[w].accepted[p] = Torn => works[w].baseline[p] = Torn
      BY <1>0, <3>2, ContentsDiffer
    <3>4. works[w].baseline[p] = Torn => IsKept(works, backup, p)
      BY <1>0, <1>3 DEF ChangeIs
    <3> QED BY <1>2, <1>6, <2>2, <3>1, <3>3, <3>4 DEF FileIs
  <2>3. CASE q # p BY <1>2, <1>6, <2>1, <2>3 DEF FileIs
  <2> QED BY <2>2, <2>3
<1>8. ASSUME NEW q \in apply.changes PROVE ChangeIs(q)'
  <2>1. ChangeIs(q) /\ q \in Paths BY <1>0
  <2>2. backup[w][q] = works[w].baseline[q] BY <1>0, <2>1 DEF ChangeIs
  <2>3. CASE q = p
    <3>1. Holds(p, works[w].accepted[p])' BY <1>2, <1>4, <1>6 DEF Holds
    <3> QED BY <1>2, <1>4, <2>1, <2>2, <2>3, <3>1 DEF ChangeIs, Holds
  <2>4. CASE q # p
    <3>1. project'[q] = project[q] /\ (q \in apply'.done <=> q \in apply.done)
      BY <1>4, <1>6, <2>1, <2>4
    <3> QED BY <1>0, <1>2, <1>4, <2>1, <2>2, <3>1 DEF ChangeIs, Holds
  <2> QED BY <2>3, <2>4
<1>9. \A v \in Works, q \in Paths : Reviewed(works, backup'[v][q], q)
  BY <1>2 DEF ApplyInv, WorkIs
<1>10. /\ apply'.left \subseteq apply.changes /\ apply'.done \subseteq apply.changes
       /\ apply'.left \cap apply'.done = {}
       /\ apply.changes \subseteq apply'.left \cup apply'.done
  BY <1>0, <1>3, <1>4 DEF Applying
<1>11. backup' \in [Works -> Files] BY <1>0, <1>2 DEF ApplyTypes
<1> HIDE DEF w
<1> QED BY <1>0, <1>2, <1>4, <1>6, <1>7, <1>8, <1>9, <1>10, <1>11, ApplyGoesOn DEF w

\* Going back, a file is dealt with: it is restored, half restored or given up,
\* or what it holds is somebody's edit.
LEMMA UndoKeeps ==
  ASSUME ApplyInv, apply.stage \in {"undoing", "restoring"}, NEW p \in Paths, IsLastDone(p),
         UNCHANGED <<works, backup, edited>>,
         apply' \in ApplySet, apply'.work = apply.work, apply'.changes = apply.changes,
         apply'.left = apply.left, apply'.done = apply.done \ {p},
         apply'.touched = apply.touched, apply'.stage = "undoing",
         apply.unrestored \subseteq apply'.unrestored,
         \/ project' = project /\ (p \in apply.touched \/ p \in apply'.unrestored)
         \/ project' = [project EXCEPT ![p] = backup[apply.work][p]]
         \/ project' = [project EXCEPT ![p] = Torn] /\ p \in apply'.unrestored
  PROVE  ApplyInv'
<1> DEFINE w == apply.work
<1>0. /\ Applying /\ w \in Works /\ ApplyTypes /\ backup[w] \in Files
      /\ project \in Files /\ apply.changes \subseteq Paths
      /\ \A q \in apply.changes : ChangeIs(q)
  BY ApplyingIs DEF ApplyInv
<1>1. p \in apply.done /\ p \in apply.changes BY <1>0 DEF IsLastDone, Applying
<1>2. /\ works[w].task[p] # works[w].baseline[p] /\ backup[w][p] = works[w].baseline[p]
      /\ works[w].baseline[p] = Torn => IsKept(works, backup, p)
      /\ works[w].status = "completed"
  BY <1>0, <1>1 DEF ChangeIs, Applying
<1>3. IsKept(works, backup, p)
  <2>1. CASE works[w].baseline[p] # Torn
    <3>1. KeptBy(works, backup, w, p) BY <1>2, <2>1 DEF KeptBy
    <3> QED BY <1>0, <3>1 DEF IsKept
  <2> QED BY <1>2, <2>1
<1>5. /\ project' \in Files
      /\ \A q \in Paths \ {p} : project'[q] = project[q]
      /\ project'[p] \in {project[p], backup[w][p], Torn}
      /\ project'[p] = works[w].baseline[p] \/ p \in apply'.touched \/ p \in apply'.unrestored
  <2>1. backup[w][p] \in FileContents BY <1>0 DEF Files
  <2> QED BY <1>0, <1>2, <2>1, ContentsDiffer DEF Files
<1>6. ASSUME NEW q \in Paths PROVE FileIs(q)'
  <2>1. FileIs(q) BY DEF ApplyInv
  <2>2. CASE q = p
    <3>1. Reviewed(works, backup[w][p], p) BY <1>0 DEF ApplyInv, WorkIs
    <3>2. Reviewed(works, Torn, p) BY OriginsReviewed DEF Torn, Origins
    <3>3. Reviewed(works, project[p], p) BY <2>1, <2>2 DEF FileIs
    <3>4. Reviewed(works, project'[p], p) BY <1>5, <3>1, <3>2, <3>3
    <3> QED BY <1>3, <2>2, <3>4 DEF FileIs
  <2>3. CASE q # p BY <1>5, <2>1, <2>3 DEF FileIs
  <2> QED BY <2>2, <2>3
<1>7. ASSUME NEW q \in apply.changes PROVE ChangeIs(q)'
  <2>1. ChangeIs(q) /\ q \in Paths BY <1>0
  <2>2. CASE q = p
    <3>1. Holds(p, works[w].baseline[p])' \/ p \in apply'.unrestored
      BY <1>5 DEF Holds
    <3>2. p \notin apply'.done OBVIOUS
    <3> QED BY <1>2, <2>2, <3>1, <3>2 DEF ChangeIs, Holds
  <2>3. CASE q # p
    <3>1. project'[q] = project[q] /\ (q \in apply'.done <=> q \in apply.done)
      BY <1>5, <2>1, <2>3
    <3> QED BY <2>1, <3>1 DEF ChangeIs, Holds
  <2> QED BY <2>2, <2>3
<1>8. \A v \in Works, q \in Paths : Reviewed(works, backup'[v][q], q)
  BY DEF ApplyInv, WorkIs
<1>9. /\ apply'.left \subseteq apply.changes /\ apply'.done \subseteq apply.changes
      /\ apply'.left \cap apply'.done = {}
  BY <1>0 DEF Applying
<1>10. backup' \in [Works -> Files] BY <1>0 DEF ApplyTypes
<1> HIDE DEF w
<1> QED BY <1>5, <1>6, <1>7, <1>8, <1>9, <1>10, ApplyGoesOn

LEMMA UndoFileKeeps == ASSUME ApplyInv, UndoFile PROVE ApplyInv'
<1>0. apply.stage = "undoing" /\ apply \in ApplySet /\ ApplyTypes
  BY DEF UndoFile, InStage, ApplyInv, ApplyTypes
<1>1. PICK p \in Paths :
        /\ IsLastDone(p)
        /\ IF project[p] = Subject.accepted[p] THEN ToStage("restoring")
           ELSE apply' = [apply EXCEPT !.done = @ \ {p}]
  BY DEF UndoFile
<1>2. UNCHANGED <<project, works, backup, edited>> BY DEF UndoFile
<1>3. CASE project[p] = Subject.accepted[p]
  <2>1. apply' = [apply EXCEPT !.stage = "restoring"] BY <1>1, <1>3 DEF ToStage
  <2>2. /\ apply' \in ApplySet /\ apply'.work = apply.work /\ apply'.changes = apply.changes
        /\ apply'.left = apply.left /\ apply'.done = apply.done
        /\ apply'.touched = apply.touched /\ apply'.unrestored = apply.unrestored
        /\ apply'.stage = "restoring"
    BY <1>0, <2>1 DEF ApplySet, ApplyStages
  <2>3. \A q \in Paths : IsLastDone(q) => q = p BY <1>0, <1>1, NextAreOne
  <2>4. project[p] = works[apply.work].accepted[p] BY <1>3 DEF Subject
  <2> QED BY <1>0, <1>2, <2>2, <2>3, <2>4, StageKeeps
<1>4. CASE project[p] # Subject.accepted[p]
  <2>1. apply' = [apply EXCEPT !.done = @ \ {p}] BY <1>1, <1>4
  <2>2. /\ apply' \in ApplySet /\ apply'.work = apply.work /\ apply'.changes = apply.changes
        /\ apply'.left = apply.left /\ apply'.done = apply.done \ {p}
        /\ apply'.touched = apply.touched /\ apply'.unrestored = apply.unrestored
        /\ apply'.stage = "undoing"
    BY <1>0, <2>1 DEF ApplySet
  <2>3. p \in apply.touched
    <3>1. p \in apply.done /\ p \in apply.changes /\ ChangeIs(p)
      BY <1>0, <1>1, ApplyingIs DEF IsLastDone, Applying
    <3> QED BY <1>4, <3>1 DEF ChangeIs, Holds, Subject
  <2> QED BY <1>0, <1>1, <1>2, <2>2, <2>3, UndoKeeps
<1> QED BY <1>3, <1>4

LEMMA RestoreFileKeeps == ASSUME ApplyInv, RestoreFile PROVE ApplyInv'
<1>0. apply.stage = "restoring" /\ apply \in ApplySet
  BY DEF RestoreFile, InStage, ApplyInv, ApplyTypes
<1>1. PICK p \in Paths :
        /\ IsLastDone(p) /\ project' = [project EXCEPT ![p] = backup[apply.work][p]]
        /\ apply' = [apply EXCEPT !.stage = "undoing", !.done = @ \ {p}]
  BY DEF RestoreFile
<1>2. UNCHANGED <<works, backup, edited>> BY DEF RestoreFile
<1>3. /\ apply' \in ApplySet /\ apply'.work = apply.work /\ apply'.changes = apply.changes
      /\ apply'.left = apply.left /\ apply'.done = apply.done \ {p}
      /\ apply'.touched = apply.touched /\ apply'.unrestored = apply.unrestored
      /\ apply'.stage = "undoing"
  BY <1>0, <1>1 DEF ApplySet, ApplyStages
<1> QED BY <1>0, <1>1, <1>2, <1>3, UndoKeeps

LEMMA RestoreFailsKeeps == ASSUME ApplyInv, RestoreFails PROVE ApplyInv'
<1>0. apply.stage \in {"undoing", "restoring"} /\ apply \in ApplySet /\ ApplyTypes /\ HalfRestored
  BY DEF RestoreFails, ApplyInv, ApplyTypes
<1>1. PICK p \in Paths :
        /\ IsLastDone(p)
        /\ apply' = [apply EXCEPT !.stage = "undoing", !.done = @ \ {p},
                                  !.unrestored = @ \cup {p}]
  BY DEF RestoreFails
<1>2. UNCHANGED <<works, backup, edited>> BY DEF RestoreFails
<1>3. /\ apply' \in ApplySet /\ apply'.work = apply.work /\ apply'.changes = apply.changes
      /\ apply'.left = apply.left /\ apply'.done = apply.done \ {p}
      /\ apply'.touched = apply.touched /\ apply'.unrestored = apply.unrestored \cup {p}
      /\ apply'.stage = "undoing"
  BY <1>0, <1>1 DEF ApplySet, ApplyStages
<1>4. \A q \in Paths : IsLastDone(q) => q = p BY <1>0, <1>1, NextAreOne
<1>5. project' = project \/ project' = [project EXCEPT ![p] = Torn]
  BY <1>0, <1>4 DEF HalfRestored
<1> QED BY <1>0, <1>1, <1>2, <1>3, <1>5, UndoKeeps

\* The apply ends: with a receipt, or without, and with a file torn.
LEMMA EndsKeeps ==
  ASSUME ApplyInv, apply.stage # "idle", apply' = NotApplying, HalfRestored,
         UNCHANGED <<backup, edited>>,
         \/ UNCHANGED works
         \/ \E receipt \in {"applied", "failed", "torn"} : Retain(receipt)
  PROVE  ApplyInv'
<1> DEFINE w == apply.work
<1>0. /\ Applying /\ w \in Works /\ ApplyTypes /\ backup[w] \in Files /\ works[w] \in WorkSet
      /\ project \in Files /\ apply.changes \subseteq Paths
      /\ \A q \in apply.changes : ChangeIs(q)
      /\ \A v \in Works : WorkIs(v)
  BY ApplyingIs DEF ApplyInv
<1>1. PICK new \in WorkSet :
        /\ works' = [works EXCEPT ![w] = new] /\ new.status = works[w].status
        /\ new.task = works[w].task /\ new.baseline = works[w].baseline
        /\ new.accepted = works[w].accepted
  <2>1. CASE UNCHANGED works
    <3>1. works' = [works EXCEPT ![w] = works[w]] BY <1>0, <2>1 DEF ApplyTypes
    <3> QED BY <1>0, <3>1
  <2>2. CASE \E receipt \in {"applied", "failed", "torn"} : Retain(receipt)
    <3>1. PICK receipt \in {"applied", "failed", "torn"} :
            works' = [works EXCEPT ![w].receipt = receipt]
      BY <2>2 DEF Retain
    <3> DEFINE new == [works[w] EXCEPT !.receipt = receipt]
    <3>2. new \in WorkSet BY <1>0 DEF WorkSet
    <3>3. new.status = works[w].status /\ new.task = works[w].task
          /\ new.baseline = works[w].baseline /\ new.accepted = works[w].accepted
      BY <1>0 DEF WorkSet
    <3>4. works' = [works EXCEPT ![w] = new] BY <1>0, <3>1 DEF ApplyTypes
    <3> QED BY <3>2, <3>3, <3>4
  <2> QED BY <2>1, <2>2
<1>2. /\ new.status \in {"new", "active"} => new.task = new.baseline
      /\ new.status = "completed" => \A p \in Paths :
           new.accepted[p] \in {new.baseline[p], WorkOf(w), Missing, Unlisted}
      /\ \A p \in Paths : /\ Reviewed(works, new.baseline[p], p)
                          /\ Reviewed(works, new.accepted[p], p)
  <2>1. WorkIs(w) BY <1>0
  <2> QED BY <1>1, <2>1 DEF WorkIs
<1>3. /\ works' \in [Works -> WorkSet]
      /\ \A c : \A p \in Paths : Reviewed(works, c, p) => Reviewed(works', c, p)
      /\ \A p \in Paths : IsKept(works, backup, p) => IsKept(works', backup', p)
      /\ \A v \in Works : WorkIs(v)'
  <2> HIDE DEF w
  <2> QED BY <1>0, <1>1, <1>2, WorkGoesOn
<1>4. /\ project' \in Files
      /\ \A p \in Paths : project'[p] = project[p]
           \/ (project'[p] = Torn /\ IsKept(works, backup, p))
  <2>1. CASE UNCHANGED project BY <1>0, <2>1
  <2>2. CASE \E p \in Paths :
               /\ InStage("restoring") /\ IsLastDone(p) /\ backup[apply.work][p] # Missing
               /\ project' = [project EXCEPT ![p] = Torn]
    <3>1. PICK p \in Paths : IsLastDone(p) /\ project' = [project EXCEPT ![p] = Torn]
      BY <2>2
    <3>2. p \in apply.done /\ p \in apply.changes BY <1>0, <3>1 DEF IsLastDone, Applying
    <3>3. /\ works[w].task[p] # works[w].baseline[p] /\ backup[w][p] = works[w].baseline[p]
          /\ works[w].baseline[p] = Torn => IsKept(works, backup, p)
          /\ works[w].status = "completed"
      BY <1>0, <3>2 DEF ChangeIs, Applying
    <3>4. IsKept(works, backup, p)
      <4>1. CASE works[w].baseline[p] # Torn
        <5>1. KeptBy(works, backup, w, p) BY <3>3, <4>1 DEF KeptBy
        <5> QED BY <1>0, <5>1 DEF IsKept
      <4> QED BY <3>3, <4>1
    <3> QED BY <1>0, <3>1, <3>4, ContentsDiffer DEF Files
  <2> QED BY <2>1, <2>2 DEF HalfRestored
<1>5. ASSUME NEW p \in Paths PROVE FileIs(p)'
  <2>1. FileIs(p) BY DEF ApplyInv
  <2>2. Reviewed(works, Torn, p) BY OriginsReviewed DEF Torn, Origins
  <2>3. Reviewed(works, project'[p], p) BY <1>4, <2>1, <2>2 DEF FileIs
  <2>4. project'[p] = Torn => IsKept(works, backup, p) BY <1>4, <2>1 DEF FileIs
  <2> QED BY <1>3, <2>3, <2>4 DEF FileIs
<1>6. apply'.stage = "idle" /\ Resting' /\ apply' \in ApplySet
  BY ContentsDiffer DEF NotApplying, Resting, ApplySet, ApplyStages
<1>7. ApplyTypes' BY <1>0, <1>3, <1>4, <1>6 DEF ApplyTypes
<1> QED BY <1>3, <1>5, <1>6, <1>7 DEF ApplyInv

LEMMA EditProjectKeeps ==
  ASSUME ApplyInv, NEW p \in Paths, EditProject(p)
  PROVE  ApplyInv'
<1>0. /\ ApplyTypes /\ project \in Files /\ apply \in ApplySet /\ edited' \in Nat
      /\ UNCHANGED <<works, backup>>
  BY DEF ApplyInv, ApplyTypes, EditProject
<1>1. PICK o \in {"late", "owner"} :
        /\ project' = [project EXCEPT ![p] = <<o, edited'>>]
        /\ IsCommitted(p) => o = "late"
  BY DEF EditProject
<1>2. o \in Origins \ {"unreviewed", "torn"} BY DEF Origins
<1>3. /\ project' \in Files /\ project'[p] = <<o, edited'>>
      /\ \A q \in Paths \ {p} : project'[q] = project[q]
  BY <1>0, <1>1, <1>2 DEF Files, FileContents
<1>4. ASSUME NEW q \in Paths PROVE FileIs(q)'
  <2>1. FileIs(q) BY DEF ApplyInv
  <2>2. CASE q = p
    <3>1. Reviewed(works, <<o, edited'>>, p) BY <1>2, OriginsReviewed
    <3>2. <<o, edited'>> # Torn BY <1>2 DEF Torn
    <3> QED BY <1>0, <1>3, <2>2, <3>1, <3>2 DEF FileIs
  <2>3. CASE q # p BY <1>0, <1>3, <2>1, <2>3 DEF FileIs
  <2> QED BY <2>2, <2>3
<1>5. \A w \in Works : WorkIs(w)' BY <1>0 DEF ApplyInv, WorkIs
<1>6. CASE apply.stage = "idle"
  <2>1. apply' = apply BY <1>6 DEF EditProject
  <2>2. Resting' BY <1>6, <2>1 DEF ApplyInv, Resting
  <2>3. ApplyTypes' BY <1>0, <1>3, <2>1 DEF ApplyTypes
  <2> QED BY <1>4, <1>5, <1>6, <2>1, <2>2, <2>3 DEF ApplyInv
<1>7. CASE apply.stage # "idle"
  <2>1. apply' = [apply EXCEPT !.touched = @ \cup {p}] BY <1>7 DEF EditProject
  <2>2. /\ apply' \in ApplySet /\ apply'.work = apply.work /\ apply'.changes = apply.changes
        /\ apply'.left = apply.left /\ apply'.done = apply.done /\ apply'.stage = apply.stage
        /\ apply'.touched = apply.touched \cup {p} /\ apply'.unrestored = apply.unrestored
        /\ apply'.temporary = apply.temporary
    BY <1>0, <2>1 DEF ApplySet
  <2>3. /\ Applying /\ apply.changes \subseteq Paths /\ \A q \in apply.changes : ChangeIs(q)
    BY <1>7, ApplyingIs
  <2>4. ASSUME NEW q \in apply.changes PROVE ChangeIs(q)'
    <3>1. ChangeIs(q) /\ q \in Paths BY <2>3
    <3>2. /\ IsNextLeft(q)' <=> IsNextLeft(q)
          /\ IsLastDone(q)' <=> IsLastDone(q)
      BY <2>2 DEF IsNextLeft, IsLastDone
    <3>3. CASE q = p
      <4>1. \A c : Holds(p, c)' BY <2>2 DEF Holds
      <4>2. IsCommitted(p) => project'[p][1] = "late"
        BY <1>1, <1>3
      <4> QED BY <1>0, <2>2, <3>1, <3>2, <3>3, <4>1, <4>2 DEF ChangeIs, Holds, IsCommitted
    <3>4. CASE q # p
      <4>1. project'[q] = project[q] /\ (q \in apply'.touched <=> q \in apply.touched)
        BY <1>3, <2>2, <3>1, <3>4
      <4> QED BY <1>0, <2>2, <3>1, <3>2, <4>1 DEF ChangeIs, Holds
    <3> QED BY <3>3, <3>4
  <2>5. Applying' BY <1>0, <2>2, <2>3, <2>4 DEF Applying
  <2>6. ApplyTypes' BY <1>0, <1>3, <2>2 DEF ApplyTypes
  <2> QED BY <1>4, <1>5, <1>7, <2>2, <2>5, <2>6 DEF ApplyInv
<1> QED BY <1>6, <1>7

LEMMA ApplyNextKeeps ==
  ASSUME ApplyInv, [ApplyNext]_applyVars
  PROVE  ApplyInv'
<1>1. CASE ReportApplied \/ ReportFailed \/ ApplyDies
  <2>1. apply.stage # "idle" BY <1>1 DEF ReportApplied, ReportFailed, ApplyDies, InStage
  <2>2. apply' = NotApplying /\ HalfRestored /\ UNCHANGED <<backup, edited>>
    BY <1>1 DEF ReportApplied, ReportFailed, ApplyDies, HalfRestored
  <2>3. \/ UNCHANGED works
        \/ \E receipt \in {"applied", "failed", "torn"} : Retain(receipt)
    BY <1>1 DEF ReportApplied, ReportFailed, ApplyDies
  <2> QED BY <2>1, <2>2, <2>3, EndsKeeps
<1>2. CASE UNCHANGED applyVars
  <2>1. UNCHANGED <<project, works, backup, apply, edited>> BY <1>2 DEF applyVars
  <2>2. ApplyTypes' BY <2>1 DEF ApplyInv, ApplyTypes
  <2>3. \A w \in Works : WorkIs(w)' BY <2>1 DEF ApplyInv, WorkIs
  <2>4. \A p \in Paths : FileIs(p)' BY <2>1 DEF ApplyInv, FileIs
  <2>5. \A p : ChangeIs(p) => ChangeIs(p)'
    BY <2>1 DEF ChangeIs, Holds, IsNextLeft, IsLastDone
  <2>6. Applying => Applying' BY <2>1, <2>5 DEF Applying
  <2>7. Resting => Resting' BY <2>1 DEF Resting
  <2> QED BY <2>1, <2>2, <2>3, <2>4, <2>6, <2>7 DEF ApplyInv
<1> QED
  BY <1>1, <1>2, StartWorkKeeps, CompleteWorkKeeps, CancelWorkKeeps, StartApplyKeeps,
     EditProjectKeeps, EditTaskKeeps, SaveFileKeeps, LookAtFileKeeps, CopyFileKeeps,
     WriteFileKeeps, AbortApplyKeeps, UndoFileKeeps, RestoreFileKeeps, RestoreFailsKeeps
  DEF ApplyNext

LEMMA ApplyStarts ==
  ASSUME ApplyInit
  PROVE  ApplyInv
<1>0. /\ project = [p \in Paths |-> IF p = LastPath THEN Missing ELSE <<"base", 0>>]
      /\ works = [w \in Works |-> [status |-> "new", recorded |-> FALSE, baseline |-> project,
                                   task |-> project, accepted |-> project,
                                   receipt |-> "none"]]
      /\ backup = [w \in Works |-> [p \in Paths |-> Missing]]
      /\ apply = NotApplying /\ edited = 0
  BY DEF ApplyInit
<1>1. <<"base", 0>> \in FileContents /\ <<"base", 0>> # Torn BY DEF FileContents, Origins, Torn
<1>2. \A p \in Paths : project[p] \in {Missing, <<"base", 0>>} BY <1>0
<1>3. project \in Files BY <1>0, <1>1, ContentsDiffer DEF Files
<1>4. works \in [Works -> WorkSet] BY <1>0, <1>3 DEF WorkSet
<1>5. backup \in [Works -> Files] BY <1>0, ContentsDiffer DEF Files
<1>6. apply \in ApplySet /\ apply.stage = "idle" /\ Resting
  BY <1>0, ContentsDiffer DEF NotApplying, ApplySet, ApplyStages, Resting
<1>7. \A p \in Paths : Reviewed(works, Missing, p) /\ Reviewed(works, <<"base", 0>>, p)
  BY OriginsReviewed DEF Missing, Origins
<1>8. \A p \in Paths : Reviewed(works, project[p], p) BY <1>2, <1>7
<1>9. \A p \in Paths : FileIs(p) BY <1>1, <1>2, <1>8, ContentsDiffer DEF FileIs
<1>10. ASSUME NEW w \in Works PROVE WorkIs(w)
  <2>1. /\ works[w].status = "new" /\ works[w].task = project /\ works[w].baseline = project
        /\ works[w].accepted = project /\ \A p \in Paths : backup[w][p] = Missing
    BY <1>0
  <2> QED BY <1>7, <1>8, <2>1 DEF WorkIs
<1>11. ApplyTypes BY <1>0, <1>3, <1>4, <1>5, <1>6 DEF ApplyTypes
<1> QED BY <1>6, <1>9, <1>10, <1>11 DEF ApplyInv

LEMMA OnlyReviewedIs ==
  ASSUME ApplyInv
  PROVE  OnlyReviewed
<1> SUFFICES ASSUME NEW p \in Paths, NEW w \in Works
             PROVE  /\ project[p][1] # "unreviewed"
                    /\ project[p] = WorkOf(w) => works[w].accepted[p] = WorkOf(w)
                    /\ p \in apply.done => backup[apply.work][p] = Subject.baseline[p]
                    /\ project[p] = Torn => \E o \in Works : backup[o][p] = works[o].baseline[p]
  BY DEF OnlyReviewed
<1>1. FileIs(p) BY DEF ApplyInv
<1>2. project[p] = Torn => \E o \in Works : backup[o][p] = works[o].baseline[p]
  BY <1>1 DEF FileIs, IsKept, KeptBy
<1>3. ASSUME p \in apply.done PROVE backup[apply.work][p] = Subject.baseline[p]
  <2>1. apply.stage # "idle" BY <1>3 DEF ApplyInv, Resting
  <2>2. p \in apply.changes /\ ChangeIs(p) BY <1>3, <2>1 DEF ApplyInv, Applying
  <2> QED BY <1>3, <2>2 DEF ChangeIs, Subject
<1> QED BY <1>1, <1>2, <1>3 DEF FileIs, Reviewed

LEMMA EditsSurviveStep ==
  ASSUME ApplyInv, [ApplyNext]_applyVars
  PROVE  EditsSurvive
<1> SUFFICES ASSUME NEW p \in Paths, edited' = edited, project'[p] # project[p]
             PROVE  \/ project[p] \in {Subject.baseline[p], Subject.accepted[p]}
                    \/ project[p][1] = "late"
  BY DEF EditsSurvive
<1>0. project \in Files /\ edited \in Nat BY DEF ApplyInv, ApplyTypes
<1>1. ASSUME NEW q \in Paths, NEW c, project' = [project EXCEPT ![q] = c] PROVE q = p
  BY <1>0, <1>1 DEF Files
<1>2. CASE WriteFile
  <2>1. IsNextLeft(p) /\ apply.stage = "writing"
    BY <1>1, <1>2 DEF WriteFile, InStage
  <2>2. ChangeIs(p) BY <2>1, ApplyingIs DEF Applying, IsNextLeft
  <2> QED BY <2>1, <2>2 DEF ChangeIs, Subject
<1>3. CASE RestoreFile \/ RestoreFails \/ ApplyDies
  <2>1. IsLastDone(p) /\ apply.stage = "restoring"
    BY <1>1, <1>3 DEF RestoreFile, RestoreFails, ApplyDies, HalfRestored, InStage
  <2>2. ChangeIs(p) BY <2>1, ApplyingIs DEF Applying, IsLastDone
  <2> QED BY <2>1, <2>2 DEF ChangeIs, Subject
<1>4. CASE \E q \in Paths : EditProject(q)
  BY <1>0, <1>4 DEF EditProject
<1>5. CASE UNCHANGED project BY <1>5
<1> QED
  BY <1>2, <1>3, <1>4, <1>5 DEF ApplyNext, applyVars, StartWork, CompleteWork, CancelWork,
     StartApply, EditTask, SaveFile, LookAtFile, CopyFile, ReportApplied, AbortApply, UndoFile,
     ReportFailed

LEMMA AllOrNothingStep ==
  ASSUME ApplyInv, [ApplyNext]_applyVars
  PROVE  AllOrNothing
<1> SUFFICES ASSUME NEW p \in apply.changes, p \notin apply.touched
             PROVE  /\ Subject.receipt # "applied" /\ works'[apply.work].receipt = "applied" =>
                         project[p] = Subject.accepted[p]
                    /\ InStage("undoing") /\ apply.done = {} /\ apply'.stage = "idle" =>
                         p \in apply.unrestored \/ project[p] = Subject.baseline[p]
  BY DEF AllOrNothing
<1>1. apply.stage # "idle" BY DEF ApplyInv, Resting
<1>2. /\ Applying /\ apply.work \in Works /\ ChangeIs(p)
      /\ works \in [Works -> WorkSet] /\ works[apply.work] \in WorkSet
  BY <1>1, ApplyingIs DEF ApplyInv, ApplyTypes
<1>3. ASSUME InStage("undoing"), apply.done = {}
      PROVE  p \in apply.unrestored \/ project[p] = Subject.baseline[p]
  BY <1>2, <1>3 DEF ChangeIs, Holds, Subject, InStage
<1>4. ASSUME Subject.receipt # "applied", works'[apply.work].receipt = "applied"
      PROVE  project[p] = Subject.accepted[p]
  <2> DEFINE w == apply.work
  <2>1. CASE ReportApplied
    <3>1. p \in apply.done BY <1>2, <2>1 DEF ReportApplied, InStage, Applying
    <3> QED BY <1>2, <3>1 DEF ChangeIs, Holds, Subject
  <2>2. CASE ReportFailed \/ (ApplyDies /\ ~UNCHANGED works)
    <3>1. PICK receipt \in {"failed", "torn"} : works' = [works EXCEPT ![w].receipt = receipt]
      BY <2>2 DEF ReportFailed, ApplyDies, Retain
    <3>2. works'[w].receipt = receipt BY <1>2, <3>1 DEF WorkSet
    <3> QED BY <1>4, <3>2
  <2>3. CASE UNCHANGED works BY <1>4, <2>3 DEF Subject
  <2>4. CASE \E v \in Works, q \in Paths : EditTask(v, q)
    <3>1. PICK v \in Works, q \in Paths : EditTask(v, q) BY <2>4
    <3>2. works' = [works EXCEPT ![v].task[q] = <<"unreviewed", edited'>>]
      BY <3>1 DEF EditTask
    <3>3. works'[w].receipt = works[w].receipt
      <4>1. CASE v = w BY <1>2, <3>2, <4>1 DEF WorkSet
      <4>2. CASE v # w BY <1>2, <3>2, <4>2
      <4> QED BY <4>1, <4>2
    <3> QED BY <1>4, <3>3 DEF Subject
  <2>5. CASE \E v \in Works : CancelWork(v) \/ StartWork(v) \/ CompleteWork(v)
    <3>1. PICK v \in Works : CancelWork(v) \/ StartWork(v) \/ CompleteWork(v) BY <2>5
    <3>2. works[v].status # "completed" BY <3>1 DEF CancelWork, StartWork, CompleteWork
    <3>3. v # w BY <1>2, <3>2 DEF Applying
    <3>4. \E new : works' = [works EXCEPT ![v] = new]
      <4>1. CASE CancelWork(v)
        <5>1. works' = [works EXCEPT ![v] = [works[v] EXCEPT !.status = "cancelled"]]
          BY <1>2, <4>1 DEF CancelWork
        <5> QED BY <5>1
      <4>2. CASE StartWork(v) BY <4>2 DEF StartWork
      <4>3. CASE CompleteWork(v)
        <5>1. PICK made \in [Paths -> {"kept", "written", "deleted"}],
                   listed \in {Paths, {LastPath}} :
                LET result == [q \in Paths |-> CASE made[q] = "kept" -> works[v].task[q]
                                                 [] made[q] = "written" -> WorkOf(v)
                                                 [] made[q] = "deleted" -> Missing]
                IN works' = [works EXCEPT ![v] = [@ EXCEPT
                     !.status = "completed", !.task = result,
                     !.accepted = [q \in Paths |-> IF q \in listed \/ made[q] = "kept"
                                                   THEN result[q] ELSE Unlisted]]]
          BY <4>3 DEF CompleteWork
        <5> QED BY <5>1
      <4> QED BY <3>1, <4>1, <4>2, <4>3
    <3>5. works'[w] = works[w] BY <1>2, <3>3, <3>4
    <3> QED BY <1>4, <3>5 DEF Subject
  <2> QED
    BY <2>1, <2>2, <2>3, <2>4, <2>5 DEF ApplyNext, applyVars, StartApply, EditProject, SaveFile,
       LookAtFile, CopyFile, WriteFile, AbortApply, UndoFile, RestoreFile, RestoreFails
<1> QED BY <1>3, <1>4

(* Of a run only what its review accepted reaches the project, and what it *)
(* writes over, or half restores, is kept aside; it writes over no edit    *)
(* but in the instant of the write; an apply that reports itself applied   *)
(* changed every file, one that reports itself failed none, but for those  *)
(* edited meanwhile and those it says it could not restore (apply_changes, *)
(* noetic_application.py:791-865).                                         *)
THEOREM ApplyStaysSound == ApplySpec => ApplyIsSound
<1>1. ApplyInit => ApplyInv BY ApplyStarts
<1>2. ApplyInv /\ [ApplyNext]_applyVars => ApplyInv' BY ApplyNextKeeps
<1>3. ApplyInv => OnlyReviewed BY OnlyReviewedIs
<1>4. ApplyInv /\ [ApplyNext]_applyVars => [EditsSurvive /\ AllOrNothing]_applyVars
  BY EditsSurviveStep, AllOrNothingStep
<1> QED BY <1>1, <1>2, <1>3, <1>4, PTL DEF ApplySpec, ApplyIsSound
=============================================================================
