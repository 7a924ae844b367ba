-------------------------- MODULE ControllerProofs --------------------------
(***************************************************************************)
(* Theorems of the executive controller kernel, for every pattern length   *)
(* and every budget.                                                       *)
(***************************************************************************)
EXTENDS ControllerRefines, SequenceTheorems, TLAPS

USE ControllerAssumption

Open == {"ready", "running"}

\* The part of the inductive invariant every other part rests on.
Core == TypeOK /\ OneOpen

-----------------------------------------------------------------------------
\* Lemmas about the operators of the kernel.

LEMMA AppendType ==
  ASSUME NEW S, NEW q \in Seq(S), NEW e \in S
  PROVE  /\ Append(q, e) \in Seq(S)
         /\ Len(Append(q, e)) = Len(q) + 1
         /\ DOMAIN Append(q, e) = 1 .. Len(q) + 1
         /\ \A i \in DOMAIN q : Append(q, e)[i] = q[i]
         /\ Append(q, e)[Len(q) + 1] = e
OBVIOUS

\* Changing one activation keeps the sequence and every other activation.
LEMMA ExceptType ==
  ASSUME NEW S, NEW q \in Seq(S), NEW i \in DOMAIN q, NEW e \in S
  PROVE  /\ [q EXCEPT ![i] = e] \in Seq(S)
         /\ Len([q EXCEPT ![i] = e]) = Len(q)
         /\ DOMAIN [q EXCEPT ![i] = e] = DOMAIN q
         /\ \A j \in DOMAIN q : [q EXCEPT ![i] = e][j] = IF j = i THEN e ELSE q[j]
BY ExceptSeq, LenProperties

\* The current activation of an active run exists and is the only open one.
LEMMA CurrentIsOpen ==
  ASSUME Core, status = "active"
  PROVE  current \in DOMAIN activations /\ activations[current].status \in Open
BY DEF Core, TypeOK, DataTypeOK, OneOpen, None, Open

\* A submission retires the current activation and leaves none open.
LEMMA RetiredType ==
  ASSUME Core, status = "active", NEW s \in Nat
  PROVE  /\ Retired(current, s) \in Seq(ActivationRecord)
         /\ Len(Retired(current, s)) = Len(activations)
         /\ DOMAIN Retired(current, s) = DOMAIN activations
         /\ \A i \in DOMAIN activations : Retired(current, s)[i].status \notin Open
<1> DEFINE e == [activations[current] EXCEPT !.status = "retired", !.session = s,
                                              !.result = newest]
<1>1. current \in DOMAIN activations
  BY CurrentIsOpen
<1>2. activations[current] \in ActivationRecord /\ newest \in Nat
  BY <1>1 DEF Core, TypeOK, DataTypeOK, newest
<1>3. e \in ActivationRecord /\ e.status = "retired"
  BY <1>2 DEF ActivationRecord
<1>4. Retired(current, s) = [activations EXCEPT ![current] = e]
  BY DEF Retired
<1>5. activations \in Seq(ActivationRecord)
  BY DEF Core, TypeOK, DataTypeOK
<1>6. \A i \in DOMAIN activations : Retired(current, s)[i]
                                    = IF i = current THEN e ELSE activations[i]
  BY <1>1, <1>3, <1>4, <1>5, ExceptType
<1>7. QED
  BY <1>1, <1>3, <1>4, <1>5, <1>6, ExceptType DEF Core, OneOpen, Open

\* What an accepted result adds to the record is an artifact of its activation.
LEMMA ArtifactTyped ==
  ASSUME TypeOK, NEW a \in DOMAIN activations, NEW r \in ResultRecord,
         NEW type \in {"work", "review", "feedback"},
         type = "review" => r.outcome \in {"pass", "fail"}
  PROVE  Artifact(type, a, r) \in ArtifactRecord /\ Artifact(type, a, r).by = a
BY DEF Artifact, ArtifactRecord, ResultRecord, TypeOK, DataTypeOK, None, CanReturn

\* Reserving a successor leaves exactly the successor open.
LEMMA AllocateType ==
  ASSUME NEW base \in Seq(ActivationRecord),
         \A i \in DOMAIN base : base[i].status \notin Open,
         NEW mode \in {"produce", "review", "operate"},
         phase' \in Phases, generation' \in Nat, visits' \in [Phases -> Nat],
         slots' \in [Phases -> Nat], subject' \in Nat, review' \in Nat,
         feedback' \in Seq(Nat), Allocate(mode, base)
  PROVE  /\ activations' \in Seq(ActivationRecord)
         /\ Len(activations') = Len(base) + 1
         /\ DOMAIN activations' = 1 .. Len(base) + 1
         /\ current' = Len(base) + 1
         /\ \A i \in DOMAIN activations' : activations'[i].status \in Open <=> i = current'
         /\ \A i \in DOMAIN base : activations'[i] = base[i]
         /\ activations'[current'] = Reservation(mode, phase', generation', visits'[phase'],
                                                slots', subject', review', feedback')
<1> DEFINE new == Reservation(mode, phase', generation', visits'[phase'], slots',
                              subject', review', feedback')
<1>1. activations' = Append(base, new) /\ current' = Len(base) + 1
  BY DEF Allocate, Number
<1>2. (IF feedback' = <<>> THEN None ELSE feedback'[Len(feedback')]) \in Nat
  BY DEF None
<1>3. new \in ActivationRecord /\ new.status = "ready"
  BY <1>2 DEF Reservation, ActivationRecord, Phases, None
<1>4. QED
  BY <1>1, <1>3, AppendType, LenProperties DEF Open

\* Entering a phase stays within the pattern and counts the visit.
LEMMA EnterType ==
  ASSUME DataTypeOK, NEW p \in Phases, Enter(p)
  PROVE  phase' \in Phases /\ visits' \in [Phases -> Nat]
BY DEF Enter, DataTypeOK

-----------------------------------------------------------------------------
\* The type invariant and the serial reservation, row by row.

ReservationOK == /\ activations \in Seq(ActivationRecord)
                 /\ current \in 0 .. Len(activations)
                 /\ OneOpen

LEMMA TransitionCore ==
  ASSUME Core, status = "active", version' = version + 1,
         NEW r \in ResultRecord, NEW s \in Nat, Transition(current, r, s)
  PROVE  DataTypeOK' /\ ReservationOK'
<1> DEFINE base == Retired(current, s)
<1>1. /\ base \in Seq(ActivationRecord) /\ Len(base) = Len(activations)
      /\ \A i \in DOMAIN base : base[i].status \notin Open
      /\ DOMAIN base = 1 .. Len(activations) /\ Len(activations) \in Nat
      /\ current \in DOMAIN activations
  <2>1. activations \in Seq(ActivationRecord)
    BY DEF Core, TypeOK
  <2>2. DOMAIN activations = 1 .. Len(activations) /\ Len(activations) \in Nat
    BY <2>1
  <2>3. QED
    BY <2>2, RetiredType, CurrentIsOpen
<1>2. DataTypeOK /\ newest \in Nat
  BY DEF Core, TypeOK, DataTypeOK, newest
<1> DEFINE work == Artifact("work", current, r)
           note == Artifact("feedback", current, r)
           opinion == Artifact("review", current, r)
<1>3. /\ work \in ArtifactRecord /\ note \in ArtifactRecord
      /\ r.outcome \in {"pass", "fail"} => opinion \in ArtifactRecord
  BY <1>1, ArtifactTyped DEF Core
<1> HIDE DEF base, work, note, opinion
\* A row that reserves a successor, and one that stops the run.
<1>4. ASSUME NEW mode \in {"produce", "review", "operate"}, Allocate(mode, base),
             DataTypeOK', status' = status
      PROVE  DataTypeOK' /\ ReservationOK'
  <2>1. /\ activations' \in Seq(ActivationRecord)
        /\ Len(activations') = Len(base) + 1
        /\ current' = Len(base) + 1
        /\ \A i \in DOMAIN activations' : activations'[i].status \in Open <=> i = current'
    BY <1>1, <1>4, AllocateType DEF DataTypeOK
  <2>2. current' \in 1 .. Len(activations')
    BY <1>1, <2>1
  <2>3. status' = "active" /\ current' # None
    BY <1>4, <2>2 DEF None
  <2>4. OneOpen'
    BY <2>1, <2>3 DEF OneOpen, Open
  <2>5. QED
    BY <1>4, <2>1, <2>2, <2>4 DEF ReservationOK
<1>5. ASSUME NEW outcome \in Statuses \ {"active"}, Stop(outcome, base),
             status' \in Statuses /\ machine' \in Machines => DataTypeOK'
      PROVE  DataTypeOK' /\ ReservationOK'
  <2>1. status' \in Statuses /\ machine' \in Machines
    BY <1>5 DEF Stop, Machines, Statuses
  <2>2. ReservationOK'
    BY <1>1, <1>5 DEF Stop, OneOpen, ReservationOK, Open, None
  <2>3. QED
    BY <1>5, <2>1, <2>2
<1>6. CASE Produced(current, r, s)
  <2>1. artifacts' = Append(artifacts, work) /\ Allocate("review", base) /\ status' = status
    BY <1>6 DEF Produced, base, work
  <2>2. artifacts' \in Seq(ArtifactRecord)
    BY <1>2, <1>3, <1>6, <2>1 DEF DataTypeOK
  <2>3. DataTypeOK'
    BY <1>2, <1>6, <2>2 DEF Produced, DataTypeOK, Machines, None, Phases
  <2>4. QED
    BY <1>4, <2>1, <2>3
<1>7. CASE PassNext(current, r, s)
  <2>1. artifacts' = Append(artifacts, opinion) /\ Allocate("produce", base) /\ status' = status
    BY <1>7 DEF PassNext, base, opinion
  <2>2. artifacts' \in Seq(ArtifactRecord)
    BY <1>2, <1>3, <1>7, <2>1 DEF DataTypeOK, PassNext
  <2>3. DataTypeOK'
    <3>1. phase + 1 \in Phases /\ Enter(phase + 1)
      BY <1>2, <1>7 DEF PassNext, HasNext, Phases, DataTypeOK
    <3>2. phase' \in Phases /\ visits' \in [Phases -> Nat]
      BY <1>2, <3>1, EnterType
    <3>3. slots' \in [Phases -> Nat]
      BY <1>2, <1>7 DEF PassNext, DataTypeOK
    <3>4. QED
      BY <1>2, <1>7, <2>2, <3>2, <3>3 DEF PassNext, DataTypeOK, Machines, None
  <2>4. QED
    BY <1>4, <2>1, <2>3
<1>8. CASE PassLast(current, r, s)
  <2>1. artifacts' = Append(artifacts, opinion) /\ Stop("completed", base)
    BY <1>8 DEF PassLast, base, opinion
  <2>2. artifacts' \in Seq(ArtifactRecord)
    BY <1>2, <1>3, <1>8, <2>1 DEF DataTypeOK, PassLast
  <2>3. status' \in Statuses /\ machine' \in Machines => DataTypeOK'
    BY <1>2, <1>8, <2>2 DEF PassLast, DataTypeOK, None
  <2>4. QED
    BY <1>5, <2>1, <2>3 DEF Statuses
<1>9. CASE FailRemediate(current, r, s)
  <2>1. artifacts' = Append(artifacts, opinion) /\ Allocate("produce", base) /\ status' = status
    BY <1>9 DEF FailRemediate, base, opinion
  <2>2. artifacts' \in Seq(ArtifactRecord)
    BY <1>2, <1>3, <1>9, <2>1 DEF DataTypeOK, FailRemediate
  <2>3. DataTypeOK'
    BY <1>2, <1>9, <2>2 DEF FailRemediate, DataTypeOK, Machines, None, Phases
  <2>4. QED
    BY <1>4, <2>1, <2>3
<1>10. CASE FailBlock(current, r, s)
  <2>1. artifacts' = Append(artifacts, opinion) /\ Stop("blocked", base)
    BY <1>10 DEF FailBlock, base, opinion
  <2>2. artifacts' \in Seq(ArtifactRecord)
    BY <1>2, <1>3, <1>10, <2>1 DEF DataTypeOK, FailBlock
  <2>3. status' \in Statuses /\ machine' \in Machines => DataTypeOK'
    BY <1>2, <1>10, <2>2 DEF FailBlock, DataTypeOK, None
  <2>4. QED
    BY <1>5, <2>1, <2>3 DEF Statuses
<1>11. CASE Advance(current, r, s)
  <2>1. artifacts' = Append(artifacts, work) /\ Allocate("operate", base) /\ status' = status
    BY <1>11 DEF Advance, base, work
  <2>2. artifacts' \in Seq(ArtifactRecord)
    BY <1>2, <1>3, <1>11, <2>1 DEF DataTypeOK
  <2>3. DataTypeOK'
    <3>1. phase + 1 \in Phases /\ Enter(phase + 1)
      BY <1>2, <1>11 DEF Advance, HasNext, Phases, DataTypeOK
    <3>2. phase' \in Phases /\ visits' \in [Phases -> Nat]
      BY <1>2, <3>1, EnterType
    <3>3. slots' \in [Phases -> Nat]
      BY <1>2, <1>11 DEF Advance, DataTypeOK
    <3>4. QED
      BY <1>2, <1>11, <2>2, <3>2, <3>3 DEF Advance, DataTypeOK, Machines, None
  <2>4. QED
    BY <1>4, <2>1, <2>3
<1>12. CASE Complete(current, r, s)
  <2>1. artifacts' = Append(artifacts, work) /\ Stop("completed", base)
    BY <1>12 DEF Complete, base, work
  <2>2. artifacts' \in Seq(ArtifactRecord)
    BY <1>2, <1>3, <1>12, <2>1 DEF DataTypeOK
  <2>3. status' \in Statuses /\ machine' \in Machines => DataTypeOK'
    BY <1>2, <1>12, <2>2 DEF Complete, DataTypeOK, None
  <2>4. QED
    BY <1>5, <2>1, <2>3 DEF Statuses
<1>13. CASE Return(current, r, s)
  <2>1. artifacts' = artifacts \o <<work, note>> /\ Allocate("operate", base) /\ status' = status
    BY <1>13 DEF Return, base, work, note, RecordReturn
  <2>2. artifacts' \in Seq(ArtifactRecord)
    BY <1>2, <1>3, <1>13, <2>1 DEF DataTypeOK
  <2>3. DataTypeOK'
    <3>1. phase' \in Phases /\ visits' \in [Phases -> Nat]
      BY <1>2, <1>13, EnterType DEF Return, ResultRecord
    <3>2. slots' \in [Phases -> Nat] /\ feedback' \in Seq(Nat)
      BY <1>2, <1>13 DEF Return, DataTypeOK, Invalidate, RecordReturn, None
    <3>3. QED
      BY <1>2, <1>13, <2>2, <3>1, <3>2 DEF Return, DataTypeOK, Machines
  <2>4. QED
    BY <1>4, <2>1, <2>3
<1>14. CASE ReturnBlock(current, r, s)
  <2>1. artifacts' = artifacts \o <<work, note>> /\ Stop("blocked", base)
    BY <1>14 DEF ReturnBlock, base, work, note, RecordReturn
  <2>2. artifacts' \in Seq(ArtifactRecord)
    BY <1>2, <1>3, <1>14, <2>1 DEF DataTypeOK
  <2>3. status' \in Statuses /\ machine' \in Machines => DataTypeOK'
    BY <1>2, <1>14, <2>2 DEF ReturnBlock, DataTypeOK, None, RecordReturn
  <2>4. QED
    BY <1>5, <2>1, <2>3 DEF Statuses
<1>15. QED
  BY <1>6, <1>7, <1>8, <1>9, <1>10, <1>11, <1>12, <1>13, <1>14 DEF Transition
-----------------------------------------------------------------------------
\* The operations.

LEMMA FailCore ==
  ASSUME Core, status = "active", NEW outcome \in {"failed", "cancelled"},
         FailActivation(current, outcome)
  PROVE  Core'
<1> DEFINE e == [activations[current] EXCEPT !.status = "failed"]
           base == [activations EXCEPT ![current] = e]
<1>1. /\ current \in DOMAIN activations /\ activations \in Seq(ActivationRecord)
      /\ activations[current] \in ActivationRecord
  BY CurrentIsOpen DEF Core, TypeOK
<1>2. e \in ActivationRecord /\ e.status = "failed"
  BY <1>1 DEF ActivationRecord
<1>3. Stop(outcome, base)
  BY DEF FailActivation
<1>4. /\ base \in Seq(ActivationRecord) /\ Len(base) \in Nat
      /\ DOMAIN base = DOMAIN activations
      /\ \A i \in DOMAIN base : base[i] = IF i = current THEN e ELSE activations[i]
  BY <1>1, <1>2, ExceptType
<1> HIDE DEF base
<1>5. \A i \in DOMAIN base : base[i].status \notin Open
  BY <1>1, <1>2, <1>4 DEF Core, OneOpen, Open
<1>6. activations' \in Seq(ActivationRecord) /\ current' \in 0 .. Len(activations')
  BY <1>3, <1>4 DEF Stop, None
<1>7. OneOpen'
  BY <1>3, <1>4, <1>5 DEF Stop, OneOpen, Open, None
<1>8. DataTypeOK'
  BY SMTT(60), <1>3 DEF Core, TypeOK, DataTypeOK, FailActivation, Stop, Statuses, Machines
<1>9. QED
  BY <1>6, <1>7, <1>8 DEF Core, TypeOK, FailActivation

LEMMA BeginCore ==
  ASSUME Core, NEW a, NEW v, BeginActivation(a, v)
  PROVE  Core'
<1> DEFINE e == [activations[a] EXCEPT !.status = "running"]
<1>1. status = "active" /\ a = current
  BY DEF BeginActivation, Current
<1>2. /\ a \in DOMAIN activations /\ activations \in Seq(ActivationRecord)
      /\ activations[a] \in ActivationRecord
  BY <1>1, CurrentIsOpen DEF Core, TypeOK
<1>3. e \in ActivationRecord /\ e.status = "running"
  BY <1>2 DEF ActivationRecord
<1>4. activations' = [activations EXCEPT ![a] = e]
  BY DEF BeginActivation
<1>5. /\ activations' \in Seq(ActivationRecord)
      /\ Len(activations') = Len(activations)
      /\ DOMAIN activations' = DOMAIN activations
      /\ \A i \in DOMAIN activations : activations'[i] = IF i = a THEN e ELSE activations[i]
  BY <1>2, <1>3, <1>4, ExceptType
<1>6. OneOpen'
  BY <1>1, <1>3, <1>5 DEF Core, OneOpen, BeginActivation
<1>7. DataTypeOK'
  BY DEF Core, TypeOK, DataTypeOK, BeginActivation
<1>8. QED
  BY <1>5, <1>6, <1>7 DEF Core, TypeOK, BeginActivation

\* A submission that is accepted comes from the current activation of an
\* active run and hands in a well-formed result.
LEMMA SubmitCore ==
  ASSUME Core, NEW a, NEW v, NEW r \in ResultRecord, NEW s \in Nat,
         SubmitResult(a, v, r, s)
  PROVE  Core'
<1>1. /\ status = "active" /\ a = current /\ v = version
      /\ version' = version + 1 /\ Transition(current, r, s)
  BY DEF SubmitResult, Current
<1>2. DataTypeOK' /\ ReservationOK'
  BY <1>1, TransitionCore
<1>3. a \in Nat /\ v \in Nat
  BY <1>1, CurrentIsOpen DEF Core, TypeOK, DataTypeOK
<1> DEFINE q == [request |-> [activation |-> a, version |-> v, result |-> r, session |-> s],
                 response |-> Snapshot']
<1>4. Snapshot' \in SnapshotRecord
  BY <1>2 DEF Snapshot, SnapshotRecord, DataTypeOK, ReservationOK
<1>5. q \in [request : RequestRecord, response : SnapshotRecord]
  BY <1>3, <1>4 DEF RequestRecord
<1>6. receipts' = Append(receipts, q)
      /\ answers' = answers \cup {[command |-> Len(receipts) + 1, response |-> Snapshot']}
  BY DEF SubmitResult
<1> HIDE DEF q
<1>7. /\ receipts' \in Seq([request : RequestRecord, response : SnapshotRecord])
      /\ answers' \subseteq [command : Nat, response : SnapshotRecord]
  BY <1>4, <1>5, <1>6 DEF Core, TypeOK
<1>8. kind' = kind
  BY DEF SubmitResult
<1>9. QED
  BY <1>2, <1>7, <1>8 DEF Core, TypeOK, ReservationOK

Outcomes == {"produced", "advance", "complete", "return", "pass", "fail"}

LEMMA ResultTyped ==
  ASSUME NEW o \in Outcomes, NEW n \in Nat, NEW b \in BOOLEAN, NEW t \in Phases,
         NEW f \in BOOLEAN
  PROVE  [outcome |-> o, names |-> n, blocking |-> b, target |-> t, full |-> f] \in ResultRecord
BY DEF ResultRecord, Outcomes

\* Every result a role can hand in is well formed.
LEMMA ResultsTyped == ASSUME Core PROVE Results \subseteq ResultRecord
<1> SUFFICES ASSUME NEW r \in Results PROVE r \in ResultRecord
  OBVIOUS
<1>1. 0 .. Len(artifacts) \subseteq Nat /\ 0 \in Phases
  BY DEF Phases
<1>2. CASE r \in [outcome : {"pass", "fail"}, names : 0 .. Len(artifacts), blocking : BOOLEAN,
                  target : {0}, full : {TRUE}]
  <2>1. /\ r.outcome \in Outcomes /\ r.names \in Nat /\ r.target \in Phases
        /\ r = [outcome |-> r.outcome, names |-> r.names, blocking |-> r.blocking,
                target |-> r.target, full |-> r.full]
    BY <1>1, <1>2 DEF None, Outcomes
  <2>2. r.blocking \in BOOLEAN /\ r.full \in BOOLEAN
    BY <1>2, Zenon
  <2>3. QED
    BY <2>1, <2>2, ResultTyped, ZenonT(60)
<1>3. CASE r \in [outcome : {"produced", "advance", "complete"}, names : {None},
                  blocking : {FALSE}, target : {0}, full : BOOLEAN]
  <2>1. /\ r.outcome \in Outcomes /\ r.names \in Nat /\ r.target \in Phases
        /\ r = [outcome |-> r.outcome, names |-> r.names, blocking |-> r.blocking,
                target |-> r.target, full |-> r.full]
    BY <1>1, <1>3 DEF None, Outcomes
  <2>2. r.blocking \in BOOLEAN /\ r.full \in BOOLEAN
    BY <1>3, Zenon
  <2>3. QED
    BY <2>1, <2>2, ResultTyped, ZenonT(60)
<1>4. CASE r \in [outcome : {"return"}, names : {None}, blocking : {FALSE},
                  target : Phases, full : BOOLEAN]
  <2>1. /\ r.outcome \in Outcomes /\ r.names \in Nat /\ r.target \in Phases
        /\ r = [outcome |-> r.outcome, names |-> r.names, blocking |-> r.blocking,
                target |-> r.target, full |-> r.full]
    BY <1>1, <1>4 DEF None, Outcomes
  <2>2. r.blocking \in BOOLEAN /\ r.full \in BOOLEAN
    BY <1>4, Zenon
  <2>3. QED
    BY <2>1, <2>2, ResultTyped, ZenonT(60)
<1>5. QED
  BY <1>2, <1>3, <1>4, Zenon DEF Results

LEMMA InitCore == Init => Core
<1> SUFFICES ASSUME Init PROVE Core
  OBVIOUS
<1>1. 0 \in Phases
  BY DEF Phases
<1> DEFINE first == Reservation(IF kind = Verified THEN "produce" ELSE "operate",
                                0, 0, 1, slots, None, None, <<>>)
<1>2. slots \in [Phases -> Nat] /\ visits \in [Phases -> Nat]
  BY DEF Init, None
<1>3. first \in ActivationRecord /\ first.status = "ready"
  BY <1>1, <1>2 DEF Reservation, ActivationRecord, None
<1>4. activations = <<first>>
  BY DEF Init
<1> HIDE DEF first
<1>5. /\ activations \in Seq(ActivationRecord) /\ Len(activations) = 1
      /\ DOMAIN activations = {1} /\ activations[1].status = "ready"
  BY <1>3, <1>4
<1>6. OneOpen
  BY <1>5 DEF Init, OneOpen, None
<1>7. DataTypeOK
  BY <1>1, <1>2 DEF Init, DataTypeOK, None, Statuses, Machines
<1>8. QED
  BY <1>5, <1>6, <1>7 DEF Init, Core, TypeOK

\* The operations as what they do to an active run, whoever calls them.
Begins  == BeginActivation(current, version)
Submits == \E r \in ResultRecord, s \in Nat : SubmitResult(current, version, r, s)
Stops   == /\ status = "active"
           /\ \E outcome \in {"failed", "cancelled"} : FailActivation(current, outcome)
Operate == Begins \/ Submits \/ Redeliver \/ Stops

\* Any caller holding any earlier version does one of these, or nothing.
LEMMA NextOperates == Core /\ [Next]_vars => [Operate]_vars
<1> SUFFICES ASSUME Core, Next PROVE Operate
  OBVIOUS
<1>1. CASE Begin
  BY <1>1 DEF Begin, BeginActivation, Current, Operate, Begins
<1>2. CASE Submit
  <2>1. PICK a \in DOMAIN activations, v \in 1 .. version, s \in 1 .. Len(receipts) + 1,
             r \in Results : SubmitResult(a, v, r, s)
    BY <1>2 DEF Submit
  <2>2. Len(receipts) \in Nat
    BY DEF Core, TypeOK
  <2>3. s \in Nat /\ r \in ResultRecord
    BY <2>1, <2>2, ResultsTyped
  <2>4. a = current /\ v = version
    BY <2>1 DEF SubmitResult, Current
  <2>5. QED
    BY <2>1, <2>3, <2>4 DEF Operate, Submits
<1>3. CASE Fail \/ CancelRun
  BY <1>3 DEF Fail, CancelRun, RuntimeFailed, Current, Operate, Stops
<1>4. QED
  BY <1>1, <1>2, <1>3 DEF Next, Operate

LEMMA OperateCore == Core /\ [Operate]_vars => Core'
<1> SUFFICES ASSUME Core, [Operate]_vars PROVE Core'
  OBVIOUS
<1>1. CASE Begins
  BY <1>1, BeginCore DEF Begins
<1>2. CASE Submits
  BY <1>2, SubmitCore DEF Submits
<1>3. CASE Redeliver
  <2>1. PICK c \in DOMAIN receipts : RedeliverResult(c)
    BY <1>3 DEF Redeliver
  <2>2. c \in Nat /\ receipts[c].response \in SnapshotRecord
    <3>1. receipts \in Seq([request : RequestRecord, response : SnapshotRecord])
      BY DEF Core, TypeOK
    <3>2. c \in 1 .. Len(receipts) /\ Len(receipts) \in Nat
      BY <2>1, <3>1
    <3>3. receipts[c] \in [request : RequestRecord, response : SnapshotRecord]
      BY <3>1, <3>2, ElementOfSeq
    <3>4. QED
      BY <3>2, <3>3
  <2>3. answers' \subseteq [command : Nat, response : SnapshotRecord]
    BY <2>1, <2>2 DEF Core, TypeOK, RedeliverResult
  <2>4. QED
    BY <2>1, <2>3 DEF Core, TypeOK, DataTypeOK, OneOpen, RedeliverResult, run
<1>4. CASE Stops
  BY <1>4, FailCore DEF Stops
<1>5. CASE UNCHANGED vars
  BY <1>5 DEF Core, TypeOK, DataTypeOK, OneOpen, vars, run
<1>6. QED
  BY <1>1, <1>2, <1>3, <1>4, <1>5 DEF Operate

\* The kernel as its adapters use it, be they the callers of Next or a harness.
Serve == Init /\ [][Operate]_vars

LEMMA ServesCore == Serve => []Core
BY InitCore, OperateCore, PTL DEF Serve

LEMMA SpecServes == Spec => Serve
<1>1. Spec => []Core
  <2>1. Core /\ [Next]_vars => Core'
    BY NextOperates, OperateCore
  <2>2. QED
    BY <2>1, InitCore, PTL DEF Spec
<1>2. QED
  BY <1>1, NextOperates, PTL DEF Spec, Serve

\* The kernel is type correct: start_run and every operation, in any order and
\* from callers however stale, store values of their kinds.
THEOREM TypeCorrect == Spec => []TypeOK
BY SpecServes, ServesCore, PTL DEF Core
-----------------------------------------------------------------------------
\* What a submission leaves standing: nothing an artifact says is ever changed,
\* nor what an activation was reserved with, and only the submitting
\* activation retires.

SameReservation(e, f) == /\ f.phase = e.phase /\ f.generation = e.generation
                         /\ f.visit = e.visit /\ f.basis = e.basis

\* Artifacts and activations arts and acts have become newArts and newActs.
Kept(arts, acts, newArts, newActs) ==
  /\ \A x \in DOMAIN arts : x \in DOMAIN newArts /\ newArts[x] = arts[x]
  /\ \A i \in DOMAIN acts : /\ i \in DOMAIN newActs /\ SameReservation(acts[i], newActs[i])
                            /\ acts[i].status = "retired" => newActs[i] = acts[i]

\* The successor of a submission is reserved with the state it leaves.
Successor(acts) ==
  IF status' = "active"
    THEN /\ current' = Len(acts) + 1 /\ DOMAIN activations' = DOMAIN acts \union {current'}
         /\ current' \notin DOMAIN acts
         /\ \E mode \in {"produce", "review", "operate"} :
              activations'[current'] =
                Reservation(mode, phase', generation', visits'[phase'], slots',
                            subject', review', feedback')
    ELSE DOMAIN activations' = DOMAIN acts

\* What is appended leaves what was there.
LEMMA AppendKeeps ==
  ASSUME NEW S, NEW q \in Seq(S), NEW e \in S
  PROVE  /\ \A x \in DOMAIN q : x \in DOMAIN Append(q, e) /\ Append(q, e)[x] = q[x]
         /\ Len(q) + 1 \in DOMAIN Append(q, e) /\ Append(q, e)[Len(q) + 1] = e
<1>1. DOMAIN q = 1 .. Len(q) /\ Len(q) \in Nat
  OBVIOUS
<1>2. QED
  BY <1>1, AppendType

\* The artifact or the two artifacts of a transition are of its activation.
LEMMA TransitionArtifacts ==
  ASSUME Core, status = "active", NEW r \in ResultRecord, NEW s \in Nat,
         Transition(current, r, s)
  PROVE  /\ \A x \in DOMAIN artifacts : x \in DOMAIN artifacts' /\ artifacts'[x] = artifacts[x]
         /\ newest \in DOMAIN artifacts'
         /\ artifacts'[newest] =
              Artifact(IF r.outcome \in {"pass", "fail"} THEN "review" ELSE "work", current, r)
<1>1. current \in DOMAIN activations /\ artifacts \in Seq(ArtifactRecord)
  BY CurrentIsOpen DEF Core, TypeOK, DataTypeOK
<1> DEFINE work == Artifact("work", current, r)
           note == Artifact("feedback", current, r)
           opinion == Artifact("review", current, r)
<1>2. /\ work \in ArtifactRecord /\ note \in ArtifactRecord
      /\ r.outcome \in {"pass", "fail"} => opinion \in ArtifactRecord
  BY <1>1, ArtifactTyped DEF Core
<1> HIDE DEF work, note, opinion
<1>3. CASE r.outcome \in {"produced", "advance", "complete"}
  <2>1. artifacts' = Append(artifacts, work)
    BY <1>3 DEF Transition, Produced, PassNext, PassLast, FailRemediate, FailBlock, Advance,
                Complete, Return, ReturnBlock, work
  <2>2. QED
    BY <1>1, <1>2, <1>3, <2>1, AppendKeeps DEF newest, work
<1>4. CASE r.outcome \in {"pass", "fail"}
  <2>1. artifacts' = Append(artifacts, opinion)
    BY <1>4 DEF Transition, Produced, PassNext, PassLast, FailRemediate, FailBlock, Advance,
                Complete, Return, ReturnBlock, opinion
  <2>2. QED
    BY <1>1, <1>2, <1>4, <2>1, AppendKeeps DEF newest, opinion
<1>5. CASE r.outcome = "return"
  <2>1. artifacts' = artifacts \o <<work, note>>
    BY <1>5 DEF Transition, Produced, PassNext, PassLast, FailRemediate, FailBlock, Advance,
                Complete, Return, ReturnBlock, RecordReturn, work, note
  <2>2. /\ DOMAIN artifacts = 1 .. Len(artifacts) /\ Len(artifacts) \in Nat
        /\ DOMAIN artifacts' = 1 .. Len(artifacts) + 2
        /\ \A x \in 1 .. Len(artifacts) : artifacts'[x] = artifacts[x]
        /\ artifacts'[Len(artifacts) + 1] = work
    BY <1>1, <1>2, <2>1
  <2>3. QED
    BY <1>5, <2>2 DEF newest, work
<1>6. QED
  BY <1>3, <1>4, <1>5 DEF ResultRecord

\* A submission retires its activation with its session, keeps all others and
\* reserves at most the successor.
LEMMA TransitionActivations ==
  ASSUME Core, Core', status = "active", NEW r \in ResultRecord, NEW s \in Nat,
         Transition(current, r, s)
  PROVE  /\ \A i \in DOMAIN activations : /\ i \in DOMAIN activations'
                                          /\ SameReservation(activations[i], activations'[i])
                                          /\ i # current => activations'[i] = activations[i]
         /\ activations'[current].status = "retired" /\ activations'[current].session = s
         /\ Successor(activations)
<1> DEFINE e == [activations[current] EXCEPT !.status = "retired", !.session = s,
                                             !.result = newest]
           base == Retired(current, s)
<1>1. /\ current \in DOMAIN activations /\ activations \in Seq(ActivationRecord)
      /\ artifacts \in Seq(ArtifactRecord)
  BY CurrentIsOpen DEF Core, TypeOK, DataTypeOK
<1>2. activations[current] \in ActivationRecord /\ newest \in Nat
  BY <1>1 DEF newest
<1>3. /\ e \in ActivationRecord /\ e.status = "retired" /\ e.session = s
      /\ SameReservation(activations[current], e)
  BY <1>2 DEF ActivationRecord, SameReservation
<1>4. base = [activations EXCEPT ![current] = e]
  BY DEF Retired
<1>5. /\ base \in Seq(ActivationRecord) /\ Len(base) = Len(activations)
      /\ DOMAIN base = DOMAIN activations
      /\ \A i \in DOMAIN activations : base[i] = IF i = current THEN e ELSE activations[i]
      /\ \A i \in DOMAIN base : base[i].status \notin Open
  BY <1>1, <1>3, <1>4, ExceptType, RetiredType
<1> HIDE DEF base, e
<1>6. \A i \in DOMAIN activations : SameReservation(activations[i], base[i])
  BY <1>3, <1>5 DEF SameReservation
<1>7. ASSUME NEW mode \in {"produce", "review", "operate"}, Allocate(mode, base),
             status' = status
      PROVE  Successor(activations) /\ \A i \in DOMAIN base : activations'[i] = base[i]
  <2>1. /\ DOMAIN activations' = 1 .. Len(base) + 1 /\ current' = Len(base) + 1
        /\ \A i \in DOMAIN base : activations'[i] = base[i]
        /\ activations'[current'] = Reservation(mode, phase', generation', visits'[phase'],
                                               slots', subject', review', feedback')
    BY <1>5, <1>7, AllocateType DEF Core, TypeOK, DataTypeOK
  <2>2. DOMAIN base = 1 .. Len(base) /\ Len(base) \in Nat
    BY <1>5
  <2>3. QED
    BY <1>5, <1>7, <2>1, <2>2 DEF Successor
<1>8. ASSUME NEW outcome \in Statuses \ {"active"}, Stop(outcome, base)
      PROVE  Successor(activations) /\ \A i \in DOMAIN base : activations'[i] = base[i]
  BY <1>5, <1>8 DEF Stop, Successor
<1> DEFINE goal == Successor(activations) /\ \A i \in DOMAIN base : activations'[i] = base[i]
<1> HIDE DEF goal
<1>9. ASSUME \/ Produced(current, r, s) \/ PassNext(current, r, s)
             \/ FailRemediate(current, r, s) \/ Advance(current, r, s) \/ Return(current, r, s)
      PROVE  goal
  <2>1. \E mode \in {"produce", "review", "operate"} : Allocate(mode, base) /\ status' = status
    BY <1>9 DEF Produced, PassNext, FailRemediate, Advance, Return, base
  <2>2. QED
    BY <1>7, <2>1 DEF goal
<1>10. ASSUME \/ PassLast(current, r, s) \/ FailBlock(current, r, s)
              \/ Complete(current, r, s) \/ ReturnBlock(current, r, s)
       PROVE  goal
  <2>1. \E outcome \in {"completed", "blocked"} : Stop(outcome, base)
    BY <1>10 DEF PassLast, FailBlock, Complete, ReturnBlock, base
  <2>2. QED
    BY <1>8, <2>1 DEF Statuses, goal
<1>11. Successor(activations) /\ \A i \in DOMAIN base : activations'[i] = base[i]
  BY <1>9, <1>10 DEF Transition, goal
<1>12. DOMAIN activations \subseteq DOMAIN activations'
  BY <1>11 DEF Successor
<1>13. QED
  BY <1>1, <1>3, <1>5, <1>6, <1>11, <1>12

-----------------------------------------------------------------------------
\* Each activation is begun once: versions count reservations and beginnings.

\* A submission that goes on reserves one activation, one that stops none.
LEMMA SubmissionGrows ==
  ASSUME Core, Core', status = "active", NEW r \in ResultRecord, NEW s \in Nat,
         Transition(current, r, s)
  PROVE  Len(activations') = Len(activations) + IF status' = "active" THEN 1 ELSE 0
<1>1. Successor(activations)
  BY TransitionActivations
<1>2. /\ DOMAIN activations = 1 .. Len(activations) /\ Len(activations) \in Nat
      /\ DOMAIN activations' = 1 .. Len(activations') /\ Len(activations') \in Nat
  BY DEF Core, TypeOK
<1> DEFINE old == Len(activations)
           new == Len(activations')
<1> HIDE DEF old, new
<1>3. ASSUME status' = "active" PROVE new = old + 1
  <2>1. 1 .. new = 1 .. old \cup {old + 1}
    BY <1>1, <1>2, <1>3 DEF Successor, old, new
  <2>2. old + 1 \in 1 .. new /\ old \in Nat /\ new \in Nat
    BY <1>2, <2>1 DEF old, new
  <2>3. new \in 1 .. old \cup {old + 1}
    BY <2>1, <2>2
  <2>4. QED
    BY <2>2, <2>3
<1>4. ASSUME status' # "active" PROVE new = old
  <2>1. 1 .. new = 1 .. old /\ old \in Nat /\ new \in Nat
    BY <1>1, <1>2, <1>4 DEF Successor, old, new
  <2>2. (old > 0 => old \in 1 .. new) /\ (new > 0 => new \in 1 .. old)
    BY <2>1
  <2>3. QED
    BY <2>1, <2>2
<1>5. QED
  BY <1>3, <1>4 DEF old, new

LEMMA ReservedReady ==
  ASSUME NEW mode, NEW p, NEW gen, NEW visit, NEW sl, NEW sub, NEW rev, NEW fb
  PROVE  Reservation(mode, p, gen, visit, sl, sub, rev, fb).status = "ready"
BY DEF Reservation

LEMMA OperateBegunOnce == Core /\ Core' /\ EachBegunOnce /\ [Operate]_vars => EachBegunOnce'
<1> SUFFICES ASSUME Core, Core', EachBegunOnce, [Operate]_vars, status' = "active"
             PROVE  version' = 2 * Len(activations')
                               - IF activations'[current'].status = "ready" THEN 1 ELSE 0
  BY DEF EachBegunOnce
<1>1. version \in Nat /\ Len(activations) \in Nat /\ activations \in Seq(ActivationRecord)
  BY DEF Core, TypeOK, DataTypeOK
<1>2. CASE Begins
  <2>1. /\ status = "active" /\ activations[current].status = "ready" /\ current' = current
        /\ version' = version + 1
        /\ activations' = [activations EXCEPT ![current].status = "running"]
    BY <1>2 DEF Begins, BeginActivation, Current
  <2>2. current \in DOMAIN activations /\ activations[current] \in ActivationRecord
    BY <1>1, <2>1, CurrentIsOpen
  <2>3. Len(activations') = Len(activations) /\ activations'[current].status = "running"
    <3> DEFINE e == [activations[current] EXCEPT !.status = "running"]
    <3>1. activations' = [activations EXCEPT ![current] = e]
      BY <2>1
    <3>2. e \in ActivationRecord /\ e.status = "running"
      BY <2>2 DEF ActivationRecord
    <3> HIDE DEF e
    <3>3. QED
      BY <1>1, <2>2, <3>1, <3>2, ExceptType
  <2>4. version = 2 * Len(activations) - 1
    BY <2>1 DEF EachBegunOnce
  <2>5. QED
    BY <1>1, <2>1, <2>3, <2>4
<1>3. CASE Submits
  <2>1. PICK r \in ResultRecord, s \in Nat : SubmitResult(current, version, r, s)
    BY <1>3 DEF Submits
  <2>2. /\ status = "active" /\ activations[current].status = "running"
        /\ Transition(current, r, s) /\ version' = version + 1
    BY <2>1 DEF SubmitResult, Current
  <2>3. Len(activations') = Len(activations) + 1
    BY <2>2, SubmissionGrows
  <2>4. activations'[current'].status = "ready"
    <3>1. Successor(activations)
      BY <2>2, TransitionActivations
    <3>2. PICK mode \in {"produce", "review", "operate"} :
            activations'[current'] =
              Reservation(mode, phase', generation', visits'[phase'], slots',
                          subject', review', feedback')
      BY <3>1 DEF Successor
    <3>3. QED
      BY <3>2, ReservedReady
  <2>5. version = 2 * Len(activations)
    BY <1>1, <2>2 DEF EachBegunOnce
  <2>6. QED
    BY <1>1, <2>2, <2>3, <2>4, <2>5
<1>4. CASE Redeliver \/ UNCHANGED vars
  BY <1>4 DEF Redeliver, RedeliverResult, vars, run, EachBegunOnce
<1>5. CASE Stops
  BY <1>5 DEF Stops, FailActivation, Stop
<1>6. QED
  BY <1>2, <1>3, <1>4, <1>5 DEF Operate

LEMMA InitBegunOnce == Init => EachBegunOnce
<1> SUFFICES ASSUME Init PROVE EachBegunOnce
  OBVIOUS
<1> DEFINE mode == IF kind = Verified THEN "produce" ELSE "operate"
           first == Reservation(mode, 0, 0, 1, slots, None, None, <<>>)
<1>1. version = 1 /\ current = 1 /\ activations = <<first>> /\ status = "active"
  BY DEF Init
<1>2. first.status = "ready"
  BY ReservedReady
<1> HIDE DEF first
<1>3. version = 2 * Len(activations) - 1 /\ activations[current].status = "ready"
  BY <1>1, <1>2
<1>4. QED
  BY <1>1, <1>3 DEF EachBegunOnce

LEMMA ServesSerial == Serve => []SerialReservation
<1>1. OneOpen /\ EachBegunOnce => SerialReservation
  BY DEF SerialReservation
<1>2. QED
  BY <1>1, ServesCore, InitBegunOnce, OperateBegunOnce, PTL DEF Serve, Core

\* The kernel is serial: at every moment of every run at most one activation
\* is open, it is the current one, there is one exactly while the run is
\* active, and each was begun exactly once before its successor was reserved.
THEOREM Serial == Spec => []SerialReservation
BY SpecServes, ServesSerial, PTL
-----------------------------------------------------------------------------
\* The line of work: what fills a slot was made for it.

\* Artifact x is complete work of phase p, done by the phase's last visit from
\* what fills the earlier slots.
MadeFor(arts, acts, vis, sl, x, p) ==
  /\ x \in DOMAIN arts /\ arts[x].by \in DOMAIN acts
  /\ arts[x].type = "work" /\ ~arts[x].partial
  /\ LET a == acts[arts[x].by] IN
     /\ a.status = "retired" /\ a.phase = p /\ a.visit = vis[p]
     /\ \A q \in Phases : q < p => a.basis[q] = sl[q]

SlotsFilled ==
  \A p \in Phases :
    IF p < phase \/ status = "completed"
      THEN MadeFor(artifacts, activations, visits, slots, slots[p], p) ELSE slots[p] = None

CurrentReserved ==
  status = "active" =>
    /\ activations[current].phase = phase
    /\ activations[current].visit = visits[phase]
    /\ activations[current].generation = generation
    /\ \A q \in Phases : q < phase => activations[current].basis[q] = slots[q]

DraftMade ==
  status = "active" /\ machine = "qa_review" =>
    /\ MadeFor(artifacts, activations, visits, slots, subject, phase)
    /\ activations[artifacts[subject].by].generation = generation

Lineage == SlotsFilled /\ CurrentReserved /\ DraftMade

LEMMA MadeKept ==
  ASSUME NEW arts, NEW acts, NEW newArts, NEW newActs, Kept(arts, acts, newArts, newActs),
         NEW vis, NEW sl, NEW newVis, NEW newSl, NEW x, NEW p \in Phases,
         MadeFor(arts, acts, vis, sl, x, p), newVis[p] = vis[p],
         \A q \in Phases : q < p => newSl[q] = sl[q]
  PROVE  MadeFor(newArts, newActs, newVis, newSl, x, p)
BY DEF Kept, SameReservation, MadeFor

\* An operation that only changes the standing of the current activation keeps
\* everything else.
LEMMA StandingKeeps ==
  ASSUME Core, status = "active", NEW e, e = activations[current].status,
         NEW st, activations' = [activations EXCEPT ![current].status = st],
         UNCHANGED artifacts
  PROVE  /\ Kept(artifacts, activations, artifacts', activations')
         /\ DOMAIN activations' = DOMAIN activations
         /\ \A i \in DOMAIN activations : SameReservation(activations[i], activations'[i])
<1>1. /\ current \in DOMAIN activations /\ activations \in Seq(ActivationRecord)
      /\ activations[current].status \in Open
  BY CurrentIsOpen DEF Core, TypeOK
<1>2. \A i \in DOMAIN activations : i # current => activations'[i] = activations[i]
  BY <1>1
<1>3. activations[current] \in ActivationRecord
  BY <1>1
<1>4. SameReservation(activations[current], activations'[current])
  BY <1>1, <1>3 DEF SameReservation, ActivationRecord
<1>5. QED
  BY <1>1, <1>2, <1>4 DEF Kept, SameReservation, Open

LEMMA TransitionKeeps ==
  ASSUME Core, Core', status = "active", NEW r \in ResultRecord, NEW s \in Nat,
         Transition(current, r, s)
  PROVE  Kept(artifacts, activations, artifacts', activations')
<1>1. current \in DOMAIN activations /\ activations[current].status # "retired"
  BY CurrentIsOpen DEF Open
<1>2. QED
  BY <1>1, TransitionArtifacts, TransitionActivations DEF Kept

\* The successor's reservation names the state it is reserved in.
LEMMA SuccessorReserved ==
  ASSUME Successor(activations), slots' \in [Phases -> Nat]
  PROVE  CurrentReserved'
BY DEF Successor, CurrentReserved, Reservation

LEMMA CompleteWork ==
  ASSUME NEW a, NEW r, r.outcome # "return"
  PROVE  /\ Artifact("work", a, r).by = a /\ Artifact("work", a, r).type = "work"
         /\ ~Artifact("work", a, r).partial
BY DEF Artifact, CanReturn

\* What a submission makes of the current activation's work.
LEMMA WorkMade ==
  ASSUME Core, Core', CurrentReserved, status = "active", NEW r \in ResultRecord, NEW s \in Nat,
         Transition(current, r, s), r.outcome \in {"produced", "advance", "complete"}
  PROVE  /\ MadeFor(artifacts', activations', visits, slots, newest, phase)
         /\ activations'[artifacts'[newest].by].generation = generation
<1>1. /\ newest \in DOMAIN artifacts' /\ artifacts'[newest] = Artifact("work", current, r)
      /\ current \in DOMAIN activations /\ current \in DOMAIN activations'
      /\ SameReservation(activations[current], activations'[current])
      /\ activations'[current].status = "retired"
  BY CurrentIsOpen, TransitionArtifacts, TransitionActivations
<1>2. /\ artifacts'[newest].by = current /\ artifacts'[newest].type = "work"
      /\ ~artifacts'[newest].partial
  BY <1>1, CompleteWork
<1>3. QED
  BY <1>1, <1>2 DEF CurrentReserved, MadeFor, SameReservation

LEMMA TransitionLineage ==
  ASSUME Core, Core', Lineage, status = "active", NEW r \in ResultRecord, NEW s \in Nat,
         ValidResult(current, r), Transition(current, r, s)
  PROVE  Lineage'
<1>1. Kept(artifacts, activations, artifacts', activations')
  BY TransitionKeeps
<1>2. CurrentReserved'
  BY TransitionActivations, SuccessorReserved DEF Core, TypeOK, DataTypeOK
<1>3. /\ phase \in Phases /\ slots \in [Phases -> Nat] /\ visits \in [Phases -> Nat]
      /\ Phases \subseteq Nat
  <2>1. Phases \subseteq Nat
    BY DEF Phases
  <2>2. QED
    BY <2>1 DEF Core, TypeOK, DataTypeOK
<1>4. \A p \in Phases : IF p < phase THEN MadeFor(artifacts, activations, visits, slots, slots[p], p)
                       ELSE slots[p] = None
  BY DEF Lineage, SlotsFilled
\* The rows that leave the slots alone.
<1>5. ASSUME UNCHANGED <<phase, visits, slots>>, status' # "completed"
      PROVE  SlotsFilled'
  BY <1>1, <1>4, <1>5, MadeKept DEF SlotsFilled
\* The rows that fill the slot of the phase and leave it behind.
<1>6. ASSUME NEW x, slots' = [slots EXCEPT ![phase] = x],
             MadeFor(artifacts', activations', visits, slots, x, phase),
             \/ /\ HasNext /\ Enter(phase + 1) /\ status' # "completed"
             \/ /\ IsLast /\ UNCHANGED <<phase, visits>> /\ status' = "completed"
      PROVE  SlotsFilled'
  <2>1. \A p \in Phases : IF p <= phase THEN visits'[p] = visits[p] ELSE slots'[p] = None
    BY <1>3, <1>4, <1>6 DEF HasNext, IsLast, Enter, Phases
  <2>2. \A p \in Phases : p <= phase => \A q \in Phases : q < p => slots'[q] = slots[q]
    BY <1>3, <1>6
  <2>3. \A p \in Phases : p < phase => MadeFor(artifacts', activations', visits', slots', slots'[p], p)
    <3> SUFFICES ASSUME NEW p \in Phases, p < phase
                 PROVE  MadeFor(artifacts', activations', visits', slots', slots'[p], p)
      OBVIOUS
    <3>1. /\ slots'[p] = slots[p] /\ visits'[p] = visits[p]
          /\ \A q \in Phases : q < p => slots'[q] = slots[q]
      BY <1>3, <1>6, <2>1, <2>2
    <3>2. MadeFor(artifacts, activations, visits, slots, slots[p], p)
      BY <1>4
    <3>3. QED
      BY <1>1, <3>1, <3>2, MadeKept
  <2>4. MadeFor(artifacts', activations', visits', slots', slots'[phase], phase)
    BY <1>3, <1>6, <2>1, <2>2 DEF MadeFor
  <2>5. \A p \in Phases : (p < phase' \/ status' = "completed") <=> p <= phase
    BY <1>3, <1>6 DEF HasNext, IsLast, Enter, Phases
  <2>6. \A p \in Phases : p <= phase => p < phase \/ p = phase
    BY <1>3
  <2>7. QED
    BY <2>1, <2>3, <2>4, <2>5, <2>6 DEF SlotsFilled
<1>7. CASE Produced(current, r, s)
  <2>1. SlotsFilled'
    BY <1>5, <1>7 DEF Produced
  <2>2. DraftMade'
    BY <1>7, WorkMade DEF Produced, Lineage, DraftMade
  <2>3. QED
    BY <1>2, <2>1, <2>2 DEF Lineage
<1>8. CASE PassNext(current, r, s) \/ PassLast(current, r, s)
  <2>1. /\ slots' = [slots EXCEPT ![phase] = subject] /\ machine = "qa_review"
        /\ machine' # "qa_review"
        /\ \/ HasNext /\ Enter(phase + 1) /\ status' # "completed"
           \/ IsLast /\ UNCHANGED <<phase, visits>> /\ status' = "completed"
    BY <1>8 DEF PassNext, PassLast, Stop
  <2>2. MadeFor(artifacts, activations, visits, slots, subject, phase)
    BY <2>1 DEF Lineage, DraftMade
  <2>3. MadeFor(artifacts', activations', visits, slots, subject, phase)
    BY <1>1, <1>3, <2>2, MadeKept
  <2>4. SlotsFilled'
    BY <1>6, <2>1, <2>3
  <2>5. QED
    BY <1>2, <2>1, <2>4 DEF Lineage, DraftMade
<1>9. CASE Advance(current, r, s) \/ Complete(current, r, s)
  <2>1. /\ slots' = [slots EXCEPT ![phase] = newest] /\ machine' # "qa_review"
        /\ r.outcome \in {"advance", "complete"}
        /\ \/ HasNext /\ Enter(phase + 1) /\ status' # "completed"
           \/ IsLast /\ UNCHANGED <<phase, visits>> /\ status' = "completed"
    BY <1>9 DEF Advance, Complete, Stop
  <2>2. SlotsFilled'
    BY <1>6, <2>1, WorkMade DEF Lineage
  <2>3. QED
    BY <1>2, <2>1, <2>2 DEF Lineage, DraftMade
<1>10. CASE \/ FailRemediate(current, r, s) \/ FailBlock(current, r, s)
            \/ ReturnBlock(current, r, s)
  <2>1. /\ UNCHANGED <<phase, visits, slots>> /\ status' # "completed"
        /\ status' # "active" \/ machine' # "qa_review"
    BY <1>10 DEF FailRemediate, FailBlock, ReturnBlock, Stop
  <2>2. QED
    BY <1>2, <1>5, <2>1 DEF Lineage, DraftMade
<1>11. CASE Return(current, r, s)
  <2>1. r.target \in Phases /\ r.target < phase
    BY <1>11 DEF Return, ValidResult, ValidReview, Ordinary, ReturnTargets
  <2>2. /\ slots' = [q \in Phases |-> IF q >= r.target THEN None ELSE slots[q]]
        /\ phase' = r.target /\ visits' = [visits EXCEPT ![r.target] = @ + 1]
        /\ status' # "completed" /\ machine' # "qa_review"
    BY <1>11 DEF Return, Invalidate, Enter
  <2>3. SlotsFilled'
    <3> SUFFICES ASSUME NEW p \in Phases
                 PROVE  IF p < phase'
                          THEN MadeFor(artifacts', activations', visits', slots', slots'[p], p)
                          ELSE slots'[p] = None
      BY <2>2 DEF SlotsFilled
    <3> p \in Nat /\ r.target \in Nat /\ phase \in Nat /\ \A q \in Phases : q \in Nat
      BY <1>3, <2>1
    <3>1. CASE p < phase'
      <4>1. /\ slots'[p] = slots[p] /\ visits'[p] = visits[p] /\ p < phase
            /\ \A q \in Phases : q < p => slots'[q] = slots[q]
        BY <1>3, <2>1, <2>2, <3>1
      <4>2. MadeFor(artifacts, activations, visits, slots, slots[p], p)
        BY <1>4, <4>1
      <4>3. QED
        BY <1>1, <3>1, <4>1, <4>2, MadeKept
    <3>2. CASE ~(p < phase')
      BY <1>3, <2>1, <2>2, <3>2
    <3>3. QED
      BY <3>1, <3>2
  <2>4. QED
    BY <1>2, <2>2, <2>3 DEF Lineage, DraftMade
<1>12. QED
  BY <1>7, <1>8, <1>9, <1>10, <1>11 DEF Transition

LEMMA StandingLineage ==
  ASSUME Core, Lineage, status = "active", NEW st,
         activations' = [activations EXCEPT ![current].status = st],
         UNCHANGED <<artifacts, phase, generation, visits, slots, subject>>,
         UNCHANGED <<status, machine, current>> \/ status' \notin {"active", "completed"}
  PROVE  Lineage'
<1>1. /\ Kept(artifacts, activations, artifacts', activations')
      /\ \A i \in DOMAIN activations : SameReservation(activations[i], activations'[i])
  BY StandingKeeps
<1>2. current \in DOMAIN activations
  BY CurrentIsOpen
<1>3. SlotsFilled'
  BY <1>1, MadeKept DEF Lineage, SlotsFilled
<1>4. CurrentReserved'
  BY <1>1, <1>2 DEF Lineage, CurrentReserved, SameReservation
<1>5. DraftMade'
  <2> SUFFICES ASSUME UNCHANGED <<status, machine, current>>, machine = "qa_review"
               PROVE  /\ MadeFor(artifacts', activations', visits', slots', subject', phase')
                      /\ activations'[artifacts'[subject'].by].generation = generation'
    BY DEF DraftMade
  <2>1. /\ MadeFor(artifacts, activations, visits, slots, subject, phase)
        /\ activations[artifacts[subject].by].generation = generation
    BY DEF Lineage, DraftMade
  <2>2. phase \in Phases
    BY DEF Core, TypeOK, DataTypeOK
  <2>3. MadeFor(artifacts', activations', visits', slots', subject, phase)
    BY <1>1, <2>1, <2>2, MadeKept
  <2>4. QED
    BY <1>1, <2>1, <2>3 DEF MadeFor, SameReservation
<1>6. QED
  BY <1>3, <1>4, <1>5 DEF Lineage

LEMMA InitLineage == Init => Lineage
<1> SUFFICES ASSUME Init PROVE Lineage
  OBVIOUS
<1>1. \A p \in Phases : ~(p < phase) /\ slots[p] = None
  BY DEF Init, Phases
<1>2. CurrentReserved
  BY <1>1 DEF Init, CurrentReserved, Reservation, Phases
<1>3. QED
  BY <1>1, <1>2 DEF Init, Lineage, SlotsFilled, DraftMade, Verified

LEMMA OperateLineage == Core /\ Core' /\ Lineage /\ [Operate]_vars => Lineage'
<1> SUFFICES ASSUME Core, Core', Lineage, [Operate]_vars PROVE Lineage'
  OBVIOUS
<1>1. CASE Submits
  <2>1. PICK r \in ResultRecord, s \in Nat : SubmitResult(current, version, r, s)
    BY <1>1 DEF Submits
  <2>2. status = "active" /\ ValidResult(current, r) /\ Transition(current, r, s)
    BY <2>1 DEF SubmitResult, Current
  <2>3. QED
    BY <2>2, TransitionLineage
<1>2. CASE Begins
  BY <1>2, StandingLineage DEF Begins, BeginActivation, Current
<1>3. CASE Stops
  BY <1>3, StandingLineage DEF Stops, FailActivation, Stop
<1>4. CASE Redeliver \/ UNCHANGED vars
  BY <1>4 DEF Redeliver, RedeliverResult, vars, run, Lineage, SlotsFilled, CurrentReserved,
              DraftMade
<1>5. QED
  BY <1>1, <1>2, <1>3, <1>4 DEF Operate

LEMMA ServesLineage == Serve => []Lineage
BY InitLineage, OperateLineage, ServesCore, PTL DEF Serve

LEMMA LineIsCoherent == Core /\ Lineage => CoherentBasis
<1> SUFFICES ASSUME Core, Lineage PROVE CoherentBasis
  OBVIOUS
<1>1. DOMAIN artifacts = 1 .. Len(artifacts)
  BY DEF Core, TypeOK, DataTypeOK
<1>2. 0 \notin DOMAIN artifacts
  BY <1>1
<1>3. QED
  BY <1>2 DEF CoherentBasis, Lineage, SlotsFilled, MadeFor, None

\* Whatever was returned, reopened or remediated, the artifacts in the slots
\* form one consistent line of work: each was made complete by its phase's last
\* visit from what now fills the earlier slots, and none survives its reopening.
THEOREM CoherentAlways == Spec => []CoherentBasis
BY SpecServes, ServesCore, ServesLineage, LineIsCoherent, PTL

-----------------------------------------------------------------------------
\* The review: what fills a slot was passed by another.

\* Artifact y is a review that passes the draft x.
PassedBy(arts, acts, x, p, y) ==
  /\ arts[x].by \in DOMAIN acts /\ arts[y].by \in DOMAIN acts /\ arts[y].by # arts[x].by
  /\ arts[y].verdict = "pass" /\ ~arts[y].blocking /\ arts[y].names = x
  /\ LET author == acts[arts[x].by]
         reviewer == acts[arts[y].by]
     IN /\ author.status = "retired" /\ reviewer.status = "retired"
        /\ reviewer.session # author.session
        /\ reviewer.phase = p /\ author.phase = p
        /\ reviewer.generation = author.generation

Passed(arts, acts, x, p) ==
  x \in DOMAIN arts /\ \E y \in DOMAIN arts : PassedBy(arts, acts, x, p, y)

ReviewLine ==
  kind = Verified =>
    /\ status = "active" => machine # "operating"
    /\ \A p \in Phases : slots[p] # None => Passed(artifacts, activations, slots[p], p)

LEMMA PassedKept ==
  ASSUME NEW arts, NEW acts, NEW newArts, NEW newActs, Kept(arts, acts, newArts, newActs),
         NEW x, NEW p, Passed(arts, acts, x, p)
  PROVE  Passed(newArts, newActs, x, p)
BY DEF Kept, Passed, PassedBy

\* A passing result is a review of the subject without blocking findings.
LEMMA PassingReview ==
  ASSUME NEW r, ValidResult(current, r), r.outcome = "pass"
  PROVE  r.names = subject /\ ~r.blocking
BY DEF ValidResult, ValidReview, Ordinary

LEMMA OpinionSays ==
  ASSUME NEW a, NEW r, r.outcome = "pass", ~r.blocking
  PROVE  /\ Artifact("review", a, r).by = a /\ Artifact("review", a, r).verdict = "pass"
         /\ Artifact("review", a, r).names = r.names /\ ~Artifact("review", a, r).blocking
BY DEF Artifact, CanReturn

LEMMA TransitionReviewed ==
  ASSUME Core, Core', Lineage, ReviewLine, kind = Verified, UNCHANGED kind, status = "active",
         NEW r \in ResultRecord, NEW s \in Nat, ValidResult(current, r), FreshSession(s),
         Transition(current, r, s)
  PROVE  ReviewLine'
<1>1. Kept(artifacts, activations, artifacts', activations')
  BY TransitionKeeps
<1>2. /\ machine # "operating"
      /\ \A p \in Phases : slots[p] # None => Passed(artifacts, activations, slots[p], p)
  BY DEF ReviewLine
<1>3. phase \in Phases /\ slots \in [Phases -> Nat]
  BY DEF Core, TypeOK, DataTypeOK
<1>4. CASE \/ Produced(current, r, s) \/ FailRemediate(current, r, s)
           \/ FailBlock(current, r, s)
  <2>1. UNCHANGED slots /\ (status' = "active" => machine' # "operating")
    BY <1>4 DEF Produced, FailRemediate, FailBlock, Stop
  <2>2. QED
    BY <1>1, <1>2, <2>1, PassedKept DEF ReviewLine
<1>5. CASE PassNext(current, r, s) \/ PassLast(current, r, s)
  <2>1. /\ slots' = [slots EXCEPT ![phase] = subject] /\ r.outcome = "pass"
        /\ machine = "qa_review" /\ (status' = "active" => machine' # "operating")
    BY <1>5 DEF PassNext, PassLast, Stop
  <2>2. /\ newest \in DOMAIN artifacts' /\ artifacts'[newest] = Artifact("review", current, r)
        /\ \A x \in DOMAIN artifacts : x \in DOMAIN artifacts' /\ artifacts'[x] = artifacts[x]
    BY <2>1, TransitionArtifacts
  <2>3. /\ artifacts'[newest].by = current /\ artifacts'[newest].verdict = "pass"
        /\ artifacts'[newest].names = subject /\ ~artifacts'[newest].blocking
    BY <2>1, <2>2, PassingReview, OpinionSays
  <2> DEFINE b == artifacts[subject].by
  <2>4. /\ subject \in DOMAIN artifacts /\ b \in DOMAIN activations
        /\ activations[b].status = "retired" /\ activations[b].phase = phase
        /\ activations[b].generation = generation
    BY <2>1 DEF Lineage, DraftMade, MadeFor
  <2>5. current \in DOMAIN activations /\ b # current /\ activations[b].session # s
    BY <2>4, CurrentIsOpen DEF Open, FreshSession
  <2>6. /\ activations'[b] = activations[b] /\ b \in DOMAIN activations'
        /\ current \in DOMAIN activations' /\ activations'[current].status = "retired"
        /\ activations'[current].session = s /\ activations'[current].phase = phase
        /\ activations'[current].generation = generation
    BY <2>4, <2>5, TransitionActivations DEF SameReservation, Lineage, CurrentReserved
  <2>7. PassedBy(artifacts', activations', subject, phase, newest)
    BY <2>2, <2>3, <2>4, <2>5, <2>6 DEF PassedBy
  <2>8. Passed(artifacts', activations', subject, phase)
    BY <2>2, <2>4, <2>7 DEF Passed
  <2>9. \A p \in Phases : slots'[p] # None => Passed(artifacts', activations', slots'[p], p)
    BY <1>1, <1>2, <1>3, <2>1, <2>8, PassedKept
  <2>10. QED
    BY <2>1, <2>9 DEF ReviewLine
<1>6. CASE \/ Advance(current, r, s) \/ Complete(current, r, s) \/ Return(current, r, s)
           \/ ReturnBlock(current, r, s)
  BY <1>2, <1>6 DEF Advance, Complete, Return, ReturnBlock
<1>7. QED
  BY <1>4, <1>5, <1>6 DEF Transition

LEMMA OperateReviewed == Core /\ Core' /\ Lineage /\ ReviewLine /\ [Operate]_vars => ReviewLine'
<1> SUFFICES ASSUME Core, Core', Lineage, ReviewLine, [Operate]_vars, kind' = Verified
             PROVE  ReviewLine'
  BY DEF ReviewLine
<1>1. CASE Submits
  <2>1. PICK r \in ResultRecord, s \in Nat : SubmitResult(current, version, r, s)
    BY <1>1 DEF Submits
  <2>2. /\ status = "active" /\ ValidResult(current, r) /\ Transition(current, r, s)
        /\ FreshSession(s) /\ UNCHANGED kind
    BY <2>1 DEF SubmitResult, Current
  <2>3. QED
    BY <2>2, TransitionReviewed
<1>2. ASSUME status = "active", NEW st, activations' = [activations EXCEPT ![current].status = st],
             UNCHANGED <<artifacts, slots, kind>>,
             UNCHANGED <<status, machine>> \/ status' # "active"
      PROVE  ReviewLine'
  <2>1. Kept(artifacts, activations, artifacts', activations')
    BY <1>2, StandingKeeps
  <2>2. QED
    BY <1>2, <2>1, PassedKept DEF ReviewLine
<1>3. CASE Begins
  BY <1>2, <1>3 DEF Begins, BeginActivation, Current
<1>4. CASE Stops
  BY <1>2, <1>4 DEF Stops, FailActivation, Stop
<1>5. CASE Redeliver \/ UNCHANGED vars
  BY <1>5 DEF Redeliver, RedeliverResult, vars, run, ReviewLine
<1>6. QED
  BY <1>1, <1>3, <1>4, <1>5 DEF Operate

LEMMA ServesReviewed == Serve => []ReviewLine
<1>1. Init => ReviewLine
  BY DEF Init, ReviewLine, Verified, Recurrent
<1>2. QED
  BY <1>1, ServesCore, ServesLineage, OperateReviewed, PTL DEF Serve

LEMMA LineIsReviewed == ReviewLine => AcceptedWorkWasReviewed
BY DEF ReviewLine, AcceptedWorkWasReviewed, Passed, PassedBy

\* Development: a draft reaches an accepted slot only after a passing review
\* that named it, without blocking findings, by another actor in another
\* session of the same generation of the same phase.
THEOREM DraftsWereReviewed == Spec => []AcceptedWorkWasReviewed
BY SpecServes, ServesReviewed, LineIsReviewed, PTL

-----------------------------------------------------------------------------
\* The receipts: one for each activation that retired.

Receipted ==
  /\ \A c \in DOMAIN receipts :
       LET q == receipts[c].request IN
       /\ q.activation \in DOMAIN activations
       /\ activations[q.activation].status = "retired"
       /\ activations[q.activation].session = q.session
       /\ receipts[c].response.version = q.version + 1
  /\ \A c, d \in DOMAIN receipts :
       receipts[c].request.activation = receipts[d].request.activation => c = d
  /\ \A a \in DOMAIN activations : activations[a].status = "retired"
       => \E c \in DOMAIN receipts : receipts[c].request.activation = a
  /\ \A m \in answers : m.command \in DOMAIN receipts /\ m.response = receipts[m.command].response

\* Steps that retire nothing and deliver nothing new keep the receipts true.
LEMMA ReceiptsKept ==
  ASSUME Receipted, UNCHANGED <<receipts, answers>>, DOMAIN activations' = DOMAIN activations,
         \A a \in DOMAIN activations :
           /\ activations[a].status = "retired" => activations'[a] = activations[a]
           /\ activations'[a].status = "retired" => activations[a].status = "retired"
  PROVE  Receipted'
BY DEF Receipted

LEMMA StandingReceipted ==
  ASSUME Core, Receipted, status = "active", NEW st \in {"running", "failed"},
         activations' = [activations EXCEPT ![current].status = st],
         UNCHANGED <<artifacts, receipts, answers>>
  PROVE  Receipted'
<1>1. /\ Kept(artifacts, activations, artifacts', activations')
      /\ DOMAIN activations' = DOMAIN activations
  BY StandingKeeps
<1>2. current \in DOMAIN activations /\ activations \in Seq(ActivationRecord)
  BY CurrentIsOpen DEF Core, TypeOK
<1>3. activations[current] \in ActivationRecord
  BY <1>2
<1>4. activations'[current].status = st
  BY <1>2, <1>3 DEF ActivationRecord
<1>5. \A a \in DOMAIN activations : a # current => activations'[a] = activations[a]
  BY <1>2
<1>6. QED
  BY <1>1, <1>4, <1>5, ReceiptsKept DEF Kept

\* A submission that is accepted adds the receipt of its activation, and
\* answers with it.
LEMMA SubmitReceipted ==
  ASSUME Core, Core', Receipted, NEW r \in ResultRecord, NEW s \in Nat,
         SubmitResult(current, version, r, s)
  PROVE  Receipted'
<1> DEFINE e == [request |-> [activation |-> current, version |-> version, result |-> r,
                              session |-> s],
                 response |-> Snapshot']
           n == Len(receipts) + 1
<1>1. /\ status = "active" /\ Transition(current, r, s) /\ version' = version + 1
      /\ receipts' = Append(receipts, e)
      /\ answers' = answers \cup {[command |-> n, response |-> Snapshot']}
  BY DEF SubmitResult, Current
<1>2. current \in DOMAIN activations /\ activations[current].status # "retired"
  BY <1>1, CurrentIsOpen DEF Open
<1>3. /\ e.request.activation = current /\ e.request.version = version
      /\ e.request.session = s /\ e.response.version = version + 1 /\ e.response = Snapshot'
  BY <1>1 DEF Snapshot
<1>4. /\ DOMAIN receipts' = DOMAIN receipts \union {n} /\ n \notin DOMAIN receipts
      /\ \A c \in DOMAIN receipts : receipts'[c] = receipts[c]
      /\ receipts'[n] = e
  <2>1. receipts' \in Seq([request : RequestRecord, response : SnapshotRecord])
        /\ receipts \in Seq([request : RequestRecord, response : SnapshotRecord])
    BY DEF Core, TypeOK
  <2> HIDE DEF e
  <2>2. DOMAIN receipts = 1 .. Len(receipts) /\ Len(receipts) \in Nat
    BY <2>1
  <2>3. /\ DOMAIN receipts' = 1 .. Len(receipts) + 1
        /\ \A c \in 1 .. Len(receipts) : receipts'[c] = receipts[c]
        /\ receipts'[Len(receipts) + 1] = e
    BY <1>1, <2>1, <2>2
  <2>4. QED
    BY <2>2, <2>3
<1> HIDE DEF e, n
<1>5. /\ \A i \in DOMAIN activations : /\ i \in DOMAIN activations'
                                       /\ i # current => activations'[i] = activations[i]
      /\ activations'[current].status = "retired" /\ activations'[current].session = s
      /\ Successor(activations)
  BY <1>1, TransitionActivations
<1>6. \A i \in DOMAIN activations' :
        activations'[i].status = "retired" => i \in DOMAIN activations
  BY <1>5 DEF Successor, Reservation
<1>7. \A c \in DOMAIN receipts : /\ receipts[c].request.activation \in DOMAIN activations
                                /\ receipts[c].request.activation # current
  BY <1>2 DEF Receipted
<1>8. \A c \in DOMAIN receipts' :
        /\ receipts'[c].request.activation \in DOMAIN activations'
        /\ activations'[receipts'[c].request.activation].status = "retired"
        /\ activations'[receipts'[c].request.activation].session = receipts'[c].request.session
        /\ receipts'[c].response.version = receipts'[c].request.version + 1
  BY <1>2, <1>3, <1>4, <1>5, <1>7 DEF Receipted
<1>9. \A c, d \in DOMAIN receipts' :
        receipts'[c].request.activation = receipts'[d].request.activation => c = d
  BY <1>3, <1>4, <1>7 DEF Receipted
<1>10. \A a \in DOMAIN activations' : activations'[a].status = "retired"
         => \E c \in DOMAIN receipts' : receipts'[c].request.activation = a
  <2> SUFFICES ASSUME NEW a \in DOMAIN activations, activations'[a].status = "retired"
               PROVE  \E c \in DOMAIN receipts' : receipts'[c].request.activation = a
    BY <1>6
  <2>1. CASE a = current
    BY <1>3, <1>4, <2>1
  <2>2. CASE a # current
    <3>1. activations[a].status = "retired"
      BY <1>5, <2>2
    <3>2. PICK c \in DOMAIN receipts : receipts[c].request.activation = a
      BY <3>1 DEF Receipted
    <3>3. QED
      BY <1>4, <3>2
  <2>3. QED
    BY <2>1, <2>2
<1>11. \A m \in answers' : /\ m.command \in DOMAIN receipts'
                          /\ m.response = receipts'[m.command].response
  BY <1>1, <1>3, <1>4 DEF Receipted
<1>12. QED
  BY <1>8, <1>9, <1>10, <1>11 DEF Receipted

LEMMA OperateReceipted == Core /\ Core' /\ Receipted /\ [Operate]_vars => Receipted'
<1> SUFFICES ASSUME Core, Core', Receipted, [Operate]_vars PROVE Receipted'
  OBVIOUS
<1>1. CASE Submits
  BY <1>1, SubmitReceipted DEF Submits
<1>2. CASE Begins
  BY <1>2, StandingReceipted DEF Begins, BeginActivation, Current
<1>3. CASE Stops
  BY <1>3, StandingReceipted DEF Stops, FailActivation, Stop
<1>4. CASE Redeliver
  BY <1>4 DEF Redeliver, RedeliverResult, run, Receipted
<1>5. CASE UNCHANGED vars
  BY <1>5 DEF vars, run, Receipted
<1>6. QED
  BY <1>1, <1>2, <1>3, <1>4, <1>5 DEF Operate

LEMMA ServesReceipted == Serve => []Receipted
<1>1. Init => Receipted
  <2> SUFFICES ASSUME Init PROVE Receipted
    OBVIOUS
  <2>1. DOMAIN receipts = {} /\ answers = {}
    BY DEF Init
  <2>2. DOMAIN activations = {1} /\ activations[1].status = "ready"
    BY DEF Init, Reservation
  <2>3. QED
    BY <2>1, <2>2 DEF Receipted
<1>2. QED
  BY <1>1, ServesCore, OperateReceipted, PTL DEF Serve

LEMMA ReceiptedIsOnce == Receipted => ResultsAppliedOnce
BY DEF Receipted, ResultsAppliedOnce

\* A result is applied exactly once however often and by whomever it is
\* submitted, on the version its caller had seen, and every delivery is
\* answered with the original state.
THEOREM AppliedOnce == Spec => []ResultsAppliedOnce
BY SpecServes, ServesReceipted, ReceiptedIsOnce, PTL

-----------------------------------------------------------------------------
\* The budget: a run reserves only so many activations.

\* Work and review of every generation of every phase, or every phase once and
\* once again for every return.
Budget == IF kind = Verified THEN (LastPhase + 1) * (2 * (MaxRemediations + 1))
                             ELSE (MaxReturns + 1) * (LastPhase + 1)

WithinBudget == Len(activations) <= Budget

\* What the run may have reserved on its way: each pattern stays in its own
\* states, and its counters account for every activation.
Accounted ==
  /\ kind \in Kinds /\ generation <= MaxRemediations /\ returnsUsed <= MaxReturns
  /\ kind = Verified =>
       /\ machine # "operating"
       /\ Len(activations) <= phase * (2 * (MaxRemediations + 1)) + 2 * generation
                              + IF machine \in {"producing", "remediating"} THEN 1 ELSE 2
  /\ kind # Verified =>
       /\ machine \notin {"producing", "remediating", "qa_review"}
       /\ Len(activations) <= returnsUsed * (LastPhase + 1) + phase + 1

LEMMA OneMore ==
  ASSUME NEW n \in Nat, NEW c \in Nat
  PROVE  n * c \in Nat /\ (n + 1) * c = n * c + c
OBVIOUS

LEMMA MoreTimes ==
  ASSUME NEW c \in Nat, NEW m \in Nat, NEW n \in Nat, m <= n
  PROVE  m * c <= n * c
OBVIOUS

LEMMA TransitionAccounted ==
  ASSUME Core, Core', Accounted, status = "active", kind' = kind,
         NEW r \in ResultRecord, NEW s \in Nat, Transition(current, r, s)
  PROVE  Accounted'
<1> DEFINE cost == 2 * (MaxRemediations + 1)
           pass == LastPhase + 1
<1>1. /\ phase \in Nat /\ phase' \in Nat /\ phase <= LastPhase /\ phase' <= LastPhase
      /\ generation \in Nat /\ returnsUsed \in Nat
      /\ cost \in Nat /\ pass \in Nat
      /\ Len(activations) \in Nat
  <2>1. phase \in Phases /\ phase' \in Phases
    BY DEF Core, TypeOK, DataTypeOK
  <2>2. generation \in Nat /\ returnsUsed \in Nat /\ Len(activations) \in Nat
    BY DEF Core, TypeOK, DataTypeOK
  <2>3. QED
    BY <2>1, <2>2 DEF Phases
<1>2. Len(activations') = Len(activations) + IF status' = "active" THEN 1 ELSE 0
  BY SubmissionGrows
<1>3. /\ phase * cost \in Nat /\ (phase + 1) * cost = phase * cost + cost
      /\ returnsUsed * pass \in Nat /\ (returnsUsed + 1) * pass = returnsUsed * pass + pass
  BY <1>1, OneMore
<1>4. CASE kind = Verified
  <2> HIDE DEF pass
  <2>1. /\ machine # "operating"
        /\ Len(activations) <= phase * cost + 2 * generation
                               + IF machine \in {"producing", "remediating"} THEN 1 ELSE 2
    BY <1>4 DEF Accounted
  <2>2. PICK done \in Nat : done = phase * cost
    BY <1>3
  <2>3. PICK spent \in Nat : spent = phase' * cost
    BY <1>1, OneMore
  <2>4. /\ phase' = phase => spent = done
        /\ phase' = phase + 1 => spent = done + cost
    BY <1>3, <2>2, <2>3
  <2> DEFINE Goal == /\ machine' # "operating"
                     /\ Len(activations') <= spent + 2 * generation'
                          + IF machine' \in {"producing", "remediating"} THEN 1 ELSE 2
                     /\ generation' <= MaxRemediations /\ returnsUsed' = returnsUsed
  <2>5. Len(activations) <= done + 2 * generation
                            + IF machine \in {"producing", "remediating"} THEN 1 ELSE 2
    BY <2>1, <2>2
  <2>6. generation <= MaxRemediations
    BY DEF Accounted
  <2>7. Produced(current, r, s) \/ FailRemediate(current, r, s) => Goal
    <3>1. Len(activations') <= Len(activations) + 1 /\ Len(activations') \in Nat
      BY <1>1, <1>2
    <3>2. Produced(current, r, s) => Goal
      BY <1>1, <2>4, <2>5, <2>6, <3>1 DEF Produced
    <3>3. FailRemediate(current, r, s) => Goal
      <4> SUFFICES ASSUME FailRemediate(current, r, s) PROVE Goal
        OBVIOUS
      <4>1. /\ machine = "qa_review" /\ machine' = "remediating"
            /\ generation' = generation + 1 /\ generation < MaxRemediations
            /\ phase' = phase /\ returnsUsed' = returnsUsed
        BY DEF FailRemediate, CanRemediate
      <4>2. QED
        BY <1>1, <2>4, <2>5, <3>1, <4>1
    <3>4. QED
      BY <3>2, <3>3
  <2>8. PassNext(current, r, s) => Goal
    BY <1>1, <1>2, <2>4, <2>5, <2>6 DEF PassNext, Enter
  <2>9. PassLast(current, r, s) \/ FailBlock(current, r, s) => Goal
    BY SMTT(60), <1>1, <1>2, <2>4, <2>5, <2>6 DEF PassLast, FailBlock, Stop
  <2>10. Goal
    BY <2>1, <2>7, <2>8, <2>9 DEF Transition, Advance, Complete, Return, ReturnBlock
  <2>11. QED
    BY <1>4, <2>3, <2>10 DEF Accounted
<1>5. CASE kind # Verified
  <2> HIDE DEF cost
  <2>1. /\ machine \notin {"producing", "remediating", "qa_review"}
        /\ Len(activations) <= returnsUsed * pass + phase + 1
    BY <1>5 DEF Accounted
  <2>2. PICK done \in Nat : done = returnsUsed * pass
    BY <1>3
  <2>3. returnsUsed' = returnsUsed => returnsUsed' * pass = done
    BY <2>2
  <2>4. returnsUsed' = returnsUsed + 1 => returnsUsed' * pass = done + pass
    BY <1>3, <2>2
  <2>5. PICK spent : spent = returnsUsed' * pass
    OBVIOUS
  <2> DEFINE Goal == /\ machine' \notin {"producing", "remediating", "qa_review"}
                     /\ Len(activations') <= spent + phase' + 1
                     /\ generation' <= MaxRemediations /\ returnsUsed' <= MaxReturns
  <2>6. /\ Len(activations) <= done + phase + 1
        /\ generation <= MaxRemediations /\ returnsUsed <= MaxReturns
    BY <2>1, <2>2 DEF Accounted
  <2>7. Advance(current, r, s) => Goal
    BY <1>1, <1>2, <2>1, <2>3, <2>5, <2>6 DEF Advance, Enter
  <2>8. Return(current, r, s) => Goal
    BY <1>1, <1>2, <2>1, <2>4, <2>5, <2>6 DEF Return, CanReturn
  <2>9. Complete(current, r, s) \/ ReturnBlock(current, r, s) => Goal
    BY <1>1, <1>2, <2>1, <2>3, <2>5, <2>6 DEF Complete, ReturnBlock, Stop
  <2>10. Goal
    BY <2>1, <2>7, <2>8, <2>9
       DEF Transition, Produced, PassNext, PassLast, FailRemediate, FailBlock
  <2>11. QED
    BY <1>5, <2>5, <2>10 DEF Accounted
<1>6. QED
  BY <1>4, <1>5

\* Starting or stopping the current activation reserves none.
LEMMA StandingAccounted ==
  ASSUME Core, Accounted, status = "active", NEW st,
         activations' = [activations EXCEPT ![current].status = st],
         UNCHANGED <<kind, phase, generation, returnsUsed>>,
         machine' = machine \/ machine' \in {"failed", "cancelled"}
  PROVE  Accounted'
<1>1. Len(activations') = Len(activations)
  <2>1. activations \in Seq(ActivationRecord) /\ current \in DOMAIN activations
    BY CurrentIsOpen DEF Core, TypeOK
  <2>2. QED
    BY <2>1
<1>2. phase \in Nat /\ generation \in Nat /\ Len(activations) \in Nat
  BY DEF Core, TypeOK, DataTypeOK, Phases
<1>3. phase * (2 * (MaxRemediations + 1)) \in Nat
  BY <1>2, OneMore
<1>4. phase' = phase /\ generation' = generation /\ returnsUsed' = returnsUsed /\ kind' = kind
  OBVIOUS
<1>5. CASE kind = Verified
  <2>1. PICK done \in Nat : done = phase * (2 * (MaxRemediations + 1))
    BY <1>3
  <2>2. Len(activations) <= done + 2 * generation
                            + IF machine \in {"producing", "remediating"} THEN 1 ELSE 2
    BY <1>5, <2>1 DEF Accounted
  <2>3. Len(activations') <= done + 2 * generation'
                             + IF machine' \in {"producing", "remediating"} THEN 1 ELSE 2
    BY <1>1, <1>2, <1>4, <2>2
  <2>4. QED
    BY <1>4, <1>5, <2>1, <2>3 DEF Accounted
<1>6. CASE kind # Verified
  BY <1>1, <1>4, <1>6 DEF Accounted
<1>7. QED
  BY <1>5, <1>6

LEMMA InitAccounted == Init => Accounted
<1> SUFFICES ASSUME Init PROVE Accounted
  OBVIOUS
<1>1. Len(activations) = 1 /\ phase = 0 /\ generation = 0 /\ returnsUsed = 0
  BY DEF Init
<1>2. 0 * (2 * (MaxRemediations + 1)) = 0 /\ 0 * (LastPhase + 1) = 0
  OBVIOUS
<1>3. QED
  BY <1>1, <1>2 DEF Init, Accounted, Verified

LEMMA OperateAccounted == Core /\ Core' /\ Accounted /\ [Operate]_vars => Accounted'
<1> SUFFICES ASSUME Core, Core', Accounted, [Operate]_vars PROVE Accounted'
  OBVIOUS
<1>1. CASE Submits
  <2>1. PICK r \in ResultRecord, s \in Nat : SubmitResult(current, version, r, s)
    BY <1>1 DEF Submits
  <2>2. status = "active" /\ Transition(current, r, s) /\ kind' = kind
    BY <2>1 DEF SubmitResult, Current
  <2>3. QED
    BY <2>2, TransitionAccounted
<1>2. CASE Begins
  BY <1>2, StandingAccounted DEF Begins, BeginActivation, Current
<1>3. CASE Stops
  BY <1>3, StandingAccounted DEF Stops, FailActivation, Stop
<1>4. CASE Redeliver \/ UNCHANGED vars
  BY <1>4 DEF Redeliver, RedeliverResult, vars, run, Accounted
<1>5. QED
  BY <1>1, <1>2, <1>3, <1>4 DEF Operate

LEMMA ServesAccounted == Serve => []Accounted
BY InitAccounted, OperateAccounted, ServesCore, PTL DEF Serve

LEMMA AccountedWithin == Core /\ Accounted => WithinBudget
<1> SUFFICES ASSUME Core, Accounted PROVE WithinBudget
  OBVIOUS
<1> DEFINE cost == 2 * (MaxRemediations + 1)
           pass == LastPhase + 1
<1>1. /\ phase \in Nat /\ phase <= LastPhase /\ generation \in Nat /\ returnsUsed \in Nat
      /\ cost \in Nat /\ pass \in Nat
  BY DEF Core, TypeOK, DataTypeOK, Phases
<1>2. /\ LastPhase * cost \in Nat /\ (LastPhase + 1) * cost = LastPhase * cost + cost
      /\ MaxReturns * pass \in Nat /\ (MaxReturns + 1) * pass = MaxReturns * pass + pass
  BY <1>1, OneMore
<1>3. phase * cost <= LastPhase * cost /\ phase * cost \in Nat
  BY <1>1, MoreTimes, OneMore
<1>4. returnsUsed * pass <= MaxReturns * pass /\ returnsUsed * pass \in Nat
  BY <1>1, MoreTimes, OneMore DEF Accounted
<1>5. Len(activations) \in Nat
  BY DEF Core, TypeOK
<1>6. CASE kind = Verified
  BY <1>1, <1>2, <1>3, <1>5, <1>6 DEF Accounted, WithinBudget, Budget
<1>7. CASE kind # Verified
  BY <1>1, <1>2, <1>4, <1>5, <1>7 DEF Accounted, WithinBudget, Budget
<1>8. QED
  BY <1>6, <1>7

\* Every run is finite in its work: whatever fails review, is remediated or is
\* returned, the budgets of a run bound the activations it ever reserves.
THEOREM BudgetBoundsRun == Spec => []WithinBudget
BY SpecServes, ServesCore, ServesAccounted, AccountedWithin, PTL

-----------------------------------------------------------------------------
\* The promise: outside, a submission accepts a phase, tries it again,
\* reopens one, blocks or stops the run, or shows nothing.

LEMMA StandingBelow ==
  ASSUME Core, Lineage, status # "completed"
  PROVE  Standing = {q \in Phases : q < phase}
<1>1. artifacts \in Seq(ArtifactRecord)
  BY DEF Core, TypeOK, DataTypeOK
<1>2. 0 \notin DOMAIN artifacts
  BY <1>1
<1>3. \A p \in Phases : slots[p] # None <=> p < phase
  BY <1>2 DEF Lineage, SlotsFilled, MadeFor, None
<1>4. QED
  BY <1>3 DEF Standing

\* What the promise sees of the store.
Seen == <<Standing, MaxReturns - returnsUsed, MaxRemediations - generation, Outcome>>

LEMMA StutterPromised ==
  ASSUME UNCHANGED <<slots, returnsUsed, generation, status>>
  PROVE  UNCHANGED Seen
BY DEF Seen, Standing, Outcome

LEMMA StopPromised ==
  ASSUME status = "active", status' \notin {"active", "completed", "blocked"},
         UNCHANGED <<slots, returnsUsed, generation>>
  PROVE  Promise!Stop
BY DEF Promise!Stop, Standing, Outcome

\* A remediation is a further try, and a run blocks on a spent budget.
LEMMA RetryPromised ==
  ASSUME Core, status = "active", NEW r, NEW s, FailRemediate(current, r, s)
  PROVE  Promise!Retry
<1>1. /\ generation \in Nat /\ generation < MaxRemediations /\ generation' = generation + 1
      /\ UNCHANGED <<slots, returnsUsed, status>>
  BY DEF FailRemediate, CanRemediate, Core, TypeOK, DataTypeOK
<1>2. /\ MaxRemediations - generation > 0
      /\ MaxRemediations - generation' = (MaxRemediations - generation) - 1
  BY <1>1
<1>3. QED
  BY <1>1, <1>2 DEF Promise!Retry, Standing, Outcome

LEMMA BlockPromised ==
  ASSUME Core, Accounted, status = "active", NEW r, NEW s,
         FailBlock(current, r, s) \/ ReturnBlock(current, r, s)
  PROVE  Promise!Block
<1>1. status' = "blocked" /\ UNCHANGED <<slots, returnsUsed, generation>>
  BY DEF FailBlock, ReturnBlock, Stop
<1>2. generation \in Nat /\ returnsUsed \in Nat
  BY DEF Core, TypeOK, DataTypeOK
<1>3. generation >= MaxRemediations \/ returnsUsed >= MaxReturns
  BY DEF FailBlock, ReturnBlock, RemediationsExhausted, ReturnsExhausted
<1>4. MaxReturns - returnsUsed = 0 \/ MaxRemediations - generation = 0
  BY <1>2, <1>3 DEF Accounted
<1>5. QED
  BY <1>1, <1>4 DEF Promise!Block, Standing, Outcome

\* The slot of the phase is filled, and the run completes with the last.
LEMMA AcceptPromised ==
  ASSUME Core, Lineage, status = "active", NEW x \in Nat \ {0},
         slots' = [slots EXCEPT ![phase] = x], UNCHANGED returnsUsed,
         \/ HasNext /\ status' = status /\ generation' = 0
         \/ IsLast /\ status' = "completed" /\ UNCHANGED generation
  PROVE  \E p \in Phases : Promise!Accept(p)
<1>1. phase \in Phases /\ slots \in [Phases -> Nat] /\ Phases \subseteq Nat
  <2>1. Phases \subseteq Nat
    BY DEF Phases
  <2>2. QED
    BY <2>1 DEF Core, TypeOK, DataTypeOK
<1>2. Standing = Promise!Below(phase)
  BY StandingBelow DEF Promise!Below, Phases, Promise!Phases
<1>3. Standing' = Standing \union {phase}
  BY <1>1 DEF Standing, None
<1>4. /\ Outcome = "open"
      /\ IF phase = LastPhase
           THEN Outcome' = "completed" /\ generation' = generation
           ELSE Outcome' = "open" /\ MaxRemediations - generation' = MaxRemediations
  BY <1>1 DEF Outcome, HasNext, IsLast, Phases
<1>5. Promise!Accept(phase)
  BY <1>2, <1>3, <1>4 DEF Promise!Accept
<1>6. QED
  BY <1>1, <1>5

LEMMA ReturnPromised ==
  ASSUME Core, Lineage, status = "active", NEW r \in ResultRecord, NEW s \in Nat,
         ValidResult(current, r), Return(current, r, s)
  PROVE  \E p \in Phases : Promise!Reopen(p)
<1>1. r.target \in Phases /\ r.target < phase
  BY DEF Return, ValidResult, ValidReview, Ordinary, ReturnTargets
<1>2. /\ slots' = [q \in Phases |-> IF q >= r.target THEN None ELSE slots[q]]
      /\ returnsUsed' = returnsUsed + 1 /\ returnsUsed < MaxReturns
      /\ UNCHANGED <<status, generation>>
  BY DEF Return, Invalidate, CanReturn
<1>3. /\ returnsUsed \in Nat /\ phase \in Nat /\ \A q \in Phases : q \in Nat
  BY DEF Core, TypeOK, DataTypeOK, Phases
<1>4. Standing = {q \in Phases : q < phase}
  BY StandingBelow
<1>5. r.target \in Standing
  BY <1>1, <1>4
<1>6. Standing' = Promise!Below(r.target)
  <2>1. \A q \in Phases : slots'[q] # None <=> q < r.target
    <3> TAKE q \in Phases
    <3>1. q \in Nat /\ r.target \in Nat
      BY <1>1, <1>3
    <3>2. q < r.target => q \in Standing
      BY <1>1, <1>3, <1>4, <3>1
    <3>3. QED
      BY <1>2, <3>1, <3>2 DEF Standing
  <2>2. QED
    BY <2>1 DEF Standing, Promise!Below, Phases, Promise!Phases
<1>7. Outcome = "open" /\ Outcome' = Outcome
  BY <1>2 DEF Outcome
<1>8. MaxReturns - returnsUsed > 0 /\ MaxReturns - returnsUsed' = (MaxReturns - returnsUsed) - 1
  BY <1>2, <1>3
<1>9. Promise!Reopen(r.target)
  BY <1>2, <1>5, <1>6, <1>7, <1>8 DEF Promise!Reopen
<1>10. QED
  BY <1>1, <1>9

LEMMA TransitionPromised ==
  ASSUME Core, Lineage, Accounted, status = "active", NEW r \in ResultRecord, NEW s \in Nat,
         ValidResult(current, r), Transition(current, r, s)
  PROVE  Promise!Next \/ UNCHANGED Seen
<1>1. artifacts \in Seq(ArtifactRecord)
  BY DEF Core, TypeOK, DataTypeOK
<1>2. newest \in Nat \ {0} /\ \A x \in DOMAIN artifacts : x \in Nat \ {0}
  BY <1>1 DEF newest
<1>3. CASE Produced(current, r, s)
  BY <1>3, StutterPromised DEF Produced
<1>8. CASE FailRemediate(current, r, s)
  BY <1>8, RetryPromised DEF Promise!Next
<1>4. CASE PassNext(current, r, s) \/ PassLast(current, r, s)
  <2>1. /\ slots' = [slots EXCEPT ![phase] = subject] /\ machine = "qa_review"
        /\ UNCHANGED returnsUsed
        /\ \/ HasNext /\ status' = status /\ generation' = 0
           \/ IsLast /\ status' = "completed" /\ UNCHANGED generation
    BY <1>4 DEF PassNext, PassLast, Stop
  <2>2. subject \in Nat \ {0}
    BY <1>2, <2>1 DEF Lineage, DraftMade, MadeFor
  <2>3. QED
    BY <2>1, <2>2, AcceptPromised DEF Promise!Next, Phases, Promise!Phases
<1>5. CASE Advance(current, r, s) \/ Complete(current, r, s)
  <2>1. /\ slots' = [slots EXCEPT ![phase] = newest] /\ UNCHANGED returnsUsed
        /\ \/ HasNext /\ status' = status /\ generation' = 0
           \/ IsLast /\ status' = "completed" /\ UNCHANGED generation
    BY <1>5 DEF Advance, Complete, Stop
  <2>2. QED
    BY <1>2, <2>1, AcceptPromised DEF Promise!Next, Phases, Promise!Phases
<1>6. CASE FailBlock(current, r, s) \/ ReturnBlock(current, r, s)
  BY <1>6, BlockPromised DEF Promise!Next
<1>7. CASE Return(current, r, s)
  BY <1>7, ReturnPromised DEF Promise!Next, Phases, Promise!Phases
<1>9. QED
  BY <1>3, <1>4, <1>5, <1>6, <1>7, <1>8 DEF Transition

LEMMA OperatePromised ==
  Core /\ Lineage /\ Accounted /\ [Operate]_vars => [Promise!Next]_Seen
<1> SUFFICES ASSUME Core, Lineage, Accounted, [Operate]_vars
             PROVE  Promise!Next \/ UNCHANGED Seen
  OBVIOUS
<1>1. CASE Submits
  <2>1. PICK r \in ResultRecord, s \in Nat : SubmitResult(current, version, r, s)
    BY <1>1 DEF Submits
  <2>2. status = "active" /\ ValidResult(current, r) /\ Transition(current, r, s)
    BY <2>1 DEF SubmitResult, Current
  <2>3. QED
    BY <2>2, TransitionPromised
<1>2. CASE Begins \/ Redeliver \/ UNCHANGED vars
  BY <1>2, StutterPromised
     DEF Begins, BeginActivation, Redeliver, RedeliverResult, vars, run
<1>3. CASE Stops
  BY <1>3, StopPromised DEF Stops, FailActivation, Stop, Promise!Next
<1>4. QED
  BY <1>1, <1>2, <1>3 DEF Operate

LEMMA ServesPromise == Serve => KeepsPromise
<1>1. Init => Promise!Init
  <2> SUFFICES ASSUME Init PROVE Promise!Init
    OBVIOUS
  <2>1. /\ Standing = {} /\ Outcome = "open" /\ MaxReturns - returnsUsed = MaxReturns
        /\ MaxRemediations - generation = MaxRemediations
    BY DEF Init, Standing, Outcome
  <2>2. QED
    BY <2>1 DEF Promise!Init
<1>2. QED
  BY <1>1, ServesCore, ServesLineage, ServesAccounted, OperatePromised, PTL
     DEF Serve, KeepsPromise, Promise!Spec, Seen

\* The versioned store with its drafts, reviews, feedback and receipts
\* implements the promise of a run: no phase is given up, tried again or the
\* run blocked but from a budget.
THEOREM ImplementsPromise == Spec => KeepsPromise
BY SpecServes, ServesPromise
=============================================================================
