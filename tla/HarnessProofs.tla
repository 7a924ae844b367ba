--------------------------- MODULE HarnessProofs ----------------------------
(***************************************************************************)
(* Theorems of the harness driver, for every pattern, every budget, every  *)
(* result a role may hand in and any number of crashes.                    *)
(***************************************************************************)
EXTENDS Harness, ControllerProofs

USE ControllerAssumption, HarnessAssumption

AnswerRecord == [result : RoleResults, session : Nat]
ProcRecord   == [group : Groups, opened : BOOLEAN, recorded : BOOLEAN, launches : {0, 1}]
Holding      == {"holding", "sure", "unsure"}
AtStep       == {"launch", "spawning", "recording", "working", "answered"}
Apart        == {"out", "loop", "leaving"}   \* places where the driver knows no group

\* The kernel under the harness: the part of its invariant a drive rests on.
Kernel == Core /\ Accounted

Quiet == \A s \in Steps : ~Living(s)

HarnessTypes ==
  /\ drive \in Places /\ name \in Names /\ held \in AnswerRecord
  /\ envelope \in [Numbers -> AnswerRecord] /\ begun \subseteq Numbers
  /\ proc \in [Steps -> ProcRecord]

\* Only a begun activation, which is never ready again, was answered or has
\* processes, and a launched step has opened its logs.
Records ==
  /\ \A a \in begun : a \in DOMAIN activations /\ activations[a].status # "ready"
  /\ \A a \in Numbers \ begun : envelope[a] = NoAnswer
  /\ \A s \in Steps :
       /\ s[1] \notin begun => proc[s].launches = 0
       /\ proc[s].launches = 0 => proc[s].group = "none"
       /\ proc[s].launches # 0 => proc[s].opened

\* What the driver's place says of the run: it is at the running activation,
\* whose step it has not launched before, and whose answer is not yet stored.
Placed ==
  /\ drive = "admitted" => status = "active" /\ activations[current].status = "ready"
  /\ drive \in AtStep \cup {"deliver"} =>
       status = "active" /\ activations[current].status = "running" /\ current \in begun
  /\ drive \in AtStep => envelope[current] = NoAnswer
  /\ drive \in {"launch", "spawning"} => proc[step].launches = 0
  /\ drive \in AtStep /\ name = "actor" => proc[<<current, "verify">>].launches = 0
  /\ drive = "spawning" => proc[step].opened

\* A living group is the only one, belongs to the running activation nobody
\* answered for, and is the step the driver is working on or an orphan.
Alive ==
  /\ \A s, t \in Steps : Living(s) /\ Living(t) => s = t
  /\ \A s \in Steps : Living(s) =>
       /\ status = "active" => s[1] = current /\ envelope[current] = NoAnswer
       /\ drive \in Apart \cup {"recording", "working"}
       /\ drive \notin Apart => s = step

\* What the harness and the operator hold to be gone is gone for good.
Told ==
  /\ operator \in Holding => drive = "out"
  /\ operator = "sure" => Quiet
  /\ reason \in {"confirmed", "absent"} => status # "active" /\ Quiet

HarnessInv == Kernel /\ HarnessTypes /\ Records /\ Placed /\ Alive /\ Told

-----------------------------------------------------------------------------
\* The kernel's operations, as the harness calls them.

\* Nothing begun becomes ready again.
NoneReadied ==
  \A a \in DOMAIN activations :
    /\ a \in DOMAIN activations'
    /\ activations[a].status # "ready" => activations'[a].status # "ready"

\* The budget of the kernel bounds the files and the processes of a run.
LEMMA NumbersSuffice == Kernel => DOMAIN activations \subseteq Numbers
<1> SUFFICES ASSUME Kernel PROVE DOMAIN activations \subseteq Numbers
  OBVIOUS
<1> DEFINE phases == LastPhase + 1
           most == MaxRemediations + MaxReturns + 1
<1>1. Len(activations) <= Budget /\ kind \in Kinds
  BY AccountedWithin DEF Kernel, WithinBudget, Accounted
<1>2. DOMAIN activations = 1 .. Len(activations) /\ Len(activations) \in Nat
  BY DEF Kernel, Core, TypeOK
<1>3. phases \in Nat /\ most \in Nat
  OBVIOUS
<1>4. phases * (2 * (MaxRemediations + 1)) <= 2 * phases * most
  <2>1. (2 * (MaxRemediations + 1)) * phases <= (2 * most) * phases
    BY <1>3, MoreTimes
  <2>2. QED
    BY <1>3, <2>1
<1>5. (MaxReturns + 1) * phases <= 2 * phases * most
  <2>1. (MaxReturns + 1) * phases <= (2 * most) * phases
    BY <1>3, MoreTimes
  <2>2. QED
    BY <1>3, <2>1
<1>6. (MaxReturns + 1) * phases = phases * (MaxReturns + 1)
  BY <1>3
<1> DEFINE top == IF Verified \in Kinds THEN 2 * phases * most ELSE phases * (MaxReturns + 1)
<1>7. Numbers = 1 .. top
  BY DEF Numbers
<1>8. phases * (2 * (MaxRemediations + 1)) \in Nat /\ phases * (MaxReturns + 1) \in Nat
      /\ 2 * phases * most \in Nat
  BY <1>3
<1> HIDE DEF phases, most
<1>9. Budget <= top /\ Budget \in Nat /\ top \in Nat
  BY <1>1, <1>4, <1>5, <1>6, <1>8 DEF Budget, phases
<1> HIDE DEF top
<1>10. QED
  BY <1>1, <1>2, <1>7, <1>9

LEMMA ActiveCurrent ==
  ASSUME Kernel, status = "active"
  PROVE  /\ current \in DOMAIN activations /\ current \in Numbers
         /\ <<current, "actor">> \in Steps /\ <<current, "verify">> \in Steps
         /\ name \in Names => step \in Steps
<1>1. current \in DOMAIN activations /\ current \in Numbers
  BY CurrentIsOpen, NumbersSuffice DEF Kernel
<1>2. QED
  BY <1>1 DEF Steps, Names, step

\* Starting or stopping the current activation readies none.
LEMMA StandingReadiesNone ==
  ASSUME Core, status = "active", NEW st, st # "ready",
         activations' = [activations EXCEPT ![current].status = st]
  PROVE  NoneReadied /\ activations'[current].status = st
<1>1. /\ current \in DOMAIN activations /\ activations \in Seq(ActivationRecord)
      /\ activations[current] \in ActivationRecord
  BY CurrentIsOpen DEF Core, TypeOK
<1>2. /\ DOMAIN activations' = DOMAIN activations
      /\ \A i \in DOMAIN activations : i # current => activations'[i] = activations[i]
      /\ activations'[current] = [activations[current] EXCEPT !.status = st]
  BY <1>1
<1>3. activations'[current].status = st
  BY <1>1, <1>2 DEF ActivationRecord
<1>4. QED
  BY <1>2, <1>3 DEF NoneReadied

LEMMA BeginKernel ==
  ASSUME Kernel, BeginActivation(current, version)
  PROVE  /\ Kernel' /\ NoneReadied /\ UNCHANGED <<status, current>>
         /\ activations'[current].status = "running"
<1>1. /\ status = "active" /\ UNCHANGED <<status, current>>
      /\ activations' = [activations EXCEPT ![current].status = "running"]
      /\ UNCHANGED <<kind, phase, generation, returnsUsed, machine>>
  BY DEF BeginActivation, Current
<1>2. Core'
  BY BeginCore DEF Kernel
<1>3. Accounted'
  BY <1>1, StandingAccounted DEF Kernel
<1>4. QED
  BY <1>1, <1>2, <1>3, StandingReadiesNone DEF Kernel

LEMMA FailKernel ==
  ASSUME Kernel, status = "active", NEW outcome \in {"failed", "cancelled"},
         FailActivation(current, outcome)
  PROVE  Kernel' /\ NoneReadied /\ status' # "active"
<1>1. /\ activations' = [activations EXCEPT ![current].status = "failed"]
      /\ UNCHANGED <<kind, phase, generation, returnsUsed>>
      /\ machine' = outcome /\ status' = outcome
  BY DEF FailActivation, Stop
<1>2. Core'
  BY FailCore DEF Kernel
<1>3. Accounted'
  BY <1>1, StandingAccounted DEF Kernel
<1>4. QED
  BY <1>1, <1>2, <1>3, StandingReadiesNone DEF Kernel

LEMMA SubmitKernel ==
  ASSUME Kernel, NEW r \in ResultRecord, NEW s \in Nat, SubmitResult(current, version, r, s)
  PROVE  /\ Kernel' /\ NoneReadied
         /\ status' = "active" => current' \notin DOMAIN activations
<1>1. status = "active" /\ Transition(current, r, s) /\ kind' = kind
  BY DEF SubmitResult, Current
<1>2. Core'
  BY SubmitCore DEF Kernel
<1>3. Accounted'
  BY <1>1, <1>2, TransitionAccounted DEF Kernel
<1>4. /\ \A i \in DOMAIN activations : /\ i \in DOMAIN activations'
                                       /\ i # current => activations'[i] = activations[i]
      /\ activations'[current].status = "retired"
      /\ Successor(activations)
  BY <1>1, <1>2, TransitionActivations DEF Kernel
<1>5. NoneReadied
  BY <1>4 DEF NoneReadied
<1>6. QED
  BY <1>2, <1>3, <1>4, <1>5 DEF Kernel, Successor

LEMMA RestKernel ==
  ASSUME Kernel, UNCHANGED vars
  PROVE  Kernel' /\ NoneReadied /\ UNCHANGED <<status, current, activations>>
<1>1. Core' /\ Accounted'
  BY OperateCore, OperateAccounted DEF Kernel
<1>2. QED
  BY <1>1 DEF Kernel, NoneReadied, vars, run

\* A drive stops the run, whatever the reason.
LEMMA StopFailedKernel ==
  ASSUME Kernel, NEW why, StopFailed(why)
  PROVE  /\ Kernel' /\ NoneReadied /\ status' # "active"
         /\ drive' = "leaving" /\ reason' = why
<1>1. status = "active" /\ FailActivation(current, "failed")
  BY DEF StopFailed, RuntimeFailed, Current
<1>2. QED
  BY <1>1, FailKernel DEF StopFailed

LEMMA StopCancelledKernel ==
  ASSUME Kernel, NEW why, StopCancelled(why)
  PROVE  /\ Kernel' /\ NoneReadied /\ status' # "active"
         /\ drive' = "leaving"
         /\ reason' = IF status = "active" THEN why ELSE reason
<1>1. CASE status = "active"
  <2>1. FailActivation(current, "cancelled") /\ reason' = why /\ drive' = "leaving"
    BY <1>1 DEF StopCancelled, CancelRun
  <2>2. QED
    BY <1>1, <2>1, FailKernel
<1>2. CASE status # "active"
  <2>1. UNCHANGED <<vars, reason>> /\ drive' = "leaving"
    BY <1>2 DEF StopCancelled
  <2>2. QED
    BY <1>2, <2>1, RestKernel
<1>3. QED
  BY <1>1, <1>2

-----------------------------------------------------------------------------
\* Process groups: everything but a launch only ends them.

Ebb ==
  /\ proc' \in [Steps -> ProcRecord]
  /\ \A s \in Steps :
       /\ proc'[s].launches = proc[s].launches
       /\ proc[s].opened => proc'[s].opened
       /\ proc[s].group = "none" => proc'[s].group = "none"
       /\ Living(s)' => Living(s)

LEMMA EbbOfNothing ==
  ASSUME HarnessTypes, proc' = proc
  PROVE  Ebb
BY DEF HarnessTypes, Ebb, Living

\* Groups of any set of steps get a new fate, unless they never lived.
LEMMA EbbOfFates ==
  ASSUME HarnessTypes, NEW S \in SUBSET Steps, NEW fate \in [Steps -> Groups],
         \A s \in S : /\ fate[s] # "none"
                      /\ proc[s].group = "none" => fate[s] = "none"
                      /\ fate[s] \in {"live", "members"} => Living(s),
         proc' = [s \in Steps |-> IF s \in S THEN [proc[s] EXCEPT !.group = fate[s]] ELSE proc[s]]
  PROVE  Ebb
<1>1. proc \in [Steps -> ProcRecord]
  BY DEF HarnessTypes
<1>2. proc' \in [Steps -> ProcRecord]
  <2>1. \A s \in Steps : [proc[s] EXCEPT !.group = fate[s]] \in ProcRecord
    BY <1>1 DEF ProcRecord
  <2>2. QED
    BY <1>1, <2>1
<1>3. ASSUME NEW s \in Steps
      PROVE  /\ proc'[s].launches = proc[s].launches
             /\ proc[s].opened => proc'[s].opened
             /\ proc[s].group = "none" => proc'[s].group = "none"
             /\ Living(s)' => Living(s)
  <2>1. CASE s \in S
    <3>1. proc'[s] = [proc[s] EXCEPT !.group = fate[s]] /\ proc[s] \in ProcRecord
      BY <1>1, <2>1
    <3>2. /\ proc'[s].launches = proc[s].launches /\ proc'[s].opened = proc[s].opened
          /\ proc'[s].group = fate[s]
      BY <3>1 DEF ProcRecord
    <3>3. QED
      BY <2>1, <3>2 DEF Living
  <2>2. CASE s \notin S
    <3>1. proc'[s] = proc[s]
      BY <2>2
    <3>2. QED
      BY <3>1 DEF Living
  <2>3. QED
    BY <2>1, <2>2
<1>4. QED
  BY <1>2, <1>3 DEF Ebb

LEMMA TerminateEbbs ==
  ASSUME HarnessTypes, Terminate
  PROVE  Ebb
<1>1. PICK end \in {"live", "members", "gone"} :
        proc' = [s \in Steps |-> IF proc[s].recorded /\ proc[s].group = "live"
                                 THEN [proc[s] EXCEPT !.group = end] ELSE proc[s]]
  BY DEF Terminate
<1> DEFINE S == {s \in Steps : proc[s].recorded /\ proc[s].group = "live"}
           fate == [s \in Steps |-> end]
<1>2. S \in SUBSET Steps /\ fate \in [Steps -> Groups] /\ \A s \in Steps : fate[s] = end
  BY DEF Groups
<1>3. \A s \in S : fate[s] # "none" /\ proc[s].group # "none" /\ Living(s)
  BY <1>2 DEF Living
<1>4. proc' = [s \in Steps |-> IF s \in S THEN [proc[s] EXCEPT !.group = fate[s]] ELSE proc[s]]
  BY <1>1
<1> HIDE DEF S, fate
<1>5. QED
  BY <1>2, <1>3, <1>4, EbbOfFates

\* The driver's own child goes with its survivors.
LEMMA StopGroupEbbs ==
  ASSUME HarnessTypes, step \in Steps, proc' = StopGroup
  PROVE  Ebb /\ proc'[step].group \in {"none", "gone"}
<1> DEFINE S == {s \in Steps : s = step /\ proc[s].group # "none"}
           fate == [s \in Steps |-> "gone"]
<1>1. proc \in [Steps -> ProcRecord] /\ proc[step] \in ProcRecord
  BY DEF HarnessTypes
<1>2. S \in SUBSET Steps /\ fate \in [Steps -> Groups] /\ \A s \in Steps : fate[s] = "gone"
  BY DEF Groups
<1> DEFINE left == IF proc[step].group = "none" THEN "none" ELSE "gone"
<1>3. proc' = [proc EXCEPT ![step] = [proc[step] EXCEPT !.group = left]]
  BY DEF StopGroup
<1>4. proc[step].group = "none" => [proc[step] EXCEPT !.group = left] = proc[step]
  BY <1>1 DEF ProcRecord
<1>5. proc' = [s \in Steps |-> IF s \in S THEN [proc[s] EXCEPT !.group = fate[s]] ELSE proc[s]]
  BY <1>1, <1>2, <1>3, <1>4
<1>6. \A s \in S : fate[s] # "none" /\ proc[s].group # "none" /\ fate[s] \notin {"live", "members"}
  BY <1>2
<1>7. Ebb
  <2> HIDE DEF S, fate
  <2>1. QED
    BY <1>2, <1>5, <1>6, EbbOfFates
<1>8. proc'[step].group = left
  BY <1>1, <1>3 DEF ProcRecord
<1>9. QED
  BY <1>7, <1>8

LEMMA EndingEbbs ==
  ASSUME HarnessTypes, NEW s \in Steps, NEW end \in {"members", "gone"}, Living(s),
         proc' = [proc EXCEPT ![s].group = end]
  PROVE  Ebb
<1> DEFINE S == {s}
           fate == [t \in Steps |-> end]
<1>1. S \in SUBSET Steps /\ fate \in [Steps -> Groups] /\ \A t \in Steps : fate[t] = end
  BY DEF Groups
<1>2. proc' = [t \in Steps |-> IF t \in S THEN [proc[t] EXCEPT !.group = fate[t]] ELSE proc[t]]
  BY <1>1 DEF HarnessTypes
<1>3. \A t \in S : fate[t] # "none" /\ proc[t].group # "none" /\ Living(t)
  BY <1>1 DEF Living
<1> HIDE DEF S, fate
<1>4. QED
  BY <1>1, <1>2, <1>3, EbbOfFates

LEMMA RebootEbbs ==
  ASSUME HarnessTypes,
         proc' = [s \in Steps |-> IF Living(s) THEN [proc[s] EXCEPT !.group = "gone"] ELSE proc[s]]
  PROVE  Ebb
<1> DEFINE S == {s \in Steps : Living(s)}
           fate == [t \in Steps |-> "gone"]
<1>1. S \in SUBSET Steps /\ fate \in [Steps -> Groups] /\ \A t \in Steps : fate[t] = "gone"
  BY DEF Groups
<1>2. proc' = [t \in Steps |-> IF t \in S THEN [proc[t] EXCEPT !.group = fate[t]] ELSE proc[t]]
  BY <1>1
<1>3. \A t \in S : fate[t] # "none" /\ proc[t].group # "none"
                   /\ fate[t] \notin {"live", "members"}
  BY <1>1 DEF Living
<1> HIDE DEF S, fate
<1>4. QED
  BY <1>1, <1>2, <1>3, EbbOfFates

\* Opening the logs of a step is the one thing that precedes its launch.
LEMMA OpeningEbbs ==
  ASSUME HarnessTypes, step \in Steps, proc' = [proc EXCEPT ![step].opened = TRUE]
  PROVE  Ebb /\ proc'[step].opened
<1>1. proc \in [Steps -> ProcRecord] /\ proc[step] \in ProcRecord
  BY DEF HarnessTypes
<1> DEFINE opened == [proc[step] EXCEPT !.opened = TRUE]
<1>2. /\ opened \in ProcRecord /\ opened.opened /\ opened.launches = proc[step].launches
      /\ opened.group = proc[step].group
  BY <1>1 DEF ProcRecord
<1>3. proc' = [proc EXCEPT ![step] = opened]
  OBVIOUS
<1> HIDE DEF opened
<1>4. proc' \in [Steps -> ProcRecord]
  BY <1>1, <1>2, <1>3
<1>5. proc'[step] = opened /\ \A s \in Steps : s # step => proc'[s] = proc[s]
  BY <1>1, <1>3
<1>6. QED
  BY <1>2, <1>4, <1>5 DEF Ebb, Living

-----------------------------------------------------------------------------
\* What each part of the invariant needs of a step.

\* The files and records of the run, when nothing is begun or answered.
LEMMA RecordsKept ==
  ASSUME HarnessTypes, Records, NoneReadied, Ebb, UNCHANGED <<begun, envelope>>
  PROVE  Records'
<1>1. \A a \in begun' : a \in DOMAIN activations' /\ activations'[a].status # "ready"
  BY DEF Records, NoneReadied
<1>2. \A s \in Steps :
        /\ s[1] \notin begun' => proc'[s].launches = 0
        /\ proc'[s].launches = 0 => proc'[s].group = "none"
        /\ proc'[s].launches # 0 => proc'[s].opened
  BY DEF Records, Ebb
<1>3. QED
  BY <1>1, <1>2 DEF Records

\* A group that still lives is left alone by a driver that is apart.
LEMMA AliveApart ==
  ASSUME Alive, Ebb, envelope' = envelope, drive' \in Apart,
         status' # "active" \/ UNCHANGED <<status, current>>
  PROVE  Alive'
<1>1. \A s \in Steps : Living(s)' => Living(s)
  BY DEF Ebb
<1>2. \A s \in Steps : Living(s)' /\ status' = "active"
                        => s[1] = current' /\ envelope'[current'] = NoAnswer
  BY <1>1 DEF Alive
<1>3. \A s, t \in Steps : Living(s)' /\ Living(t)' => s = t
  BY <1>1 DEF Alive
<1>4. QED
  BY <1>2, <1>3 DEF Alive

\* Without a living group there is nothing to say.
LEMMA AliveQuiet ==
  ASSUME Quiet, Ebb
  PROVE  Quiet' /\ Alive'
<1>1. \A s \in Steps : ~Living(s)'
  BY DEF Ebb, Quiet
<1>2. QED
  BY <1>1 DEF Alive, Quiet

LEMMA QuietKept ==
  ASSUME Quiet, Ebb
  PROVE  Quiet'
BY AliveQuiet

LEMMA PlacedApart == ASSUME drive' \in Apart PROVE Placed'
BY DEF Placed, Apart, AtStep

\* A confirmed cleanup leaves nothing: whatever lives was begun and opened.
LEMMA ConfirmedIsQuiet ==
  /\ HarnessTypes /\ Records /\ Confirmable => Quiet
  /\ HarnessTypes' /\ Records' /\ Confirmable' => Quiet'
<1>1. ASSUME HarnessTypes, Records, Confirmable PROVE Quiet
  <2> SUFFICES ASSUME NEW s \in Steps, Living(s) PROVE FALSE
    BY DEF Quiet
  <2>1. s \in Inspected
    BY <1>1 DEF Records, Living, Inspected
  <2>2. QED
    BY <1>1, <2>1 DEF Confirmable, Clean, Living
<1>2. ASSUME HarnessTypes', Records', Confirmable' PROVE Quiet'
  <2> SUFFICES ASSUME NEW s \in Steps, Living(s)' PROVE FALSE
    BY DEF Quiet
  <2>1. s \in Inspected'
    BY <1>2 DEF Records, Living, Inspected
  <2>2. QED
    BY <1>2, <2>1 DEF Confirmable, Clean, Living
<1>3. QED
  BY <1>1, <1>2

\* What is told stays true while groups only end, unless the operator or the
\* harness newly claims a confirmed cleanup.
LEMMA ToldKept ==
  ASSUME Told, Ebb,
         operator' = operator \/ operator' \notin Holding,
         drive' = "out" \/ drive = drive' \/ drive # "out",
         status # "active" => status' # "active",
         reason' = reason \/ reason' \notin {"confirmed", "absent"}
                          \/ (status' # "active" /\ Quiet')
  PROVE  Told'
<1>1. Quiet => Quiet'
  BY QuietKept
<1>2. operator' \in Holding => drive' = "out"
  BY DEF Told
<1>3. operator' = "sure" => Quiet'
  BY <1>1 DEF Told, Holding
<1>4. reason' \in {"confirmed", "absent"} => status' # "active" /\ Quiet'
  BY <1>1 DEF Told
<1>5. QED
  BY <1>2, <1>3, <1>4 DEF Told

\* A driver that retreats from its step: every way a drive is left or ended.
LEMMA RetreatSound ==
  ASSUME HarnessInv, Kernel', NoneReadied, Ebb, UNCHANGED <<begun, envelope>>,
         drive' \in Apart, drive # "out" \/ drive' = "out", name' \in Names, held' \in AnswerRecord,
         status' # "active" \/ UNCHANGED <<status, current>>,
         operator' = operator \/ operator' \notin Holding,
         reason' = reason \/ reason' \notin {"confirmed", "absent"}
                          \/ (status' # "active" /\ Quiet')
  PROVE  HarnessInv'
<1>1. HarnessTypes'
  BY DEF HarnessInv, HarnessTypes, Ebb, Apart, Places
<1>2. Records' /\ Placed' /\ Alive'
  BY RecordsKept, AliveApart, PlacedApart DEF HarnessInv
<1>3. Told'
  BY ToldKept DEF HarnessInv
<1>4. QED
  BY <1>1, <1>2, <1>3 DEF HarnessInv

\* A step of the driver, or beside it, that leaves the kernel at rest.
LEMMA RestSound ==
  ASSUME HarnessInv, UNCHANGED vars, HarnessTypes', Ebb, UNCHANGED begun,
         envelope' = envelope \/ Records', Placed', Alive',
         operator' = operator \/ operator' \notin Holding,
         drive' = "out" \/ drive' = drive \/ drive # "out",
         UNCHANGED reason
  PROVE  HarnessInv'
<1>1. Kernel' /\ NoneReadied /\ UNCHANGED <<status, current, activations>>
  BY RestKernel DEF HarnessInv
<1>2. Records'
  BY <1>1, RecordsKept DEF HarnessInv
<1>3. Told'
  BY <1>1, ToldKept DEF HarnessInv
<1>4. QED
  BY <1>1, <1>2, <1>3 DEF HarnessInv

LEMMA NoAnswerTyped == NoAnswer \in AnswerRecord
BY DEF NoAnswer, AnswerRecord, None

-----------------------------------------------------------------------------
\* The steps of the driver.

LEMMA StoppedSound == HarnessInv /\ (Stopped \/ Hold) => HarnessInv'
<1> SUFFICES ASSUME HarnessInv, Stopped \/ Hold PROVE HarnessInv'
  OBVIOUS
<1>1. /\ drive = "loop" /\ drive' = "leaving"
      /\ UNCHANGED <<vars, told, operator, name, held, files, world>>
  BY DEF Stopped, Hold, Uncancelled, Go
<1>2. Kernel' /\ NoneReadied /\ UNCHANGED <<status, current>>
  BY <1>1, RestKernel DEF HarnessInv
<1>3. Ebb
  BY <1>1, EbbOfNothing DEF HarnessInv, world
<1>4. QED
  BY <1>1, <1>2, <1>3, RetreatSound DEF HarnessInv, HarnessTypes, Apart, told, files, world

LEMMA CancelFoundSound == HarnessInv /\ CancelFound => HarnessInv'
<1> SUFFICES ASSUME HarnessInv, CancelFound PROVE HarnessInv'
  OBVIOUS
<1>1. PICK sure \in Reports' :
        IF sure THEN StopCancelled("confirmed") ELSE StopFailed("uncertain")
  BY DEF CancelFound
<1>2. /\ drive = "loop" /\ Terminate /\ UNCHANGED <<begun, name, held, files, operator>>
  BY DEF CancelFound, Rest
<1>3. /\ Kernel' /\ NoneReadied /\ status' # "active" /\ drive' = "leaving"
      /\ reason' = "uncertain" \/ reason' = reason \/ (sure /\ reason' = "confirmed")
  BY <1>1, StopCancelledKernel, StopFailedKernel DEF HarnessInv
<1>4. Ebb
  BY <1>2, TerminateEbbs DEF HarnessInv
<1>5. HarnessTypes'
  BY <1>2, <1>3, <1>4 DEF HarnessInv, HarnessTypes, Ebb, Places, files
<1>6. Records'
  BY <1>2, <1>3, <1>4, RecordsKept DEF HarnessInv, files
<1>7. sure => Quiet'
  BY <1>1, <1>5, <1>6, ConfirmedIsQuiet DEF Reports
<1>8. QED
  BY <1>2, <1>3, <1>4, <1>7, RetreatSound DEF HarnessInv, HarnessTypes, Apart, files

LEMMA AbandonSound == HarnessInv /\ Abandon => HarnessInv'
<1> SUFFICES ASSUME HarnessInv, Abandon PROVE HarnessInv'
  OBVIOUS
<1>1. PICK sure \in Reports : StopFailed(IF sure THEN "absent" ELSE "uncertain")
  BY DEF Abandon
<1>2. drive = "loop" /\ UNCHANGED <<name, held, files, world, operator>>
  BY DEF Abandon, Uncancelled, Rest
<1>3. /\ Kernel' /\ NoneReadied /\ status' # "active" /\ drive' = "leaving"
      /\ reason' = "uncertain" \/ (sure /\ reason' = "absent")
  BY <1>1, StopFailedKernel DEF HarnessInv
<1>4. Ebb
  BY <1>2, EbbOfNothing DEF HarnessInv, world
<1>5. sure => Quiet'
  BY <1>1, <1>4, ConfirmedIsQuiet, QuietKept DEF Reports, HarnessInv
<1>6. QED
  BY <1>2, <1>3, <1>4, <1>5, RetreatSound
     DEF HarnessInv, HarnessTypes, Apart, files, world

\* A driver that fails or is cancelled, having stopped its child if it has one.
LEMMA StopSound ==
  ASSUME HarnessInv, NEW why \in {"error", "refused", "interrupted"},
         StopFailed(why) \/ StopCancelled(why), drive # "out", Ebb,
         UNCHANGED <<name, held, files, begun, operator>>
  PROVE  HarnessInv'
<1>1. /\ Kernel' /\ NoneReadied /\ status' # "active" /\ drive' = "leaving"
      /\ reason' = reason \/ reason' \notin {"confirmed", "absent"}
  BY StopFailedKernel, StopCancelledKernel DEF HarnessInv
<1>2. QED
  BY <1>1, RetreatSound DEF HarnessInv, HarnessTypes, Apart, files

LEMMA AtStepIsNamed ==
  ASSUME HarnessInv, drive \in AtStep
  PROVE  /\ step \in Steps /\ <<current, "verify">> \in Steps /\ current \in Numbers
         /\ status = "active" /\ activations[current].status = "running" /\ current \in begun
         /\ proc[step] \in ProcRecord
BY ActiveCurrent DEF HarnessInv, Placed, HarnessTypes

LEMMA FailuresSound ==
  HarnessInv /\ (RefuseParticipant \/ StepFails \/ CancelPolled \/ Interrupt) => HarnessInv'
<1> SUFFICES ASSUME HarnessInv, RefuseParticipant \/ StepFails \/ CancelPolled \/ Interrupt
             PROVE  HarnessInv'
  OBVIOUS
<1>1. CASE RefuseParticipant
  <2>1. /\ drive = "admitted" /\ StopFailed("refused")
        /\ UNCHANGED <<name, held, files, world, operator>>
    BY <1>1 DEF RefuseParticipant, Rest
  <2>2. Ebb
    BY <2>1, EbbOfNothing DEF HarnessInv, world
  <2>3. QED
    BY <2>1, <2>2, StopSound DEF world
<1>2. CASE StepFails
  <2>1. /\ drive \in AtStep /\ StopFailed("error") /\ proc' = StopGroup
        /\ UNCHANGED <<name, held, files, begun, operator>>
    BY <1>2 DEF StepFails, AtStep, Rest
  <2>2. Ebb
    BY <2>1, AtStepIsNamed, StopGroupEbbs DEF HarnessInv
  <2>3. drive # "out"
    BY <2>1 DEF AtStep
  <2>4. QED
    BY <2>1, <2>2, <2>3, StopSound
<1>3. CASE CancelPolled
  <2>1. /\ drive \in AtStep /\ StopCancelled("interrupted") /\ proc' = StopGroup
        /\ UNCHANGED <<name, held, files, begun, operator>>
    BY <1>3 DEF CancelPolled, AtStep, Rest
  <2>2. Ebb
    BY <2>1, AtStepIsNamed, StopGroupEbbs DEF HarnessInv
  <2>3. drive # "out"
    BY <2>1 DEF AtStep
  <2>4. QED
    BY <2>1, <2>2, <2>3, StopSound
<1>4. CASE Interrupt
  <2>1. /\ drive # "out" /\ StopCancelled("interrupted")
        /\ UNCHANGED <<name, held, files, begun, operator>>
        /\ proc' \in CASE drive = "working"   -> {StopGroup}
                        [] drive = "recording" -> {StopGroup, proc}
                        [] OTHER               -> {proc}
    BY <1>4 DEF Interrupt, Rest
  <2>2. \/ proc' = proc
        \/ drive \in AtStep /\ proc' = StopGroup
    <3>1. drive = "working" => drive \in AtStep /\ proc' = StopGroup
      BY <2>1 DEF AtStep
    <3>2. drive = "recording" => drive \in AtStep /\ (proc' = StopGroup \/ proc' = proc)
      BY <2>1 DEF AtStep
    <3>3. drive \notin {"working", "recording"} => proc' = proc
      BY <2>1
    <3>4. QED
      BY <3>1, <3>2, <3>3
  <2>3. Ebb
    BY <2>2, AtStepIsNamed, StopGroupEbbs, EbbOfNothing DEF HarnessInv
  <2>4. QED
    BY <2>1, <2>3, StopSound
<1>5. QED
  BY <1>1, <1>2, <1>3, <1>4

LEMMA ForgettingSound == HarnessInv /\ (Leave \/ Crash \/ Reboot) => HarnessInv'
<1> SUFFICES ASSUME HarnessInv, Leave \/ Crash \/ Reboot PROVE HarnessInv'
  OBVIOUS
<1>1. /\ UNCHANGED <<vars, files, begun, reason>>
      /\ \/ Forget /\ operator' = operator /\ drive # "out"
         \/ Forget /\ operator' = "idle"
         \/ UNCHANGED driver /\ operator' = "idle"
      /\ \/ proc' = proc
         \/ proc' = [s \in Steps |-> IF Living(s) THEN [proc[s] EXCEPT !.group = "gone"]
                                                  ELSE proc[s]]
  BY DEF Leave, Crash, Reboot, told, world
<1>2. Ebb
  BY <1>1, EbbOfNothing, RebootEbbs DEF HarnessInv
<1>3. Kernel' /\ NoneReadied /\ UNCHANGED <<status, current, activations>>
  BY <1>1, RestKernel DEF HarnessInv
<1>4. operator' = operator \/ operator' \notin Holding
  BY <1>1 DEF Holding
<1>5. CASE Forget
  <2>1. drive' = "out" /\ held' \in AnswerRecord /\ name' \in Names
    BY <1>5, NoAnswerTyped DEF Forget, Names
  <2>2. QED
    BY <1>1, <1>2, <1>3, <1>4, <2>1, RetreatSound DEF Apart, files
<1>6. CASE UNCHANGED driver
  <2>1. UNCHANGED <<drive, name, held, envelope, current, status, activations>>
    BY <1>1, <1>3, <1>6 DEF driver, files
  <2>2. HarnessTypes'
    BY <1>1, <1>2, <2>1 DEF HarnessInv, HarnessTypes, Ebb
  <2>3. Placed'
    <3>1. drive \in {"launch", "spawning"} => step \in Steps /\ <<current, "verify">> \in Steps
      BY AtStepIsNamed DEF AtStep
    <3>2. drive \in AtStep => step \in Steps /\ <<current, "verify">> \in Steps
      BY AtStepIsNamed
    <3>3. step' = step
      BY <2>1 DEF step
    <3>4. QED
      BY <1>1, <1>2, <2>1, <3>1, <3>2, <3>3 DEF HarnessInv, Placed, Ebb
  <2>4. Alive'
    <3>1. step' = step
      BY <2>1 DEF step
    <3>2. QED
      BY <1>2, <2>1, <3>1 DEF HarnessInv, Alive, Ebb, Living
  <2>5. QED
    BY <1>1, <1>2, <1>4, <2>1, <2>2, <2>3, <2>4, RestSound DEF HarnessInv
<1>7. QED
  BY <1>1, <1>5, <1>6

\* Between two steps the driver only moves: nothing lives where it goes.
LEMMA MoveSound ==
  ASSUME HarnessInv, UNCHANGED <<vars, reason, operator, begun>>, drive # "out", Quiet', Ebb,
         drive' \in Places, name' \in Names, held' \in AnswerRecord,
         envelope' = envelope \/ (HarnessTypes' /\ Records'), Placed'
  PROVE  HarnessInv'
<1>1. Kernel' /\ NoneReadied /\ UNCHANGED <<status, current, activations>>
  BY RestKernel DEF HarnessInv
<1>2. HarnessTypes'
  BY DEF HarnessInv, HarnessTypes, Ebb
<1>3. Alive'
  BY DEF Alive, Quiet
<1>4. QED
  BY <1>1, <1>2, <1>3, RestSound

LEMMA DriveSound == HarnessInv /\ Drive => HarnessInv'
<1> SUFFICES ASSUME HarnessInv, Drive PROVE HarnessInv'
  OBVIOUS
<1>1. /\ drive = "out" /\ drive' = "loop" /\ operator \notin Holding
      /\ UNCHANGED <<vars, told, operator, name, held, files, world>>
  BY DEF Drive, Go, Holding
<1>2. Kernel' /\ NoneReadied /\ UNCHANGED <<status, current>>
  BY <1>1, RestKernel DEF HarnessInv
<1>3. Ebb
  BY <1>1, EbbOfNothing DEF HarnessInv, world
<1>4. HarnessTypes'
  BY <1>1, <1>3 DEF HarnessInv, HarnessTypes, Ebb, Places, files, world
<1>5. Records' /\ Placed' /\ Alive'
  BY <1>1, <1>2, <1>3, RecordsKept, PlacedApart, AliveApart DEF HarnessInv, files, world, Apart
<1>6. Told'
  BY <1>1, <1>2, <1>3, QuietKept DEF HarnessInv, Told, Holding, told
<1>7. QED
  BY <1>2, <1>4, <1>5, <1>6 DEF HarnessInv

\* An answered activation has nothing living: it is delivered, never redone.
LEMMA RecoverSound == HarnessInv /\ Recover => HarnessInv'
<1> SUFFICES ASSUME HarnessInv, Recover PROVE HarnessInv'
  OBVIOUS
<1>1. /\ drive = "loop" /\ drive' = "deliver" /\ status = "active"
      /\ activations[current].status = "running" /\ envelope[current] # NoAnswer
      /\ UNCHANGED <<vars, told, operator, name, held, files, world>>
  BY DEF Recover, Uncancelled, Go
<1>2. Ebb
  BY <1>1, EbbOfNothing DEF HarnessInv, world
<1>3. Quiet'
  <2>1. Quiet
    BY <1>1 DEF HarnessInv, Alive, Quiet
  <2>2. QED
    BY <1>2, <2>1, QuietKept
<1>4. current \in begun
  BY <1>1, ActiveCurrent DEF HarnessInv, Records
<1>5. Placed'
  BY <1>1, <1>4 DEF Placed, AtStep, vars, run, world
<1>6. QED
  BY <1>1, <1>2, <1>3, <1>5, MoveSound DEF HarnessInv, HarnessTypes, Places, told, files, world

\* A ready activation has nothing living: it was never begun.
LEMMA AdmitSound == HarnessInv /\ Admit => HarnessInv'
<1> SUFFICES ASSUME HarnessInv, Admit PROVE HarnessInv'
  OBVIOUS
<1>1. /\ drive = "loop" /\ drive' = "admitted" /\ status = "active"
      /\ activations[current].status = "ready"
      /\ UNCHANGED <<vars, told, operator, name, held, files, world>>
  BY DEF Admit, Uncancelled, Go
<1>2. Ebb
  BY <1>1, EbbOfNothing DEF HarnessInv, world
<1>3. Quiet'
  <2>1. current \notin begun
    BY <1>1 DEF HarnessInv, Records
  <2>2. Quiet
    BY <1>1, <2>1 DEF HarnessInv, Alive, Records, Quiet, Living
  <2>3. QED
    BY <1>2, <2>2, QuietKept
<1>4. Placed'
  BY <1>1 DEF Placed, AtStep, vars, run
<1>5. QED
  BY <1>1, <1>2, <1>3, <1>4, MoveSound DEF HarnessInv, HarnessTypes, Places, told, files, world

LEMMA VerifySound == HarnessInv /\ Verify => HarnessInv'
<1> SUFFICES ASSUME HarnessInv, Verify PROVE HarnessInv'
  OBVIOUS
<1>1. /\ drive = "answered" /\ drive' = "launch" /\ name = "actor" /\ name' = "verify"
      /\ UNCHANGED <<vars, told, operator, held, files, world>>
  BY DEF Verify, Go
<1>2. Ebb
  BY <1>1, EbbOfNothing DEF HarnessInv, world
<1>3. Quiet'
  <2>1. Quiet
    BY <1>1 DEF HarnessInv, Alive, Quiet, Apart
  <2>2. QED
    BY <1>2, <2>1, QuietKept
<1>4. /\ status = "active" /\ activations[current].status = "running" /\ current \in begun
      /\ envelope[current] = NoAnswer /\ proc[<<current, "verify">>].launches = 0
  BY <1>1 DEF HarnessInv, Placed, AtStep
<1>5. step' = <<current, "verify">>
  BY <1>1 DEF step, vars, run
<1>6. Placed'
  BY <1>1, <1>4, <1>5 DEF Placed, AtStep, vars, run, files, world
<1>7. QED
  BY <1>1, <1>2, <1>3, <1>6, MoveSound
     DEF HarnessInv, HarnessTypes, Places, Names, told, files, world

LEMMA WriteEnvelopeSound == HarnessInv /\ WriteEnvelope => HarnessInv'
<1> SUFFICES ASSUME HarnessInv, WriteEnvelope PROVE HarnessInv'
  OBVIOUS
<1>1. /\ drive = "answered" /\ drive' = "deliver" /\ held' = NoAnswer /\ name' = "actor"
      /\ envelope' = [envelope EXCEPT ![current] = held]
      /\ UNCHANGED <<vars, told, operator, world>>
  BY DEF WriteEnvelope, Go
<1>2. Ebb
  BY <1>1, EbbOfNothing DEF HarnessInv, world
<1>3. Quiet'
  <2>1. Quiet
    BY <1>1 DEF HarnessInv, Alive, Quiet, Apart
  <2>2. QED
    BY <1>2, <2>1, QuietKept
<1>4. /\ status = "active" /\ activations[current].status = "running" /\ current \in begun
      /\ current \in Numbers
  BY <1>1, AtStepIsNamed DEF AtStep
<1>5. HarnessTypes'
  BY <1>1, <1>2, <1>4, NoAnswerTyped
     DEF HarnessInv, HarnessTypes, Ebb, Places, Names, world
<1>6. Records'
  BY <1>1, <1>4 DEF HarnessInv, HarnessTypes, Records, world, vars, run
<1>7. Placed'
  BY <1>1, <1>4 DEF Placed, AtStep, vars, run, world
<1>8. QED
  BY <1>1, <1>2, <1>3, <1>5, <1>6, <1>7, MoveSound DEF HarnessTypes, told, world

\* A step that ends takes its group with it: the next begins with nothing alive.
LEMMA StepEndsSound ==
  HarnessInv /\ (NotStarted \/ ActorAnswers \/ CheckEnds) => HarnessInv'
<1> SUFFICES ASSUME HarnessInv, NotStarted \/ ActorAnswers \/ CheckEnds PROVE HarnessInv'
  OBVIOUS
<1>1. /\ drive \in {"spawning", "recording", "working"} /\ drive' = "answered"
      /\ proc' = StopGroup
      /\ UNCHANGED <<vars, told, operator, name, files, begun>>
      /\ held' = held \/ held' \in Answers
  BY DEF NotStarted, ActorAnswers, CheckEnds, Go
<1>2. /\ step \in Steps /\ current \in begun /\ status = "active"
      /\ activations[current].status = "running" /\ <<current, "verify">> \in Steps
      /\ envelope[current] = NoAnswer
      /\ name = "actor" => proc[<<current, "verify">>].launches = 0
  BY <1>1, AtStepIsNamed DEF AtStep, HarnessInv, Placed
<1>3. Ebb /\ proc'[step].group \in {"none", "gone"}
  BY <1>1, <1>2, StopGroupEbbs DEF HarnessInv
<1>4. Quiet'
  <2> SUFFICES ASSUME NEW s \in Steps, Living(s)' PROVE FALSE
    BY DEF Quiet
  <2>1. Living(s)
    BY <1>3 DEF Ebb
  <2>2. s = step
    BY <1>1, <2>1 DEF HarnessInv, Alive, Apart
  <2>3. QED
    BY <1>3, <2>2 DEF Living
<1>5. Len(receipts) \in Nat
  BY DEF HarnessInv, Kernel, Core, TypeOK
<1>6. held' \in AnswerRecord
  BY <1>1, <1>5 DEF HarnessInv, HarnessTypes, Answers, AnswerRecord
<1>7. Placed'
  BY <1>1, <1>2, <1>3 DEF Placed, AtStep, Ebb, vars, run, files
<1>8. QED
  BY <1>1, <1>3, <1>4, <1>6, <1>7, MoveSound
     DEF HarnessInv, HarnessTypes, Places, told, files

LEMMA OpenStepSound == HarnessInv /\ OpenStep => HarnessInv'
<1> SUFFICES ASSUME HarnessInv, OpenStep PROVE HarnessInv'
  OBVIOUS
<1>1. /\ drive = "launch" /\ proc' = [proc EXCEPT ![step].opened = TRUE]
      /\ UNCHANGED <<name, held, files, begun>>
  BY DEF OpenStep
<1>2. /\ step \in Steps /\ current \in begun /\ status = "active"
      /\ activations[current].status = "running" /\ <<current, "verify">> \in Steps
      /\ envelope[current] = NoAnswer /\ proc[step].launches = 0
      /\ name = "actor" => proc[<<current, "verify">>].launches = 0
  BY <1>1, AtStepIsNamed DEF AtStep, HarnessInv, Placed
<1>3. Ebb /\ proc'[step].opened
  BY <1>1, <1>2, OpeningEbbs DEF HarnessInv
<1>4. CASE cancelRequested
  <2>1. StopCancelled("interrupted") /\ UNCHANGED operator
    BY <1>4 DEF OpenStep, Rest
  <2>2. QED
    BY <1>1, <1>3, <2>1, StopSound
<1>5. CASE ~cancelRequested
  <2>1. drive' = "spawning" /\ UNCHANGED <<vars, told, operator>>
    BY <1>5 DEF OpenStep, Go
  <2>2. Quiet'
    <3>1. Quiet
      BY <1>1 DEF HarnessInv, Alive, Quiet, Apart
    <3>2. QED
      BY <1>3, <3>1, QuietKept
  <2>3. step' = step
    BY <1>1, <2>1 DEF step, vars, run
  <2>4. Placed'
    BY <1>1, <1>2, <1>3, <2>1, <2>3 DEF Placed, AtStep, Ebb, vars, run, files
  <2>5. QED
    BY <1>1, <1>3, <2>1, <2>2, <2>4, MoveSound
       DEF HarnessInv, HarnessTypes, Places, told, files
<1>6. QED
  BY <1>4, <1>5

LEMMA StartSound == HarnessInv /\ Start => HarnessInv'
<1> SUFFICES ASSUME HarnessInv, Start PROVE HarnessInv'
  OBVIOUS
<1>1. /\ drive = "admitted" /\ BeginActivation(current, version)
      /\ begun' = begun \cup {current} /\ drive' = "launch" /\ name' = "actor"
      /\ UNCHANGED <<held, envelope, proc, operator, reason>>
  BY DEF Start, files, told
<1>2. /\ Kernel' /\ NoneReadied /\ UNCHANGED <<status, current>>
      /\ activations'[current].status = "running"
  BY <1>1, BeginKernel DEF HarnessInv
<1>3. /\ status = "active" /\ activations[current].status = "ready"
      /\ current \in DOMAIN activations /\ current \in Numbers
      /\ <<current, "actor">> \in Steps /\ <<current, "verify">> \in Steps
  BY <1>1, ActiveCurrent DEF HarnessInv, Placed
<1>4. current \notin begun
  BY <1>3 DEF HarnessInv, Records
<1>5. Ebb
  BY <1>1, EbbOfNothing DEF HarnessInv
<1>6. Quiet' /\ Alive'
  <2>1. Quiet
    BY <1>1 DEF HarnessInv, Alive, Quiet, Apart
  <2>2. QED
    BY <1>5, <2>1, AliveQuiet
<1>7. HarnessTypes'
  BY <1>1, <1>3 DEF HarnessInv, HarnessTypes, Places, Names
<1>8. Records'
  <2>1. \A a \in begun' : a \in DOMAIN activations' /\ activations'[a].status # "ready"
    BY <1>1, <1>2, <1>3 DEF HarnessInv, Records, NoneReadied
  <2>2. QED
    BY <1>1, <2>1 DEF HarnessInv, Records
<1>9. Placed'
  <2>1. step' = <<current, "actor">>
    BY <1>1, <1>2 DEF step
  <2>2. /\ proc[<<current, "actor">>].launches = 0 /\ proc[<<current, "verify">>].launches = 0
        /\ envelope[current] = NoAnswer
    BY <1>3, <1>4 DEF HarnessInv, Records
  <2>3. QED
    BY <1>1, <1>2, <1>3, <2>1, <2>2 DEF Placed, AtStep
<1>10. Told'
  BY <1>1, <1>2, <1>3, <1>6 DEF HarnessInv, Told
<1>11. QED
  BY <1>2, <1>6, <1>7, <1>8, <1>9, <1>10 DEF HarnessInv

\* The one launch of a step, and the record of its owner.
LEMMA LaunchSound == HarnessInv /\ (Spawn \/ SaveOwner) => HarnessInv'
<1> SUFFICES ASSUME HarnessInv, Spawn \/ SaveOwner PROVE HarnessInv'
  OBVIOUS
<1>1. /\ drive \in {"spawning", "recording"} /\ drive' \in {"recording", "working"}
      /\ UNCHANGED <<vars, told, operator, name, held, files, begun>>
  BY DEF Spawn, SaveOwner, Go
<1>2. /\ step \in Steps /\ current \in begun /\ status = "active"
      /\ activations[current].status = "running" /\ <<current, "verify">> \in Steps
      /\ envelope[current] = NoAnswer /\ proc[step] \in ProcRecord
      /\ name = "actor" => proc[<<current, "verify">>].launches = 0
  BY <1>1, AtStepIsNamed DEF AtStep, HarnessInv, Placed
<1> PICK new : new = IF drive = "spawning"
                     THEN [proc[step] EXCEPT !.group = "live", !.launches = @ + 1]
                     ELSE [proc[step] EXCEPT !.recorded = TRUE]
  OBVIOUS
<1>3. proc \in [Steps -> ProcRecord]
  BY DEF HarnessInv, HarnessTypes
<1>4. proc' = [proc EXCEPT ![step] = new]
  BY <1>1, <1>2, <1>3 DEF Spawn, SaveOwner
<1>5. /\ new \in ProcRecord
      /\ drive = "spawning" => new.launches = 1 /\ new.group = "live" /\ new.opened
      /\ drive = "recording" => /\ new.launches = proc[step].launches /\ new.opened = proc[step].opened
                                /\ new.group = proc[step].group
  <2>1. CASE drive = "spawning"
    <3>1. proc[step].launches = 0 /\ proc[step].opened
      BY <2>1 DEF HarnessInv, Placed
    <3>2. new = [proc[step] EXCEPT !.group = "live", !.launches = 1]
      BY <2>1, <3>1
    <3>3. /\ new \in ProcRecord /\ new.group = "live" /\ new.launches = 1
          /\ new.opened = proc[step].opened
      BY <1>2, <3>2 DEF ProcRecord, Groups
    <3>4. QED
      BY <2>1, <3>1, <3>3
  <2>2. CASE drive = "recording"
    BY <1>2, <2>2 DEF ProcRecord
  <2>3. QED
    BY <1>1, <2>1, <2>2
<1>6. /\ proc' \in [Steps -> ProcRecord] /\ proc'[step] = new
      /\ \A s \in Steps : s # step => proc'[s] = proc[s]
  BY <1>2, <1>3, <1>4, <1>5
<1>7. Kernel' /\ NoneReadied /\ UNCHANGED <<status, current, activations>>
  BY <1>1, RestKernel DEF HarnessInv
<1>8. step' = step /\ UNCHANGED <<envelope, reason>>
  BY <1>1, <1>7 DEF step, files, told
<1>9. HarnessTypes'
  BY <1>1, <1>6, <1>8 DEF HarnessInv, HarnessTypes, Places
<1>10. Records'
  <2>1. \A s \in Steps :
          /\ s[1] \notin begun' => proc'[s].launches = 0
          /\ proc'[s].launches = 0 => proc'[s].group = "none"
          /\ proc'[s].launches # 0 => proc'[s].opened
    <3> SUFFICES ASSUME NEW s \in Steps
                 PROVE  /\ s[1] \notin begun => proc'[s].launches = 0
                        /\ proc'[s].launches = 0 => proc'[s].group = "none"
                        /\ proc'[s].launches # 0 => proc'[s].opened
      BY <1>1
    <3>1. CASE s # step
      BY <1>6, <3>1 DEF HarnessInv, Records
    <3>2. CASE s = step
      <4>1. s[1] \in begun
        BY <1>2, <3>2 DEF step
      <4>2. proc'[s] = new
        BY <1>6, <3>2
      <4>3. CASE drive = "spawning"
        BY <1>5, <4>1, <4>2, <4>3
      <4>4. CASE drive = "recording"
        BY <1>2, <1>5, <3>2, <4>1, <4>2, <4>4 DEF HarnessInv, Records
      <4>5. QED
        BY <1>1, <4>3, <4>4
    <3>3. QED
      BY <3>1, <3>2
  <2>2. QED
    BY <1>1, <1>7, <1>8, <2>1 DEF HarnessInv, Records
<1>11. Placed'
  <2>1. name = "actor" => step # <<current, "verify">>
    BY DEF step
  <2>2. QED
    BY <1>1, <1>2, <1>6, <1>7, <1>8, <2>1 DEF Placed, AtStep
<1>12. Alive'
  <2>1. \A s \in Steps : Living(s)' => s = step
    <3>1. \A s \in Steps : Living(s) => s = step
      BY <1>1 DEF HarnessInv, Alive, Apart
    <3>2. QED
      BY <1>6, <3>1 DEF Living
  <2>2. QED
    BY <1>1, <1>2, <1>7, <1>8, <2>1 DEF Alive, step
<1>13. Told'
  BY <1>1, <1>2, <1>7, <1>8 DEF HarnessInv, Told, Holding
<1>14. QED
  BY <1>7, <1>9, <1>10, <1>11, <1>12, <1>13 DEF HarnessInv

LEMMA DeliverSound == HarnessInv /\ Deliver => HarnessInv'
<1> SUFFICES ASSUME HarnessInv, Deliver PROVE HarnessInv'
  OBVIOUS
<1>1. drive = "deliver" /\ UNCHANGED <<name, held, files, world, operator>>
  BY DEF Deliver, Rest, FailRefused
<1>2. Ebb
  BY <1>1, EbbOfNothing DEF HarnessInv, world
<1>3. CASE StopCancelled("interrupted") \/ StopFailed("refused")
  BY <1>1, <1>2, <1>3, StopSound DEF world
<1>4. CASE /\ Delivered(envelope[current].result, envelope[current].session)
           /\ drive' = "loop" /\ UNCHANGED reason
  <2>1. status = "active" /\ current \in Numbers /\ envelope[current] \in AnswerRecord
    BY <1>1, ActiveCurrent DEF HarnessInv, Placed, HarnessTypes
  <2>2. PICK r \in ResultRecord, s \in Nat : SubmitResult(current, version, r, s)
    BY <1>4, <2>1 DEF Delivered, AnswerRecord
  <2>3. Kernel' /\ NoneReadied
    BY <2>2, SubmitKernel DEF HarnessInv
  <2>4. Quiet
    BY <1>1 DEF HarnessInv, Alive, Quiet, Apart
  <2>5. Quiet' /\ Alive'
    BY <1>2, <2>4, AliveQuiet
  <2>6. HarnessTypes'
    BY <1>1, <1>4 DEF HarnessInv, HarnessTypes, Places, files, world
  <2>7. Records' /\ Placed'
    BY <1>1, <1>2, <1>4, <2>3, RecordsKept, PlacedApart DEF HarnessInv, files, world, Apart
  <2>8. Told'
    BY <1>1, <1>4, <2>1, <2>5 DEF HarnessInv, Told
  <2>9. QED
    BY <2>3, <2>5, <2>6, <2>7, <2>8 DEF HarnessInv
<1>5. QED
  BY <1>3, <1>4 DEF Deliver, FailRefused

-----------------------------------------------------------------------------
\* The operator, and the world.

\* While the driver stands still its place says the same of the run.
LEMMA StandsStill ==
  ASSUME HarnessInv, Ebb, UNCHANGED <<driver, envelope, begun, status, current, activations>>
  PROVE  HarnessTypes' /\ Placed' /\ Alive'
<1>1. UNCHANGED <<drive, name, held>> /\ step' = step
  BY DEF driver, step
<1>2. HarnessTypes'
  BY <1>1 DEF HarnessInv, HarnessTypes, Ebb
<1>3. Placed'
  <2>1. drive \in AtStep => step \in Steps /\ <<current, "verify">> \in Steps
    BY AtStepIsNamed
  <2>2. QED
    BY <1>1, <2>1 DEF HarnessInv, Placed, Ebb, AtStep
<1>4. Alive'
  BY <1>1 DEF HarnessInv, Alive, Ebb, Living
<1>5. QED
  BY <1>2, <1>3, <1>4

LEMMA AskSound == HarnessInv /\ (Ask \/ Request \/ TakeLock) => HarnessInv'
<1> SUFFICES ASSUME HarnessInv, Ask \/ Request \/ TakeLock PROVE HarnessInv'
  OBVIOUS
<1>1. /\ UNCHANGED <<vars, driver, world, envelope, reason>>
      /\ operator' \in Holding => operator' = "holding" /\ drive = "out"
  BY DEF Ask, Request, TakeLock, At, files, told, Holding
<1>2. Kernel' /\ NoneReadied /\ UNCHANGED <<status, current, activations>>
  BY <1>1, RestKernel DEF HarnessInv
<1>3. Ebb
  BY <1>1, EbbOfNothing DEF HarnessInv, world
<1>4. HarnessTypes' /\ Placed' /\ Alive'
  BY <1>1, <1>2, <1>3, StandsStill DEF world
<1>5. Records'
  BY <1>1, <1>2, <1>3, RecordsKept DEF HarnessInv, world
<1>6. Told'
  BY <1>1, <1>2, <1>3, QuietKept DEF HarnessInv, Told, Holding, driver
<1>7. QED
  BY <1>2, <1>4, <1>5, <1>6 DEF HarnessInv

LEMMA SweepSound == HarnessInv /\ Sweep => HarnessInv'
<1> SUFFICES ASSUME HarnessInv, Sweep PROVE HarnessInv'
  OBVIOUS
<1>1. /\ operator = "holding" /\ Terminate /\ UNCHANGED <<vars, driver, envelope, begun, reason>>
  BY DEF Sweep, files, told
<1>2. Kernel' /\ NoneReadied /\ UNCHANGED <<status, current, activations>>
  BY <1>1, RestKernel DEF HarnessInv
<1>3. Ebb
  BY <1>1, TerminateEbbs DEF HarnessInv
<1>4. HarnessTypes' /\ Placed' /\ Alive'
  BY <1>1, <1>2, <1>3, StandsStill
<1>5. Records'
  BY <1>1, <1>2, <1>3, RecordsKept DEF HarnessInv
<1>6. operator' = "sure" => Quiet'
  <2>1. PICK sure \in Reports' : operator' = IF sure THEN "sure" ELSE "unsure"
    BY DEF Sweep
  <2>2. QED
    BY <1>4, <1>5, <2>1, ConfirmedIsQuiet DEF Reports
<1>7. Told'
  BY <1>1, <1>2, <1>3, <1>6, QuietKept DEF HarnessInv, Told, Holding, driver
<1>8. QED
  BY <1>2, <1>4, <1>5, <1>7 DEF HarnessInv

LEMMA ConcludeSound == HarnessInv /\ Conclude => HarnessInv'
<1> SUFFICES ASSUME HarnessInv, Conclude PROVE HarnessInv'
  OBVIOUS
<1>1. /\ operator \in Holding /\ operator' = "idle" /\ UNCHANGED <<driver, world, files>>
      /\ \/ operator = "sure" /\ CancelRun /\ reason' = "confirmed"
         \/ UNCHANGED <<vars, reason>>
  BY DEF Conclude, At, Holding
<1>2. drive = "out" /\ drive' = "out" /\ name' = name /\ held' = held
  BY <1>1 DEF HarnessInv, Told, driver
<1>3. Ebb
  BY <1>1, EbbOfNothing DEF HarnessInv, world
<1>4. CASE operator = "sure" /\ CancelRun /\ reason' = "confirmed"
  <2>1. Kernel' /\ NoneReadied /\ status' # "active"
    BY <1>4, FailKernel DEF HarnessInv, CancelRun
  <2>2. Quiet'
    BY <1>3, <1>4, QuietKept DEF HarnessInv, Told
  <2>3. QED
    BY <1>1, <1>2, <1>3, <2>1, <2>2, RetreatSound
       DEF HarnessInv, HarnessTypes, Apart, Holding, files, world
<1>5. CASE UNCHANGED <<vars, reason>>
  <2>1. Kernel' /\ NoneReadied /\ UNCHANGED <<status, current>>
    BY <1>5, RestKernel DEF HarnessInv
  <2>2. QED
    BY <1>1, <1>2, <1>3, <1>5, <2>1, RetreatSound
       DEF HarnessInv, HarnessTypes, Apart, Holding, files, world
<1>6. QED
  BY <1>1, <1>4, <1>5

LEMMA BesideSound ==
  HarnessInv /\ (Pause \/ Resume \/ GroupEnds \/ UNCHANGED hvars) => HarnessInv'
<1> SUFFICES ASSUME HarnessInv, Pause \/ Resume \/ GroupEnds \/ UNCHANGED hvars
             PROVE  HarnessInv'
  OBVIOUS
<1>1. UNCHANGED <<vars, driver, envelope, begun, operator, reason>>
  BY DEF Pause, Resume, GroupEnds, hvars, files, world, told
<1>2. Ebb
  <2>1. CASE GroupEnds
    <3>1. PICK s \in Steps, fate \in {"members", "gone"} :
            Living(s) /\ proc' = [proc EXCEPT ![s].group = fate]
      BY <2>1 DEF GroupEnds
    <3>2. QED
      BY <3>1, EndingEbbs DEF HarnessInv
  <2>2. CASE Pause \/ Resume \/ UNCHANGED hvars
    <3>1. proc' = proc
      BY <2>2 DEF Pause, Resume, hvars, world
    <3>2. QED
      BY <3>1, EbbOfNothing DEF HarnessInv
  <2>3. QED
    BY <2>1, <2>2
<1>3. UNCHANGED <<status, current, activations>>
  BY <1>1 DEF vars, run
<1>4. HarnessTypes' /\ Placed' /\ Alive'
  BY <1>1, <1>2, <1>3, StandsStill
<1>5. QED
  BY <1>1, <1>2, <1>4, RestSound DEF driver

LEMMA HarnessNextSound == HarnessInv /\ [HarnessNext]_hvars => HarnessInv'
BY StoppedSound, CancelFoundSound, AbandonSound, RecoverSound, AdmitSound, FailuresSound,
   StartSound, OpenStepSound, LaunchSound, StepEndsSound, VerifySound, WriteEnvelopeSound,
   DeliverSound, ForgettingSound, DriveSound, AskSound, SweepSound, ConcludeSound, BesideSound
   DEF HarnessNext, DriverStep

LEMMA HarnessInitSound == HarnessInit => HarnessInv
<1> SUFFICES ASSUME HarnessInit PROVE HarnessInv
  OBVIOUS
<1>1. /\ Init /\ drive = "out" /\ name = "actor" /\ held = NoAnswer
      /\ envelope = [a \in Numbers |-> NoAnswer] /\ begun = {}
      /\ proc = [s \in Steps |-> [group |-> "none", opened |-> FALSE,
                                  recorded |-> FALSE, launches |-> 0]]
      /\ operator = "idle" /\ reason = "none"
  BY DEF HarnessInit
<1>2. Kernel
  BY <1>1, InitCore, InitAccounted DEF Kernel
<1>3. proc \in [Steps -> ProcRecord]
  <2>1. [group |-> "none", opened |-> FALSE, recorded |-> FALSE, launches |-> 0] \in ProcRecord
    BY DEF ProcRecord, Groups
  <2>2. QED
    BY <1>1, <2>1
<1>4. HarnessTypes
  BY <1>1, <1>3, NoAnswerTyped DEF HarnessTypes, Places, Names
<1>5. Quiet
  BY <1>1 DEF Quiet, Living
<1>6. Records
  BY <1>1 DEF Records
<1>7. Placed
  BY <1>1 DEF Placed, AtStep
<1>8. Alive /\ Told
  BY <1>1, <1>5 DEF Alive, Told, Quiet, Holding
<1>9. QED
  BY <1>2, <1>4, <1>6, <1>7, <1>8 DEF HarnessInv

LEMMA HarnessStaysSound == HarnessSpec => []HarnessInv
BY HarnessInitSound, HarnessNextSound, PTL DEF HarnessSpec

\* Effects are never replayed: whatever the roles answer, whenever the driver,
\* the operator or the host dies and however often the run is reopened, no
\* actor and no verification of an activation is launched a second time.
THEOREM NeverReplayed == HarnessSpec => []NothingReplayed
<1>1. HarnessInv => NothingReplayed
  BY DEF HarnessInv, HarnessTypes, ProcRecord, NothingReplayed
<1>2. QED
  BY <1>1, HarnessStaysSound, PTL

\* The run never has two process groups, its only one belongs to the running
\* activation while the run is active, and a cleanup that was reported as
\* confirmed has left none.
THEOREM CleanupStaysTrue == HarnessSpec => []CleanupIsTrue
<1>1. HarnessInv => CleanupIsTrue
  <2> SUFFICES ASSUME HarnessInv PROVE OneGroupLives /\ ConfirmedMeansGone
    BY DEF CleanupIsTrue
  <2>1. ConfirmedMeansGone
    BY DEF HarnessInv, Told, Quiet, ConfirmedMeansGone
  <2>2. ASSUME NEW s \in Steps, Living(s), status = "active"
        PROVE  s[1] = current /\ activations[current].status = "running"
    <3>1. s[1] = current /\ s[1] \in begun
      BY <2>2 DEF HarnessInv, Alive, Records, Living
    <3>2. activations[current].status \in Open /\ activations[current].status # "ready"
      BY <2>2, <3>1, CurrentIsOpen DEF HarnessInv, Kernel, Records
    <3>3. QED
      BY <3>1, <3>2 DEF Open
  <2>3. OneGroupLives
    BY <2>2 DEF HarnessInv, Alive, OneGroupLives
  <2>4. QED
    BY <2>1, <2>3
<1>2. QED
  BY <1>1, HarnessStaysSound, PTL

-----------------------------------------------------------------------------
\* The harness over the kernel.

\* Whatever a drive, an operator or a crash does, it does to the kernel one of
\* its operations, or nothing.
LEMMA HarnessOperates == HarnessInv /\ [HarnessNext]_hvars => [Operate]_vars
<1> SUFFICES ASSUME HarnessInv, [HarnessNext]_hvars, vars' # vars PROVE Operate
  OBVIOUS
<1>1. \/ BeginActivation(current, version)
      \/ RuntimeFailed(current, version) \/ CancelRun
      \/ drive = "deliver" /\ Delivered(envelope[current].result, envelope[current].session)
  BY DEF HarnessNext, DriverStep, Drive, Stopped, CancelFound, Abandon, Recover, Hold, Admit,
         RefuseParticipant, Start, StepFails, OpenStep, Spawn, SaveOwner, NotStarted,
         ActorAnswers, CheckEnds, CancelPolled, Verify, WriteEnvelope, Deliver, FailRefused,
         Leave, Interrupt, Ask, Request, TakeLock, Sweep, Conclude, Pause, Resume, GroupEnds,
         Crash, Reboot, StopFailed, StopCancelled, Go, hvars
<1>2. CASE drive = "deliver" /\ Delivered(envelope[current].result, envelope[current].session)
  <2>1. envelope[current] \in AnswerRecord
    BY <1>2, ActiveCurrent DEF HarnessInv, Placed, HarnessTypes
  <2>2. QED
    BY <1>2, <2>1 DEF Delivered, AnswerRecord, Operate, Submits
<1>3. QED
  BY <1>1, <1>2 DEF RuntimeFailed, CancelRun, Current, Operate, Begins, Stops

LEMMA HarnessServes == HarnessSpec => Serve
BY HarnessStaysSound, HarnessOperates, PTL DEF HarnessSpec, HarnessInit, Serve

\* The harness delivers files anybody may have written and stops the run from
\* several places, yet every property of the kernel holds under it.
THEOREM HarnessKeepsKernel ==
  HarnessSpec => [](/\ TypeOK /\ SerialReservation /\ CoherentBasis /\ WithinBudget
                    /\ AcceptedWorkWasReviewed /\ ResultsAppliedOnce)
BY HarnessServes, ServesCore, ServesSerial, ServesLineage, LineIsCoherent, ServesReviewed,
   LineIsReviewed, ServesReceipted, ReceiptedIsOnce, ServesAccounted, AccountedWithin, PTL DEF Core

\* Seen from outside, a driven run keeps the promise of a run.
THEOREM HarnessKeepsPromise == HarnessSpec => KeepsPromise
BY HarnessServes, ServesPromise
=============================================================================
