---------------------------- MODULE ServicesProofs ----------------------------
(***************************************************************************)
(* Theorems of the services that stand by themselves: the release manager, *)
(* for every set of releases and of broker sessions and every number of    *)
(* operations, and planned delegation, for every plan and number of turns. *)
(***************************************************************************)
EXTENDS Delegation, Release, Review, Attestation, Reviewed, WellFoundedInduction, TLAPS

USE ReleaseAssumption

-----------------------------------------------------------------------------
\* The types of the home, the brokers and the operation in progress.

Targets == Releases \union {"legacy", "none"}
Contents == [pointer : Targets, wrapper : {"absent", "old", "managed", "torn"},
             installed : [Releases -> {"absent", "partial", "whole"}]]
LiveBrokers == [state : {"owned"}, release : Releases, run : Nat]
BrokerStates == [state : {"none", "ended", "unconfirmed"}] \union LiveBrokers
Plans == {<<>>} \union UNION {[S -> BrokerStates] : S \in SUBSET BrokerSessions}

Opening == {"locking", "checking"}
Unswitched == {"rechecking", "opening", "wrapping", "linking", "replacing"}
BeforeSwitch == Opening \union {"extracting", "building"} \union Unswitched
AfterSwitch == {"reporting", "reported"}
Stages == BeforeSwitch \union AfterSwitch \union {"failing", "removing"}

Operations ==
  [stage : Stages, kind : {"install", "rollback"}, mode : Modes,
   release : Releases \union {"legacy"}, declared : SUBSET Releases,
   listed : SUBSET BrokerSessions, held : SUBSET BrokerSessions, plan : Plans,
   previous : Targets, rewriting : BOOLEAN, was : Contents]

TypeOK ==
  /\ Content \in Contents
  /\ nextPointer \in Targets
  /\ report \in {"none", "written", "torn"}
  /\ adopted \in BOOLEAN
  /\ brokers \in [BrokerSessions -> BrokerStates]
  /\ starts \in Nat
  /\ operation \in Operations \union {NoOperation}
  /\ ended \in [count : Nat, outcome : {"done", "failed", "died"}, was : Contents,
                release : Releases \union {"legacy", "none"}]

-----------------------------------------------------------------------------
\* What an operation has changed of the home, stage by stage.

\* The home it began on was sound, and an installation's release was absent.
BegunSound(o) ==
  /\ o.previous = o.was.pointer
  /\ o.was.pointer \in Releases => o.was.installed[o.was.pointer] = "whole"
  /\ o.was.pointer = "legacy" => adopted
  /\ o.kind = "install" =>
       /\ o.release \in Releases
       /\ o.stage \notin Opening => o.was.installed[o.release] = "absent"

\* Only its own release and, once it rewrites it, the wrapper differ.
Footprint(o) ==
  /\ \A r \in Releases : installed[r] # o.was.installed[r] => o.kind = "install" /\ r = o.release
  /\ ~o.rewriting => wrapper = o.was.wrapper
  /\ o.rewriting => o.kind = "install"
  /\ o.rewriting /\ o.stage \notin {"wrapping", "failing", "removing"} => wrapper = "managed"

Reached(o) ==
  /\ o.stage \in BeforeSwitch => pointer = o.was.pointer
  /\ o.stage \in BeforeSwitch \union {"reporting"} => report # "torn"
  /\ o.stage \in Opening => installed = o.was.installed /\ ~o.rewriting
  /\ o.stage = "extracting" => installed = o.was.installed
  /\ o.stage \in {"extracting", "building", "opening", "wrapping"} => o.kind = "install"
  /\ o.stage \in Unswitched \union AfterSwitch => CanSelect(o)
  /\ o.stage = "wrapping" => o.rewriting
  /\ o.stage = "replacing" => nextPointer = o.release
  /\ o.stage \in AfterSwitch => pointer = o.release
  /\ o.stage = "reported" => o.mode # "live"

\* What a failure finds: the switch undone or complete, the report readable
\* wherever the cleanup is still to come.
Failing(o) ==
  /\ o.stage = "failing" =>
       /\ pointer \in {o.was.pointer, o.release}
       /\ report = "torn" => pointer = o.release /\ o.mode # "live"
       /\ pointer = o.release /\ o.rewriting => wrapper = "managed"
       /\ pointer = o.release => CanSelect(o)
  /\ o.stage = "removing" =>
       /\ pointer = o.was.pointer /\ o.kind = "install"
       /\ wrapper = o.was.wrapper

InOperation ==
  ~Stage("idle") =>
    /\ BegunSound(operation) /\ Footprint(operation)
    /\ Reached(operation) /\ Failing(operation)

HomeInv == TypeOK /\ HomeIsSound /\ InOperation

\* The brokers an operation tolerates at its switch.
Tolerated ==
  ~Stage("idle") /\ operation.stage \in BeforeSwitch =>
    IF operation.mode = "live"
      THEN pointer \in operation.declared /\ AllDeclared(operation.declared)
      ELSE operation.stage # "locking" =>
             /\ operation.held = operation.listed \ DOMAIN operation.plan
             /\ operation.held \intersect RunningSessions = {}

SwitchInv == HomeInv /\ Tolerated

-----------------------------------------------------------------------------
\* Lemmas about the operators of the module.

\* A step of the operation changes its stage and keeps every other field.
LEMMA ProceedKeeps ==
  ASSUME operation \in Operations, NEW stage \in Stages, Proceed(stage)
  PROVE  /\ operation' \in Operations /\ operation'.stage = stage
         /\ operation'.kind = operation.kind /\ operation'.mode = operation.mode
         /\ operation'.release = operation.release /\ operation'.declared = operation.declared
         /\ operation'.listed = operation.listed /\ operation'.held = operation.held
         /\ operation'.plan = operation.plan /\ operation'.previous = operation.previous
         /\ operation'.rewriting = operation.rewriting /\ operation'.was = operation.was
BY DEF Proceed, Operations

\* An operation past idleness is a record of an operation.
LEMMA Begun ==
  ASSUME TypeOK, ~Stage("idle")
  PROVE  operation \in Operations
BY DEF TypeOK, Stage, NoOperation

\* What is idle is no operation.
LEMMA IdleIsNone ==
  ASSUME TypeOK
  PROVE  Stage("idle") <=> operation = NoOperation
BY DEF TypeOK, Stage, NoOperation, Operations, Stages, BeforeSwitch, AfterSwitch, Opening,
       Unswitched

LEMMA ConcludeType ==
  ASSUME TypeOK, ~Stage("idle"), NEW result \in {"done", "failed", "died"}, Conclude(result)
  PROVE  /\ operation' = NoOperation /\ operation'.stage = "idle"
         /\ ended' \in [count : Nat, outcome : {"done", "failed", "died"}, was : Contents,
                        release : Releases \union {"legacy", "none"}]
         /\ ended'.outcome = result /\ ended'.was = operation.was
         /\ ended'.release = operation.release
<1>1. operation \in Operations
  BY Begun
<1>2. QED
  BY <1>1 DEF Conclude, TypeOK, NoOperation, Operations

\* The content of a home is what its three parts are.
LEMMA ContentEquals ==
  ASSUME Content \in Contents, NEW c \in Contents, pointer = c.pointer, wrapper = c.wrapper,
         \A r \in Releases : installed[r] = c.installed[r]
  PROVE  Content = c
<1>1. installed \in [Releases -> {"absent", "partial", "whole"}]
  BY DEF Content, Contents
<1>2. installed = c.installed
  BY <1>1 DEF Contents
<1>3. QED
  BY <1>2 DEF Content, Contents

-----------------------------------------------------------------------------
\* Each step preserves the invariant of the home.

\* The parts of the invariant an operation in progress gives its next step.
LEMMA HomeFacts ==
  ASSUME HomeInv, ~Stage("idle")
  PROVE  /\ operation \in Operations /\ BegunSound(operation) /\ Footprint(operation)
         /\ Reached(operation) /\ Failing(operation) /\ CurrentIsWhole
         /\ operation.was \in Contents
BY Begun DEF HomeInv, InOperation, HomeIsSound, Operations

LEMMA BeginHome ==
  ASSUME HomeInv, NEW kind \in {"install", "rollback"}, NEW mode \in Modes,
         NEW declared \in SUBSET Releases, NEW release \in Releases \union {"legacy"},
         kind = "install" => release \in Releases,
         BeginOperation(kind, mode, release, declared)
  PROVE  HomeInv'
<1> DEFINE lines == IF declared = {} THEN <<>> ELSE Plan
<1>1. lines \in Plans
  <2>1. RunningSessions \in SUBSET BrokerSessions
    BY DEF RunningSessions
  <2>2. brokers \in [BrokerSessions -> BrokerStates]
    BY DEF HomeInv, TypeOK
  <2>3. Plan \in [RunningSessions -> BrokerStates]
    BY <2>1, <2>2 DEF Plan
  <2>4. QED
    BY <2>1, <2>3 DEF Plans
<1> HIDE DEF lines
<1>2. /\ operation' = [stage |-> "locking", kind |-> kind, mode |-> mode, release |-> release,
                       declared |-> declared, listed |-> KnownSessions, held |-> {},
                       plan |-> lines, previous |-> pointer, rewriting |-> FALSE,
                       was |-> Content]
      /\ UNCHANGED <<home, brokerState, ended>> /\ report # "torn" /\ Stage("idle")
  BY DEF BeginOperation, lines
<1>3. operation' \in Operations
  <2>1. Content \in Contents /\ pointer \in Targets /\ KnownSessions \in SUBSET BrokerSessions
    BY DEF HomeInv, TypeOK, Content, Contents, KnownSessions
  <2>2. QED
    BY <1>1, <1>2, <2>1 DEF Operations, Stages, BeforeSwitch, Opening
<1>4. Content' = Content
  BY <1>2 DEF home, Content
<1>5. TypeOK'
  BY <1>2, <1>3, <1>4 DEF HomeInv, TypeOK, home, brokerState
<1>6. CurrentIsWhole' /\ FailureIsClean'
  BY <1>2 DEF HomeInv, HomeIsSound, CurrentIsWhole, FailureIsClean, Stage, home
<1>7. InOperation'
  <2>1. /\ operation'.stage = "locking" /\ operation'.kind = kind
        /\ operation'.release = release /\ operation'.previous = pointer
        /\ ~operation'.rewriting /\ operation'.was.pointer = pointer
        /\ operation'.was.installed = installed /\ operation'.was.wrapper = wrapper
    BY <1>2 DEF Content
  <2>2. UNCHANGED <<installed, pointer, wrapper, report, adopted>>
    BY <1>2 DEF home
  <2>3. BegunSound(operation)'
    BY <2>1, <2>2 DEF BegunSound, HomeInv, HomeIsSound, CurrentIsWhole, Opening
  <2>4. Footprint(operation)'
    BY <2>1, <2>2 DEF Footprint
  <2>5. Reached(operation)' /\ Failing(operation)'
    BY <1>2, <2>1, <2>2 DEF Reached, Failing, BeforeSwitch, Opening, AfterSwitch, Unswitched
  <2>6. QED
    BY <2>3, <2>4, <2>5 DEF InOperation
<1>8. QED
  BY <1>5, <1>6, <1>7 DEF HomeInv, HomeIsSound

\* A failure concludes soundly when the content is as it was, or behind the
\* switch.
LEMMA FailedHome ==
  ASSUME HomeInv, ~Stage("idle"), NEW result \in {"done", "failed", "died"},
         Conclude(result), Content' \in Contents, nextPointer' \in Targets,
         report' \in {"none", "written", "torn"}, UNCHANGED <<adopted, brokerState>>,
         CurrentIsWhole',
         result = "failed" => \/ Content' = operation.was
                               \/ /\ pointer' = operation.release
                                  /\ wrapper' \in {"managed", operation.was.wrapper}
  PROVE  HomeInv'
<1>1. /\ operation' = NoOperation /\ operation'.stage = "idle"
      /\ ended' \in [count : Nat, outcome : {"done", "failed", "died"}, was : Contents,
                     release : Releases \union {"legacy", "none"}]
      /\ ended'.outcome = result /\ ended'.was = operation.was
      /\ ended'.release = operation.release
  BY ConcludeType DEF HomeInv
<1>2. TypeOK'
  BY <1>1 DEF HomeInv, TypeOK, brokerState
<1>3. FailureIsClean'
  BY <1>1 DEF FailureIsClean
<1>4. InOperation'
  BY <1>1 DEF InOperation, Stage
<1>5. QED
  BY <1>2, <1>3, <1>4 DEF HomeInv, HomeIsSound

\* A step that goes on keeps the types when it keeps those of the home.
LEMMA OngoingHome ==
  ASSUME HomeInv, ~Stage("idle"), operation' \in Operations, Content' \in Contents,
         nextPointer' \in Targets, report' \in {"none", "written", "torn"},
         adopted' \in BOOLEAN, UNCHANGED <<brokerState, ended>>,
         CurrentIsWhole', BegunSound(operation)', Footprint(operation)',
         Reached(operation)', Failing(operation)'
  PROVE  HomeInv'
<1>1. operation'.stage # "idle"
  BY DEF Operations, Stages, BeforeSwitch, AfterSwitch, Opening, Unswitched
<1>2. TypeOK'
  BY DEF HomeInv, TypeOK, brokerState
<1>3. QED
  BY <1>1, <1>2 DEF HomeInv, HomeIsSound, FailureIsClean, InOperation, Stage

\* What opens an operation leaves the home alone.
LEMMA OpeningHome ==
  ASSUME HomeInv, Adopt \/ LockState \/ CheckState
  PROVE  HomeInv'
<1>1. ~Stage("idle") /\ operation.stage \in Opening
  BY DEF Adopt, LockState, CheckState, Stage, Opening
<1>2. /\ operation \in Operations /\ BegunSound(operation) /\ Footprint(operation)
      /\ Reached(operation) /\ Failing(operation) /\ CurrentIsWhole
      /\ operation.was \in Contents
  BY <1>1, HomeFacts
<1>3. /\ Content \in Contents /\ nextPointer \in Targets
      /\ report \in {"none", "written", "torn"} /\ adopted \in BOOLEAN
  BY DEF HomeInv, TypeOK
<1>4. CASE Adopt
  <2>1. operation'.stage = "locking" /\ operation' = operation
    BY <1>4 DEF Adopt, Stage
  <2>2. QED
    BY <1>1, <1>2, <1>3, <1>4, <2>1, OngoingHome
       DEF Adopt, Content, CurrentIsWhole, BegunSound, Footprint, Reached, Failing, CanSelect,
           Opening
<1>5. ASSUME Conclude("failed"), UNCHANGED <<home, brokerState>>
      PROVE  HomeInv'
  <2>1. Content = operation.was
    BY <1>1, <1>2, <1>3, ContentEquals DEF Reached, Footprint, BeforeSwitch
  <2>2. Content' = Content /\ CurrentIsWhole'
    BY <1>2, <1>5 DEF home, Content, CurrentIsWhole
  <2>3. QED
    BY <1>1, <1>2, <1>3, <1>5, <2>1, <2>2, FailedHome DEF home
<1>6. CASE LockState
  <2>1. CASE Conclude("failed")
    BY <1>5, <1>6, <2>1 DEF LockState
  <2>2. CASE \E held \in SUBSET BrokerSessions :
               /\ operation' = [operation EXCEPT !.stage = "checking", !.held = held]
               /\ UNCHANGED ended
    <3>1. /\ operation' \in Operations /\ operation'.stage = "checking"
          /\ operation'.kind = operation.kind /\ operation'.mode = operation.mode
          /\ operation'.release = operation.release /\ operation'.previous = operation.previous
          /\ operation'.rewriting = operation.rewriting /\ operation'.was = operation.was
      BY <1>2, <2>2 DEF Operations, Stages, BeforeSwitch, Opening
    <3>2. UNCHANGED <<home, brokerState>>
      BY <1>6 DEF LockState
    <3>3. BegunSound(operation)' /\ Footprint(operation)'
      BY <1>1, <1>2, <3>1, <3>2 DEF BegunSound, Footprint, home, Opening
    <3>4. Reached(operation)' /\ Failing(operation)'
      BY <1>1, <1>2, <3>1, <3>2
         DEF Reached, Failing, home, BeforeSwitch, Opening, AfterSwitch, Unswitched
    <3>5. QED
      BY <1>1, <1>2, <1>3, <2>2, <3>1, <3>2, <3>3, <3>4, OngoingHome
         DEF home, Content, CurrentIsWhole
  <2>3. QED
    <3>1. (IF operation.mode = "live" THEN {} ELSE operation.listed \ Exempt(operation))
           \in SUBSET BrokerSessions
      BY <1>2 DEF Operations
    <3>2. QED
      BY <1>6, <2>1, <2>2, <3>1 DEF LockState
<1>7. CASE CheckState
  <2>1. CASE Conclude("failed")
    BY <1>5, <1>7, <2>1 DEF CheckState
  <2>2. CASE ~Conclude("failed")
    <3>1. /\ operation' = [operation EXCEPT !.previous = pointer, !.stage =
                 IF operation.kind = "install" THEN "extracting"
                 ELSE IF operation.release = "legacy" THEN "linking" ELSE "rechecking"]
          /\ UNCHANGED <<home, brokerState, ended>>
          /\ IF operation.kind = "install" THEN CanInstall(operation) ELSE CanSelect(operation)
      BY <1>7, <2>2 DEF CheckState
    <3>2. /\ operation' \in Operations
          /\ operation'.stage = IF operation.kind = "install" THEN "extracting"
                 ELSE IF operation.release = "legacy" THEN "linking" ELSE "rechecking"
          /\ operation'.kind = operation.kind /\ operation'.mode = operation.mode
          /\ operation'.release = operation.release /\ operation'.previous = pointer
          /\ operation'.rewriting = operation.rewriting /\ operation'.was = operation.was
      <4>1. pointer \in Targets
        BY <1>3 DEF Content, Contents
      <4>2. QED
        BY <1>2, <3>1, <4>1 DEF Operations, Stages, BeforeSwitch, Unswitched
    <3>3. /\ pointer = operation.was.pointer /\ report # "torn" /\ ~operation.rewriting
          /\ installed = operation.was.installed
      BY <1>1, <1>2 DEF Reached, BeforeSwitch
    <3>4. BegunSound(operation)' /\ Footprint(operation)'
      BY <1>1, <1>2, <3>1, <3>2, <3>3 DEF BegunSound, Footprint, home, Opening, CanInstall
    <3>5. operation.kind = "rollback" => CanSelect(operation)'
      BY <3>1, <3>2 DEF CanSelect, home
    <3>6. Reached(operation)' /\ Failing(operation)'
      BY ZenonT(60), <1>1, <1>2, <3>1, <3>2, <3>3, <3>5
         DEF Reached, Failing, home, BeforeSwitch, Opening, AfterSwitch, Unswitched, Operations
    <3>7. QED
      BY <1>1, <1>2, <1>3, <3>1, <3>2, <3>4, <3>6, OngoingHome
         DEF home, Content, CurrentIsWhole
  <2>3. QED
    BY <2>1, <2>2
<1>8. QED
  BY <1>4, <1>6, <1>7

\* The release being installed is not current, and was not there.
LEMMA InstalledApart ==
  ASSUME HomeInv, ~Stage("idle"), operation.kind = "install", operation.stage \notin Opening,
         pointer = operation.was.pointer
  PROVE  operation.release \in Releases /\ pointer # operation.release
BY HomeFacts DEF BegunSound

\* Writing the release and the wrapper leaves the pointer where it was.
LEMMA WritingHome ==
  ASSUME HomeInv, Extract \/ Build \/ OpenWrapper \/ WriteWrapper
  PROVE  HomeInv'
<1>1. /\ operation \in Operations /\ BegunSound(operation) /\ Footprint(operation)
      /\ Reached(operation) /\ Failing(operation) /\ CurrentIsWhole
      /\ operation.was \in Contents
  BY HomeFacts DEF Extract, Build, OpenWrapper, WriteWrapper, Stage
<1>2. /\ Content \in Contents /\ nextPointer \in Targets
      /\ report \in {"none", "written", "torn"} /\ adopted \in BOOLEAN
      /\ installed \in [Releases -> {"absent", "partial", "whole"}]
  BY DEF HomeInv, TypeOK, Content, Contents
<1>3. /\ operation.kind = "install" /\ operation.release \in Releases
      /\ pointer # operation.release /\ pointer = operation.was.pointer /\ report # "torn"
      /\ operation.stage \notin Opening /\ ~Stage("idle")
  <2>1. /\ operation.stage \in {"extracting", "building", "opening", "wrapping"}
        /\ operation.stage \notin Opening /\ ~Stage("idle")
    BY DEF Extract, Build, OpenWrapper, WriteWrapper, Stage, Opening
  <2>2. operation.kind = "install" /\ pointer = operation.was.pointer /\ report # "torn"
    BY <1>1, <2>1 DEF Reached, BeforeSwitch, Unswitched
  <2>3. QED
    BY <2>1, <2>2, InstalledApart
<1>4. CASE Extract
  <2>1. /\ installed' = [installed EXCEPT ![operation.release] = "partial"]
        /\ Proceed("building")
        /\ UNCHANGED <<pointer, nextPointer, wrapper, report, adopted, brokerState, ended>>
    BY <1>4 DEF Extract
  <2>2. /\ operation' \in Operations /\ operation'.stage = "building"
        /\ operation'.kind = operation.kind /\ operation'.mode = operation.mode
        /\ operation'.release = operation.release /\ operation'.previous = operation.previous
        /\ operation'.rewriting = operation.rewriting /\ operation'.was = operation.was
    BY <1>1, <2>1, ProceedKeeps DEF Stages, BeforeSwitch, Unswitched
  <2>3. /\ installed' \in [Releases -> {"absent", "partial", "whole"}]
        /\ \A r \in Releases : r # operation.release => installed'[r] = installed[r]
        /\ installed'[operation.release] = "partial"
    BY <1>2, <1>3, <2>1
  <2>4. Content' \in Contents /\ CurrentIsWhole'
    BY <1>1, <1>2, <1>3, <2>1, <2>3 DEF Content, Contents, CurrentIsWhole
  <2>5. BegunSound(operation)' /\ Footprint(operation)'
    BY <1>1, <1>3, <1>4, <2>1, <2>2, <2>3 DEF BegunSound, Footprint, Opening, Extract, Stage
  <2>6. Reached(operation)' /\ Failing(operation)'
    BY <1>1, <1>3, <2>1, <2>2, <2>3
       DEF Reached, Failing, CanSelect, BeforeSwitch, Opening, AfterSwitch, Unswitched
  <2>7. QED
    BY <1>2, <1>3, <2>1, <2>2, <2>4, <2>5, <2>6, OngoingHome
<1>5. CASE Build
  <2>1. /\ installed' = [installed EXCEPT ![operation.release] = "whole"]
        /\ Proceed("rechecking")
        /\ UNCHANGED <<pointer, nextPointer, wrapper, report, adopted, brokerState, ended>>
    BY <1>5 DEF Build
  <2>2. /\ operation' \in Operations /\ operation'.stage = "rechecking"
        /\ operation'.kind = operation.kind /\ operation'.mode = operation.mode
        /\ operation'.release = operation.release /\ operation'.previous = operation.previous
        /\ operation'.rewriting = operation.rewriting /\ operation'.was = operation.was
    BY <1>1, <2>1, ProceedKeeps DEF Stages, BeforeSwitch, Unswitched
  <2>3. /\ installed' \in [Releases -> {"absent", "partial", "whole"}]
        /\ \A r \in Releases : r # operation.release => installed'[r] = installed[r]
        /\ installed'[operation.release] = "whole"
    BY <1>2, <1>3, <2>1
  <2>4. Content' \in Contents /\ CurrentIsWhole'
    BY <1>1, <1>2, <1>3, <2>1, <2>3 DEF Content, Contents, CurrentIsWhole
  <2>5. BegunSound(operation)' /\ Footprint(operation)'
    BY <1>1, <1>3, <1>5, <2>1, <2>2, <2>3 DEF BegunSound, Footprint, Opening, Build, Stage
  <2>6. Reached(operation)' /\ Failing(operation)'
    BY <1>1, <1>3, <2>1, <2>2, <2>3
       DEF Reached, Failing, CanSelect, BeforeSwitch, Opening, AfterSwitch, Unswitched
  <2>7. QED
    BY <1>2, <1>3, <2>1, <2>2, <2>4, <2>5, <2>6, OngoingHome
<1>6. CASE OpenWrapper
  <2>1. /\ operation' \in Operations /\ operation'.stage = "wrapping"
        /\ operation'.kind = operation.kind /\ operation'.mode = operation.mode
        /\ operation'.release = operation.release /\ operation'.previous = operation.previous
        /\ operation'.rewriting = TRUE /\ operation'.was = operation.was
    BY <1>1, <1>6 DEF OpenWrapper, Operations, Stages, BeforeSwitch, Unswitched
  <2>2. /\ wrapper' = "torn" /\ Stage("opening")
        /\ UNCHANGED <<installed, pointer, nextPointer, report, adopted, brokerState, ended>>
    BY <1>6 DEF OpenWrapper
  <2>3. Content' \in Contents /\ CurrentIsWhole'
    BY <1>1, <1>2, <2>2 DEF Content, Contents, CurrentIsWhole
  <2>4. BegunSound(operation)' /\ Footprint(operation)'
    BY <1>1, <1>3, <2>1, <2>2 DEF BegunSound, Footprint, Opening, Stage
  <2>5. Reached(operation)' /\ Failing(operation)'
    BY <1>1, <1>3, <2>1, <2>2
       DEF Reached, Failing, CanSelect, BeforeSwitch, Opening, AfterSwitch, Unswitched, Stage
  <2>6. QED
    BY <1>2, <1>3, <2>1, <2>2, <2>3, <2>4, <2>5, OngoingHome
<1>7. CASE WriteWrapper
  <2>1. /\ wrapper' = "managed" /\ Proceed("linking") /\ Stage("wrapping")
        /\ UNCHANGED <<installed, pointer, nextPointer, report, adopted, brokerState, ended>>
    BY <1>7 DEF WriteWrapper
  <2>2. /\ operation' \in Operations /\ operation'.stage = "linking"
        /\ operation'.kind = operation.kind /\ operation'.mode = operation.mode
        /\ operation'.release = operation.release /\ operation'.previous = operation.previous
        /\ operation'.rewriting = operation.rewriting /\ operation'.was = operation.was
    BY <1>1, <2>1, ProceedKeeps DEF Stages, BeforeSwitch, Unswitched
  <2>3. Content' \in Contents /\ CurrentIsWhole'
    BY <1>1, <1>2, <2>1 DEF Content, Contents, CurrentIsWhole
  <2>4. BegunSound(operation)' /\ Footprint(operation)'
    BY <1>1, <1>3, <2>1, <2>2 DEF BegunSound, Footprint, Opening, Reached, Stage
  <2>5. Reached(operation)' /\ Failing(operation)'
    BY <1>1, <1>3, <2>1, <2>2
       DEF Reached, Failing, CanSelect, BeforeSwitch, Opening, AfterSwitch, Unswitched, Stage
  <2>6. QED
    BY <1>2, <1>3, <2>1, <2>2, <2>3, <2>4, <2>5, OngoingHome
<1>8. QED
  BY <1>4, <1>5, <1>6, <1>7

\* From the second check to the report, the pointer moves only to a release
\* that is whole, or to a launcher that was adopted.
LEMMA SwitchingHome ==
  ASSUME HomeInv, Recheck \/ Link \/ Replace \/ OpenReport \/ Finish
  PROVE  HomeInv'
<1>1. /\ operation \in Operations /\ BegunSound(operation) /\ Footprint(operation)
      /\ Reached(operation) /\ Failing(operation) /\ CurrentIsWhole
      /\ operation.was \in Contents
  BY HomeFacts DEF Recheck, Link, Replace, OpenReport, Finish, Stage
<1>2. /\ Content \in Contents /\ nextPointer \in Targets
      /\ report \in {"none", "written", "torn"} /\ adopted \in BOOLEAN
      /\ installed \in [Releases -> {"absent", "partial", "whole"}]
  BY DEF HomeInv, TypeOK, Content, Contents
<1>3. /\ operation.stage \in Unswitched \union AfterSwitch /\ ~Stage("idle")
      /\ operation.stage \notin Opening
  BY DEF Recheck, Link, Replace, OpenReport, Finish, Stage, Unswitched, AfterSwitch, Opening
<1>4. CanSelect(operation)
  BY <1>1, <1>3 DEF Reached
<1>5. CASE Recheck
  <2>1. PICK stage \in {"failing", "opening", "linking"} :
             /\ Proceed(stage) /\ (stage = "opening" => operation.kind = "install")
    BY <1>5 DEF Recheck
  <2>2. /\ operation' \in Operations /\ operation'.stage = stage
        /\ operation'.kind = operation.kind /\ operation'.mode = operation.mode
        /\ operation'.release = operation.release /\ operation'.previous = operation.previous
        /\ operation'.rewriting = operation.rewriting /\ operation'.was = operation.was
    BY <1>1, <2>1, ProceedKeeps DEF Stages, BeforeSwitch, Unswitched
  <2>3. UNCHANGED <<home, brokerState, ended>> /\ operation.stage = "rechecking"
    BY <1>5 DEF Recheck, Stage
  <2>4. Content' \in Contents /\ CurrentIsWhole' /\ CanSelect(operation)'
    BY <1>1, <1>2, <1>4, <2>2, <2>3 DEF Content, CurrentIsWhole, home, CanSelect
  <2>5. BegunSound(operation)' /\ Footprint(operation)'
    BY <1>1, <1>3, <2>2, <2>3 DEF BegunSound, Footprint, Opening, home
  <2>6. Reached(operation)' /\ Failing(operation)'
    BY <1>1, <1>3, <1>4, <2>1, <2>2, <2>3, <2>4
       DEF Reached, Failing, BeforeSwitch, Opening, AfterSwitch, Unswitched, home, Footprint
  <2>7. QED
    BY <1>2, <1>3, <2>2, <2>3, <2>4, <2>5, <2>6, OngoingHome DEF home
<1>6. CASE Link
  <2>1. PICK stage \in {"failing", "replacing"} :
             /\ Proceed(stage) /\ nextPointer' \in Targets
             /\ (stage = "replacing" => nextPointer' = operation.release)
    BY <1>1, <1>2, <1>6 DEF Link, Operations, Targets
  <2>2. /\ operation' \in Operations /\ operation'.stage = stage
        /\ operation'.kind = operation.kind /\ operation'.mode = operation.mode
        /\ operation'.release = operation.release /\ operation'.previous = operation.previous
        /\ operation'.rewriting = operation.rewriting /\ operation'.was = operation.was
    BY <1>1, <2>1, ProceedKeeps DEF Stages, BeforeSwitch, Unswitched
  <2>3. /\ UNCHANGED <<installed, pointer, wrapper, report, adopted, brokerState, ended>>
        /\ operation.stage = "linking"
    BY <1>6 DEF Link, Stage
  <2>4. Content' \in Contents /\ CurrentIsWhole' /\ CanSelect(operation)'
    BY <1>1, <1>2, <1>4, <2>2, <2>3 DEF Content, CurrentIsWhole, CanSelect
  <2>5. BegunSound(operation)' /\ Footprint(operation)'
    BY <1>1, <1>3, <2>2, <2>3 DEF BegunSound, Footprint, Opening
  <2>6. Reached(operation)' /\ Failing(operation)'
    BY <1>1, <1>3, <1>4, <2>1, <2>2, <2>3, <2>4
       DEF Reached, Failing, BeforeSwitch, Opening, AfterSwitch, Unswitched, Footprint
  <2>7. QED
    BY <1>2, <1>3, <2>1, <2>2, <2>3, <2>4, <2>5, <2>6, OngoingHome
<1>7. CASE Replace
  <2>1. /\ pointer' = operation.release /\ nextPointer' = "none" /\ Proceed("reporting")
        /\ UNCHANGED <<installed, wrapper, report, adopted, brokerState, ended>>
        /\ operation.stage = "replacing"
    BY <1>1, <1>7 DEF Replace, Reached, Stage
  <2>2. /\ operation' \in Operations /\ operation'.stage = "reporting"
        /\ operation'.kind = operation.kind /\ operation'.mode = operation.mode
        /\ operation'.release = operation.release /\ operation'.previous = operation.previous
        /\ operation'.rewriting = operation.rewriting /\ operation'.was = operation.was
    BY <1>1, <2>1, ProceedKeeps DEF Stages, AfterSwitch
  <2>3. Content' \in Contents /\ CurrentIsWhole' /\ CanSelect(operation)'
    BY <1>1, <1>2, <1>4, <2>1, <2>2
       DEF Content, Contents, CurrentIsWhole, CanSelect, Operations, Targets
  <2>4. BegunSound(operation)' /\ Footprint(operation)'
    BY <1>1, <1>3, <2>1, <2>2 DEF BegunSound, Footprint, Opening
  <2>5. Reached(operation)' /\ Failing(operation)'
    BY <1>1, <2>1, <2>2, <2>3
       DEF Reached, Failing, BeforeSwitch, Opening, AfterSwitch, Unswitched
  <2>6. QED
    BY <1>2, <1>3, <2>1, <2>2, <2>3, <2>4, <2>5, OngoingHome DEF Targets
<1>8. CASE OpenReport
  <2>1. /\ report' = "torn" /\ Proceed("reported") /\ operation.mode # "live"
        /\ UNCHANGED <<installed, pointer, nextPointer, wrapper, adopted, brokerState, ended>>
        /\ operation.stage = "reporting"
    BY <1>8 DEF OpenReport, Stage
  <2>2. /\ operation' \in Operations /\ operation'.stage = "reported"
        /\ operation'.kind = operation.kind /\ operation'.mode = operation.mode
        /\ operation'.release = operation.release /\ operation'.previous = operation.previous
        /\ operation'.rewriting = operation.rewriting /\ operation'.was = operation.was
    BY <1>1, <2>1, ProceedKeeps DEF Stages, AfterSwitch
  <2>3. Content' \in Contents /\ CurrentIsWhole' /\ CanSelect(operation)'
    BY <1>1, <1>2, <1>4, <2>1, <2>2 DEF Content, CurrentIsWhole, CanSelect
  <2>4. BegunSound(operation)' /\ Footprint(operation)'
    BY <1>1, <1>3, <2>1, <2>2 DEF BegunSound, Footprint, Opening
  <2>5. Reached(operation)' /\ Failing(operation)'
    BY <1>1, <2>1, <2>2, <2>3
       DEF Reached, Failing, BeforeSwitch, Opening, AfterSwitch, Unswitched
  <2>6. QED
    BY <1>2, <1>3, <2>1, <2>2, <2>3, <2>4, <2>5, OngoingHome
<1>9. CASE Finish
  <2>1. /\ report' = "written" /\ Conclude("done")
        /\ UNCHANGED <<installed, pointer, nextPointer, wrapper, adopted, brokerState>>
    BY <1>9 DEF Finish
  <2>2. Content' \in Contents /\ CurrentIsWhole'
    BY <1>1, <1>2, <2>1 DEF Content, CurrentIsWhole
  <2>3. QED
    BY <1>2, <1>3, <2>1, <2>2, FailedHome
<1>10. QED
  BY <1>5, <1>6, <1>7, <1>8, <1>9

\* A step that raises leaves the cleanup what it needs.
LEMMA RaiseHome ==
  ASSUME HomeInv, Raise
  PROVE  HomeInv'
<1>1. /\ operation \in Operations /\ BegunSound(operation) /\ Footprint(operation)
      /\ Reached(operation) /\ Failing(operation) /\ CurrentIsWhole
      /\ operation.was \in Contents
  BY HomeFacts DEF Raise, Stage
<1>2. /\ Content \in Contents /\ nextPointer \in Targets
      /\ report \in {"none", "written", "torn"} /\ adopted \in BOOLEAN
      /\ installed \in [Releases -> {"absent", "partial", "whole"}]
  BY DEF HomeInv, TypeOK, Content, Contents
<1>3. ~Stage("idle") /\ UNCHANGED <<home, brokerState>>
  BY DEF Raise, Stage
<1>4. Content' = Content /\ CurrentIsWhole'
  BY <1>1, <1>3 DEF Content, CurrentIsWhole, home
<1>5. CASE operation.stage \in Opening
  <2>1. Content = operation.was
    BY <1>1, <1>2, <1>5, ContentEquals DEF Reached, Footprint, BeforeSwitch
  <2>2. Conclude("failed")
    BY <1>5 DEF Raise, Opening
  <2>3. QED
    BY <1>2, <1>3, <1>4, <2>1, <2>2, FailedHome DEF home
<1>6. CASE operation.stage \notin Opening
  <2>1. /\ Proceed("failing") /\ UNCHANGED ended
        /\ operation.stage \in {"extracting", "building"} \union Unswitched \union AfterSwitch
    BY <1>6 DEF Raise, Opening, Unswitched, AfterSwitch
  <2>2. /\ operation' \in Operations /\ operation'.stage = "failing"
        /\ operation'.kind = operation.kind /\ operation'.mode = operation.mode
        /\ operation'.release = operation.release /\ operation'.previous = operation.previous
        /\ operation'.rewriting = operation.rewriting /\ operation'.was = operation.was
    BY <1>1, <2>1, ProceedKeeps DEF Stages
  <2>3. BegunSound(operation)' /\ Footprint(operation)'
    BY <1>1, <1>3, <1>6, <2>2 DEF BegunSound, Footprint, Opening, home
  <2>4. Reached(operation)'
    BY <2>2 DEF Reached, BeforeSwitch, Opening, AfterSwitch, Unswitched
  <2>5. CASE operation.stage \in AfterSwitch
    <3>1. pointer = operation.release /\ CanSelect(operation)
      BY <1>1, <2>5 DEF Reached
    <3>2. Failing(operation)'
      BY <1>1, <1>3, <2>2, <2>5, <3>1
         DEF Failing, Footprint, CanSelect, home, AfterSwitch, Reached
    <3>3. QED
      BY <1>2, <1>3, <1>4, <2>1, <2>2, <2>3, <2>4, <3>2, OngoingHome DEF home
  <2>6. CASE operation.stage \in BeforeSwitch
    <3>1. pointer = operation.was.pointer /\ report # "torn"
      BY <1>1, <2>6 DEF Reached
    <3>2. pointer = operation.release => operation.kind = "rollback"
      BY <1>1, <1>3, <1>6, <3>1, InstalledApart DEF Operations
    <3>3. pointer = operation.release => ~operation.rewriting /\ CanSelect(operation)
      BY <1>1, <3>1, <3>2 DEF Footprint, CanSelect, CurrentIsWhole, BegunSound, Operations
    <3>4. Failing(operation)'
      BY <1>3, <2>2, <3>1, <3>3 DEF Failing, CanSelect, home
    <3>5. QED
      BY <1>2, <1>3, <1>4, <2>1, <2>2, <2>3, <2>4, <3>4, OngoingHome DEF home
  <2>7. QED
    BY <2>1, <2>5, <2>6 DEF BeforeSwitch
<1>7. QED
  BY <1>5, <1>6

\* The live switch is undone to the pointer the operation began on.
LEMMA RevertHome ==
  ASSUME HomeInv, RevertLive
  PROVE  HomeInv'
<1>1. /\ operation \in Operations /\ BegunSound(operation) /\ Footprint(operation)
      /\ Reached(operation) /\ Failing(operation) /\ CurrentIsWhole
      /\ operation.was \in Contents
  BY HomeFacts DEF RevertLive, Stage
<1>2. /\ Content \in Contents /\ nextPointer \in Targets
      /\ report \in {"none", "written", "torn"} /\ adopted \in BOOLEAN
      /\ installed \in [Releases -> {"absent", "partial", "whole"}]
  BY DEF HomeInv, TypeOK, Content, Contents
<1>3. /\ ~Stage("idle") /\ operation.stage = "failing" /\ operation' = operation
      /\ pointer' = IF Switched THEN operation.previous ELSE pointer
      /\ nextPointer' = "none"
      /\ UNCHANGED <<installed, wrapper, report, adopted, brokerState, operation, ended>>
      /\ operation.mode = "live"
  BY DEF RevertLive, Stage, Reverted
<1>4. pointer' \in {operation.was.pointer, pointer} /\ pointer' \in Targets
  BY <1>1, <1>2, <1>3 DEF BegunSound, Operations, Content, Contents
<1>5. Content' \in Contents
  BY <1>2, <1>3, <1>4 DEF Content, Contents
<1>6. operation.was.pointer \in Releases => installed[operation.was.pointer] = "whole"
  <2>1. SUFFICES ASSUME operation.was.pointer \in Releases,
                        installed[operation.was.pointer] # "whole"
                 PROVE  FALSE
    OBVIOUS
  <2>2. operation.kind = "install" /\ operation.was.pointer = operation.release
    BY <1>1, <2>1 DEF BegunSound, Footprint
  <2>3. QED
    BY <1>1, <1>3, <2>1, <2>2 DEF BegunSound, Opening
<1>7. CurrentIsWhole'
  BY <1>1, <1>3, <1>4, <1>6 DEF CurrentIsWhole, BegunSound
<1>8. BegunSound(operation)' /\ Footprint(operation)'
  BY <1>1, <1>3 DEF BegunSound, Footprint
<1>9. Reached(operation)'
  BY <1>3 DEF Reached, BeforeSwitch, Opening, AfterSwitch, Unswitched
<1>10. Failing(operation)'
  <2>1. report # "torn"
    BY <1>1, <1>3 DEF Failing
  <2>2. QED
    BY <1>1, <1>3, <1>4, <2>1 DEF Failing, Switched, CanSelect
<1>11. QED
  BY <1>1, <1>2, <1>3, <1>5, <1>7, <1>8, <1>9, <1>10, OngoingHome DEF Targets

\* The cleanup restores the wrapper and removes only what is not current.
LEMMA CleanupHome ==
  ASSUME HomeInv, RestoreWrapper \/ RemoveRelease
  PROVE  HomeInv'
<1>1. /\ operation \in Operations /\ BegunSound(operation) /\ Footprint(operation)
      /\ Reached(operation) /\ Failing(operation) /\ CurrentIsWhole
      /\ operation.was \in Contents
  BY HomeFacts DEF RestoreWrapper, RemoveRelease, Stage
<1>2. /\ Content \in Contents /\ nextPointer \in Targets
      /\ report \in {"none", "written", "torn"} /\ adopted \in BOOLEAN
      /\ installed \in [Releases -> {"absent", "partial", "whole"}]
  BY DEF HomeInv, TypeOK, Content, Contents
<1>3. ~Stage("idle") /\ operation.stage \in {"failing", "removing"}
  BY DEF RestoreWrapper, RemoveRelease, Stage
<1>4. CASE RestoreWrapper /\ CleansUp
  <2>1. /\ Proceed("removing") /\ operation.kind = "install" /\ report # "torn"
        /\ wrapper' = IF operation.rewriting THEN operation.was.wrapper ELSE wrapper
        /\ UNCHANGED <<installed, pointer, nextPointer, report, adopted, brokerState, ended>>
        /\ operation.stage = "failing" /\ pointer # operation.release
    BY <1>4 DEF RestoreWrapper, CleansUp, Stage
  <2>2. /\ operation' \in Operations /\ operation'.stage = "removing"
        /\ operation'.kind = operation.kind /\ operation'.mode = operation.mode
        /\ operation'.release = operation.release /\ operation'.previous = operation.previous
        /\ operation'.rewriting = operation.rewriting /\ operation'.was = operation.was
    BY <1>1, <2>1, ProceedKeeps DEF Stages
  <2>3. wrapper' = operation.was.wrapper /\ pointer' = operation.was.pointer
    BY <1>1, <2>1 DEF Footprint, Failing
  <2>4. Content' \in Contents /\ CurrentIsWhole'
    BY <1>1, <1>2, <2>1, <2>3 DEF Content, Contents, CurrentIsWhole
  <2>5. BegunSound(operation)' /\ Footprint(operation)'
    BY <1>1, <2>1, <2>2, <2>3 DEF BegunSound, Footprint, Opening
  <2>6. Reached(operation)' /\ Failing(operation)'
    BY <2>1, <2>2, <2>3
       DEF Reached, Failing, BeforeSwitch, Opening, AfterSwitch, Unswitched
  <2>7. QED
    BY <1>2, <1>3, <2>1, <2>2, <2>4, <2>5, <2>6, OngoingHome
<1>5. CASE RestoreWrapper /\ ~CleansUp
  <2>1. /\ Conclude("failed") /\ operation.stage = "failing"
        /\ UNCHANGED <<installed, pointer, nextPointer, report, adopted, brokerState, wrapper>>
    BY <1>5 DEF RestoreWrapper, Stage
  <2>2. Content' = Content /\ CurrentIsWhole'
    BY <1>1, <2>1 DEF Content, CurrentIsWhole
  <2>3. CASE pointer = operation.release
    <3>1. wrapper \in {"managed", operation.was.wrapper}
      BY <1>1, <2>1, <2>3 DEF Failing, Footprint
    <3>2. QED
      BY <1>2, <1>3, <2>1, <2>2, <2>3, <3>1, FailedHome
  <2>4. CASE pointer # operation.release
    <3>1. operation.kind = "rollback" /\ pointer = operation.was.pointer
      BY <1>1, <1>5, <2>1, <2>4 DEF CleansUp, Failing, Operations
    <3>2. Content = operation.was
      BY <1>1, <1>2, <3>1, ContentEquals DEF Footprint
    <3>3. QED
      BY <1>2, <1>3, <2>1, <2>2, <3>2, FailedHome
  <2>5. QED
    BY <2>3, <2>4
<1>6. CASE RemoveRelease
  <2>1. /\ installed' = [installed EXCEPT ![operation.release] = "absent"]
        /\ Conclude("failed") /\ operation.stage = "removing"
        /\ UNCHANGED <<pointer, nextPointer, wrapper, report, adopted, brokerState>>
    BY <1>6 DEF RemoveRelease, Stage
  <2>2. /\ pointer = operation.was.pointer /\ wrapper = operation.was.wrapper
        /\ operation.kind = "install"
    BY <1>1, <2>1 DEF Failing
  <2>3. /\ operation.release \in Releases /\ pointer # operation.release
        /\ operation.was.installed[operation.release] = "absent"
    BY <1>1, <1>3, <2>1, <2>2, InstalledApart DEF BegunSound, Opening
  <2>4. /\ installed' \in [Releases -> {"absent", "partial", "whole"}]
        /\ \A r \in Releases : installed'[r] = operation.was.installed[r]
    BY <1>1, <1>2, <2>1, <2>3 DEF Footprint
  <2>5. Content' \in Contents
    BY <1>2, <2>1, <2>4 DEF Content, Contents
  <2>6. CurrentIsWhole'
    BY <1>1, <1>2, <2>1, <2>3 DEF CurrentIsWhole
  <2>7. Content' = operation.was
    <3>1. operation.was.installed \in [Releases -> {"absent", "partial", "whole"}]
      BY <1>1 DEF Contents
    <3>2. installed' = operation.was.installed
      BY <2>4, <3>1
    <3>3. QED
      BY <1>1, <2>1, <2>2, <3>2 DEF Content, Contents
  <2>8. QED
    BY <1>2, <1>3, <2>1, <2>5, <2>6, <2>7, FailedHome
<1>7. QED
  BY <1>4, <1>5, <1>6

\* A death of the process removes at most part of what is not current.
LEMMA DeathHome ==
  ASSUME HomeInv, OperationDies
  PROVE  HomeInv'
<1>1. /\ operation \in Operations /\ BegunSound(operation) /\ Footprint(operation)
      /\ Reached(operation) /\ Failing(operation) /\ CurrentIsWhole
      /\ operation.was \in Contents
  BY HomeFacts DEF OperationDies
<1>2. /\ Content \in Contents /\ nextPointer \in Targets
      /\ report \in {"none", "written", "torn"} /\ adopted \in BOOLEAN
      /\ installed \in [Releases -> {"absent", "partial", "whole"}]
  BY DEF HomeInv, TypeOK, Content, Contents
<1>3. /\ ~Stage("idle") /\ Conclude("died")
      /\ UNCHANGED <<pointer, nextPointer, wrapper, report, adopted, brokerState>>
  BY DEF OperationDies
<1>4. /\ installed' \in [Releases -> {"absent", "partial", "whole"}]
      /\ pointer \in Releases => installed'[pointer] = installed[pointer]
  <2>1. CASE UNCHANGED installed
    BY <1>2, <2>1
  <2>2. CASE /\ operation.stage = "removing"
             /\ installed' = [installed EXCEPT ![operation.release] = "partial"]
    <3>1. pointer # operation.release /\ operation.release \in Releases
      BY <1>1, <1>3, <2>2, InstalledApart DEF Failing, Opening
    <3>2. QED
      BY <1>2, <2>2, <3>1
  <2>3. QED
    BY <2>1, <2>2 DEF OperationDies, Stage
<1>5. Content' \in Contents /\ CurrentIsWhole'
  BY <1>1, <1>2, <1>3, <1>4 DEF Content, Contents, CurrentIsWhole
<1>6. QED
  BY <1>2, <1>3, <1>5, FailedHome

\* Brokers come and go beside the home.
LEMMA BrokerHome ==
  ASSUME HomeInv, NEW s \in BrokerSessions,
         StartBroker(s) \/ EndBroker(s) \/ ConfirmBroker(s)
  PROVE  HomeInv'
<1>1. UNCHANGED <<home, operation, ended>>
  BY DEF StartBroker, EndBroker, ConfirmBroker
<1>2. brokers' \in [BrokerSessions -> BrokerStates] /\ starts' \in Nat
  <2>1. brokers \in [BrokerSessions -> BrokerStates] /\ starts \in Nat
    BY DEF HomeInv, TypeOK
  <2>2. \E b \in BrokerStates : brokers' = [brokers EXCEPT ![s] = b]
    <3>1. CASE StartBroker(s)
      BY <2>1, <3>1 DEF StartBroker, BrokerStates, LiveBrokers
    <3>2. CASE EndBroker(s) \/ ConfirmBroker(s)
      BY <3>2 DEF EndBroker, ConfirmBroker, BrokerStates
    <3>3. QED
      BY <3>1, <3>2
  <2>3. starts' \in Nat
    BY <2>1 DEF StartBroker, EndBroker, ConfirmBroker
  <2>4. QED
    BY <2>1, <2>2, <2>3
<1>3. TypeOK'
  BY <1>1, <1>2 DEF HomeInv, TypeOK, home, Content
<1>4. CurrentIsWhole' /\ FailureIsClean'
  BY <1>1 DEF HomeInv, HomeIsSound, CurrentIsWhole, FailureIsClean, Stage, home, Content
<1>5. InOperation'
  BY <1>1 DEF HomeInv, InOperation, Stage, BegunSound, Footprint, Reached, Failing, CanSelect,
              home
<1>6. QED
  BY <1>3, <1>4, <1>5 DEF HomeInv, HomeIsSound

LEMMA InitHome == ReleaseInit => HomeInv
<1> SUFFICES ASSUME ReleaseInit PROVE HomeInv
  OBVIOUS
<1>1. installed \in [Releases -> {"absent", "partial", "whole"}] /\ pointer \in Targets
  BY DEF ReleaseInit, Targets
<1>2. Content \in Contents
  BY <1>1 DEF ReleaseInit, Content, Contents
<1>3. TypeOK
  BY <1>2 DEF ReleaseInit, TypeOK, Targets, BrokerStates
<1>4. QED
  BY <1>3 DEF ReleaseInit, HomeInv, HomeIsSound, CurrentIsWhole, FailureIsClean, InOperation,
              Stage, NoOperation, Targets

LEMMA NextHome == HomeInv /\ [ReleaseNext]_releaseVars => HomeInv'
<1> SUFFICES ASSUME HomeInv, [ReleaseNext]_releaseVars PROVE HomeInv'
  OBVIOUS
<1>1. CASE UNCHANGED releaseVars
  BY <1>1 DEF releaseVars, HomeInv, TypeOK, HomeIsSound, CurrentIsWhole, FailureIsClean,
              InOperation, Stage, BegunSound, Footprint, Reached, Failing, CanSelect, Content
<1>2. CASE ReleaseNext
  BY <1>2, BeginHome, OpeningHome, WritingHome, SwitchingHome, RaiseHome, RevertHome,
     CleanupHome, DeathHome, BrokerHome DEF ReleaseNext
<1>3. QED
  BY <1>1, <1>2

\* Wherever an operation fails, raises or is killed, `current' names a release
\* that was installed completely or a launcher that was adopted, and a failure
\* leaves the home as it found it or wholly behind the switch.
THEOREM HomeStaysSound == ReleaseSpec => []HomeIsSound
<1>1. HomeInv => HomeIsSound
  BY DEF HomeInv
<1>2. QED
  BY InitHome, NextHome, <1>1, PTL DEF ReleaseSpec

-----------------------------------------------------------------------------
\* The brokers at the switch.

\* What no broker step and no other field changes keeps the brokers tolerated.
LEMMA StillTolerated ==
  ASSUME Tolerated, UNCHANGED brokers, ~Stage("idle"), operation.stage \in BeforeSwitch,
         operation'.stage # "locking", operation.stage # "locking", UNCHANGED pointer,
         operation'.mode = operation.mode, operation'.declared = operation.declared,
         operation'.held = operation.held, operation'.listed = operation.listed,
         operation'.plan = operation.plan
  PROVE  Tolerated'
BY DEF Tolerated, AllDeclared, RunningSessions, Running

\* A broker that starts or ends is tolerated: the lock keeps out what is held,
\* and what starts is of the release current until the switch.
LEMMA BrokerTolerated ==
  ASSUME SwitchInv, HomeInv', NEW s \in BrokerSessions,
         StartBroker(s) \/ EndBroker(s) \/ ConfirmBroker(s)
  PROVE  Tolerated'
<1>1. UNCHANGED <<pointer, operation>>
  BY DEF StartBroker, EndBroker, ConfirmBroker, home
<1>2. /\ brokers \in [BrokerSessions -> BrokerStates]
      /\ brokers' \in [BrokerSessions -> BrokerStates]
  BY DEF SwitchInv, HomeInv, TypeOK
<1>3. \A t \in BrokerSessions \ {s} : brokers'[t] = brokers[t]
  BY <1>2 DEF StartBroker, EndBroker, ConfirmBroker
<1>4. \A t \in RunningSessions' : t # s => t \in RunningSessions
  BY <1>3 DEF RunningSessions, Running
<1>5. s \in RunningSessions' =>
        /\ StartBroker(s) /\ brokers'[s].release = pointer
        /\ ~Stage("idle") => s \notin operation.held
  <2>1. CASE StartBroker(s)
    BY <1>2, <2>1 DEF StartBroker
  <2>2. CASE EndBroker(s) \/ ConfirmBroker(s)
    BY <1>2, <2>2 DEF EndBroker, ConfirmBroker, RunningSessions, Running
  <2>3. QED
    BY <2>1, <2>2
<1>6. SUFFICES ASSUME ~Stage("idle"), operation.stage \in BeforeSwitch
               PROVE  Tolerated'
  BY <1>1 DEF Tolerated, Stage
<1>7. CASE operation.mode = "live"
  <2>1. pointer \in operation.declared /\ AllDeclared(operation.declared)
    BY <1>6, <1>7 DEF SwitchInv, Tolerated
  <2>2. AllDeclared(operation.declared)'
    <3>1. \A t \in RunningSessions : brokers[t].release \in operation.declared
      BY <2>1 DEF AllDeclared
    <3>2. RunningSessions' \subseteq BrokerSessions
      BY DEF RunningSessions
    <3>3. \A t \in RunningSessions' : brokers'[t].release \in operation'.declared
      BY <1>1, <1>3, <1>4, <1>5, <2>1, <3>1, <3>2
    <3>4. QED
      BY <3>3 DEF AllDeclared
  <2>3. QED
    BY <1>1, <1>7, <2>1, <2>2 DEF Tolerated
<1>8. CASE operation.mode # "live" /\ operation.stage # "locking"
  <2>1. /\ operation.held = operation.listed \ DOMAIN operation.plan
        /\ operation.held \intersect RunningSessions = {}
    BY <1>6, <1>8 DEF SwitchInv, Tolerated
  <2>2. operation.held \intersect RunningSessions' = {}
    BY <1>4, <1>5, <1>6, <2>1
  <2>3. QED
    BY <1>1, <1>8, <2>1, <2>2 DEF Tolerated
<1>9. QED
  BY <1>1, <1>7, <1>8 DEF Tolerated

LEMMA NextTolerated == SwitchInv /\ HomeInv' /\ [ReleaseNext]_releaseVars => Tolerated'
<1> SUFFICES ASSUME SwitchInv, HomeInv', [ReleaseNext]_releaseVars PROVE Tolerated'
  OBVIOUS
<1>1. Tolerated /\ HomeInv /\ TypeOK /\ (~Stage("idle") => operation \in Operations)
  BY Begun DEF SwitchInv, HomeInv
<1>2. CASE UNCHANGED releaseVars
  BY <1>1, <1>2 DEF releaseVars, Tolerated, Stage, AllDeclared, RunningSessions, Running
\* What concludes, and what follows the switch, has nothing left to switch.
<1>3. ASSUME operation'.stage \notin BeforeSwitch
      PROVE  Tolerated'
  BY <1>3 DEF Tolerated
<1>4. \A result : Conclude(result) => operation'.stage \notin BeforeSwitch
  BY DEF Conclude, NoOperation, BeforeSwitch, Opening, Unswitched
<1>5. CASE \E kind \in {"install", "rollback"}, mode \in Modes, declared \in SUBSET Releases,
              r \in Releases \union {"legacy"} : BeginOperation(kind, mode, r, declared)
  <2>1. PICK kind \in {"install", "rollback"}, mode \in Modes, declared \in SUBSET Releases,
             r \in Releases \union {"legacy"} : BeginOperation(kind, mode, r, declared)
    BY <1>5
  <2>2. /\ operation'.stage = "locking" /\ operation'.mode = mode
        /\ operation'.declared = declared /\ UNCHANGED <<pointer, brokers>>
        /\ mode = "live" => LiveReady(declared)
    BY <2>1 DEF BeginOperation, home, brokerState
  <2>3. QED
    BY <2>2 DEF Tolerated, LiveReady, AllDeclared, RunningSessions, Running
<1>6. CASE Adopt
  BY <1>1, <1>6 DEF Adopt, Tolerated, Stage, AllDeclared, RunningSessions, Running, brokerState
<1>7. CASE LockState
  <2>1. CASE Conclude("failed")
    BY <1>3, <1>4, <2>1
  <2>2. CASE ~Conclude("failed")
    <3> DEFINE held == IF operation.mode = "live" THEN {}
                       ELSE operation.listed \ Exempt(operation)
    <3>1. /\ operation' = [operation EXCEPT !.stage = "checking", !.held = held]
          /\ held \intersect RunningSessions = {} /\ UNCHANGED <<pointer, brokers>>
          /\ ~Stage("idle") /\ operation.stage \in BeforeSwitch
      BY <1>7, <2>2 DEF LockState, home, brokerState, Stage, BeforeSwitch, Opening
    <3>2. /\ operation'.held = held /\ operation'.mode = operation.mode
          /\ operation'.listed = operation.listed /\ operation'.plan = operation.plan
          /\ operation'.declared = operation.declared
      BY <1>1, <3>1 DEF Operations
    <3>3. UNCHANGED RunningSessions /\ UNCHANGED AllDeclared(operation.declared)
      BY <3>1, <3>2 DEF RunningSessions, Running, AllDeclared
    <3>4. QED
      BY <1>1, <3>1, <3>2, <3>3 DEF Tolerated, Exempt
  <2>3. QED
    BY <2>1, <2>2
<1>8. CASE CheckState
  <2>1. CASE Conclude("failed")
    BY <1>3, <1>4, <2>1
  <2>2. CASE ~Conclude("failed")
    <3>1. /\ \E stage \in {"extracting", "linking", "rechecking"} :
               operation' = [operation EXCEPT !.previous = pointer, !.stage = stage]
          /\ UNCHANGED <<pointer, brokers>>
          /\ ~Stage("idle") /\ operation.stage = "checking"
      BY <1>8, <2>2 DEF CheckState, home, brokerState, Stage
    <3>2. /\ operation'.held = operation.held /\ operation'.mode = operation.mode
          /\ operation'.listed = operation.listed /\ operation'.plan = operation.plan
          /\ operation'.declared = operation.declared /\ operation'.stage # "locking"
      BY <1>1, <3>1 DEF Operations
    <3>3. QED
      BY <1>1, <3>1, <3>2, StillTolerated DEF BeforeSwitch, Opening
  <2>3. QED
    BY <2>1, <2>2
<1>9. ASSUME NEW stage \in Stages, Proceed(stage), stage # "locking", UNCHANGED pointer,
             UNCHANGED brokers, ~Stage("idle"), operation.stage # "locking",
             stage \in BeforeSwitch => operation.stage \in BeforeSwitch
      PROVE  Tolerated'
  BY <1>1, <1>3, <1>9, ProceedKeeps, StillTolerated
<1>10. CASE Extract \/ Build \/ Recheck \/ WriteWrapper \/ Link
  <2>1. PICK stage \in {"building", "rechecking", "failing", "opening", "linking", "replacing"} :
             /\ Proceed(stage) /\ UNCHANGED <<pointer, brokers>> /\ ~Stage("idle")
             /\ operation.stage # "locking" /\ operation.stage \in BeforeSwitch
    BY <1>10 DEF Extract, Build, Recheck, WriteWrapper, Link, Stage, home, brokerState,
                 BeforeSwitch, Opening, Unswitched
  <2>2. QED
    BY <1>9, <2>1 DEF Stages, BeforeSwitch, Unswitched
<1>11. CASE OpenWrapper
  <2>1. /\ operation' = [operation EXCEPT !.stage = "wrapping", !.rewriting = TRUE]
        /\ UNCHANGED <<pointer, brokers>> /\ ~Stage("idle") /\ operation.stage = "opening"
    BY <1>11 DEF OpenWrapper, Stage, brokerState
  <2>2. /\ operation'.held = operation.held /\ operation'.mode = operation.mode
        /\ operation'.listed = operation.listed /\ operation'.plan = operation.plan
        /\ operation'.declared = operation.declared /\ operation'.stage = "wrapping"
    BY <1>1, <2>1 DEF Operations
  <2>3. QED
    BY <1>1, <2>1, <2>2, StillTolerated DEF BeforeSwitch, Unswitched
<1>12. CASE \/ Replace \/ OpenReport \/ Finish \/ Raise \/ RevertLive \/ RestoreWrapper
            \/ RemoveRelease \/ OperationDies
  <2>1. \/ \E result : Conclude(result)
        \/ \E stage \in {"reporting", "reported", "failing", "removing"} :
             Proceed(stage) /\ ~Stage("idle")
        \/ operation' = operation /\ operation.stage = "failing"
    BY <1>12 DEF Replace, OpenReport, Finish, Raise, RevertLive, RestoreWrapper, RemoveRelease,
                 OperationDies, Stage
  <2>2. operation'.stage \notin BeforeSwitch
    BY <1>1, <1>4, <2>1, ProceedKeeps
       DEF BeforeSwitch, Opening, Unswitched, AfterSwitch, Stages
  <2>3. QED
    BY <1>3, <2>2
<1>13. CASE \E s \in BrokerSessions : StartBroker(s) \/ EndBroker(s) \/ ConfirmBroker(s)
  BY <1>13, BrokerTolerated
<1>14. QED
  BY <1>2, <1>5, <1>6, <1>7, <1>8, <1>10, <1>11, <1>12, <1>13 DEF ReleaseNext

\* When the pointer is switched, every broker that runs is of a declared
\* release, or of a session that was not there before, or was recognised when
\* the operation began.
THEOREM SwitchStaysDeclared == ReleaseSpec => SwitchIsDeclared
<1> DEFINE Declared ==
      Stage("replacing") /\ pointer' # pointer =>
        \A s \in RunningSessions :
          IF operation.mode = "live" THEN brokers[s].release \in operation.declared
          ELSE s \in operation.listed => s \in DOMAIN operation.plan
<1>1. ReleaseInit => SwitchInv
  BY InitHome DEF ReleaseInit, SwitchInv, Tolerated, Stage, NoOperation
<1>2. SwitchInv /\ [ReleaseNext]_releaseVars => SwitchInv'
  BY NextHome, NextTolerated DEF SwitchInv
<1>3. SwitchInv => Declared
  BY DEF SwitchInv, Tolerated, Stage, BeforeSwitch, Unswitched, AllDeclared
<1>4. SwitchInv /\ [ReleaseNext]_releaseVars => [Declared]_releaseVars
  BY <1>3
<1>5. QED
  BY <1>1, <1>2, <1>4, PTL DEF ReleaseSpec, SwitchIsDeclared

-----------------------------------------------------------------------------
\* Planned delegation: types.

Entries == [status : {"dispatching", "dispatched", "unknown"}, child : Nat,
            checks : {"none", "passed", "failed"}]
ChildSessions == [task : Tasks, turn : Nat, state : {"running", "finished", "broken"}]
Requests == [task : Tasks, place : {"deciding", "creating", "created"}, left : SUBSET Tasks]

DelegationTypes ==
  /\ deps \in [Tasks -> SUBSET Tasks] /\ turn \in Nat /\ inspected \in SUBSET Tasks
  /\ journal \in [Tasks -> Seq(Entries)] /\ children \in Seq(ChildSessions)
  /\ request \in {Idle} \union Requests

\* The inductive invariant: what the record of a task, the request in hand and
\* the children created say of one another.

Launched(t) == \E c \in DOMAIN children : children[c].task = t

Cleared(t) ==
  /\ Record(t).checks = "passed" /\ t \in inspected
  /\ \E b \in DOMAIN children : children[b].task = t /\ children[b].state = "finished"

AttemptsKnown ==
  \A t \in Tasks :
    /\ Record(t).status = "none" => ~Launched(t)
    /\ Record(t).status = "dispatching" =>
         request.task = t /\ request.place \in {"creating", "created"}
    /\ Record(t).checks # "none" => Record(t).status = "dispatched"

RequestKnown ==
  /\ request.place = "deciding" => Record(request.task).status = "none"
  /\ request.place \in {"creating", "created"} => Record(request.task).status = "dispatching"
  /\ request.place \in {"deciding", "creating"} =>
       ~Launched(request.task) /\ \A t \in deps[request.task] : t \in request.left \/ Cleared(t)
  /\ request.place = "creating" => request.left = {}

TurnsKnown ==
  /\ \A c \in DOMAIN children : children[c].turn <= turn
  /\ outcome = "accepted" => parent = "ended" /\ request = Idle

DelegationInv ==
  DelegationTypes /\ AttemptsKnown /\ RequestKnown /\ TurnsKnown /\ DelegationIsSound

LEMMA RequestTyped ==
  ASSUME DelegationTypes
  PROVE /\ request # Idle => request \in Requests
        /\ request.place \in {"idle", "deciding", "creating", "created"}
        /\ request.place = "idle" <=> request = Idle
        /\ request.place # "idle" =>
             request.task \in Tasks /\ deps[request.task] \in SUBSET Tasks
  BY DEF DelegationTypes, Requests, Idle

LEMMA RecordTyped ==
  ASSUME DelegationTypes, NEW t \in Tasks
  PROVE Record(t) \in Entries \union {NoRecord}
<1>1. journal[t] \in Seq(Entries)
  BY DEF DelegationTypes
<1> QED
  BY <1>1 DEF Record

LEMMA NoteIs ==
  ASSUME DelegationTypes, NEW t \in Tasks, NEW entry \in Entries, Note(t, entry)
  PROVE /\ journal' \in [Tasks -> Seq(Entries)]
        /\ Record(t)' = entry /\ \A u \in Tasks : u # t => Record(u)' = Record(u)
<1>1. journal[t] \in Seq(Entries) /\ journal \in [Tasks -> Seq(Entries)]
  BY DEF DelegationTypes
<1>2. journal'[t] = Append(journal[t], entry) /\ journal' \in [Tasks -> Seq(Entries)]
      /\ \A u \in Tasks : u # t => journal'[u] = journal[u]
  BY <1>1 DEF Note
<1>3. journal'[t] # <<>> /\ journal'[t][Len(journal'[t])] = entry
  BY <1>1, <1>2
<1> QED
  BY <1>2, <1>3 DEF Record

LEMMA InitDelegation == Init => DelegationInv
<1> SUFFICES ASSUME Init PROVE DelegationInv
  OBVIOUS
<1>1. DelegationTypes
  <2>1. deps \in [Tasks -> SUBSET Tasks]
    BY DEF Init, AcceptedPlans
  <2>2. journal \in [Tasks -> Seq(Entries)] /\ children \in Seq(ChildSessions)
    BY DEF Init
  <2> QED
    BY <2>1, <2>2 DEF Init, DelegationTypes
<1>2. children = <<>> /\ DOMAIN children = {}
  BY DEF Init
<1>3. \A t \in Tasks : Record(t) = NoRecord
  BY DEF Init, Record
<1>4. AttemptsKnown /\ RequestKnown /\ TurnsKnown
  BY <1>2, <1>3 DEF Init, AttemptsKnown, RequestKnown, TurnsKnown, Launched, NoRecord, Idle
<1>5. DelegationIsSound
  BY <1>2 DEF Init, DelegationIsSound, OneChildPerTask, DependenciesFirst, ReceiptIsWhole
<1> QED
  BY <1>1, <1>4, <1>5 DEF DelegationInv

\* The steps that keep the children, the plan and the turn, and accept nothing.
LEMMA SoundKept ==
  ASSUME DelegationInv, UNCHANGED <<deps, turn, children>>, inspected \subseteq inspected',
         outcome' # "accepted",
         \A t \in Tasks : Record(t).checks = "passed" => Record(t)'.checks = "passed"
  PROVE DelegationIsSound'
<1>1. OneChildPerTask'
  BY DEF DelegationInv, DelegationIsSound, OneChildPerTask
<1>2. DependenciesFirst'
  <2> SUFFICES ASSUME NEW c \in DOMAIN children, NEW t \in deps[children[c].task]
               PROVE /\ Record(t)'.checks = "passed"
                     /\ \E b \in DOMAIN children :
                          b < c /\ children[b].task = t /\ children[b].state = "finished"
                     /\ children[c].turn = turn => t \in inspected'
    BY DEF DependenciesFirst
  <2>1. /\ Record(t).checks = "passed"
        /\ \E b \in DOMAIN children :
             b < c /\ children[b].task = t /\ children[b].state = "finished"
        /\ children[c].turn = turn => t \in inspected
    BY DEF DelegationInv, DelegationIsSound, DependenciesFirst
  <2>2. children[c] \in ChildSessions
    BY DEF DelegationInv, DelegationTypes
  <2>3. t \in Tasks
    BY <2>2 DEF DelegationInv, DelegationTypes, ChildSessions
  <2> QED
    BY <2>1, <2>3
<1>3. ReceiptIsWhole'
  BY DEF ReceiptIsWhole
<1> QED
  BY <1>1, <1>2, <1>3 DEF DelegationIsSound

LEMMA BindParentKeeps ==
  ASSUME DelegationInv, BindParent \/ ParentEnds \/ TurnFails PROVE DelegationInv'
<1>1. UNCHANGED <<deps, turn, inspected, journal, children, request>> /\ outcome' # "accepted"
  BY DEF DelegationInv, TurnsKnown, BindParent, ParentEnds, TurnFails
<1>2. DelegationTypes'
  BY <1>1 DEF DelegationInv, DelegationTypes
<1>3. \A t \in Tasks : Record(t)' = Record(t)
  BY <1>1 DEF Record
<1>4. AttemptsKnown' /\ RequestKnown' /\ TurnsKnown'
  BY <1>1 DEF DelegationInv, AttemptsKnown, RequestKnown, TurnsKnown, Launched, Cleared, Record
<1> QED
  BY <1>1, <1>2, <1>3, <1>4, SoundKept DEF DelegationInv

LEMMA ReadKeeps == ASSUME DelegationInv, Read PROVE DelegationInv'
<1>1. /\ UNCHANGED <<deps, turn, outcome, journal, children, request>> /\ outcome # "accepted"
      /\ inspected \subseteq inspected' /\ inspected' \in SUBSET Tasks
  BY DEF DelegationInv, DelegationTypes, TurnsKnown, Read
<1>2. DelegationTypes'
  BY <1>1 DEF DelegationInv, DelegationTypes
<1>3. \A t \in Tasks : Record(t)' = Record(t)
  BY <1>1 DEF Record
<1>4. AttemptsKnown' /\ RequestKnown' /\ TurnsKnown'
  BY <1>1 DEF DelegationInv, AttemptsKnown, RequestKnown, TurnsKnown, Launched, Cleared, Record
<1> QED
  BY <1>1, <1>2, <1>3, <1>4, SoundKept DEF DelegationInv

\* A request that is answered, or refused, leaves nothing in hand.
LEMMA ReleasedKeeps ==
  ASSUME DelegationInv, request' = Idle, UNCHANGED <<plan, journal, children>>,
         request.place \notin {"creating", "created"}, outcome # "accepted"
  PROVE DelegationInv'
<1>1. DelegationTypes'
  BY DEF DelegationInv, DelegationTypes, plan
<1>2. \A t \in Tasks : Record(t)' = Record(t)
  BY DEF Record
<1>3. AttemptsKnown' /\ RequestKnown' /\ TurnsKnown'
  BY DEF DelegationInv, AttemptsKnown, RequestKnown, TurnsKnown, Launched, Record, plan, Idle
<1> QED
  BY <1>1, <1>2, <1>3, SoundKept DEF DelegationInv, plan

LEMMA DelegateKeeps ==
  ASSUME DelegationInv, NEW t \in Tasks, Delegate(t) PROVE DelegationInv'
<1>1. /\ request = Idle /\ request.place = "idle" /\ outcome # "accepted"
      /\ UNCHANGED <<plan, journal, children>>
  BY DEF Delegate, Idle, DelegationInv, TurnsKnown
<1>2. CASE Known(t) \/ Unknown(t)
  <2>1. request' = Idle
    BY <1>2 DEF Known, Unknown, Release
  <2> QED
    BY <1>1, <2>1, ReleasedKeeps
<1>3. CASE Fresh(t)
  <2>1. request' = [task |-> t, place |-> "deciding", left |-> deps[t]]
    BY <1>3 DEF Fresh
  <2>2. Record(t).status = "none"
    <3>1. Record(t) \in Entries \union {NoRecord}
      BY RecordTyped DEF DelegationInv
    <3>2. Record(t).status # "dispatching"
      BY <1>1 DEF DelegationInv, AttemptsKnown
    <3> QED
      BY <1>3, <3>1, <3>2 DEF Fresh, Entries, NoRecord
  <2>3. ~Launched(t) /\ deps[t] \in SUBSET Tasks
    BY <2>2 DEF DelegationInv, AttemptsKnown, DelegationTypes
  <2>4. request' \in Requests /\ DelegationTypes'
    BY <1>1, <2>1, <2>3 DEF DelegationInv, DelegationTypes, Requests, plan
  <2>5. \A u \in Tasks : Record(u)' = Record(u) /\ Launched(u)' = Launched(u)
    BY <1>1 DEF Record, Launched
  <2>6. AttemptsKnown'
    BY <1>1, <2>1, <2>5 DEF DelegationInv, AttemptsKnown
  <2>7. RequestKnown'
    BY <1>1, <2>1, <2>2, <2>3, <2>5 DEF RequestKnown, plan
  <2>8. TurnsKnown'
    BY <1>1 DEF DelegationInv, TurnsKnown, plan
  <2> QED
    BY <1>1, <2>4, <2>5, <2>6, <2>7, <2>8, SoundKept DEF DelegationInv, plan
<1> QED
  BY <1>2, <1>3 DEF Delegate

\* A dependency that is ready is not the task that is asked for, and its check
\* is written beside the session it already names.
LEMMA CheckDependencyKeeps ==
  ASSUME DelegationInv, NEW t \in Tasks, CheckDependency(t) PROVE DelegationInv'
<1>1. /\ request.place = "deciding" /\ t \in request.left /\ Ready(t)
      /\ UNCHANGED <<plan, children>>
  BY DEF CheckDependency
<1>2. PICK result \in {"passed", "failed"} :
        /\ Checked(t, result)
        /\ IF result = "passed" THEN request' = [request EXCEPT !.left = @ \ {t}]
                                ELSE request' = Idle
  BY DEF CheckDependency, Release
<1>3. request \in Requests /\ request.task \in Tasks /\ request # Idle
      /\ Record(request.task).status = "none" /\ ~Launched(request.task)
  BY <1>1, RequestTyped DEF DelegationInv, RequestKnown, Idle, Requests
<1>4. Record(t) \in Entries /\ Record(t).status = "dispatched" /\ t # request.task
  BY <1>1, <1>3, RecordTyped DEF Ready, DelegationInv, NoRecord
<1>5. outcome # "accepted"
  BY <1>3 DEF DelegationInv, TurnsKnown
<1>6. /\ journal' \in [Tasks -> Seq(Entries)]
      /\ Record(t)'.status = "dispatched" /\ Record(t)'.checks = result
      /\ \A u \in Tasks : u # t => Record(u)' = Record(u)
      /\ Record(t).checks = "passed" => result = "passed"
  <2>1. CASE Record(t).checks = "passed"
    <3>1. result = "passed" /\ journal' = journal
      BY <1>2, <2>1 DEF Checked
    <3> QED
      BY <1>4, <2>1, <3>1 DEF Record, DelegationInv, DelegationTypes
  <2>2. CASE Record(t).checks # "passed"
    <3> DEFINE entry == [Record(t) EXCEPT !.checks = result]
    <3>1. Note(t, entry)
      BY <1>2, <2>2 DEF Checked
    <3>2. entry \in Entries /\ entry.status = "dispatched" /\ entry.checks = result
      BY <1>4, <1>2 DEF Entries
    <3> HIDE DEF entry
    <3> QED
      BY <2>2, <3>1, <3>2, NoteIs DEF DelegationInv
  <2> QED
    BY <2>1, <2>2
<1>7. request' \in {Idle} \union Requests
  BY <1>2, <1>3 DEF Requests
<1>8. DelegationTypes'
  BY <1>1, <1>6, <1>7 DEF DelegationInv, DelegationTypes, plan
<1>9. \A u \in Tasks : Record(u)'.status = Record(u).status /\ Launched(u)' = Launched(u)
  BY <1>1, <1>4, <1>6 DEF Launched
<1>10. AttemptsKnown'
  <2> SUFFICES ASSUME NEW u \in Tasks
               PROVE /\ Record(u).status = "none" => ~Launched(u)
                     /\ Record(u).status # "dispatching"
                     /\ Record(u)'.checks # "none" => Record(u).status = "dispatched"
    BY <1>9 DEF AttemptsKnown
  <2>1. Record(u).status # "dispatching" /\ (Record(u).status = "none" => ~Launched(u))
    BY <1>1 DEF DelegationInv, AttemptsKnown
  <2>2. Record(u).checks # "none" => Record(u).status = "dispatched"
    BY DEF DelegationInv, AttemptsKnown
  <2> QED
    BY <1>4, <1>6, <2>1, <2>2
<1>11. RequestKnown'
  <2>1. CASE request' = Idle
    BY <2>1 DEF RequestKnown, Idle
  <2>2. CASE result = "passed" /\ request' = [request EXCEPT !.left = @ \ {t}]
    <3>1. /\ request'.place = "deciding" /\ request'.task = request.task
          /\ request'.left = request.left \ {t}
      BY <1>1, <1>3, <2>2 DEF Requests
    <3>2. Cleared(t)'
      <4>1. PICK c \in DOMAIN children : children[c].task = t /\ children[c].state = "finished"
        BY <1>1 DEF Ready, Finished, Own, Owned
      <4>2. t \in inspected
        BY <1>1 DEF Ready
      <4> QED
        BY <1>1, <1>6, <2>2, <4>1, <4>2 DEF Cleared, plan
    <3>3. \A u \in Tasks : Cleared(u) => Cleared(u)'
      BY <1>1, <1>6, <3>2 DEF Cleared, plan
    <3>4. \A u \in deps[request.task] : u \in request.left \/ Cleared(u)
      BY <1>1 DEF DelegationInv, RequestKnown
    <3>5. \A u \in deps[request.task] : u \in Tasks
      BY <1>3 DEF DelegationInv, DelegationTypes
    <3>6. \A u \in deps[request.task] : u \in request'.left \/ Cleared(u)'
      BY <3>1, <3>2, <3>3, <3>4, <3>5
    <3>7. PICK task \in Tasks : task = request.task
      BY <1>3
    <3>8. Record(task)'.status = "none" /\ ~Launched(task)'
      BY <1>3, <1>9, <3>7
    <3> QED
      BY <1>1, <3>1, <3>6, <3>7, <3>8 DEF RequestKnown, plan
  <2> QED
    BY <1>2, <2>1, <2>2
<1>12. TurnsKnown'
  BY <1>1, <1>5 DEF DelegationInv, TurnsKnown, plan
<1>13. DelegationIsSound'
  BY <1>1, <1>5, <1>6, SoundKept DEF plan
<1> QED
  BY <1>8, <1>10, <1>11, <1>12, <1>13 DEF DelegationInv

\* The three entries of an attempt: dispatching, dispatched and unknown.
LEMMA AttemptKeeps ==
  ASSUME DelegationInv, Dispatch \/ RecordChild \/ AttemptFails PROVE DelegationInv'
<1>1. request.place \in {"deciding", "creating", "created"} /\ UNCHANGED <<plan, children>>
  BY DEF Dispatch, RecordChild, AttemptFails
<1>2. PICK task \in Tasks : task = request.task /\ request \in Requests /\ request # Idle
  BY <1>1, RequestTyped DEF DelegationInv, Idle, Requests
<1>3. outcome # "accepted" /\ Record(task).checks # "passed"
  <2>1. Record(task).status \in {"none", "dispatching"}
    BY <1>1, <1>2 DEF DelegationInv, RequestKnown
  <2> QED
    BY <1>2, <2>1 DEF DelegationInv, TurnsKnown, AttemptsKnown
<1>4. PICK entry \in Entries :
        /\ Note(task, entry) /\ entry.checks = "none"
        /\ \/ /\ entry.status = "dispatching" /\ request.left = {}
              /\ request.place = "deciding" /\ request' = [request EXCEPT !.place = "creating"]
           \/ entry.status \in {"dispatched", "unknown"} /\ request' = Idle
  <2>1. CASE Dispatch
    <3>1. Entry("dispatching", 0) \in Entries /\ Entry("dispatching", 0).checks = "none"
          /\ Entry("dispatching", 0).status = "dispatching"
      BY DEF Entry, Entries
    <3> QED
      BY <1>2, <2>1, <3>1 DEF Dispatch
  <2>2. CASE RecordChild
    <3>1. PICK n \in Nat : n = Len(children)
      BY DEF DelegationInv, DelegationTypes
    <3>2. Entry("dispatched", n) \in Entries /\ Entry("dispatched", n).checks = "none"
          /\ Entry("dispatched", n).status = "dispatched"
      BY DEF Entry, Entries
    <3> QED
      BY <1>2, <2>2, <3>1, <3>2 DEF RecordChild, Release
  <2>3. CASE AttemptFails
    <3>1. Entry("unknown", 0) \in Entries /\ Entry("unknown", 0).checks = "none"
          /\ Entry("unknown", 0).status = "unknown"
      BY DEF Entry, Entries
    <3> QED
      BY <1>2, <2>3, <3>1 DEF AttemptFails, Release
  <2> QED
    BY <2>1, <2>2, <2>3
<1>5. /\ journal' \in [Tasks -> Seq(Entries)] /\ Record(task)' = entry
      /\ \A u \in Tasks : u # task => Record(u)' = Record(u)
  BY <1>2, <1>4, NoteIs DEF DelegationInv
<1>6. \A u \in Tasks : Launched(u)' = Launched(u)
  BY <1>1 DEF Launched
<1>7. DelegationTypes'
  <2>1. request' \in {Idle} \union Requests
    BY <1>2, <1>4 DEF Requests
  <2> QED
    BY <1>1, <1>5, <2>1 DEF DelegationInv, DelegationTypes, plan
<1>8. \A u \in Tasks : u # task => Record(u).status # "dispatching"
  BY <1>2 DEF DelegationInv, AttemptsKnown
<1>9. CASE request' = [request EXCEPT !.place = "creating"]
           /\ entry.status = "dispatching" /\ request.place = "deciding" /\ request.left = {}
  <2>1. request'.place = "creating" /\ request'.task = task /\ request'.left = {}
    BY <1>2, <1>9 DEF Requests
  <2>2. AttemptsKnown'
    <3> SUFFICES ASSUME NEW u \in Tasks
                 PROVE /\ Record(u)'.status = "none" => ~Launched(u)
                       /\ Record(u)'.status = "dispatching" => u = task
                       /\ Record(u)'.checks # "none" => Record(u)'.status = "dispatched"
      BY <1>6, <2>1 DEF AttemptsKnown
    <3> QED
      BY <1>4, <1>5, <1>8, <1>9 DEF DelegationInv, AttemptsKnown
  <2>3. RequestKnown'
    <3>1. ~Launched(task) /\ \A u \in deps[task] : Cleared(u)
      BY <1>2, <1>9 DEF DelegationInv, RequestKnown
    <3>2. \A u \in deps[task] : u \in Tasks
      BY <1>2 DEF DelegationInv, DelegationTypes
    <3>3. \A u \in deps[task] : Cleared(u)'
      <4> SUFFICES ASSUME NEW u \in deps[task] PROVE Cleared(u)'
        OBVIOUS
      <4>1. Cleared(u) /\ u \in Tasks /\ u # task
        BY <3>1, <3>2, <1>3 DEF Cleared
      <4> QED
        BY <1>1, <1>5, <4>1 DEF Cleared, plan
    <3> QED
      BY <1>1, <1>2, <1>5, <1>6, <1>9, <2>1, <3>1, <3>3 DEF RequestKnown, plan
  <2>4. TurnsKnown'
    BY <1>1, <1>3 DEF DelegationInv, TurnsKnown, plan
  <2> QED
    BY <1>1, <1>3, <1>5, <1>7, <2>2, <2>3, <2>4, SoundKept DEF DelegationInv, plan
<1>10. CASE request' = Idle /\ entry.status \in {"dispatched", "unknown"}
  <2>1. AttemptsKnown'
    <3> SUFFICES ASSUME NEW u \in Tasks
                 PROVE /\ Record(u)'.status = "none" => ~Launched(u)
                       /\ Record(u)'.status # "dispatching"
                       /\ Record(u)'.checks # "none" => Record(u)'.status = "dispatched"
      BY <1>6 DEF AttemptsKnown
    <3> QED
      BY <1>2, <1>4, <1>5, <1>8, <1>10 DEF DelegationInv, AttemptsKnown
  <2>2. RequestKnown' /\ TurnsKnown'
    BY <1>1, <1>3, <1>10 DEF DelegationInv, RequestKnown, TurnsKnown, plan, Idle
  <2> QED
    BY <1>1, <1>3, <1>5, <1>7, <2>1, <2>2, SoundKept DEF DelegationInv, plan
<1> QED
  BY <1>4, <1>9, <1>10

LEMMA CreateChildKeeps == ASSUME DelegationInv, CreateChild PROVE DelegationInv'
<1>1. /\ request.place = "creating" /\ request \in Requests /\ request # Idle
      /\ UNCHANGED <<plan, journal>> /\ request' = [request EXCEPT !.place = "created"]
  BY RequestTyped DEF CreateChild, DelegationInv, Idle
<1>2. PICK task \in Tasks : task = request.task
  BY <1>1 DEF Requests
<1>3. PICK n \in Nat : n = Len(children)
  BY DEF DelegationInv, DelegationTypes
<1> DEFINE session == [task |-> task, turn |-> turn, state |-> "running"]
<1>4. session \in ChildSessions
  BY <1>2 DEF ChildSessions, DelegationInv, DelegationTypes
<1>5. /\ children \in Seq(ChildSessions) /\ children' \in Seq(ChildSessions)
      /\ DOMAIN children = 1 .. n /\ DOMAIN children' = 1 .. n + 1
      /\ \A c \in DOMAIN children : children'[c] = children[c]
      /\ children'[n + 1].task = task /\ children'[n + 1].turn = turn
  <2>1. children \in Seq(ChildSessions) /\ children' = Append(children, session)
    BY <1>2 DEF CreateChild, DelegationInv, DelegationTypes
  <2> HIDE DEF session
  <2>2. /\ children' \in Seq(ChildSessions) /\ children'[n + 1] = session
        /\ DOMAIN children = 1 .. n /\ DOMAIN children' = 1 .. n + 1
        /\ \A c \in DOMAIN children : children'[c] = children[c]
    BY <1>3, <1>4, <2>1
  <2> QED
    BY <2>1, <2>2 DEF session
<1> HIDE DEF session
<1>6. /\ request'.place = "created" /\ request'.task = task /\ request'.left = request.left
      /\ request' \in Requests
  BY <1>1, <1>2 DEF Requests
<1>7. DelegationTypes'
  BY <1>1, <1>5, <1>6 DEF DelegationInv, DelegationTypes, plan
<1>8. Record(task).status = "dispatching" /\ ~Launched(task)
      /\ (\A t \in deps[task] : Cleared(t)) /\ outcome # "accepted" /\ deps[task] \in SUBSET Tasks
  BY <1>1, <1>2 DEF DelegationInv, RequestKnown, TurnsKnown, DelegationTypes
<1>9. \A t \in Tasks : Record(t)' = Record(t)
  BY <1>1 DEF Record
<1>10. \A t \in Tasks : Launched(t)' => Launched(t) \/ t = task
  BY <1>5 DEF Launched
<1>11. AttemptsKnown'
  <2> SUFFICES ASSUME NEW t \in Tasks
               PROVE /\ Record(t).status = "none" => ~Launched(t)'
                     /\ Record(t).status = "dispatching" => t = task
                     /\ Record(t).checks # "none" => Record(t).status = "dispatched"
    BY <1>6, <1>9 DEF AttemptsKnown
  <2> QED
    BY <1>2, <1>8, <1>10 DEF DelegationInv, AttemptsKnown
<1>12. RequestKnown' /\ TurnsKnown'
  <2>1. RequestKnown'
    BY <1>6, <1>8, <1>9 DEF RequestKnown
  <2>2. \A c \in DOMAIN children' : children'[c].turn <= turn
    <3>1. turn \in Nat /\ \A c \in 1 .. n : children[c].turn <= turn
      BY <1>5 DEF DelegationInv, DelegationTypes, TurnsKnown
    <3>2. \A c \in 1 .. n : children'[c].turn <= turn
      BY <1>5, <3>1
    <3>3. children'[n + 1].turn <= turn
      BY <1>5, <3>1
    <3> QED
      BY <1>3, <1>5, <3>2, <3>3
  <2> QED
    BY <1>1, <1>8, <2>1, <2>2 DEF TurnsKnown, plan
<1>13. OneChildPerTask'
  <2>1. \A c \in DOMAIN children : children[c].task # task
    BY <1>8 DEF Launched
  <2>2. \A b, c \in DOMAIN children : children[b].task = children[c].task => b = c
    BY DEF DelegationInv, DelegationIsSound, OneChildPerTask
  <2> QED
    BY <1>3, <1>5, <2>1, <2>2 DEF OneChildPerTask
<1>14. DependenciesFirst'
  <2> SUFFICES ASSUME NEW c \in DOMAIN children', NEW t \in deps[children'[c].task]
               PROVE /\ Record(t)'.checks = "passed"
                     /\ \E b \in DOMAIN children' :
                          b < c /\ children'[b].task = t /\ children'[b].state = "finished"
                     /\ children'[c].turn = turn => t \in inspected
    BY <1>1 DEF DependenciesFirst, plan
  <2>1. CASE c = n + 1
    <3>1. Cleared(t) /\ t \in Tasks
      BY <1>5, <1>8, <2>1
    <3> QED
      BY <1>3, <1>5, <1>9, <2>1, <3>1 DEF Cleared
  <2>2. CASE c # n + 1
    <3>1. c \in DOMAIN children /\ children'[c] = children[c]
      BY <1>3, <1>5, <2>2
    <3>2. /\ Record(t).checks = "passed"
          /\ \E b \in DOMAIN children :
               b < c /\ children[b].task = t /\ children[b].state = "finished"
          /\ children[c].turn = turn => t \in inspected
      BY <3>1 DEF DelegationInv, DelegationIsSound, DependenciesFirst
    <3>3. children[c] \in ChildSessions
      BY <1>5, <3>1
    <3>4. t \in Tasks
      BY <3>1, <3>3 DEF DelegationInv, DelegationTypes, ChildSessions
    <3> QED
      BY <1>3, <1>5, <1>9, <3>1, <3>2, <3>4
  <2> QED
    BY <2>1, <2>2
<1>15. ReceiptIsWhole'
  BY <1>1, <1>8 DEF ReceiptIsWhole, plan
<1> QED
  BY <1>7, <1>11, <1>12, <1>13, <1>14, <1>15 DEF DelegationInv, DelegationIsSound

\* A session that has finished stays finished: what was launched on the
\* strength of it, or accepted with it, keeps its ground.
LEMMA ChildEndsKeeps == ASSUME DelegationInv, ChildEnds PROVE DelegationInv'
<1>1. /\ UNCHANGED <<plan, journal, request>>
      /\ children \in Seq(ChildSessions)
  BY DEF ChildEnds, DelegationInv, DelegationTypes
<1>2. PICK c \in DOMAIN children, end \in {"finished", "broken"} :
        children[c].state = "running" /\ children' = [children EXCEPT ![c].state = end]
  BY DEF ChildEnds
<1>3. children[c] \in ChildSessions
  BY <1>1
<1> DEFINE session == [children[c] EXCEPT !.state = end]
<1>4. session \in ChildSessions /\ session.task = children[c].task
      /\ session.turn = children[c].turn
  BY <1>2, <1>3 DEF ChildSessions
<1>5. children' = [children EXCEPT ![c] = session]
  BY <1>2
<1> HIDE DEF session
<1>6. /\ children' \in Seq(ChildSessions) /\ DOMAIN children' = DOMAIN children
      /\ \A b \in DOMAIN children :
           /\ children'[b].task = children[b].task /\ children'[b].turn = children[b].turn
           /\ children[b].state = "finished" => children'[b].state = "finished"
  <2>1. /\ children' \in Seq(ChildSessions) /\ DOMAIN children' = DOMAIN children
        /\ \A b \in DOMAIN children : children'[b] = IF b = c THEN session ELSE children[b]
    BY <1>1, <1>4, <1>5
  <2> QED
    BY <1>2, <1>4, <2>1
<1>7. DelegationTypes'
  BY <1>1, <1>6 DEF DelegationInv, DelegationTypes, plan
<1>8. \A t \in Tasks : /\ Record(t)' = Record(t)
                       /\ Launched(t)' => Launched(t)
                       /\ Cleared(t) => Cleared(t)'
  BY <1>1, <1>6 DEF Record, Launched, Cleared, plan
<1>9. AttemptsKnown'
  BY <1>1, <1>8 DEF DelegationInv, AttemptsKnown
<1>10. RequestKnown'
  <2>1. CASE request = Idle
    BY <1>1, <2>1 DEF RequestKnown, Idle
  <2>2. CASE request # Idle
    <3>1. PICK task \in Tasks : task = request.task /\ deps[task] \in SUBSET Tasks
      BY <2>2, RequestTyped DEF DelegationInv
    <3> QED
      BY <1>1, <1>8, <3>1 DEF DelegationInv, RequestKnown, plan
  <2> QED
    BY <2>1, <2>2
<1>11. TurnsKnown' /\ OneChildPerTask'
  BY <1>1, <1>6 DEF DelegationInv, TurnsKnown, DelegationIsSound, OneChildPerTask, plan
<1>12. DependenciesFirst'
  <2> SUFFICES ASSUME NEW b \in DOMAIN children, NEW t \in deps[children[b].task]
               PROVE /\ Record(t)'.checks = "passed"
                     /\ \E a \in DOMAIN children :
                          a < b /\ children'[a].task = t /\ children'[a].state = "finished"
                     /\ children[b].turn = turn => t \in inspected
    BY <1>1, <1>6 DEF DependenciesFirst, plan
  <2>1. /\ Record(t).checks = "passed"
        /\ \E a \in DOMAIN children :
             a < b /\ children[a].task = t /\ children[a].state = "finished"
        /\ children[b].turn = turn => t \in inspected
    BY DEF DelegationInv, DelegationIsSound, DependenciesFirst
  <2>2. children[b] \in ChildSessions
    BY <1>1
  <2>3. t \in Tasks
    BY <2>2 DEF DelegationInv, DelegationTypes, ChildSessions
  <2> QED
    BY <1>6, <1>8, <2>1, <2>3
<1>13. ReceiptIsWhole'
  <2>1. \A t \in Tasks : Own(t)' = Own(t)
    BY <1>1, <1>6 DEF Own, Owned, plan
  <2> QED
    BY <1>1, <1>6, <1>8, <2>1 DEF DelegationInv, DelegationIsSound, ReceiptIsWhole, plan
<1> QED
  BY <1>7, <1>9, <1>10, <1>11, <1>12, <1>13 DEF DelegationInv, DelegationIsSound

LEMMA CompleteKeeps == ASSUME DelegationInv, Complete PROVE DelegationInv'
<1>1. /\ parent = "ended" /\ request = Idle /\ outcome' = "accepted"
      /\ \A t \in Tasks : Ready(t)
      /\ UNCHANGED <<deps, turn, parent, inspected, children, request>>
  BY DEF Complete
<1>2. \A t \in Tasks : /\ Record(t).status = "dispatched" /\ Record(t) \in Entries
                       /\ t \in inspected /\ Finished(t)
  BY <1>1, RecordTyped DEF Ready, DelegationInv, NoRecord
<1>3. \A t \in Tasks :
        journal'[t] \in Seq(Entries) /\ Record(t)'.status = "dispatched"
        /\ Record(t)'.checks = "passed"
  <2> SUFFICES ASSUME NEW t \in Tasks
               PROVE /\ journal'[t] \in Seq(Entries)
                     /\ Record(t)'.status = "dispatched" /\ Record(t)'.checks = "passed"
    OBVIOUS
  <2> DEFINE entry == [Record(t) EXCEPT !.checks = "passed"]
  <2>1. /\ entry \in Entries /\ entry.status = "dispatched" /\ entry.checks = "passed"
        /\ journal[t] \in Seq(Entries)
    BY <1>2 DEF Entries, DelegationInv, DelegationTypes
  <2>2. journal'[t] = IF Record(t).checks = "passed" THEN journal[t] ELSE Append(journal[t], entry)
    BY DEF Complete
  <2> HIDE DEF entry
  <2>3. CASE Record(t).checks = "passed"
    BY <1>2, <2>1, <2>2, <2>3 DEF Record
  <2>4. CASE Record(t).checks # "passed"
    <3>1. journal'[t] = Append(journal[t], entry)
      BY <2>2, <2>4
    <3>2. journal'[t] # <<>> /\ journal'[t][Len(journal'[t])] = entry
          /\ journal'[t] \in Seq(Entries)
      BY <2>1, <3>1
    <3> QED
      BY <2>1, <3>2 DEF Record
  <2> QED
    BY <2>3, <2>4
<1>4. journal' \in [Tasks -> Seq(Entries)]
  BY <1>3 DEF Complete
<1>5. DelegationTypes'
  BY <1>1, <1>4 DEF DelegationInv, DelegationTypes
<1>6. AttemptsKnown'
  BY <1>3 DEF AttemptsKnown
<1>7. RequestKnown'
  BY <1>1 DEF RequestKnown, Idle
<1>8. TurnsKnown' /\ OneChildPerTask'
  BY <1>1 DEF DelegationInv, TurnsKnown, DelegationIsSound, OneChildPerTask
<1>9. DependenciesFirst'
  <2> SUFFICES ASSUME NEW c \in DOMAIN children, NEW t \in deps[children[c].task]
               PROVE /\ Record(t)'.checks = "passed"
                     /\ \E b \in DOMAIN children :
                          b < c /\ children[b].task = t /\ children[b].state = "finished"
                     /\ children[c].turn = turn => t \in inspected
    BY <1>1 DEF DependenciesFirst
  <2>1. /\ \E b \in DOMAIN children :
             b < c /\ children[b].task = t /\ children[b].state = "finished"
        /\ children[c].turn = turn => t \in inspected
    BY DEF DelegationInv, DelegationIsSound, DependenciesFirst
  <2>2. children[c] \in ChildSessions
    BY DEF DelegationInv, DelegationTypes
  <2>3. t \in Tasks
    BY <2>2 DEF DelegationInv, DelegationTypes, ChildSessions
  <2> QED
    BY <1>3, <2>1, <2>3
<1>10. ReceiptIsWhole'
  <2>1. \A t \in Tasks : Own(t)' = Own(t)
    BY <1>1 DEF Own, Owned
  <2>2. \A t \in Tasks : \E c \in DOMAIN children :
          Own(t) = {c} /\ children[c].state = "finished"
    BY <1>2 DEF Finished, Own
  <2> QED
    BY <1>1, <1>2, <1>3, <2>1, <2>2 DEF ReceiptIsWhole
<1> QED
  BY <1>5, <1>6, <1>7, <1>8, <1>9, <1>10 DEF DelegationInv, DelegationIsSound

LEMMA RemediateKeeps == ASSUME DelegationInv, Remediate PROVE DelegationInv'
<1>1. /\ request = Idle /\ turn' = turn + 1 /\ outcome' = "open" /\ inspected' = {}
      /\ UNCHANGED <<deps, journal, children, request>> /\ turn \in Nat
  BY DEF Remediate, DelegationInv, TurnsKnown, DelegationTypes
<1>2. DelegationTypes'
  BY <1>1 DEF DelegationInv, DelegationTypes
<1>3. \A t \in Tasks : Record(t)' = Record(t)
  BY <1>1 DEF Record
<1>4. AttemptsKnown' /\ RequestKnown'
  BY <1>1, <1>3 DEF DelegationInv, AttemptsKnown, RequestKnown, Launched, Idle
<1>5. \A c \in DOMAIN children : children[c].turn \in Nat /\ children[c].turn <= turn
  <2> SUFFICES ASSUME NEW c \in DOMAIN children
               PROVE children[c].turn \in Nat /\ children[c].turn <= turn
    OBVIOUS
  <2>1. children[c] \in ChildSessions
    BY DEF DelegationInv, DelegationTypes
  <2> QED
    BY <2>1 DEF DelegationInv, TurnsKnown, ChildSessions
<1>6. TurnsKnown'
  BY <1>1, <1>5 DEF TurnsKnown
<1>7. OneChildPerTask' /\ ReceiptIsWhole'
  BY <1>1 DEF DelegationInv, DelegationIsSound, OneChildPerTask, ReceiptIsWhole
<1>8. DependenciesFirst'
  <2> SUFFICES ASSUME NEW c \in DOMAIN children, NEW t \in deps[children[c].task]
               PROVE /\ Record(t)'.checks = "passed"
                     /\ \E b \in DOMAIN children :
                          b < c /\ children[b].task = t /\ children[b].state = "finished"
                     /\ children[c].turn # turn'
    BY <1>1 DEF DependenciesFirst
  <2>1. /\ Record(t).checks = "passed"
        /\ \E b \in DOMAIN children :
             b < c /\ children[b].task = t /\ children[b].state = "finished"
    BY DEF DelegationInv, DelegationIsSound, DependenciesFirst
  <2>2. children[c] \in ChildSessions
    BY DEF DelegationInv, DelegationTypes
  <2>3. t \in Tasks
    BY <2>2 DEF DelegationInv, DelegationTypes, ChildSessions
  <2>4. children[c].turn # turn'
    BY <1>1, <1>5
  <2> QED
    BY <1>3, <2>1, <2>3, <2>4
<1> QED
  BY <1>2, <1>4, <1>6, <1>7, <1>8 DEF DelegationInv, DelegationIsSound

LEMMA NextDelegation == ASSUME DelegationInv, [Next]_vars PROVE DelegationInv'
<1>1. CASE BindParent \/ ParentEnds \/ TurnFails
  BY <1>1, BindParentKeeps
<1>2. CASE Read
  BY <1>2, ReadKeeps
<1>3. CASE ChildEnds
  BY <1>3, ChildEndsKeeps
<1>4. CASE \E t \in Tasks : Delegate(t) \/ CheckDependency(t)
  BY <1>4, DelegateKeeps, CheckDependencyKeeps
<1>5. CASE RefuseDependency
  <2>1. request' = Idle /\ request.place = "deciding" /\ UNCHANGED <<plan, journal, children>>
    BY <1>5 DEF RefuseDependency, Release
  <2>2. outcome # "accepted"
    BY <2>1 DEF DelegationInv, TurnsKnown, Idle
  <2> QED
    BY <2>1, <2>2, ReleasedKeeps
<1>6. CASE Dispatch \/ RecordChild \/ AttemptFails
  BY <1>6, AttemptKeeps
<1>7. CASE CreateChild
  BY <1>7, CreateChildKeeps
<1>8. CASE Complete
  BY <1>8, CompleteKeeps
<1>9. CASE Remediate
  BY <1>9, RemediateKeeps
<1>10. CASE UNCHANGED vars
  <2>1. UNCHANGED <<deps, turn, parent, outcome, inspected, journal, children, request>>
    BY <1>10 DEF vars, plan
  <2>2. DelegationTypes' /\ TurnsKnown'
    BY <2>1 DEF DelegationInv, DelegationTypes, TurnsKnown
  <2>3. AttemptsKnown' /\ RequestKnown'
    BY <2>1 DEF DelegationInv, AttemptsKnown, RequestKnown, Launched, Cleared, Record
  <2>4. OneChildPerTask' /\ DependenciesFirst'
    BY <2>1 DEF DelegationInv, DelegationIsSound, OneChildPerTask, DependenciesFirst, Record
  <2>5. ReceiptIsWhole'
    BY <2>1 DEF DelegationInv, DelegationIsSound, ReceiptIsWhole, Own, Owned, Record
  <2> QED
    BY <2>2, <2>3, <2>4, <2>5 DEF DelegationInv, DelegationIsSound
<1> QED
  BY <1>1, <1>2, <1>3, <1>4, <1>5, <1>6, <1>7, <1>8, <1>9, <1>10 DEF Next

\* Over any plan, any number of turns and any number of requests, a task of an
\* accepted plan is launched at most once, only after what it depends on was
\* finished, read and checked, and a turn is accepted only with the whole plan
\* (DelegationPolicy, scripts/noetic_harness.py, class DelegationPolicy).
THEOREM DelegationStaysSound == Spec => []DelegationIsSound
<1>1. Init => DelegationInv
  BY InitDelegation
<1>2. DelegationInv /\ [Next]_vars => DelegationInv'
  BY NextDelegation
<1>3. DelegationInv => DelegationIsSound
  BY DEF DelegationInv
<1> QED
  BY <1>1, <1>2, <1>3, PTL DEF Spec

-----------------------------------------------------------------------------
\* The review broker.  The attempts of a review follow the candidates one by
\* one, and what the router recorded follows the attempts.

Outcomes == {"success", "failure"}
AttemptRecords == [kind : {"decision", "rejection"}, id : DecisionIds, model : ToSet(Candidates),
                   faithful : BOOLEAN, invocations : {0, 1}, outcome : Outcomes]
ReviewStages == {"reading", "fetching", "rereading", "routing", "invoking", "reporting",
                 "proving", "refused"}
Reviews == [stage : ReviewStages, head : Heads, excluded : Seq(ToSet(Candidates)),
            attempts : Seq(AttemptRecords), ids : SUBSET DecisionIds,
            current : AttemptRecords \union {"none"},
            verdict : {"none", "pass", "changes-needed"}]

\* The n-th attempt is about the n-th candidate, and is of one of the two kinds.
FitsAt(attempt, n) ==
  /\ attempt.model = Candidates[n]
  /\ \/ attempt.kind = "decision" /\ attempt.faithful /\ attempt.invocations = 1
     \/ attempt.kind = "rejection" /\ attempt.invocations = 0 /\ attempt.outcome = "failure"

AttemptsFollow(r) ==
  /\ Len(r.attempts) <= 3
  /\ \A i \in 1 .. Len(r.attempts) :
       /\ FitsAt(r.attempts[i], i) /\ r.attempts[i].id \in r.ids
       /\ \A j \in 1 .. Len(r.attempts) : r.attempts[i].id = r.attempts[j].id => i = j

RecordFollows(r) ==
  /\ recorded \in Seq(DecisionIds \X Outcomes) /\ Len(recorded) = Len(r.attempts)
  /\ \A i \in 1 .. Len(r.attempts) :
       recorded[i] = <<r.attempts[i].id, r.attempts[i].outcome>>

\* While candidates are tried, every attempt so far has failed.
FailedSoFar(r) ==
  /\ Len(r.excluded) = Len(r.attempts)
  /\ \A i \in 1 .. Len(r.attempts) :
       r.excluded[i] = Candidates[i] /\ r.attempts[i].outcome = "failure"

CurrentFits(r) ==
  /\ Len(r.attempts) < 3 /\ r.current \in AttemptRecords
  /\ FitsAt(r.current, Len(r.attempts) + 1)
  /\ \A i \in 1 .. Len(r.attempts) : r.attempts[i].id # r.current.id

EndsWell(r) ==
  /\ Len(r.attempts) > 0
  /\ \A i \in 1 .. Len(r.attempts) :
       r.attempts[i].outcome = "failure" \/ i = Len(r.attempts)
  /\ r.attempts[Len(r.attempts)].outcome = "failure" => Len(r.attempts) = 3

OnTrack(r) ==
  /\ AttemptsFollow(r)
  /\ r.stage # "proving" => FailedSoFar(r)
  /\ r.stage \in {"invoking", "reporting"} => CurrentFits(r)
  /\ r.stage = "invoking" => r.current.kind = "decision"
  /\ r.stage = "proving" => EndsWell(r)

ReviewInv ==
  /\ review \in {NoReview} \union Reviews
  /\ review.stage \notin {"none", "refused"} => OnTrack(review) /\ RecordFollows(review)
  /\ requester.state = "answered" => review.stage = "none"
  /\ EvidenceIsRecorded

LEMMA CandidatesAre ==
  /\ Len(Candidates) = 3 /\ Candidates \in Seq(ToSet(Candidates))
  /\ \A i, j \in 1 .. 3 : Candidates[i] = Candidates[j] => i = j
  /\ \A i \in 1 .. 3 : Candidates[i] \in ToSet(Candidates)
<1>1. /\ Len(Candidates) = 3 /\ DOMAIN Candidates = 1 .. 3
      /\ Candidates[1] = "terra" /\ Candidates[2] = "sol" /\ Candidates[3] = "luna"
  BY DEF Candidates
<1>2. \A i \in 1 .. 3 : Candidates[i] \in ToSet(Candidates)
  BY <1>1 DEF ToSet
<1>3. Candidates \in Seq(ToSet(Candidates))
  <2>1. "terra" \in ToSet(Candidates) /\ "sol" \in ToSet(Candidates)
        /\ "luna" \in ToSet(Candidates)
    BY <1>1, <1>2
  <2> QED
    BY <2>1 DEF Candidates
<1>4. \A i, j \in 1 .. 3 : Candidates[i] = Candidates[j] => i = j
  <2>1. \A i \in 1 .. 3 : i = 1 \/ i = 2 \/ i = 3
    OBVIOUS
  <2> QED
    BY <1>1, <2>1
<1> QED
  BY <1>1, <1>2, <1>3, <1>4

\* With the first n candidates excluded the next one is the n + 1st.
LEMMA NextIs ==
  ASSUME NEW n \in 0 .. 3, NEW model, NEW excluded,
         \A i \in 1 .. n : Candidates[i] \in excluded,
         \A m \in excluded : \E i \in 1 .. n : m = Candidates[i]
  PROVE IsNext(model, excluded) <=> n < 3 /\ model = Candidates[n + 1]
<1>1. CASE IsNext(model, excluded)
  <2>1. PICK i \in 1 .. 3 : /\ model = Candidates[i] /\ model \notin excluded
                            /\ \A j \in 1 .. i - 1 : Candidates[j] \in excluded
    BY <1>1, CandidatesAre DEF IsNext
  <2>2. i > n
    BY <2>1
  <2>3. i <= n + 1
    <3> SUFFICES ASSUME i > n + 1 PROVE FALSE
      BY <2>1
    <3>1. n + 1 \in 1 .. i - 1
      BY <2>1
    <3>2. PICK k \in 1 .. n : Candidates[n + 1] = Candidates[k]
      BY <2>1, <3>1
    <3> QED
      BY <2>1, <3>1, <3>2, CandidatesAre
  <2> QED
    BY <1>1, <2>1, <2>2, <2>3
<1>2. CASE n < 3 /\ model = Candidates[n + 1]
  <2>1. model \notin excluded
    BY <1>2, CandidatesAre
  <2> QED
    BY <1>2, <2>1, CandidatesAre DEF IsNext
<1> QED
  BY <1>1, <1>2

\* What is excluded on the way is what was tried.
LEMMA NextCandidate ==
  ASSUME review \in Reviews, FailedSoFar(review), AttemptsFollow(review), NEW model
  PROVE /\ IsNext(model, ToSet(review.excluded)) <=>
             Len(review.attempts) < 3 /\ model = Candidates[Len(review.attempts) + 1]
        /\ Exhausted <=> Len(review.attempts) = 3
<1>1. PICK n \in 0 .. 3 : n = Len(review.attempts) /\ n = Len(review.excluded)
  <2>1. review.attempts \in Seq(AttemptRecords)
    BY DEF Reviews
  <2>2. Len(review.attempts) \in Nat
    BY <2>1
  <2>3. Len(review.attempts) <= 3
    BY DEF AttemptsFollow
  <2>4. Len(review.attempts) \in 0 .. 3
    <3>1. \A k \in Nat : k <= 3 => k \in 0 .. 3
      OBVIOUS
    <3> QED
      BY <2>2, <2>3, <3>1
  <2>5. Len(review.excluded) = Len(review.attempts)
    BY DEF FailedSoFar
  <2> QED
    BY <2>4, <2>5
<1>2. review.excluded \in Seq(ToSet(Candidates)) /\ DOMAIN review.excluded = 1 .. n
  BY <1>1 DEF Reviews
<1>3. \A i \in 1 .. n : review.excluded[i] = Candidates[i]
  BY <1>1 DEF FailedSoFar
<1>4. PICK excluded : excluded = ToSet(review.excluded)
  OBVIOUS
<1>5. /\ \A i \in 1 .. n : Candidates[i] \in excluded
      /\ \A m \in excluded : \E i \in 1 .. n : m = Candidates[i]
  BY <1>2, <1>3, <1>4 DEF ToSet
<1>6. IsNext(model, excluded) <=> n < 3 /\ model = Candidates[n + 1]
  BY <1>5, NextIs
<1> QED
  BY <1>1, <1>4, <1>6, CandidatesAre DEF Exhausted

\* A step that leaves the requester and what was recorded alone.
LEMMA StillReviewing ==
  ASSUME ReviewInv, UNCHANGED <<recorded, requester>>, review' \in Reviews,
         review.stage # "none", review'.stage = "refused" \/ OnTrack(review)',
         review'.attempts = review.attempts, review.stage # "refused"
  PROVE ReviewInv'
<1>1. RecordFollows(review)' \/ review'.stage = "refused"
  BY DEF ReviewInv, RecordFollows
<1>2. requester'.state # "answered"
  BY DEF ReviewInv
<1>3. EvidenceIsRecorded'
  BY <1>2 DEF EvidenceIsRecorded
<1> QED
  BY <1>1, <1>2, <1>3 DEF ReviewInv

LEMMA StepKeeps ==
  ASSUME ReviewInv, NEW stage \in ReviewStages, Step(stage), UNCHANGED <<recorded, requester>>,
         review.stage \in {"reading", "fetching", "rereading", "routing"},
         stage \in {"fetching", "rereading", "routing", "refused"}
           \/ (stage = "proving" /\ review.stage = "routing" /\ Exhausted)
  PROVE ReviewInv'
<1>1. review \in Reviews
  BY DEF ReviewInv, NoReview
<1>2. review' = [review EXCEPT !.stage = stage]
  BY DEF Step
<1>3. /\ review' \in Reviews /\ review'.stage = stage /\ review'.attempts = review.attempts
      /\ review'.ids = review.ids /\ review'.excluded = review.excluded
  BY <1>1, <1>2 DEF Reviews
<1>4. OnTrack(review) /\ FailedSoFar(review) /\ AttemptsFollow(review)
  BY DEF ReviewInv, OnTrack
<1>5. AttemptsFollow(review)' /\ FailedSoFar(review)'
  BY <1>3, <1>4 DEF AttemptsFollow, FailedSoFar
<1>6. stage = "proving" => EndsWell(review)'
  <2> SUFFICES ASSUME stage = "proving" PROVE EndsWell(review)'
    OBVIOUS
  <2>1. Len(review.attempts) = 3
    BY <1>1, <1>4, NextCandidate
  <2> QED
    BY <1>3, <1>4, <2>1 DEF FailedSoFar, EndsWell
<1>7. stage = "refused" \/ OnTrack(review)'
  BY <1>3, <1>5, <1>6 DEF OnTrack
<1> QED
  BY <1>3, <1>7, StillReviewing

LEMMA RequestKeeps ==
  ASSUME ReviewInv, NEW head \in Heads, NEW valid \in BOOLEAN, Request(head, valid)
  PROVE ReviewInv'
<1>1. PICK stage \in {"reading", "refused"} :
        review' = [stage |-> stage, head |-> head, excluded |-> <<>>, attempts |-> <<>>,
                   ids |-> {}, current |-> "none", verdict |-> "none"]
  BY DEF Request
<1>2. review' \in Reviews
  <2>1. <<>> \in Seq(ToSet(Candidates)) /\ <<>> \in Seq(AttemptRecords)
    OBVIOUS
  <2> QED
    BY <1>1, <2>1 DEF Reviews, ReviewStages
<1>3. OnTrack(review)'
  BY <1>1 DEF OnTrack, AttemptsFollow, FailedSoFar
<1>4. RecordFollows(review)'
  BY <1>1 DEF RecordFollows, Request
<1>5. requester'.state = "waiting"
  BY DEF Request
<1> QED
  BY <1>2, <1>3, <1>4, <1>5 DEF ReviewInv, EvidenceIsRecorded

\* A decision that is valid, or can be attributed, is about the next candidate.
LEMMA RouteKeeps == ASSUME ReviewInv, Route PROVE ReviewInv'
<1>1. review \in Reviews /\ review.stage = "routing" /\ UNCHANGED <<recorded, requester>>
  BY DEF ReviewInv, NoReview, Route, Reviewing, Aside
<1>2. OnTrack(review) /\ FailedSoFar(review) /\ AttemptsFollow(review)
  BY <1>1 DEF ReviewInv, OnTrack
<1>3. CASE Step("refused")
  BY <1>1, <1>3, StepKeeps DEF ReviewStages
<1>4. ASSUME NEW decision \in Decisions, review' = Judge(decision) PROVE ReviewInv'
  <2>1. CASE review' = [review EXCEPT !.stage = "refused"]
    BY <1>1, <2>1, StepKeeps DEF Step, ReviewStages
  <2>2. CASE review' # [review EXCEPT !.stage = "refused"]
    <3>1. PICK kind \in {"decision", "rejection"}, ids \in SUBSET DecisionIds :
            /\ decision.id \in DecisionIds /\ decision.id \notin review.ids
            /\ IsNext(decision.model, ToSet(review.excluded))
            /\ kind = "decision" => decision.faithful
            /\ review.ids \subseteq ids
            /\ review' = [review EXCEPT
                 !.stage = IF kind = "decision" THEN "invoking" ELSE "reporting",
                 !.ids = ids, !.current = Attempt(kind, decision, "failure")]
      <4>1. decision.id \notin review.ids
        BY <1>4, <2>2 DEF Judge
      <4>2. review.ids \in SUBSET DecisionIds
        BY <1>1 DEF Reviews
      <4>3. CASE ValidDecision(decision, ToSet(review.excluded))
        <5>1. review' = [review EXCEPT !.stage = "invoking", !.ids = @ \union {decision.id},
                                       !.current = Attempt("decision", decision, "failure")]
          BY <1>4, <4>1, <4>3 DEF Judge
        <5>2. /\ decision.id \in DecisionIds /\ decision.faithful
              /\ IsNext(decision.model, ToSet(review.excluded))
          BY <4>3 DEF ValidDecision
        <5>3. PICK ids \in SUBSET DecisionIds : ids = review.ids \union {decision.id}
          BY <4>2, <5>2
        <5>4. review' = [review EXCEPT
                !.stage = IF "decision" = "decision" THEN "invoking" ELSE "reporting",
                !.ids = ids, !.current = Attempt("decision", decision, "failure")]
          BY <5>1, <5>3
        <5> QED
          BY <4>1, <5>2, <5>3, <5>4
      <4>4. CASE ~ValidDecision(decision, ToSet(review.excluded))
        <5>1. /\ Attributable(decision, ToSet(review.excluded))
              /\ review' = [review EXCEPT !.stage = "reporting",
                              !.current = Attempt("rejection", decision, "failure")]
          BY <1>4, <2>2, <4>1, <4>4 DEF Judge
        <5>2. decision.id \in DecisionIds /\ IsNext(decision.model, ToSet(review.excluded))
          BY <5>1 DEF Attributable
        <5>3. PICK ids \in SUBSET DecisionIds : ids = review.ids
          BY <4>2
        <5>4. review' = [review EXCEPT
                !.stage = IF "rejection" = "decision" THEN "invoking" ELSE "reporting",
                !.ids = ids, !.current = Attempt("rejection", decision, "failure")]
          BY <1>1, <5>1, <5>3 DEF Reviews
        <5> QED
          BY <4>1, <5>2, <5>3, <5>4
      <4> QED
        BY <4>3, <4>4
    <3>2. decision.model \in ToSet(Candidates) /\ decision.faithful \in BOOLEAN
      BY DEF Decisions
    <3>3. PICK current : current = Attempt(kind, decision, "failure")
      OBVIOUS
    <3>4. /\ current \in AttemptRecords /\ current.model = decision.model
          /\ current.id = decision.id /\ current.kind = kind /\ current.outcome = "failure"
          /\ kind = "decision" => current.faithful /\ current.invocations = 1
          /\ kind = "rejection" => current.invocations = 0
      BY <3>1, <3>2, <3>3 DEF Attempt, AttemptRecords, Outcomes
    <3>5. /\ review' \in Reviews /\ review'.attempts = review.attempts /\ review'.ids = ids
          /\ review'.excluded = review.excluded /\ review'.current = current
          /\ review'.stage = IF kind = "decision" THEN "invoking" ELSE "reporting"
      BY <1>1, <3>1, <3>3, <3>4 DEF Reviews, ReviewStages
    <3>6. Len(review.attempts) < 3 /\ decision.model = Candidates[Len(review.attempts) + 1]
      BY <1>1, <1>2, <3>1, NextCandidate
    <3>7. AttemptsFollow(review)' /\ FailedSoFar(review)'
      BY <1>2, <3>1, <3>5 DEF AttemptsFollow, FailedSoFar
    <3>8. CurrentFits(review)'
      <4>1. \A i \in 1 .. Len(review.attempts) : review.attempts[i].id # decision.id
        BY <1>2, <3>1 DEF AttemptsFollow
      <4>2. FitsAt(current, Len(review.attempts) + 1)
        BY <3>1, <3>4, <3>6 DEF FitsAt
      <4> QED
        BY <3>4, <3>5, <3>6, <4>1, <4>2 DEF CurrentFits
    <3>9. OnTrack(review)'
      BY <3>4, <3>5, <3>7, <3>8 DEF OnTrack
    <3> QED
      BY <1>1, <3>5, <3>9, StillReviewing
  <2> QED
    BY <2>1, <2>2
<1> QED
  BY <1>3, <1>4 DEF Route

LEMMA InvokeKeeps == ASSUME ReviewInv, Invoke PROVE ReviewInv'
<1>1. review \in Reviews /\ review.stage = "invoking" /\ UNCHANGED <<recorded, requester>>
  BY DEF ReviewInv, NoReview, Invoke, Reviewing, Aside
<1>2. /\ AttemptsFollow(review) /\ FailedSoFar(review) /\ CurrentFits(review)
      /\ review.current.kind = "decision"
  BY <1>1 DEF ReviewInv, OnTrack
<1>3. PICK outcome_ \in Outcomes, verdict \in {"none", "pass", "changes-needed"} :
        review' = [review EXCEPT !.stage = "reporting", !.current.outcome = outcome_,
                                 !.verdict = verdict]
  <2>1. CASE \E output \in Outputs :
          review' = [review EXCEPT !.stage = "reporting", !.current.outcome = "success",
                                   !.verdict = output.verdict]
    BY <2>1 DEF Outputs, Outcomes
  <2>2. CASE review' = [review EXCEPT !.stage = "reporting"]
    <3>1. review.current \in AttemptRecords
      BY <1>2 DEF CurrentFits
    <3>2. review.current.outcome \in Outcomes
      BY <3>1 DEF AttemptRecords
    <3>3. [review.current EXCEPT !.outcome = review.current.outcome] = review.current
      BY <3>1 DEF AttemptRecords
    <3>4. review.verdict \in {"none", "pass", "changes-needed"}
      BY <1>1 DEF Reviews
    <3>5. review' = [review EXCEPT !.stage = "reporting",
                       !.current.outcome = review.current.outcome, !.verdict = review.verdict]
      BY <1>1, <2>2, <3>3 DEF Reviews
    <3> QED
      BY <3>2, <3>4, <3>5
  <2> QED
    BY <2>1, <2>2 DEF Invoke
<1>4. PICK current : current = [review.current EXCEPT !.outcome = outcome_]
  OBVIOUS
<1>5. /\ current \in AttemptRecords /\ current.model = review.current.model
      /\ current.kind = "decision" /\ current.id = review.current.id
      /\ current.faithful = review.current.faithful
      /\ current.invocations = review.current.invocations
  BY <1>2, <1>3, <1>4 DEF CurrentFits, AttemptRecords
<1>6. /\ review' \in Reviews /\ review'.attempts = review.attempts
      /\ review'.ids = review.ids /\ review'.excluded = review.excluded
      /\ review'.current = current /\ review'.stage = "reporting"
  BY <1>1, <1>3, <1>4, <1>5 DEF Reviews, ReviewStages
<1>7. AttemptsFollow(review)' /\ FailedSoFar(review)'
  BY <1>2, <1>6 DEF AttemptsFollow, FailedSoFar
<1>8. CurrentFits(review)'
  BY <1>2, <1>5, <1>6 DEF CurrentFits, FitsAt
<1>9. OnTrack(review)'
  BY <1>6, <1>7, <1>8 DEF OnTrack
<1> QED
  BY <1>1, <1>6, <1>9, StillReviewing

\* Only what the router has recorded becomes an attempt.
LEMMA ReportKeeps == ASSUME ReviewInv, Report PROVE ReviewInv'
<1>1. review \in Reviews /\ review.stage = "reporting" /\ UNCHANGED requester
  BY DEF ReviewInv, NoReview, Report, Reviewing, Aside
<1>2. /\ AttemptsFollow(review) /\ FailedSoFar(review) /\ CurrentFits(review)
      /\ RecordFollows(review) /\ requester.state # "answered"
  BY <1>1 DEF ReviewInv, OnTrack
<1>3. CASE Step("refused")
  <2>1. review' \in Reviews /\ review'.stage = "refused"
    BY <1>1, <1>3 DEF Step, Reviews, ReviewStages
  <2> QED
    BY <1>1, <1>2, <2>1 DEF ReviewInv, EvidenceIsRecorded
<1>4. CASE /\ review' = Reported
           /\ recorded' = Append(recorded, <<review.current.id, review.current.outcome>>)
  <2>1. PICK current \in AttemptRecords : current = review.current
    BY <1>2 DEF CurrentFits
  <2>2. PICK n \in 0 .. 2 : n = Len(review.attempts)
    <3>1. review.attempts \in Seq(AttemptRecords)
      BY <1>1 DEF Reviews
    <3>2. PICK n \in Nat : n = Len(review.attempts)
      BY <3>1
    <3>3. n < 3
      BY <1>2, <3>2 DEF CurrentFits
    <3>4. n \in 0 .. 2
      BY <3>3
    <3> QED
      BY <3>2, <3>4
  <2>3. PICK attempts \in Seq(AttemptRecords) :
          /\ attempts = Append(review.attempts, current) /\ Len(attempts) = n + 1
          /\ attempts[n + 1] = current
          /\ \A i \in 1 .. n : attempts[i] = review.attempts[i]
    <3>1. review.attempts \in Seq(AttemptRecords)
      BY <1>1 DEF Reviews
    <3>2. PICK old \in Seq(AttemptRecords) : old = review.attempts /\ Len(old) = n
      BY <2>2, <3>1
    <3>3. PICK new : new = Append(old, current)
      OBVIOUS
    <3>4. /\ new \in Seq(AttemptRecords) /\ Len(new) = n + 1 /\ new[n + 1] = current
          /\ \A i \in 1 .. n : new[i] = old[i]
      BY <2>2, <3>2, <3>3
    <3> QED
      BY <3>2, <3>3, <3>4
  <2>4. /\ current.id \in DecisionIds /\ current.outcome \in Outcomes
        /\ current.model \in ToSet(Candidates)
    BY <2>1 DEF AttemptRecords
  <2>5. PICK excluded \in Seq(ToSet(Candidates)) :
          /\ excluded = IF current.outcome = "success" THEN review.excluded
                        ELSE Append(review.excluded, current.model)
          /\ current.outcome = "failure" =>
               /\ Len(excluded) = n + 1 /\ excluded[n + 1] = current.model
               /\ \A i \in 1 .. n : excluded[i] = review.excluded[i]
    <3>1. review.excluded \in Seq(ToSet(Candidates)) /\ Len(review.excluded) = n
      BY <1>1, <1>2, <2>2 DEF Reviews, FailedSoFar
    <3>2. CASE current.outcome = "success"
      BY <3>1, <3>2
    <3>3. CASE current.outcome # "success"
      <4>1. PICK model \in ToSet(Candidates) : model = current.model
        BY <2>4
      <4>2. PICK old \in Seq(ToSet(Candidates)) : old = review.excluded /\ Len(old) = n
        BY <3>1
      <4>3. PICK new : new = Append(old, model)
        OBVIOUS
      <4>4. /\ new \in Seq(ToSet(Candidates)) /\ Len(new) = n + 1 /\ new[n + 1] = model
            /\ \A i \in 1 .. n : new[i] = old[i]
        BY <2>2, <4>2, <4>3
      <4> QED
        BY <3>3, <4>1, <4>2, <4>3, <4>4
    <3> QED
      BY <3>2, <3>3
  <2>6. /\ review' \in Reviews /\ review'.attempts = attempts /\ review'.excluded = excluded
        /\ review'.ids = review.ids \union {current.id}
        /\ review'.stage = IF current.outcome = "success" THEN "proving" ELSE "routing"
    BY <1>1, <1>4, <2>1, <2>3, <2>4, <2>5 DEF Reported, Reviews, ReviewStages
  <2>7. FitsAt(current, n + 1) /\ \A i \in 1 .. n : review.attempts[i].id # current.id
    BY <1>2, <2>1, <2>2 DEF CurrentFits
  <2>8. AttemptsFollow(review)'
    <3>1. \A i \in 1 .. n : /\ FitsAt(attempts[i], i) /\ attempts[i].id \in review.ids
                            /\ attempts[i].id # current.id
                            /\ \A j \in 1 .. n : attempts[i].id = attempts[j].id => i = j
      BY <1>2, <2>2, <2>3, <2>7 DEF AttemptsFollow
    <3>2. \A i \in 1 .. n + 1 : i \in 1 .. n \/ i = n + 1
      OBVIOUS
    <3>3. \A i \in 1 .. n + 1 :
            /\ FitsAt(attempts[i], i) /\ attempts[i].id \in review'.ids
            /\ \A j \in 1 .. n + 1 : attempts[i].id = attempts[j].id => i = j
      BY <2>3, <2>6, <2>7, <3>1, <3>2
    <3> QED
      BY SMTT(60), <2>2, <2>3, <2>6, <3>3 DEF AttemptsFollow
  <2>9. RecordFollows(review)'
    <3>1. /\ recorded \in Seq(DecisionIds \X Outcomes) /\ Len(recorded) = n
          /\ \A i \in 1 .. n : recorded[i] = <<review.attempts[i].id, review.attempts[i].outcome>>
      BY <1>2, <2>2 DEF RecordFollows
    <3>2. PICK pair \in DecisionIds \X Outcomes : pair = <<current.id, current.outcome>>
      BY <2>4
    <3>3. /\ recorded' \in Seq(DecisionIds \X Outcomes) /\ Len(recorded') = n + 1
          /\ recorded'[n + 1] = pair /\ \A i \in 1 .. n : recorded'[i] = recorded[i]
      BY <1>4, <2>1, <3>1, <3>2
    <3>4. \A i \in 1 .. n + 1 : recorded'[i] = <<attempts[i].id, attempts[i].outcome>>
      BY <2>3, <3>1, <3>2, <3>3
    <3> QED
      BY <2>3, <2>6, <3>3, <3>4 DEF RecordFollows
  <2>10. CASE current.outcome = "success"
    <3>1. EndsWell(review)'
      BY <1>2, <2>2, <2>3, <2>6, <2>10 DEF EndsWell, FailedSoFar
    <3>2. OnTrack(review)'
      BY <2>6, <2>8, <2>10, <3>1 DEF OnTrack
    <3> QED
      BY <1>1, <1>2, <2>6, <2>9, <3>2 DEF ReviewInv, EvidenceIsRecorded
  <2>11. CASE current.outcome # "success"
    <3>1. current.outcome = "failure" /\ current.model = Candidates[n + 1]
      BY <2>4, <2>7, <2>11 DEF Outcomes, FitsAt
    <3>2. FailedSoFar(review)'
      BY <1>2, <2>2, <2>3, <2>5, <2>6, <3>1 DEF FailedSoFar
    <3>3. OnTrack(review)'
      BY <2>6, <2>8, <2>11, <3>2 DEF OnTrack
    <3> QED
      BY <1>1, <1>2, <2>6, <2>9, <3>3 DEF ReviewInv, EvidenceIsRecorded
  <2> QED
    BY <2>10, <2>11
<1> QED
  BY <1>3, <1>4 DEF Report

\* What the broker has followed step by step, the validator accepts as a whole.
LEMMA FollowedIsValid ==
  ASSUME review \in Reviews, AttemptsFollow(review), EndsWell(review)
  PROVE ValidEvidence(review.attempts)
<1>1. PICK attempts \in Seq(AttemptRecords) : attempts = review.attempts
  BY DEF Reviews
<1>2. PICK n \in 1 .. 3 : n = Len(attempts)
  <2>1. Len(attempts) \in Nat
    OBVIOUS
  <2>2. Len(attempts) <= 3 /\ Len(attempts) > 0
    BY <1>1 DEF AttemptsFollow, EndsWell
  <2>3. \A k \in Nat : k <= 3 /\ k > 0 => k \in 1 .. 3
    OBVIOUS
  <2> QED
    BY <2>1, <2>2, <2>3
<1>3. \A i \in 1 .. n : attempts[i] \in AttemptRecords
  BY <1>2
<1>4. \A i \in 1 .. n :
        /\ FitsAt(attempts[i], i)
        /\ \A j \in 1 .. n : attempts[i].id = attempts[j].id => i = j
  BY <1>1, <1>2 DEF AttemptsFollow
<1>5. /\ \A i \in 1 .. n : attempts[i].outcome = "failure" \/ i = n
      /\ attempts[n].outcome = "failure" => n = 3
  BY <1>1, <1>2 DEF EndsWell
<1>6. ASSUME NEW i \in 1 .. n PROVE ValidAttempt(attempts, i)
  <2>1. attempts[i].id \in DecisionIds
    BY <1>3, <1>6 DEF AttemptRecords
  <2>2. attempts[i].id \notin IdsBefore(attempts, i)
    <3>1. \A j \in 1 .. i - 1 : j \in 1 .. n /\ j # i
      BY <1>6
    <3>2. \A j \in 1 .. i - 1 : attempts[j].id # attempts[i].id
      BY <1>4, <1>6, <3>1
    <3> QED
      BY <3>2 DEF IdsBefore
  <2>3. attempts[i].model = Candidates[i]
    BY <1>4, <1>6 DEF FitsAt
  <2>4. IsNext(attempts[i].model, ModelsBefore(attempts, i))
    <3>1. PICK before \in 0 .. 2 : i = before + 1
      <4>1. i - 1 \in 0 .. 2 /\ i = (i - 1) + 1
        BY <1>6
      <4> QED
        BY <4>1
    <3>2. \A j \in 1 .. before : attempts[j].model = Candidates[j]
      BY <1>4, <3>1 DEF FitsAt
    <3>3. PICK models : models = ModelsBefore(attempts, i)
      OBVIOUS
    <3>4. models = {attempts[j].model : j \in 1 .. before}
      BY <3>1, <3>3 DEF ModelsBefore
    <3>5. /\ \A j \in 1 .. before : Candidates[j] \in models
          /\ \A m \in models : \E j \in 1 .. before : m = Candidates[j]
      BY <3>2, <3>4
    <3>6. IsNext(Candidates[i], models)
      BY <3>1, <3>5, NextIs
    <3> QED
      BY <2>3, <3>3, <3>6
  <2>5. \/ /\ attempts[i].kind = "decision" /\ attempts[i].faithful
           /\ attempts[i].invocations = 1
           /\ i < n => attempts[i].outcome = "failure"
        \/ /\ attempts[i].kind = "rejection"
           /\ attempts[i].invocations = 0 /\ attempts[i].outcome = "failure"
    <3>1. i < n => attempts[i].outcome = "failure"
      BY <1>5, <1>6
    <3> QED
      BY <1>4, <1>6, <3>1 DEF FitsAt
  <2> QED
    BY <1>2, <2>1, <2>2, <2>4, <2>5 DEF ValidAttempt
<1>7. Last(attempts).kind = "rejection" \/ Last(attempts).outcome = "failure" => n = 3
  BY <1>2, <1>4, <1>5 DEF Last, FitsAt
<1> QED
  BY <1>1, <1>2, <1>6, <1>7, CandidatesAre DEF ValidEvidence

LEMMA EvidenceStandsNow == ASSUME ReviewInv PROVE EvidenceIsTrue
<1>1. ASSUME Reviewing("proving") PROVE ValidEvidence(review.attempts)
  <2>1. review \in Reviews /\ AttemptsFollow(review) /\ EndsWell(review)
    BY <1>1 DEF ReviewInv, Reviewing, OnTrack, NoReview
  <2> QED
    BY <2>1, FollowedIsValid
<1> QED
  BY <1>1 DEF ReviewInv, EvidenceIsTrue, EvidenceStands

LEMMA AnswerKeeps == ASSUME ReviewInv, Prove \/ Refuse PROVE ReviewInv'
<1>1. review \in Reviews /\ requester.state # "answered" /\ review.stage # "none"
  BY DEF ReviewInv, NoReview, Prove, Refuse, Reviewing
<1>2. PICK status, attempts :
        /\ Answer(status, attempts)
        /\ status \in {"reviewed", "exhausted"} =>
             attempts = review.attempts /\ review.stage = "proving"
  <2>1. CASE Prove
    <3>1. review.stage = "proving"
      BY <2>1 DEF Prove, Reviewing
    <3> QED
      BY <2>1, <3>1 DEF Prove
  <2>2. CASE Refuse
    BY <2>2 DEF Refuse
  <2> QED
    BY <2>1, <2>2
<1>3. review' = NoReview /\ UNCHANGED recorded
      /\ requester' = IF requester.state = "waiting"
                      THEN [state |-> "answered", status |-> status,
                            verdict |-> review.verdict, attempts |-> attempts]
                      ELSE requester
  BY <1>2 DEF Answer, Deliver
<1>4. EvidenceIsRecorded'
  <2> SUFFICES ASSUME requester'.state = "answered",
                      requester'.status \in {"reviewed", "exhausted"}
               PROVE recorded = [i \in 1 .. Len(requester'.attempts) |->
                       <<requester'.attempts[i].id, requester'.attempts[i].outcome>>]
    BY <1>3 DEF EvidenceIsRecorded
  <2>1. requester'.attempts = attempts /\ requester'.status = status
    BY <1>1, <1>3
  <2>2. attempts = review.attempts /\ review.stage = "proving"
    BY <1>2, <2>1
  <2>3. RecordFollows(review)
    BY <2>2 DEF ReviewInv
  <2>4. review.attempts \in Seq(AttemptRecords)
    BY <1>1 DEF Reviews
  <2>5. PICK n \in Nat : n = Len(attempts)
    BY <2>2, <2>4
  <2>6. /\ recorded \in Seq(DecisionIds \X Outcomes) /\ Len(recorded) = n
        /\ \A i \in 1 .. n : recorded[i] = <<attempts[i].id, attempts[i].outcome>>
    BY <2>2, <2>3, <2>5 DEF RecordFollows
  <2>7. recorded \in [1 .. n -> DecisionIds \X Outcomes]
    BY <2>6
  <2>8. recorded = [i \in 1 .. n |-> <<attempts[i].id, attempts[i].outcome>>]
    BY <2>6, <2>7
  <2> QED
    BY <2>1, <2>5, <2>8
<1> QED
  BY <1>3, <1>4 DEF ReviewInv, NoReview

LEMMA ReviewAside ==
  ASSUME ReviewInv, UNCHANGED <<review, recorded>>,
         requester' = requester \/ requester' = [state |-> "gone"]
  PROVE ReviewInv'
<1>1. EvidenceIsRecorded' /\ (requester'.state = "answered" => review.stage = "none")
  BY DEF ReviewInv, EvidenceIsRecorded
<1>2. review.stage \notin {"none", "refused"} => OnTrack(review)' /\ RecordFollows(review)'
  BY DEF ReviewInv, OnTrack, RecordFollows, AttemptsFollow, FailedSoFar, CurrentFits, EndsWell
<1> QED
  BY <1>1, <1>2 DEF ReviewInv

LEMMA NextReview == ASSUME ReviewInv, [ReviewNext]_reviewVars PROVE ReviewInv'
<1>1. CASE \E head \in Heads, valid \in BOOLEAN : Request(head, valid)
  BY <1>1, RequestKeeps
<1>2. CASE ReadPull \/ FetchDiff \/ RereadPull
  <2>1. PICK stage \in {"fetching", "rereading", "routing", "refused"} :
          Step(stage) /\ review.stage \in {"reading", "fetching", "rereading"}
    BY <1>2 DEF ReadPull, FetchDiff, RereadPull, Reviewing
  <2>2. UNCHANGED <<recorded, requester>>
    BY <1>2 DEF ReadPull, FetchDiff, RereadPull, Aside
  <2> QED
    BY <2>1, <2>2, StepKeeps DEF ReviewStages
<1>3. CASE Route
  BY <1>3, RouteKeeps
<1>4. CASE Invoke
  BY <1>4, InvokeKeeps
<1>5. CASE Report
  BY <1>5, ReportKeeps
<1>6. CASE ConfirmExhaustion
  <2>1. review.stage = "routing" /\ Exhausted /\ UNCHANGED <<recorded, requester>>
    BY <1>6 DEF ConfirmExhaustion, Reviewing, Aside
  <2>2. PICK stage \in {"proving", "refused"} : Step(stage)
    BY <1>6 DEF ConfirmExhaustion
  <2> QED
    BY <2>1, <2>2, StepKeeps DEF ReviewStages
<1>7. CASE Prove \/ Refuse
  BY <1>7, AnswerKeeps
<1>8. CASE GiveUp \/ MovePull \/ RouterFails \/ Restart \/ UNCHANGED reviewVars
  <2>1. UNCHANGED <<review, recorded>>
        /\ (requester' = requester \/ requester' = [state |-> "gone"])
    BY <1>8 DEF GiveUp, MovePull, RouterFails, Restart, reviewVars
  <2> QED
    BY <2>1, ReviewAside
<1> QED
  BY <1>1, <1>2, <1>3, <1>4, <1>5, <1>6, <1>7, <1>8 DEF ReviewNext

\* However the router answers or dies, the requester gives up and the pull
\* request moves, the evidence of an answer is what the router recorded, attempt
\* by attempt, and what the broker accepted step by step is never disproved as a
\* whole by validate_route_evidence (agent_review_broker.py, review;
\* route_evidence.py:357-399).
THEOREM EvidenceStaysTrue == ReviewSpec => []EvidenceIsTrue
<1>1. ReviewInit => ReviewInv
  BY DEF ReviewInit, ReviewInv, NoReview, EvidenceIsRecorded
<1>2. ReviewInv /\ [ReviewNext]_reviewVars => ReviewInv'
  BY NextReview
<1>3. ReviewInv => EvidenceIsTrue
  BY EvidenceStandsNow
<1> QED
  BY <1>1, <1>2, <1>3, PTL DEF ReviewSpec

-----------------------------------------------------------------------------
\* The route attestation operator.

LEMMA MinIs ==
  ASSUME NEW S \in SUBSET Nat, S # {}
  PROVE Min(S) \in S /\ \A x \in S : Min(S) <= x
<1>1. PICK R : R = OpToRel(<, Nat)
  OBVIOUS
<1>2. R = {pair \in Nat \X Nat : pair[1] < pair[2]}
  BY <1>1, Zenon DEF OpToRel
<1>3. IsWellFoundedOn(R, Nat)
  BY <1>1, NatLessThanWellFounded
<1>4. PICK x \in S : \A y \in S : ~ (<<y, x>> \in R)
  BY <1>3, WFMin
<1>5. ASSUME NEW y \in S PROVE x <= y
  <2>1. <<y, x>> \in Nat \X Nat /\ <<y, x>>[1] = y /\ <<y, x>>[2] = x
    OBVIOUS
  <2>2. ~ (y < x)
    BY <1>2, <1>4, <2>1
  <2> QED
    BY <2>2
<1> QED
  BY <1>5 DEF Min

ReviewRuns == [pull : Pulls \union {"none"}, head : Nat, base : Nat, attempt : {1, 2},
               state : {"pending", "success", "failure"}, artifact : BOOLEAN, rules : BOOLEAN]
PullStates == [state : {"open", "closed", "merged"}, head : Nat, on : Nat]
Contexts == [run : ReviewRuns, pull : PullStates]
Listings == UNION {[S -> ReviewRuns] : S \in SUBSET Nat}
ListingPasses == [stage : {"listing"}, cursor : Nat, listing : Listings]
OnOneRun == {"loading", "validating", "judging", "reloading", "publishing"}
RunningPasses ==
  [stage : {"choosing", "advancing"} \union OnOneRun, cursor : Nat, queue : SUBSET Nat,
   recovering : BOOLEAN, again : SUBSET Nat, progress : Nat, blocked : BOOLEAN,
   before : Contexts \union {NothingRead}]

WorldTypes ==
  /\ runs \in Seq(ReviewRuns) /\ Len(runs) > 0
  /\ \A r \in RunIds : runs[r].pull \in Pulls
  /\ pulls \in [Pulls -> PullStates] /\ base \in Nat
  /\ oldest \in Nat \ {0} /\ cursor \in 1 .. Len(runs) /\ receipts \subseteq RunIds

OperatorTypes == operator \in [Operators -> {Resting} \union ListingPasses \union RunningPasses]

\* A run that could still be attested, and one that is dealt with.
Owed(r) == runs[r].attempt = 1 /\ runs[r].state # "failure"
Dealt(r) == r \in receipts \union skips \union dropped \/ InGap(r)
Behind(k) == \A r \in RunIds : r <= k /\ Owed(r) => Dealt(r)

\* A record of a run, and a later one.
Later(old, now) ==
  /\ now.pull = old.pull /\ now.head = old.head /\ now.base = old.base
  /\ old.attempt = 2 => now.attempt = 2
  /\ ~old.artifact => ~now.artifact
  /\ old.attempt = now.attempt /\ old.state # "pending" => now.state = old.state

Unbroken(S) == \A a, b \in S, x \in Nat : a <= x /\ x <= b => x \in S

ListingIsSound(pass) ==
  /\ pass.cursor \in 1 .. Len(runs) /\ Behind(pass.cursor)
  /\ DOMAIN pass.listing \subseteq DOMAIN runs /\ Unbroken(DOMAIN pass.listing)
  /\ \A r \in DOMAIN pass.listing : Later(pass.listing[r], runs[r])

\* A pass that is not held back has dealt with everything before its queue's
\* next run; a recovery deals with its one run, and its gap covers the rest.
UpToQueue(pass) ==
  \A x \in pass.queue, r \in RunIds \ pass.queue :
    pass.cursor < r /\ r < x /\ Owed(r) => Dealt(r)

OneRun(pass) ==
  \/ \E r \in RunIds : pass.queue = {r}
  \/ pass.queue = {} /\ pass.progress \in RunIds /\ Dealt(pass.progress)

MergedFor(r) ==
  /\ pulls[runs[r].pull].state = "merged"
  /\ pulls[runs[r].pull].head = runs[r].head /\ pulls[runs[r].pull].on = runs[r].base

\* A run that once succeeded at the first attempt and was merged as reviewed is
\* so for good, or attempted again; and one that does not stand then never will.
Committed(r) == MergedFor(r) /\ (runs[r].attempt = 1 => runs[r].state = "success")
Lost(r) == runs[r].attempt # 1 \/ ~runs[r].artifact

\* What is known of the run in hand at each stage.
Judged(stage, r) ==
  /\ stage \in {"validating", "judging", "reloading", "publishing"} => Committed(r)
  /\ stage = "reloading" => r \in together \/ Lost(r)
  /\ stage = "publishing" => r \in together

RunningIsSound(pass) ==
  /\ pass.cursor \in 1 .. Len(runs) /\ Behind(pass.cursor)
  /\ pass.queue \subseteq RunIds /\ pass.progress \in 0 .. Len(runs)
  /\ pass.stage \in OnOneRun => pass.queue # {}
  /\ Judged(pass.stage, Min(pass.queue))
  /\ ~pass.recovering => Behind(pass.progress) /\ pass.stage # "advancing"
  /\ ~pass.recovering /\ ~pass.blocked => UpToQueue(pass)
  /\ pass.recovering /\ ~pass.blocked /\ pass.stage # "advancing" => OneRun(pass)
  /\ pass.stage = "advancing" => pass.progress > 0 /\ Behind(pass.progress)

PassIsSound(pass) ==
  /\ pass.stage = "listing" => ListingIsSound(pass)
  /\ pass.stage \notin {"resting", "listing"} => RunningIsSound(pass)

ReceiptsSound == ReceiptIsTrue /\ ReceiptStoodTogether

AttestationInv ==
  /\ WorldTypes /\ OperatorTypes
  /\ Behind(cursor) /\ ReceiptsSound
  /\ \A o \in Operators : PassIsSound(operator[o])

\* What every step of the world and of the operators keeps: runs go on, merges
\* are for good, and what is written stays.
WorldGrows ==
  /\ WorldTypes' /\ Len(runs) <= Len(runs')
  /\ \A r \in DOMAIN runs : Later(runs[r], runs'[r])
  /\ \A p \in Pulls : pulls[p].state = "merged" => pulls'[p] = pulls[p]
  /\ receipts \subseteq receipts' /\ skips \subseteq skips' /\ gaps \subseteq gaps'
  /\ dropped \subseteq dropped' /\ together \subseteq together'

LEMMA RunsTyped ==
  ASSUME WorldTypes
  PROVE /\ Len(runs) \in Nat /\ DOMAIN runs = 1 .. Len(runs) /\ RunIds = 2 .. Len(runs)
        /\ \A r \in DOMAIN runs : runs[r] \in ReviewRuns
<1>1. runs \in Seq(ReviewRuns)
  BY DEF WorldTypes
<1>2. Len(runs) \in Nat /\ DOMAIN runs = 1 .. Len(runs)
  BY <1>1
<1> QED
  BY <1>1, <1>2 DEF RunIds, Bootstrap

LEMMA LaterSame == ASSUME NEW run PROVE Later(run, run)
  BY DEF Later

LEMMA BehindStays ==
  ASSUME WorldTypes, WorldGrows
  PROVE /\ \A r \in RunIds : r \in RunIds' /\ (Owed(r)' => Owed(r)) /\ (Dealt(r) => Dealt(r)')
        /\ \A k \in 0 .. Len(runs) : Behind(k) => Behind(k)'
<1>1. ASSUME NEW r \in RunIds
      PROVE r \in RunIds' /\ (Owed(r)' => Owed(r)) /\ (Dealt(r) => Dealt(r)')
  <2>1. r \in RunIds' /\ r \in DOMAIN runs
    <3>1. runs' \in Seq(ReviewRuns) /\ Len(runs) <= Len(runs')
      BY DEF WorldGrows, WorldTypes
    <3>2. Len(runs') \in Nat /\ DOMAIN runs' = 1 .. Len(runs')
      BY <3>1
    <3>3. r \in 2 .. Len(runs) /\ Len(runs) \in Nat
      BY <1>1, RunsTyped
    <3> QED
      BY <1>1, <3>1, <3>2, <3>3, RunsTyped DEF RunIds, Bootstrap
  <2>2. Dealt(r) => Dealt(r)'
    BY DEF WorldGrows, Dealt, InGap
  <2>3. Owed(r)' => Owed(r)
    <3>1. Later(runs[r], runs'[r]) /\ runs[r] \in ReviewRuns
      BY <2>1, RunsTyped DEF WorldGrows
    <3> QED
      BY <3>1 DEF Later, Owed, ReviewRuns
  <2> QED
    BY <2>1, <2>2, <2>3
<1>2. ASSUME NEW k \in 0 .. Len(runs), Behind(k) PROVE Behind(k)'
  <2> SUFFICES ASSUME NEW r \in RunIds', r <= k, Owed(r)' PROVE Dealt(r)'
    BY DEF Behind
  <2>1. r \in RunIds
    BY <1>2, RunsTyped DEF WorldGrows, WorldTypes, RunIds, Bootstrap
  <2> QED
    BY <1>1, <1>2, <2>1 DEF Behind
<1> QED
  BY <1>1, <1>2

LEMMA MergesStay ==
  ASSUME WorldTypes, WorldGrows, NEW r \in RunIds, MergedFor(r) PROVE MergedFor(r)'
<1>1. runs[r].pull \in Pulls /\ r \in DOMAIN runs
  BY RunsTyped DEF WorldTypes, RunIds
<1>2. /\ runs'[r].pull = runs[r].pull /\ runs'[r].head = runs[r].head
      /\ runs'[r].base = runs[r].base
  BY <1>1 DEF WorldGrows, Later
<1>3. pulls[runs[r].pull].state = "merged"
  BY DEF MergedFor
<1>4. pulls'[runs[r].pull] = pulls[runs[r].pull]
  BY <1>1, <1>3 DEF WorldGrows
<1> QED
  BY <1>2, <1>4 DEF MergedFor

LEMMA JudgedStays ==
  ASSUME WorldTypes, WorldGrows, NEW r \in RunIds, NEW stage, Judged(stage, r)
  PROVE Judged(stage, r)'
<1>1. Later(runs[r], runs'[r]) /\ runs[r] \in ReviewRuns /\ runs'[r] \in ReviewRuns
  <2>1. r \in DOMAIN runs /\ r \in DOMAIN runs'
    BY BehindStays DEF RunIds
  <2> QED
    BY <2>1, RunsTyped DEF WorldGrows, WorldTypes
<1>2. Committed(r) => Committed(r)'
  BY <1>1, MergesStay DEF Committed, Later, ReviewRuns
<1>3. Lost(r) => Lost(r)'
  BY <1>1 DEF Lost, Later, ReviewRuns
<1>4. r \in together => r \in together'
  BY DEF WorldGrows
<1> QED
  BY <1>2, <1>3, <1>4, Zenon DEF Judged

LEMMA ReceiptsStay ==
  ASSUME AttestationInv, WorldGrows, receipts' = receipts PROVE ReceiptsSound'
<1> SUFFICES ASSUME NEW r \in receipts
             PROVE /\ pulls'[runs'[r].pull].state = "merged"
                   /\ pulls'[runs'[r].pull].head = runs'[r].head
                   /\ pulls'[runs'[r].pull].on = runs'[r].base
  BY DEF AttestationInv, WorldGrows, ReceiptsSound, ReceiptIsTrue, ReceiptStoodTogether
<1>1. r \in RunIds /\ MergedFor(r)
  BY DEF AttestationInv, WorldTypes, ReceiptsSound, ReceiptIsTrue, MergedFor
<1>2. MergedFor(r)'
  BY <1>1, MergesStay DEF AttestationInv
<1> QED
  BY <1>2 DEF MergedFor
\* A pass that does not step keeps its ground.
LEMMA ListingStays ==
  ASSUME AttestationInv, WorldGrows, NEW pass \in ListingPasses, ListingIsSound(pass)
  PROVE ListingIsSound(pass)'
<1>1. Len(runs) \in Nat /\ Len(runs') \in Nat /\ DOMAIN runs = 1 .. Len(runs)
      /\ DOMAIN runs' = 1 .. Len(runs') /\ Len(runs) <= Len(runs')
  BY DEF AttestationInv, WorldGrows, WorldTypes
<1>2. pass.cursor \in 1 .. Len(runs') /\ Behind(pass.cursor)'
  BY <1>1, BehindStays DEF AttestationInv, ListingIsSound
<1>3. ASSUME NEW r \in DOMAIN pass.listing PROVE Later(pass.listing[r], runs'[r])
  <2>1. /\ Later(pass.listing[r], runs[r]) /\ Later(runs[r], runs'[r])
        /\ runs[r] \in ReviewRuns
    BY <1>3, RunsTyped DEF ListingIsSound, WorldGrows, AttestationInv
  <2>2. pass.listing[r] \in ReviewRuns
    BY <1>3 DEF ListingPasses, Listings
  <2> QED
    BY <2>1, <2>2 DEF Later, ReviewRuns
<1> QED
  BY <1>1, <1>2, <1>3 DEF ListingIsSound

LEMMA RunningStays ==
  ASSUME AttestationInv, WorldGrows, NEW pass \in RunningPasses, RunningIsSound(pass)
  PROVE RunningIsSound(pass)'
<1>1. Len(runs) \in Nat /\ Len(runs') \in Nat /\ DOMAIN runs = 1 .. Len(runs)
      /\ DOMAIN runs' = 1 .. Len(runs') /\ Len(runs) <= Len(runs')
  BY DEF AttestationInv, WorldGrows, WorldTypes
<1>2. WorldTypes
  BY DEF AttestationInv
<1>3. \A r \in RunIds : r \in RunIds' /\ (Owed(r)' => Owed(r)) /\ (Dealt(r) => Dealt(r)')
  BY <1>2, BehindStays
<1>4. \A k \in 0 .. Len(runs) : Behind(k) => Behind(k)'
  BY <1>2, BehindStays
<1>5. /\ pass.cursor \in 1 .. Len(runs') /\ Behind(pass.cursor)'
      /\ pass.progress \in 0 .. Len(runs')
  BY <1>1, <1>4 DEF RunningIsSound
<1>6. pass.queue \subseteq RunIds'
  BY <1>3 DEF RunningIsSound
<1>7. pass.stage \in OnOneRun => pass.queue # {}
  BY DEF RunningIsSound
<1>8. Judged(pass.stage, Min(pass.queue))'
  <2>1. CASE pass.stage \in OnOneRun
    <3>1. pass.queue # {} /\ pass.queue \subseteq RunIds /\ Judged(pass.stage, Min(pass.queue))
      BY <2>1 DEF RunningIsSound
    <3>2. PICK r \in RunIds : r = Min(pass.queue)
      <4>1. pass.queue \in SUBSET Nat
        BY DEF RunningPasses
      <4> QED
        BY <3>1, <4>1, MinIs
    <3>3. Judged(pass.stage, r)'
      BY <1>2, <3>1, <3>2, JudgedStays
    <3> QED
      BY <3>2, <3>3
  <2>2. CASE pass.stage \notin OnOneRun
    BY <2>2 DEF Judged, OnOneRun
  <2> QED
    BY <2>1, <2>2
<1>9. (~pass.recovering => Behind(pass.progress)' /\ pass.stage # "advancing")
      /\ (pass.stage = "advancing" => pass.progress > 0 /\ Behind(pass.progress)')
  BY <1>4 DEF RunningIsSound
<1>10. UpToQueue(pass) => UpToQueue(pass)'
  <2> SUFFICES ASSUME UpToQueue(pass), NEW x \in pass.queue, NEW r \in RunIds' \ pass.queue,
                      pass.cursor < r, r < x, Owed(r)'
               PROVE Dealt(r)'
    BY DEF UpToQueue
  <2>1. x \in RunIds
    BY DEF RunningIsSound
  <2>2. r \in RunIds
    BY <1>1, <1>2, <2>1, RunsTyped DEF RunIds, Bootstrap
  <2> QED
    BY <1>3, <2>2 DEF UpToQueue
<1>11. OneRun(pass) => OneRun(pass)'
  BY <1>3 DEF OneRun
<1>12. /\ ~pass.recovering /\ ~pass.blocked => UpToQueue(pass)'
       /\ pass.recovering /\ ~pass.blocked /\ pass.stage # "advancing" => OneRun(pass)'
  BY <1>10, <1>11, Zenon DEF RunningIsSound
<1> QED
  BY <1>5, <1>6, <1>7, <1>8, <1>9, <1>12, Zenon DEF RunningIsSound

LEMMA PassStays ==
  ASSUME AttestationInv, WorldGrows, NEW o \in Operators, operator'[o] = operator[o]
  PROVE PassIsSound(operator[o])'
<1>1. PICK pass \in {Resting} \union ListingPasses \union RunningPasses : pass = operator[o]
  BY DEF AttestationInv, OperatorTypes
<1>2. PassIsSound(pass)
  BY <1>1 DEF AttestationInv
<1>3. PassIsSound(pass)'
  <2>1. CASE pass = Resting
    BY <2>1 DEF Resting, PassIsSound
  <2>2. CASE pass \in ListingPasses
    <3>1. pass.stage = "listing"
      BY <2>2 DEF ListingPasses
    <3>2. ListingIsSound(pass)'
      BY <1>2, <2>2, <3>1, ListingStays DEF PassIsSound
    <3> QED
      BY <3>1, <3>2 DEF PassIsSound
  <2>3. CASE pass \in RunningPasses
    <3>1. pass.stage \notin {"resting", "listing"}
      BY <2>3 DEF RunningPasses, OnOneRun
    <3>2. RunningIsSound(pass)'
      BY <1>2, <2>3, <3>1, RunningStays DEF PassIsSound
    <3> QED
      BY <3>1, <3>2 DEF PassIsSound
  <2> QED
    BY <2>1, <2>2, <2>3
<1> QED
  BY <1>1, <1>3

\* A step of the world, or of one operator.
LEMMA WorldKeeps ==
  ASSUME AttestationInv, WorldGrows, UNCHANGED <<cursor, receipts, operator>>
  PROVE AttestationInv'
<1>1. Behind(cursor)'
  <2>1. cursor \in 0 .. Len(runs)
    BY RunsTyped DEF AttestationInv, WorldTypes
  <2> QED
    BY <2>1, BehindStays DEF AttestationInv
<1>2. \A o \in Operators : PassIsSound(operator[o])'
  BY PassStays
<1> QED
  BY <1>1, <1>2, ReceiptsStay DEF AttestationInv, WorldGrows, OperatorTypes

-----------------------------------------------------------------------------
\* The world.

LEMMA RunGoesOn ==
  ASSUME AttestationInv, NEW r \in RunIds, NEW run \in ReviewRuns,
         runs' = [runs EXCEPT ![r] = run], Later(runs[r], run),
         UNCHANGED <<pulls, base, oldest, directory, dropped, together, operator>>
  PROVE AttestationInv'
<1>1. /\ Len(runs) \in Nat /\ Len(runs) > 0 /\ DOMAIN runs = 1 .. Len(runs)
      /\ RunIds = 2 .. Len(runs) /\ runs \in Seq(ReviewRuns)
  BY RunsTyped DEF AttestationInv, WorldTypes
<1>2. /\ runs' \in Seq(ReviewRuns) /\ Len(runs') = Len(runs) /\ DOMAIN runs' = DOMAIN runs
      /\ \A q \in DOMAIN runs : runs'[q] = IF q = r THEN run ELSE runs[q]
  BY <1>1
<1>3. \A q \in DOMAIN runs : Later(runs[q], runs'[q])
  BY <1>2, LaterSame
<1>4. RunIds' = RunIds
  BY <1>2 DEF RunIds
<1>5. \A q \in RunIds : runs'[q].pull \in Pulls
  BY <1>1, <1>2, <1>3 DEF AttestationInv, WorldTypes, Later
<1>6. WorldTypes'
  BY <1>1, <1>2, <1>4, <1>5 DEF AttestationInv, WorldTypes, directory
<1>7. WorldGrows
  BY <1>1, <1>2, <1>3, <1>6 DEF WorldGrows, directory
<1> QED
  BY <1>7, WorldKeeps DEF directory

LEMMA RunStepKeeps ==
  ASSUME AttestationInv, NEW r \in RunIds, EndRun(r) \/ Rerun(r) \/ Lapse(r)
  PROVE AttestationInv'
<1>1. runs[r] \in ReviewRuns
  BY RunsTyped DEF AttestationInv, RunIds
<1>2. CASE EndRun(r)
  <2>1. PICK state \in {"success", "failure"} : runs' = [runs EXCEPT ![r].state = state]
    BY <1>2 DEF EndRun
  <2>2. PICK run : run = [runs[r] EXCEPT !.state = state]
    OBVIOUS
  <2>3. run \in ReviewRuns /\ Later(runs[r], run) /\ runs' = [runs EXCEPT ![r] = run]
    BY <1>1, <1>2, <2>1, <2>2 DEF ReviewRuns, Later, EndRun
  <2> QED
    BY <1>2, <2>3, RunGoesOn DEF EndRun
<1>3. CASE Rerun(r)
  <2>1. PICK run : run = [runs[r] EXCEPT !.state = "pending", !.attempt = 2]
    OBVIOUS
  <2>2. run \in ReviewRuns /\ Later(runs[r], run)
    <3>1. runs[r].attempt = 1
      BY <1>3 DEF Rerun
    <3>2. /\ run \in ReviewRuns /\ run.pull = runs[r].pull /\ run.head = runs[r].head
          /\ run.base = runs[r].base /\ run.attempt = 2 /\ run.artifact = runs[r].artifact
      BY <1>1, <2>1 DEF ReviewRuns
    <3> QED
      BY <3>1, <3>2 DEF Later
  <2>3. runs' = [runs EXCEPT ![r] = run]
    BY <1>3, <2>1 DEF Rerun
  <2> QED
    BY <1>3, <2>2, <2>3, RunGoesOn DEF Rerun
<1>4. CASE Lapse(r)
  <2>1. PICK run : run = [runs[r] EXCEPT !.artifact = FALSE]
    OBVIOUS
  <2>2. run \in ReviewRuns /\ Later(runs[r], run) /\ runs' = [runs EXCEPT ![r] = run]
    BY <1>1, <1>4, <2>1 DEF ReviewRuns, Later, Lapse
  <2> QED
    BY <1>4, <2>2, RunGoesOn DEF Lapse
<1> QED
  BY <1>2, <1>3, <1>4

LEMMA StartRunKeeps ==
  ASSUME AttestationInv, NEW p \in Pulls, StartRun(p) PROVE AttestationInv'
<1>1. /\ Len(runs) \in Nat /\ Len(runs) > 0 /\ DOMAIN runs = 1 .. Len(runs)
      /\ RunIds = 2 .. Len(runs) /\ runs \in Seq(ReviewRuns)
  BY RunsTyped DEF AttestationInv, WorldTypes
<1>2. PICK run : run = [pull |-> p, head |-> pulls[p].head, base |-> base, attempt |-> 1,
                        state |-> "pending", artifact |-> TRUE, rules |-> TRUE]
  OBVIOUS
<1>3. run \in ReviewRuns /\ run.pull \in Pulls /\ runs' = Append(runs, run)
  <2>1. pulls[p] \in PullStates /\ base \in Nat
    BY DEF AttestationInv, WorldTypes
  <2> QED
    BY <1>2, <2>1 DEF ReviewRuns, PullStates, StartRun
<1>4. /\ runs' \in Seq(ReviewRuns) /\ Len(runs') = Len(runs) + 1
      /\ runs'[Len(runs) + 1] = run /\ \A q \in DOMAIN runs : runs'[q] = runs[q]
      /\ DOMAIN runs' = 1 .. Len(runs) + 1
  BY <1>1, <1>3
<1>5. RunIds' = RunIds \union {Len(runs) + 1}
  BY <1>1, <1>4 DEF RunIds, Bootstrap
<1>6. \A q \in RunIds' : runs'[q].pull \in Pulls
  BY <1>1, <1>3, <1>4, <1>5 DEF AttestationInv, WorldTypes
<1>7. WorldTypes'
  BY <1>1, <1>4, <1>5, <1>6 DEF AttestationInv, WorldTypes, StartRun, directory
<1>8. WorldGrows
  BY <1>1, <1>4, <1>7, LaterSame DEF WorldGrows, StartRun, directory
<1> QED
  BY <1>8, WorldKeeps DEF StartRun, directory

LEMMA EditRulesKeeps == ASSUME AttestationInv, EditRules PROVE AttestationInv'
<1>1. /\ Len(runs) \in Nat /\ Len(runs) > 0 /\ DOMAIN runs = 1 .. Len(runs)
      /\ RunIds = 2 .. Len(runs) /\ runs \in Seq(ReviewRuns)
  BY RunsTyped DEF AttestationInv, WorldTypes
<1>2. \A q \in DOMAIN runs :
        /\ runs[q] \in ReviewRuns /\ [runs[q] EXCEPT !.rules = FALSE] \in ReviewRuns
        /\ Later(runs[q], [runs[q] EXCEPT !.rules = FALSE])
        /\ [runs[q] EXCEPT !.rules = FALSE].pull = runs[q].pull
  BY RunsTyped DEF AttestationInv, ReviewRuns, Later
<1>3. runs' = [q \in 1 .. Len(runs) |-> [runs[q] EXCEPT !.rules = FALSE]]
  BY <1>1 DEF EditRules
<1>4. runs' \in [1 .. Len(runs) -> ReviewRuns]
  BY <1>1, <1>2, <1>3
<1>5. runs' \in Seq(ReviewRuns) /\ Len(runs') = Len(runs) /\ DOMAIN runs' = DOMAIN runs
  BY <1>1, <1>4
<1>6. RunIds' = RunIds /\ \A q \in RunIds : runs'[q].pull \in Pulls
  BY <1>1, <1>2, <1>3, <1>5 DEF RunIds, AttestationInv, WorldTypes
<1>7. WorldTypes'
  BY <1>1, <1>5, <1>6 DEF AttestationInv, WorldTypes, EditRules, directory
<1>8. \A q \in DOMAIN runs : Later(runs[q], runs'[q])
  BY <1>1, <1>2, <1>3
<1>9. WorldGrows
  BY <1>1, <1>5, <1>7, <1>8 DEF WorldGrows, EditRules, directory
<1> QED
  BY <1>9, WorldKeeps DEF EditRules, directory

LEMMA PullStepKeeps ==
  ASSUME AttestationInv,
         (\E p \in Pulls : Push(p) \/ ClosePull(p)) \/ MergeOther \/ Expire
  PROVE AttestationInv'
<1>1. /\ UNCHANGED <<runs, directory, dropped, together, operator>>
      /\ oldest' \in Nat \ {0} /\ base' \in Nat /\ pulls' \in [Pulls -> PullStates]
      /\ \A p \in Pulls : pulls[p].state = "merged" => pulls'[p] = pulls[p]
  <2>1. /\ oldest \in Nat \ {0} /\ base \in Nat /\ pulls \in [Pulls -> PullStates]
        /\ \A p \in Pulls : pulls[p] \in PullStates
    BY DEF AttestationInv, WorldTypes
  <2>2. CASE \E p \in Pulls : Push(p) \/ ClosePull(p)
    <3>1. PICK p \in Pulls : Push(p) \/ ClosePull(p)
      BY <2>2
    <3>2. PICK newer \in PullStates :
            pulls' = [pulls EXCEPT ![p] = newer] /\ pulls[p].state = "open" /\ base' \in Nat
      <4>1. CASE Push(p)
        <5>1. PICK newer : newer = [pulls[p] EXCEPT !.head = @ + 1]
          OBVIOUS
        <5>2. newer \in PullStates /\ pulls' = [pulls EXCEPT ![p] = newer]
              /\ pulls[p].state = "open" /\ base' \in Nat
          BY <2>1, <4>1, <5>1 DEF Push, PullStates
        <5> QED
          BY <5>2
      <4>2. CASE ClosePull(p)
        <5>1. CASE pulls' = [pulls EXCEPT ![p].state = "closed"] /\ base' = base
          <6>1. PICK newer : newer = [pulls[p] EXCEPT !.state = "closed"]
            OBVIOUS
          <6>2. newer \in PullStates /\ pulls' = [pulls EXCEPT ![p] = newer]
                /\ pulls[p].state = "open" /\ base' \in Nat
            BY <2>1, <4>2, <5>1, <6>1 DEF ClosePull, PullStates
          <6> QED
            BY <6>2
        <5>2. CASE pulls' = [pulls EXCEPT ![p] = [@ EXCEPT !.state = "merged", !.on = base]]
                   /\ base' = base + 1
          <6>1. PICK newer : newer = [pulls[p] EXCEPT !.state = "merged", !.on = base]
            OBVIOUS
          <6>2. pulls[p] \in PullStates /\ base \in Nat
            BY <2>1
          <6>3. newer \in PullStates
            BY <6>1, <6>2 DEF PullStates
          <6>4. pulls' = [pulls EXCEPT ![p] = newer]
            BY <5>2, <6>1
          <6>5. pulls[p].state = "open" /\ base' \in Nat
            <7>1. pulls[p].state = "open"
              BY <4>2 DEF ClosePull
            <7>2. base' = base + 1
              BY <5>2, Zenon
            <7> QED
              BY <6>2, <7>1, <7>2
          <6> QED
            BY <6>3, <6>4, <6>5
        <5> QED
          BY <4>2, <5>1, <5>2 DEF ClosePull
      <4> QED
        BY <3>1, <4>1, <4>2
    <3> QED
      BY <2>1, <3>1, <3>2 DEF Push, ClosePull, directory
  <2>3. CASE MergeOther \/ Expire
    BY <2>1, <2>3 DEF MergeOther, Expire
  <2> QED
    BY <2>2, <2>3
<1>2. WorldTypes'
  BY <1>1 DEF AttestationInv, WorldTypes, RunIds, directory
<1>3. WorldGrows
  <2>1. Len(runs) <= Len(runs')
    BY <1>1, RunsTyped DEF AttestationInv
  <2> QED
    BY <1>1, <1>2, <2>1, LaterSame DEF WorldGrows, directory
<1> QED
  BY <1>1, <1>3, WorldKeeps DEF directory

-----------------------------------------------------------------------------
\* The operators.

LEMMA OperatorGrows ==
  ASSUME AttestationInv, UNCHANGED world, cursor' \in 1 .. Len(runs),
         receipts \subseteq receipts', receipts' \subseteq RunIds, skips \subseteq skips',
         gaps \subseteq gaps', dropped \subseteq dropped', together \subseteq together'
  PROVE WorldGrows
<1>1. WorldTypes'
  BY DEF AttestationInv, WorldTypes, RunIds, world
<1>2. Len(runs) <= Len(runs')
  BY RunsTyped DEF AttestationInv, world
<1> QED
  BY <1>1, <1>2, LaterSame DEF WorldGrows, world

LEMMA OperatorKeeps ==
  ASSUME AttestationInv, NEW o \in Operators,
         NEW pass \in {Resting} \union ListingPasses \union RunningPasses,
         operator' = [operator EXCEPT ![o] = pass], WorldGrows,
         Behind(cursor)', ReceiptsSound', PassIsSound(pass)'
  PROVE AttestationInv'
<1>1. operator \in [Operators -> {Resting} \union ListingPasses \union RunningPasses]
  BY DEF AttestationInv, OperatorTypes
<1>2. OperatorTypes' /\ operator'[o] = pass
      /\ \A other \in Operators : other # o => operator'[other] = operator[other]
  BY <1>1 DEF OperatorTypes
<1>3. \A other \in Operators : PassIsSound(operator[other])'
  <2> SUFFICES ASSUME NEW other \in Operators PROVE PassIsSound(operator[other])'
    OBVIOUS
  <2>1. CASE other = o
    BY <1>2, <2>1
  <2>2. CASE other # o
    BY <1>2, <2>2, PassStays
  <2> QED
    BY <2>1, <2>2
<1> QED
  BY <1>2, <1>3 DEF AttestationInv, WorldGrows

\* A step that writes nothing but the operator's own state.
LEMMA QuietKeeps ==
  ASSUME AttestationInv, NEW o \in Operators,
         NEW pass \in {Resting} \union ListingPasses \union RunningPasses,
         operator' = [operator EXCEPT ![o] = pass], UNCHANGED <<world, directory>>,
         dropped \subseteq dropped', together \subseteq together', PassIsSound(pass)'
  PROVE AttestationInv'
<1>1. UNCHANGED <<cursor, receipts, skips, gaps>>
  BY DEF directory
<1>2. WorldGrows
  BY <1>1, OperatorGrows DEF AttestationInv, WorldTypes
<1>3. Behind(cursor)'
  <2>1. cursor \in 0 .. Len(runs)
    BY RunsTyped DEF AttestationInv, WorldTypes
  <2> QED
    BY <1>1, <1>2, <2>1, BehindStays DEF AttestationInv
<1>4. ReceiptsSound'
  BY <1>1, <1>2, ReceiptsStay
<1> QED
  BY <1>2, <1>3, <1>4, OperatorKeeps

LEMMA RestKeeps ==
  ASSUME AttestationInv, NEW o \in Operators, operator' = [operator EXCEPT ![o] = Resting],
         UNCHANGED <<world, directory>>, dropped \subseteq dropped',
         together \subseteq together'
  PROVE AttestationInv'
<1>1. PassIsSound(Resting)'
  BY DEF PassIsSound, Resting
<1> QED
  BY <1>1, QuietKeeps

LEMMA BeginPassKeeps ==
  ASSUME AttestationInv, NEW o \in Operators, BeginPass(o) PROVE AttestationInv'
<1>1. /\ Len(runs) \in Nat /\ DOMAIN runs = 1 .. Len(runs) /\ cursor \in 1 .. Len(runs)
      /\ oldest \in Nat \ {0} /\ \A r \in DOMAIN runs : runs[r] \in ReviewRuns
  BY RunsTyped DEF AttestationInv, WorldTypes
<1>2. PICK listing : listing = Listed
  OBVIOUS
<1>3. /\ DOMAIN listing = oldest .. Len(runs) /\ DOMAIN listing \subseteq DOMAIN runs
      /\ \A r \in DOMAIN listing : listing[r] = runs[r]
  BY <1>1, <1>2 DEF Listed
<1>4. listing \in Listings
  <2>1. DOMAIN listing \in SUBSET Nat
    BY <1>1, <1>3
  <2>2. listing \in [DOMAIN listing -> ReviewRuns]
    BY <1>1, <1>2, <1>3 DEF Listed
  <2> QED
    BY <2>1, <2>2 DEF Listings
<1>5. PICK pass : pass = [stage |-> "listing", cursor |-> cursor, listing |-> listing]
  OBVIOUS
<1>6. /\ pass \in ListingPasses /\ operator' = [operator EXCEPT ![o] = pass]
      /\ pass.stage = "listing" /\ pass.cursor = cursor /\ pass.listing = listing
  BY <1>1, <1>2, <1>4, <1>5 DEF ListingPasses, BeginPass
<1>7. UNCHANGED <<world, directory, dropped, together>>
  BY DEF BeginPass
<1>8. ListingIsSound(pass)'
  <2>1. WorldGrows /\ Behind(cursor)'
    <3>1. UNCHANGED <<cursor, receipts, skips, gaps>>
      BY <1>7 DEF directory
    <3>2. WorldGrows
      BY <1>7, <3>1, OperatorGrows DEF AttestationInv, WorldTypes
    <3> QED
      BY <1>1, <3>1, <3>2, BehindStays DEF AttestationInv
  <2>2. runs' = runs /\ cursor' = cursor
    BY <1>7 DEF world, directory
  <2>3. Unbroken(DOMAIN listing)
    BY <1>1, <1>3 DEF Unbroken
  <2> QED
    BY <1>1, <1>3, <1>6, <2>1, <2>2, <2>3, LaterSame DEF ListingIsSound
<1> QED
  BY <1>6, <1>7, <1>8, QuietKeeps DEF PassIsSound

\* What a listing selects lies below every run that was still going, so what it
\* leaves out before that had failed, was started again or was in conflict.
LEMMA ListRunsKeeps ==
  ASSUME AttestationInv, NEW o \in Operators, ListRuns(o) PROVE AttestationInv'
<1>1. PICK old \in ListingPasses :
        /\ old = operator[o] /\ old.cursor \in Nat /\ old.listing \in Listings
        /\ ListingIsSound(old)
  <2>1. operator[o].stage = "listing"
    BY DEF ListRuns, In
  <2>2. operator[o] \in ListingPasses
    BY <2>1 DEF AttestationInv, OperatorTypes, Resting, RunningPasses, OnOneRun
  <2> QED
    BY <2>1, <2>2 DEF AttestationInv, PassIsSound, ListingPasses
<1>2. PICK conflicted, late :
        /\ conflicted \subseteq DOMAIN old.listing
        /\ dropped' = dropped \union conflicted
        /\ operator' = [operator EXCEPT ![o] =
             IF Truncated(Paged(old.listing, late, conflicted), old.cursor) THEN Resting
             ELSE Pass(old.cursor, Selected(Paged(old.listing, late, conflicted), old.cursor),
                       Paged(old.listing, late, conflicted), FALSE, FALSE)]
  BY <1>1 DEF ListRuns, Ended
<1>3. PICK listing : listing = Paged(old.listing, late, conflicted)
  OBVIOUS
<1>4. UNCHANGED <<world, directory, together>> /\ dropped \subseteq dropped'
  BY <1>2 DEF ListRuns
<1>5. CASE Truncated(listing, old.cursor)
  BY <1>2, <1>3, <1>4, <1>5, RestKeeps
<1>6. CASE ~Truncated(listing, old.cursor)
  <2>1. PICK queue, again : queue = Selected(listing, old.cursor)
                            /\ again = {r \in queue : listing[r].attempt # 1}
    OBVIOUS
  <2>2. PICK pass : pass = [stage |-> "choosing", cursor |-> old.cursor, queue |-> queue,
                            recovering |-> FALSE, again |-> again, progress |-> 0,
                            blocked |-> FALSE, before |-> NothingRead]
    OBVIOUS
  <2>3. operator' = [operator EXCEPT ![o] = pass]
    BY <1>2, <1>3, <1>6, <2>1, <2>2 DEF Pass
  <2>4. /\ DOMAIN listing = DOMAIN old.listing \ conflicted
        /\ \A r \in DOMAIN listing : listing[r] = IF r \in late THEN runs[r] ELSE old.listing[r]
    BY <1>3 DEF Paged
  <2>5. /\ Len(runs) \in Nat /\ DOMAIN runs = 1 .. Len(runs) /\ RunIds = 2 .. Len(runs)
        /\ old.cursor \in 1 .. Len(runs) /\ DOMAIN old.listing \subseteq DOMAIN runs
    BY <1>1, RunsTyped DEF AttestationInv, ListingIsSound
  <2>6. queue \subseteq RunIds /\ queue \in SUBSET Nat /\ again \in SUBSET Nat
        /\ \A r \in queue : r \in DOMAIN old.listing
    BY <2>1, <2>4, <2>5 DEF Selected, SelectedPast
  <2>7. /\ pass \in RunningPasses /\ pass.stage = "choosing" /\ pass.cursor = old.cursor
        /\ pass.queue = queue /\ pass.progress = 0 /\ pass.recovering = FALSE
    BY <1>1, <2>2, <2>6 DEF RunningPasses
  <2>8. WorldGrows /\ runs' = runs
    <3>1. UNCHANGED <<cursor, receipts, skips, gaps, runs>>
      BY <1>4 DEF directory, world
    <3> QED
      BY <1>4, <3>1, OperatorGrows DEF AttestationInv, WorldTypes
  <2>9. Behind(old.cursor)' /\ Behind(0)'
    <3>1. Behind(old.cursor)'
      BY <1>1, <2>5, <2>8, BehindStays DEF AttestationInv, ListingIsSound
    <3>2. RunIds' = 2 .. Len(runs)
      BY <2>5, <2>8 DEF RunIds
    <3> QED
      BY <2>5, <3>1, <3>2 DEF Behind
  <2>10. UpToQueue(pass)'
    <3> SUFFICES ASSUME NEW x \in queue, NEW r \in RunIds \ queue,
                        old.cursor < r, r < x, Owed(r)
                 PROVE r \in conflicted \/ Dealt(r)
      BY <1>2, <1>4, <2>7, <2>8 DEF UpToQueue, RunIds, Owed, Dealt, InGap, directory
    <3> SUFFICES ASSUME r \notin conflicted PROVE FALSE
      OBVIOUS
    <3>1. old.cursor \in DOMAIN old.listing
      BY <1>6, <2>4, <2>5 DEF Truncated
    <3>2. r \in DOMAIN listing
      BY <1>1, <2>4, <2>5, <2>6, <3>1 DEF ListingIsSound, Unbroken
    <3>3. runs[r] \in ReviewRuns /\ listing[r] \in ReviewRuns /\ Later(listing[r], runs[r])
      <4>1. r \in DOMAIN old.listing /\ runs[r] \in ReviewRuns
        BY <2>4, <2>5, <3>2, RunsTyped DEF AttestationInv
      <4>2. old.listing[r] \in ReviewRuns /\ Later(old.listing[r], runs[r])
        BY <1>1, <4>1 DEF Listings, ListingIsSound
      <4> QED
        BY <2>4, <3>2, <4>1, <4>2, LaterSame
    <3>4. r \notin SelectedPast(listing, old.cursor) \/ \E going \in
            StillGoing(listing, old.cursor) : ~(r < going)
      BY <2>1 DEF Selected
    <3>5. \A going \in StillGoing(listing, old.cursor) : x < going /\ going \in Nat
      BY <2>1, <2>4, <2>5 DEF Selected, StillGoing
    <3>6. listing[r].state # "pending"
      BY <2>5, <2>6, <3>2, <3>5 DEF StillGoing
    <3>7. listing[r].state # "success"
      BY <2>5, <2>6, <3>2, <3>4, <3>5 DEF SelectedPast
    <3> QED
      BY <3>3, <3>6, <3>7 DEF Later, Owed, ReviewRuns
  <2>11. RunningIsSound(pass)'
    BY <2>5, <2>6, <2>7, <2>8, <2>9, <2>10
    DEF RunningIsSound, RunIds, OnOneRun, Judged
  <2> QED
    BY <1>4, <2>3, <2>7, <2>11, QuietKeeps DEF PassIsSound
<1> QED
  BY <1>5, <1>6

LEMMA QueueHead ==
  ASSUME WorldTypes, NEW pass \in RunningPasses, RunningIsSound(pass), pass.queue # {}
  PROVE /\ Min(pass.queue) \in RunIds /\ Min(pass.queue) \in pass.queue
        /\ \A x \in pass.queue : Min(pass.queue) <= x
        /\ Min(pass.queue) \in Nat
<1>1. pass.queue \in SUBSET Nat
  BY DEF RunningPasses
<1> QED
  BY <1>1, MinIs DEF RunningIsSound

\* The next run is dealt with, or holds the pass back.
LEMMA SettledIsSound ==
  ASSUME WorldTypes, WorldTypes', RunIds' = RunIds, Len(runs') = Len(runs),
         NEW pass \in RunningPasses, RunningIsSound(pass), RunningIsSound(pass)',
         pass.queue # {}, pass.stage # "advancing", NEW r, r = Min(pass.queue), Dealt(r)',
         NEW after, after = [pass EXCEPT !.stage = "choosing", !.queue = @ \ {r},
                               !.progress = IF pass.blocked THEN @ ELSE r]
  PROVE after \in RunningPasses /\ PassIsSound(after)'
<1>1. /\ r \in RunIds /\ r \in pass.queue /\ r \in Nat /\ r <= Len(runs)
      /\ \A x \in pass.queue : r <= x /\ x \in Nat
      /\ RunIds = 2 .. Len(runs) /\ Len(runs) \in Nat
  BY QueueHead, RunsTyped DEF RunningPasses
<1>2. /\ after \in RunningPasses /\ after.stage = "choosing" /\ after.cursor = pass.cursor
      /\ after.queue = pass.queue \ {r} /\ after.recovering = pass.recovering
      /\ after.blocked = pass.blocked
      /\ after.progress = IF pass.blocked THEN pass.progress ELSE r
  BY <1>1 DEF RunningPasses
<1>3. /\ pass.cursor \in 1 .. Len(runs) /\ Behind(pass.cursor)' /\ pass.queue \subseteq RunIds
      /\ pass.progress \in 0 .. Len(runs)
      /\ ~pass.recovering => Behind(pass.progress)'
      /\ ~pass.recovering /\ ~pass.blocked => UpToQueue(pass)'
      /\ pass.recovering /\ ~pass.blocked => OneRun(pass)'
  BY DEF RunningIsSound
<1>4. pass.recovering \in BOOLEAN /\ pass.blocked \in BOOLEAN
  BY DEF RunningPasses
<1>5. ASSUME ~pass.recovering, ~pass.blocked PROVE Behind(r)' /\ UpToQueue(after)'
  <2>1. \A x \in pass.queue, q \in RunIds \ pass.queue :
          pass.cursor < q /\ q < x /\ Owed(q)' => Dealt(q)'
    BY <1>3, <1>5 DEF UpToQueue
  <2>2. ASSUME NEW q \in RunIds, q <= r, Owed(q)' PROVE Dealt(q)'
    <3>1. CASE q <= pass.cursor
      BY <1>3, <2>2, <3>1 DEF Behind
    <3>2. CASE q \in pass.queue
      <4>1. q = r
        BY <1>1, <2>2, <3>2
      <4> QED
        BY <4>1
    <3>3. CASE pass.cursor < q /\ q \notin pass.queue
      <4>1. q < r
        BY <1>1, <2>2, <3>3
      <4> QED
        BY <1>1, <2>1, <2>2, <3>3, <4>1
    <3> QED
      BY <1>1, <1>3, <3>1, <3>2, <3>3
  <2>3. Behind(r)'
    BY <2>2 DEF Behind
  <2>4. UpToQueue(after)'
    <3> SUFFICES ASSUME NEW x \in pass.queue, NEW q \in RunIds, q \notin pass.queue \/ q = r,
                        pass.cursor < q, q < x, Owed(q)'
                 PROVE Dealt(q)'
      BY <1>2 DEF UpToQueue
    <3> QED
      BY <2>1
  <2> QED
    BY <2>3, <2>4
<1>6. ASSUME pass.recovering, ~pass.blocked PROVE OneRun(after)'
  <2>1. pass.queue \ {r} = {}
    BY <1>1, <1>3, <1>6 DEF OneRun
  <2> QED
    BY <1>1, <1>2, <1>6, <2>1 DEF OneRun
<1>7. ~pass.recovering => Behind(after.progress)'
  <2>1. CASE pass.blocked
    BY <1>2, <1>3, <2>1
  <2>2. CASE ~pass.blocked
    BY <1>2, <1>5, <2>2
  <2> QED
    BY <2>1, <2>2
<1>8. after.progress \in 0 .. Len(runs') /\ after.queue \subseteq RunIds'
      /\ after.cursor \in 1 .. Len(runs') /\ Behind(after.cursor)'
  BY <1>1, <1>2, <1>3
<1>9. RunningIsSound(after)'
  <2>1. Judged(after.stage, Min(after.queue))'
    BY <1>2 DEF Judged
  <2> QED
    BY <1>2, <1>5, <1>6, <1>7, <1>8, <2>1, Zenon DEF RunningIsSound, OnOneRun
<1> QED
  BY <1>2, <1>9 DEF PassIsSound

LEMMA HeldIsSound ==
  ASSUME RunIds' = RunIds, NEW pass \in RunningPasses, RunningIsSound(pass)',
         pass.stage # "advancing", NEW r,
         NEW after, after = [pass EXCEPT !.stage = "choosing", !.queue = @ \ {r},
                               !.blocked = TRUE, !.before = NothingRead]
  PROVE after \in RunningPasses /\ PassIsSound(after)'
<1>1. /\ after \in RunningPasses /\ after.stage = "choosing" /\ after.cursor = pass.cursor
      /\ after.queue = pass.queue \ {r} /\ after.recovering = pass.recovering
      /\ after.blocked = TRUE /\ after.progress = pass.progress
  BY DEF RunningPasses
<1>2. /\ pass.cursor \in 1 .. Len(runs') /\ Behind(pass.cursor)' /\ pass.queue \subseteq RunIds'
      /\ pass.progress \in 0 .. Len(runs')
      /\ ~pass.recovering => Behind(pass.progress)'
  BY DEF RunningIsSound
<1>3. RunningIsSound(after)'
  <2>1. Judged(after.stage, Min(after.queue))'
    BY <1>1 DEF Judged
  <2> QED
    BY <1>1, <1>2, <2>1, Zenon DEF RunningIsSound, OnOneRun
<1> QED
  BY <1>1, <1>3 DEF PassIsSound

LEMMA PassAt ==
  ASSUME AttestationInv, NEW o \in Operators,
         operator[o].stage \in {"choosing", "advancing"} \union OnOneRun
  PROVE operator[o] \in RunningPasses /\ RunningIsSound(operator[o])
<1>1. operator[o] \in {Resting} \union ListingPasses \union RunningPasses
  BY DEF AttestationInv, OperatorTypes
<1>2. operator[o].stage \notin {"resting", "listing"}
  BY DEF OnOneRun
<1>3. operator[o] \in RunningPasses
  BY <1>1, <1>2 DEF Resting, ListingPasses
<1> QED
  BY <1>2, <1>3 DEF AttestationInv, PassIsSound

\* A step on the next run that writes at most a receipt or a skip.
LEMMA OnRunGrows ==
  ASSUME AttestationInv, NEW o \in Operators,
         operator[o].stage \in {"choosing", "advancing"} \union OnOneRun,
         UNCHANGED <<world, gaps, cursor, dropped>>, together \subseteq together',
         receipts \subseteq receipts',
         receipts' \subseteq RunIds, skips \subseteq skips'
  PROVE /\ WorldTypes /\ WorldGrows /\ RunIds' = RunIds /\ Len(runs') = Len(runs)
        /\ Behind(cursor)'
        /\ operator[o] \in RunningPasses /\ RunningIsSound(operator[o])
        /\ \E pass \in RunningPasses : pass = operator[o] /\ RunningIsSound(pass)'
<1>1. WorldTypes /\ cursor' \in 1 .. Len(runs)
  BY DEF AttestationInv, WorldTypes
<1>2. WorldGrows
  BY <1>1, OperatorGrows
<1>3. PICK pass \in RunningPasses : pass = operator[o] /\ RunningIsSound(pass)
  BY PassAt
<1>4. RunningIsSound(pass)'
  BY <1>2, <1>3, RunningStays
<1>5. Behind(cursor)'
  <2>1. cursor \in 0 .. Len(runs)
    BY <1>1, RunsTyped DEF WorldTypes
  <2> QED
    BY <1>1, <1>2, <2>1, BehindStays DEF AttestationInv
<1> QED
  BY <1>1, <1>2, <1>3, <1>4, <1>5 DEF RunIds, world

LEMMA HeldKeeps ==
  ASSUME AttestationInv, NEW o \in Operators,
         operator[o].stage \in {"choosing"} \union OnOneRun,
         UNCHANGED <<world, gaps, cursor, dropped, receipts>>,
         together \subseteq together', skips \subseteq skips',
         operator' = [operator EXCEPT ![o] = Held(o)]
  PROVE AttestationInv'
<1>1. receipts \subseteq receipts' /\ receipts' \subseteq RunIds
  BY DEF AttestationInv, WorldTypes
<1>2. /\ WorldTypes /\ WorldGrows /\ RunIds' = RunIds /\ Len(runs') = Len(runs)
      /\ Behind(cursor)'
  BY <1>1, OnRunGrows
<1>3. PICK pass \in RunningPasses : pass = operator[o] /\ RunningIsSound(pass)'
  BY <1>1, OnRunGrows
<1>4. PICK r : r = Current(o)
  OBVIOUS
<1>5. PICK after : after = [pass EXCEPT !.stage = "choosing", !.queue = @ \ {r},
                              !.blocked = TRUE, !.before = NothingRead]
  OBVIOUS
<1>6. operator' = [operator EXCEPT ![o] = after]
  BY <1>3, <1>4, <1>5 DEF Held
<1>7. after \in RunningPasses /\ PassIsSound(after)'
  BY <1>2, <1>3, <1>5, HeldIsSound DEF OnOneRun
<1>8. ReceiptsSound'
  BY <1>2, ReceiptsStay
<1> QED
  BY <1>2, <1>6, <1>7, <1>8, OperatorKeeps

LEMMA SettledKeeps ==
  ASSUME AttestationInv, NEW o \in Operators,
         operator[o].stage \in {"choosing", "loading", "publishing"}, operator[o].queue # {},
         UNCHANGED <<world, gaps, cursor, dropped, together>>, receipts \subseteq receipts',
         receipts' \subseteq RunIds, skips \subseteq skips', ReceiptsSound',
         NEW r, r = Current(o), r \in receipts' \union skips',
         operator' = [operator EXCEPT ![o] = Settled(o)]
  PROVE AttestationInv'
<1>1. /\ WorldTypes /\ WorldGrows /\ RunIds' = RunIds /\ Len(runs') = Len(runs)
      /\ Behind(cursor)'
  BY OnRunGrows DEF OnOneRun
<1>2. PICK pass \in RunningPasses :
        pass = operator[o] /\ RunningIsSound(pass)' /\ RunningIsSound(pass)
  BY OnRunGrows DEF OnOneRun
<1>3. PICK after : after = [pass EXCEPT !.stage = "choosing", !.queue = @ \ {r},
                              !.progress = IF pass.blocked THEN @ ELSE r]
  OBVIOUS
<1>4. operator' = [operator EXCEPT ![o] = after]
  BY <1>2, <1>3 DEF Settled
<1>5. r = Min(pass.queue) /\ Dealt(r)'
  BY <1>2 DEF Current, Dealt
<1>6. WorldTypes'
  BY <1>1 DEF WorldGrows
<1>7. after \in RunningPasses /\ PassIsSound(after)'
  BY <1>1, <1>2, <1>3, <1>5, <1>6, SettledIsSound
<1> QED
  BY <1>1, <1>4, <1>7, OperatorKeeps

\* The pass goes on with the same run.
LEMMA GoesOn ==
  ASSUME AttestationInv, NEW o \in Operators, NEW stage \in OnOneRun,
         NEW before \in Contexts \union {NothingRead}, NEW r, r = Current(o),
         operator[o].stage \in {"choosing"} \union OnOneRun, operator[o].queue # {},
         Judged(stage, r)',
         UNCHANGED <<world, directory, dropped>>, together \subseteq together',
         operator' = [operator EXCEPT ![o] = [operator[o] EXCEPT !.stage = stage,
                                                                 !.before = before]]
  PROVE AttestationInv'
<1>1. WorldGrows
  BY OperatorGrows DEF AttestationInv, WorldTypes, directory
<1>2. PICK pass \in RunningPasses :
        pass = operator[o] /\ RunningIsSound(pass) /\ RunningIsSound(pass)'
  BY <1>1, PassAt, RunningStays
<1>3. PICK after : after = [pass EXCEPT !.stage = stage, !.before = before]
  OBVIOUS
<1>4. /\ after \in RunningPasses /\ after.stage = stage /\ after.cursor = pass.cursor
      /\ after.queue = pass.queue /\ after.recovering = pass.recovering
      /\ after.blocked = pass.blocked /\ after.progress = pass.progress
  BY <1>3 DEF RunningPasses
<1>5. pass.stage # "advancing" /\ stage \notin {"advancing", "resting", "listing"}
  BY <1>2 DEF OnOneRun
<1>6. RunningIsSound(after)'
  <2>1. Judged(after.stage, Min(after.queue))'
    <3>1. r = Min(after.queue)
      BY <1>2, <1>4 DEF Current
    <3> QED
      BY <1>4, <3>1
  <2>2. UpToQueue(pass)' => UpToQueue(after)'
    BY <1>4 DEF UpToQueue
  <2>3. OneRun(pass)' => OneRun(after)'
    BY <1>4 DEF OneRun
  <2>4. after.stage \in OnOneRun => after.queue # {}
    BY <1>2, <1>4
  <2> QED
    BY <1>2, <1>4, <1>5, <2>1, <2>2, <2>3, <2>4, Zenon DEF RunningIsSound
<1> QED
  BY <1>2, <1>3, <1>4, <1>5, <1>6, QuietKeeps DEF PassIsSound

LEMMA SkipKeeps ==
  ASSUME AttestationInv, NEW o \in Operators,
         operator[o].stage \in {"choosing", "loading"}, operator[o].queue # {},
         Skip(o), UNCHANGED <<world, dropped, together>>
  PROVE AttestationInv'
<1>1. /\ UNCHANGED <<receipts, gaps, cursor>> /\ skips \subseteq skips' /\ Current(o) \in skips'
      /\ receipts \subseteq receipts' /\ receipts' \subseteq RunIds
  BY DEF Skip, AttestationInv, WorldTypes
<1>2. CASE operator' = [operator EXCEPT ![o] = Held(o)]
  BY <1>1, <1>2, HeldKeeps DEF OnOneRun
<1>3. CASE operator' = [operator EXCEPT ![o] = Settled(o)]
  <2>1. ReceiptsSound'
    <3>1. WorldGrows
      BY <1>1, OnRunGrows DEF OnOneRun
    <3> QED
      BY <1>1, <3>1, ReceiptsStay
  <2> QED
    BY <1>1, <1>3, <2>1, SettledKeeps
<1> QED
  BY <1>2, <1>3 DEF Skip

LEMMA ChooseKeeps ==
  ASSUME AttestationInv, NEW o \in Operators, Choose(o) PROVE AttestationInv'
<1>1. /\ operator[o].stage = "choosing" /\ operator[o].queue # {}
      /\ UNCHANGED <<world, dropped, together>>
  BY DEF Choose, In
<1>2. CASE /\ Current(o) \in receipts /\ UNCHANGED directory
           /\ \E after \in {Settled(o), Held(o)} : operator' = [operator EXCEPT ![o] = after]
  <2>1. UNCHANGED <<receipts, skips, gaps, cursor>> /\ receipts \subseteq RunIds
    BY <1>2 DEF directory, AttestationInv, WorldTypes
  <2>2. ReceiptsSound'
    <3>1. WorldGrows
      BY <1>1, <2>1, OnRunGrows DEF OnOneRun
    <3> QED
      BY <2>1, <3>1, ReceiptsStay
  <2>3. CASE operator' = [operator EXCEPT ![o] = Settled(o)]
    BY <1>1, <1>2, <2>1, <2>2, <2>3, SettledKeeps
  <2>4. CASE operator' = [operator EXCEPT ![o] = Held(o)]
    BY <1>1, <2>1, <2>4, HeldKeeps
  <2> QED
    BY <1>2, <2>3, <2>4
<1>3. CASE Skip(o)
  BY <1>1, <1>3, SkipKeeps
<1>4. CASE UNCHANGED directory /\ operator' = [operator EXCEPT ![o].stage = "loading"]
  <2>1. operator[o] \in RunningPasses
    BY <1>1, PassAt
  <2>2. operator[o].before \in Contexts \union {NothingRead}
    BY <2>1 DEF RunningPasses
  <2>3. operator' = [operator EXCEPT ![o] = [operator[o] EXCEPT !.stage = "loading",
                                                       !.before = operator[o].before]]
    <3>1. [operator[o] EXCEPT !.stage = "loading"]
            = [operator[o] EXCEPT !.stage = "loading", !.before = operator[o].before]
      BY <2>1 DEF RunningPasses
    <3> QED
      BY <1>4, <3>1
  <2>4. PICK r : r = Current(o) /\ Judged("loading", r)'
    BY DEF Judged
  <2> QED
    BY <1>1, <1>4, <2>2, <2>3, <2>4, GoesOn DEF OnOneRun
<1> QED
  BY <1>2, <1>3, <1>4 DEF Choose

LEMMA ContextTyped ==
  ASSUME AttestationInv, NEW o \in Operators, operator[o].stage \in {"choosing"} \union OnOneRun,
         operator[o].queue # {}
  PROVE Current(o) \in RunIds /\ Context(Current(o)) \in Contexts
<1>1. PICK pass \in RunningPasses : pass = operator[o] /\ RunningIsSound(pass)
  BY PassAt
<1>2. PICK r \in RunIds : r = Current(o)
  BY <1>1, QueueHead DEF Current, AttestationInv
<1>3. runs[r] \in ReviewRuns /\ runs[r].pull \in Pulls
  BY RunsTyped DEF AttestationInv, WorldTypes, RunIds
<1>4. pulls[runs[r].pull] \in PullStates
  BY <1>3 DEF AttestationInv, WorldTypes
<1> QED
  BY <1>2, <1>3, <1>4 DEF Context, Contexts, ReviewRuns

LEMMA AttestableIsCommitted ==
  ASSUME AttestationInv, NEW o \in Operators, operator[o].stage \in {"choosing"} \union OnOneRun,
         operator[o].queue # {}
  PROVE /\ Attestable(Context(Current(o))) => Committed(Current(o))
        /\ Committed(Current(o)) =>
             (Attestable(Context(Current(o))) <=> ~Lost(Current(o)))
<1>1. PICK r \in RunIds : r = Current(o)
  BY ContextTyped
<1>2. runs[r] \in ReviewRuns
  BY <1>1, RunsTyped DEF AttestationInv, RunIds
<1>3. /\ Context(r).run.state = runs[r].state /\ Context(r).run.attempt = runs[r].attempt
      /\ Context(r).run.artifact = runs[r].artifact /\ Context(r).run.head = runs[r].head
      /\ Context(r).run.base = runs[r].base /\ Context(r).pull = pulls[runs[r].pull]
  BY <1>2 DEF Context, ReviewRuns
<1>4. Attestable(Context(r)) <=>
        MergedFor(r) /\ runs[r].attempt = 1 /\ runs[r].state = "success" /\ runs[r].artifact
  BY <1>3 DEF Attestable, FirstSuccess, Retained, MergedFor, MergedAsReviewed
<1> QED
  BY <1>1, <1>4 DEF Committed, Lost

LEMMA OnQueue ==
  ASSUME AttestationInv, NEW o \in Operators, operator[o].stage \in OnOneRun
  PROVE operator[o].queue # {}
<1>1. RunningIsSound(operator[o])
  BY PassAt
<1> QED
  BY <1>1 DEF RunningIsSound

LEMMA LoadKeeps == ASSUME AttestationInv, NEW o \in Operators, Load(o) PROVE AttestationInv'
<1>1. /\ operator[o].stage = "loading" /\ operator[o].queue # {}
      /\ UNCHANGED <<world, dropped, together>>
  BY OnQueue DEF Load, In, OnOneRun
<1>2. CASE UNCHANGED directory /\ operator' = [operator EXCEPT ![o] = Held(o)]
  BY <1>1, <1>2, HeldKeeps DEF OnOneRun, directory
<1>3. CASE Skip(o)
  BY <1>1, <1>3, SkipKeeps
<1>4. ASSUME UNCHANGED directory, NEW context, context = Context(Current(o)),
             Attestable(context),
             operator' = [operator EXCEPT ![o] =
               [@ EXCEPT !.stage = "validating", !.before = context]]
      PROVE AttestationInv'
  <2>1. context \in Contexts
    BY <1>1, <1>4, ContextTyped DEF OnOneRun
  <2>2. operator' = [operator EXCEPT ![o] = [operator[o] EXCEPT !.stage = "validating",
                                                                !.before = context]]
    BY <1>4
  <2>3. PICK r : r = Current(o) /\ Committed(r)
    BY <1>1, <1>4, AttestableIsCommitted DEF OnOneRun
  <2>4. Judged("validating", r)'
    BY <1>1, <2>3 DEF Judged, Committed, MergedFor, world
  <2> QED
    BY <1>1, <1>4, <2>1, <2>2, <2>3, <2>4, GoesOn DEF OnOneRun
<1> QED
  BY <1>2, <1>3, <1>4 DEF Load

LEMMA ReadKeepsPass ==
  ASSUME AttestationInv, NEW o \in Operators,
         Validate(o) \/ ReadRules(o) \/ Reload(o) \/ Fail(o)
  PROVE AttestationInv'
<1>1. /\ operator[o].stage \in OnOneRun /\ operator[o].queue # {}
      /\ UNCHANGED <<world, directory, dropped>> /\ together \subseteq together'
  BY OnQueue DEF Validate, ReadRules, Reload, Fail, In, OnOneRun
<1>2. /\ operator[o] \in RunningPasses
      /\ operator[o].before \in Contexts \union {NothingRead}
  BY <1>1, PassAt DEF RunningPasses
<1>3. CASE operator' = [operator EXCEPT ![o] = Held(o)]
  BY <1>1, <1>3, HeldKeeps DEF directory
<1>4. ASSUME NEW stage, operator' = [operator EXCEPT ![o] = [operator[o] EXCEPT !.stage = stage]]
      PROVE operator' = [operator EXCEPT ![o] =
                           [operator[o] EXCEPT !.stage = stage, !.before = operator[o].before]]
  <2>1. [operator[o] EXCEPT !.stage = stage]
          = [operator[o] EXCEPT !.stage = stage, !.before = operator[o].before]
    BY <1>2 DEF RunningPasses
  <2> QED
    BY <1>4, <2>1
<1>5. PICK r : r = Current(o) /\ Judged(operator[o].stage, r)
  BY <1>1, PassAt DEF RunningIsSound, Current
<1>6. /\ Committed(r) => Committed(r)'
      /\ Lost(r) => Lost(r)' /\ (r \in together => r \in together')
  BY <1>1 DEF Committed, Lost, MergedFor, world
<1>7. Committed(r) => (Attestable(Context(r)) <=> ~Lost(r))
  BY <1>1, <1>5, AttestableIsCommitted
<1>8. CASE operator' = [operator EXCEPT ![o] = [operator[o] EXCEPT !.stage = "judging"]]
           /\ operator[o].stage = "validating"
  <2>1. Judged("judging", r)'
    BY <1>5, <1>6, <1>8 DEF Judged
  <2> QED
    BY <1>1, <1>2, <1>4, <1>5, <1>8, <2>1, GoesOn DEF OnOneRun
<1>9. CASE /\ operator' = [operator EXCEPT ![o] = [operator[o] EXCEPT !.stage = "reloading"]]
           /\ operator[o].stage = "judging" /\ RulesHold(runs[r])
           /\ together' = together \union {x \in {r} : Stands(x)}
  <2>1. Committed(r)
    BY <1>5, <1>9 DEF Judged
  <2>2. r \in together' \/ Lost(r)
    BY <1>7, <1>9, <2>1 DEF Stands, RulesHold
  <2>3. Judged("reloading", r)'
    BY <1>6, <2>1, <2>2 DEF Judged
  <2> QED
    BY <1>1, <1>2, <1>4, <1>5, <1>9, <2>3, GoesOn DEF OnOneRun
<1>10. CASE /\ Attestable(Context(Current(o))) /\ operator[o].stage = "reloading"
            /\ operator' = [operator EXCEPT ![o] = [operator[o] EXCEPT !.stage = "publishing",
                                                                       !.before = NothingRead]]
  <2>1. Committed(r)
    BY <1>5, <1>10 DEF Judged
  <2>2. r \in together'
    BY <1>1, <1>5, <1>7, <1>10, <2>1 DEF Judged
  <2>3. Judged("publishing", r)'
    BY <1>6, <2>1, <2>2 DEF Judged
  <2> QED
    BY <1>1, <1>5, <1>10, <2>3, GoesOn DEF OnOneRun
<1>11. CASE Validate(o)
  BY <1>3, <1>8, <1>11 DEF Validate, In
<1>12. CASE ReadRules(o)
  <2>1. CASE RulesHold(runs[Current(o)])
    BY <1>2, <1>5, <1>9, <1>12, <2>1 DEF ReadRules, In
  <2>2. CASE ~RulesHold(runs[Current(o)])
    BY <1>3, <1>12, <2>2 DEF ReadRules
  <2> QED
    BY <2>1, <2>2
<1>13. CASE Reload(o)
  BY <1>3, <1>10, <1>13 DEF Reload, In
<1>14. CASE Fail(o)
  BY <1>3, <1>14 DEF Fail
<1> QED
  BY <1>11, <1>12, <1>13, <1>14

\* A receipt is written only of a run whose very head was merged on its base, and
\* that stood when the rules were read for it.
LEMMA PublishKeeps == ASSUME AttestationInv, NEW o \in Operators, Publish(o) PROVE AttestationInv'
<1>1. /\ operator[o].stage = "publishing" /\ operator[o].queue # {}
      /\ UNCHANGED <<world, skips, gaps, cursor, dropped, together>>
  BY OnQueue DEF Publish, In, OnOneRun
<1>2. PICK r \in RunIds : r = Current(o) /\ receipts' = receipts \union {r}
  BY <1>1, ContextTyped DEF Publish, OnOneRun
<1>3. MergedFor(r) /\ r \in together
  <2>1. RunningIsSound(operator[o])
    BY <1>1, PassAt DEF OnOneRun
  <2> QED
    BY <1>1, <1>2, <2>1 DEF RunningIsSound, Current, Judged, Committed
<1>4. receipts \subseteq receipts' /\ receipts' \subseteq RunIds
  BY <1>2 DEF AttestationInv, WorldTypes
<1>5. ReceiptsSound'
  BY <1>1, <1>2, <1>3 DEF AttestationInv, ReceiptsSound, ReceiptIsTrue, ReceiptStoodTogether,
       MergedFor, world
<1>6. CASE r \in receipts
  <2>1. operator' = [operator EXCEPT ![o] = Held(o)] /\ receipts' = receipts
    BY <1>2, <1>6 DEF Publish
  <2> QED
    BY <1>1, <2>1, HeldKeeps DEF OnOneRun
<1>7. CASE r \notin receipts
  <2>1. operator' = [operator EXCEPT ![o] = Settled(o)]
    BY <1>2, <1>7 DEF Publish
  <2> QED
    BY <1>1, <1>2, <1>4, <1>5, <2>1, SettledKeeps
<1> QED
  BY <1>6, <1>7

-----------------------------------------------------------------------------
\* The end of a pass.

\* A pass over one run alone, which recovers the cursor or leaves it.
LEMMA AloneKeeps ==
  ASSUME AttestationInv, NEW o \in Operators, NEW r \in RunIds,
         NEW recovering \in BOOLEAN, NEW held \in BOOLEAN, recovering = TRUE \/ held = TRUE,
         operator' = [operator EXCEPT ![o] = Pass(cursor, {r}, runs, recovering, held)],
         UNCHANGED <<world, directory, dropped, together>>
  PROVE AttestationInv'
<1>1. PICK again \in SUBSET Nat : again = {q \in {r} : runs[q].attempt # 1}
  <2>1. r \in Nat
    BY RunsTyped DEF AttestationInv
  <2>2. {q \in {r} : runs[q].attempt # 1} \in SUBSET Nat
    BY <2>1
  <2> QED
    BY <2>2
<1>2. PICK pass :
        /\ pass = [stage |-> "choosing", cursor |-> cursor, queue |-> {r},
                   recovering |-> recovering, again |-> again, progress |-> 0,
                   blocked |-> held, before |-> NothingRead]
        /\ operator' = [operator EXCEPT ![o] = pass]
  BY <1>1 DEF Pass
<1>3. r \in Nat /\ cursor \in 1 .. Len(runs) /\ Len(runs) \in Nat
  BY RunsTyped DEF AttestationInv, WorldTypes
<1>4. /\ pass \in RunningPasses /\ pass.stage = "choosing" /\ pass.cursor = cursor
      /\ pass.queue = {r} /\ pass.progress = 0
      /\ pass.recovering = TRUE \/ pass.blocked = TRUE
  BY <1>1, <1>2, <1>3 DEF RunningPasses
<1>5. operator' = [operator EXCEPT ![o] = pass] /\ UNCHANGED <<world, directory, dropped, together>>
  BY <1>2
<1>6. RunningIsSound(pass)
  <2>1. Behind(0)
    BY <1>3, RunsTyped DEF Behind, AttestationInv
  <2> QED
    BY <1>3, <1>4, <2>1 DEF RunningIsSound, OneRun, OnOneRun, Judged, AttestationInv
<1>7. RunningIsSound(pass)'
  <2>1. WorldGrows
    BY <1>5, OperatorGrows DEF AttestationInv, WorldTypes, directory
  <2> QED
    BY <1>4, <1>6, <2>1, RunningStays
<1> QED
  BY <1>4, <1>5, <1>7, QuietKeeps DEF PassIsSound

LEMMA BeginRecoveryKeeps ==
  ASSUME AttestationInv, NEW o \in Operators, NEW r \in RunIds,
         BeginRecovery(o, r) \/ BeginSingle(o, r)
  PROVE AttestationInv'
<1>1. CASE BeginRecovery(o, r)
  BY <1>1, AloneKeeps DEF BeginRecovery
<1>2. CASE BeginSingle(o, r)
  BY <1>2, AloneKeeps DEF BeginSingle
<1> QED
  BY <1>1, <1>2

LEMMA SaveCursorKeeps ==
  ASSUME AttestationInv, NEW o \in Operators, SaveCursor(o) PROVE AttestationInv'
<1>1. PICK pass \in RunningPasses : pass = operator[o] /\ RunningIsSound(pass) /\ ~pass.recovering
  BY PassAt DEF SaveCursor, In
<1>2. /\ operator' = [operator EXCEPT ![o] = Resting]
      /\ UNCHANGED <<world, receipts, skips, gaps, dropped, together>>
      /\ cursor' = IF pass.progress > pass.cursor THEN pass.progress ELSE cursor
  BY <1>1 DEF SaveCursor, Advances
<1>3. /\ pass.progress \in 0 .. Len(runs) /\ pass.cursor \in 1 .. Len(runs)
      /\ Behind(pass.progress) /\ cursor \in 1 .. Len(runs) /\ Len(runs) \in Nat
  BY <1>1, RunsTyped DEF RunningIsSound, AttestationInv, WorldTypes
<1>4. cursor' \in 1 .. Len(runs) /\ Behind(cursor')
  BY <1>2, <1>3 DEF AttestationInv
<1>5. WorldGrows
  BY <1>2, <1>4, OperatorGrows DEF AttestationInv, WorldTypes
<1>6. PICK k \in 0 .. Len(runs) : k = cursor' /\ Behind(k)
  BY <1>3, <1>4
<1>7. Behind(cursor)'
  <2>1. Behind(k)'
    BY <1>5, <1>6, BehindStays DEF AttestationInv
  <2> QED
    BY <1>6, <2>1
<1>8. ReceiptsSound' /\ PassIsSound(Resting)'
  BY <1>2, <1>5, ReceiptsStay DEF PassIsSound, Resting
<1> QED
  BY <1>2, <1>5, <1>7, <1>8, OperatorKeeps

\* The gap that is recorded covers what lies between the cursor and the run.
LEMMA RecordGapKeeps ==
  ASSUME AttestationInv, NEW o \in Operators, RecordGap(o) PROVE AttestationInv'
<1>1. PICK pass \in RunningPasses :
        /\ pass = operator[o] /\ RunningIsSound(pass) /\ pass.recovering
        /\ pass.stage = "choosing" /\ pass.queue = {}
  BY PassAt DEF RecordGap, In
<1>2. UNCHANGED <<world, receipts, skips, cursor, dropped, together>>
  BY DEF RecordGap
<1>3. CASE pass.blocked
  BY <1>1, <1>2, <1>3, RestKeeps DEF RecordGap, directory
<1>4. CASE ~pass.blocked
  <2>1. /\ gaps' = gaps \union {<<pass.cursor, pass.progress>>}
        /\ operator' = [operator EXCEPT ![o].stage = "advancing"]
    BY <1>1, <1>4 DEF RecordGap
  <2>2. PICK after : after = [pass EXCEPT !.stage = "advancing"]
    OBVIOUS
  <2>3. /\ after \in RunningPasses /\ after.stage = "advancing" /\ after.cursor = pass.cursor
        /\ after.queue = {} /\ after.recovering = pass.recovering
        /\ after.progress = pass.progress /\ operator' = [operator EXCEPT ![o] = after]
    BY <1>1, <2>1, <2>2 DEF RunningPasses
  <2>4. /\ pass.progress \in RunIds /\ Dealt(pass.progress) /\ Behind(pass.cursor)
        /\ pass.cursor \in 1 .. Len(runs)
    BY <1>1, <1>4 DEF RunningIsSound, OneRun
  <2>5. /\ Len(runs) \in Nat /\ RunIds = 2 .. Len(runs) /\ runs' = runs
        /\ \A r \in RunIds : Owed(r)' <=> Owed(r)
    BY <1>2, RunsTyped DEF AttestationInv, world, Owed
  <2>6. WorldGrows
    BY <1>2, <2>1, OperatorGrows DEF AttestationInv, WorldTypes
  <2>7. \A r \in RunIds : Dealt(r) => Dealt(r)'
    BY <2>6, BehindStays DEF AttestationInv
  <2>8. Behind(cursor)' /\ ReceiptsSound' /\ Behind(after.cursor)'
    <3>1. cursor \in 0 .. Len(runs) /\ after.cursor \in 0 .. Len(runs)
      BY <2>3, <2>4, <2>5 DEF AttestationInv, WorldTypes
    <3>2. Behind(after.cursor)'
      BY <2>3, <2>4, <2>6, <3>1, BehindStays DEF AttestationInv
    <3> QED
      BY <1>2, <2>6, <3>1, <3>2, BehindStays, ReceiptsStay DEF AttestationInv
  <2>9. Behind(after.progress)'
    <3> SUFFICES ASSUME NEW r \in RunIds, r <= pass.progress, Owed(r)' PROVE Dealt(r)'
      BY <2>3, <2>5 DEF Behind, RunIds
    <3>1. CASE r <= pass.cursor
      BY <2>4, <2>5, <2>7, <3>1 DEF Behind
    <3>2. CASE pass.cursor < r /\ r < pass.progress
      <4>1. PICK gap \in gaps' : gap = <<pass.cursor, pass.progress>>
        BY <2>1
      <4>2. gap[1] = pass.cursor /\ gap[2] = pass.progress
        BY <4>1
      <4> QED
        BY <3>2, <4>2 DEF Dealt, InGap
    <3>3. CASE r = pass.progress
      BY <2>4, <2>7, <3>3
    <3> QED
      BY <2>4, <2>5, <3>1, <3>2, <3>3
  <2>10. RunningIsSound(after)'
    <3>1. after.progress \in 0 .. Len(runs') /\ after.progress > 0
          /\ after.cursor \in 1 .. Len(runs')
      BY <2>3, <2>4, <2>5
    <3> QED
      BY <1>1, <2>3, <2>8, <2>9, <3>1 DEF RunningIsSound, OnOneRun, Judged
  <2> QED
    BY <2>3, <2>6, <2>8, <2>10, OperatorKeeps DEF PassIsSound
<1> QED
  BY <1>3, <1>4

LEMMA AdvanceCursorKeeps ==
  ASSUME AttestationInv, NEW o \in Operators, AdvanceCursor(o) PROVE AttestationInv'
<1>1. PICK pass \in RunningPasses :
        pass = operator[o] /\ RunningIsSound(pass) /\ pass.stage = "advancing"
  BY PassAt DEF AdvanceCursor, In
<1>2. /\ operator' = [operator EXCEPT ![o] = Resting] /\ cursor' = pass.progress
      /\ UNCHANGED <<world, receipts, skips, gaps, dropped, together>>
  BY <1>1 DEF AdvanceCursor
<1>3. PICK k \in 1 .. Len(runs) : k = cursor' /\ Behind(k)
  <2>1. /\ pass.progress \in 0 .. Len(runs) /\ pass.progress > 0 /\ Behind(pass.progress)
        /\ Len(runs) \in Nat
    BY <1>1, RunsTyped DEF RunningIsSound, AttestationInv
  <2>2. pass.progress \in 1 .. Len(runs)
    BY <2>1
  <2> QED
    BY <1>2, <2>1, <2>2
<1>4. WorldGrows
  BY <1>2, <1>3, OperatorGrows DEF AttestationInv, WorldTypes
<1>5. Behind(cursor)'
  <2>1. Behind(k)'
    BY <1>3, <1>4, RunsTyped, BehindStays DEF AttestationInv
  <2> QED
    BY <1>3, <2>1
<1>6. ReceiptsSound' /\ PassIsSound(Resting)'
  BY <1>2, <1>4, ReceiptsStay DEF PassIsSound, Resting
<1> QED
  BY <1>2, <1>4, <1>5, <1>6, OperatorKeeps

LEMMA InitAttestation == AttestationInit => AttestationInv
<1> SUFFICES ASSUME AttestationInit PROVE AttestationInv
  OBVIOUS
<1>1. PICK run : run = [pull |-> "none", head |-> 1, base |-> 0, attempt |-> 1,
                        state |-> "success", artifact |-> TRUE, rules |-> TRUE]
  OBVIOUS
<1>2. run \in ReviewRuns /\ runs = <<run>>
  BY <1>1 DEF AttestationInit, ReviewRuns
<1>3. runs \in Seq(ReviewRuns) /\ Len(runs) = 1 /\ DOMAIN runs = {1}
  BY <1>2
<1>4. RunIds = {}
  BY <1>3 DEF RunIds, Bootstrap
<1>5. pulls \in [Pulls -> PullStates]
  BY DEF AttestationInit, PullStates
<1>6. WorldTypes
  BY <1>3, <1>4, <1>5 DEF WorldTypes, AttestationInit, Bootstrap
<1>7. OperatorTypes /\ \A o \in Operators : operator[o] = Resting
  BY DEF AttestationInit, OperatorTypes
<1>8. \A o \in Operators : PassIsSound(operator[o])
  BY <1>7 DEF PassIsSound, Resting
<1>9. Behind(cursor) /\ ReceiptsSound
  BY <1>4 DEF Behind, ReceiptsSound, ReceiptIsTrue, ReceiptStoodTogether, AttestationInit
<1> QED
  BY <1>6, <1>7, <1>8, <1>9 DEF AttestationInv

LEMMA NextAttestation ==
  ASSUME AttestationInv, [AttestationNext]_attestationVars PROVE AttestationInv'
<1>1. CASE \E p \in Pulls : StartRun(p) \/ Push(p) \/ ClosePull(p)
  BY <1>1, StartRunKeeps, PullStepKeeps
<1>2. CASE \E r \in RunIds : EndRun(r) \/ Rerun(r) \/ Lapse(r)
  BY <1>2, RunStepKeeps
<1>3. CASE MergeOther \/ Expire \/ EditRules
  BY <1>3, PullStepKeeps, EditRulesKeeps
<1>4. ASSUME NEW o \in Operators,
             \/ BeginPass(o) \/ ListRuns(o)
             \/ \E r \in RunIds : BeginRecovery(o, r) \/ BeginSingle(o, r)
             \/ Choose(o) \/ Load(o) \/ Validate(o) \/ ReadRules(o) \/ Reload(o)
             \/ Fail(o) \/ Publish(o)
             \/ SaveCursor(o) \/ RecordGap(o) \/ AdvanceCursor(o) \/ PassDies(o)
      PROVE AttestationInv'
  <2>1. CASE PassDies(o)
    BY <2>1, RestKeeps DEF PassDies
  <2> QED
    BY <1>4, <2>1, BeginPassKeeps, ListRunsKeeps, BeginRecoveryKeeps, ChooseKeeps, LoadKeeps,
       ReadKeepsPass, PublishKeeps, SaveCursorKeeps, RecordGapKeeps, AdvanceCursorKeeps
<1>5. CASE UNCHANGED attestationVars
  <2>1. UNCHANGED <<world, directory, dropped, together, operator>>
    BY <1>5 DEF attestationVars, world, directory
  <2>2. WorldGrows
    BY <2>1, OperatorGrows DEF AttestationInv, WorldTypes, directory
  <2> QED
    BY <2>1, <2>2, WorldKeeps DEF directory
<1> QED
  BY <1>1, <1>2, <1>3, <1>4, <1>5 DEF AttestationNext

\* For any number of runs, pull requests, operators and passes that overlap or
\* die, the cursor passes over no run that could still be attested, and a receipt
\* is of a run that reviewed the very head that was merged on the very base it
\* was merged on, and that was still the first attempt with its artifact kept at
\* the moment its rules were found to hold (scripts/governance/route_attestation.py:
\* select_runs, attest_run, write_receipt, write_cursor).
THEOREM AttestationStaysSound == AttestationSpec => []AttestationIsSound
<1>1. AttestationInit => AttestationInv
  BY InitAttestation
<1>2. AttestationInv /\ [AttestationNext]_attestationVars => AttestationInv'
  BY NextAttestation
<1>3. AttestationInv => AttestationIsSound
  BY DEF AttestationInv, ReceiptsSound, AttestationIsSound, NothingIsPassedOver, Behind, Owed, Dealt
<1> QED
  BY <1>1, <1>2, <1>3, PTL DEF AttestationSpec

-----------------------------------------------------------------------------
\* Reviewed runs and their batches, for any tasks, dependency relation,
\* controllers and number of times the batch is taken up.

USE ReviewedAssumption

-----------------------------------------------------------------------------
\* Types.

StepStates == {"none", "started"} \union Ends
RunStates == {"unfinished", "awaiting_review", "accepted", "rejected"} \union StepStates

Journals ==
  [place : {"absent", "bare", "written"}, steps : [Steps -> StepStates],
   finished : RunStates, state : RunStates, review : {"none", "accept", "reject"},
   worker : NativeIds \union {"none"}, reviewer : NativeIds \union {"none", "operator"},
   told : BOOLEAN, telosError : BOOLEAN]

BeforeEnd == {"journalling", "work", "working", "after work", "verify", "verifying",
              "after verify", "awaiting", "failing"}
InRun == BeforeEnd \union {"review", "reviewing", "after review", "judged", "reporting",
                      "telling"}

\* A controller that takes the batch up has chosen nothing yet.
Engaged == [stage : {"creating"} \union InRun, child : Children]
Choosing == [stage : {"choosing"}, child : Children \union {Manifest[1]}]
Stations == {Unoccupied} \union Choosing \union Engaged

Occupied(c) == controller[c].stage # "idle"
Chosen(c) == controller[c].stage \in {"creating"} \union InRun

ReviewedTypes ==
  /\ depends \in [Children -> SUBSET Children]
  /\ batch \in {"none", "making", "frozen"}
  /\ events \in [Children -> Journals]
  /\ actors \subseteq Children \X Steps
  /\ controller \in [Controllers -> Stations]

-----------------------------------------------------------------------------
\* The inductive invariant.

\* Only the holder of the batch's lock is at work.
OneController == \A c \in Controllers : Occupied(c) => batchLock = c

\* Nothing is known yet of how a run ends.
Undecided(j) ==
  j.finished = "none" /\ j.review = "none" /\ j.state = "unfinished" /\ j.telosError = FALSE

WorkPassed(j) == j.steps["work"] = "passed"
VerifyPassed(j) == j.steps["verify"] \in {"none", "passed"}

Earned(j) == WorkPassed(j) /\ VerifyPassed(j) /\ j.review # "none" /\ j.reviewer # j.worker

\* The run's acceptance is known to Telos, or was no controller's to tell.
Counts(j) == j.state = "accepted" /\ j.review = "accept"
Notified(j) == Counts(j) => j.told \/ j.reviewer = "operator"

\* What the journal of the child says at each stage of its controller.
Fits(stage, j) ==
  /\ stage = "creating" => j.place = "absent"
  /\ stage = "journalling" => j.place = "bare"
  /\ stage \in InRun \ {"journalling"} => j.place = "written"
  /\ stage \in BeforeEnd => Undecided(j)
  /\ stage \in {"after work", "verify", "verifying", "after verify", "awaiting"} => WorkPassed(j)
  /\ stage \in {"journalling", "work", "working", "after work", "verify"} =>
       j.steps["verify"] = "none"
  /\ stage \in {"after verify", "awaiting"} => VerifyPassed(j)
  /\ stage \in {"verify", "verifying", "after verify", "awaiting"} => j.worker \in NativeIds
  /\ stage = "telling" => Notified(j)

Progressing == \A c \in Controllers : Chosen(c) =>
  /\ Fits(controller[c].stage, events[controller[c].child])
  /\ \A d \in depends[controller[c].child] :
       controller[c].stage = "creating" => Accepted(d)

\* While a child is developed every other one that exists is accepted, and
\* nothing that exists depends on it, itself included.
Alone(c) ==
  \A t \in Children : events[t].place # "absent" =>
    controller[c].child \notin depends[t] /\ (t # controller[c].child => Accepted(t))

Serially == \A c \in Controllers : Chosen(c) => Alone(c)

\* A run that awaits a review was worked out and verified; one that was
\* accepted, or is complete in Telos, was reviewed by another.
Sound(j) ==
  /\ j.finished = "awaiting_review" =>
       WorkPassed(j) /\ VerifyPassed(j) /\ j.worker \in NativeIds /\ j.place = "written"
  /\ j.state = "accepted" \/ j.told => Earned(j)

Sounds == \A t \in Children : Sound(events[t])

\* Telos was told of an accepted child that no controller is at, unless an
\* operator reviewed it or its controller was killed before it could tell.
ToldOf(t) == events[t].told \/ events[t].reviewer = "operator" \/ t \in abandoned
LeftAlone(t) == \A c \in Controllers : Chosen(c) => controller[c].child # t
Reports == \A t \in Children : Accepted(t) /\ LeftAlone(t) => ToldOf(t)

\* An untouched child has no journal to be accepted by.
Absent == \A t \in Children : events[t].place = "absent" => events[t] = NoJournal

\* Those who write the workspace.
Writers == {x \in actors : x[2] # "review"}

\* A writer works on an undecided run; a controller past the choice of its
\* child is in the step of the only one.
WritersKnown ==
  /\ \A x \in Writers : events[x[1]].place = "written" /\ Undecided(events[x[1]])
  /\ \A c \in Controllers : Chosen(c) =>
       \A x \in Writers : x[1] = controller[c].child /\ controller[c].stage = InStep[x[2]]

ReviewedInv ==
  /\ ReviewedTypes /\ OneController /\ Progressing /\ Serially /\ Sounds /\ Absent
  /\ DependenciesWereAccepted /\ DependenciesWereTold /\ Reports /\ OneWriter /\ WritersKnown

-----------------------------------------------------------------------------
\* Steps.

LEMMA InitInv == ReviewedInit => ReviewedInv
<1> SUFFICES ASSUME ReviewedInit PROVE ReviewedInv
  OBVIOUS
<1>1. NoJournal \in Journals
  BY DEF NoJournal, Journals, RunStates, StepStates, Steps
<1>2. ReviewedTypes
  BY <1>1 DEF ReviewedInit, ReviewedTypes, Stations
<1>3. \A c \in Controllers : ~Occupied(c) /\ ~Chosen(c)
  BY DEF ReviewedInit, Occupied, Chosen, Unoccupied, InRun, BeforeEnd
<1>4. \A t \in Children : events[t] = NoJournal
  BY DEF ReviewedInit
<1>5. Writers = {}
  BY DEF ReviewedInit, Writers
<1>6. OneController /\ Progressing /\ Serially /\ WritersKnown
  BY <1>3, <1>5 DEF OneController, Progressing, Serially, WritersKnown
<1>7. Sounds /\ Absent /\ DependenciesWereAccepted /\ DependenciesWereTold /\ Reports
  BY <1>4 DEF Sounds, Sound, Absent, DependenciesWereAccepted, DependenciesWereTold, Reports,
    Accepted, NoJournal
<1>8. OneWriter
  BY DEF OneWriter, ReviewedInit
<1> QED
  BY <1>2, <1>6, <1>7, <1>8 DEF ReviewedInv

(* A controller that has chosen its child keeps it as it goes on.          *)
LEMMA ChosenIsEngaged ==
  ASSUME ReviewedTypes, NEW c \in Controllers, Chosen(c)
  PROVE controller[c] \in Engaged /\ Child(c) \in Children
<1>1. controller[c] \in Stations
  BY DEF ReviewedTypes
<1>2. controller[c].stage # "idle" /\ controller[c].stage # "choosing"
  BY DEF Chosen, InRun, BeforeEnd
<1> QED
  BY <1>1, <1>2 DEF Stations, Choosing, Unoccupied, Engaged, Child

LEMMA GoKeeps ==
  ASSUME ReviewedTypes, NEW c \in Controllers, Chosen(c), NEW stage \in {"choosing"} \union InRun,
         Go(c, stage)
  PROVE /\ controller' \in [Controllers -> Stations]
        /\ controller'[c].stage = stage /\ controller'[c].child = Child(c)
        /\ \A d \in Controllers : d # c => controller'[d] = controller[d]
<1>1. controller[c] \in Engaged
  BY ChosenIsEngaged
<1>2. [controller[c] EXCEPT !.stage = stage] \in Engaged \union Choosing
  BY <1>1 DEF Engaged, Choosing
<1>3. controller' = [controller EXCEPT ![c] = [controller[c] EXCEPT !.stage = stage]]
  BY DEF Go
<1>4. controller \in [Controllers -> Stations]
  BY DEF ReviewedTypes
<1>5. controller' \in [Controllers -> Stations]
  BY <1>2, <1>3, <1>4 DEF Stations
<1>6. controller'[c] = [controller[c] EXCEPT !.stage = stage]
  BY <1>3, <1>4
<1>7. controller'[c].stage = stage /\ controller'[c].child = Child(c)
  BY <1>1, <1>6 DEF Engaged, Child
<1> QED
  BY <1>3, <1>4, <1>5, <1>7

LEMMA StopKeeps ==
  ASSUME ReviewedTypes, NEW c \in Controllers, Stop(c)
  PROVE /\ controller' \in [Controllers -> Stations]
        /\ controller'[c] = Unoccupied
        /\ \A d \in Controllers : d # c => controller'[d] = controller[d]
BY DEF ReviewedTypes, Stop, Stations

(* A journal stays one, whatever is recorded in it.                        *)
LEMMA JournalKept ==
  ASSUME NEW j \in Journals
  PROVE /\ \A place \in {"bare", "written"} : [j EXCEPT !.place = place] \in Journals
        /\ \A step \in Steps, x \in StepStates : [j EXCEPT !.steps[step] = x] \in Journals
        /\ \A native \in NativeIds : [j EXCEPT !.worker = native] \in Journals
        /\ \A s \in RunStates : [j EXCEPT !.finished = s, !.state = s] \in Journals
        /\ \A v \in {"accept", "reject"}, who \in NativeIds \union {"operator"},
              s \in RunStates :
             [j EXCEPT !.review = v, !.reviewer = who, !.state = s] \in Journals
        /\ \A failed \in BOOLEAN : [j EXCEPT !.telosError = failed] \in Journals
        /\ \A complete \in BOOLEAN : [j EXCEPT !.told = complete] \in Journals
<1> USE DEF Journals
<1>1. \A place \in {"bare", "written"} : [j EXCEPT !.place = place] \in Journals
  OBVIOUS
<1>2. \A step \in Steps, x \in StepStates : [j EXCEPT !.steps[step] = x] \in Journals
  OBVIOUS
<1>3. \A native \in NativeIds : [j EXCEPT !.worker = native] \in Journals
  OBVIOUS
<1>4. \A s \in RunStates : [j EXCEPT !.finished = s, !.state = s] \in Journals
  OBVIOUS
<1>5. \A v \in {"accept", "reject"}, who \in NativeIds \union {"operator"}, s \in RunStates :
        [j EXCEPT !.review = v, !.reviewer = who, !.state = s] \in Journals
  OBVIOUS
<1>6. \A failed \in BOOLEAN : [j EXCEPT !.telosError = failed] \in Journals
  OBVIOUS
<1>7. \A complete \in BOOLEAN : [j EXCEPT !.told = complete] \in Journals
  OBVIOUS
<1> QED
  BY <1>1, <1>2, <1>3, <1>4, <1>5, <1>6, <1>7

(* While a controller runs no step that writes, nobody writes.             *)
LEMMA NobodyWrites ==
  ASSUME ReviewedInv, NEW c \in Controllers, Chosen(c),
         controller[c].stage \notin {"working", "verifying"}
  PROVE Writers = {}
BY DEF ReviewedInv, ReviewedTypes, WritersKnown, Writers, InStep, Steps

(* A controller at work is alone.                                          *)
LEMMA OthersIdle ==
  ASSUME ReviewedInv, NEW c \in Controllers, Occupied(c)
  PROVE batchLock = c /\ \A d \in Controllers : d # c => ~Occupied(d) /\ ~Chosen(d)
BY DEF ReviewedInv, OneController, Occupied, Chosen, InRun, BeforeEnd

(* A step of the controller keeps the invariant when the journal it leaves *)
(* fits its next stage and is sound, and the only writer left is in it.    *)
LEMMA RunStep ==
  ASSUME ReviewedInv, NEW c \in Controllers, Chosen(c),
         NEW stage \in {"choosing"} \union InRun, Go(c, stage),
         NEW j \in Journals, events' = [events EXCEPT ![Child(c)] = j],
         UNCHANGED <<depends, batch, batchLock, abandoned>>,
         stage # "choosing" => Fits(stage, j), Sound(j), j.place # "absent",
         stage = "choosing" => Notified(j) \/ j.telosError,
         actors' \subseteq Children \X Steps,
         \A x \in actors' : x[2] # "review" => x[1] = Child(c) /\ stage = InStep[x[2]]
  PROVE ReviewedInv'
<1> DEFINE t == Child(c)
<1>1. controller[c] \in Engaged /\ t \in Children
  BY ChosenIsEngaged DEF ReviewedInv
<1>2. /\ controller' \in [Controllers -> Stations]
      /\ controller'[c].stage = stage /\ controller'[c].child = t
      /\ \A d \in Controllers : d # c => controller'[d] = controller[d]
  BY GoKeeps DEF ReviewedInv
<1>3. /\ events' \in [Children -> Journals] /\ events'[t] = j
      /\ \A u \in Children : u # t => events'[u] = events[u]
  BY <1>1 DEF ReviewedInv, ReviewedTypes
<1>4. ReviewedTypes'
  BY <1>2, <1>3 DEF ReviewedInv, ReviewedTypes
<1>5. Occupied(c) /\ stage # "idle"
  BY DEF Occupied, Chosen, InRun, BeforeEnd
<1>6. OneController'
  BY <1>2, <1>5, OthersIdle DEF OneController, Occupied
<1>7. \A d \in Controllers : d # c => ~(Chosen(d)')
  BY <1>2, <1>5, OthersIdle DEF Chosen
<1>8. stage # "creating"
  BY DEF InRun, BeforeEnd
<1>9. Progressing'
  <2>1. Chosen(c)' => Fits(stage, j)
    BY <1>2 DEF Chosen, InRun, BeforeEnd
  <2>2. Chosen(c)' => Fits(controller'[c].stage, events'[controller'[c].child])
    BY <2>1, <1>2, <1>3
  <2> QED
    BY <1>2, <1>7, <1>8, <2>2 DEF Progressing
<1>10. Sounds' /\ Absent'
  BY <1>3 DEF ReviewedInv, Sounds, Absent
<1>11. \A u \in Children : events[u].place # "absent" =>
         t \notin depends[u] /\ (u # t => Accepted(u))
  BY DEF ReviewedInv, Serially, Alone, Child
<1>12. \A d \in depends[t] :
         d # t /\ events[d].state = "accepted" /\ events[d].review = "accept"
               /\ ~events[d].telosError
  <2>1. CASE events[t].place = "absent"
    <3>1. controller[c].stage = "creating"
      BY <1>1, <2>1 DEF ReviewedInv, Progressing, Fits, Chosen, Child, InRun, BeforeEnd
    <3> QED
      BY <2>1, <3>1, <1>1 DEF ReviewedInv, Progressing, Child, Accepted
  <2>2. CASE events[t].place # "absent"
    BY <1>1, <1>11, <2>2 DEF ReviewedInv, DependenciesWereAccepted
  <2> QED
    BY <2>1, <2>2
<1>19. \A d \in depends[t] : ToldOf(d)
  <2>1. CASE events[t].place = "absent"
    <3>1. \A d \in depends[t] : Accepted(d) /\ d \in Children /\ d # t
      <4>1. controller[c].stage = "creating"
        BY <1>1, <2>1 DEF ReviewedInv, Progressing, Fits, Chosen, Child, InRun, BeforeEnd
      <4> QED
        BY <4>1, <1>1, <1>12 DEF ReviewedInv, ReviewedTypes, Progressing, Child
    <3>2. \A d \in Children : d # t => LeftAlone(d)
      BY <1>5, OthersIdle DEF LeftAlone, Child
    <3> QED
      BY <3>1, <3>2 DEF ReviewedInv, Reports
  <2>2. CASE events[t].place # "absent"
    BY <1>1, <2>2 DEF ReviewedInv, DependenciesWereTold, ToldOf
  <2> QED
    BY <2>1, <2>2
<1>20. DependenciesWereTold'
  <2>1. ASSUME NEW u \in Children, events'[u].place # "absent", NEW d \in depends[u]
        PROVE d # t /\ d \in Children /\ ToldOf(d)
    <3>1. d \in Children
      BY DEF ReviewedInv, ReviewedTypes
    <3>2. CASE u = t
      BY <1>12, <1>19, <3>1, <3>2
    <3>3. CASE u # t
      BY <1>3, <1>11, <2>1, <3>1, <3>3 DEF ReviewedInv, DependenciesWereTold, ToldOf
    <3> QED
      BY <3>2, <3>3
  <2>2. \A u \in Children : events'[u].place # "absent" =>
          \A d \in depends[u] : events'[d] = events[d] /\ ToldOf(d)
    BY <1>3, <2>1
  <2> QED
    BY <2>2 DEF DependenciesWereTold, ToldOf
<1>21. Reports'
  <2>1. ASSUME NEW u \in Children, u # t, Accepted(u)' PROVE ToldOf(u)'
    <3>1. LeftAlone(u)
      BY <1>5, <2>1, OthersIdle DEF LeftAlone, Child
    <3>2. Accepted(u)
      BY <1>3, <2>1 DEF Accepted
    <3> QED
      BY <1>3, <2>1, <3>1, <3>2 DEF ReviewedInv, Reports, ToldOf
  <2>2. CASE stage = "choosing"
    BY <1>3, <2>1, <2>2 DEF Reports, Accepted, ToldOf, Notified, Counts
  <2>3. CASE stage # "choosing"
    <3>1. controller'[c].stage \in InRun /\ controller'[c].child = t
      BY <1>2, <2>3
    <3>2. Chosen(c)'
      BY <3>1 DEF Chosen
    <3>3. \A u \in Children : LeftAlone(u)' => u # t
      BY <3>1, <3>2 DEF LeftAlone
    <3> QED
      BY <2>1, <3>3 DEF Reports
  <2> QED
    BY <2>2, <2>3
<1>13. Serially'
  BY <1>2, <1>3, <1>7, <1>11, <1>12 DEF Serially, Alone, Accepted
<1>14. DependenciesWereAccepted'
  BY <1>3, <1>11, <1>12, <1>1 DEF ReviewedInv, DependenciesWereAccepted, ReviewedTypes
<1>15. \A x \in Writers' : x \in Children \X Steps /\ x[1] = t /\ stage = InStep[x[2]]
                           /\ x[2] # "review"
  BY DEF Writers
<1>16. OneWriter'
  BY DEF OneWriter, InStep, Steps
<1>17. \A x \in Writers' : stage \in {"working", "verifying"}
  BY <1>15 DEF InStep, Steps
<1>18. WritersKnown'
  BY <1>2, <1>3, <1>7, <1>15, <1>17 DEF WritersKnown, Fits, InRun, BeforeEnd
<1> QED
  BY <1>4, <1>6, <1>9, <1>10, <1>13, <1>14, <1>16, <1>18, <1>20, <1>21 DEF ReviewedInv

(* A controller that stops, or is killed, leaves what is there to be held. *)
LEMMA StopStep ==
  ASSUME ReviewedInv, NEW c \in Controllers, Occupied(c), Stop(c),
         UNCHANGED <<depends, batch, events, actors>>, abandoned \subseteq abandoned',
         Chosen(c) /\ Accepted(Child(c)) => events[Child(c)].told \/ Child(c) \in abandoned'
  PROVE ReviewedInv'
<1>1. \A d \in Controllers : ~(Occupied(d)') /\ ~(Chosen(d)')
  <2>1. controller'[c].stage = "idle"
    BY StopKeeps DEF ReviewedInv, Unoccupied
  <2>2. ~(Occupied(c)') /\ ~(Chosen(c)')
    BY <2>1 DEF Occupied, Chosen, InRun, BeforeEnd
  <2>3. \A d \in Controllers : d # c => controller'[d] = controller[d]
    BY StopKeeps DEF ReviewedInv
  <2> QED
    BY <2>2, <2>3, OthersIdle DEF Occupied, Chosen
<1>2. ReviewedTypes'
  BY StopKeeps DEF ReviewedInv, ReviewedTypes
<1>3. DependenciesWereTold'
  BY DEF ReviewedInv, DependenciesWereTold
<1>4. Reports'
  <2>1. ASSUME NEW t \in Children, Accepted(t) PROVE ToldOf(t)'
    <3>1. CASE Chosen(c) /\ t = Child(c)
      BY <2>1, <3>1 DEF ToldOf
    <3>2. CASE ~(Chosen(c) /\ t = Child(c))
      <4>1. LeftAlone(t)
        BY <3>2, OthersIdle DEF LeftAlone, Child
      <4> QED
        BY <2>1, <4>1 DEF ReviewedInv, Reports, ToldOf
    <3> QED
      BY <3>1, <3>2
  <2> QED
    BY <2>1 DEF Reports, Accepted
<1> QED
  BY <1>1, <1>2, <1>3, <1>4 DEF ReviewedInv, OneController, Progressing, Serially, Sounds,
    Absent, DependenciesWereAccepted, OneWriter, WritersKnown, Writers

-----------------------------------------------------------------------------
\* One lemma per operation.

(* What is known of the chosen child and its journal.                      *)
LEMMA Here ==
  ASSUME ReviewedInv, NEW c \in Controllers, Chosen(c)
  PROVE /\ Child(c) \in Children /\ events[Child(c)] \in Journals
        /\ Fits(controller[c].stage, events[Child(c)]) /\ Sound(events[Child(c)])
        /\ events \in [Children -> Journals] /\ actors \subseteq Children \X Steps
BY ChosenIsEngaged DEF ReviewedInv, ReviewedTypes, Progressing, Sounds, Child

LEMMA CreateRunKeeps ==
  ASSUME ReviewedInv, NEW c \in Controllers, CreateRun(c)
  PROVE ReviewedInv'
<1> DEFINE j == [events[Child(c)] EXCEPT !.place = "bare"]
<1>1. controller[c].stage = "creating" /\ Chosen(c) /\ Occupied(c)
  BY DEF CreateRun, At, Chosen, Occupied
<1>2. CASE ~(DependenciesStand(Child(c)) /\ events[Child(c)].place = "absent")
  <2>1. ~Accepted(Child(c))
    BY <1>1, Here DEF Fits, Accepted
  <2> QED
    BY <1>1, <1>2, <2>1, StopStep DEF CreateRun, Unmoved
<1>3. CASE DependenciesStand(Child(c)) /\ events[Child(c)].place = "absent"
  <2>1. events' = [events EXCEPT ![Child(c)] = j] /\ Go(c, "journalling")
    BY <1>1, <1>3, Here DEF CreateRun, Journals
  <2>2. events[Child(c)] = NoJournal
    BY <1>1, Here DEF Fits, ReviewedInv, Absent
  <2>3. j \in Journals
    BY <1>1, Here, JournalKept
  <2>4. Fits("journalling", j) /\ Sound(j) /\ j.place # "absent"
    BY <2>2 DEF Fits, Sound, Earned, Undecided, NoJournal, InRun, BeforeEnd
  <2>5. \A x \in actors : x[2] = "review"
    BY <1>1, NobodyWrites DEF Writers
  <2>6. "journalling" \in InRun
    BY DEF InRun, BeforeEnd
  <2>7. UNCHANGED <<depends, batch, batchLock, abandoned>> /\ actors' = actors
    BY <1>3 DEF CreateRun, Unmoved
  <2> HIDE DEF j
  <2> QED
    BY <1>1, <2>1, <2>3, <2>4, <2>5, <2>6, <2>7, Here, RunStep
<1> QED
  BY <1>2, <1>3

LEMMA CreateJournalKeeps ==
  ASSUME ReviewedInv, NEW c \in Controllers, CreateJournal(c)
  PROVE ReviewedInv'
<1> DEFINE e == events[Child(c)]
           j == [e EXCEPT !.place = "written"]
<1>1. controller[c].stage = "journalling" /\ Chosen(c)
  BY DEF CreateJournal, At, Chosen, InRun, BeforeEnd
<1>2. e \in Journals /\ Fits("journalling", e) /\ Sound(e)
  BY <1>1, Here
<1>3. events' = [events EXCEPT ![Child(c)] = j]
  BY <1>1, Here DEF CreateJournal
<1>4. j \in Journals
  BY <1>2, JournalKept
<1>5. j.place = "written" /\ j.steps = e.steps /\ j.finished = e.finished /\ j.review = e.review
      /\ j.state = e.state /\ j.telosError = e.telosError /\ j.told = e.told
      /\ j.worker = e.worker
  BY <1>2 DEF Journals
<1>6. UNCHANGED <<depends, batch, batchLock, abandoned>> /\ actors' = actors /\ Go(c, "work")
  BY DEF CreateJournal, Unmoved
<1>7. \A x \in actors : x[2] = "review"
  BY <1>1, NobodyWrites DEF Writers
<1> HIDE DEF j, e
<1>8. Fits("work", j) /\ Sound(j) /\ j.place # "absent" /\ "work" \in InRun
  BY <1>2, <1>5 DEF Fits, Sound, Earned, Undecided, InRun, BeforeEnd
<1> QED
  BY <1>1, <1>3, <1>4, <1>6, <1>7, <1>8, Here, RunStep

LEMMA StartStepKeeps ==
  ASSUME ReviewedInv, NEW c \in Controllers, NEW step \in Steps, StartStep(c, step)
  PROVE ReviewedInv'
<1> DEFINE e == events[Child(c)]
           j == [e EXCEPT !.steps[step] = "started"]
           next == InStep[step]
<1>1. controller[c].stage = step /\ Chosen(c)
  BY DEF StartStep, At, Chosen, Steps, InRun, BeforeEnd
<1>2. e \in Journals /\ Fits(step, e) /\ Sound(e)
  BY <1>1, Here
<1>3. events' = [events EXCEPT ![Child(c)] = j]
  BY <1>1, Here DEF StartStep
<1>4. j \in Journals
  BY <1>2, JournalKept DEF StepStates
<1>5. /\ j.place = e.place /\ j.finished = e.finished /\ j.review = e.review
      /\ j.state = e.state /\ j.telosError = e.telosError /\ j.told = e.told
      /\ j.worker = e.worker
      /\ j.reviewer = e.reviewer /\ \A s \in Steps : s # step => j.steps[s] = e.steps[s]
  BY <1>2 DEF Journals
<1>6. UNCHANGED <<depends, batch, batchLock, abandoned>> /\ Go(c, next)
  BY DEF StartStep, Unmoved
<1>7. \A x \in actors : x[2] = "review"
  BY <1>1, NobodyWrites DEF Writers, Steps
<1>8. /\ actors' \subseteq Children \X Steps
      /\ \A x \in actors' : x[2] # "review" => x[1] = Child(c) /\ next = InStep[x[2]]
  BY <1>1, <1>7, Here DEF StartStep
<1> HIDE DEF j, e
<1>9. Fits(next, j) /\ Sound(j) /\ j.place # "absent" /\ next \in InRun
  <2>1. CASE step = "work"
    BY <1>2, <1>5, <2>1
    DEF Fits, Sound, Earned, Undecided, WorkPassed, VerifyPassed, InRun, BeforeEnd, InStep, Steps
  <2>2. CASE step = "verify"
    BY <1>2, <1>5, <2>2
    DEF Fits, Sound, Earned, Undecided, WorkPassed, VerifyPassed, InRun, BeforeEnd, InStep, Steps
  <2>3. CASE step = "review"
    BY <1>2, <1>5, <2>3
    DEF Fits, Sound, Earned, Undecided, WorkPassed, VerifyPassed, InRun, BeforeEnd, InStep, Steps
  <2> QED
    BY <2>1, <2>2, <2>3 DEF Steps
<1> HIDE DEF next
<1>10. Chosen(c)
  BY <1>1
<1> QED
  <2>1. next \in {"choosing"} \union InRun
    BY <1>9
  <2>2. next # "choosing" => Fits(next, j)
    BY <1>9
  <2>3. Sound(j) /\ j.place # "absent" /\ next # "choosing"
    BY <1>9 DEF InRun, BeforeEnd
  <2> QED
    BY <1>3, <1>4, <1>6, <1>8, <2>1, <2>2, <2>3, <1>10, RunStep

LEMMA EndStepKeeps ==
  ASSUME ReviewedInv, NEW c \in Controllers, NEW step \in Steps, NEW end \in Ends,
         EndStep(c, step, end)
  PROVE ReviewedInv'
<1> DEFINE e == events[Child(c)]
           j == [e EXCEPT !.steps[step] = end]
           next == IF end = "passed" THEN Passed[step]
                   ELSE IF step = "review" THEN "reporting" ELSE "failing"
<1>1. controller[c].stage = InStep[step] /\ Chosen(c)
  <2>1. InStep[step] \in {"working", "verifying", "reviewing"}
    BY DEF InStep, Steps
  <2> QED
    BY <2>1 DEF EndStep, At, Chosen, InRun, BeforeEnd
<1>2. e \in Journals /\ Fits(InStep[step], e) /\ Sound(e)
  BY <1>1, Here
<1>3. events' = [events EXCEPT ![Child(c)] = j]
  BY <1>1, Here DEF EndStep
<1>4. j \in Journals
  BY <1>2, JournalKept DEF StepStates
<1>5. /\ j.place = e.place /\ j.finished = e.finished /\ j.review = e.review
      /\ j.state = e.state /\ j.telosError = e.telosError /\ j.told = e.told
      /\ j.worker = e.worker
      /\ j.reviewer = e.reviewer /\ j.steps[step] = end
      /\ \A s \in Steps : s # step => j.steps[s] = e.steps[s]
  BY <1>2 DEF Journals
<1>6. /\ UNCHANGED <<depends, batch, batchLock, abandoned>> /\ Go(c, next)
      /\ actors' = actors \ {<<Child(c), step>>}
  BY DEF EndStep, Unmoved
<1>7. \A x \in Writers : x = <<Child(c), step>>
  <2>1. \A x \in Writers : x \in Children \X Steps /\ x[1] = Child(c) /\ InStep[step] = InStep[x[2]]
    BY <1>1, Here DEF ReviewedInv, WritersKnown, Writers, Child
  <2> QED
    BY <2>1 DEF InStep, Steps
<1>8. /\ actors' \subseteq Children \X Steps
      /\ \A x \in actors' : x[2] # "review" => x[1] = Child(c) /\ next = InStep[x[2]]
  BY <1>1, <1>6, <1>7, Here DEF Writers
<1> HIDE DEF j, e
<1>9. Fits(next, j) /\ Sound(j) /\ j.place # "absent" /\ next \in InRun
  <2>1. CASE step = "work"
    BY <1>2, <1>5, <2>1
    DEF Fits, Sound, Earned, Undecided, WorkPassed, VerifyPassed, InRun, BeforeEnd, InStep, Passed, Steps
  <2>2. CASE step = "verify"
    BY <1>2, <1>5, <2>2
    DEF Fits, Sound, Earned, Undecided, WorkPassed, VerifyPassed, InRun, BeforeEnd, InStep, Passed, Steps
  <2>3. CASE step = "review"
    BY <1>2, <1>5, <2>3
    DEF Fits, Sound, Earned, Undecided, WorkPassed, VerifyPassed, InRun, BeforeEnd, InStep, Passed, Steps
  <2> QED
    BY <2>1, <2>2, <2>3 DEF Steps
<1> HIDE DEF next
<1>10. next # "choosing"
  BY <1>9 DEF InRun, BeforeEnd
<1> QED
  BY <1>1, <1>3, <1>4, <1>6, <1>8, <1>9, <1>10, RunStep

LEMMA RetainWorkKeeps ==
  ASSUME ReviewedInv, NEW c \in Controllers, NEW native \in NativeIds, RetainWork(c, native)
  PROVE ReviewedInv'
<1> DEFINE e == events[Child(c)]
           j == [e EXCEPT !.worker = native]
<1>1. controller[c].stage = "after work" /\ Chosen(c)
  BY DEF RetainWork, At, Chosen, InRun, BeforeEnd
<1>2. e \in Journals /\ Fits("after work", e) /\ Sound(e)
  BY <1>1, Here
<1>3. events' = [events EXCEPT ![Child(c)] = j]
  BY <1>1, Here DEF RetainWork
<1>4. j \in Journals
  BY <1>2, JournalKept
<1>5. j.place = e.place /\ j.steps = e.steps /\ j.finished = e.finished /\ j.review = e.review
      /\ j.state = e.state /\ j.telosError = e.telosError /\ j.told = e.told
      /\ j.worker = native
  BY <1>2 DEF Journals
<1>6. UNCHANGED <<depends, batch, batchLock, abandoned>> /\ actors' = actors
  BY DEF RetainWork, Unmoved
<1>7. \A x \in actors : x[2] = "review"
  BY <1>1, NobodyWrites DEF Writers
<1>8. PICK stage \in {"verify", "awaiting"} : Go(c, stage)
  BY DEF RetainWork
<1> HIDE DEF j, e
<1>9. Fits(stage, j) /\ Sound(j) /\ j.place # "absent" /\ stage \in InRun
  BY <1>2, <1>5, <1>8 DEF Fits, Sound, Earned, Undecided, WorkPassed, VerifyPassed, InRun, BeforeEnd
<1> QED
  BY <1>1, <1>3, <1>4, <1>6, <1>7, <1>8, <1>9, Here, RunStep

LEMMA PassVerificationKeeps ==
  ASSUME ReviewedInv, NEW c \in Controllers, PassVerification(c)
  PROVE ReviewedInv'
<1> DEFINE e == events[Child(c)]
<1>1. controller[c].stage = "after verify" /\ Chosen(c)
  BY DEF PassVerification, At, Chosen, InRun, BeforeEnd
<1>2. e \in Journals /\ Fits("after verify", e) /\ Sound(e)
  BY <1>1, Here
<1>3. events' = [events EXCEPT ![Child(c)] = e]
  BY <1>1, Here DEF PassVerification
<1>4. UNCHANGED <<depends, batch, batchLock, abandoned>> /\ actors' = actors /\ Go(c, "awaiting")
  BY DEF PassVerification, Unmoved
<1>5. \A x \in actors : x[2] = "review"
  BY <1>1, NobodyWrites DEF Writers
<1> HIDE DEF e
<1>6. Fits("awaiting", e) /\ e.place # "absent" /\ "awaiting" \in InRun
  BY <1>2 DEF Fits, InRun, BeforeEnd
<1> QED
  BY <1>1, <1>2, <1>3, <1>4, <1>5, <1>6, Here, RunStep

(* A run finished while its controller is in no step that writes.          *)
LEMMA FinishKeeps ==
  ASSUME ReviewedInv, NEW c \in Controllers, Chosen(c),
         controller[c].stage \notin {"creating", "journalling", "working", "verifying"},
         NEW state \in RunStates \ {"accepted"}, FinishRun(Child(c), state),
         state = "awaiting_review" => controller[c].stage = "awaiting",
         NEW next \in {"review", "reporting", "judged"}, Go(c, next),
         UNCHANGED <<depends, batch, batchLock, abandoned, actors>>
  PROVE ReviewedInv'
<1> DEFINE e == events[Child(c)]
           j == [e EXCEPT !.finished = state, !.state = state]
<1>1. e \in Journals /\ Fits(controller[c].stage, e) /\ Sound(e)
  BY Here
<1>2. events' = [events EXCEPT ![Child(c)] = j]
  BY Here DEF FinishRun
<1>3. j \in Journals
  BY <1>1, JournalKept
<1>4. /\ j.place = e.place /\ j.steps = e.steps /\ j.worker = e.worker /\ j.told = e.told
      /\ j.review = e.review /\ j.reviewer = e.reviewer
      /\ j.finished = state /\ j.state = state
  BY <1>1 DEF Journals
<1>5. \A x \in actors : x[2] = "review"
  BY NobodyWrites DEF Writers
<1> HIDE DEF j, e
<1>6. e.place = "written"
  BY <1>1 DEF Fits, Chosen
<1>7. Sound(j)
  BY <1>1, <1>4, <1>6 DEF Fits, Sound, Earned, WorkPassed, VerifyPassed
<1>8. Fits(next, j) /\ j.place # "absent" /\ next \in InRun
  BY <1>4, <1>6 DEF Fits, InRun, BeforeEnd
<1> QED
  BY <1>2, <1>3, <1>5, <1>7, <1>8, Here, RunStep

LEMMA FailRunKeeps ==
  ASSUME ReviewedInv, NEW c \in Controllers, FailRun(c)
  PROVE ReviewedInv'
<1>1. controller[c].stage = "failing" /\ Chosen(c)
  BY DEF FailRun, At, Chosen, InRun, BeforeEnd
<1>2. PICK state \in StepStates : FinishRun(Child(c), state)
  BY <1>1, Here DEF FailRun, Journals, Steps
<1>3. UNCHANGED <<depends, batch, batchLock, abandoned, actors>> /\ Go(c, "reporting")
  BY DEF FailRun, Unmoved
<1>4. state \in RunStates \ {"accepted"} /\ state # "awaiting_review"
  BY DEF RunStates, StepStates, Ends
<1> QED
  BY <1>1, <1>2, <1>3, <1>4, FinishKeeps

LEMMA AwaitReviewKeeps ==
  ASSUME ReviewedInv, NEW c \in Controllers, AwaitReview(c)
  PROVE ReviewedInv'
<1>1. controller[c].stage = "awaiting" /\ Chosen(c)
  BY DEF AwaitReview, At, Chosen, InRun, BeforeEnd
<1>2. UNCHANGED <<depends, batch, batchLock, abandoned, actors>> /\ Go(c, "review")
      /\ FinishRun(Child(c), "awaiting_review")
  BY DEF AwaitReview, Unmoved
<1>3. "awaiting_review" \in RunStates \ {"accepted"}
  BY DEF RunStates
<1> QED
  BY <1>1, <1>2, <1>3, FinishKeeps

(* What Raised and RecordReview make of a run.                             *)
LEMMA RaisedKeeps ==
  ASSUME ReviewedInv, NEW c \in Controllers, Chosen(c),
         controller[c].stage \notin {"creating", "journalling", "working", "verifying"},
         Raised(Child(c), "failed"),
         NEW next \in {"reporting", "judged"}, Go(c, next),
         UNCHANGED <<depends, batch, batchLock, abandoned, actors>>
  PROVE ReviewedInv'
<1>1. CASE events[Child(c)].state = "awaiting_review"
  <2> DEFINE e == events[Child(c)]
  <2>1. e \in Journals /\ Fits(controller[c].stage, e) /\ Sound(e)
    BY Here
  <2>2. events' = [events EXCEPT ![Child(c)] = e]
    BY <1>1, Here DEF Raised
  <2>3. \A x \in actors : x[2] = "review"
    BY NobodyWrites DEF Writers
  <2> HIDE DEF e
  <2>4. Fits(next, e) /\ e.place # "absent" /\ next \in InRun
    BY <2>1 DEF Fits, InRun, BeforeEnd, Chosen
  <2> QED
    BY <2>1, <2>2, <2>3, <2>4, Here, RunStep
<1>2. CASE events[Child(c)].state # "awaiting_review"
  <2>1. FinishRun(Child(c), "failed")
    BY <1>2 DEF Raised
  <2>2. "failed" \in RunStates \ {"accepted"} /\ "failed" # "awaiting_review"
    BY DEF RunStates, StepStates, Ends
  <2> QED
    BY <2>1, <2>2, FinishKeeps
<1> QED
  BY <1>1, <1>2

Recording(e, verdict, who) ==
  [e EXCEPT !.review = verdict, !.reviewer = who,
            !.state = IF verdict = "accept" THEN "accepted" ELSE "rejected"]

LEMMA Recorded ==
  ASSUME NEW e \in Journals, Sound(e), e.finished = "awaiting_review", e.review = "none",
         NEW verdict \in {"accept", "reject"}, NEW who \in NativeIds \union {"operator"},
         who # e.worker
  PROVE /\ Recording(e, verdict, who) \in Journals /\ Sound(Recording(e, verdict, who))
        /\ Recording(e, verdict, who).place = "written"
<1> DEFINE j == Recording(e, verdict, who)
<1>1. j \in Journals
  BY JournalKept DEF RunStates, Recording
<1>2. /\ j.place = e.place /\ j.steps = e.steps /\ j.worker = e.worker
      /\ j.finished = e.finished /\ j.reviewer = who /\ j.review = verdict /\ j.told = e.told
  BY DEF Journals, Recording
<1> HIDE DEF j
<1>3. Sound(j) /\ j.place = "written"
  BY <1>2 DEF Sound, Earned, WorkPassed, VerifyPassed
<1> QED
  BY <1>1, <1>3 DEF j

LEMMA JudgeReviewKeeps ==
  ASSUME ReviewedInv, NEW c \in Controllers, NEW native \in NativeIds, JudgeReview(c, native)
  PROVE ReviewedInv'
<1>1. controller[c].stage = "after review" /\ Chosen(c)
  BY DEF JudgeReview, At, Chosen, InRun, BeforeEnd
<1>2. UNCHANGED <<depends, batch, batchLock, abandoned, actors>> /\ Go(c, "judged")
  BY DEF JudgeReview, Unmoved
<1>3. CASE Raised(Child(c), "failed")
  BY <1>1, <1>2, <1>3, RaisedKeeps
<1>4. ASSUME native # events[Child(c)].worker, AwaitsReview(Child(c)),
             NEW verdict \in {"accept", "reject"}, RecordReview(Child(c), verdict, native)
      PROVE ReviewedInv'
  <2> DEFINE e == events[Child(c)]
             j == Recording(e, verdict, native)
  <2>1. e \in Journals /\ Sound(e)
    BY <1>1, Here
  <2>2. events' = [events EXCEPT ![Child(c)] = j]
    BY <1>1, <1>4, Here DEF RecordReview, Recording
  <2>3. j \in Journals /\ Sound(j) /\ j.place = "written"
    BY <1>4, <2>1, Recorded DEF AwaitsReview
  <2>4. \A x \in actors : x[2] = "review"
    BY <1>1, NobodyWrites DEF Writers
  <2> HIDE DEF j, e
  <2>5. Fits("judged", j) /\ "judged" \in InRun
    BY <2>3 DEF Fits, InRun, BeforeEnd
  <2> QED
    BY <1>1, <1>2, <2>2, <2>3, <2>4, <2>5, Here, RunStep
<1> QED
  BY <1>3, <1>4 DEF JudgeReview

LEMMA RaiseInRunKeeps ==
  ASSUME ReviewedInv, NEW c \in Controllers, RaiseInRun(c)
  PROVE ReviewedInv'
<1>1. Chosen(c)
      /\ controller[c].stage \notin {"creating", "journalling", "working", "verifying"}
  BY DEF RaiseInRun, Steps, Chosen, InRun, BeforeEnd
<1>2. UNCHANGED <<depends, batch, batchLock, abandoned, actors>> /\ Go(c, "reporting")
  BY DEF RaiseInRun, Unmoved
<1> QED
  BY <1>1, <1>2, RaisedKeeps DEF RaiseInRun

(* What a controller reports of a run whose record it has made.            *)
LEMMA Reporting ==
  ASSUME ReviewedInv, NEW c \in Controllers,
         controller[c].stage \in {"judged", "reporting", "telling"},
         NEW next \in {"telling", "choosing"}, Go(c, next),
         UNCHANGED <<depends, batch, batchLock, abandoned, actors>>,
         NEW told \in BOOLEAN, NEW failed \in BOOLEAN,
         told => events[Child(c)].told \/ Counts(events[Child(c)]),
         Counts(events[Child(c)]) =>
           told \/ events[Child(c)].reviewer = "operator" \/ (next = "choosing" /\ failed),
         events' = [events EXCEPT ![Child(c)].told = told, ![Child(c)].telosError = failed]
  PROVE ReviewedInv'
<1>1. Chosen(c)
  BY DEF Chosen, InRun, BeforeEnd
<1> DEFINE e == events[Child(c)]
           j == [e EXCEPT !.told = told, !.telosError = failed]
<1>2. e \in Journals /\ Fits(controller[c].stage, e) /\ Sound(e)
  BY <1>1, Here
<1>3. events' = [events EXCEPT ![Child(c)] = j]
  BY <1>1, Here
<1>4. j \in Journals
  BY <1>2 DEF Journals
<1>5. /\ j.place = e.place /\ j.steps = e.steps /\ j.finished = e.finished
      /\ j.state = e.state /\ j.worker = e.worker /\ j.review = e.review
      /\ j.reviewer = e.reviewer /\ j.told = told /\ j.telosError = failed
  BY <1>2 DEF Journals
<1>6. /\ told => e.told \/ Counts(e)
      /\ Counts(e) => told \/ e.reviewer = "operator" \/ (next = "choosing" /\ failed)
  OBVIOUS
<1>7. \A x \in actors : x[2] = "review"
  BY <1>1, NobodyWrites DEF Writers
<1> HIDE DEF j, e
<1>8. Sound(j) /\ j.place # "absent"
  BY <1>2, <1>5, <1>6 DEF Fits, Sound, Earned, Counts, WorkPassed, VerifyPassed, InRun, BeforeEnd
<1>9. Notified(j) \/ (next = "choosing" /\ j.telosError)
  BY <1>5, <1>6 DEF Notified, Counts
<1>10. next = "telling" => Fits(next, j)
  BY <1>2, <1>5, <1>9 DEF Fits, InRun, BeforeEnd
<1>11. next \in {"choosing"} \union InRun
  BY DEF InRun
<1> QED
  BY <1>1, <1>3, <1>4, <1>7, <1>8, <1>9, <1>10, <1>11, Here, RunStep

LEMMA TellTelosKeeps ==
  ASSUME ReviewedInv, NEW c \in Controllers, TellTelos(c)
  PROVE ReviewedInv'
<1> DEFINE t == Child(c)
<1>1. controller[c].stage \in {"judged", "reporting"} /\ Chosen(c)
  BY DEF TellTelos, Chosen, InRun, BeforeEnd
<1>2. t \in Children /\ events[t] \in Journals /\ events \in [Children -> Journals]
  BY <1>1, Here
<1>3. Completes(t) = Counts(events[t]) /\ Completes(t) \in BOOLEAN
  BY DEF Completes, Counts
<1>4. events' = [events EXCEPT ![t].told = Completes(t), ![t].telosError = events[t].telosError]
  BY <1>2 DEF TellTelos, Journals
<1>5. events[t].telosError \in BOOLEAN
  BY <1>2 DEF Journals
<1>6. UNCHANGED <<depends, batch, batchLock, abandoned, actors>> /\ Go(c, "telling")
  BY DEF TellTelos, Unmoved
<1>7. ASSUME NEW told \in BOOLEAN, told = Completes(t) PROVE ReviewedInv'
  <2>1. events' = [events EXCEPT ![t].told = told, ![t].telosError = events[t].telosError]
    BY <1>4, <1>7
  <2>2. told = Counts(events[t])
    BY <1>3, <1>7
  <2> QED
    BY <1>1, <1>5, <1>6, <2>1, <2>2, Reporting
<1> QED
  BY <1>3, <1>7

LEMMA ReportRunKeeps ==
  ASSUME ReviewedInv, NEW c \in Controllers, ReportRun(c)
  PROVE ReviewedInv'
<1> DEFINE t == Child(c)
           e == events[t]
<1>1. Chosen(c) /\ controller[c].stage \in {"judged", "reporting", "telling"}
  BY DEF ReportRun, At, Chosen, InRun, BeforeEnd
<1>2. UNCHANGED <<depends, batch, batchLock, abandoned, actors>> /\ Go(c, "choosing")
  BY DEF ReportRun, Unmoved
<1>3. /\ t \in Children /\ e \in Journals /\ events \in [Children -> Journals]
      /\ Fits(controller[c].stage, e) /\ Sound(e)
  BY <1>1, Here
<1>4. e.told \in BOOLEAN /\ e.telosError \in BOOLEAN
  BY <1>3 DEF Journals
<1>5. ASSUME NEW failed \in BOOLEAN, events' = [events EXCEPT ![t].telosError = failed],
             Counts(e) => e.told \/ e.reviewer = "operator" \/ failed
      PROVE ReviewedInv'
  <2>1. events' = [events EXCEPT ![t].told = e.told, ![t].telosError = failed]
    BY <1>3, <1>5 DEF Journals
  <2> QED
    BY <1>1, <1>2, <1>4, <1>5, <2>1, Reporting
<1>6. CASE At(c, "telling")
  <2>1. PICK failed \in BOOLEAN : events' = [events EXCEPT ![t].telosError = failed]
    BY <1>6 DEF ReportRun, At
  <2>2. Counts(e) => e.told \/ e.reviewer = "operator"
    BY <1>3, <1>6 DEF Fits, Notified, At
  <2> QED
    BY <1>5, <2>1, <2>2
<1>7. CASE ~At(c, "telling") /\ events' = [events EXCEPT ![t].telosError = TRUE]
  BY <1>5, <1>7
<1>8. CASE e.steps["work"] = "none" /\ UNCHANGED events
  <2>1. events' = [events EXCEPT ![t].telosError = e.telosError]
    BY <1>3, <1>8 DEF Journals
  <2>2. ~Counts(e)
    BY <1>3, <1>8 DEF Sound, Earned, WorkPassed, Counts
  <2> QED
    BY <1>4, <1>5, <2>1, <2>2
<1> QED
  BY <1>6, <1>7, <1>8 DEF ReportRun

LEMMA OperatorReviewsKeeps ==
  ASSUME ReviewedInv, NEW t \in Children, NEW verdict \in {"accept", "reject"},
         OperatorReviews(t, verdict)
  PROVE ReviewedInv'
<1> DEFINE e == events[t]
           j == Recording(e, verdict, "operator")
<1>1. e \in Journals /\ Sound(e) /\ e.finished = "awaiting_review" /\ e.review = "none"
  BY DEF OperatorReviews, AwaitsReview, ReviewedInv, ReviewedTypes, Sounds
<1>2. UNCHANGED <<depends, batch, batchLock, abandoned, actors, controller>>
  BY DEF OperatorReviews, Unmoved
<1>3. /\ events' \in [Children -> Journals] /\ events'[t] = j
      /\ \A u \in Children : u # t => events'[u] = events[u]
  <2>1. events \in [Children -> Journals]
    BY DEF ReviewedInv, ReviewedTypes
  <2>2. events' = [events EXCEPT ![t] = j]
    BY <2>1 DEF OperatorReviews, RecordReview, Recording
  <2>3. j \in Journals
    BY <1>1, JournalKept DEF RunStates, Recording
  <2> QED
    BY <2>1, <2>2, <2>3
<1>4. j \in Journals /\ Sound(j) /\ j.place = "written"
  <2>1. e.worker # "operator"
    BY <1>1 DEF Sound
  <2> QED
    BY <1>1, <2>1, Recorded
<1>5. ~Accepted(t) /\ e.place = "written" /\ ~Undecided(e)
  BY <1>1 DEF Accepted, Sound, Undecided
<1>13. j.reviewer = "operator"
  BY <1>1 DEF Recording, Journals
<1> HIDE DEF j, e
<1>6. ReviewedTypes' /\ OneController' /\ OneWriter' /\ Sounds' /\ Absent'
  BY <1>2, <1>3, <1>4
  DEF ReviewedInv, ReviewedTypes, OneController, Occupied, OneWriter, Sounds, Absent
<1>7. DependenciesWereAccepted'
  BY <1>1, <1>2, <1>3, <1>4, <1>5 DEF ReviewedInv, DependenciesWereAccepted, ReviewedTypes, e
<1>14. DependenciesWereTold'
  <2>1. ASSUME NEW u \in Children, events'[u].place # "absent", NEW d \in depends[u]
        PROVE d \in Children /\ d # t /\ ToldOf(d)
    BY <1>1, <1>3, <1>5, <2>1
    DEF ReviewedInv, ReviewedTypes, DependenciesWereAccepted, DependenciesWereTold, ToldOf, e
  <2>2. \A u \in Children : events'[u].place # "absent" =>
          \A d \in depends[u] : events'[d] = events[d] /\ ToldOf(d)
    BY <1>3, <2>1
  <2> QED
    BY <1>2, <2>2 DEF DependenciesWereTold, ToldOf
<1>15. Reports'
  <2>1. \A u \in Children : LeftAlone(u)' <=> LeftAlone(u)
    BY <1>2 DEF LeftAlone, Chosen
  <2>2. \A u \in Children : u # t /\ Accepted(u)' => Accepted(u)
    BY <1>3 DEF Accepted
  <2>3. \A u \in Children : u # t /\ ToldOf(u) => ToldOf(u)'
    BY <1>2, <1>3 DEF ToldOf
  <2>4. ToldOf(t)'
    BY <1>3, <1>13 DEF ToldOf
  <2> QED
    BY <2>1, <2>2, <2>3, <2>4 DEF ReviewedInv, Reports
<1>8. ASSUME NEW c \in Controllers, Chosen(c)
      PROVE t = controller[c].child /\ Fits(controller[c].stage, j)
            /\ controller[c].stage # "creating"
  <2>1. t = controller[c].child
    BY <1>5, <1>8 DEF ReviewedInv, Serially, Alone, e
  <2>2. Fits(controller[c].stage, e)
    BY <1>8, <2>1 DEF ReviewedInv, Progressing, e
  <2>3. controller[c].stage \notin BeforeEnd \union {"creating"}
    BY <1>5, <2>2 DEF Fits
  <2>4. Fits(controller[c].stage, j)
    BY <1>4, <1>13, <2>3 DEF Fits, Notified, BeforeEnd
  <2> QED
    BY <2>1, <2>3, <2>4
<1>9. \A c \in Controllers : Chosen(c)' <=> Chosen(c)
  BY <1>2 DEF Chosen
<1>10. Progressing'
  BY <1>2, <1>3, <1>8, <1>9 DEF Progressing
<1>11. Serially'
  BY <1>2, <1>3, <1>5, <1>8, <1>9 DEF ReviewedInv, Serially, Alone, Accepted, e
<1>12. WritersKnown'
  <2>1. Writers' = Writers
    BY <1>2 DEF Writers
  <2>2. \A x \in Writers : x[1] \in Children /\ x[1] # t
    BY <1>5 DEF ReviewedInv, ReviewedTypes, WritersKnown, Writers, e
  <2>3. \A x \in Writers : events'[x[1]] = events[x[1]]
    BY <1>3, <2>2
  <2> QED
    BY <1>2, <1>9, <2>1, <2>3 DEF ReviewedInv, WritersKnown
<1> QED
  BY <1>6, <1>7, <1>10, <1>11, <1>12, <1>14, <1>15 DEF ReviewedInv

(* A run told again was reviewed, so no controller is at work in it.       *)
LEMMA OperatorReportsKeeps ==
  ASSUME ReviewedInv, NEW t \in Children, OperatorReports(t)
  PROVE ReviewedInv'
<1> DEFINE e == events[t]
<1>1. PICK failed \in BOOLEAN :
        /\ events' = [events EXCEPT ![t].told = Completes(t), ![t].telosError = failed]
        /\ failed => e.telosError
  <2>1. PICK noted \in BOOLEAN :
          events' = [events EXCEPT ![t].told = Completes(t),
                                   ![t].telosError = IF noted THEN FALSE ELSE @]
    BY DEF OperatorReports
  <2>2. events \in [Children -> Journals] /\ e.telosError \in BOOLEAN
    BY DEF ReviewedInv, ReviewedTypes, Journals
  <2>3. CASE noted
    BY <2>1, <2>2, <2>3
  <2>4. CASE ~noted
    BY <2>1, <2>2, <2>4
  <2> QED
    BY <2>3, <2>4
<1> DEFINE j == [e EXCEPT !.told = Completes(t), !.telosError = failed]
<1>2. UNCHANGED <<depends, batch, batchLock, abandoned, actors, controller>>
  BY DEF OperatorReports, Unmoved
<1>3. e \in Journals /\ Sound(e) /\ e.review # "none" /\ e.place # "absent" /\ ~Undecided(e)
  BY DEF OperatorReports, ReviewedInv, ReviewedTypes, Sounds, Absent, NoJournal, Undecided
<1>4. j \in Journals
  BY <1>3 DEF Completes, Journals
<1>5. /\ events' \in [Children -> Journals] /\ events'[t] = j
      /\ \A u \in Children : u # t => events'[u] = events[u]
  <2>1. events \in [Children -> Journals]
    BY DEF ReviewedInv, ReviewedTypes
  <2>2. events' = [events EXCEPT ![t] = j]
    BY <1>1, <2>1
  <2> QED
    BY <1>4, <2>1, <2>2
<1>6. /\ j.place = e.place /\ j.steps = e.steps /\ j.worker = e.worker
      /\ j.finished = e.finished /\ j.state = e.state /\ j.review = e.review
      /\ j.reviewer = e.reviewer /\ j.told = Counts(e) /\ (j.telosError => e.telosError)
  BY <1>1, <1>3 DEF Completes, Counts, Journals
<1> HIDE DEF j, e
<1>7. Sound(j)
  BY <1>3, <1>6 DEF Sound, Earned, Counts, WorkPassed, VerifyPassed
<1>8. ReviewedTypes' /\ OneController' /\ OneWriter' /\ Sounds' /\ Absent'
  BY <1>2, <1>3, <1>5, <1>6, <1>7
  DEF ReviewedInv, ReviewedTypes, OneController, Occupied, OneWriter, Sounds, Absent
<1>9. \A u \in Children : /\ Accepted(u) => Accepted(u)'
                          /\ events'[u].place # "absent" <=> events[u].place # "absent"
  BY <1>5, <1>6 DEF Accepted, e
<1>10. DependenciesWereAccepted'
  <2>1. \A d \in Children : /\ Counts(events[d]) => Counts(events'[d])
                            /\ events'[d].telosError => events[d].telosError
    BY <1>5, <1>6 DEF Counts, e
  <2> QED
    BY <1>2, <1>9, <2>1 DEF ReviewedInv, ReviewedTypes, DependenciesWereAccepted, Counts
<1>11. DependenciesWereTold'
  <2>1. \A d \in Children : Counts(events[d]) /\ ToldOf(d) => ToldOf(d)'
    BY <1>2, <1>5, <1>6 DEF ToldOf, e
  <2> QED
    BY <1>2, <1>9, <2>1
    DEF ReviewedInv, ReviewedTypes, DependenciesWereAccepted, DependenciesWereTold, Counts, ToldOf
<1>12. Reports'
  <2>1. \A u \in Children : LeftAlone(u)' <=> LeftAlone(u)
    BY <1>2 DEF LeftAlone, Chosen
  <2>2. \A u \in Children : u # t /\ Accepted(u)' => Accepted(u)
    BY <1>5 DEF Accepted
  <2>3. \A u \in Children : u # t /\ ToldOf(u) => ToldOf(u)'
    BY <1>2, <1>5 DEF ToldOf
  <2>4. Accepted(t)' => ToldOf(t)'
    BY <1>5, <1>6 DEF Accepted, Counts, ToldOf
  <2> QED
    BY <2>1, <2>2, <2>3, <2>4 DEF ReviewedInv, Reports
<1>13. \A c \in Controllers : Chosen(c)' <=> Chosen(c)
  BY <1>2 DEF Chosen
<1>14. Progressing'
  <2>1. ASSUME NEW c \in Controllers, Chosen(c), controller[c].child = t
        PROVE Fits(controller[c].stage, j)
    <3>1. Fits(controller[c].stage, e)
      BY <2>1 DEF ReviewedInv, Progressing, e
    <3>2. controller[c].stage \notin BeforeEnd \union {"creating"}
      BY <1>3, <3>1 DEF Fits
    <3> QED
      BY <1>6, <3>1, <3>2 DEF Fits, Notified, Counts, BeforeEnd
  <2>2. ASSUME NEW c \in Controllers, Chosen(c)
        PROVE Fits(controller[c].stage, events'[controller[c].child])
    <3>1. controller[c].child \in Children
      BY <2>2, ChosenIsEngaged DEF ReviewedInv, Child
    <3> QED
      BY <1>5, <2>1, <2>2, <3>1 DEF ReviewedInv, Progressing
  <2>3. ASSUME NEW c \in Controllers, Chosen(c), controller[c].stage = "creating",
               NEW d \in depends[controller[c].child]
        PROVE Accepted(d)'
    <3>1. controller[c].child \in Children
      BY <2>3, ChosenIsEngaged DEF ReviewedInv, Child
    <3> QED
      BY <1>9, <2>3, <3>1 DEF ReviewedInv, ReviewedTypes, Progressing
  <2> QED
    BY <1>2, <1>13, <2>2, <2>3 DEF Progressing
<1>15. Serially'
  BY <1>2, <1>9, <1>13 DEF ReviewedInv, Serially, Alone
<1>16. WritersKnown'
  <2>1. Writers' = Writers
    BY <1>2 DEF Writers
  <2>2. \A x \in Writers : x[1] \in Children /\ x[1] # t
    BY <1>3 DEF ReviewedInv, ReviewedTypes, WritersKnown, Writers, e
  <2>3. \A x \in Writers : events'[x[1]] = events[x[1]]
    BY <1>5, <2>2
  <2> QED
    BY <1>2, <1>13, <2>1, <2>3 DEF ReviewedInv, WritersKnown
<1> QED
  BY <1>8, <1>10, <1>11, <1>12, <1>14, <1>15, <1>16 DEF ReviewedInv

LEMMA TakeBatchLockKeeps ==
  ASSUME ReviewedInv, NEW c \in Controllers, TakeBatchLock(c)
  PROVE ReviewedInv'
<1>1. /\ controller' = [controller EXCEPT ![c] = [stage |-> "choosing", child |-> Manifest[1]]]
      /\ batchLock' = c /\ UNCHANGED <<depends, batch, events, actors, abandoned>>
  BY DEF TakeBatchLock
<1>2. \A d \in Controllers : ~Occupied(d)
  BY DEF TakeBatchLock, ReviewedInv, OneController
<1>3. controller \in [Controllers -> Stations]
  BY DEF ReviewedInv, ReviewedTypes
<1>4. [stage |-> "choosing", child |-> Manifest[1]] \in Stations
  BY DEF Stations, Choosing
<1>5. /\ controller' \in [Controllers -> Stations] /\ controller'[c].stage = "choosing"
      /\ \A d \in Controllers : d # c => controller'[d] = controller[d]
  BY <1>1, <1>3, <1>4
<1>6. \A d \in Controllers : ~(Chosen(d)') /\ (d # c => ~(Occupied(d)'))
  BY <1>2, <1>5 DEF Chosen, Occupied, InRun, BeforeEnd
<1>7. ReviewedTypes'
  BY <1>1, <1>5 DEF ReviewedInv, ReviewedTypes
<1>8. Reports' /\ DependenciesWereTold'
  <2>1. \A t \in Children : LeftAlone(t)
    BY <1>2 DEF LeftAlone, Chosen, Occupied, InRun, BeforeEnd
  <2> QED
    BY <1>1, <2>1 DEF ReviewedInv, Reports, DependenciesWereTold, Accepted, ToldOf
<1> QED
  BY <1>1, <1>6, <1>7, <1>8 DEF ReviewedInv, OneController, Progressing, Serially, Sounds, Absent,
    DependenciesWereAccepted, OneWriter, WritersKnown, Writers

(* The choice: every child that exists is accepted, so none is written.    *)
LEMMA NextChildKeeps ==
  ASSUME ReviewedInv, NEW c \in Controllers, NextChild(c)
  PROVE ReviewedInv'
<1>1. controller[c].stage = "choosing" /\ Occupied(c)
      /\ UNCHANGED <<depends, batch, events, actors, abandoned>> /\ ~Chosen(c)
  BY DEF NextChild, Unmoved, At, Occupied, Chosen, InRun, BeforeEnd
<1>2. CASE ~(BatchState = "ready" /\ \E t \in Children : FirstReadyChild(t))
  BY <1>1, <1>2, StopStep DEF NextChild
<1>3. CASE BatchState = "ready" /\ \E t \in Children : FirstReadyChild(t)
  <2>1. PICK t \in Children :
          FirstReadyChild(t) /\ controller' = [controller EXCEPT ![c] = [stage |-> "creating",
                                                                       child |-> t]]
    BY <1>3 DEF NextChild
  <2>2. batchLock' = batchLock
    BY <1>3 DEF NextChild
  <2>3. \A u \in Children : events[u].place # "absent" => Accepted(u)
    BY <1>3 DEF BatchState, NeedsDisposition
  <2>4. ReadyChild(t)
    BY <2>1 DEF FirstReadyChild
  <2>5. \A u \in Children : Accepted(u) => events[u].place # "absent"
    BY DEF Accepted
  <2>6. Writers = {}
    <3>1. \A x \in Writers : x[1] \in Children
      BY DEF ReviewedInv, ReviewedTypes, Writers
    <3>2. \A u \in Children : events[u].place = "written" => ~Undecided(events[u])
      BY <2>3 DEF Accepted, Undecided
    <3> QED
      BY <3>1, <3>2 DEF ReviewedInv, WritersKnown
  <2>7. /\ controller' \in [Controllers -> Stations]
        /\ controller'[c].stage = "creating" /\ controller'[c].child = t
        /\ \A d \in Controllers : d # c => controller'[d] = controller[d]
    <3>1. controller \in [Controllers -> Stations]
      BY DEF ReviewedInv, ReviewedTypes
    <3>2. [stage |-> "creating", child |-> t] \in Stations
      BY DEF Stations, Engaged
    <3> QED
      BY <2>1, <3>1, <3>2
  <2>8. \A d \in Controllers : d # c => ~(Chosen(d)') /\ ~(Occupied(d)')
    BY <1>1, <2>7, OthersIdle DEF Chosen, Occupied
  <2>9. ReviewedTypes'
    BY <1>1, <2>7 DEF ReviewedInv, ReviewedTypes
  <2>10. OneController'
    BY <1>1, <2>2, <2>8, OthersIdle DEF OneController
  <2>11. Fits("creating", events[t])
    BY <2>4 DEF ReadyChild, Fits, InRun, BeforeEnd
  <2>12. Progressing'
    BY <1>1, <2>4, <2>7, <2>8, <2>11 DEF Progressing, ReadyChild, Accepted
  <2>13. t \notin depends[t]
    BY <2>4, <2>5 DEF ReadyChild
  <2>14. \A u \in Children : events[u].place # "absent" => t \notin depends[u]
    <3>1. events[t].state # "accepted"
      BY <2>4 DEF ReadyChild, ReviewedInv, Absent, NoJournal
    <3> QED
      BY <3>1 DEF ReviewedInv, DependenciesWereAccepted
  <2>15. Serially'
    BY <1>1, <2>3, <2>7, <2>8, <2>14 DEF Serially, Alone, Accepted
  <2>16. WritersKnown' /\ OneWriter'
    BY <1>1, <2>6 DEF WritersKnown, Writers, OneWriter
  <2>17. Reports' /\ DependenciesWereTold'
    <3>1. \A u \in Children : LeftAlone(u)
      BY <1>1, OthersIdle DEF LeftAlone
    <3> QED
      BY <1>1, <3>1 DEF ReviewedInv, Reports, DependenciesWereTold, Accepted, ToldOf
  <2> QED
    BY <1>1, <2>9, <2>10, <2>12, <2>15, <2>16, <2>17
    DEF ReviewedInv, Sounds, Absent, DependenciesWereAccepted
<1> QED
  BY <1>2, <1>3

LEMMA EndActorKeeps ==
  ASSUME ReviewedInv, NEW actor \in actors, EndActor(actor)
  PROVE ReviewedInv'
<1>1. /\ actors' \subseteq actors
      /\ UNCHANGED <<depends, batch, events, controller, batchLock, abandoned>>
  BY DEF EndActor, Unmoved
<1>2. Writers' \subseteq Writers
  BY <1>1 DEF Writers
<1>3. ReviewedTypes' /\ OneController' /\ Progressing' /\ Serially' /\ Sounds' /\ Absent'
      /\ DependenciesWereAccepted' /\ DependenciesWereTold' /\ Reports'
  BY <1>1 DEF ReviewedInv, ReviewedTypes, OneController, Occupied, Progressing, Chosen, Serially, Alone,
    Accepted, Sounds, Absent, DependenciesWereAccepted, DependenciesWereTold, Reports, LeftAlone,
    ToldOf
<1>4. OneWriter' /\ WritersKnown'
  BY <1>1, <1>2 DEF ReviewedInv, OneWriter, WritersKnown, Chosen
<1> QED
  BY <1>3, <1>4 DEF ReviewedInv

LEMMA StepInv == ReviewedInv /\ [ReviewedNext]_reviewedVars => ReviewedInv'
<1> SUFFICES ASSUME ReviewedInv, [ReviewedNext]_reviewedVars PROVE ReviewedInv'
  OBVIOUS
<1>1. CASE /\ UNCHANGED <<depends, events, actors, controller, batchLock, abandoned>>
           /\ ReviewedTypes'
  BY <1>1 DEF ReviewedInv, OneController, Occupied, Progressing, Chosen, Serially, Alone, Accepted,
    Sounds, Absent, DependenciesWereAccepted, DependenciesWereTold, Reports, LeftAlone, ToldOf,
    OneWriter, WritersKnown, Writers
<1>2. CASE UNCHANGED reviewedVars \/ CreateBatch \/ FreezeBatch
  BY <1>1, <1>2 DEF reviewedVars, CreateBatch, FreezeBatch, ReviewedInv, ReviewedTypes
<1>3. ASSUME NEW c \in Controllers, KillController(c) PROVE ReviewedInv'
  <2>1. Occupied(c) /\ Stop(c) /\ UNCHANGED <<depends, batch, events, actors>>
        /\ abandoned \subseteq abandoned'
    BY <1>3 DEF KillController, At, Occupied
  <2>2. Chosen(c) /\ Accepted(Child(c)) => events[Child(c)].told \/ Child(c) \in abandoned'
    BY <1>3 DEF KillController, At, Chosen, Accepted, Completes, InRun, BeforeEnd
  <2> QED
    BY <2>1, <2>2, StopStep
<1> QED
  BY <1>2, <1>3, TakeBatchLockKeeps, NextChildKeeps, CreateRunKeeps, CreateJournalKeeps,
    StartStepKeeps, EndStepKeeps, RetainWorkKeeps, PassVerificationKeeps, FailRunKeeps,
    AwaitReviewKeeps, JudgeReviewKeeps, RaiseInRunKeeps, TellTelosKeeps, ReportRunKeeps,
    OperatorReviewsKeeps, OperatorReportsKeeps, EndActorKeeps
  DEF ReviewedNext

(* Every step of a controller, an actor, the operator or a crash keeps what*)
(* the run's records say of its work: one controller at a time, stages in  *)
(* their order, children of one batch one after the other                  *)
(* (noetic_run.py:174-264, noetic_develop.py:252-328,                      *)
(* noetic_batch.py:184-267).                                               *)
THEOREM AlwaysReviewed == ReviewedSpec => []ReviewedInv
<1>1. ReviewedInit => ReviewedInv
  BY InitInv
<1>2. ReviewedInv /\ [ReviewedNext]_reviewedVars => ReviewedInv'
  BY StepInv
<1> QED
  BY <1>1, <1>2, PTL DEF ReviewedSpec

-----------------------------------------------------------------------------
(* The workspace of a batch never has two writers: a batch is taken up by  *)
(* one controller at a time, and a child left undecided by a killed one is *)
(* never worked at again, so its orphan writes alone                       *)
(* (noetic_batch.py:184-267, noetic_develop.py:299-313).                   *)
THEOREM OneWriterAlways == ReviewedSpec => []OneWriter
<1>1. ReviewedInv => OneWriter
  BY DEF ReviewedInv
<1> QED
  BY <1>1, AlwaysReviewed, PTL

(* For any tasks, dependencies and controllers, whoever takes the batch up *)
(* and wherever its controllers are killed: what is accepted, or complete  *)
(* in Telos, passed its work and, if it had one, its verification, and was *)
(* reviewed by another than its worker; and whatever is begun depends only *)
(* on accepted children with no failure to tell Telos outstanding, of each *)
(* of which Telos was told, an operator was the reviewer, or the controller*)
(* was killed after the review (noetic_develop.py:236-328,                 *)
(* noetic_batch.py:184-228).                                               *)
THEOREM AcceptanceStaysEarned == ReviewedSpec => []AcceptanceIsEarned
<1>1. ReviewedInv => AcceptanceIsEarned
  BY DEF ReviewedInv, Sounds, Sound, Earned, WorkPassed, VerifyPassed, AcceptanceIsEarned,
    AcceptedWasEarned
<1> QED
  BY <1>1, AlwaysReviewed, PTL
=============================================================================
