---------------------------- MODULE SessionsProofs ----------------------------
(***************************************************************************)
(* Theorems of managed conversations, for any conversations, launching     *)
(* clients, launches and faults, with the promise of the position they     *)
(* keep, and of a message between sessions, for any recipients and         *)
(* mishaps.                                                                *)
(***************************************************************************)
EXTENDS Sessions, Messages, FiniteSetTheorems, TLAPS

USE SessionsAssumption

-----------------------------------------------------------------------------
\* Types.

Standings == {"none", "open", "closed", "superseded"}
Rows == [status : {"absent", "created", "starting", "idle", "ended"}, predecessor : Nat,
         target : BOOLEAN]
Living == {"starting", "observing", "attaching", "opening", "recording", "ready", "serving",
           "closing", "reading", "writing"}
LaunchRecords ==
  [id : Ids, launcher : BOOLEAN, broker : {"unborn", "gone"} \union Living, pi : BOOLEAN,
   retained : Standings]
Launching == {"spawning", "saving", "waiting", "failing", "marking"}
ClientStates ==
  [at : {"idle", "locking"} \union Launching, id : Ids \union {NoId}, launch : Nat]

Typed ==
  /\ row \in [Ids -> Rows] /\ instance \in Nat /\ current \in Ids \union {NoId}
  /\ standing \in [Ids -> Standings] /\ under \in [Ids -> Nat]
  /\ launches \in Seq(LaunchRecords) /\ owner \in [Ids -> Nat]
  /\ client \in [Clients -> ClientStates] /\ faults \in Nat

-----------------------------------------------------------------------------
\* The inductive invariant.

\* The lock of a conversation is held by one launch.
Holds(launch) == launch.launcher \/ launch.broker \in Living

OneHolds ==
  \A i, j \in DOMAIN launches :
    launches[i].id = launches[j].id /\ Holds(launches[i]) /\ Holds(launches[j]) => i = j

\* A client launches what it has locked, and no other client does.
ClientsKnown ==
  \A c \in Clients :
    /\ client[c].at # "idle" => client[c].id \in Ids
    /\ client[c].at \in {"idle", "locking"} => client[c].launch = 0
    /\ client[c].at \in Launching =>
         /\ client[c].launch \in DOMAIN launches
         /\ launches[client[c].launch].launcher
         /\ launches[client[c].launch].id = client[c].id
    /\ client[c].at = "spawning" => launches[client[c].launch].broker = "unborn"

Apart ==
  \A c, d \in Clients :
    client[c].launch = client[d].launch /\ client[c].launch # 0 => c = d

Bounded ==
  /\ Len(launches) + Cardinality({c \in Clients : client[c].at = "locking"}) <= MaxLaunches
  /\ \A s \in Ids : under[s] <= instance

OwnersKnown ==
  \A s \in Ids : owner[s] # 0 => owner[s] \in DOMAIN launches /\ launches[owner[s]].id = s

\* What the stages of a broker say of its conversation.
BrokersKnown ==
  \A i \in DOMAIN launches :
    LET s == launches[i].id
    IN /\ launches[i].broker \in {"ready", "serving"} => row[s].target
       /\ launches[i].broker = "opening" => instance # 0
       /\ launches[i].broker = "recording" => under[s] # 0
       /\ launches[i].broker \in {"reading", "writing"} =>
            row[s].status # "idle" /\ ~launches[i].pi

RowsKnown ==
  \A s \in Ids :
    /\ row[s].target => under[s] # 0
    /\ row[s].status = "idle" => row[s].target

\* As long as nothing is killed, whose Pi runs has its broker, and the owner
\* of a conversation is the launch that is waited for.
Unkilled ==
  faults = 0 =>
    /\ \A i \in DOMAIN launches : launches[i].pi => launches[i].broker \in Living
    /\ \A c \in Clients :
         /\ client[c].at \in {"waiting", "failing"} => owner[client[c].id] = client[c].launch
         /\ client[c].at = "marking" =>
              /\ launches[client[c].launch].broker \notin Living
              /\ ~launches[client[c].launch].pi

IdleHasBroker ==
  faults = 0 => \A s \in Ids : row[s].status = "idle" =>
    \/ \E i \in DOMAIN launches : launches[i].id = s /\ launches[i].broker \in Living
    \/ \E c \in Clients : client[c].id = s /\ client[c].at = "marking"

SessionsInv ==
  /\ Typed /\ OneHolds /\ ClientsKnown /\ Apart /\ Bounded /\ OwnersKnown
  /\ BrokersKnown /\ RowsKnown /\ Unkilled /\ IdleHasBroker /\ DesignatedAlone

-----------------------------------------------------------------------------
\* The initial states and the invariants that follow.

LEMMA InitInv == Init => SessionsInv
<1> SUFFICES ASSUME Init PROVE SessionsInv
  OBVIOUS
<1>1. Waiting \in ClientStates /\ Waiting.at = "idle" /\ Waiting.launch = 0
  BY DEF Waiting, ClientStates
<1>2. /\ \A c \in Clients : client[c] = Waiting
      /\ launches = <<>> /\ DOMAIN launches = {} /\ Len(launches) = 0
  BY DEF Init
<1>3. Typed
  <2>1. client \in [Clients -> ClientStates]
    BY <1>1 DEF Init
  <2>2. launches \in Seq(LaunchRecords) /\ row \in [Ids -> Rows]
    BY DEF Init, Rows
  <2>3. /\ instance \in Nat /\ current \in Ids \union {NoId} /\ owner \in [Ids -> Nat]
        /\ standing \in [Ids -> Standings] /\ under \in [Ids -> Nat] /\ faults \in Nat
    BY DEF Init, Standings
  <2> QED
    BY <2>1, <2>2, <2>3 DEF Typed
<1>4. Bounded
  <2>1. {c \in Clients : client[c].at = "locking"} = {}
    BY <1>1, <1>2
  <2>2. Cardinality({c \in Clients : client[c].at = "locking"}) = 0
    BY <2>1, FS_EmptySet
  <2>3. Len(launches) = 0 /\ \A s \in Ids : under[s] = 0 /\ instance = 0
    BY <1>2 DEF Init
  <2> QED
    BY <2>2, <2>3 DEF Bounded
<1>5. OneHolds /\ ClientsKnown /\ Apart /\ OwnersKnown /\ BrokersKnown
  BY <1>1, <1>2 DEF Init, OneHolds, ClientsKnown, Apart, OwnersKnown, BrokersKnown, Launching
<1>6. RowsKnown /\ Unkilled /\ IdleHasBroker /\ DesignatedAlone
  BY <1>1, <1>2 DEF Init, RowsKnown, Unkilled, IdleHasBroker, DesignatedAlone
<1> QED
  BY <1>3, <1>4, <1>5, <1>6 DEF SessionsInv

LEMMA LivingIsAlive ==
  ASSUME Typed, NEW i \in DOMAIN launches
  PROVE Alive(i) <=> launches[i].broker \in Living
<1>1. launches[i] \in LaunchRecords
  BY DEF Typed
<1> QED
  BY <1>1 DEF Alive, LaunchRecords, Living

-----------------------------------------------------------------------------
\* Frames.

LEMMA LaunchSet ==
  ASSUME Typed, NEW i \in DOMAIN launches, NEW new \in LaunchRecords,
         launches' = [launches EXCEPT ![i] = new]
  PROVE /\ launches' \in Seq(LaunchRecords) /\ DOMAIN launches' = DOMAIN launches
        /\ Len(launches') = Len(launches) /\ launches'[i] = new
        /\ \A j \in DOMAIN launches : j # i => launches'[j] = launches[j]
<1>1. launches \in Seq(LaunchRecords)
  BY DEF Typed
<1> QED
  BY <1>1

LEMMA LaunchTyped ==
  ASSUME Typed, NEW i \in DOMAIN launches
  PROVE launches[i] \in LaunchRecords /\ launches[i].id \in Ids
<1>1. launches[i] \in LaunchRecords
  BY DEF Typed
<1> QED
  BY <1>1 DEF LaunchRecords

(* The clients that wait for a lock are counted.                           *)
LEMMA LockingCounted ==
  ASSUME client \in [Clients -> ClientStates], NEW c \in Clients, NEW new \in ClientStates,
         client' = [client EXCEPT ![c] = new], new.at # "locking"
  PROVE LET locking == {d \in Clients : client[d].at = "locking"}
        IN /\ Cardinality(locking) \in Nat
           /\ Cardinality(locking') <= Cardinality(locking) /\ Cardinality(locking') \in Nat
           /\ client[c].at = "locking" => Cardinality(locking') + 1 = Cardinality(locking)
<1> DEFINE before == {d \in Clients : client[d].at = "locking"}
           after == {d \in Clients : client'[d].at = "locking"}
<1>1. after = before \ {c}
  OBVIOUS
<1>2. IsFiniteSet(before)
  BY FS_Subset
<1>3. client[c].at = "locking" => c \in before
  OBVIOUS
<1> HIDE DEF before, after
<1>4. /\ IsFiniteSet(after) /\ Cardinality(before) \in Nat /\ Cardinality(after) \in Nat
      /\ Cardinality(after) = IF c \in before THEN Cardinality(before) - 1
                                              ELSE Cardinality(before)
  BY <1>1, <1>2, FS_RemoveElement, FS_CardinalityType
<1>5. Cardinality(after) <= Cardinality(before)
      /\ (client[c].at = "locking" => Cardinality(after) + 1 = Cardinality(before))
  BY <1>3, <1>4
<1> QED
  BY <1>4, <1>5 DEF before, after

(* What a client does to a row leaves its target, and shows it idle never. *)
RowsStay ==
  /\ row' \in [Ids -> Rows]
  /\ \A s \in Ids : row'[s].target = row[s].target
                    /\ (row'[s].status = "idle" => row[s].status = "idle")

(* A client goes on, or gives up, without a change of any launch.          *)
LEMMA ClientGoes ==
  ASSUME SessionsInv, NEW c \in Clients, NEW new \in ClientStates,
         client' = [client EXCEPT ![c] = new],
         RowsStay, UNCHANGED <<instance, current, standing, under, launches>>,
         owner' \in [Ids -> Nat], OwnersKnown',
         \A d \in Clients : d # c /\ client[d].at \in Launching =>
           owner'[client[d].id] = owner[client[d].id],
         faults' \in Nat, faults' = 0 => faults = 0,
         new.at # "idle" => new.id \in Ids,
         new.at \in {"idle", "locking"} => new.launch = 0,
         new.at \in Launching =>
           /\ client[c].at \in Launching /\ new.at # "spawning"
           /\ new.launch = client[c].launch /\ new.id = client[c].id,
         new.at = "locking" => MayLaunch /\ client[c].at = "idle",
         new.at \in {"waiting", "failing"} /\ faults' = 0 => owner'[new.id] = new.launch,
         new.at # "marking", client[c].at # "marking"
  PROVE SessionsInv'
<1>1. Typed
  BY DEF SessionsInv
<1>2. /\ client' \in [Clients -> ClientStates] /\ client'[c] = new
      /\ \A d \in Clients : d # c => client'[d] = client[d]
  BY <1>1 DEF Typed
<1>3. Typed'
  BY <1>1, <1>2 DEF Typed, RowsStay
<1>4. OneHolds' /\ DesignatedAlone'
  BY DEF SessionsInv, OneHolds, Holds, DesignatedAlone
<1>5. ClientsKnown'
  BY <1>2 DEF SessionsInv, ClientsKnown, Launching
<1>6. Apart'
  <2>1. new.launch # 0 => new.launch = client[c].launch
    BY DEF ClientStates
  <2> QED
    BY <1>2, <2>1 DEF SessionsInv, Apart
<1>7. Bounded'
  <2>1. Len(launches) \in Nat
    BY <1>1 DEF Typed
  <2>2. CASE new.at # "locking"
    <3>1. /\ Cardinality({d \in Clients : client[d].at = "locking"}) \in Nat
          /\ Cardinality({d \in Clients : client'[d].at = "locking"}) \in Nat
          /\ Cardinality({d \in Clients : client'[d].at = "locking"})
               <= Cardinality({d \in Clients : client[d].at = "locking"})
      BY <1>1, <2>2, LockingCounted DEF Typed
    <3> QED
      BY <2>1, <3>1 DEF SessionsInv, Bounded
  <2>3. CASE new.at = "locking"
    <3> DEFINE before == {d \in Clients : client[d].at = "locking"}
               after == {d \in Clients : client'[d].at = "locking"}
    <3>1. after = before \union {c} /\ c \notin before
      BY <1>2, <2>3
    <3>2. IsFiniteSet(before)
      BY FS_Subset
    <3>3. Len(launches) + Cardinality(before) < MaxLaunches
      BY <2>3 DEF MayLaunch, At
    <3>4. \A s \in Ids : under[s] <= instance
      BY DEF SessionsInv, Bounded
    <3> HIDE DEF before, after
    <3>5. Cardinality(after) = Cardinality(before) + 1 /\ Cardinality(before) \in Nat
      BY <3>1, <3>2, FS_AddElement, FS_CardinalityType
    <3>6. Len(launches) + Cardinality(after) <= MaxLaunches
      BY <2>1, <3>3, <3>5
    <3> QED
      BY <3>4, <3>6 DEF Bounded, after
  <2> QED
    BY <2>2, <2>3
<1>8. BrokersKnown' /\ RowsKnown'
  <2>1. \A i \in DOMAIN launches : launches[i].id \in Ids
    BY <1>1, LaunchTyped
  <2> QED
    BY <2>1 DEF SessionsInv, BrokersKnown, RowsKnown, RowsStay
<1>9. Unkilled'
  BY <1>2 DEF SessionsInv, Unkilled, Launching
<1>10. IdleHasBroker'
  BY <1>2 DEF SessionsInv, IdleHasBroker, RowsStay
<1> QED
  BY <1>3, <1>4, <1>5, <1>6, <1>7, <1>8, <1>9, <1>10 DEF SessionsInv

(* A client lets go of its launch and of what it launched.                 *)
LEMMA ClientLeaves ==
  ASSUME SessionsInv, NEW c \in Clients, client[c].at \in Launching,
         Leaves(c), Released(c), RowsStay,
         UNCHANGED <<instance, current, standing, under, owner>>,
         faults' \in Nat, faults' = 0 => faults = 0,
         client[c].at = "marking" /\ faults' = 0 => row'[client[c].id].status # "idle"
  PROVE SessionsInv'
<1> DEFINE n == client[c].launch
           new == [launches[n] EXCEPT !.launcher = FALSE]
<1>1. Typed
  BY DEF SessionsInv
<1>2. PICK i \in DOMAIN launches : i = n /\ launches[i].launcher /\ launches[i].id = client[c].id
  BY DEF SessionsInv, ClientsKnown
<1>3. launches[i] \in LaunchRecords
  BY <1>1, LaunchTyped
<1>4. new \in LaunchRecords /\ new.id = launches[i].id /\ ~new.launcher
      /\ new.broker = launches[i].broker /\ new.pi = launches[i].pi
  BY <1>2, <1>3 DEF LaunchRecords
<1>5. launches' = [launches EXCEPT ![i] = new]
  BY <1>2 DEF Released
<1> HIDE DEF new
<1>6. /\ launches' \in Seq(LaunchRecords) /\ DOMAIN launches' = DOMAIN launches
      /\ Len(launches') = Len(launches) /\ launches'[i] = new
      /\ \A j \in DOMAIN launches : j # i => launches'[j] = launches[j]
  BY <1>1, <1>4, <1>5, LaunchSet
<1>7. \A j \in DOMAIN launches :
        /\ launches'[j].id = launches[j].id /\ launches'[j].broker = launches[j].broker
        /\ launches'[j].pi = launches[j].pi
        /\ launches'[j].launcher => launches[j].launcher
  BY <1>4, <1>6
<1>8. Waiting \in ClientStates /\ Waiting.at = "idle" /\ Waiting.launch = 0
  BY DEF Waiting, ClientStates
<1>9. /\ client' \in [Clients -> ClientStates] /\ client'[c] = Waiting
      /\ \A d \in Clients : d # c => client'[d] = client[d]
  BY <1>1, <1>8 DEF Typed, Leaves
<1>10. Typed'
  BY <1>1, <1>6, <1>9 DEF Typed, RowsStay
<1>11. OneHolds' /\ OwnersKnown' /\ DesignatedAlone'
  BY <1>6, <1>7 DEF SessionsInv, OneHolds, Holds, OwnersKnown, DesignatedAlone
<1>12. \A d \in Clients : d # c => client[d].launch # i \/ client[d].launch = 0
  BY <1>2 DEF SessionsInv, Apart
<1>13. ClientsKnown'
  <2>1. ASSUME NEW d \in Clients, d # c, client[d].at \in Launching
        PROVE launches'[client[d].launch] = launches[client[d].launch]
    <3>1. client[d].launch \in DOMAIN launches /\ client[d].launch # 0
      BY <1>1, <2>1 DEF SessionsInv, ClientsKnown, Typed
    <3> QED
      BY <1>6, <1>12, <2>1, <3>1
  <2> QED
    BY <1>6, <1>8, <1>9, <2>1 DEF SessionsInv, ClientsKnown, Launching
<1>14. Apart'
  BY <1>8, <1>9 DEF SessionsInv, Apart
<1>15. Bounded'
  <2>1. Len(launches) \in Nat
    BY <1>1 DEF Typed
  <2>2. client' = [client EXCEPT ![c] = Waiting] /\ Waiting.at # "locking"
    BY <1>8 DEF Leaves
  <2>3. /\ Cardinality({d \in Clients : client[d].at = "locking"}) \in Nat
        /\ Cardinality({d \in Clients : client'[d].at = "locking"}) \in Nat
        /\ Cardinality({d \in Clients : client'[d].at = "locking"})
             <= Cardinality({d \in Clients : client[d].at = "locking"})
    BY <1>1, <1>8, <2>2, LockingCounted DEF Typed
  <2> QED
    BY <1>6, <2>1, <2>3 DEF SessionsInv, Bounded
<1>16. BrokersKnown' /\ RowsKnown'
  <2>1. \A j \in DOMAIN launches : launches[j].id \in Ids
    BY <1>1, LaunchTyped
  <2>2. BrokersKnown'
    BY <1>6, <1>7, <2>1 DEF SessionsInv, BrokersKnown, RowsStay
  <2>3. RowsKnown'
    BY <1>6, <1>7, <2>1 DEF SessionsInv, RowsKnown, RowsStay
  <2> QED BY <2>2, <2>3
<1>17. Unkilled'
  <2>1. \A d \in Clients : client[d].at = "marking" => client[d].launch \in DOMAIN launches
    BY DEF SessionsInv, ClientsKnown, Launching
  <2> QED
    BY <1>6, <1>7, <1>8, <1>9, <2>1 DEF SessionsInv, Unkilled
<1>18. IdleHasBroker'
  <2> SUFFICES ASSUME faults' = 0, NEW s \in Ids, row'[s].status = "idle"
               PROVE \/ \E j \in DOMAIN launches' :
                           launches'[j].id = s /\ launches'[j].broker \in Living
                     \/ \E d \in Clients : client'[d].id = s /\ client'[d].at = "marking"
    BY DEF IdleHasBroker
  <2>1. row[s].status = "idle" /\ faults = 0
    BY DEF RowsStay
  <2>2. \/ \E j \in DOMAIN launches : launches[j].id = s /\ launches[j].broker \in Living
        \/ \E d \in Clients : client[d].id = s /\ client[d].at = "marking"
    BY <2>1 DEF SessionsInv, IdleHasBroker
  <2>3. CASE \E j \in DOMAIN launches : launches[j].id = s /\ launches[j].broker \in Living
    BY <1>6, <1>7, <2>3
  <2>4. ASSUME NEW d \in Clients, client[d].id = s, client[d].at = "marking"
        PROVE client'[d].id = s /\ client'[d].at = "marking"
    <3>1. d # c
      BY <2>4
    <3> QED
      BY <1>9, <2>4, <3>1
  <2> QED
    BY <2>2, <2>3, <2>4
<1> QED
  BY <1>10, <1>11, <1>13, <1>14, <1>15, <1>16, <1>17, <1>18 DEF SessionsInv

-----------------------------------------------------------------------------
\* The steps of clients.

LEMMA Quiet ==
  ASSUME SessionsInv, UNCHANGED owner, DOMAIN launches' = DOMAIN launches,
         \A i \in DOMAIN launches : launches'[i].id = launches[i].id
  PROVE owner' \in [Ids -> Nat] /\ OwnersKnown'
  BY DEF SessionsInv, Typed, OwnersKnown

LEMMA WaitingTyped == Waiting \in ClientStates /\ Waiting.at = "idle" /\ Waiting.launch = 0
  BY DEF Waiting, ClientStates

LEMMA RowsSame == ASSUME SessionsInv, UNCHANGED row PROVE RowsStay
  BY DEF SessionsInv, Typed, RowsStay

LEMMA CreateKeeps ==
  ASSUME SessionsInv, NEW c \in Clients, NEW s \in Ids, Create(c, s) PROVE SessionsInv'
<1>1. Typed
  BY DEF SessionsInv
<1>2. PICK new \in ClientStates : new = [at |-> "locking", id |-> s, launch |-> 0]
  BY DEF ClientStates
<1>3. RowsStay
  <2>1. PICK n \in Nat : row' = [row EXCEPT ![s].status = "created", ![s].predecessor = n]
    BY <1>1 DEF Create, Typed
  <2> DEFINE r == [row[s] EXCEPT !.status = "created", !.predecessor = n]
  <2>2. row[s] \in Rows
    BY <1>1 DEF Typed
  <2>3. r \in Rows /\ r.target = row[s].target /\ r.status = "created"
    BY <2>2 DEF Rows
  <2>4. row' = [row EXCEPT ![s] = r]
    BY <2>1
  <2> HIDE DEF r
  <2> QED
    BY <1>1, <2>3, <2>4 DEF Typed, RowsStay
<1>4. new.at = "locking" /\ new.id = s /\ new.launch = 0
  BY <1>2
<1>5. /\ client' = [client EXCEPT ![c] = new] /\ client[c].at = "idle" /\ MayLaunch
      /\ UNCHANGED <<instance, current, standing, under, launches, owner, faults>>
  BY <1>2 DEF Create, At, domain
<1>6. owner' \in [Ids -> Nat] /\ OwnersKnown' /\ faults' \in Nat
  BY <1>1, <1>5, Quiet DEF Typed
<1>7. \A d \in Clients : d # c /\ client[d].at \in Launching =>
        owner'[client[d].id] = owner[client[d].id]
  BY <1>5
<1> QED
  BY <1>3, <1>4, <1>5, <1>6, <1>7, ClientGoes DEF Launching

LEMMA ReopenKeeps ==
  ASSUME SessionsInv, NEW c \in Clients, NEW s \in Ids, Reopen(c, s) PROVE SessionsInv'
<1>1. Typed
  BY DEF SessionsInv
<1>2. PICK new \in ClientStates : new = [at |-> "locking", id |-> s, launch |-> 0]
  BY DEF ClientStates
<1>3. RowsStay
  BY RowsSame DEF Reopen
<1>4. new.at = "locking" /\ new.id = s /\ new.launch = 0
  BY <1>2
<1>5. /\ client' = [client EXCEPT ![c] = new] /\ client[c].at = "idle" /\ MayLaunch
      /\ UNCHANGED <<instance, current, standing, under, launches, owner, faults>>
  BY <1>2 DEF Reopen, At, domain
<1>6. owner' \in [Ids -> Nat] /\ OwnersKnown' /\ faults' \in Nat
  BY <1>1, <1>5, Quiet DEF Typed
<1>7. \A d \in Clients : d # c /\ client[d].at \in Launching =>
        owner'[client[d].id] = owner[client[d].id]
  BY <1>5
<1> QED
  BY <1>3, <1>4, <1>5, <1>6, <1>7, ClientGoes DEF Launching

(* Without a lock there is nothing to let go of.                           *)
LEMMA UnlockedLeaves ==
  ASSUME SessionsInv, NEW c \in Clients, client[c].at = "locking", Leaves(c),
         UNCHANGED <<row, instance, current, standing, under, launches, owner>>,
         faults' \in Nat, faults' = 0 => faults = 0
  PROVE SessionsInv'
<1>1. RowsStay
  BY RowsSame
<1>2. owner' \in [Ids -> Nat] /\ OwnersKnown'
  BY Quiet
<1>3. \A d \in Clients : d # c /\ client[d].at \in Launching =>
        owner'[client[d].id] = owner[client[d].id]
  OBVIOUS
<1>4. PICK new \in ClientStates : new = Waiting /\ new.at = "idle" /\ new.launch = 0
  BY WaitingTyped
<1>5. client' = [client EXCEPT ![c] = new]
  BY <1>4 DEF Leaves
<1> QED
  BY <1>1, <1>2, <1>3, <1>4, <1>5, ClientGoes DEF Launching

LEMMA RefusedKeeps == ASSUME SessionsInv, NEW c \in Clients, Refused(c) PROVE SessionsInv'
<1>1. faults' \in Nat /\ faults' = faults
  BY DEF Refused, SessionsInv, Typed
<1> QED
  BY <1>1, UnlockedLeaves DEF Refused, At, domain

(* A client goes to the next place of its launch.                          *)
LEMMA ClientAdvances ==
  ASSUME SessionsInv, NEW c \in Clients, NEW place \in {"saving", "waiting", "failing"},
         Goes(c, place), client[c].at \in {"spawning", "saving", "waiting"},
         UNCHANGED <<row, instance, current, standing, under, launches>>,
         owner' \in [Ids -> Nat], OwnersKnown',
         \A d \in Clients : d # c /\ client[d].at \in Launching =>
           owner'[client[d].id] = owner[client[d].id],
         faults' \in Nat, faults' = 0 => faults = 0,
         place \in {"waiting", "failing"} /\ faults' = 0 =>
           owner'[client[c].id] = client[c].launch
  PROVE SessionsInv'
<1>1. client[c] \in ClientStates /\ client[c].id \in Ids
  BY DEF SessionsInv, Typed, ClientsKnown
<1> DEFINE new == [client[c] EXCEPT !.at = place]
<1>2. new \in ClientStates /\ new.at = place /\ new.id = client[c].id
      /\ new.launch = client[c].launch
  BY <1>1 DEF ClientStates, Launching
<1>3. client' = [client EXCEPT ![c] = new]
  BY DEF Goes
<1> HIDE DEF new
<1>4. RowsStay
  BY RowsSame
<1>5. client[c].at \in Launching /\ client[c].at # "marking" /\ new.at # "marking"
      /\ new.at # "locking" /\ new.at # "idle" /\ new.at # "spawning"
  BY <1>2 DEF Launching
<1>6. new.at \in {"waiting", "failing"} /\ faults' = 0 => owner'[new.id] = new.launch
  BY <1>2
<1> QED
  BY <1>1, <1>2, <1>3, <1>4, <1>5, <1>6, ClientGoes

LEMMA LaunchRaisesKeeps ==
  ASSUME SessionsInv, NEW c \in Clients, LaunchRaises(c) PROVE SessionsInv'
<1>1. faults' \in Nat /\ faults' # 0
  BY DEF SessionsInv, Typed, LaunchRaises, Fault
<1>2. owner' \in [Ids -> Nat] /\ OwnersKnown'
  BY Quiet DEF LaunchRaises
<1> QED
  BY <1>1, <1>2, ClientAdvances DEF LaunchRaises, domain

LEMMA GiveUpKeeps == ASSUME SessionsInv, NEW c \in Clients, GiveUp(c) PROVE SessionsInv'
<1>1. faults' \in Nat /\ faults' = faults
  BY DEF SessionsInv, Typed, GiveUp
<1>2. owner' \in [Ids -> Nat] /\ OwnersKnown'
  BY Quiet DEF GiveUp
<1>3. faults = 0 => owner[client[c].id] = client[c].launch
  BY DEF SessionsInv, Unkilled, GiveUp, At
<1> QED
  BY <1>1, <1>2, <1>3, ClientAdvances DEF GiveUp, At, domain

LEMMA SaveKeeps == ASSUME SessionsInv, NEW c \in Clients, Save(c) PROVE SessionsInv'
<1> DEFINE s == client[c].id
           n == client[c].launch
<1>1. Typed
  BY DEF SessionsInv
<1>2. /\ client[c].at = "saving" /\ s \in Ids /\ n \in Nat /\ n \in DOMAIN launches
      /\ launches[n].id = s /\ launches[n].launcher
  BY <1>1 DEF SessionsInv, ClientsKnown, Save, At, Launching, Typed, ClientStates
<1>3. owner' = [owner EXCEPT ![s] = n]
  BY DEF Save
<1>4. /\ Goes(c, "waiting")
      /\ UNCHANGED <<row, instance, current, standing, under, launches, faults>>
  BY DEF Save, domain
<1>5. ASSUME NEW d \in Clients, d # c, client[d].at \in Launching
      PROVE client[d].id # s
  <2>1. /\ client[d].launch \in DOMAIN launches /\ client[d].launch # 0
        /\ launches[client[d].launch].launcher
        /\ launches[client[d].launch].id = client[d].id
    BY <1>1, <1>5 DEF SessionsInv, ClientsKnown, Typed
  <2>2. client[d].launch # n
    BY <1>5, <2>1 DEF SessionsInv, Apart
  <2> QED
    BY <1>2, <2>1, <2>2 DEF SessionsInv, OneHolds, Holds
<1> HIDE DEF s, n
<1>6. owner' \in [Ids -> Nat] /\ OwnersKnown' /\ owner'[s] = n
  BY <1>1, <1>2, <1>3, <1>4 DEF SessionsInv, OwnersKnown, Typed
<1>7. \A d \in Clients : d # c /\ client[d].at \in Launching =>
        owner'[client[d].id] = owner[client[d].id]
  BY <1>1, <1>3, <1>5 DEF Typed
<1>8. faults' \in Nat /\ faults' = faults
  BY <1>1, <1>4 DEF Typed
<1> QED
  BY <1>2, <1>4, <1>6, <1>7, <1>8, ClientAdvances DEF s, n

LEMMA LaunchedKeeps == ASSUME SessionsInv, NEW c \in Clients, Launched(c) PROVE SessionsInv'
<1>1. RowsStay
  BY RowsSame DEF Launched
<1>2. faults' \in Nat /\ faults' = faults
  BY DEF SessionsInv, Typed, Launched
<1> QED
  BY <1>1, <1>2, ClientLeaves DEF Launched, At, Launching, domain

LEMMA MarkFailedKeeps ==
  ASSUME SessionsInv, NEW c \in Clients, MarkFailed(c) PROVE SessionsInv'
<1> DEFINE s == client[c].id
           r == [row[s] EXCEPT !.status = "ended"]
<1>1. Typed /\ client[c].at = "marking" /\ s \in Ids
  BY DEF SessionsInv, ClientsKnown, MarkFailed, At, Launching
<1>2. row[s] \in Rows
  BY <1>1 DEF Typed
<1>3. r \in Rows /\ r.target = row[s].target /\ r.status = "ended"
  BY <1>2 DEF Rows
<1>4. row' = [row EXCEPT ![s] = r]
  BY DEF MarkFailed
<1> HIDE DEF s, r
<1>5. RowsStay /\ row'[s].status = "ended"
  BY <1>1, <1>3, <1>4 DEF Typed, RowsStay
<1>6. faults' \in Nat /\ faults' = faults
  BY <1>1 DEF Typed, MarkFailed
<1>7. row'[client[c].id].status # "idle"
  BY <1>5 DEF s
<1> QED
  BY <1>1, <1>5, <1>6, <1>7, ClientLeaves DEF MarkFailed, Launching, domain

LEMMA LauncherDiesKeeps ==
  ASSUME SessionsInv, NEW c \in Clients, LauncherDies(c) PROVE SessionsInv'
<1>1. faults' \in Nat /\ faults' # 0
  BY DEF SessionsInv, Typed, LauncherDies, Fault
<1>2. client[c] \in ClientStates /\ client[c].at # "idle"
  BY DEF SessionsInv, Typed, LauncherDies, At
<1>3. CASE client[c].at = "locking"
  <2>1. client[c].launch = 0
    BY <1>3 DEF SessionsInv, ClientsKnown
  <2> QED
    BY <1>1, <1>3, <2>1, UnlockedLeaves DEF LauncherDies, domain
<1>4. CASE client[c].at \in Launching
  <2>1. client[c].launch # 0
    BY <1>4 DEF SessionsInv, ClientsKnown, Launching, Typed
  <2>2. Released(c) /\ RowsStay
    BY <2>1, RowsSame DEF LauncherDies, Released
  <2>3. Leaves(c) /\ UNCHANGED <<row, instance, current, standing, under, owner>>
    BY DEF LauncherDies, domain
  <2> QED
    BY <1>1, <1>4, <2>2, <2>3, ClientLeaves
<1> QED
  BY <1>2, <1>3, <1>4 DEF ClientStates

LEMMA LockKeeps == ASSUME SessionsInv, NEW c \in Clients, Lock(c) PROVE SessionsInv'
<1> DEFINE s == client[c].id
           n == Len(launches) + 1
           launch == [id |-> s, launcher |-> TRUE, broker |-> "unborn", pi |-> FALSE,
                      retained |-> "none"]
           new == [at |-> "spawning", id |-> s, launch |-> n]
           r == [row[s] EXCEPT !.status = "starting"]
<1>1. Typed /\ client[c].at = "locking" /\ s \in Ids /\ Len(launches) \in Nat
  BY DEF SessionsInv, Typed, ClientsKnown, Lock, At
<1>2. n \in Nat /\ n # 0 /\ DOMAIN launches = 1..Len(launches)
  BY <1>1 DEF Typed
<1>3. launch \in LaunchRecords /\ new \in ClientStates
  BY <1>1, <1>2 DEF LaunchRecords, ClientStates, Launching, Standings
<1>4. /\ launch.id = s /\ launch.launcher /\ launch.broker = "unborn" /\ ~launch.pi
      /\ new.at = "spawning" /\ new.id = s /\ new.launch = n
  OBVIOUS
<1>5. row[s] \in Rows
  BY <1>1 DEF Typed
<1>6. r \in Rows /\ r.target = row[s].target /\ r.status = "starting"
  BY <1>5 DEF Rows
<1>7. /\ launches' = Append(launches, launch) /\ row' = [row EXCEPT ![s] = r]
      /\ client' = [client EXCEPT ![c] = new]
      /\ UNCHANGED <<instance, current, standing, under, owner, faults>>
  BY DEF Lock, domain
<1>8. \A i \in DOMAIN launches : launches[i].id = s => ~Holds(launches[i])
  BY <1>1, LivingIsAlive DEF Lock, Locked, Holds
<1> HIDE DEF launch, new, r, s, n
<1>9. /\ launches' \in Seq(LaunchRecords) /\ Len(launches') = n
      /\ DOMAIN launches' = DOMAIN launches \union {n} /\ n \notin DOMAIN launches
      /\ launches'[n] = launch /\ \A i \in DOMAIN launches : launches'[i] = launches[i]
  <2>1. launches \in Seq(LaunchRecords) /\ n = Len(launches) + 1
    BY <1>1 DEF Typed, n
  <2> QED
    BY <1>2, <1>3, <1>7, <2>1
<1>10. /\ client' \in [Clients -> ClientStates] /\ client'[c] = new
       /\ \A d \in Clients : d # c => client'[d] = client[d]
  BY <1>1, <1>3, <1>7 DEF Typed
<1>11. RowsStay /\ row'[s].status = "starting"
  BY <1>1, <1>6, <1>7 DEF Typed, RowsStay
<1>12. Typed'
  BY <1>1, <1>7, <1>9, <1>10, <1>11 DEF Typed, RowsStay
<1>13. OneHolds'
  BY <1>4, <1>8, <1>9 DEF SessionsInv, OneHolds
<1>14. \A d \in Clients : client[d].at \in Launching => client[d].launch \in DOMAIN launches
  BY DEF SessionsInv, ClientsKnown
<1>15. ClientsKnown'
  BY <1>1, <1>4, <1>9, <1>10, <1>14 DEF SessionsInv, ClientsKnown, Launching
<1>16. Apart'
  <2>1. ASSUME NEW d \in Clients, d # c PROVE client[d].launch # n
    <3>1. client[d].launch = 0 \/ client[d].launch \in DOMAIN launches
      BY <1>14, <2>1 DEF SessionsInv, ClientsKnown, Typed, ClientStates
    <3> QED
      BY <1>2, <1>9, <3>1
  <2> QED
    BY <1>4, <1>10, <2>1 DEF SessionsInv, Apart
<1>17. Bounded'
  <2>1. PICK before \in Nat, after \in Nat :
          /\ before = Cardinality({d \in Clients : client[d].at = "locking"})
          /\ after = Cardinality({d \in Clients : client'[d].at = "locking"})
          /\ after + 1 = before
    BY <1>1, <1>3, <1>4, <1>7, LockingCounted DEF Typed
  <2>2. Len(launches) + before <= MaxLaunches
    BY <2>1 DEF SessionsInv, Bounded
  <2>3. Len(launches') = Len(launches) + 1
    BY <1>9 DEF n
  <2>4. Len(launches') + after <= MaxLaunches
    BY <1>1, <2>1, <2>2, <2>3
  <2>5. \A t \in Ids : under'[t] <= instance'
    BY <1>7 DEF SessionsInv, Bounded
  <2> QED
    BY <2>1, <2>4, <2>5 DEF Bounded
<1>18. OwnersKnown' /\ DesignatedAlone'
  BY <1>7, <1>9 DEF SessionsInv, OwnersKnown, DesignatedAlone
<1>19. BrokersKnown' /\ RowsKnown'
  <2>1. \A i \in DOMAIN launches : launches[i].id \in Ids
    BY <1>1, LaunchTyped
  <2> QED
    BY <1>4, <1>7, <1>9, <1>11, <2>1 DEF SessionsInv, BrokersKnown, RowsKnown, RowsStay
<1>20. Unkilled'
  BY <1>4, <1>7, <1>9, <1>10, <1>14 DEF SessionsInv, Unkilled, Launching
<1>21. IdleHasBroker'
  <2> SUFFICES ASSUME faults' = 0, NEW t \in Ids, row'[t].status = "idle"
               PROVE \/ \E j \in DOMAIN launches' :
                           launches'[j].id = t /\ launches'[j].broker \in Living
                     \/ \E d \in Clients : client'[d].id = t /\ client'[d].at = "marking"
    BY DEF IdleHasBroker
  <2>1. row[t].status = "idle" /\ faults = 0
    BY <1>7, <1>11 DEF RowsStay
  <2>2. \/ \E j \in DOMAIN launches : launches[j].id = t /\ launches[j].broker \in Living
        \/ \E d \in Clients : client[d].id = t /\ client[d].at = "marking"
    BY <2>1 DEF SessionsInv, IdleHasBroker
  <2> QED
    BY <1>1, <1>9, <1>10, <2>2
<1> QED
  BY <1>12, <1>13, <1>15, <1>16, <1>17, <1>18, <1>19, <1>20, <1>21 DEF SessionsInv

LEMMA SpawnKeeps == ASSUME SessionsInv, NEW c \in Clients, Spawn(c) PROVE SessionsInv'
<1> DEFINE n == client[c].launch
           launch == [launches[n] EXCEPT !.broker = "starting"]
           new == [client[c] EXCEPT !.at = "saving"]
<1>1. Typed /\ client[c].at = "spawning"
  BY DEF SessionsInv, Spawn, At
<1>2. PICK i \in DOMAIN launches :
        /\ i = n /\ launches[i].launcher /\ launches[i].id = client[c].id
        /\ launches[i].broker = "unborn"
  BY <1>1 DEF SessionsInv, ClientsKnown, Launching
<1>3. launches[i] \in LaunchRecords /\ client[c] \in ClientStates
  BY <1>1, LaunchTyped DEF Typed
<1>4. launch \in LaunchRecords /\ launch.id = launches[i].id /\ launch.launcher
      /\ launch.broker = "starting" /\ launch.pi = launches[i].pi
  BY <1>2, <1>3 DEF LaunchRecords, Living
<1>5. new \in ClientStates /\ new.at = "saving" /\ new.id = client[c].id /\ new.launch = i
  BY <1>2, <1>3 DEF ClientStates, Launching
<1>6. /\ launches' = [launches EXCEPT ![i] = launch]
      /\ client' = [client EXCEPT ![c] = new]
      /\ UNCHANGED <<row, instance, current, standing, under, owner, faults>>
  BY <1>2 DEF Spawn, Goes, domain
<1> HIDE DEF launch, new, n
<1>7. /\ launches' \in Seq(LaunchRecords) /\ DOMAIN launches' = DOMAIN launches
      /\ Len(launches') = Len(launches) /\ launches'[i] = launch
      /\ \A j \in DOMAIN launches : j # i => launches'[j] = launches[j]
  BY <1>1, <1>4, <1>6, LaunchSet
<1>8. /\ client' \in [Clients -> ClientStates] /\ client'[c] = new
      /\ \A d \in Clients : d # c => client'[d] = client[d]
  BY <1>1, <1>5, <1>6 DEF Typed
<1>9. Typed'
  BY <1>1, <1>6, <1>7, <1>8 DEF Typed
<1>10. OneHolds'
  BY <1>2, <1>4, <1>7 DEF SessionsInv, OneHolds, Holds
<1>11. \A d \in Clients : d # c /\ client[d].at \in Launching =>
         client[d].launch \in DOMAIN launches /\ client[d].launch # i
  BY <1>1, <1>2 DEF SessionsInv, ClientsKnown, Apart, Typed, n
<1>12. ClientsKnown'
  BY <1>1, <1>2, <1>4, <1>5, <1>7, <1>8, <1>11 DEF SessionsInv, ClientsKnown, Launching
<1>13. Apart'
  BY <1>2, <1>5, <1>8 DEF SessionsInv, Apart, n
<1>14. Bounded'
  <2>1. PICK before \in Nat, after \in Nat :
          /\ before = Cardinality({d \in Clients : client[d].at = "locking"})
          /\ after = Cardinality({d \in Clients : client'[d].at = "locking"})
          /\ after <= before
    BY <1>1, <1>5, <1>6, LockingCounted DEF Typed
  <2>2. Len(launches) \in Nat /\ Len(launches) + before <= MaxLaunches
    BY <1>1, <2>1 DEF SessionsInv, Bounded, Typed
  <2>3. Len(launches') + after <= MaxLaunches
    BY <1>7, <2>1, <2>2
  <2>4. \A t \in Ids : under'[t] <= instance'
    BY <1>6 DEF SessionsInv, Bounded
  <2> QED
    BY <2>1, <2>3, <2>4 DEF Bounded
<1>15. OwnersKnown' /\ DesignatedAlone'
  BY <1>4, <1>6, <1>7 DEF SessionsInv, OwnersKnown, DesignatedAlone
<1>16. BrokersKnown' /\ RowsKnown'
  BY <1>4, <1>6, <1>7 DEF SessionsInv, BrokersKnown, RowsKnown
<1>17. Unkilled'
  BY <1>4, <1>5, <1>6, <1>7, <1>8, <1>11 DEF SessionsInv, Unkilled, Launching, Living
<1>18. IdleHasBroker'
  <2> SUFFICES ASSUME faults' = 0, NEW t \in Ids, row'[t].status = "idle"
               PROVE \/ \E j \in DOMAIN launches' :
                           launches'[j].id = t /\ launches'[j].broker \in Living
                     \/ \E d \in Clients : client'[d].id = t /\ client'[d].at = "marking"
    BY DEF IdleHasBroker
  <2>1. \/ \E j \in DOMAIN launches : launches[j].id = t /\ launches[j].broker \in Living
        \/ \E d \in Clients : client[d].id = t /\ client[d].at = "marking"
    BY <1>6 DEF SessionsInv, IdleHasBroker
  <2> QED
    BY <1>1, <1>4, <1>7, <1>8, <2>1 DEF Living
<1> QED
  BY <1>9, <1>10, <1>12, <1>13, <1>14, <1>15, <1>16, <1>17, <1>18 DEF SessionsInv

(* Only the leader of the recorded group is stopped: with nothing killed,  *)
(* the recorded one is the launch that failed.                             *)
LEMMA ReconcileKeeps ==
  ASSUME SessionsInv, NEW c \in Clients, Reconcile(c) PROVE SessionsInv'
<1> DEFINE s == client[c].id
           new == [client[c] EXCEPT !.at = "marking"]
<1>1. Typed /\ client[c].at = "failing" /\ client[c] \in ClientStates
  BY DEF SessionsInv, Reconcile, At, Typed
<1>2. /\ s \in Ids /\ client[c].launch \in DOMAIN launches
      /\ launches[client[c].launch].id = s
  BY <1>1 DEF SessionsInv, ClientsKnown, Launching
<1>3. new \in ClientStates /\ new.at = "marking" /\ new.id = s
      /\ new.launch = client[c].launch
  BY <1>1 DEF ClientStates, Launching
<1>4. /\ client' = [client EXCEPT ![c] = new]
      /\ UNCHANGED <<row, instance, current, standing, under, owner, faults>>
  BY DEF Reconcile, Goes, domain
<1>5. owner[s] # 0 => owner[s] \in DOMAIN launches /\ launches[owner[s]].id = s
  BY <1>2 DEF SessionsInv, OwnersKnown
<1>6. /\ launches' \in Seq(LaunchRecords) /\ DOMAIN launches' = DOMAIN launches
      /\ Len(launches') = Len(launches)
      /\ \A j \in DOMAIN launches :
           /\ launches'[j].id = launches[j].id /\ launches'[j].launcher = launches[j].launcher
           /\ launches'[j].broker \in {launches[j].broker, "gone"}
           /\ launches'[j].broker # launches[j].broker => launches[j].broker \in Living
           /\ launches'[j].pi => launches[j].pi
           /\ launches[j].id # s => launches'[j] = launches[j]
           /\ owner[s] = j => launches'[j].broker \notin Living
           /\ launches'[j].pi => launches'[j] = launches[j]
  <2>1. CASE ~Owned(s)
    <3>1. launches' = launches
      BY <2>1 DEF Reconcile
    <3>2. \A j \in DOMAIN launches : owner[s] = j => launches[j].broker \notin Living
      BY <1>1, <2>1, LivingIsAlive DEF Owned, Typed
    <3> QED
      BY <1>1, <3>1, <3>2 DEF Typed
  <2>2. CASE Owned(s)
    <3> DEFINE launch == [launches[owner[s]] EXCEPT !.broker = "gone", !.pi = FALSE]
    <3>1. PICK i \in DOMAIN launches : i = owner[s] /\ launches[i].id = s
      BY <1>5, <2>2 DEF Owned
    <3>2. launches[i] \in LaunchRecords /\ launches[i].broker \in Living
      BY <1>1, <2>2, <3>1, LaunchTyped, LivingIsAlive DEF Owned
    <3>3. launch \in LaunchRecords /\ launch.id = s /\ launch.launcher = launches[i].launcher
          /\ launch.broker = "gone" /\ ~launch.pi
      BY <3>1, <3>2 DEF LaunchRecords
    <3>4. launches' = [launches EXCEPT ![i] = launch]
      BY <2>2, <3>1 DEF Reconcile
    <3> HIDE DEF launch
    <3>5. /\ launches' \in Seq(LaunchRecords) /\ DOMAIN launches' = DOMAIN launches
          /\ Len(launches') = Len(launches) /\ launches'[i] = launch
          /\ \A j \in DOMAIN launches : j # i => launches'[j] = launches[j]
      BY <1>1, <3>3, <3>4, LaunchSet
    <3> QED
      BY <3>1, <3>2, <3>3, <3>5 DEF Living
  <2> QED
    BY <2>1, <2>2
<1> HIDE DEF new, s
<1>7. /\ client' \in [Clients -> ClientStates] /\ client'[c] = new
      /\ \A d \in Clients : d # c => client'[d] = client[d]
  BY <1>1, <1>3, <1>4 DEF Typed
<1>8. Typed'
  BY <1>1, <1>4, <1>6, <1>7 DEF Typed
<1>9. OneHolds'
  BY <1>6 DEF SessionsInv, OneHolds, Holds, Living
<1>10. ClientsKnown'
  <2>1. ASSUME NEW d \in Clients, client[d].at \in Launching
        PROVE /\ client[d].launch \in DOMAIN launches'
              /\ launches'[client[d].launch].launcher
              /\ launches'[client[d].launch].id = client[d].id
              /\ client[d].at = "spawning" => launches'[client[d].launch].broker = "unborn"
    <3>1. /\ client[d].launch \in DOMAIN launches
          /\ launches[client[d].launch].launcher
          /\ launches[client[d].launch].id = client[d].id
          /\ client[d].at = "spawning" => launches[client[d].launch].broker = "unborn"
      BY <2>1 DEF SessionsInv, ClientsKnown
    <3> QED
      BY <1>6, <3>1 DEF Living
  <2>2. client[c].at \in Launching /\ new.at \in Launching /\ new.id \in Ids
    BY <1>1, <1>2, <1>3 DEF Launching
  <2>3. \A d \in Clients : d # c => client'[d] = client[d]
    BY <1>7
  <2>4. \A d \in Clients :
          /\ client[d].at # "idle" => client[d].id \in Ids
          /\ client[d].at \in {"idle", "locking"} => client[d].launch = 0
    BY DEF SessionsInv, ClientsKnown
  <2>5. ASSUME NEW d \in Clients, d # c
        PROVE /\ client'[d].at # "idle" => client'[d].id \in Ids
              /\ client'[d].at \in {"idle", "locking"} => client'[d].launch = 0
              /\ client'[d].at \in Launching =>
                   /\ client'[d].launch \in DOMAIN launches'
                   /\ launches'[client'[d].launch].launcher
                   /\ launches'[client'[d].launch].id = client'[d].id
              /\ client'[d].at = "spawning" => launches'[client'[d].launch].broker = "unborn"
    <3>1. client'[d] = client[d]
      BY <2>3, <2>5
    <3> QED
      BY <2>1, <2>4, <3>1 DEF Launching
  <2>6. /\ new.at = "marking" /\ new.launch \in DOMAIN launches'
        /\ launches'[new.launch].launcher /\ launches'[new.launch].id = new.id
    BY <1>2, <1>3, <2>1, <2>2 DEF s
  <2> QED
    BY <1>7, <2>2, <2>5, <2>6 DEF ClientsKnown
<1>11. Apart'
  BY <1>3, <1>7 DEF SessionsInv, Apart
<1>12. Bounded'
  <2>1. PICK before \in Nat, after \in Nat :
          /\ before = Cardinality({d \in Clients : client[d].at = "locking"})
          /\ after = Cardinality({d \in Clients : client'[d].at = "locking"})
          /\ after <= before
    BY <1>1, <1>3, <1>4, LockingCounted DEF Typed
  <2>2. Len(launches) \in Nat /\ Len(launches) + before <= MaxLaunches
    BY <1>1, <2>1 DEF SessionsInv, Bounded, Typed
  <2>3. Len(launches') + after <= MaxLaunches
    BY <1>6, <2>1, <2>2
  <2>4. \A t \in Ids : under'[t] <= instance'
    BY <1>4 DEF SessionsInv, Bounded
  <2> QED
    BY <2>1, <2>3, <2>4 DEF Bounded
<1>13. OwnersKnown' /\ DesignatedAlone'
  BY <1>4, <1>6 DEF SessionsInv, OwnersKnown, DesignatedAlone
<1>14. BrokersKnown' /\ RowsKnown'
  BY <1>4, <1>6 DEF SessionsInv, BrokersKnown, RowsKnown
<1>15. Unkilled'
  <2> SUFFICES ASSUME faults' = 0 PROVE Unkilled'
    BY DEF Unkilled
  <2>1. faults = 0 /\ Unkilled
    BY <1>4 DEF SessionsInv
  <2>2. \A j \in DOMAIN launches' : launches'[j].pi => launches'[j].broker \in Living
    BY <1>6, <2>1 DEF Unkilled
  <2>3. owner[s] = client[c].launch
    BY <1>1, <2>1 DEF Unkilled, s
  <2>4. launches'[client[c].launch].broker \notin Living /\ ~launches'[client[c].launch].pi
    BY <1>2, <1>6, <2>2, <2>3
  <2>5. \A d \in Clients : client[d].at = "marking" =>
          /\ client[d].launch \in DOMAIN launches
          /\ launches'[client[d].launch].broker \notin Living
          /\ ~launches'[client[d].launch].pi
    BY <1>6, <2>1 DEF SessionsInv, ClientsKnown, Launching, Unkilled, Living
  <2>6. \A d \in Clients : client'[d].at \in {"waiting", "failing"} =>
          owner'[client'[d].id] = client'[d].launch
    BY <1>3, <1>4, <1>7, <2>1 DEF Unkilled
  <2>7. \A d \in Clients : client'[d].at = "marking" =>
          /\ launches'[client'[d].launch].broker \notin Living
          /\ ~launches'[client'[d].launch].pi
    BY <1>3, <1>7, <2>4, <2>5
  <2> QED
    BY <2>2, <2>6, <2>7 DEF Unkilled
<1>16. IdleHasBroker'
  <2> SUFFICES ASSUME faults' = 0, NEW t \in Ids, row'[t].status = "idle"
               PROVE \/ \E j \in DOMAIN launches' :
                           launches'[j].id = t /\ launches'[j].broker \in Living
                     \/ \E d \in Clients : client'[d].id = t /\ client'[d].at = "marking"
    BY DEF IdleHasBroker
  <2>1. \/ \E j \in DOMAIN launches : launches[j].id = t /\ launches[j].broker \in Living
        \/ \E d \in Clients : client[d].id = t /\ client[d].at = "marking"
    BY <1>4 DEF SessionsInv, IdleHasBroker
  <2>2. CASE t = s
    BY <1>3, <1>7, <2>2
  <2>3. CASE t # s
    BY <1>1, <1>6, <1>7, <2>1, <2>3
  <2> QED
    BY <2>2, <2>3
<1> QED
  BY <1>8, <1>9, <1>10, <1>11, <1>12, <1>13, <1>14, <1>15, <1>16 DEF SessionsInv

-----------------------------------------------------------------------------
\* The steps of brokers.

(* A broker goes on: the descriptor it inherited is let go of, never taken *)
(* again, and the row and the domain only gain what its stages say.        *)
LEMMA BrokerMoves ==
  ASSUME SessionsInv, NEW i \in DOMAIN launches, NEW new \in LaunchRecords, NEW s \in Ids,
         launches[i].id = s, launches' = [launches EXCEPT ![i] = new],
         new.id = s, new.launcher = launches[i].launcher,
         new.broker # launches[i].broker =>
           launches[i].broker \in Living /\ new.broker # "unborn",
         new.pi => launches[i].pi \/ launches[i].broker \in Living,
         UNCHANGED <<owner, client>>, faults' \in Nat, faults' = 0 => faults = 0,
         row' \in [Ids -> Rows], \A t \in Ids : t # s => row'[t] = row[t],
         row[s].target => row'[s].target, row'[s].target => under'[s] # 0,
         row'[s].status = "idle" => row'[s].target,
         row'[s].status = "idle" =>
           row[s].status = "idle" \/ launches[i].broker \in Living,
         instance' \in Nat, instance <= instance', current' \in Ids \union {NoId},
         standing' \in [Ids -> Standings], under' \in [Ids -> Nat],
         \A t \in Ids : under'[t] <= instance' /\ (under[t] # 0 => under'[t] # 0),
         DesignatedAlone',
         new.broker \in {"ready", "serving"} => row'[s].target,
         new.broker = "opening" => instance' # 0,
         new.broker = "recording" => under'[s] # 0,
         new.broker \in {"reading", "writing"} => row'[s].status # "idle" /\ ~new.pi,
         faults' = 0 /\ new.pi => new.broker \in Living,
         faults' = 0 /\ row'[s].status = "idle" =>
           \/ new.broker \in Living
           \/ new.broker = launches[i].broker /\ row[s].status = "idle"
  PROVE SessionsInv'
<1>1. Typed
  BY DEF SessionsInv
<1>2. /\ launches' \in Seq(LaunchRecords) /\ DOMAIN launches' = DOMAIN launches
      /\ Len(launches') = Len(launches) /\ launches'[i] = new
      /\ \A j \in DOMAIN launches : j # i => launches'[j] = launches[j]
  BY <1>1, LaunchSet
<1>3. Typed'
  BY <1>1, <1>2 DEF Typed
<1>4. OneHolds'
  BY <1>2 DEF SessionsInv, OneHolds, Holds
<1>5. ClientsKnown'
  <2>1. \A d \in Clients : client[d].at = "spawning" =>
          launches'[client[d].launch].broker = "unborn"
    BY <1>2 DEF SessionsInv, ClientsKnown, Launching, Living
  <2>2. \A d \in Clients : client[d].at \in Launching =>
          /\ client[d].launch \in DOMAIN launches'
          /\ launches'[client[d].launch].launcher
          /\ launches'[client[d].launch].id = client[d].id
    BY <1>2 DEF SessionsInv, ClientsKnown
  <2> QED
    BY <2>1, <2>2 DEF SessionsInv, ClientsKnown
<1>6. Apart' /\ Bounded'
  BY <1>2 DEF SessionsInv, Apart, Bounded
<1>7. OwnersKnown'
  BY <1>2 DEF SessionsInv, OwnersKnown
<1>8. \A j \in DOMAIN launches : launches[j].id \in Ids
  BY <1>1, LaunchTyped
<1>9. RowsKnown'
  BY DEF SessionsInv, RowsKnown
<1>10. BrokersKnown'
  <2> SUFFICES ASSUME NEW j \in DOMAIN launches, j # i
               PROVE LET t == launches[j].id
                     IN /\ launches[j].broker \in {"ready", "serving"} => row'[t].target
                        /\ launches[j].broker = "opening" => instance' # 0
                        /\ launches[j].broker = "recording" => under'[t] # 0
                        /\ launches[j].broker \in {"reading", "writing"} =>
                             row'[t].status # "idle" /\ ~launches[j].pi
    BY <1>2 DEF BrokersKnown
  <2> DEFINE t == launches[j].id
  <2>1. /\ launches[j].broker \in {"ready", "serving"} => row[t].target
        /\ launches[j].broker = "opening" => instance # 0
        /\ launches[j].broker = "recording" => under[t] # 0
        /\ launches[j].broker \in {"reading", "writing"} =>
             row[t].status # "idle" /\ ~launches[j].pi
        /\ t \in Ids
    BY <1>8 DEF SessionsInv, BrokersKnown
  <2>2. launches[j].broker \in {"reading", "writing"} /\ t = s =>
          launches[i].broker \notin Living
    BY DEF SessionsInv, OneHolds, Holds, Living
  <2> HIDE DEF t
  <2>3. launches[j].broker \in {"reading", "writing"} =>
          row'[t].status # "idle" /\ ~launches[j].pi
    BY <2>1, <2>2
  <2>4. launches[j].broker = "opening" => instance' # 0
    BY <1>1, <2>1 DEF Typed
  <2>5. /\ launches[j].broker \in {"ready", "serving"} => row'[t].target
        /\ launches[j].broker = "recording" => under'[t] # 0
    BY <2>1
  <2> QED
    BY <2>3, <2>4, <2>5 DEF t
<1>11. Unkilled'
  <2> SUFFICES ASSUME faults' = 0 PROVE Unkilled'
    BY DEF Unkilled
  <2>1. Unkilled /\ faults = 0
    BY DEF SessionsInv
  <2>2. \A j \in DOMAIN launches' : launches'[j].pi => launches'[j].broker \in Living
    BY <1>2, <2>1 DEF Unkilled
  <2>3. ASSUME NEW d \in Clients, client[d].at = "marking"
        PROVE /\ launches'[client[d].launch].broker \notin Living
              /\ ~launches'[client[d].launch].pi
    <3>1. /\ client[d].launch \in DOMAIN launches
          /\ launches[client[d].launch].broker \notin Living
          /\ ~launches[client[d].launch].pi
      BY <2>1, <2>3 DEF SessionsInv, ClientsKnown, Launching, Unkilled
    <3> QED
      BY <1>2, <3>1
  <2>4. client' = client /\ owner' = owner
    OBVIOUS
  <2>5. \A d \in Clients : client[d].at \in {"waiting", "failing"} =>
          owner'[client[d].id] = client[d].launch
    BY <2>1, <2>4 DEF Unkilled
  <2> QED
    BY <2>2, <2>3, <2>4, <2>5 DEF Unkilled
<1>12. IdleHasBroker'
  <2> SUFFICES ASSUME faults' = 0, NEW t \in Ids, row'[t].status = "idle"
               PROVE \/ \E j \in DOMAIN launches' :
                           launches'[j].id = t /\ launches'[j].broker \in Living
                     \/ \E d \in Clients : client'[d].id = t /\ client'[d].at = "marking"
    BY DEF IdleHasBroker
  <2>1. CASE t = s /\ new.broker \in Living
    BY <1>2, <2>1
  <2>2. CASE t # s \/ (new.broker = launches[i].broker /\ row[s].status = "idle")
    <3>1. row[t].status = "idle" /\ faults = 0
      BY <2>2
    <3>2. \/ \E j \in DOMAIN launches : launches[j].id = t /\ launches[j].broker \in Living
          \/ \E d \in Clients : client[d].id = t /\ client[d].at = "marking"
      BY <3>1 DEF SessionsInv, IdleHasBroker
    <3>3. \A j \in DOMAIN launches : launches[j].id = t /\ launches[j].broker \in Living =>
            launches'[j].id = t /\ launches'[j].broker \in Living
      BY <1>2, <2>2
    <3> QED
      BY <1>2, <3>2, <3>3
  <2>3. t = s => \/ new.broker \in Living
                 \/ new.broker = launches[i].broker /\ row[s].status = "idle"
    OBVIOUS
  <2> QED
    BY <2>1, <2>2, <2>3
<1> QED
  BY <1>3, <1>4, <1>5, <1>6, <1>7, <1>9, <1>10, <1>11, <1>12 DEF SessionsInv

(* A step that leaves the registry and the domain as they are.             *)
LEMMA BrokerQuiet ==
  ASSUME SessionsInv, NEW i \in DOMAIN launches, NEW new \in LaunchRecords,
         launches' = [launches EXCEPT ![i] = new],
         new.id = launches[i].id, new.launcher = launches[i].launcher,
         new.broker # launches[i].broker =>
           launches[i].broker \in Living /\ new.broker # "unborn",
         new.pi => launches[i].pi \/ launches[i].broker \in Living,
         UNCHANGED <<row, instance, current, standing, under, owner, client>>,
         faults' \in Nat, faults' = 0 => faults = 0,
         new.broker \in {"ready", "serving"} => row[new.id].target,
         new.broker = "opening" => instance # 0,
         new.broker = "recording" => under[new.id] # 0,
         new.broker \in {"reading", "writing"} => row[new.id].status # "idle" /\ ~new.pi,
         faults' = 0 /\ new.pi => new.broker \in Living,
         faults' = 0 /\ row[new.id].status = "idle" =>
           new.broker \in Living \/ new.broker = launches[i].broker
  PROVE SessionsInv'
<1>1. Typed
  BY DEF SessionsInv
<1>2. PICK s \in Ids : s = launches[i].id
  BY <1>1, LaunchTyped
<1>3. /\ row' \in [Ids -> Rows] /\ instance' \in Nat /\ instance <= instance'
      /\ current' \in Ids \union {NoId} /\ standing' \in [Ids -> Standings]
      /\ under' \in [Ids -> Nat]
  BY <1>1 DEF Typed
<1>4. /\ row'[s].target => under'[s] # 0
      /\ row'[s].status = "idle" => row'[s].target
      /\ \A t \in Ids : under'[t] <= instance'
      /\ DesignatedAlone'
  BY DEF SessionsInv, RowsKnown, Bounded, DesignatedAlone
<1> QED
  BY ZenonT(60), <1>2, <1>3, <1>4, BrokerMoves

(* What the designated session is after a step in the domain.              *)
LEMMA SupersededIs ==
  ASSUME SessionsInv
  PROVE /\ Superseded \in [Ids -> Standings]
        /\ \A t \in Ids : Superseded[t] # "open"
<1>1. standing \in [Ids -> Standings] /\ under \in [Ids -> Nat] /\ NoId \notin Ids
  BY DEF SessionsInv, Typed
<1>2. Superseded \in [Ids -> Standings]
  BY <1>1 DEF Superseded, Standings
<1>3. ASSUME NEW t \in Ids PROVE Superseded[t] # "open"
  <2>1. standing[t] = "open" => under[t] = instance
    BY <1>1 DEF SessionsInv, DesignatedAlone
  <2> QED
    BY <2>1 DEF Superseded
<1> QED
  BY <1>2, <1>3

(* The fields of a launch whose broker goes on.                            *)
LEMMA StepIs ==
  ASSUME Typed, NEW i \in DOMAIN launches, NEW place \in Living \union {"gone"}, Step(i, place)
  PROVE \E new \in LaunchRecords :
          /\ launches' = [launches EXCEPT ![i] = new]
          /\ new.id = launches[i].id /\ new.launcher = launches[i].launcher
          /\ new.broker = place /\ new.pi = launches[i].pi
          /\ new.retained = launches[i].retained
<1> DEFINE new == [launches[i] EXCEPT !.broker = place]
<1>1. launches[i] \in LaunchRecords
  BY LaunchTyped
<1>2. /\ new \in LaunchRecords
      /\ new.id = launches[i].id /\ new.launcher = launches[i].launcher
      /\ new.broker = place /\ new.pi = launches[i].pi /\ new.retained = launches[i].retained
  BY <1>1 DEF LaunchRecords
<1>3. launches' = [launches EXCEPT ![i] = new]
  BY DEF Step
<1> HIDE DEF new
<1> QED
  BY <1>2, <1>3

LEMMA StartPiKeeps ==
  ASSUME SessionsInv, NEW i \in DOMAIN launches, StartPi(i) PROVE SessionsInv'
<1> DEFINE new == [launches[i] EXCEPT !.broker = "observing", !.pi = TRUE]
<1>1. Typed /\ launches[i] \in LaunchRecords /\ launches[i].broker = "starting"
  BY LaunchTyped DEF SessionsInv, StartPi, Is
<1>2. /\ new \in LaunchRecords
      /\ new.id = launches[i].id /\ new.launcher = launches[i].launcher
      /\ new.broker = "observing" /\ new.pi
  BY <1>1 DEF LaunchRecords, Living
<1>3. launches' = [launches EXCEPT ![i] = new]
  BY DEF StartPi
<1> HIDE DEF new
<1>4. UNCHANGED <<row, instance, current, standing, under, owner, client, faults>>
  BY DEF StartPi, domain
<1>5. faults' \in Nat
  BY <1>1, <1>4 DEF Typed
<1> QED
  BY <1>1, <1>2, <1>3, <1>4, <1>5, BrokerQuiet DEF Living

(* Steps that change only the stage.                                       *)
LEMMA StageKeeps ==
  ASSUME SessionsInv, NEW i \in DOMAIN launches, NEW place \in Living,
         launches[i].broker \in Living, Step(i, place),
         UNCHANGED <<row, domain, owner, client, faults>>,
         place \in {"observing", "attaching", "closing", "opening"},
         place = "opening" => instance # 0
  PROVE SessionsInv'
<1>1. Typed
  BY DEF SessionsInv
<1>2. PICK new \in LaunchRecords :
        /\ launches' = [launches EXCEPT ![i] = new]
        /\ new.id = launches[i].id /\ new.launcher = launches[i].launcher
        /\ new.broker = place /\ new.pi = launches[i].pi
  BY <1>1, StepIs
<1>3. UNCHANGED <<row, instance, current, standing, under, owner, client, faults>>
  BY DEF domain
<1>4. faults' \in Nat
  BY <1>1 DEF Typed
<1> QED
  BY <1>2, <1>3, <1>4, BrokerQuiet DEF Living

LEMMA ObserveKeeps ==
  ASSUME SessionsInv, NEW i \in DOMAIN launches, Observe(i) PROVE SessionsInv'
<1>1. PICK place \in {"attaching", "closing"} : Step(i, place)
  BY DEF Observe
<1> QED
  BY <1>1, StageKeeps DEF Observe, Is, Living

LEMMA AttachRefusedKeeps ==
  ASSUME SessionsInv, NEW i \in DOMAIN launches, AttachRefused(i) PROVE SessionsInv'
  BY StageKeeps DEF AttachRefused, Is, Living

LEMMA JoinKeeps ==
  ASSUME SessionsInv, NEW i \in DOMAIN launches, Join(i) PROVE SessionsInv'
  BY StageKeeps DEF Join, Is, Living

LEMMA CloseKeeps ==
  ASSUME SessionsInv, NEW i \in DOMAIN launches, Close(i) PROVE SessionsInv'
  BY StageKeeps DEF Close, Is, Living

LEMMA PiExitsKeeps ==
  ASSUME SessionsInv, NEW i \in DOMAIN launches, PiExits(i) PROVE SessionsInv'
<1> DEFINE new == [launches[i] EXCEPT !.pi = FALSE]
<1>1. Typed /\ launches[i] \in LaunchRecords
  BY LaunchTyped DEF SessionsInv
<1>2. /\ new \in LaunchRecords
      /\ new.id = launches[i].id /\ new.launcher = launches[i].launcher
      /\ new.broker = launches[i].broker /\ ~new.pi
  BY <1>1 DEF LaunchRecords
<1>3. launches' = [launches EXCEPT ![i] = new]
  BY DEF PiExits
<1> HIDE DEF new
<1>4. UNCHANGED <<row, instance, current, standing, under, owner, client, faults>>
  BY DEF PiExits, domain
<1>5. faults' \in Nat
  BY <1>1, <1>4 DEF Typed
<1>6. /\ new.broker \in {"ready", "serving"} => row[new.id].target
      /\ new.broker = "opening" => instance # 0
      /\ new.broker = "recording" => under[new.id] # 0
      /\ new.broker \in {"reading", "writing"} => row[new.id].status # "idle" /\ ~new.pi
  BY <1>2 DEF SessionsInv, BrokersKnown
<1> QED
  BY <1>2, <1>3, <1>4, <1>5, <1>6, BrokerQuiet

LEMMA BrokerDiesKeeps ==
  ASSUME SessionsInv, NEW i \in DOMAIN launches, BrokerDies(i) PROVE SessionsInv'
<1>1. Typed
  BY DEF SessionsInv
<1>2. PICK new \in LaunchRecords :
        /\ launches' = [launches EXCEPT ![i] = new]
        /\ new.id = launches[i].id /\ new.launcher = launches[i].launcher
        /\ new.broker = "gone" /\ new.pi = launches[i].pi
  BY <1>1, StepIs DEF BrokerDies
<1>3. UNCHANGED <<row, instance, current, standing, under, owner, client>>
  BY DEF BrokerDies, domain
<1>4. faults' \in Nat /\ faults' # 0 /\ launches[i].broker \in Living
  BY <1>1, LivingIsAlive DEF Typed, BrokerDies, Fault
<1> QED
  BY <1>2, <1>3, <1>4, BrokerQuiet

LEMMA ReadRetainedKeeps ==
  ASSUME SessionsInv, NEW i \in DOMAIN launches, ReadRetained(i) PROVE SessionsInv'
<1> DEFINE new == [launches[i] EXCEPT !.retained = standing[launches[i].id],
                                      !.broker = "writing"]
<1>1. Typed /\ launches[i] \in LaunchRecords /\ launches[i].broker = "reading"
  BY LaunchTyped DEF SessionsInv, ReadRetained, Is
<1>2. standing[launches[i].id] \in Standings
  BY <1>1, LaunchTyped DEF Typed
<1>3. /\ new \in LaunchRecords
      /\ new.id = launches[i].id /\ new.launcher = launches[i].launcher
      /\ new.broker = "writing" /\ new.pi = launches[i].pi
  BY <1>1, <1>2 DEF LaunchRecords, Living
<1>4. launches' = [launches EXCEPT ![i] = new]
  BY DEF ReadRetained
<1> HIDE DEF new
<1>5. UNCHANGED <<row, instance, current, standing, under, owner, client, faults>>
  BY DEF ReadRetained, domain
<1>6. faults' \in Nat
  BY <1>1, <1>5 DEF Typed
<1>7. row[new.id].status # "idle" /\ ~new.pi
  BY <1>1, <1>3 DEF SessionsInv, BrokersKnown
<1> QED
  BY <1>1, <1>3, <1>4, <1>5, <1>6, <1>7, BrokerQuiet DEF Living

(* Steps in the domain, made by the broker of an attached conversation.    *)
LEMMA DomainKeeps ==
  ASSUME SessionsInv, NEW i \in DOMAIN launches, NEW place \in Living \union {"gone"},
         launches[i].broker \in Living, Step(i, place),
         UNCHANGED <<row, owner, client, faults>>,
         instance' \in Nat, instance <= instance', current' \in Ids \union {NoId},
         standing' \in [Ids -> Standings], under' \in [Ids -> Nat],
         \A t \in Ids : under'[t] <= instance' /\ (under[t] # 0 => under'[t] # 0),
         DesignatedAlone',
         place \in {"ready", "opening", "recording", "gone"},
         place = "ready" => row[launches[i].id].target,
         place = "opening" => instance' # 0,
         place = "recording" => under'[launches[i].id] # 0,
         place = "gone" => row[launches[i].id].status # "idle" /\ ~launches[i].pi
  PROVE SessionsInv'
<1>1. Typed
  BY DEF SessionsInv
<1>2. PICK s \in Ids : s = launches[i].id
  BY <1>1, LaunchTyped
<1>3. PICK new \in LaunchRecords :
        /\ launches' = [launches EXCEPT ![i] = new]
        /\ new.id = launches[i].id /\ new.launcher = launches[i].launcher
        /\ new.broker = place /\ new.pi = launches[i].pi
  BY <1>1, StepIs
<1>4. row' \in [Ids -> Rows] /\ faults' \in Nat
  BY <1>1 DEF Typed
<1>5. /\ row'[s].target => under'[s] # 0
      /\ row'[s].status = "idle" => row'[s].target
  BY DEF SessionsInv, RowsKnown
<1>6. new.broker # launches[i].broker => launches[i].broker \in Living /\ new.broker # "unborn"
  BY <1>3 DEF Living
<1>7. /\ new.broker \in {"ready", "serving"} => row'[s].target
      /\ new.broker = "opening" => instance' # 0
      /\ new.broker = "recording" => under'[s] # 0
      /\ new.broker \in {"reading", "writing"} => row'[s].status # "idle" /\ ~new.pi
      /\ faults' = 0 /\ new.pi => new.broker \in Living
      /\ faults' = 0 /\ row'[s].status = "idle" => new.broker \in Living
  BY <1>2, <1>3 DEF Living
<1> QED
  BY <1>2, <1>3, <1>4, <1>5, <1>6, <1>7, BrokerMoves

LEMMA AttachAgainKeeps ==
  ASSUME SessionsInv, NEW i \in DOMAIN launches, AttachAgain(i) PROVE SessionsInv'
<1>1. Typed
  BY DEF SessionsInv
<1>2. PICK s \in Ids : s = launches[i].id
  BY <1>1, LaunchTyped
<1>3. /\ launches[i].broker = "attaching" /\ row[s].target /\ under[s] = instance
      /\ standing' = [Superseded EXCEPT ![s] = "open"] /\ current' = s
      /\ Step(i, "ready") /\ UNCHANGED <<row, instance, under, owner, client, faults>>
  BY <1>2 DEF AttachAgain, Is
<1>4. /\ instance' \in Nat /\ instance <= instance' /\ under' \in [Ids -> Nat]
      /\ current' \in Ids \union {NoId}
      /\ \A t \in Ids : under'[t] <= instance' /\ (under[t] # 0 => under'[t] # 0)
  BY <1>1, <1>3 DEF Typed, SessionsInv, Bounded
<1>5. standing' \in [Ids -> Standings] /\ standing'[s] = "open"
      /\ \A t \in Ids : t # s => standing'[t] # "open"
  BY <1>3, SupersededIs DEF Standings
<1>6. DesignatedAlone'
  BY <1>3, <1>5 DEF DesignatedAlone
<1>7. "ready" \in Living /\ launches[i].broker \in Living
  BY <1>3 DEF Living
<1> QED
  BY <1>2, <1>3, <1>4, <1>5, <1>6, <1>7, DomainKeeps

LEMMA InstantiateKeeps ==
  ASSUME SessionsInv, NEW i \in DOMAIN launches, Instantiate(i) PROVE SessionsInv'
<1>1. Typed
  BY DEF SessionsInv
<1>2. /\ launches[i].broker = "attaching" /\ instance' = instance + 1 /\ current' = NoId
      /\ standing' = Superseded /\ Step(i, "opening")
      /\ UNCHANGED <<row, under, owner, client, faults>>
  BY DEF Instantiate, Is
<1>3. /\ instance' \in Nat /\ instance <= instance' /\ instance' # 0
      /\ under' \in [Ids -> Nat] /\ current' \in Ids \union {NoId}
  BY <1>1, <1>2 DEF Typed
<1>4. \A t \in Ids : under'[t] <= instance' /\ (under[t] # 0 => under'[t] # 0)
  BY <1>1, <1>2 DEF Typed, SessionsInv, Bounded
<1>5. standing' \in [Ids -> Standings] /\ \A t \in Ids : standing'[t] # "open"
  BY <1>2, SupersededIs
<1>6. DesignatedAlone'
  BY <1>2, <1>5 DEF DesignatedAlone
<1>7. "opening" \in Living /\ launches[i].broker \in Living
  BY <1>2 DEF Living
<1> QED
  BY <1>2, <1>3, <1>4, <1>5, <1>6, <1>7, DomainKeeps

LEMMA OpenSessionKeeps ==
  ASSUME SessionsInv, NEW i \in DOMAIN launches, OpenSession(i) PROVE SessionsInv'
<1>1. Typed
  BY DEF SessionsInv
<1>2. PICK s \in Ids : s = launches[i].id
  BY <1>1, LaunchTyped
<1>3. /\ launches[i].broker = "opening"
      /\ standing' = [Superseded EXCEPT ![s] = "open"] /\ current' = s
      /\ under' = [under EXCEPT ![s] = instance]
      /\ Step(i, "recording") /\ UNCHANGED <<row, instance, owner, client, faults>>
  BY <1>2 DEF OpenSession, Is
<1>4. instance # 0 /\ instance \in Nat
  BY <1>1, <1>3 DEF SessionsInv, BrokersKnown, Typed
<1>5. /\ instance' \in Nat /\ instance <= instance' /\ under' \in [Ids -> Nat]
      /\ under'[s] = instance /\ current' \in Ids \union {NoId}
      /\ \A t \in Ids : under'[t] <= instance' /\ (under[t] # 0 => under'[t] # 0)
  BY <1>1, <1>3, <1>4 DEF Typed, SessionsInv, Bounded
<1>6. standing' \in [Ids -> Standings] /\ standing'[s] = "open"
      /\ \A t \in Ids : t # s => standing'[t] # "open"
  BY <1>3, SupersededIs DEF Standings
<1>7. DesignatedAlone'
  BY <1>3, <1>5, <1>6 DEF DesignatedAlone
<1>8. "recording" \in Living /\ launches[i].broker \in Living
  BY <1>3 DEF Living
<1> QED
  BY <1>2, <1>3, <1>4, <1>5, <1>6, <1>7, <1>8, DomainKeeps

LEMMA WriteBackKeeps ==
  ASSUME SessionsInv, NEW i \in DOMAIN launches, WriteBack(i) PROVE SessionsInv'
<1>1. Typed
  BY DEF SessionsInv
<1>2. PICK s \in Ids : s = launches[i].id
  BY <1>1, LaunchTyped
<1>3. PICK end \in {"superseded", "closed"} : standing' = [standing EXCEPT ![s] = end]
  BY <1>2 DEF WriteBack
<1>4. /\ launches[i].broker = "writing"
      /\ current' = IF current = s THEN NoId ELSE current
      /\ Step(i, "gone") /\ UNCHANGED <<row, instance, under, owner, client, faults>>
  BY <1>2 DEF WriteBack, Is
<1>5. /\ instance' \in Nat /\ instance <= instance' /\ under' \in [Ids -> Nat]
      /\ current' \in Ids \union {NoId}
      /\ \A t \in Ids : under'[t] <= instance' /\ (under[t] # 0 => under'[t] # 0)
  BY <1>1, <1>4 DEF Typed, SessionsInv, Bounded
<1>6. standing' \in [Ids -> Standings] /\ standing'[s] = end
      /\ \A t \in Ids : t # s => standing'[t] = standing[t]
  BY <1>1, <1>3 DEF Standings, Typed
<1>7. DesignatedAlone'
  BY <1>1, <1>3, <1>4, <1>6 DEF SessionsInv, DesignatedAlone, Typed
<1>8. "gone" \in Living \union {"gone"} /\ launches[i].broker \in Living
  BY <1>4 DEF Living
<1>9. row[launches[i].id].status # "idle" /\ ~launches[i].pi
  BY <1>4 DEF SessionsInv, BrokersKnown
<1> QED
  BY <1>2, <1>4, <1>5, <1>6, <1>7, <1>8, <1>9, DomainKeeps

(* Steps in the registry: what is written of one row.                      *)
LEMMA RowSet ==
  ASSUME Typed, NEW s \in Ids, NEW r \in Rows, row' = [row EXCEPT ![s] = r]
  PROVE row' \in [Ids -> Rows] /\ row'[s] = r /\ \A t \in Ids : t # s => row'[t] = row[t]
  BY DEF Typed

LEMMA DomainSame ==
  ASSUME SessionsInv, UNCHANGED <<instance, current, standing, under>>
  PROVE /\ instance' \in Nat /\ instance <= instance' /\ current' \in Ids \union {NoId}
        /\ standing' \in [Ids -> Standings] /\ under' \in [Ids -> Nat]
        /\ \A t \in Ids : under'[t] <= instance' /\ (under[t] # 0 => under'[t] # 0)
        /\ DesignatedAlone'
  BY DEF SessionsInv, Typed, Bounded, DesignatedAlone

LEMMA RecordKeeps ==
  ASSUME SessionsInv, NEW i \in DOMAIN launches, Record(i) PROVE SessionsInv'
<1>1. Typed
  BY DEF SessionsInv
<1>2. PICK s \in Ids : s = launches[i].id
  BY <1>1, LaunchTyped
<1> DEFINE r == [row[s] EXCEPT !.target = TRUE]
<1>3. row[s] \in Rows
  BY <1>1 DEF Typed
<1>4. r \in Rows /\ r.target /\ r.status = row[s].status
  BY <1>3 DEF Rows
<1>5. row' = [row EXCEPT ![s] = r] /\ launches[i].broker = "recording" /\ Step(i, "ready")
      /\ UNCHANGED <<instance, current, standing, under, owner, client, faults>>
  BY <1>2 DEF Record, Is, domain
<1> HIDE DEF r
<1>6. row' \in [Ids -> Rows] /\ row'[s] = r /\ \A t \in Ids : t # s => row'[t] = row[t]
  BY <1>1, <1>4, <1>5, RowSet
<1>7. "ready" \in Living /\ launches[i].broker \in Living
  BY <1>5 DEF Living
<1>8. PICK new \in LaunchRecords :
        /\ launches' = [launches EXCEPT ![i] = new]
        /\ new.id = launches[i].id /\ new.launcher = launches[i].launcher
        /\ new.broker = "ready" /\ new.pi = launches[i].pi
  BY <1>1, <1>5, <1>7, StepIs
<1>9. under'[s] # 0 /\ faults' \in Nat
  BY <1>1, <1>2, <1>5 DEF SessionsInv, BrokersKnown, Typed
<1> QED
  BY ZenonT(60), <1>2, <1>4, <1>5, <1>6, <1>7, <1>8, <1>9, DomainSame, BrokerMoves

LEMMA ReadyKeeps ==
  ASSUME SessionsInv, NEW i \in DOMAIN launches, Ready(i) PROVE SessionsInv'
<1>1. Typed
  BY DEF SessionsInv
<1>2. PICK s \in Ids : s = launches[i].id
  BY <1>1, LaunchTyped
<1> DEFINE r == [row[s] EXCEPT !.status = "idle"]
<1>3. row[s] \in Rows
  BY <1>1 DEF Typed
<1>4. r \in Rows /\ r.target = row[s].target /\ r.status = "idle"
  BY <1>3 DEF Rows
<1>5. row' = [row EXCEPT ![s] = r] /\ launches[i].broker = "ready" /\ Step(i, "serving")
      /\ UNCHANGED <<instance, current, standing, under, owner, client, faults>>
  BY <1>2 DEF Ready, Is, domain
<1> HIDE DEF r
<1>6. row' \in [Ids -> Rows] /\ row'[s] = r /\ \A t \in Ids : t # s => row'[t] = row[t]
  BY <1>1, <1>4, <1>5, RowSet
<1>7. "serving" \in Living /\ launches[i].broker \in Living
  BY <1>5 DEF Living
<1>8. PICK new \in LaunchRecords :
        /\ launches' = [launches EXCEPT ![i] = new]
        /\ new.id = launches[i].id /\ new.launcher = launches[i].launcher
        /\ new.broker = "serving" /\ new.pi = launches[i].pi
  BY <1>1, <1>5, <1>7, StepIs
<1>9. row[s].target /\ under[s] # 0 /\ faults' \in Nat
  BY <1>1, <1>2, <1>5 DEF SessionsInv, BrokersKnown, RowsKnown, Typed
<1> QED
  BY ZenonT(60), <1>2, <1>4, <1>5, <1>6, <1>7, <1>8, <1>9, DomainSame, BrokerMoves

LEMMA ReportKeeps ==
  ASSUME SessionsInv, NEW i \in DOMAIN launches, Report(i) PROVE SessionsInv'
<1>1. Typed /\ launches[i] \in LaunchRecords /\ launches[i].broker = "closing"
  BY LaunchTyped DEF SessionsInv, Report, Is
<1>2. PICK s \in Ids : s = launches[i].id
  BY <1>1, LaunchTyped
<1>3. PICK place \in {"reading", "gone"} :
        launches' = [launches EXCEPT ![i].pi = FALSE, ![i].broker = place]
  BY DEF Report
<1> DEFINE r == [row[s] EXCEPT !.status = "ended"]
           new == [launches[i] EXCEPT !.pi = FALSE, !.broker = place]
<1>4. row[s] \in Rows
  BY <1>1 DEF Typed
<1>5. r \in Rows /\ r.target = row[s].target /\ r.status = "ended"
  BY <1>4 DEF Rows
<1>6. /\ new \in LaunchRecords
      /\ new.id = launches[i].id /\ new.launcher = launches[i].launcher
      /\ new.broker = place /\ ~new.pi
  BY <1>1 DEF LaunchRecords, Living
<1>7. row' = [row EXCEPT ![s] = r] /\ launches' = [launches EXCEPT ![i] = new]
      /\ UNCHANGED <<instance, current, standing, under, owner, client, faults>>
  BY <1>2, <1>3 DEF Report, domain
<1> HIDE DEF r, new
<1>8. row' \in [Ids -> Rows] /\ row'[s] = r /\ \A t \in Ids : t # s => row'[t] = row[t]
  BY <1>1, <1>5, <1>7, RowSet
<1>9. row[s].target => under[s] # 0
  BY <1>2 DEF SessionsInv, RowsKnown
<1>10. faults' \in Nat /\ launches[i].broker \in Living
  BY <1>1, <1>7 DEF Typed, Living
<1> QED
  BY <1>1, <1>2, <1>5, <1>6, <1>7, <1>8, <1>9, <1>10, DomainSame, BrokerMoves

-----------------------------------------------------------------------------
\* Every step.

LEMMA ClientStepKeeps ==
  ASSUME SessionsInv, NEW c \in Clients, ClientStep(c) PROVE SessionsInv'
  BY LockKeeps, RefusedKeeps, SpawnKeeps, SaveKeeps, LaunchedKeeps, GiveUpKeeps,
     ReconcileKeeps, MarkFailedKeeps DEF ClientStep

LEMMA BrokerStepKeeps ==
  ASSUME SessionsInv, NEW i \in DOMAIN launches, BrokerStep(i) PROVE SessionsInv'
  BY StartPiKeeps, ObserveKeeps, AttachAgainKeeps, AttachRefusedKeeps, InstantiateKeeps,
     JoinKeeps, OpenSessionKeeps, RecordKeeps, ReadyKeeps, ReportKeeps, ReadRetainedKeeps,
     WriteBackKeeps DEF BrokerStep

LEMMA StutterKeeps == ASSUME SessionsInv, UNCHANGED vars PROVE SessionsInv'
  BY DEF SessionsInv, vars, domain, Typed, OneHolds, ClientsKnown, Apart, Bounded,
     OwnersKnown, BrokersKnown, RowsKnown, Unkilled, IdleHasBroker, DesignatedAlone

LEMMA StepInv == SessionsInv /\ [Next]_vars => SessionsInv'
<1> SUFFICES ASSUME SessionsInv, [Next]_vars PROVE SessionsInv'
  OBVIOUS
<1>1. ASSUME NEW c \in Clients,
             \/ ClientStep(c) \/ LaunchRaises(c) \/ LauncherDies(c)
             \/ \E s \in Ids : Create(c, s) \/ Reopen(c, s)
      PROVE SessionsInv'
  BY <1>1, ClientStepKeeps, LaunchRaisesKeeps, LauncherDiesKeeps, CreateKeeps, ReopenKeeps
<1>2. ASSUME NEW i \in DOMAIN launches,
             BrokerStep(i) \/ Close(i) \/ PiExits(i) \/ BrokerDies(i)
      PROVE SessionsInv'
  BY <1>2, BrokerStepKeeps, CloseKeeps, PiExitsKeeps, BrokerDiesKeeps
<1>3. CASE UNCHANGED vars
  BY <1>3, StutterKeeps
<1> QED
  BY <1>1, <1>2, <1>3 DEF Next

(* The lock, the launch, the row and the domain stay in step, whoever      *)
(* launches, reopens, gives up or is killed (noetic_sessions._launch,      *)
(* _broker_lock, reopen, and the broker's attach and end).                 *)
THEOREM AlwaysInOrder == Spec => []SessionsInv
<1>1. Init => SessionsInv
  BY InitInv
<1>2. SessionsInv /\ [Next]_vars => SessionsInv'
  BY StepInv
<1> QED
  BY <1>1, <1>2, PTL DEF Spec

LEMMA InOrderOneBroker == SessionsInv => OneBroker
<1> SUFFICES ASSUME SessionsInv PROVE OneBroker
  OBVIOUS
<1>1. Typed
  BY DEF SessionsInv
<1>2. \A i \in DOMAIN launches : Alive(i) => Holds(launches[i])
  BY <1>1, LivingIsAlive DEF Holds
<1> QED
  BY <1>2 DEF SessionsInv, OneHolds, OneBroker

(* "A broker already owns this session": a conversation has one running    *)
(* broker, whatever its launcher does while it holds the flock that the    *)
(* broker inherits (noetic_sessions.py, _launch and the broker's lock).    *)
THEOREM OneBrokerAlways == Spec => []OneBroker
<1>1. SessionsInv => OneBroker
  BY InOrderOneBroker
<1> QED
  BY <1>1, AlwaysInOrder, PTL

(* The open session of the position is the designated one of its current   *)
(* instantiation, through every attach, succession and late end            *)
(* (noetic_sessions.py, the broker's attach and write-back).               *)
THEOREM DesignatedAloneAlways == Spec => []DesignatedAlone
<1>1. SessionsInv => DesignatedAlone
  BY DEF SessionsInv
<1> QED
  BY <1>1, AlwaysInOrder, PTL

LEMMA InOrderTypes == SessionsInv => TypeOK
<1> SUFFICES ASSUME SessionsInv PROVE TypeOK
  OBVIOUS
<1>1. Typed /\ Bounded
  BY DEF SessionsInv
<1>2. Len(launches) \in Nat /\ DOMAIN launches = 1..Len(launches)
  BY <1>1 DEF Typed
<1>3. Len(launches) <= MaxLaunches
  <2>1. PICK n \in Nat : n = Cardinality({c \in Clients : client[c].at = "locking"})
    BY FS_Subset, FS_CardinalityType
  <2>2. Len(launches) + n <= MaxLaunches
    BY <1>1, <2>1 DEF Bounded
  <2> QED
    BY <1>2, <2>1, <2>2
<1>4. under \in [Ids -> 0..instance]
  BY <1>1 DEF Typed, Bounded
<1>5. owner \in [Ids -> 0..Len(launches)]
  <2>1. \A s \in Ids : owner[s] \in 0..Len(launches)
    BY <1>1, <1>2 DEF Typed, SessionsInv, OwnersKnown
  <2> QED
    BY <1>1, <2>1 DEF Typed
<1>6. ASSUME NEW c \in Clients PROVE client[c].launch \in 0..Len(launches)
  <2>1. client[c] \in ClientStates
    BY <1>1 DEF Typed
  <2>2. client[c].launch = 0 \/ client[c].launch \in DOMAIN launches
    BY <2>1 DEF SessionsInv, ClientsKnown, ClientStates
  <2> QED
    BY <1>2, <2>2
<1> QED
  BY <1>1, <1>3, <1>4, <1>5, <1>6 DEF Typed, TypeOK, Rows, Standings

LEMMA InOrderStandsTrue == SessionsInv => StandingIsTrue
<1> SUFFICES ASSUME SessionsInv PROVE StandingIsTrue
  OBVIOUS
<1>1. Typed /\ TypeOK
  BY InOrderTypes DEF SessionsInv
<1>2. \A i \in DOMAIN launches : Alive(i) <=> launches[i].broker \in Living
  BY <1>1, LivingIsAlive
<1>3. UnkilledIsClean
  <2> SUFFICES ASSUME faults = 0
               PROVE /\ OneActor
                     /\ \A c \in Clients : client[c].at = "marking" =>
                          ~Alive(client[c].launch) /\ ~launches[client[c].launch].pi
    BY DEF UnkilledIsClean
  <2>1. OneActor
    BY DEF SessionsInv, Unkilled, OneHolds, Holds, OneActor
  <2>2. ASSUME NEW c \in Clients, client[c].at = "marking"
        PROVE ~Alive(client[c].launch) /\ ~launches[client[c].launch].pi
    <3>1. client[c].launch \in DOMAIN launches
      BY <2>2 DEF SessionsInv, ClientsKnown, Launching
    <3> QED
      BY <1>2, <2>2, <3>1 DEF SessionsInv, Unkilled
  <2> QED
    BY <2>1, <2>2
<1>4. IdleIsTrue
  <2> SUFFICES ASSUME NEW s \in Ids, row[s].status = "idle"
               PROVE /\ row[s].target /\ under[s] # 0
                     /\ \/ faults > 0
                        \/ \E i \in DOMAIN launches : launches[i].id = s /\ Alive(i)
                        \/ \E c \in Clients : client[c].id = s /\ client[c].at = "marking"
    BY DEF IdleIsTrue
  <2>1. row[s].target /\ under[s] # 0
    BY DEF SessionsInv, RowsKnown
  <2>2. CASE faults = 0
    BY <1>2, <2>1, <2>2 DEF SessionsInv, IdleHasBroker
  <2>3. CASE faults > 0
    BY <2>1, <2>3
  <2> QED
    BY <1>1, <2>2, <2>3 DEF Typed
<1> QED
  BY <1>1, <1>3, <1>4 DEF StandingIsTrue

(* What the registry shows of a conversation is so: it is idle only with   *)
(* its target published; and, with nothing killed from outside, one Pi     *)
(* drives it, a failed launch has left nothing behind, and an idle row has *)
(* its broker (noetic_sessions.py, ready, report and mark_failed).         *)
THEOREM StandingAlwaysTrue == Spec => []StandingIsTrue
<1>1. SessionsInv => StandingIsTrue
  BY InOrderStandsTrue
<1> QED
  BY <1>1, AlwaysInOrder, PTL

-----------------------------------------------------------------------------
\* The seat of a position.

Early == {"unborn", "starting", "observing", "attaching", "opening"}

\* A conversation without a published target is launched once, and has not sat
\* before that launch opens its session.
Newcomer(s) ==
  /\ row[s].status = "absent" =>
       /\ under[s] = 0 /\ \A i \in DOMAIN launches : launches[i].id # s
       /\ \A c \in Clients : client[c].at = "locking" => client[c].id # s
  /\ \A c \in Clients : client[c].at = "locking" /\ client[c].id = s =>
       /\ under[s] = 0 /\ \A i \in DOMAIN launches : launches[i].id # s
       /\ \A d \in Clients : client[d].at = "locking" /\ client[d].id = s => d = c
  /\ \A i \in DOMAIN launches : launches[i].id = s =>
       /\ launches[i].broker \in Early => under[s] = 0
       /\ \A j \in DOMAIN launches : launches[j].id = s => j = i

Newcomers == \A s \in Ids : ~row[s].target => Newcomer(s)

\* Only a newcomer's session is being opened.
Opening == {"opening", "recording"}

Openers ==
  \A i \in DOMAIN launches :
    launches[i].broker \in Opening => ~row[launches[i].id].target

SeatKnown == Newcomers /\ Openers

\* Nothing that a newcomer is judged by has changed to its disadvantage.
LaunchesAge ==
  /\ DOMAIN launches' = DOMAIN launches
  /\ \A i \in DOMAIN launches :
       /\ launches'[i].id = launches[i].id
       /\ launches'[i].broker \in Early => launches[i].broker \in Early
       /\ launches'[i].broker \in Opening =>
            launches[i].broker \in Opening \/ ~row[launches[i].id].target

RowsAge ==
  \A s \in Ids :
    /\ row[s].target => row'[s].target
    /\ row'[s].status = "absent" => row[s].status = "absent"
    /\ row'[s].target => \/ row[s].target
                         \/ \A i \in DOMAIN launches :
                              launches[i].id = s => launches'[i].broker \notin Opening

NoneLocks ==
  \A c \in Clients :
    client'[c].at = "locking" => client[c].at = "locking" /\ client'[c].id = client[c].id

LEMMA NewcomersStay ==
  ASSUME SessionsInv, SeatKnown, LaunchesAge, RowsAge, NoneLocks, UNCHANGED under
  PROVE  SeatKnown'
<1>6. Openers'
  <2> SUFFICES ASSUME NEW i \in DOMAIN launches, launches'[i].broker \in Opening,
                      row'[launches[i].id].target
               PROVE FALSE
    BY DEF Openers, LaunchesAge
  <2>1. launches[i].id \in Ids BY LaunchTyped DEF SessionsInv
  <2>2. row[launches[i].id].target BY <2>1 DEF RowsAge
  <2>3. launches[i].broker \in Opening BY <2>2 DEF LaunchesAge
  <2> QED BY <2>2, <2>3 DEF SeatKnown, Openers
<1> SUFFICES ASSUME NEW s \in Ids, ~row'[s].target PROVE Newcomer(s)'
  BY <1>6 DEF SeatKnown, Newcomers
<1>1. ~row[s].target /\ (row'[s].status = "absent" => row[s].status = "absent")
  BY DEF RowsAge
<1>2. Newcomer(s) BY <1>1 DEF SeatKnown, Newcomers
<1>3. row'[s].status = "absent" =>
        /\ under'[s] = 0 /\ \A i \in DOMAIN launches' : launches'[i].id # s
        /\ \A c \in Clients : client'[c].at = "locking" => client'[c].id # s
  BY <1>1, <1>2 DEF LaunchesAge, NoneLocks, Newcomer
<1>4. \A c \in Clients : client'[c].at = "locking" /\ client'[c].id = s =>
        /\ under'[s] = 0 /\ \A i \in DOMAIN launches' : launches'[i].id # s
        /\ \A d \in Clients : client'[d].at = "locking" /\ client'[d].id = s => d = c
  BY <1>2 DEF LaunchesAge, NoneLocks, Newcomer
<1>5. \A i \in DOMAIN launches' : launches'[i].id = s =>
        /\ launches'[i].broker \in Early => under'[s] = 0
        /\ \A j \in DOMAIN launches' : launches'[j].id = s => j = i
  BY <1>2 DEF LaunchesAge, Newcomer
<1> QED BY <1>3, <1>4, <1>5 DEF Newcomer

\* What a step leaves of the launches: whether each broker runs.
BrokersStand ==
  /\ DOMAIN launches' = DOMAIN launches
  /\ \A i \in DOMAIN launches :
       /\ launches'[i].id = launches[i].id
       /\ launches'[i].broker \in {"unborn", "gone"} <=>
            launches[i].broker \in {"unborn", "gone"}

LEMMA RunningStays == ASSUME BrokersStand PROVE Running' = Running
<1>1. \A s \in Ids : {i \in DOMAIN launches' : launches'[i].id = s
                                               /\ launches'[i].broker \notin {"unborn", "gone"}}
                     = {i \in DOMAIN launches : launches[i].id = s
                                               /\ launches[i].broker \notin {"unborn", "gone"}}
  BY DEF BrokersStand
<1> QED BY <1>1 DEF Running, Alive

\* While a broker runs, it is the only one of its conversation.
LEMMA RunsAlone ==
  ASSUME SessionsInv, NEW i \in DOMAIN launches, Alive(i)
  PROVE  Running[launches[i].id] = {i} /\ launches[i].id \in Ids
<1>1. launches[i].id \in Ids BY LaunchTyped DEF SessionsInv
<1>2. \A j \in DOMAIN launches : launches[j].id = launches[i].id /\ Alive(j) => j = i
  BY InOrderOneBroker DEF OneBroker
<1>3. {j \in DOMAIN launches : launches[j].id = launches[i].id /\ Alive(j)} = {i} BY <1>2
<1> QED BY <1>1, <1>3 DEF Running

\* A broker that ends leaves its conversation without one.
LEMMA RunningEnds ==
  ASSUME SessionsInv, NEW i \in DOMAIN launches, Alive(i),
         DOMAIN launches' = DOMAIN launches,
         \A j \in DOMAIN launches : launches'[j].id = launches[j].id,
         \A j \in DOMAIN launches : j # i => launches'[j].broker = launches[j].broker,
         launches'[i].broker = "gone"
  PROVE  Running' = [Running EXCEPT ![launches[i].id] = {}]
<1> DEFINE s == launches[i].id
<1>1. Running[s] = {i} /\ s \in Ids BY RunsAlone
<1>2. ASSUME NEW t \in Ids
      PROVE  {j \in DOMAIN launches' : launches'[j].id = t
                                       /\ launches'[j].broker \notin {"unborn", "gone"}}
             = IF t = s THEN {} ELSE Running[t]
  <2>1. Running[t] = {j \in DOMAIN launches : launches[j].id = t
                                       /\ launches[j].broker \notin {"unborn", "gone"}}
    BY DEF Running, Alive
  <2>2. CASE t = s BY <1>1, <2>1, <2>2
  <2>3. CASE t # s BY <2>1, <2>3
  <2> QED BY <2>2, <2>3
<1>3. Running' = [t \in Ids |-> {j \in DOMAIN launches' : launches'[j].id = t
                                       /\ launches'[j].broker \notin {"unborn", "gone"}}]
  BY DEF Running, Alive
<1>4. DOMAIN Running = Ids BY DEF Running
<1> HIDE DEF s
<1>5. Running' = [t \in Ids |-> IF t = s THEN {} ELSE Running[t]] BY <1>2, <1>3
<1> QED BY <1>4, <1>5 DEF s

LEMMA RunningStarts ==
  ASSUME SessionsInv, NEW i \in DOMAIN launches, NEW s \in Ids, s = launches[i].id,
         launches[i].broker = "unborn", launches[i].launcher,
         DOMAIN launches' = DOMAIN launches,
         \A j \in DOMAIN launches : launches'[j].id = launches[j].id,
         \A j \in DOMAIN launches : j # i => launches'[j].broker = launches[j].broker,
         launches'[i].broker = "starting"
  PROVE  Running[s] = {} /\ Running' = [Running EXCEPT ![s] = {i}]
<1>1. \A j \in DOMAIN launches : launches[j].id = s
         /\ launches[j].broker \notin {"unborn", "gone"} => FALSE
  <2> SUFFICES ASSUME NEW j \in DOMAIN launches, launches[j].id = s,
                      launches[j].broker \notin {"unborn", "gone"}
               PROVE FALSE
    OBVIOUS
  <2>1. Holds(launches[j])
    BY LivingIsAlive DEF SessionsInv, Holds, Alive
  <2>2. Holds(launches[i]) BY DEF Holds
  <2> QED BY <2>1, <2>2 DEF SessionsInv, OneHolds
<1>2. \A t \in Ids : Running[t] = {j \in DOMAIN launches : launches[j].id = t
                                      /\ launches[j].broker \notin {"unborn", "gone"}}
  BY DEF Running, Alive
<1>3. Running[s] = {} BY <1>1, <1>2
<1>4. ASSUME NEW t \in Ids
      PROVE  {j \in DOMAIN launches' : launches'[j].id = t
                                       /\ launches'[j].broker \notin {"unborn", "gone"}}
             = IF t = s THEN {i} ELSE Running[t]
  <2>1. CASE t = s BY <1>1, <2>1
  <2>2. CASE t # s BY <1>2, <2>2
  <2> QED BY <2>1, <2>2
<1>5. Running' = [t \in Ids |-> {j \in DOMAIN launches' : launches'[j].id = t
                                       /\ launches'[j].broker \notin {"unborn", "gone"}}]
  BY DEF Running, Alive
<1>6. DOMAIN Running = Ids BY DEF Running
<1>7. Running' = [t \in Ids |-> IF t = s THEN {i} ELSE Running[t]] BY <1>4, <1>5
<1> QED BY <1>3, <1>6, <1>7

\* What a step is for the position.
SeatStep == Seat!Next \/ UNCHANGED <<Running, instance, under, current>>

LEMMA SeatRests ==
  ASSUME BrokersStand, UNCHANGED <<instance, under, current>>
  PROVE  SeatStep
BY RunningStays DEF SeatStep

LEMMA LaunchesSame ==
  ASSUME UNCHANGED launches
  PROVE  BrokersStand /\ LaunchesAge
BY DEF BrokersStand, LaunchesAge

LEMMA ClientNotLocking ==
  ASSUME SessionsInv, NEW c \in Clients, NEW new, client' = [client EXCEPT ![c] = new],
         new.at # "locking"
  PROVE  NoneLocks
BY DEF NoneLocks, SessionsInv, Typed

LEMMA ClientGoesOn ==
  ASSUME SessionsInv, NEW c \in Clients, NEW place, place # "locking", Goes(c, place)
  PROVE  NoneLocks
<1>1. client' = [client EXCEPT ![c] = [client[c] EXCEPT !.at = place]] BY DEF Goes
<1>2. [client[c] EXCEPT !.at = place].at = place
  BY DEF SessionsInv, Typed, ClientStates
<1> QED BY <1>1, <1>2, ClientNotLocking

LEMMA ClientIsFree ==
  ASSUME SessionsInv, NEW c \in Clients, Leaves(c)
  PROVE  NoneLocks
<1>1. Waiting.at # "locking" BY WaitingTyped
<1> QED BY <1>1, ClientNotLocking DEF Leaves

LEMMA RowsSameAge == ASSUME UNCHANGED row PROVE RowsAge
  BY DEF RowsAge

LEMMA ReleasedMoves ==
  ASSUME SessionsInv, NEW i \in DOMAIN launches,
         launches' = [launches EXCEPT ![i].launcher = FALSE]
  PROVE  BrokersStand /\ LaunchesAge
<1>1. launches[i] \in LaunchRecords BY LaunchTyped DEF SessionsInv
<1>2. PICK new : new = [launches[i] EXCEPT !.launcher = FALSE] OBVIOUS
<1>3. new.id = launches[i].id /\ new.broker = launches[i].broker
  BY <1>1, <1>2 DEF LaunchRecords
<1>4. launches' = [launches EXCEPT ![i] = new] BY <1>2
<1>5. DOMAIN launches' = DOMAIN launches /\ launches'[i] = new
      /\ \A j \in DOMAIN launches : j # i => launches'[j] = launches[j]
  BY <1>4
<1>6. \A j \in DOMAIN launches : launches'[j].id = launches[j].id
                                 /\ launches'[j].broker = launches[j].broker
  BY <1>3, <1>5
<1> QED BY <1>5, <1>6 DEF BrokersStand, LaunchesAge

\* What clients do but lock, spawn and reconcile.
LEMMA ClientSeat ==
  ASSUME SessionsInv, SeatKnown, NEW c \in Clients,
         \/ Refused(c) \/ Save(c) \/ LaunchRaises(c) \/ Launched(c) \/ GiveUp(c)
         \/ MarkFailed(c) \/ LauncherDies(c)
  PROVE  SeatKnown' /\ SeatStep
<1>1. CASE Refused(c)
  <2>1. NoneLocks /\ UNCHANGED <<row, launches, instance, under, current>>
    BY <1>1, ClientIsFree DEF Refused, domain
  <2> QED BY <2>1, LaunchesSame, RowsSameAge, NewcomersStay, SeatRests
<1>2. CASE Save(c)
  <2>1. NoneLocks /\ UNCHANGED <<row, launches, instance, under, current>>
    BY <1>2, ClientGoesOn DEF Save, domain
  <2> QED BY <2>1, LaunchesSame, RowsSameAge, NewcomersStay, SeatRests
<1>3. CASE LaunchRaises(c)
  <2>1. NoneLocks /\ UNCHANGED <<row, launches, instance, under, current>>
    BY <1>3, ClientGoesOn DEF LaunchRaises, domain
  <2> QED BY <2>1, LaunchesSame, RowsSameAge, NewcomersStay, SeatRests
<1>4. CASE GiveUp(c)
  <2>1. NoneLocks /\ UNCHANGED <<row, launches, instance, under, current>>
    BY <1>4, ClientGoesOn DEF GiveUp, domain
  <2> QED BY <2>1, LaunchesSame, RowsSameAge, NewcomersStay, SeatRests
<1>5. CASE Launched(c)
  <2>1. NoneLocks /\ UNCHANGED <<row, instance, under, current>>
    BY <1>5, ClientIsFree DEF Launched, domain
  <2>2. client[c].launch \in DOMAIN launches
    BY <1>5 DEF Launched, At, SessionsInv, ClientsKnown, Launching
  <2>3. BrokersStand /\ LaunchesAge BY <1>5, <2>2, ReleasedMoves DEF Launched, Released
  <2> QED BY <2>1, <2>3, RowsSameAge, NewcomersStay, SeatRests
<1>6. CASE MarkFailed(c)
  <2>1. NoneLocks /\ UNCHANGED <<instance, under, current>>
    BY <1>6, ClientIsFree DEF MarkFailed, domain
  <2>2. client[c].launch \in DOMAIN launches
    BY <1>6 DEF MarkFailed, At, SessionsInv, ClientsKnown, Launching
  <2>3. BrokersStand /\ LaunchesAge BY <1>6, <2>2, ReleasedMoves DEF MarkFailed, Released
  <2>4. RowsAge BY <1>6 DEF MarkFailed, RowsAge, SessionsInv, Typed, Rows
  <2> QED BY <2>1, <2>3, <2>4, NewcomersStay, SeatRests
<1>7. CASE LauncherDies(c)
  <2>1. NoneLocks /\ UNCHANGED <<row, instance, under, current>>
    BY <1>7, ClientIsFree DEF LauncherDies, domain
  <2>2. BrokersStand /\ LaunchesAge
    <3>1. CASE client[c].launch = 0
      BY <1>7, <3>1, LaunchesSame DEF LauncherDies
    <3>2. CASE client[c].launch # 0
      <4>1. client[c].at \in Launching
        BY <1>7, <3>2 DEF LauncherDies, At, SessionsInv, Typed, ClientStates, ClientsKnown
      <4>2. client[c].launch \in DOMAIN launches
        BY <4>1 DEF SessionsInv, ClientsKnown
      <4> QED BY <1>7, <3>2, <4>2, ReleasedMoves DEF LauncherDies
    <3> QED BY <3>1, <3>2
  <2> QED BY <2>1, <2>2, RowsSameAge, NewcomersStay, SeatRests
<1> QED BY <1>1, <1>2, <1>3, <1>4, <1>5, <1>6, <1>7

\* A conversation that was never launched is created.
LEMMA CreateSeat ==
  ASSUME SessionsInv, SeatKnown, NEW c \in Clients, NEW s \in Ids, Create(c, s)
  PROVE  SeatKnown' /\ SeatStep
<1>1. /\ row[s].status = "absent" /\ client[c].at = "idle"
      /\ client' = [client EXCEPT ![c] = [at |-> "locking", id |-> s, launch |-> 0]]
      /\ UNCHANGED <<launches, instance, under, current>>
  BY DEF Create, At, domain
<1>2. PICK p : row' = [row EXCEPT ![s].status = "created", ![s].predecessor = p]
  BY DEF Create
<1>3. /\ \A t \in Ids : row'[t].target = row[t].target
      /\ \A t \in Ids : row'[t].status = "absent" => t # s /\ row[t].status = "absent"
  BY <1>2 DEF SessionsInv, Typed, Rows
<1>4. client'[c].at = "locking" /\ client'[c].id = s
      /\ \A d \in Clients : d # c => client'[d] = client[d]
  BY <1>1 DEF SessionsInv, Typed
<1>5. Newcomers'
  <2> SUFFICES ASSUME NEW t \in Ids, ~row'[t].target PROVE Newcomer(t)'
    BY DEF Newcomers
  <2>1. Newcomer(t) BY <1>3 DEF SeatKnown, Newcomers
  <2>2. CASE t = s BY <1>1, <1>3, <1>4, <2>1, <2>2 DEF Newcomer
  <2>3. CASE t # s BY <1>1, <1>3, <1>4, <2>1, <2>3 DEF Newcomer
  <2> QED BY <2>2, <2>3
<1>6. Openers'
  BY <1>1, <1>3, LaunchTyped DEF SeatKnown, Openers, SessionsInv
<1> QED BY <1>1, <1>5, <1>6, LaunchesSame, SeatRests DEF SeatKnown

\* A conversation that is reopened is none that never sat.
LEMMA ReopenSeat ==
  ASSUME SessionsInv, SeatKnown, NEW c \in Clients, NEW s \in Ids, Reopen(c, s)
  PROVE  SeatKnown' /\ SeatStep
<1>1. /\ row[s].target /\ client[c].at = "idle"
      /\ client' = [client EXCEPT ![c] = [at |-> "locking", id |-> s, launch |-> 0]]
      /\ UNCHANGED <<row, launches, instance, under, current>>
  BY DEF Reopen, Reopenable, At, domain
<1>2. client'[c].id = s /\ \A d \in Clients : d # c => client'[d] = client[d]
  BY <1>1 DEF SessionsInv, Typed
<1>3. Newcomers'
  <2> SUFFICES ASSUME NEW t \in Ids, ~row'[t].target PROVE Newcomer(t)'
    BY DEF Newcomers
  <2>1. t # s /\ Newcomer(t) BY <1>1 DEF SeatKnown, Newcomers
  <2> QED BY <1>1, <1>2, <2>1 DEF Newcomer
<1>4. Openers' BY <1>1 DEF SeatKnown, Openers
<1> QED BY <1>1, <1>3, <1>4, LaunchesSame, SeatRests DEF SeatKnown

LEMMA LockSeat ==
  ASSUME SessionsInv, SeatKnown, NEW c \in Clients, Lock(c)
  PROVE  SeatKnown' /\ SeatStep
<1> DEFINE s == client[c].id
           n == Len(launches) + 1
           launch == [id |-> s, launcher |-> TRUE, broker |-> "unborn", pi |-> FALSE,
                      retained |-> "none"]
           new == [at |-> "spawning", id |-> s, launch |-> n]
<1>1. /\ client[c].at = "locking" /\ s \in Ids /\ launches \in Seq(LaunchRecords)
      /\ launches' = Append(launches, launch) /\ client' = [client EXCEPT ![c] = new]
      /\ row' = [row EXCEPT ![s].status = "starting"]
      /\ UNCHANGED <<instance, under, current>>
  BY DEF Lock, At, domain, SessionsInv, Typed, ClientsKnown
<1>2. new.at = "spawning" /\ launch.id = s /\ launch.broker = "unborn" OBVIOUS
<1> HIDE DEF launch, new
<1>3. /\ DOMAIN launches' = DOMAIN launches \union {n} /\ n \notin DOMAIN launches
      /\ launches'[n] = launch /\ \A i \in DOMAIN launches : launches'[i] = launches[i]
  BY <1>1
<1> HIDE DEF n
<1>4. NoneLocks /\ client'[c].at # "locking"
      /\ \A d \in Clients : d # c => client'[d] = client[d]
  BY <1>1, <1>2, ClientNotLocking DEF SessionsInv, Typed
<1>5. /\ \A t \in Ids : row'[t].target = row[t].target
      /\ \A t \in Ids : row'[t].status = "absent" => t # s /\ row[t].status = "absent"
  BY <1>1 DEF SessionsInv, Typed, Rows
<1> HIDE DEF s
<1>6. Newcomers'
  <2> SUFFICES ASSUME NEW t \in Ids, ~row'[t].target PROVE Newcomer(t)'
    BY DEF Newcomers
  <2>1. Newcomer(t) BY <1>5 DEF SeatKnown, Newcomers
  <2>2. CASE t = s
    <3>1. /\ under[s] = 0 /\ \A i \in DOMAIN launches : launches[i].id # s
          /\ \A d \in Clients : client[d].at = "locking" /\ client[d].id = s => d = c
      BY <1>1, <2>1, <2>2 DEF Newcomer, s
    <3>2. \A d \in Clients : client'[d].at = "locking" => client'[d].id # s
      BY <1>4, <3>1 DEF NoneLocks
    <3>3. \A i \in DOMAIN launches' : launches'[i].id = s => i = n
      BY <1>3, <3>1
    <3> QED BY <1>1, <1>5, <2>2, <3>1, <3>2, <3>3 DEF Newcomer
  <2>3. CASE t # s
    <3>1. \A i \in DOMAIN launches' : launches'[i].id = t =>
            i \in DOMAIN launches /\ launches'[i] = launches[i]
      BY <1>2, <1>3, <2>3
    <3>2. \A d \in Clients : client'[d].at = "locking" =>
            client[d].at = "locking" /\ client'[d].id = client[d].id
      BY <1>4 DEF NoneLocks
    <3> QED BY <1>1, <1>5, <2>1, <3>1, <3>2 DEF Newcomer
  <2> QED BY <2>2, <2>3
<1>7. Running' = Running
  <2>1. \A t \in Ids :
          {i \in DOMAIN launches' : launches'[i].id = t
                                    /\ launches'[i].broker \notin {"unborn", "gone"}}
          = {i \in DOMAIN launches : launches[i].id = t
                                    /\ launches[i].broker \notin {"unborn", "gone"}}
    BY <1>2, <1>3
  <2> QED BY <2>1 DEF Running, Alive
<1>8. Openers'
  <2> SUFFICES ASSUME NEW i \in DOMAIN launches', launches'[i].broker \in Opening
               PROVE ~row'[launches'[i].id].target
    BY DEF Openers
  <2>1. i \in DOMAIN launches /\ launches'[i] = launches[i] BY <1>2, <1>3 DEF Opening
  <2>2. launches[i].id \in Ids BY <2>1, LaunchTyped DEF SessionsInv
  <2> QED BY <1>5, <2>1, <2>2 DEF SeatKnown, Openers
<1> QED BY <1>1, <1>6, <1>7, <1>8 DEF SeatKnown, SeatStep

\* A place set in the record of a launch.
LEMMA PlaceSet ==
  ASSUME SessionsInv, NEW i \in DOMAIN launches, NEW place,
         launches' = [launches EXCEPT ![i].broker = place]
  PROVE  /\ DOMAIN launches' = DOMAIN launches
         /\ \A j \in DOMAIN launches : launches'[j].id = launches[j].id
         /\ \A j \in DOMAIN launches : j # i => launches'[j] = launches[j]
         /\ launches'[i].broker = place
<1>1. launches[i] \in LaunchRecords BY LaunchTyped DEF SessionsInv
<1>2. PICK new : new = [launches[i] EXCEPT !.broker = place] OBVIOUS
<1>3. new.id = launches[i].id /\ new.broker = place BY <1>1, <1>2 DEF LaunchRecords
<1>4. launches' = [launches EXCEPT ![i] = new] BY <1>2
<1> QED BY <1>3, <1>4

LEMMA SpawnSeat ==
  ASSUME SessionsInv, SeatKnown, NEW c \in Clients, Spawn(c)
  PROVE  SeatKnown' /\ SeatStep
<1> DEFINE i == client[c].launch
           s == client[c].id
<1>1. /\ i \in DOMAIN launches /\ s \in Ids /\ s = launches[i].id
      /\ launches[i].broker = "unborn" /\ launches[i].launcher
  BY DEF Spawn, At, SessionsInv, ClientsKnown, Launching
<1>2. /\ launches' = [launches EXCEPT ![i].broker = "starting"]
      /\ Goes(c, "saving") /\ UNCHANGED <<row, instance, under, current>>
  BY DEF Spawn, domain
<1> HIDE DEF i, s
<1>3. /\ DOMAIN launches' = DOMAIN launches
      /\ \A j \in DOMAIN launches : launches'[j].id = launches[j].id
      /\ \A j \in DOMAIN launches : j # i => launches'[j] = launches[j]
      /\ launches'[i].broker = "starting"
  BY <1>1, <1>2, PlaceSet
<1>4. LaunchesAge BY <1>1, <1>3 DEF LaunchesAge, Early, Opening
<1>5. NoneLocks BY <1>2, ClientGoesOn
<1>6. Running[s] = {} /\ Running' = [Running EXCEPT ![s] = {i}]
  BY <1>1, <1>3, RunningStarts
<1>7. i \in 1..MaxLaunches
  <2>1. Len(launches) \in Nat /\ DOMAIN launches = 1..Len(launches)
    BY DEF SessionsInv, Typed
  <2>2. Cardinality({d \in Clients : client[d].at = "locking"}) \in Nat
    <3>1. IsFiniteSet({d \in Clients : client[d].at = "locking"}) BY FS_Subset
    <3> QED BY <3>1, FS_CardinalityType
  <2>3. Len(launches) + Cardinality({d \in Clients : client[d].at = "locking"}) <= MaxLaunches
    BY DEF SessionsInv, Bounded
  <2> QED BY <1>1, <2>1, <2>2, <2>3
<1>8. Seat!Start(s, i) BY <1>2, <1>6 DEF Seat!Start
<1>9. Seat!Next BY <1>1, <1>7, <1>8 DEF Seat!Next
<1> QED BY <1>2, <1>4, <1>5, <1>9, RowsSameAge, NewcomersStay DEF SeatStep

\* The end of a broker, of which the seat may be left.
LEMMA EndSeat ==
  ASSUME SessionsInv, NEW i \in DOMAIN launches, Alive(i),
         DOMAIN launches' = DOMAIN launches,
         \A j \in DOMAIN launches : launches'[j].id = launches[j].id,
         \A j \in DOMAIN launches : j # i => launches'[j].broker = launches[j].broker,
         launches'[i].broker = "gone",
         current' \in IF current = launches[i].id THEN {launches[i].id, NoId} ELSE {current},
         UNCHANGED <<instance, under>>
  PROVE  LaunchesAge /\ SeatStep
<1>1. LaunchesAge BY DEF LaunchesAge, Early, Opening
<1>2. Running' = [Running EXCEPT ![launches[i].id] = {}] BY RunningEnds
<1>3. Running[launches[i].id] # {} /\ launches[i].id \in Ids BY RunsAlone
<1>4. Seat!End(launches[i].id) BY <1>2, <1>3 DEF Seat!End
<1> QED BY <1>1, <1>3, <1>4 DEF SeatStep, Seat!Next

LEMMA ReconcileSeat ==
  ASSUME SessionsInv, SeatKnown, NEW c \in Clients, Reconcile(c)
  PROVE  SeatKnown' /\ SeatStep
<1> DEFINE s == client[c].id
           i == owner[s]
<1>1. Goes(c, "marking") /\ UNCHANGED <<row, instance, under, current>>
  BY DEF Reconcile, domain
<1>2. NoneLocks BY <1>1, ClientGoesOn
<1>3. s \in Ids /\ (i # 0 => i \in DOMAIN launches)
  BY DEF Reconcile, At, SessionsInv, ClientsKnown, OwnersKnown
<1>4. CASE Owned(s)
  <2>1. i \in DOMAIN launches /\ Alive(i) BY <1>3, <1>4 DEF Owned
  <2>2. launches' = [launches EXCEPT ![i].broker = "gone", ![i].pi = FALSE]
    BY <1>4 DEF Reconcile
  <2>3. launches[i] \in LaunchRecords BY <2>1, LaunchTyped DEF SessionsInv
  <2> HIDE DEF s, i
  <2>4. PICK new : new = [launches[i] EXCEPT !.broker = "gone", !.pi = FALSE] OBVIOUS
  <2>5. new.id = launches[i].id /\ new.broker = "gone" BY <2>3, <2>4 DEF LaunchRecords
  <2>6. launches' = [launches EXCEPT ![i] = new] BY <2>2, <2>4
  <2>7. /\ DOMAIN launches' = DOMAIN launches /\ launches'[i].broker = "gone"
        /\ \A j \in DOMAIN launches : launches'[j].id = launches[j].id
        /\ \A j \in DOMAIN launches : j # i => launches'[j].broker = launches[j].broker
    BY <2>1, <2>5, <2>6
  <2>8. LaunchesAge /\ SeatStep BY <1>1, <2>1, <2>7, EndSeat
  <2> QED BY <1>1, <1>2, <2>8, RowsSameAge, NewcomersStay
<1>5. CASE ~Owned(s)
  <2>1. UNCHANGED launches BY <1>5 DEF Reconcile
  <2> QED BY <1>1, <1>2, <2>1, LaunchesSame, RowsSameAge, NewcomersStay, SeatRests
<1> QED BY <1>4, <1>5

-----------------------------------------------------------------------------
\* The steps of brokers.

LEMMA ClientsSame == ASSUME UNCHANGED client PROVE NoneLocks
  BY DEF NoneLocks

\* A running broker goes to another place where it runs.
LEMMA GoesOnSeat ==
  ASSUME SessionsInv, NEW i \in DOMAIN launches, NEW place \in Living,
         launches[i].broker \in Living,
         place \in Early => launches[i].broker \in Early,
         place \in Opening => ~row[launches[i].id].target,
         DOMAIN launches' = DOMAIN launches,
         \A j \in DOMAIN launches : launches'[j].id = launches[j].id,
         \A j \in DOMAIN launches : j # i => launches'[j] = launches[j],
         launches'[i].broker = place
  PROVE  LaunchesAge /\ BrokersStand
<1>1. place \notin {"unborn", "gone"} /\ launches[i].broker \notin {"unborn", "gone"}
  BY DEF Living
<1> QED BY <1>1 DEF LaunchesAge, BrokersStand

\* With the Pi process it hosts.
LEMMA PlaceAndPiSet ==
  ASSUME SessionsInv, NEW i \in DOMAIN launches, NEW place, NEW pi,
         launches' = [launches EXCEPT ![i].broker = place, ![i].pi = pi]
  PROVE  /\ DOMAIN launches' = DOMAIN launches
         /\ \A j \in DOMAIN launches : launches'[j].id = launches[j].id
         /\ \A j \in DOMAIN launches : j # i => launches'[j] = launches[j]
         /\ launches'[i].broker = place
<1>1. launches[i] \in LaunchRecords BY LaunchTyped DEF SessionsInv
<1>2. PICK new : new = [launches[i] EXCEPT !.broker = place, !.pi = pi] OBVIOUS
<1>3. new.id = launches[i].id /\ new.broker = place BY <1>1, <1>2 DEF LaunchRecords
<1>4. launches' = [launches EXCEPT ![i] = new] BY <1>2
<1> QED BY <1>3, <1>4

\* What brokers do without the domain.
LEMMA BrokerSeat ==
  ASSUME SessionsInv, SeatKnown, NEW i \in DOMAIN launches,
         \/ StartPi(i) \/ Observe(i) \/ AttachRefused(i) \/ Join(i) \/ Close(i)
         \/ Ready(i) \/ ReadRetained(i) \/ PiExits(i)
  PROVE  SeatKnown' /\ SeatStep
<1>1. UNCHANGED <<client, instance, under, current>> /\ NoneLocks
  BY ClientsSame DEF StartPi, Observe, AttachRefused, Join, Close, Ready, ReadRetained, PiExits,
     domain
<1>2. RowsAge
  <2>1. CASE Ready(i)
    BY <2>1 DEF Ready, RowsAge, SessionsInv, Typed, Rows
  <2>2. CASE ~Ready(i)
    BY <2>2, RowsSameAge DEF StartPi, Observe, AttachRefused, Join, Close, ReadRetained, PiExits
  <2> QED BY <2>1, <2>2
<1>3. LaunchesAge /\ BrokersStand
  <2>1. CASE StartPi(i)
    <3>1. launches[i].broker = "starting"
          /\ launches' = [launches EXCEPT ![i].broker = "observing", ![i].pi = TRUE]
      BY <2>1 DEF StartPi, Is
    <3>2. launches[i].broker \in Living /\ "observing" \in Living
          /\ launches[i].broker \in Early /\ "observing" \notin Opening
      BY <3>1 DEF Living, Early, Opening
    <3>3. /\ DOMAIN launches' = DOMAIN launches
          /\ \A j \in DOMAIN launches : launches'[j].id = launches[j].id
          /\ \A j \in DOMAIN launches : j # i => launches'[j] = launches[j]
          /\ launches'[i].broker = "observing"
      BY <3>1, PlaceAndPiSet
    <3> QED BY <3>2, <3>3, GoesOnSeat
  <2>2. ASSUME NEW place \in Living, Step(i, place), launches[i].broker \in Living,
               place \in Early => launches[i].broker \in Early,
               place \in Opening => ~row[launches[i].id].target
        PROVE  LaunchesAge /\ BrokersStand
    BY <2>2, PlaceSet, GoesOnSeat DEF Step
  <2>3. CASE Observe(i)
    <3>1. PICK place \in {"attaching", "closing"} : Step(i, place)
      BY <2>3 DEF Observe
    <3>2. launches[i].broker \in Living /\ launches[i].broker \in Early /\ place \in Living
          /\ place \notin Opening
      BY <2>3 DEF Observe, Is, Living, Early, Opening
    <3> QED BY <2>2, <3>1, <3>2
  <2>4. CASE AttachRefused(i)
    <3>1. Step(i, "closing") /\ launches[i].broker \in Living /\ "closing" \in Living
          /\ "closing" \notin Early /\ "closing" \notin Opening
      BY <2>4 DEF AttachRefused, Is, Living, Early, Opening
    <3> QED BY <2>2, <3>1
  <2>5. CASE Join(i)
    <3>1. Step(i, "opening") /\ launches[i].broker \in Living /\ "opening" \in Living
          /\ launches[i].broker \in Early /\ ~row[launches[i].id].target
      BY <2>5 DEF Join, Is, Living, Early
    <3> QED BY <2>2, <3>1
  <2>6. CASE Close(i)
    <3>1. Step(i, "closing") /\ launches[i].broker \in Living /\ "closing" \in Living
          /\ "closing" \notin Early /\ "closing" \notin Opening
      BY <2>6 DEF Close, Is, Living, Early, Opening
    <3> QED BY <2>2, <3>1
  <2>7. CASE Ready(i)
    <3>1. Step(i, "serving") /\ launches[i].broker \in Living /\ "serving" \in Living
          /\ "serving" \notin Early /\ "serving" \notin Opening
      BY <2>7 DEF Ready, Is, Living, Early, Opening
    <3> QED BY <2>2, <3>1
  <2>8. CASE ReadRetained(i)
    <3>1. launches[i].broker \in Living /\ "writing" \in Living /\ "writing" \notin Early
          /\ "writing" \notin Opening
      BY <2>8 DEF ReadRetained, Is, Living, Early, Opening
    <3>2. PICK new : new = [launches[i] EXCEPT !.retained = standing[launches[i].id],
                                              !.broker = "writing"]
      OBVIOUS
    <3>3. launches[i] \in LaunchRecords BY LaunchTyped DEF SessionsInv
    <3>4. new.id = launches[i].id /\ new.broker = "writing"
      BY <3>2, <3>3 DEF LaunchRecords
    <3>5. launches' = [launches EXCEPT ![i] = new] BY <2>8, <3>2 DEF ReadRetained
    <3>6. /\ DOMAIN launches' = DOMAIN launches /\ launches'[i].broker = "writing"
          /\ \A j \in DOMAIN launches : launches'[j].id = launches[j].id
          /\ \A j \in DOMAIN launches : j # i => launches'[j] = launches[j]
      BY <3>4, <3>5
    <3> QED BY <3>1, <3>6, GoesOnSeat
  <2>9. CASE PiExits(i)
    <3>1. launches[i] \in LaunchRecords BY LaunchTyped DEF SessionsInv
    <3>2. PICK new : new = [launches[i] EXCEPT !.pi = FALSE] OBVIOUS
    <3>3. new.id = launches[i].id /\ new.broker = launches[i].broker
      BY <3>1, <3>2 DEF LaunchRecords
    <3>4. launches' = [launches EXCEPT ![i] = new] BY <2>9, <3>2 DEF PiExits
    <3>5. /\ DOMAIN launches' = DOMAIN launches
          /\ \A j \in DOMAIN launches : launches'[j].id = launches[j].id
                                        /\ launches'[j].broker = launches[j].broker
      BY <3>3, <3>4
    <3> QED BY <3>5 DEF LaunchesAge, BrokersStand
  <2> QED BY <2>1, <2>3, <2>4, <2>5, <2>6, <2>7, <2>8, <2>9
<1> QED BY <1>1, <1>2, <1>3, NewcomersStay, SeatRests

LEMMA RecordSeat ==
  ASSUME SessionsInv, SeatKnown, NEW i \in DOMAIN launches, Record(i)
  PROVE  SeatKnown' /\ SeatStep
<1>1. /\ Step(i, "ready") /\ launches[i].broker = "recording"
      /\ UNCHANGED <<client, instance, under, current>>
  BY DEF Record, Is, domain
<1>2. RowsAge
  <2>1. row' = [row EXCEPT ![launches[i].id].target = TRUE] BY DEF Record
  <2>2. \A s \in Ids : /\ row[s].target => row'[s].target
                       /\ row'[s].status = row[s].status
                       /\ s # launches[i].id => row'[s].target = row[s].target
    <3>1. PICK new : new = [row[launches[i].id] EXCEPT !.target = TRUE] OBVIOUS
    <3>2. row[launches[i].id] \in Rows BY LaunchTyped DEF SessionsInv, Typed
    <3>3. new.target /\ new.status = row[launches[i].id].status BY <3>1, <3>2 DEF Rows
    <3>4. row' = [row EXCEPT ![launches[i].id] = new] BY <2>1, <3>1
    <3> QED BY <3>3, <3>4 DEF SessionsInv, Typed
  <2>3. \A j \in DOMAIN launches :
          launches[j].id = launches[i].id => launches'[j].broker \notin Opening
    <3>1. Alive(i) BY <1>1 DEF Alive
    <3>2. \A j \in DOMAIN launches : launches[j].id = launches[i].id /\ Alive(j) => j = i
      BY <3>1, InOrderOneBroker DEF OneBroker
    <3>3. launches'[i].broker = "ready"
          /\ \A j \in DOMAIN launches : j # i => launches'[j] = launches[j]
      BY <1>1, PlaceSet DEF Step
    <3> QED BY <3>2, <3>3 DEF Opening, Alive
  <2> QED BY <2>2, <2>3 DEF RowsAge
<1>3. launches[i].broker \in Living /\ "ready" \in Living /\ "ready" \notin Early
      /\ "ready" \notin Opening
  BY <1>1 DEF Living, Early, Opening
<1>4. LaunchesAge /\ BrokersStand BY <1>1, <1>3, PlaceSet, GoesOnSeat DEF Step
<1> QED BY <1>1, <1>2, <1>4, ClientsSame, NewcomersStay, SeatRests

\* A broker whose conversation sat ends it in the domain, any other is gone.
LEMMA ReportSeat ==
  ASSUME SessionsInv, SeatKnown, NEW i \in DOMAIN launches, Report(i)
  PROVE  SeatKnown' /\ SeatStep
<1> DEFINE place == IF row[launches[i].id].target THEN "reading" ELSE "gone"
<1>1. /\ launches[i].broker = "closing" /\ UNCHANGED <<client, instance, under, current>>
      /\ launches' = [launches EXCEPT ![i].pi = FALSE, ![i].broker = place]
  BY DEF Report, Is, domain
<1>2. RowsAge BY DEF Report, RowsAge, SessionsInv, Typed, Rows
<1>3. place \in {"reading", "gone"} OBVIOUS
<1> HIDE DEF place
<1>4. /\ DOMAIN launches' = DOMAIN launches /\ launches'[i].broker = place
      /\ \A j \in DOMAIN launches : launches'[j].id = launches[j].id
      /\ \A j \in DOMAIN launches : j # i => launches'[j] = launches[j]
  <2>1. launches[i] \in LaunchRecords BY LaunchTyped DEF SessionsInv
  <2>2. PICK new : new = [launches[i] EXCEPT !.pi = FALSE, !.broker = place] OBVIOUS
  <2>3. new.id = launches[i].id /\ new.broker = place BY <2>1, <2>2 DEF LaunchRecords
  <2>4. launches' = [launches EXCEPT ![i] = new] BY <1>1, <2>2
  <2> QED BY <2>3, <2>4
<1>5. NoneLocks BY <1>1, ClientsSame
<1>6. CASE place = "reading"
  <2>1. launches[i].broker \in Living /\ "reading" \in Living /\ "reading" \notin Early
        /\ "reading" \notin Opening
    BY <1>1 DEF Living, Early, Opening
  <2>2. LaunchesAge /\ BrokersStand BY <1>4, <1>6, <2>1, GoesOnSeat
  <2> QED BY <1>1, <1>2, <1>5, <2>2, NewcomersStay, SeatRests
<1>7. CASE place = "gone"
  <2>1. Alive(i) BY <1>1 DEF Alive
  <2>2. current' \in IF current = launches[i].id THEN {launches[i].id, NoId} ELSE {current}
    BY <1>1
  <2>3. LaunchesAge /\ SeatStep BY <1>1, <1>4, <1>7, <2>1, <2>2, EndSeat
  <2> QED BY <1>1, <1>2, <1>5, <2>3, NewcomersStay
<1> QED BY <1>3, <1>6, <1>7

LEMMA BrokerDiesSeat ==
  ASSUME SessionsInv, SeatKnown, NEW i \in DOMAIN launches, BrokerDies(i)
  PROVE  SeatKnown' /\ SeatStep
<1>1. Alive(i) /\ Step(i, "gone") /\ UNCHANGED <<row, client, instance, under, current>>
  BY DEF BrokerDies, domain
<1>2. current' \in IF current = launches[i].id THEN {launches[i].id, NoId} ELSE {current}
  BY <1>1
<1>3. LaunchesAge /\ SeatStep BY <1>1, <1>2, PlaceSet, EndSeat DEF Step
<1> QED BY <1>1, <1>3, ClientsSame, RowsSameAge, NewcomersStay

LEMMA WriteBackSeat ==
  ASSUME SessionsInv, SeatKnown, NEW i \in DOMAIN launches, WriteBack(i)
  PROVE  SeatKnown' /\ SeatStep
<1>1. /\ Alive(i) /\ Step(i, "gone") /\ UNCHANGED <<row, client, instance, under>>
      /\ current' = IF current = launches[i].id THEN NoId ELSE current
  BY DEF WriteBack, Is, Alive
<1>2. current' \in IF current = launches[i].id THEN {launches[i].id, NoId} ELSE {current}
  BY <1>1
<1>3. LaunchesAge /\ SeatStep BY <1>1, <1>2, PlaceSet, EndSeat DEF Step
<1> QED BY <1>1, <1>3, ClientsSame, RowsSameAge, NewcomersStay

\* A running broker takes the seat for its conversation.
LEMMA AttachAgainSeat ==
  ASSUME SessionsInv, SeatKnown, NEW i \in DOMAIN launches, AttachAgain(i)
  PROVE  SeatKnown' /\ SeatStep
<1> DEFINE s == launches[i].id
<1>1. /\ Step(i, "ready") /\ launches[i].broker = "attaching" /\ row[s].target
      /\ under[s] = instance /\ current' = s /\ UNCHANGED <<row, client, instance, under>>
  BY DEF AttachAgain, Is
<1>2. launches[i].broker \in Living /\ Alive(i) /\ "ready" \in Living /\ "ready" \notin Early
      /\ "ready" \notin Opening
  BY <1>1 DEF Living, Early, Opening, Alive
<1>3. LaunchesAge /\ BrokersStand BY <1>1, <1>2, PlaceSet, GoesOnSeat DEF Step
<1>4. Running[s] # {} /\ s \in Ids /\ Running' = Running
  BY <1>2, <1>3, RunsAlone, RunningStays
<1>5. instance # 0 /\ under' = [under EXCEPT ![s] = instance]
  <2>1. under[s] # 0 BY <1>1, <1>4 DEF SessionsInv, RowsKnown
  <2> QED BY <1>1, <1>4, <2>1 DEF SessionsInv, Typed
<1>6. Seat!Sit(s) BY <1>1, <1>4, <1>5 DEF Seat!Sit
<1>7. SeatStep BY <1>4, <1>6 DEF SeatStep, Seat!Next
<1> QED BY <1>1, <1>3, <1>7, ClientsSame, RowsSameAge, NewcomersStay

\* A newcomer has not sat.
LEMMA EarlyIsNew ==
  ASSUME SessionsInv, SeatKnown, NEW i \in DOMAIN launches, launches[i].broker \in Early,
         ~row[launches[i].id].target
  PROVE  under[launches[i].id] = 0
<1>1. launches[i].id \in Ids BY LaunchTyped DEF SessionsInv
<1> QED BY <1>1 DEF SeatKnown, Newcomers, Newcomer

LEMMA InstantiateSeat ==
  ASSUME SessionsInv, SeatKnown, NEW i \in DOMAIN launches, Instantiate(i)
  PROVE  SeatKnown' /\ SeatStep
<1> DEFINE s == launches[i].id
<1>1. /\ Step(i, "opening") /\ launches[i].broker = "attaching" /\ ~row[s].target
      /\ instance' = instance + 1 /\ current' = NoId /\ UNCHANGED <<row, client, under>>
  BY DEF Instantiate, Is
<1>2. /\ launches[i].broker \in Living /\ launches[i].broker \in Early /\ Alive(i)
      /\ "opening" \in Living
  BY <1>1 DEF Living, Early, Alive
<1>3. LaunchesAge /\ BrokersStand BY <1>1, <1>2, PlaceSet, GoesOnSeat DEF Step
<1>4. Running[s] # {} /\ s \in Ids /\ Running' = Running
  BY <1>2, <1>3, RunsAlone, RunningStays
<1>5. under[s] = 0 BY <1>1, <1>2, EarlyIsNew
<1>6. Seat!Succeed(s) BY <1>1, <1>4, <1>5 DEF Seat!Succeed
<1>7. SeatStep BY <1>4, <1>6 DEF SeatStep, Seat!Next
<1> QED BY <1>1, <1>3, <1>7, ClientsSame, RowsSameAge, NewcomersStay

LEMMA OpenSessionSeat ==
  ASSUME SessionsInv, SeatKnown, NEW i \in DOMAIN launches, OpenSession(i)
  PROVE  SeatKnown' /\ SeatStep
<1> DEFINE s == launches[i].id
<1>1. /\ Step(i, "recording") /\ launches[i].broker = "opening"
      /\ under' = [under EXCEPT ![s] = instance] /\ current' = s
      /\ UNCHANGED <<row, client, instance>>
  BY DEF OpenSession, Is
<1>2. /\ launches[i].broker \in Living /\ launches[i].broker \in Early /\ Alive(i)
      /\ "recording" \in Living /\ "recording" \notin Early
  BY <1>1 DEF Living, Early, Alive
<1>3. LaunchesAge /\ BrokersStand
  <2>1. ~row[s].target BY <1>1 DEF SeatKnown, Openers, Opening
  <2> QED BY <1>1, <1>2, <2>1, PlaceSet, GoesOnSeat DEF Step
<1>4. Running[s] # {} /\ s \in Ids /\ Running' = Running
  BY <1>2, <1>3, RunsAlone, RunningStays
<1>5. instance # 0 BY <1>1 DEF SessionsInv, BrokersKnown
<1>6. under[s] = 0 /\ ~row[s].target
  <2>1. ~row[s].target BY <1>1 DEF SeatKnown, Openers, Opening
  <2> QED BY <1>2, <2>1, EarlyIsNew
<1>7. Seat!Sit(s) BY <1>1, <1>4, <1>5, <1>6 DEF Seat!Sit
<1>8. SeatStep BY <1>4, <1>7 DEF SeatStep, Seat!Next
<1>9. /\ DOMAIN launches' = DOMAIN launches
      /\ \A j \in DOMAIN launches : launches'[j].id = launches[j].id
      /\ \A j \in DOMAIN launches : j # i => launches'[j] = launches[j]
      /\ launches'[i].broker = "recording"
  BY <1>1, PlaceSet DEF Step
<1>10. Openers'
  BY <1>1, <1>6, <1>9 DEF SeatKnown, Openers
<1>11. Newcomers'
  <2> SUFFICES ASSUME NEW t \in Ids, ~row'[t].target PROVE Newcomer(t)'
    BY DEF Newcomers
  <2>1. Newcomer(t) BY <1>1 DEF SeatKnown, Newcomers
  <2>2. CASE t # s
    <3>1. under'[t] = under[t] BY <1>1, <2>2 DEF SessionsInv, Typed
    <3>2. \A j \in DOMAIN launches : launches[j].id = t => j # i /\ launches'[j] = launches[j]
      BY <1>9, <2>2
    <3> QED BY <1>1, <1>9, <2>1, <3>1, <3>2 DEF Newcomer
  <2>3. CASE t = s
    <3>1. \A j \in DOMAIN launches : launches[j].id = s => j = i BY <2>1, <2>3 DEF Newcomer
    <3>2. row[s].status # "absent" BY <2>1, <2>3 DEF Newcomer
    <3>3. \A c \in Clients : ~(client[c].at = "locking" /\ client[c].id = s)
      BY <2>1, <2>3 DEF Newcomer
    <3>4. \A j \in DOMAIN launches' : launches'[j].id = s =>
            j = i /\ launches'[j].broker \notin Early
      BY <1>2, <1>9, <3>1
    <3> QED BY <1>1, <2>3, <3>2, <3>3, <3>4 DEF Newcomer
  <2> QED BY <2>2, <2>3
<1> QED BY <1>8, <1>10, <1>11 DEF SeatKnown

-----------------------------------------------------------------------------
\* Every step.

LEMMA SeatStarts ==
  ASSUME Init
  PROVE  Seat!Init /\ SeatKnown
<1>1. DOMAIN launches = {} BY DEF Init
<1>2. Running = [s \in Ids |-> {}] BY <1>1 DEF Running
<1>3. Waiting.at = "idle" BY WaitingTyped
<1>4. SeatKnown
  BY <1>1, <1>3 DEF Init, SeatKnown, Openers, Newcomers, Newcomer
<1> QED BY <1>2, <1>4 DEF Init, Seat!Init

LEMMA SeatGoesOn ==
  ASSUME SessionsInv, SeatKnown, [Next]_vars
  PROVE  SeatKnown' /\ SeatStep
<1>1. ASSUME NEW c \in Clients,
             \/ ClientStep(c) \/ LaunchRaises(c) \/ LauncherDies(c)
             \/ \E s \in Ids : Create(c, s) \/ Reopen(c, s)
      PROVE SeatKnown' /\ SeatStep
  BY <1>1, LockSeat, SpawnSeat, ReconcileSeat, ClientSeat, CreateSeat, ReopenSeat
     DEF ClientStep
<1>2. ASSUME NEW i \in DOMAIN launches,
             BrokerStep(i) \/ Close(i) \/ PiExits(i) \/ BrokerDies(i)
      PROVE SeatKnown' /\ SeatStep
  BY <1>2, BrokerSeat, AttachAgainSeat, InstantiateSeat, OpenSessionSeat, RecordSeat,
     ReportSeat, WriteBackSeat, BrokerDiesSeat DEF BrokerStep
<1>3. CASE UNCHANGED vars
  <2>1. NoneLocks /\ UNCHANGED <<row, launches, instance, under, current>>
    BY <1>3, ClientsSame DEF vars, domain
  <2> QED BY <2>1, LaunchesSame, RowsSameAge, NewcomersStay, SeatRests
<1> QED BY <1>1, <1>2, <1>3 DEF Next

(* One broker runs a conversation, the seat of the position is taken by a  *)
(* conversation that runs and belongs to the occupant there is, and none   *)
(* moves from its occupant to another, through every race, kill and        *)
(* reopening (noetic_sessions.py, _launch, reopen and the broker's attach  *)
(* and write-back; noetic_scope.py, instantiate and open_session).         *)
THEOREM SeatIsKept == Spec => KeepsSeat
<1>1. Init => Seat!Init /\ SeatKnown BY SeatStarts
<1>2. SessionsInv /\ SeatKnown /\ [Next]_vars =>
        SeatKnown' /\ [Seat!Next]_<<Running, instance, under, current>>
  BY SeatGoesOn DEF SeatStep
<1> QED BY <1>1, <1>2, AlwaysInOrder, PTL DEF Spec, KeepsSeat, Seat!Spec

-----------------------------------------------------------------------------
(* A message.                                                              *)

Row == [kind : {"sent", "outcome", "received"}, message : Recipients, marked : BOOLEAN]

SendPlaces    == {"select", "bind", "sending", "deliver", "waiting", "report", "done", "dead"}
RequestPlaces == {"none", "asked", "prompting", "accepted", "refused", "lost"}

SendingSet == [at : SendPlaces, target : Contexts, bound : BOOLEAN,
               outcome : {"none", "accepted", "not-dispatched", "uncertain"}]
RequestSet == [at : RequestPlaces, of : Contexts, before : Nat]

MessageTypes ==
  /\ designated \in [Positions -> {1, 2}]
  /\ broker \in [Contexts -> BOOLEAN]
  /\ rows \in [Contexts -> Seq(Row)]
  /\ sends \in [Recipients -> SendingSet]
  /\ requests \in [Deliveries -> RequestSet]
  /\ inbox \in [Contexts -> Seq(Recipients)]
  /\ fetch \in [Contexts -> SUBSET Recipients]
  /\ taken \subseteq Contexts \X Recipients

\* A sending that has not asked its target's broker has no outcome yet, what it
\* has told keeps it from going on, and what it has recorded stays recorded.
SendingIs(r) ==
  /\ sends[r].at \in {"select", "bind", "sending", "deliver"} \/ sends[r].outcome = "not-dispatched"
       => requests[<<r, "thread">>].at = "none"
  /\ sends[r].outcome # "none" => sends[r].at \in {"report", "done", "dead"}
  /\ sends[r].at \in {"sending", "deliver", "waiting"} \/ sends[r].outcome = "accepted"
       => IsSent(r)
  /\ sends[r].outcome = "accepted" => ReceivedRows(r, sends[r].target) # {}

RequestIs(d) ==
  /\ requests[d].at # "none" => requests[d].of = sends[d[1]].target
  /\ requests[d].at = "accepted" => ReceivedRows(d[1], requests[d].of) # {}

\* Only the Pi of its exact target is handed a message, or has fetched it.
HandedTo(c) ==
  /\ \A k \in DOMAIN inbox[c] : sends[inbox[c][k]].target = c
  /\ \A m \in Recipients : ReceivedRows(m, c) # {} => sends[m].target = c
  /\ \A m \in fetch[c] : ReceivedRows(m, c) # {}

\* What was fetched and what waits to be, of those that were handed on.
Places(s, m) == {k \in DOMAIN s : s[k] = m}
Undelivered(r) == Places(inbox[sends[r].target], r)
Prompted(r) == {o \in Askers : requests[<<r, o>>].at \notin {"none", "asked"}}
Counted(r) ==
  Cardinality(ReceivedRows(r, sends[r].target)) + Cardinality(Undelivered(r))
    <= Cardinality(Prompted(r))

MessagesInv ==
  /\ MessageTypes
  /\ \A r \in Recipients : SendingIs(r) /\ Counted(r)
  /\ \A d \in Deliveries : RequestIs(d)
  /\ \A c \in Contexts : HandedTo(c)
  /\ \A t \in taken : ReceivedRows(t[2], t[1]) # {}

-----------------------------------------------------------------------------
(* What is recorded.                                                       *)

\* The rows of a table, but for their marks.
SameRows(all) ==
  /\ rows' \in [Contexts -> Seq(Row)]
  /\ \A c \in Contexts :
       /\ DOMAIN rows'[c] = DOMAIN all[c]
       /\ \A i \in DOMAIN all[c] : /\ rows'[c][i].kind = all[c][i].kind
                                   /\ rows'[c][i].message = all[c][i].message

LEMMA MarkKeeps ==
  ASSUME NEW events \in Seq(Row), NEW marked
  PROVE  /\ Mark(events, marked) \in Seq(Row) /\ DOMAIN Mark(events, marked) = DOMAIN events
         /\ \A i \in DOMAIN events : /\ Mark(events, marked)[i].kind = events[i].kind
                                     /\ Mark(events, marked)[i].message = events[i].message
<1> DEFINE M == Mark(events, marked)
<1>1. M = [i \in DOMAIN events |-> IF \E k \in DOMAIN marked : marked[k] = i
                                   THEN [events[i] EXCEPT !.marked = TRUE] ELSE events[i]]
  BY DEF Mark
<1>2. \A i \in DOMAIN events : events[i] \in Row OBVIOUS
<1>3. \A entry \in Row : /\ [entry EXCEPT !.marked = TRUE] \in Row
                       /\ [entry EXCEPT !.marked = TRUE].kind = entry.kind
                       /\ [entry EXCEPT !.marked = TRUE].message = entry.message
  BY DEF Row
<1>4. \A i \in DOMAIN events : M[i] \in Row /\ M[i].kind = events[i].kind
                               /\ M[i].message = events[i].message
  BY <1>1, <1>2, <1>3
<1>5. M \in Seq(Row)
  <2>1. DOMAIN events = 1 .. Len(events) /\ Len(events) \in Nat OBVIOUS
  <2>2. M = [i \in 1 .. Len(events) |-> M[i]] BY <1>1, <2>1
  <2>3. \A i \in 1 .. Len(events) : M[i] \in Row BY <1>4, <2>1
  <2> HIDE DEF M
  <2>4. [i \in 1 .. Len(events) |-> M[i]] \in Seq(Row) BY <2>1, <2>3
  <2> QED BY <2>2, <2>4
<1> QED BY <1>1, <1>4, <1>5

LEMMA CorrelateRecords ==
  ASSUME NEW all \in [Contexts -> Seq(Row)], NEW c \in Contexts,
         CorrelateAll(all, c) \/ CorrelatePart(all, c)
  PROVE  SameRows(all)
<1>1. PICK n, k : Correlate(all, c, n, k) BY DEF CorrelateAll, CorrelatePart
<1>2. PICK marked : rows' = [all EXCEPT ![c] = Mark(all[c], marked)]
  BY <1>1 DEF Correlate
<1>3. /\ Mark(all[c], marked) \in Seq(Row) /\ DOMAIN Mark(all[c], marked) = DOMAIN all[c]
      /\ \A i \in DOMAIN all[c] : /\ Mark(all[c], marked)[i].kind = all[c][i].kind
                                  /\ Mark(all[c], marked)[i].message = all[c][i].message
  BY MarkKeeps
<1> QED BY <1>2, <1>3 DEF SameRows

\* A table with a row more.
OneMore(all, c, kind, m) ==
  /\ all \in [Contexts -> Seq(Row)]
  /\ \A o \in Contexts \ {c} : all[o] = rows[o]
  /\ DOMAIN all[c] = DOMAIN rows[c] \cup {Len(rows[c]) + 1}
  /\ \A i \in DOMAIN rows[c] : all[c][i] = rows[c][i]
  /\ all[c][Len(rows[c]) + 1] = [kind |-> kind, message |-> m, marked |-> FALSE]

LEMMA InsertedIs ==
  ASSUME rows \in [Contexts -> Seq(Row)], NEW c \in Contexts, NEW m \in Recipients,
         NEW kind \in {"sent", "outcome", "received"}
  PROVE  OneMore(Inserted(c, kind, m), c, kind, m)
<1>1. PICK entry \in Row : entry = [kind |-> kind, message |-> m, marked |-> FALSE] BY DEF Row
<1>2. PICK s \in Seq(Row) : s = rows[c] OBVIOUS
<1>3. Inserted(c, kind, m) = [rows EXCEPT ![c] = Append(s, entry)] BY <1>1, <1>2 DEF Inserted
<1>4. /\ Append(s, entry) \in Seq(Row) /\ DOMAIN Append(s, entry) = DOMAIN s \cup {Len(s) + 1}
      /\ \A i \in DOMAIN s : Append(s, entry)[i] = s[i]
      /\ Append(s, entry)[Len(s) + 1] = entry
  OBVIOUS
<1> QED BY <1>1, <1>2, <1>3, <1>4 DEF OneMore

\* A table of rows as it is here keeps what was sent and what was fetched.
Unheard ==
  /\ rows' \in [Contexts -> Seq(Row)]
  /\ \A m \in Recipients, c \in Contexts : ReceivedRows(m, c)' = ReceivedRows(m, c)
  /\ \A m \in Recipients : IsSent(m) => IsSent(m)'

LEMMA SenderSpeaks == SenderContext \in Contexts
BY DEF SenderContext, Contexts, Positions

LEMMA UnheardRows ==
  ASSUME rows \in [Contexts -> Seq(Row)], SameRows(rows)
  PROVE  Unheard
BY SenderSpeaks DEF Unheard, SameRows, ReceivedRows, IsSent

LEMMA UnheardRow ==
  ASSUME rows \in [Contexts -> Seq(Row)], NEW m \in Recipients, NEW kind \in {"sent", "outcome"},
         SameRows(Inserted(SenderContext, kind, m))
  PROVE  /\ Unheard
         /\ kind = "sent" => IsSent(m)'
<1> DEFINE all == Inserted(SenderContext, kind, m)
           n   == Len(rows[SenderContext]) + 1
<1>0. OneMore(all, SenderContext, kind, m) BY InsertedIs, SenderSpeaks
<1> HIDE DEF all
<1>1. /\ \A o \in Contexts \ {SenderContext} : all[o] = rows[o]
      /\ DOMAIN all[SenderContext] = DOMAIN rows[SenderContext] \cup {n}
      /\ \A i \in DOMAIN rows[SenderContext] : all[SenderContext][i] = rows[SenderContext][i]
      /\ all[SenderContext][n].kind = kind /\ all[SenderContext][n].message = m
  BY <1>0 DEF OneMore
<1> HIDE DEF n
<1>2. SameRows(all) BY DEF all
<1>3. \A o \in Contexts : /\ DOMAIN rows'[o] = DOMAIN all[o]
                          /\ \A i \in DOMAIN all[o] : /\ rows'[o][i].kind = all[o][i].kind
                                                      /\ rows'[o][i].message = all[o][i].message
  BY <1>2 DEF SameRows
<1>4. \A x \in Recipients, c \in Contexts : ReceivedRows(x, c)' = ReceivedRows(x, c)
  BY <1>1, <1>3 DEF ReceivedRows
<1>5. ASSUME NEW x \in Recipients, IsSent(x) PROVE IsSent(x)'
  <2>1. PICK i \in DOMAIN rows[SenderContext] : /\ rows[SenderContext][i].kind = "sent"
                                               /\ rows[SenderContext][i].message = x
    BY <1>5 DEF IsSent
  <2>2. /\ i \in DOMAIN rows'[SenderContext] /\ rows'[SenderContext][i].kind = "sent"
        /\ rows'[SenderContext][i].message = x
    BY <1>1, <1>3, <2>1, SenderSpeaks
  <2> QED BY <2>2 DEF IsSent, SenderContext
<1>6. kind = "sent" => IsSent(m)'
  BY <1>1, <1>3, SenderSpeaks DEF IsSent
<1> QED BY <1>2, <1>4, <1>5, <1>6 DEF Unheard, SameRows

-----------------------------------------------------------------------------
(* The sender's threads, and the operator.                                 *)

\* What a sending's step leaves to be shown.
\* A request is as it was, or the first to be asked is asked.
Asking ==
  /\ requests' \in [Deliveries -> RequestSet]
  /\ \A d \in Deliveries : \/ requests'[d] = requests[d]
                           \/ /\ requests[d].at = "none" /\ requests'[d].at = "asked"
                              /\ requests'[d].of = sends[d[1]].target

LEMMA AskingIs ==
  ASSUME sends \in [Recipients -> SendingSet], requests \in [Deliveries -> RequestSet],
         NEW r \in Recipients, NEW o \in Askers, requests[<<r, o>>].at = "none",
         AskFor(<<r, o>>)
  PROVE  /\ Asking
         /\ \A x \in Recipients, a \in Askers : <<x, a>> # <<r, o>> =>
              requests'[<<x, a>>].at = requests[<<x, a>>].at
<1>1. <<r, o>> \in Deliveries /\ sends[r].target \in Contexts BY DEF Deliveries, SendingSet
<1>2. requests' = [requests EXCEPT ![<<r, o>>] = [@ EXCEPT !.at = "asked", !.of = sends[r].target]]
  BY DEF AskFor, Selected
<1>3. PICK q \in RequestSet : q = [requests[<<r, o>>] EXCEPT !.at = "asked", !.of = sends[r].target]
  BY <1>1 DEF RequestSet, RequestPlaces
<1>4. requests' = [requests EXCEPT ![<<r, o>>] = q] BY <1>2, <1>3
<1>5. q.at = "asked" /\ q.of = sends[r].target BY <1>1, <1>3 DEF RequestSet
<1>6. \A x \in Recipients, a \in Askers : <<x, a>> \in Deliveries BY DEF Deliveries
<1> QED BY <1>1, <1>4, <1>5, <1>6 DEF Asking

LEMMA SendingFrame ==
  ASSUME MessagesInv, Unheard, UNCHANGED <<designated, broker, pis>>, Asking,
         NEW r \in Recipients, NEW s \in SendingSet, s.target = sends[r].target,
         sends' = [sends EXCEPT ![r] = s],
         \A x \in Recipients \ {r} :
           requests'[<<x, "thread">>].at = requests[<<x, "thread">>].at,
         s.at \in {"select", "bind", "sending", "deliver"} \/ s.outcome = "not-dispatched"
           => requests'[<<r, "thread">>].at = "none",
         s.outcome # "none" => s.at \in {"report", "done", "dead"},
         s.at \in {"sending", "deliver", "waiting"} \/ s.outcome = "accepted" => IsSent(r)',
         s.outcome = "accepted" => ReceivedRows(r, sends[r].target) # {}
  PROVE  MessagesInv'
<1>0. /\ sends \in [Recipients -> SendingSet] /\ requests \in [Deliveries -> RequestSet]
      /\ inbox \in [Contexts -> Seq(Recipients)] /\ UNCHANGED <<inbox, fetch, taken>>
      /\ rows \in [Contexts -> Seq(Row)]
  BY DEF MessagesInv, MessageTypes, pis
<1>1. MessageTypes' BY <1>0 DEF MessagesInv, MessageTypes, Unheard, Asking
<1>2. \A x \in Recipients : sends'[x].target = sends[x].target /\ sends[x].target \in Contexts
  BY <1>0 DEF SendingSet
<1>3. \A x \in Recipients, c \in Contexts : ReceivedRows(x, c)' = ReceivedRows(x, c)
  BY DEF Unheard
<1>4. ASSUME NEW x \in Recipients PROVE SendingIs(x)'
  <2>1. CASE x = r
    <3>1. sends'[r] = s BY <1>0
    <3>2. ReceivedRows(r, sends[r].target)' = ReceivedRows(r, sends[r].target)
      BY <1>2, <1>3 DEF ReceivedRows
    <3> QED BY <2>1, <3>1, <3>2 DEF SendingIs
  <2>2. CASE x # r
    <3>1. sends'[x] = sends[x] BY <1>0, <2>2
    <3>2. IsSent(x) => IsSent(x)' BY DEF Unheard
    <3>3. SendingIs(x) BY DEF MessagesInv
    <3>4. requests'[<<x, "thread">>].at = requests[<<x, "thread">>].at BY <2>2
    <3>5. ReceivedRows(x, sends[x].target)' = ReceivedRows(x, sends[x].target)
      BY <1>2, <1>3, <3>1 DEF ReceivedRows
    <3> QED BY <3>1, <3>2, <3>3, <3>4, <3>5 DEF SendingIs
  <2> QED BY <2>1, <2>2
<1>5. ASSUME NEW x \in Recipients PROVE Counted(x)'
  <2>1. Counted(x) BY DEF MessagesInv
  <2>2. Prompted(x)' = Prompted(x)
    <3>1. \A o \in Askers : <<x, o>> \in Deliveries BY DEF Deliveries
    <3>2. \A o \in Askers : (requests'[<<x, o>>].at \in {"none", "asked"})
                              <=> (requests[<<x, o>>].at \in {"none", "asked"})
      BY <3>1 DEF Asking
    <3> QED BY <3>2 DEF Prompted
  <2>3. Undelivered(x)' = Undelivered(x) BY <1>0, <1>2 DEF Undelivered, Places
  <2>4. ReceivedRows(x, sends[x].target)' = ReceivedRows(x, sends[x].target)
    BY <1>2, <1>3 DEF ReceivedRows
  <2> QED BY <2>1, <2>2, <2>3, <2>4 DEF Counted
<1>6. ASSUME NEW d \in Deliveries PROVE RequestIs(d)'
  <2>1. RequestIs(d) /\ d[1] \in Recipients BY DEF MessagesInv, Deliveries
  <2>2. sends'[d[1]].target = sends[d[1]].target BY <1>2, <2>1
  <2>3. CASE requests'[d] = requests[d]
    <3>1. requests[d].of \in Contexts BY <1>0 DEF RequestSet
    <3>2. ReceivedRows(d[1], requests[d].of)' = ReceivedRows(d[1], requests[d].of)
      BY <1>3, <2>1, <2>3, <3>1 DEF ReceivedRows
    <3> QED BY <2>1, <2>2, <2>3, <3>2 DEF RequestIs
  <2>4. CASE /\ requests[d].at = "none" /\ requests'[d].at = "asked"
             /\ requests'[d].of = sends[d[1]].target
    BY <2>2, <2>4 DEF RequestIs
  <2> QED BY <2>3, <2>4 DEF Asking
<1>7. ASSUME NEW c \in Contexts PROVE HandedTo(c)'
  <2>1. HandedTo(c) BY DEF MessagesInv
  <2>2. \A k \in DOMAIN inbox[c] : inbox[c][k] \in Recipients BY <1>0
  <2>3. fetch[c] \subseteq Recipients BY DEF MessagesInv, MessageTypes
  <2> QED BY <1>0, <1>2, <1>3, <2>1, <2>2, <2>3 DEF HandedTo
<1>8. \A t \in taken' : ReceivedRows(t[2], t[1])' # {}
  <2>1. \A t \in taken : t[2] \in Recipients /\ t[1] \in Contexts
    BY DEF MessagesInv, MessageTypes
  <2> QED BY <1>0, <1>3, <2>1 DEF MessagesInv
<1> QED BY <1>1, <1>4, <1>5, <1>6, <1>7, <1>8 DEF MessagesInv

\* The same for a step that moves the sending on, with or without an outcome.
LEMMA SendingMoves ==
  ASSUME MessagesInv, Unheard, UNCHANGED <<designated, broker, pis>>, Asking,
         NEW r \in Recipients, NEW place \in SendPlaces,
         sends' = [sends EXCEPT ![r].at = place]
           \/ sends' = [sends EXCEPT ![r].at = place, ![r].bound = TRUE],
         sends[r].outcome = "none",
         \A x \in Recipients \ {r} :
           requests'[<<x, "thread">>].at = requests[<<x, "thread">>].at,
         place \in {"select", "bind", "sending", "deliver"}
           => requests'[<<r, "thread">>].at = "none",
         place \in {"sending", "deliver", "waiting"} => IsSent(r)'
  PROVE  MessagesInv'
<1>1. sends \in [Recipients -> SendingSet] BY DEF MessagesInv, MessageTypes
<1>2. PICK s \in SendingSet : /\ sends' = [sends EXCEPT ![r] = s]
                              /\ s.at = place /\ s.target = sends[r].target
                              /\ s.outcome = sends[r].outcome
  <2>1. sends[r] \in SendingSet BY <1>1
  <2>2. CASE sends' = [sends EXCEPT ![r].at = place]
    <3>1. PICK s \in SendingSet : s = [sends[r] EXCEPT !.at = place] BY <2>1 DEF SendingSet
    <3> QED BY <1>1, <2>1, <2>2, <3>1 DEF SendingSet
  <2>3. CASE sends' = [sends EXCEPT ![r].at = place, ![r].bound = TRUE]
    <3>1. PICK s \in SendingSet : s = [sends[r] EXCEPT !.at = place, !.bound = TRUE]
      BY <2>1 DEF SendingSet
    <3> QED BY <1>1, <2>1, <2>3, <3>1 DEF SendingSet
  <2> QED BY <2>2, <2>3
<1> QED BY <1>2, SendingFrame

LEMMA SendingTells ==
  ASSUME MessagesInv, Unheard, UNCHANGED <<designated, broker, pis, requests>>,
         NEW r \in Recipients, NEW outcome \in {"accepted", "not-dispatched", "uncertain"},
         Told(r, outcome) \/ sends' = [sends EXCEPT ![r].at = "report", ![r].bound = TRUE,
                                                   ![r].outcome = outcome],
         outcome = "not-dispatched" => requests[<<r, "thread">>].at = "none",
         outcome = "accepted" => IsSent(r) /\ ReceivedRows(r, sends[r].target) # {}
  PROVE  MessagesInv'
<1>1. sends \in [Recipients -> SendingSet] BY DEF MessagesInv, MessageTypes
<1>2. PICK s \in SendingSet : /\ sends' = [sends EXCEPT ![r] = s]
                              /\ s.at = "report" /\ s.target = sends[r].target
                              /\ s.outcome = outcome
  <2>1. sends[r] \in SendingSet BY <1>1
  <2>2. CASE Told(r, outcome)
    <3>1. PICK s \in SendingSet : s = [sends[r] EXCEPT !.at = "report", !.outcome = outcome]
      BY <2>1 DEF SendingSet, SendPlaces
    <3> QED BY <1>1, <2>1, <2>2, <3>1 DEF SendingSet, Told
  <2>3. CASE sends' = [sends EXCEPT ![r].at = "report", ![r].bound = TRUE,
                                    ![r].outcome = outcome]
    <3>1. PICK s \in SendingSet :
            s = [sends[r] EXCEPT !.at = "report", !.bound = TRUE, !.outcome = outcome]
      BY <2>1 DEF SendingSet, SendPlaces
    <3> QED BY <1>1, <2>1, <2>3, <3>1 DEF SendingSet
  <2> QED BY <2>2, <2>3
<1>3. Asking BY DEF Asking, MessagesInv, MessageTypes
<1>4. IsSent(r) => IsSent(r)' BY DEF Unheard
<1> QED BY <1>2, <1>3, <1>4, SendingFrame

LEMMA SendingKeeps ==
  ASSUME MessagesInv, NEW r \in Recipients, Sending(r)
  PROVE  MessagesInv'
<1>0. /\ sends \in [Recipients -> SendingSet] /\ requests \in [Deliveries -> RequestSet]
      /\ rows \in [Contexts -> Seq(Row)]
      /\ SendingIs(r)
      /\ \A d \in Deliveries : RequestIs(d)
      /\ <<r, "thread">> \in Deliveries /\ <<r, "operator">> \in Deliveries
  BY DEF MessagesInv, MessageTypes, Deliveries, Askers
<1>1. UNCHANGED requests => Asking BY <1>0 DEF Asking
<1>2. UNCHANGED rows => Unheard BY <1>0 DEF Unheard, ReceivedRows, IsSent
<1>3. CorrelateAll(rows, SenderContext) \/ CorrelatePart(rows, SenderContext) => Unheard
  BY <1>0, CorrelateRecords, UnheardRows, SenderSpeaks
<1>4. CASE Select(r)
  <2>1. /\ UNCHANGED <<designated, broker, pis, requests, rows>> /\ sends[r].at = "select"
        /\ SendTo(r, "bind") \/ Told(r, "not-dispatched")
    BY <1>4 DEF Select, SendAt, log
  <2>2. sends[r].outcome = "none" /\ requests[<<r, "thread">>].at = "none"
    BY <1>0, <2>1 DEF SendingIs
  <2>3. CASE SendTo(r, "bind")
    BY <1>0, <1>1, <1>2, <2>1, <2>2, <2>3, SendingMoves DEF SendTo, SendPlaces
  <2>4. CASE Told(r, "not-dispatched")
    BY <1>2, <2>1, <2>2, <2>4, SendingTells
  <2> QED BY <2>1, <2>3, <2>4
<1>5. CASE Bind(r)
  <2>1. /\ UNCHANGED <<designated, broker, pis, requests>> /\ sends[r].at = "bind"
        /\ rows' = Inserted(SenderContext, "sent", r)
        /\ sends' = [sends EXCEPT ![r].at = "sending", ![r].bound = TRUE]
    BY <1>5 DEF Bind, SendAt
  <2>2. sends[r].outcome = "none" /\ requests[<<r, "thread">>].at = "none"
    BY <1>0, <2>1 DEF SendingIs
  <2>3. SameRows(Inserted(SenderContext, "sent", r))
    BY <1>0, <2>1, InsertedIs, SenderSpeaks DEF SameRows, OneMore
  <2>4. Unheard /\ IsSent(r)' BY <1>0, <2>3, UnheardRow
  <2> QED BY <1>0, <1>1, <2>1, <2>2, <2>4, SendingMoves DEF SendPlaces
<1>6. CASE SendRecorded(r)
  <2>1. /\ UNCHANGED <<designated, broker, pis, requests>> /\ sends[r].at = "sending"
        /\ CorrelateAll(rows, SenderContext) /\ SendTo(r, "deliver")
    BY <1>6 DEF SendRecorded, SendAt
  <2>2. /\ sends[r].outcome = "none" /\ requests[<<r, "thread">>].at = "none" /\ IsSent(r)
    BY <1>0, <2>1 DEF SendingIs
  <2>3. Unheard /\ IsSent(r)' BY <1>3, <2>1, <2>2 DEF Unheard
  <2> QED BY <1>0, <1>1, <2>1, <2>2, <2>3, SendingMoves DEF SendTo, SendPlaces
<1>7. CASE SendUnrecorded(r)
  <2>1. /\ UNCHANGED <<designated, broker, pis, requests>> /\ sends[r].at \in {"bind", "sending"}
        /\ rows' = rows \/ CorrelatePart(rows, SenderContext)
        /\ \/ Told(r, "not-dispatched")
           \/ sends' = [sends EXCEPT ![r].at = "report", ![r].bound = TRUE,
                                     ![r].outcome = "not-dispatched"]
    BY <1>7 DEF SendUnrecorded, SendAt, log
  <2>2. requests[<<r, "thread">>].at = "none" BY <1>0, <2>1 DEF SendingIs
  <2> QED BY <1>2, <1>3, <2>1, <2>2, SendingTells
<1>8. CASE Deliver(r)
  <2>1. /\ UNCHANGED <<designated, broker, pis, rows>> /\ sends[r].at = "deliver"
        /\ \/ SendTo(r, "waiting") /\ AskFor(<<r, "thread">>)
           \/ Told(r, "uncertain") /\ UNCHANGED requests
    BY <1>8 DEF Deliver, SendAt, log
  <2>2. /\ sends[r].outcome = "none" /\ requests[<<r, "thread">>].at = "none" /\ IsSent(r)
    BY <1>0, <2>1 DEF SendingIs
  <2>3. CASE SendTo(r, "waiting") /\ AskFor(<<r, "thread">>)
    <3>0. "thread" \in Askers /\ \A x \in Recipients \ {r} : <<x, "thread">> # <<r, "thread">>
      BY DEF Askers
    <3>1. Asking /\ \A x \in Recipients \ {r} :
            requests'[<<x, "thread">>].at = requests[<<x, "thread">>].at
      BY <1>0, <2>2, <2>3, <3>0, AskingIs
    <3>2. IsSent(r)' BY <1>2, <2>1, <2>2 DEF Unheard
    <3> QED BY <1>2, <2>1, <2>2, <2>3, <3>1, <3>2, SendingMoves DEF SendTo, SendPlaces
  <2>4. CASE Told(r, "uncertain") /\ UNCHANGED requests
    BY <1>2, <2>1, <2>4, SendingTells
  <2> QED BY <2>1, <2>3, <2>4
<1>9. CASE Learn(r)
  <2>1. /\ UNCHANGED <<designated, broker, pis, requests, rows>> /\ sends[r].at = "waiting"
        /\ \/ requests[<<r, "thread">>].at = "accepted" /\ Told(r, "accepted")
           \/ Told(r, "uncertain")
    BY <1>9 DEF Learn, SendAt, log
  <2>2. CASE requests[<<r, "thread">>].at = "accepted" /\ Told(r, "accepted")
    <3>1. IsSent(r) BY <1>0, <2>1 DEF SendingIs
    <3>2. /\ requests[<<r, "thread">>].of = sends[r].target
          /\ ReceivedRows(r, requests[<<r, "thread">>].of) # {}
      BY <1>0, <2>2 DEF RequestIs
    <3> QED BY <1>2, <2>1, <2>2, <3>1, <3>2, SendingTells
  <2>3. CASE Told(r, "uncertain")
    BY <1>2, <2>1, <2>3, SendingTells
  <2> QED BY <2>1, <2>2, <2>3
<1>10. CASE RecordOutcome(r)
  <2>1. /\ UNCHANGED <<designated, broker, pis, requests>> /\ sends[r].at = "report"
        /\ \/ CorrelateAll(Inserted(SenderContext, "outcome", r), SenderContext)
           \/ CorrelatePart(Inserted(SenderContext, "outcome", r), SenderContext)
        /\ SendTo(r, "done")
    BY <1>10 DEF RecordOutcome, SendAt, pis
  <2>2. Inserted(SenderContext, "outcome", r) \in [Contexts -> Seq(Row)]
    BY <1>0, InsertedIs, SenderSpeaks DEF OneMore
  <2>3. SameRows(Inserted(SenderContext, "outcome", r))
    BY <2>1, <2>2, CorrelateRecords, SenderSpeaks
  <2>4. Unheard BY <1>0, <2>3, UnheardRow
  <2>5. PICK s \in SendingSet : /\ sends' = [sends EXCEPT ![r] = s]
                                /\ s.at = "done" /\ s.target = sends[r].target
                                /\ s.outcome = sends[r].outcome
    <3>1. PICK s \in SendingSet : s = [sends[r] EXCEPT !.at = "done"]
      BY <1>0 DEF SendingSet, SendPlaces
    <3> QED BY <1>0, <2>1, <3>1 DEF SendingSet, SendTo
  <2>6. IsSent(r) => IsSent(r)' BY <2>4 DEF Unheard
  <2> QED BY <1>0, <1>1, <2>1, <2>4, <2>5, <2>6, SendingFrame DEF SendingIs
<1>11. CASE DeliverAgain(r)
  <2>1. /\ UNCHANGED <<designated, broker, pis, rows, sends>>
        /\ requests[<<r, "operator">>].at = "none" /\ AskFor(<<r, "operator">>)
    BY <1>11 DEF DeliverAgain, log
  <2>0. /\ "thread" \in Askers /\ "operator" \in Askers
        /\ \A x \in Recipients : <<x, "thread">> # <<r, "operator">>
    BY DEF Askers
  <2>2. /\ Asking
        /\ \A x \in Recipients : requests'[<<x, "thread">>].at = requests[<<x, "thread">>].at
    BY <1>0, <2>0, <2>1, AskingIs
  <2>3. Unheard /\ sends[r] \in SendingSet /\ sends' = [sends EXCEPT ![r] = sends[r]]
    BY <1>0, <1>2, <2>1
  <2>4. IsSent(r) => IsSent(r)' BY <2>3 DEF Unheard
  <2>5. PICK s \in SendingSet : s = sends[r] BY <1>0
  <2>6. /\ s.at \in {"select", "bind", "sending", "deliver"} \/ s.outcome = "not-dispatched"
             => requests'[<<r, "thread">>].at = "none"
        /\ s.outcome # "none" => s.at \in {"report", "done", "dead"}
        /\ s.at \in {"sending", "deliver", "waiting"} \/ s.outcome = "accepted" => IsSent(r)'
        /\ s.outcome = "accepted" => ReceivedRows(r, sends[r].target) # {}
    BY <1>0, <2>2, <2>4, <2>5 DEF SendingIs
  <2>7. sends' = [sends EXCEPT ![r] = s] BY <2>3, <2>5
  <2> QED BY <2>1, <2>2, <2>3, <2>5, <2>6, <2>7, SendingFrame
<1> QED BY <1>4, <1>5, <1>6, <1>7, <1>8, <1>9, <1>10, <1>11 DEF Sending

-----------------------------------------------------------------------------
(* What is counted.                                                        *)

LEMMA PlacesAreFinite ==
  ASSUME NEW S, NEW s \in Seq(S), NEW m
  PROVE  IsFiniteSet(Places(s, m)) /\ Cardinality(Places(s, m)) \in Nat
<1>1. IsFiniteSet(1 .. Len(s)) BY FS_Interval
<1>2. Places(s, m) \in SUBSET (1 .. Len(s)) BY DEF Places
<1> QED BY <1>1, <1>2, FS_Subset, FS_CardinalityType

LEMMA ReceivedIsFinite ==
  ASSUME rows \in [Contexts -> Seq(Row)], NEW m, NEW c \in Contexts
  PROVE  IsFiniteSet(ReceivedRows(m, c)) /\ Cardinality(ReceivedRows(m, c)) \in Nat
<1>1. PICK s \in Seq(Row) : s = rows[c] OBVIOUS
<1>2. IsFiniteSet(1 .. Len(s)) BY FS_Interval
<1>3. ReceivedRows(m, c) \in SUBSET (1 .. Len(s)) BY <1>1 DEF ReceivedRows
<1> QED BY <1>2, <1>3, FS_Subset, FS_CardinalityType

LEMMA AskersAreFinite ==
  ASSUME NEW A \in SUBSET Askers
  PROVE  IsFiniteSet(A) /\ Cardinality(A) \in Nat
<1>1. IsFiniteSet(Askers)
  <2>1. IsFiniteSet({"thread"}) BY FS_Singleton
  <2>2. Askers = {"thread"} \cup {"operator"} BY DEF Askers
  <2> QED BY <2>1, <2>2, FS_AddElement
<1> QED BY <1>1, FS_Subset, FS_CardinalityType

LEMMA PlacesAfterAppend ==
  ASSUME NEW S, NEW s \in Seq(S), NEW e \in S, NEW m
  PROVE  Cardinality(Places(Append(s, e), m))
           = Cardinality(Places(s, m)) + (IF e = m THEN 1 ELSE 0)
<1>1. /\ DOMAIN Append(s, e) = DOMAIN s \cup {Len(s) + 1}
      /\ \A i \in DOMAIN s : Append(s, e)[i] = s[i]
      /\ Append(s, e)[Len(s) + 1] = e /\ Len(s) + 1 \notin DOMAIN s
  OBVIOUS
<1>2. CASE e = m
  <2>1. Places(Append(s, e), m) = Places(s, m) \cup {Len(s) + 1} BY <1>1, <1>2 DEF Places
  <2>2. Len(s) + 1 \notin Places(s, m) BY <1>1 DEF Places
  <2> QED BY <1>2, <2>1, <2>2, PlacesAreFinite, FS_AddElement
<1>3. CASE e # m
  <2>1. Places(Append(s, e), m) = Places(s, m) BY <1>1, <1>3 DEF Places
  <2> QED BY <1>3, <2>1, PlacesAreFinite
<1> QED BY <1>2, <1>3

LEMMA PlacesAfterTail ==
  ASSUME NEW S, NEW s \in Seq(S), s # <<>>, NEW m
  PROVE  Cardinality(Places(Tail(s), m)) + (IF Head(s) = m THEN 1 ELSE 0)
           <= Cardinality(Places(s, m))
<1>1. /\ Tail(s) \in Seq(S) /\ DOMAIN Tail(s) = 1 .. (Len(s) - 1)
      /\ DOMAIN s = 1 .. Len(s) /\ Len(s) \in Nat /\ Len(s) >= 1
      /\ \A i \in 1 .. (Len(s) - 1) : Tail(s)[i] = s[i + 1]
      /\ Head(s) = s[1]
  OBVIOUS
<1> DEFINE rest == Places(s, m) \ {1}
           f    == [k \in Places(Tail(s), m) |-> k + 1]
<1>2. f \in Injection(Places(Tail(s), m), rest)
  <2>1. \A k \in Places(Tail(s), m) : k \in Nat /\ k + 1 \in rest
    BY <1>1 DEF Places
  <2>2. \A a, b \in Places(Tail(s), m) : f[a] = f[b] => a = b BY <2>1
  <2> QED BY <2>1, <2>2 DEF Injection, IsInjective
<1>3. IsFiniteSet(rest) /\ Cardinality(rest) =
        IF 1 \in Places(s, m) THEN Cardinality(Places(s, m)) - 1 ELSE Cardinality(Places(s, m))
  BY PlacesAreFinite, FS_RemoveElement
<1>4. Cardinality(Places(Tail(s), m)) <= Cardinality(rest)
  BY <1>2, <1>3, FS_Injection
<1>5. Head(s) = m <=> 1 \in Places(s, m) BY <1>1 DEF Places
<1>6. Cardinality(Places(s, m)) \in Nat /\ Cardinality(Places(Tail(s), m)) \in Nat
  BY <1>1, PlacesAreFinite
<1> QED BY <1>3, <1>4, <1>5, <1>6

-----------------------------------------------------------------------------
(* The brokers and their Pis.                                              *)

\* What a step of a broker leaves to be shown: a sending may end with it, and
\* what was never asked for is not.
LEMMA BrokerFrame ==
  ASSUME MessagesInv, Unheard, MessageTypes',
         \A x \in Recipients : /\ sends'[x].target = sends[x].target
                               /\ sends'[x].outcome = sends[x].outcome
                               /\ sends'[x].at \in {sends[x].at, "dead"},
         \A d \in Deliveries : requests[d].at = "none" => requests'[d].at = "none",
         \A d \in Deliveries : RequestIs(d)', \A x \in Recipients : Counted(x)',
         \A c \in Contexts : \A k \in DOMAIN inbox'[c] : sends[inbox'[c][k]].target = c,
         \A c \in Contexts : \A m \in fetch'[c] : ReceivedRows(m, c) # {},
         \A t \in taken' : ReceivedRows(t[2], t[1]) # {}
  PROVE  MessagesInv'
<1>1. \A x \in Recipients, c \in Contexts : ReceivedRows(x, c)' = ReceivedRows(x, c)
  BY DEF Unheard
<1>2. ASSUME NEW x \in Recipients PROVE SendingIs(x)'
  <2>1. SendingIs(x) /\ IsSent(x) => IsSent(x)' BY DEF MessagesInv, Unheard
  <2>2. <<x, "thread">> \in Deliveries BY DEF Deliveries, Askers
  <2>3. sends[x].target \in Contexts BY DEF MessagesInv, MessageTypes, SendingSet
  <2>4. ReceivedRows(x, sends[x].target)' = ReceivedRows(x, sends[x].target)
    BY <1>1, <2>3 DEF ReceivedRows
  <2>5. SendingIs(x) BY DEF MessagesInv
  <2>6. IsSent(x) => IsSent(x)' BY DEF Unheard
  <2> QED BY <2>2, <2>4, <2>5, <2>6 DEF SendingIs
<1>3. ASSUME NEW c \in Contexts PROVE HandedTo(c)'
  <2>1. HandedTo(c) BY DEF MessagesInv
  <2>2. \A k \in DOMAIN inbox'[c] : inbox'[c][k] \in Recipients BY DEF MessageTypes
  <2>3. fetch'[c] \subseteq Recipients BY DEF MessageTypes
  <2> QED BY <1>1, <2>1, <2>2, <2>3 DEF HandedTo
<1>4. \A t \in taken' : ReceivedRows(t[2], t[1])' # {}
  <2>1. \A t \in taken' : t[2] \in Recipients /\ t[1] \in Contexts BY DEF MessageTypes
  <2> QED BY <1>1, <2>1
<1> QED BY <1>2, <1>3, <1>4 DEF MessagesInv

\* The count stands where nothing is fetched, nothing is handed on, and what
\* was asked for may only come to something.
LEMMA CountStands ==
  ASSUME MessagesInv, Unheard, NEW x \in Recipients, sends'[x].target = sends[x].target,
         \A o \in Askers : requests[<<x, o>>].at \notin {"none", "asked"}
                             => requests'[<<x, o>>].at \notin {"none", "asked"},
         inbox'[sends[x].target] \in {inbox[sends[x].target], <<>>}
  PROVE  Counted(x)'
<1>1. sends[x].target \in Contexts BY DEF MessagesInv, MessageTypes, SendingSet
<1>2. ReceivedRows(x, sends[x].target)' = ReceivedRows(x, sends[x].target)
  BY <1>1 DEF Unheard, ReceivedRows
<1>3. PICK s \in Seq(Recipients) : s = inbox[sends[x].target]
  BY <1>1 DEF MessagesInv, MessageTypes
<1>4. Cardinality(Undelivered(x)') <= Cardinality(Undelivered(x))
  <2>1. CASE inbox'[sends[x].target] = s
    <3>1. Undelivered(x)' = Undelivered(x) BY <1>3, <2>1 DEF Undelivered, Places
    <3> QED BY <1>3, <3>1, PlacesAreFinite DEF Undelivered
  <2>2. CASE inbox'[sends[x].target] = <<>>
    <3>1. Undelivered(x)' = {} BY <2>2 DEF Undelivered, Places
    <3> QED BY <1>3, <3>1, PlacesAreFinite, FS_EmptySet DEF Undelivered
  <2> QED BY <1>3, <2>1, <2>2
<1>5. Prompted(x) \subseteq Prompted(x)' BY DEF Prompted
<1>6. Prompted(x)' \in SUBSET Askers /\ Prompted(x) \in SUBSET Askers BY DEF Prompted
<1>7. Cardinality(Prompted(x)) <= Cardinality(Prompted(x)')
  BY <1>5, <1>6, AskersAreFinite, FS_Subset
<1>8. /\ Cardinality(Prompted(x)) \in Nat /\ Cardinality(Prompted(x)') \in Nat
      /\ Cardinality(ReceivedRows(x, sends[x].target)) \in Nat
      /\ Cardinality(Undelivered(x)) \in Nat
  BY <1>1, <1>3, <1>6, AskersAreFinite, ReceivedIsFinite, PlacesAreFinite
     DEF MessagesInv, MessageTypes, Undelivered
<1>9. Counted(x) BY DEF MessagesInv
<1>10. Cardinality(Undelivered(x)') \in Nat
  <2>1. PICK q \in Seq(Recipients) : q = inbox'[sends[x].target]
    <3>1. <<>> \in Seq(Recipients) OBVIOUS
    <3> QED BY <1>3, <3>1
  <2>2. Undelivered(x)' = Places(q, x) BY <2>1 DEF Undelivered, Places
  <2> QED BY <2>2, PlacesAreFinite
<1> QED BY <1>2, <1>4, <1>7, <1>8, <1>9, <1>10 DEF Counted

LEMMA PromptKeeps ==
  ASSUME MessagesInv, NEW d \in Deliveries, Prompt(d)
  PROVE  MessagesInv'
<1>0. /\ sends \in [Recipients -> SendingSet] /\ requests \in [Deliveries -> RequestSet]
      /\ rows \in [Contexts -> Seq(Row)] /\ inbox \in [Contexts -> Seq(Recipients)]
      /\ \A e \in Deliveries : RequestIs(e)
      /\ \A c \in Contexts : HandedTo(c)
      /\ d[1] \in Recipients /\ d[2] \in Askers /\ d = <<d[1], d[2]>>
  BY DEF MessagesInv, MessageTypes, Deliveries
<1>1. /\ UNCHANGED <<designated, broker, rows, sends, fetch, taken>> /\ requests[d].at = "asked"
      /\ requests[d].of = sends[d[1]].target /\ requests[d].of \in Contexts
  BY <1>0 DEF Prompt, RequestAt, log, RequestIs, RequestSet
<1>2. Unheard BY <1>0, <1>1 DEF Unheard, ReceivedRows, IsSent
<1>3. PICK q \in RequestSet : /\ requests' = [requests EXCEPT ![d] = q]
                              /\ q.at \in {"prompting", "refused"} /\ q.of = requests[d].of
                              /\ \/ inbox' = [inbox EXCEPT ![q.of] = Append(@, d[1])]
                                 \/ UNCHANGED inbox
  <2>1. requests[d] \in RequestSet /\ Len(rows[requests[d].of]) \in Nat BY <1>0, <1>1
  <2>2. CASE /\ requests' = [requests EXCEPT ![d].at = "prompting",
                                             ![d].before = Len(rows[requests[d].of])]
             /\ inbox' = [inbox EXCEPT ![requests[d].of] = Append(@, d[1])]
    <3>1. PICK n \in Nat : n = Len(rows[requests[d].of]) BY <2>1
    <3>2. PICK q \in RequestSet : q = [requests[d] EXCEPT !.at = "prompting", !.before = n]
      BY <2>1 DEF RequestSet, RequestPlaces
    <3> QED BY <1>0, <2>1, <2>2, <3>1, <3>2 DEF RequestSet
  <2>3. CASE RequestTo(d, "refused") /\ UNCHANGED inbox
    <3>1. PICK q \in RequestSet : q = [requests[d] EXCEPT !.at = "refused"]
      BY <2>1 DEF RequestSet, RequestPlaces
    <3> QED BY <1>0, <2>1, <2>3, <3>1 DEF RequestSet, RequestTo
  <2> QED BY <2>2, <2>3 DEF Prompt
<1>4. \A e \in Deliveries : requests'[e] = IF e = d THEN q ELSE requests[e]
  BY <1>0, <1>3
<1>5. PICK c \in Contexts : c = sends[d[1]].target BY <1>1
<1>6. PICK s \in Seq(Recipients) : s = inbox[c] BY <1>0
<1>7. /\ inbox' \in [Contexts -> Seq(Recipients)]
      /\ \A o \in Contexts \ {c} : inbox'[o] = inbox[o]
      /\ inbox'[c] \in {Append(s, d[1]), s}
  <2>1. Append(s, d[1]) \in Seq(Recipients) BY <1>0, <1>6
  <2>2. q.of = c BY <1>1, <1>3, <1>5
  <2>3. CASE inbox' = [inbox EXCEPT ![q.of] = Append(@, d[1])]
    <3>1. inbox' = [inbox EXCEPT ![c] = Append(s, d[1])] BY <1>6, <2>2, <2>3
    <3> QED BY <1>0, <2>1, <3>1
  <2>4. CASE UNCHANGED inbox BY <1>0, <1>6, <2>4
  <2> QED BY <1>3, <2>3, <2>4
<1>8. MessageTypes' BY <1>0, <1>1, <1>3, <1>7 DEF MessagesInv, MessageTypes
<1>9. ASSUME NEW e \in Deliveries PROVE RequestIs(e)'
  <2>1. e[1] \in Recipients BY DEF Deliveries
  <2>2. CASE e = d BY <1>1, <1>3, <1>4, <2>2 DEF RequestIs
  <2>3. CASE e # d
    <3>1. RequestIs(e) /\ requests'[e] = requests[e] BY <1>0, <1>4, <2>3
    <3> QED BY <1>1, <3>1 DEF RequestIs, ReceivedRows
  <2> QED BY <2>2, <2>3
<1>10. ASSUME NEW x \in Recipients PROVE Counted(x)'
  <2>0. sends[x].target \in Contexts BY <1>0 DEF SendingSet
  <2>1. ASSUME NEW o \in Askers, requests[<<x, o>>].at \notin {"none", "asked"}
        PROVE  requests'[<<x, o>>].at \notin {"none", "asked"}
    <3>1. <<x, o>> \in Deliveries BY DEF Deliveries
    <3> QED BY <1>3, <1>4, <2>1, <3>1
  <2>2. CASE inbox'[sends[x].target] = inbox[sends[x].target]
    BY <1>1, <1>2, <2>1, <2>2, CountStands
  <2>3. CASE inbox'[sends[x].target] # inbox[sends[x].target]
    <3>1. sends[x].target = c /\ inbox'[c] = Append(s, d[1]) BY <1>6, <1>7, <2>0, <2>3
    <3>2. Undelivered(x) = Places(s, x) /\ Undelivered(x)' = Places(Append(s, d[1]), x)
      BY <1>1, <1>6, <3>1 DEF Undelivered, Places
    <3>3. Cardinality(Undelivered(x)')
            = Cardinality(Undelivered(x)) + (IF d[1] = x THEN 1 ELSE 0)
      BY <1>0, <3>2, PlacesAfterAppend
    <3>4. Prompted(x) \in SUBSET Askers /\ Prompted(x)' \in SUBSET Askers BY DEF Prompted
    <3>5. Cardinality(Prompted(x)) + (IF d[1] = x THEN 1 ELSE 0) <= Cardinality(Prompted(x)')
      <4>1. CASE d[1] = x
        <5>1. d[2] \notin Prompted(x) BY <1>0, <1>1, <4>1 DEF Prompted
        <5>2. Prompted(x) \cup {d[2]} \subseteq Prompted(x)'
          <6>1. d[2] \in Prompted(x)' BY <1>0, <1>3, <1>4, <4>1 DEF Prompted
          <6>2. Prompted(x) \subseteq Prompted(x)' BY <2>1 DEF Prompted
          <6> QED BY <6>1, <6>2
        <5>3. Cardinality(Prompted(x) \cup {d[2]}) = Cardinality(Prompted(x)) + 1
          BY <3>4, <5>1, AskersAreFinite, FS_AddElement
        <5> QED BY <4>1, <3>4, <5>2, <5>3, AskersAreFinite, FS_Subset
      <4>2. CASE d[1] # x
        <5>1. Prompted(x) \subseteq Prompted(x)' BY <2>1 DEF Prompted
        <5>2. Cardinality(Prompted(x)) <= Cardinality(Prompted(x)')
          BY <3>4, <5>1, AskersAreFinite, FS_Subset
        <5> QED BY <4>2, <5>2, <3>4, AskersAreFinite
      <4> QED BY <4>1, <4>2
    <3>6. ReceivedRows(x, sends[x].target)' = ReceivedRows(x, sends[x].target)
      BY <1>1 DEF ReceivedRows
    <3>7. /\ Cardinality(Prompted(x)) \in Nat /\ Cardinality(Prompted(x)') \in Nat
          /\ Cardinality(ReceivedRows(x, sends[x].target)) \in Nat
          /\ Cardinality(Undelivered(x)) \in Nat
      BY <1>0, <2>0, <3>2, <3>4, AskersAreFinite, ReceivedIsFinite, PlacesAreFinite
    <3>8. Counted(x) BY DEF MessagesInv
    <3> QED BY <3>3, <3>5, <3>6, <3>7, <3>8 DEF Counted
  <2> QED BY <2>2, <2>3
<1>11. ASSUME NEW o \in Contexts, NEW k \in DOMAIN inbox'[o]
       PROVE  sends[inbox'[o][k]].target = o
  <2>1. HandedTo(o) BY <1>0
  <2>2. CASE inbox'[o] = inbox[o] BY <2>1, <2>2 DEF HandedTo
  <2>3. CASE inbox'[o] # inbox[o]
    <3>1. o = c /\ inbox'[o] = Append(s, d[1]) /\ s = inbox[o] BY <1>6, <1>7, <2>3
    <3>2. CASE k \in DOMAIN s
      <4>1. inbox'[o][k] = s[k] BY <1>0, <3>1, <3>2
      <4> QED BY <2>1, <3>1, <3>2, <4>1 DEF HandedTo
    <3>3. CASE k = Len(s) + 1
      <4>1. inbox'[o][k] = d[1] BY <1>0, <3>1, <3>3
      <4> QED BY <1>5, <3>1, <4>1
    <3>4. DOMAIN Append(s, d[1]) = DOMAIN s \cup {Len(s) + 1} BY <1>0
    <3> QED BY <3>1, <3>2, <3>3, <3>4
  <2> QED BY <2>2, <2>3
<1>12. /\ \A o \in Contexts : \A m \in fetch'[o] : ReceivedRows(m, o) # {}
       /\ \A t \in taken' : ReceivedRows(t[2], t[1]) # {}
  BY <1>0, <1>1 DEF MessagesInv, HandedTo
<1>13. \A e \in Deliveries : requests[e].at = "none" => requests'[e].at = "none"
  BY <1>1, <1>4
<1> QED BY <1>1, <1>2, <1>8, <1>9, <1>10, <1>11, <1>12, <1>13, BrokerFrame

LEMMA AnswerKeeps ==
  ASSUME MessagesInv, NEW d \in Deliveries, Answer(d)
  PROVE  MessagesInv'
<1>0. /\ sends \in [Recipients -> SendingSet] /\ requests \in [Deliveries -> RequestSet]
      /\ rows \in [Contexts -> Seq(Row)] /\ inbox \in [Contexts -> Seq(Recipients)]
      /\ \A e \in Deliveries : RequestIs(e)
      /\ \A c \in Contexts : HandedTo(c)
  BY DEF MessagesInv, MessageTypes
<1>1. /\ UNCHANGED <<designated, broker, rows, sends, inbox, fetch, taken>>
      /\ requests[d].at = "prompting"
      /\ (HasFetched(d) /\ RequestTo(d, "accepted")) \/ RequestTo(d, "refused")
  BY DEF Answer, RequestAt, log, pis
<1>2. Unheard BY <1>0, <1>1 DEF Unheard, ReceivedRows, IsSent
<1>3. PICK q \in RequestSet : /\ requests' = [requests EXCEPT ![d] = q] /\ q.of = requests[d].of
                              /\ q.at \in {"accepted", "refused"}
                              /\ q.at = "accepted" => HasFetched(d)
  <2>1. requests[d] \in RequestSet BY <1>0
  <2>2. PICK a, b \in RequestSet : /\ a = [requests[d] EXCEPT !.at = "accepted"]
                                   /\ b = [requests[d] EXCEPT !.at = "refused"]
    BY <2>1 DEF RequestSet, RequestPlaces
  <2> QED BY <1>1, <2>1, <2>2 DEF RequestTo, RequestSet
<1>4. \A e \in Deliveries : requests'[e] = IF e = d THEN q ELSE requests[e]
  BY <1>0, <1>3
<1>5. MessageTypes' BY <1>0, <1>1, <1>3 DEF MessagesInv, MessageTypes
<1>6. ASSUME NEW e \in Deliveries PROVE RequestIs(e)'
  <2>1. CASE e = d
    <3>1. q.at = "accepted" => ReceivedRows(d[1], requests[d].of) # {}
      BY <1>3 DEF HasFetched
    <3>2. requests[d].of = sends[d[1]].target BY <1>0, <1>1 DEF RequestIs
    <3> QED BY <1>1, <1>3, <1>4, <2>1, <3>1, <3>2 DEF RequestIs, ReceivedRows
  <2>2. CASE e # d
    <3>1. RequestIs(e) /\ requests'[e] = requests[e] BY <1>0, <1>4, <2>2
    <3> QED BY <1>1, <3>1 DEF RequestIs, ReceivedRows
  <2> QED BY <2>1, <2>2
<1>7. ASSUME NEW x \in Recipients PROVE Counted(x)'
  <2>1. ASSUME NEW o \in Askers, requests[<<x, o>>].at \notin {"none", "asked"}
        PROVE  requests'[<<x, o>>].at \notin {"none", "asked"}
    <3>1. <<x, o>> \in Deliveries BY DEF Deliveries
    <3> QED BY <1>3, <1>4, <2>1, <3>1
  <2> QED BY <1>1, <1>2, <2>1, CountStands
<1>8. /\ \A o \in Contexts : \A k \in DOMAIN inbox'[o] : sends[inbox'[o][k]].target = o
      /\ \A o \in Contexts : \A m \in fetch'[o] : ReceivedRows(m, o) # {}
      /\ \A t \in taken' : ReceivedRows(t[2], t[1]) # {}
  BY <1>0, <1>1 DEF MessagesInv, HandedTo
<1>9. \A e \in Deliveries : requests[e].at = "none" => requests'[e].at = "none"
  BY <1>1, <1>4
<1> QED BY <1>1, <1>2, <1>5, <1>6, <1>7, <1>8, <1>9, BrokerFrame

LEMMA TakeKeeps ==
  ASSUME MessagesInv, NEW c \in Contexts, Take(c)
  PROVE  MessagesInv'
<1>0. /\ sends \in [Recipients -> SendingSet] /\ requests \in [Deliveries -> RequestSet]
      /\ rows \in [Contexts -> Seq(Row)] /\ inbox \in [Contexts -> Seq(Recipients)]
      /\ fetch \in [Contexts -> SUBSET Recipients] /\ taken \subseteq Contexts \X Recipients
      /\ \A e \in Deliveries : RequestIs(e)
      /\ \A o \in Contexts : HandedTo(o)
  BY DEF MessagesInv, MessageTypes
<1>1. /\ UNCHANGED <<designated, broker, sends, requests, inbox>>
      /\ fetch' = [fetch EXCEPT ![c] = {}]
      /\ CorrelateAll(rows, c) \/ CorrelatePart(rows, c)
      /\ taken' = taken \cup ({c} \X fetch[c]) \/ taken' = taken
  BY DEF Take
<1>2. Unheard BY <1>0, <1>1, CorrelateRecords, UnheardRows
<1>3. MessageTypes' BY <1>0, <1>1, <1>2 DEF MessagesInv, MessageTypes, Unheard
<1>4. \A x \in Recipients, o \in Contexts : ReceivedRows(x, o)' = ReceivedRows(x, o)
  BY <1>2 DEF Unheard
<1>5. ASSUME NEW e \in Deliveries PROVE RequestIs(e)'
  <2>1. RequestIs(e) /\ e[1] \in Recipients /\ requests[e].of \in Contexts
    BY <1>0 DEF Deliveries, RequestSet
  <2>2. ReceivedRows(e[1], requests[e].of)' = ReceivedRows(e[1], requests[e].of)
    BY <1>1, <1>4, <2>1 DEF ReceivedRows
  <2> QED BY <1>1, <2>1, <2>2 DEF RequestIs
<1>6. \A x \in Recipients : Counted(x)' BY <1>1, <1>2, CountStands
<1>7. \A o \in Contexts : \A k \in DOMAIN inbox'[o] : sends[inbox'[o][k]].target = o
  BY <1>0, <1>1 DEF HandedTo
<1>8. \A o \in Contexts : \A m \in fetch'[o] : ReceivedRows(m, o) # {}
  BY <1>0, <1>1 DEF HandedTo
<1>9. ASSUME NEW t \in taken' PROVE ReceivedRows(t[2], t[1]) # {}
  <2>1. CASE t \in taken BY <2>1 DEF MessagesInv
  <2>2. CASE t \in {c} \X fetch[c] BY <1>0, <2>2 DEF HandedTo
  <2> QED BY <1>1, <2>1, <2>2
<1> QED BY <1>1, <1>2, <1>3, <1>5, <1>6, <1>7, <1>8, <1>9, BrokerFrame

LEMMA BrokerEndsKeeps ==
  ASSUME MessagesInv, NEW c \in Contexts, BrokerEnds(c)
  PROVE  MessagesInv'
<1>0. /\ sends \in [Recipients -> SendingSet] /\ requests \in [Deliveries -> RequestSet]
      /\ rows \in [Contexts -> Seq(Row)] /\ inbox \in [Contexts -> Seq(Recipients)]
      /\ fetch \in [Contexts -> SUBSET Recipients] /\ taken \subseteq Contexts \X Recipients
      /\ broker \in [Contexts -> BOOLEAN]
      /\ \A e \in Deliveries : RequestIs(e)
      /\ \A o \in Contexts : HandedTo(o)
  BY DEF MessagesInv, MessageTypes
<1>1. /\ UNCHANGED <<designated, taken>> /\ broker' = [broker EXCEPT ![c] = FALSE]
      /\ UNCHANGED rows \/ CorrelatePart(rows, c)
      /\ inbox' = [inbox EXCEPT ![c] = <<>>] /\ fetch' = [fetch EXCEPT ![c] = {}]
  BY DEF BrokerEnds, log
<1>2. Unheard
  <2>1. CASE UNCHANGED rows BY <1>0, <2>1 DEF Unheard, ReceivedRows, IsSent
  <2>2. CASE CorrelatePart(rows, c) BY <1>0, <2>2, CorrelateRecords, UnheardRows
  <2> QED BY <1>1, <2>1, <2>2
<1>3. /\ sends' \in [Recipients -> SendingSet]
      /\ \A x \in Recipients : /\ sends'[x].target = sends[x].target
                               /\ sends'[x].outcome = sends[x].outcome
                               /\ sends'[x].at \in {sends[x].at, "dead"}
  <2>1. \A s \in SendingSet : /\ [s EXCEPT !.at = "dead"] \in SendingSet
                              /\ [s EXCEPT !.at = "dead"].target = s.target
                              /\ [s EXCEPT !.at = "dead"].outcome = s.outcome
                              /\ [s EXCEPT !.at = "dead"].at = "dead"
    BY DEF SendingSet, SendPlaces
  <2> QED BY <1>0, <2>1 DEF BrokerEnds
<1>4. /\ requests' \in [Deliveries -> RequestSet]
      /\ \A e \in Deliveries :
           \/ requests'[e] = requests[e]
           \/ /\ requests'[e].at = "lost" /\ requests'[e].of = requests[e].of
              /\ requests[e].at \in {"asked", "prompting"}
  <2>1. \A q \in RequestSet : /\ [q EXCEPT !.at = "lost"] \in RequestSet
                              /\ [q EXCEPT !.at = "lost"].of = q.of
                              /\ [q EXCEPT !.at = "lost"].at = "lost"
    BY DEF RequestSet, RequestPlaces
  <2> QED BY <1>0, <2>1 DEF BrokerEnds
<1>5. inbox' \in [Contexts -> Seq(Recipients)]
  <2>1. <<>> \in Seq(Recipients) OBVIOUS
  <2> QED BY <1>0, <1>1, <2>1
<1>6. MessageTypes'
  BY <1>0, <1>1, <1>2, <1>3, <1>4, <1>5 DEF MessagesInv, MessageTypes, Unheard
<1>7. \A x \in Recipients, o \in Contexts : ReceivedRows(x, o)' = ReceivedRows(x, o)
  BY <1>2 DEF Unheard
<1>8. ASSUME NEW e \in Deliveries PROVE RequestIs(e)'
  <2>1. RequestIs(e) /\ e[1] \in Recipients /\ requests[e].of \in Contexts
    BY <1>0 DEF Deliveries, RequestSet
  <2>2. requests'[e].of = requests[e].of BY <1>4
  <2>3. ReceivedRows(e[1], requests[e].of)' = ReceivedRows(e[1], requests[e].of)
    BY <1>7, <2>1, <2>2 DEF ReceivedRows
  <2> QED BY <1>3, <1>4, <2>1, <2>2, <2>3 DEF RequestIs
<1>9. ASSUME NEW x \in Recipients PROVE Counted(x)'
  <2>1. sends[x].target \in Contexts BY <1>0 DEF SendingSet
  <2>2. inbox'[sends[x].target] \in {inbox[sends[x].target], <<>>} BY <1>0, <1>1, <2>1
  <2>3. \A o \in Askers : requests[<<x, o>>].at \notin {"none", "asked"}
                            => requests'[<<x, o>>].at \notin {"none", "asked"}
    BY <1>4 DEF Deliveries
  <2> QED BY <1>2, <1>3, <2>2, <2>3, CountStands
<1>10. \A o \in Contexts : \A k \in DOMAIN inbox'[o] : sends[inbox'[o][k]].target = o
  BY <1>0, <1>1 DEF HandedTo
<1>11. \A o \in Contexts : \A m \in fetch'[o] : ReceivedRows(m, o) # {}
  BY <1>0, <1>1 DEF HandedTo
<1>12. \A t \in taken' : ReceivedRows(t[2], t[1]) # {}
  BY <1>1 DEF MessagesInv
<1>13. \A e \in Deliveries : requests[e].at = "none" => requests'[e].at = "none"
  BY <1>4
<1> QED BY <1>2, <1>3, <1>6, <1>8, <1>9, <1>10, <1>11, <1>12, <1>13, BrokerFrame

\* A position that passes to its next session, a broker that reopens.
LEMMA PassingKeeps ==
  ASSUME MessagesInv,
         (\E p \in Positions : Succeed(p)) \/ (\E c \in Contexts : BrokerReopens(c))
  PROVE  MessagesInv'
<1>0. /\ sends \in [Recipients -> SendingSet] /\ requests \in [Deliveries -> RequestSet]
      /\ rows \in [Contexts -> Seq(Row)]
      /\ broker \in [Contexts -> BOOLEAN] /\ designated \in [Positions -> {1, 2}]
      /\ \A e \in Deliveries : RequestIs(e)
      /\ \A o \in Contexts : HandedTo(o)
  BY DEF MessagesInv, MessageTypes
<1>1. /\ UNCHANGED <<sends, requests, inbox, fetch, taken>>
      /\ designated' \in [Positions -> {1, 2}] /\ broker' \in [Contexts -> BOOLEAN]
  BY <1>0 DEF Succeed, BrokerReopens, pis
<1>2. Unheard
  <2>1. CASE \E p \in Positions : Succeed(p)
    BY <1>0, <2>1 DEF Succeed, log, Unheard, ReceivedRows, IsSent
  <2>2. CASE \E c \in Contexts : BrokerReopens(c)
    BY <1>0, <2>2, CorrelateRecords, UnheardRows DEF BrokerReopens
  <2> QED BY <2>1, <2>2
<1>3. MessageTypes' BY <1>1, <1>2 DEF MessagesInv, MessageTypes, Unheard
<1>4. \A x \in Recipients, o \in Contexts : ReceivedRows(x, o)' = ReceivedRows(x, o)
  BY <1>2 DEF Unheard
<1>5. ASSUME NEW e \in Deliveries PROVE RequestIs(e)'
  <2>1. RequestIs(e) /\ e[1] \in Recipients /\ requests[e].of \in Contexts
    BY <1>0 DEF Deliveries, RequestSet
  <2>2. ReceivedRows(e[1], requests[e].of)' = ReceivedRows(e[1], requests[e].of)
    BY <1>1, <1>4, <2>1 DEF ReceivedRows
  <2> QED BY <1>1, <2>1, <2>2 DEF RequestIs
<1>6. \A x \in Recipients : Counted(x)' BY <1>1, <1>2, CountStands
<1>7. /\ \A o \in Contexts : \A k \in DOMAIN inbox'[o] : sends[inbox'[o][k]].target = o
      /\ \A o \in Contexts : \A m \in fetch'[o] : ReceivedRows(m, o) # {}
      /\ \A t \in taken' : ReceivedRows(t[2], t[1]) # {}
  BY <1>0, <1>1 DEF MessagesInv, HandedTo
<1> QED BY <1>1, <1>2, <1>3, <1>5, <1>6, <1>7, BrokerFrame

LEMMA FetchKeeps ==
  ASSUME MessagesInv, NEW c \in Contexts, Fetch(c)
  PROVE  MessagesInv'
<1>0. /\ sends \in [Recipients -> SendingSet] /\ requests \in [Deliveries -> RequestSet]
      /\ rows \in [Contexts -> Seq(Row)] /\ inbox \in [Contexts -> Seq(Recipients)]
      /\ fetch \in [Contexts -> SUBSET Recipients]
      /\ \A e \in Deliveries : RequestIs(e)
      /\ \A o \in Contexts : HandedTo(o)
      /\ \A x \in Recipients : SendingIs(x) /\ Counted(x)
  BY DEF MessagesInv, MessageTypes
<1>1. PICK s \in Seq(Recipients) : s = inbox[c] BY <1>0
<1>2. s # <<>> BY <1>1 DEF Fetch
<1>3. PICK m \in Recipients : m = Head(s) BY <1>2
<1>4. /\ UNCHANGED <<designated, broker, sends, requests, taken>>
      /\ inbox' = [inbox EXCEPT ![c] = Tail(s)]
      /\ \/ rows' = Inserted(c, "received", m) /\ fetch' = [fetch EXCEPT ![c] = {m}]
         \/ UNCHANGED <<rows, fetch>>
  BY <1>1, <1>3 DEF Fetch
<1>5. Tail(s) \in Seq(Recipients) /\ DOMAIN Tail(s) = 1 .. (Len(s) - 1) /\ Len(s) \in Nat
      /\ DOMAIN s = 1 .. Len(s)
      /\ (\A k \in 1 .. (Len(s) - 1) : Tail(s)[k] = s[k + 1]) /\ m = s[1] /\ Len(s) >= 1
  BY <1>2, <1>3
<1>6. sends[m].target = c BY <1>0, <1>1, <1>5 DEF HandedTo
<1>7. \A o \in Contexts : \A k \in DOMAIN inbox'[o] : sends[inbox'[o][k]].target = o
  <2>1. ASSUME NEW k \in DOMAIN Tail(s) PROVE sends[Tail(s)[k]].target = c
    <3>1. k + 1 \in DOMAIN s /\ Tail(s)[k] = s[k + 1] BY <1>5
    <3> QED BY <1>0, <1>1, <3>1 DEF HandedTo
  <2>2. inbox'[c] = Tail(s) /\ \A o \in Contexts \ {c} : inbox'[o] = inbox[o] BY <1>0, <1>4
  <2> QED BY <1>0, <2>1, <2>2 DEF HandedTo
<1>8. inbox' \in [Contexts -> Seq(Recipients)] BY <1>0, <1>4, <1>5
<1>9. ASSUME NEW x \in Recipients
      PROVE  /\ Cardinality(Undelivered(x)) \in Nat /\ Cardinality(Undelivered(x)') \in Nat
             /\ Cardinality(Undelivered(x)') + (IF x = m THEN 1 ELSE 0)
                  <= Cardinality(Undelivered(x))
  <2>0. sends[x].target \in Contexts BY <1>0 DEF SendingSet
  <2>1. CASE sends[x].target = c
    <3>1. Undelivered(x) = Places(s, x) /\ Undelivered(x)' = Places(Tail(s), x)
      BY <1>0, <1>1, <1>4, <2>1 DEF Undelivered, Places
    <3> QED BY <1>2, <1>3, <1>5, <3>1, PlacesAreFinite, PlacesAfterTail
  <2>2. CASE sends[x].target # c
    <3>1. x # m BY <1>6, <2>2
    <3>2. Undelivered(x)' = Undelivered(x) BY <1>0, <1>4, <2>0, <2>2 DEF Undelivered, Places
    <3>3. Cardinality(Undelivered(x)) \in Nat BY <1>0, <2>0, PlacesAreFinite DEF Undelivered
    <3> QED BY <3>1, <3>2, <3>3
  <2> QED BY <2>1, <2>2
<1>10. \A x \in Recipients : Prompted(x)' = Prompted(x) BY <1>4 DEF Prompted
<1>11. ASSUME NEW x \in Recipients
       PROVE  /\ Cardinality(ReceivedRows(x, sends[x].target)) \in Nat
              /\ Cardinality(Prompted(x)) \in Nat
  <2>1. sends[x].target \in Contexts /\ Prompted(x) \in SUBSET Askers
    BY <1>0 DEF SendingSet, Prompted
  <2> QED BY <1>0, <2>1, ReceivedIsFinite, AskersAreFinite
<1>12. CASE UNCHANGED <<rows, fetch>>
  <2>1. Unheard BY <1>0, <1>12 DEF Unheard, ReceivedRows, IsSent
  <2>2. MessageTypes' BY <1>0, <1>4, <1>8, <1>12 DEF MessagesInv, MessageTypes
  <2>3. \A e \in Deliveries : RequestIs(e)' BY <1>0, <1>4, <1>12 DEF RequestIs, ReceivedRows
  <2>4. ASSUME NEW x \in Recipients PROVE Counted(x)'
    <3>1. ReceivedRows(x, sends[x].target)' = ReceivedRows(x, sends[x].target)
      BY <1>4, <1>12 DEF ReceivedRows
    <3>2. Counted(x) BY <1>0
    <3> QED BY <1>9, <1>10, <1>11, <3>1, <3>2 DEF Counted
  <2>5. /\ \A o \in Contexts : \A x \in fetch'[o] : ReceivedRows(x, o) # {}
        /\ \A t \in taken' : ReceivedRows(t[2], t[1]) # {}
    BY <1>0, <1>4, <1>12 DEF MessagesInv, HandedTo
  <2> QED BY <1>4, <1>7, <2>1, <2>2, <2>3, <2>4, <2>5, BrokerFrame
<1>13. CASE rows' = Inserted(c, "received", m) /\ fetch' = [fetch EXCEPT ![c] = {m}]
  <2>1. OneMore(rows', c, "received", m) BY <1>0, <1>13, InsertedIs
  <2>2. PICK n \in Nat : n = Len(rows[c]) + 1 /\ n \notin DOMAIN rows[c]
    <3>1. PICK q \in Seq(Row) : q = rows[c] BY <1>0
    <3> QED BY <3>1
  <2>3. /\ rows' \in [Contexts -> Seq(Row)]
        /\ \A o \in Contexts \ {c} : rows'[o] = rows[o]
        /\ DOMAIN rows'[c] = DOMAIN rows[c] \cup {n}
        /\ \A i \in DOMAIN rows[c] : rows'[c][i] = rows[c][i]
        /\ rows'[c][n].kind = "received" /\ rows'[c][n].message = m
    BY <2>1, <2>2 DEF OneMore
  <2>4. ReceivedRows(m, c)' = ReceivedRows(m, c) \cup {n} /\ n \notin ReceivedRows(m, c)
    BY <2>2, <2>3 DEF ReceivedRows
  <2>5. \A x \in Recipients, o \in Contexts :
          x # m \/ o # c => ReceivedRows(x, o)' = ReceivedRows(x, o)
    BY <2>3 DEF ReceivedRows
  <2>6. \A x \in Recipients, o \in Contexts : ReceivedRows(x, o) \subseteq ReceivedRows(x, o)'
    BY <2>4, <2>5
  <2>7. ASSUME NEW x \in Recipients, IsSent(x) PROVE IsSent(x)'
    <3>1. PICK i \in DOMAIN rows[SenderContext] : /\ rows[SenderContext][i].kind = "sent"
                                                  /\ rows[SenderContext][i].message = x
      BY <2>7 DEF IsSent
    <3>2. /\ i \in DOMAIN rows'[SenderContext] /\ rows'[SenderContext][i].kind = "sent"
          /\ rows'[SenderContext][i].message = x
      BY <2>3, <3>1, SenderSpeaks
    <3> QED BY <3>2 DEF IsSent, SenderContext
  <2>8. MessageTypes' BY <1>0, <1>4, <1>8, <1>13, <2>3 DEF MessagesInv, MessageTypes
  <2>9. ASSUME NEW x \in Recipients PROVE SendingIs(x)'
    <3>1. SendingIs(x) /\ sends[x].target \in Contexts BY <1>0 DEF SendingSet
    <3>2. ReceivedRows(x, sends[x].target) \subseteq ReceivedRows(x, sends[x].target)'
      BY <1>4, <2>6, <3>1 DEF ReceivedRows
    <3> QED BY <1>4, <2>7, <3>1, <3>2 DEF SendingIs
  <2>10. ASSUME NEW e \in Deliveries PROVE RequestIs(e)'
    <3>1. RequestIs(e) /\ e[1] \in Recipients /\ requests[e].of \in Contexts
      BY <1>0 DEF Deliveries, RequestSet
    <3>2. ReceivedRows(e[1], requests[e].of) \subseteq ReceivedRows(e[1], requests[e].of)'
      BY <1>4, <2>6, <3>1 DEF ReceivedRows
    <3> QED BY <1>4, <3>1, <3>2 DEF RequestIs
  <2>11. ASSUME NEW x \in Recipients PROVE Counted(x)'
    <3>0. sends[x].target \in Contexts BY <1>0 DEF SendingSet
    <3>1. Cardinality(ReceivedRows(x, sends[x].target)')
            = Cardinality(ReceivedRows(x, sends[x].target)) + (IF x = m THEN 1 ELSE 0)
      <4>1. CASE x = m
        <5>1. ReceivedRows(x, sends[x].target)' = ReceivedRows(m, c) \cup {n}
          BY <1>4, <1>6, <2>4, <4>1 DEF ReceivedRows
        <5>2. IsFiniteSet(ReceivedRows(m, c)) BY <1>0, ReceivedIsFinite
        <5>3. Cardinality(ReceivedRows(m, c) \cup {n}) = Cardinality(ReceivedRows(m, c)) + 1
          BY <2>4, <5>2, FS_AddElement
        <5> QED BY <1>6, <4>1, <5>1, <5>3
      <4>2. CASE x # m
        <5>1. ReceivedRows(x, sends[x].target)' = ReceivedRows(x, sends[x].target)
          BY <1>4, <2>5, <3>0, <4>2 DEF ReceivedRows
        <5> QED BY <1>11, <4>2, <5>1
      <4> QED BY <4>1, <4>2
    <3>2. Counted(x) BY <1>0
    <3> QED BY <1>9, <1>10, <1>11, <3>1, <3>2 DEF Counted
  <2>12. ASSUME NEW o \in Contexts PROVE HandedTo(o)'
    <3>1. HandedTo(o) BY <1>0
    <3>2. \A x \in Recipients : ReceivedRows(x, o)' # {} => sends[x].target = o
      BY <1>6, <2>5, <3>1 DEF HandedTo
    <3>3. ReceivedRows(m, c)' # {} BY <2>4
    <3>4. \A x \in fetch'[o] : ReceivedRows(x, o)' # {}
      <4>1. CASE o = c BY <1>0, <1>13, <3>3, <4>1
      <4>2. CASE o # c
        <5>1. fetch'[o] = fetch[o] /\ fetch[o] \subseteq Recipients BY <1>0, <1>13, <4>2
        <5> QED BY <2>6, <3>1, <5>1 DEF HandedTo
      <4> QED BY <4>1, <4>2
    <3> QED BY <1>4, <1>7, <3>2, <3>4 DEF HandedTo
  <2>13. \A t \in taken' : ReceivedRows(t[2], t[1])' # {}
    <3>1. \A t \in taken : t[2] \in Recipients /\ t[1] \in Contexts
      BY DEF MessagesInv, MessageTypes
    <3> QED BY <1>4, <2>6, <3>1 DEF MessagesInv
  <2> QED BY <2>8, <2>9, <2>10, <2>11, <2>12, <2>13 DEF MessagesInv
<1> QED BY <1>4, <1>12, <1>13

LEMMA MessagesStutters ==
  ASSUME MessagesInv, UNCHANGED messageVars
  PROVE  MessagesInv'
<1>1. UNCHANGED <<designated, broker, rows, sends, requests, inbox, fetch, taken>>
  BY DEF messageVars, log, pis
<1>2. \A m, c : ReceivedRows(m, c)' = ReceivedRows(m, c) BY <1>1 DEF ReceivedRows
<1>3. \A m : IsSent(m)' = IsSent(m) BY <1>1 DEF IsSent
<1>4. \A m : Undelivered(m)' = Undelivered(m) BY <1>1 DEF Undelivered, Places
<1>5. \A m : Prompted(m)' = Prompted(m) BY <1>1 DEF Prompted
<1>6. MessageTypes' BY <1>1 DEF MessagesInv, MessageTypes
<1>7. ASSUME NEW r \in Recipients PROVE SendingIs(r)' /\ Counted(r)'
  <2>1. SendingIs(r) /\ Counted(r) BY DEF MessagesInv
  <2>2. ReceivedRows(r, sends[r].target)' = ReceivedRows(r, sends[r].target)
    BY <1>1 DEF ReceivedRows
  <2>3. SendingIs(r)' BY <1>1, <1>3, <2>1, <2>2 DEF SendingIs
  <2>4. Counted(r)' BY <1>4, <1>5, <2>1, <2>2 DEF Counted
  <2> QED BY <2>3, <2>4
<1>8. ASSUME NEW d \in Deliveries PROVE RequestIs(d)'
  BY <1>1 DEF MessagesInv, RequestIs, ReceivedRows
<1>9. ASSUME NEW c \in Contexts PROVE HandedTo(c)'
  BY <1>1 DEF MessagesInv, HandedTo, ReceivedRows
<1> QED BY <1>1, <1>2, <1>6, <1>7, <1>8, <1>9 DEF MessagesInv

LEMMA MessagesNextKeeps ==
  ASSUME MessagesInv, [MessagesNext]_messageVars
  PROVE  MessagesInv'
BY SendingKeeps, PromptKeeps, AnswerKeeps, FetchKeeps, TakeKeeps, BrokerEndsKeeps, PassingKeeps,
   MessagesStutters DEF MessagesNext

LEMMA MessagesInitKeeps ==
  ASSUME MessagesInit
  PROVE  MessagesInv
<1>1. PICK number \in [Recipients -> {1, 2}] :
        sends = [r \in Recipients |-> [at |-> "select", target |-> <<r, number[r]>>,
                                       bound |-> FALSE, outcome |-> "none"]]
  BY DEF MessagesInit
<1>2. \A r \in Recipients : <<r, number[r]>> \in Contexts
  BY DEF Contexts, Positions
<1>3. sends \in [Recipients -> SendingSet]
  BY <1>1, <1>2 DEF SendingSet, SendPlaces
<1>4. requests \in [Deliveries -> RequestSet] /\ \A d \in Deliveries : requests[d].at = "none"
  BY SenderSpeaks DEF MessagesInit, Unasked, RequestSet, RequestPlaces
<1>5. \A S : <<>> \in Seq(S) OBVIOUS
<1>6. /\ rows \in [Contexts -> Seq(Row)] /\ inbox \in [Contexts -> Seq(Recipients)]
      /\ \A c \in Contexts : rows[c] = <<>> /\ inbox[c] = <<>>
  BY <1>5 DEF MessagesInit
<1>7. MessageTypes
  BY <1>3, <1>4, <1>6 DEF MessagesInit, MessageTypes
<1>8. \A r \in Recipients : SendingIs(r)
  <2>1. \A r \in Recipients : <<r, "thread">> \in Deliveries BY DEF Deliveries, Askers
  <2> QED BY <1>1, <1>4, <2>1 DEF SendingIs
<1>9. \A m, c : c \in Contexts => ReceivedRows(m, c) = {} BY <1>6 DEF ReceivedRows
<1>10. ASSUME NEW r \in Recipients PROVE Counted(r)
  <2>1. sends[r].target \in Contexts BY <1>1, <1>2
  <2>2. Undelivered(r) = {} /\ ReceivedRows(r, sends[r].target) = {}
    BY <1>6, <1>9, <2>1 DEF Undelivered, Places
  <2>3. Prompted(r) = {} BY <1>4 DEF Prompted, Deliveries
  <2> QED BY <2>2, <2>3, FS_EmptySet DEF Counted
<1>11. \A d \in Deliveries : RequestIs(d) BY <1>4 DEF RequestIs
<1>12. \A c \in Contexts : HandedTo(c) BY <1>6, <1>9 DEF HandedTo, MessagesInit
<1> QED BY <1>7, <1>8, <1>10, <1>11, <1>12 DEF MessagesInv, MessagesInit

LEMMA OutcomeImplied ==
  ASSUME MessagesInv
  PROVE  OutcomeIsTrue
<1>0. /\ sends \in [Recipients -> SendingSet] /\ rows \in [Contexts -> Seq(Row)]
      /\ \A x \in Recipients : SendingIs(x) /\ Counted(x)
      /\ inbox \in [Contexts -> Seq(Recipients)]
  BY DEF MessagesInv, MessageTypes
<1>1. ASSUME NEW r \in Recipients
      PROVE  LET fetched == Cardinality(ReceivedRows(r, sends[r].target))
             IN /\ sends[r].outcome = "accepted" => fetched > 0 /\ IsSent(r)
                /\ sends[r].outcome = "not-dispatched" => Dispatched(r) \subseteq {"operator"}
                /\ fetched <= Cardinality(Dispatched(r))
  <2>0. sends[r].target \in Contexts BY <1>0 DEF SendingSet
  <2> DEFINE fetched == Cardinality(ReceivedRows(r, sends[r].target))
  <2>1. /\ IsFiniteSet(ReceivedRows(r, sends[r].target)) /\ fetched \in Nat
        /\ Cardinality(Undelivered(r)) \in Nat
    BY <1>0, <2>0, ReceivedIsFinite, PlacesAreFinite DEF Undelivered
  <2>2. sends[r].outcome = "accepted" => fetched > 0 /\ IsSent(r)
    <3>1. SendingIs(r) BY <1>0
    <3>2. ReceivedRows(r, sends[r].target) # {} => fetched # 0 BY <2>1, FS_EmptySet
    <3>3. ReceivedRows(r, sends[r].target) # {} => fetched > 0 BY <2>1, <3>2
    <3> QED BY <3>1, <3>3 DEF SendingIs
  <2>3. sends[r].outcome = "not-dispatched" => Dispatched(r) \subseteq {"operator"}
    BY <1>0 DEF SendingIs, Dispatched, Askers
  <2>4. Prompted(r) \subseteq Dispatched(r) /\ Dispatched(r) \in SUBSET Askers
        /\ Prompted(r) \in SUBSET Askers
    BY DEF Prompted, Dispatched
  <2>5. /\ Cardinality(Prompted(r)) <= Cardinality(Dispatched(r))
        /\ Cardinality(Prompted(r)) \in Nat /\ Cardinality(Dispatched(r)) \in Nat
    BY <2>4, AskersAreFinite, FS_Subset
  <2>6. fetched + Cardinality(Undelivered(r)) <= Cardinality(Prompted(r))
    BY <1>0 DEF Counted
  <2>7. fetched <= Cardinality(Dispatched(r)) BY <2>1, <2>5, <2>6
  <2> QED BY <2>2, <2>3, <2>7
<1>2. ASSUME NEW c \in Contexts, NEW i \in DOMAIN rows[c], rows[c][i].kind = "received"
      PROVE  sends[rows[c][i].message].target = c
  <2>1. i \in ReceivedRows(rows[c][i].message, c) BY <1>2 DEF ReceivedRows
  <2>2. rows[c][i].message \in Recipients
    <3>1. rows[c][i] \in Row BY <1>0
    <3> QED BY <3>1 DEF Row
  <2>3. HandedTo(c) BY DEF MessagesInv
  <2> QED BY <2>1, <2>2, <2>3 DEF HandedTo
<1> QED BY <1>1, <1>2 DEF OutcomeIsTrue, MessagesInv

(* What message tells the sender is true of the message, then and ever     *)
(* after, and nothing is fetched more often than it was dispatched, by a   *)
(* successor of its exact target, or unrecorded (deliver, message and      *)
(* fanout, noetic_sessions.py:737-880; agent_delivery, :1285).             *)
THEOREM OutcomeStaysTrue == MessagesSpec => []OutcomeIsTrue
<1>1. MessagesInv /\ [MessagesNext]_messageVars => MessagesInv' BY MessagesNextKeeps
<1>2. MessagesInv => OutcomeIsTrue BY OutcomeImplied
<1> QED BY MessagesInitKeeps, <1>1, <1>2, PTL DEF MessagesSpec

-----------------------------------------------------------------------------
(* The history of the domain.                                              *)

\* The marked rows of a session are its first.
MarkedUpTo(events, m) == \A i \in DOMAIN events : events[i].marked <=> i <= m

\* Each entry of a history follows the entries of all rows before its own.
Orderly(history) ==
  \A k \in DOMAIN history : 1 .. (history[k] - 1) \subseteq {history[l] : l \in 1 .. (k - 1)}

\* A session's history holds what is marked, and of what it holds twice some
\* correlation was interrupted.
HistoryUpTo(history, m, n, cut) ==
  /\ history \in Seq(Nat) /\ Orderly(history)
  /\ \A k \in DOMAIN history : history[k] \in 1 .. n
  /\ 1 .. m \subseteq {history[k] : k \in DOMAIN history}
  /\ Len(history) <= m + cut

LogIs(all, c) ==
  \E m \in 0 .. Len(all[c]) :
    MarkedUpTo(all[c], m) /\ HistoryUpTo(correlated[c], m, Len(all[c]), interrupted)

HistoryInv ==
  /\ rows \in [Contexts -> Seq(Row)] /\ interrupted \in Nat
  /\ correlated \in [Contexts -> Seq(Nat)]
  /\ \A c \in Contexts : LogIs(rows, c)

\* When the marked rows are the first, the others follow them in their order.
LEMMA UnmarkedFollow ==
  ASSUME NEW all \in [Contexts -> Seq(Row)], NEW c \in Contexts, NEW m \in 0 .. Len(all[c]),
         MarkedUpTo(all[c], m)
  PROVE  Unmarked(all, c) = [k \in 1 .. (Len(all[c]) - m) |-> m + k]
<1> DEFINE left == {i \in DOMAIN all[c] : ~all[c][i].marked}
<1>1. PICK n \in Nat : n = Len(all[c]) /\ DOMAIN all[c] = 1 .. n
  <2>1. PICK s \in Seq(Row) : s = all[c] OBVIOUS
  <2> QED BY <2>1
<1>2. m \in Nat /\ m <= n BY <1>1
<1>3. left = (m + 1) .. n
  BY <1>1, <1>2 DEF MarkedUpTo
<1>4. Cardinality(left) = n - m
  <2>1. CASE m = n
    <3>1. left = {} BY <1>2, <1>3, <2>1
    <3>2. Cardinality(left) = 0 BY <3>1, FS_EmptySet
    <3>3. n - m = 0 BY <1>2, <2>1
    <3> HIDE DEF left
    <3> QED BY <3>2, <3>3
  <2>2. CASE m < n
    <3>1. m + 1 \in Int /\ n \in Int /\ ~(m + 1 > n) BY <1>2, <2>2
    <3>2. Cardinality((m + 1) .. n) = n - (m + 1) + 1 BY <3>1, FS_Interval
    <3>3. n - (m + 1) + 1 = n - m BY <1>2
    <3> HIDE DEF left
    <3> QED BY <1>3, <3>2, <3>3
  <2> QED BY <1>2, <2>1, <2>2
<1>5. ASSUME NEW i \in left
      PROVE  Cardinality({j \in left : j <= i}) = i - m
  <2>1. i \in Nat /\ m < i /\ i <= n BY <1>2, <1>3
  <2>2. {j \in left : j <= i} = (m + 1) .. i BY <1>2, <1>3, <2>1
  <2>3. m + 1 \in Int /\ i \in Int /\ ~(m + 1 > i) BY <1>2, <2>1
  <2>4. Cardinality((m + 1) .. i) = i - (m + 1) + 1 BY <2>3, FS_Interval
  <2>5. i - (m + 1) + 1 = i - m BY <1>2, <2>1
  <2> HIDE DEF left
  <2> QED BY <2>2, <2>4, <2>5
<1>6. ASSUME NEW k \in 1 .. (n - m)
      PROVE  (CHOOSE i \in left : Cardinality({j \in left : j <= i}) = k) = m + k
  <2>1. k \in Nat /\ m + k \in left
    <3>1. k \in Nat /\ m + 1 <= m + k /\ m + k <= n /\ m + k \in Nat BY <1>2
    <3>2. m + k \in (m + 1) .. n BY <1>2, <3>1
    <3> HIDE DEF left
    <3> QED BY <1>3, <3>1, <3>2
  <2>2. \A i \in left : Cardinality({j \in left : j <= i}) = k <=> i = m + k
    <3>1. \A i \in left : i \in Nat /\ (i - m = k <=> i = m + k) BY <1>2, <1>3, <2>1
    <3> HIDE DEF left
    <3> QED BY <1>5, <3>1
  <2> HIDE DEF left
  <2> QED BY <2>1, <2>2
<1>7. Unmarked(all, c) = [k \in 1 .. Cardinality(left) |->
                            CHOOSE i \in left : Cardinality({j \in left : j <= i}) = k]
  BY DEF Unmarked
<1> HIDE DEF left
<1> QED BY <1>1, <1>4, <1>6, <1>7

\* A history goes on with the rows that follow what is marked.
LEMMA HistoryGrows ==
  ASSUME NEW h, NEW m \in Nat, NEW n \in Nat, NEW cut \in Nat, HistoryUpTo(h, m, n, cut),
         NEW recorded \in Nat, NEW marked \in Nat, m + recorded <= n, marked <= recorded
  PROVE  HistoryUpTo(h \o [k \in 1 .. recorded |-> m + k], m + marked, n,
                     cut + (recorded - marked))
<1> DEFINE more == [k \in 1 .. recorded |-> m + k]
           g    == h \o more
<1>1. h \in Seq(Nat) /\ Len(h) \in Nat /\ DOMAIN h = 1 .. Len(h)
  BY DEF HistoryUpTo
<1>2. more \in Seq(Nat) /\ Len(more) = recorded
  <2>1. \A k \in 1 .. recorded : m + k \in Nat OBVIOUS
  <2> QED BY <2>1
<1>3. \A k \in 1 .. recorded : more[k] = m + k OBVIOUS
<1> HIDE DEF more
<1>4. /\ g \in Seq(Nat) /\ Len(g) = Len(h) + recorded /\ DOMAIN g = 1 .. (Len(h) + recorded)
      /\ \A k \in 1 .. Len(h) : g[k] = h[k]
      /\ \A k \in 1 .. recorded : g[Len(h) + k] = m + k
  <2>1. g \in Seq(Nat) /\ Len(g) = Len(h) + recorded BY <1>1, <1>2
  <2>2. DOMAIN g = 1 .. (Len(h) + recorded) BY <2>1
  <2>3. \A k \in 1 .. Len(h) : g[k] = h[k] BY <1>1, <1>2
  <2>4. ASSUME NEW k \in 1 .. recorded PROVE g[Len(h) + k] = m + k
    <3>1. g[Len(h) + k] = more[k] BY <1>1, <1>2
    <3> QED BY <1>3, <3>1
  <2> HIDE DEF g
  <2> QED BY <2>1, <2>2, <2>3, <2>4
<1> HIDE DEF g
<1>5. PICK l \in Nat : l = Len(h) BY <1>1
<1>6. \A k \in DOMAIN g : k \in 1 .. l \/ \E i \in 1 .. recorded : k = l + i
  <2>1. ASSUME NEW k \in 1 .. (l + recorded), k \notin 1 .. l
        PROVE  k - l \in 1 .. recorded /\ k = l + (k - l)
    BY <2>1
  <2> QED BY <1>4, <1>5, <2>1
<1>7. \A v \in 1 .. m : \E k \in 1 .. l : g[k] = v
  BY <1>1, <1>4, <1>5 DEF HistoryUpTo
<1>8. Orderly(g)
  <2> SUFFICES ASSUME NEW k \in DOMAIN g, NEW v \in 1 .. (g[k] - 1)
               PROVE  \E j \in 1 .. (k - 1) : g[j] = v
    BY DEF Orderly
  <2>1. CASE k \in 1 .. l
    <3>1. g[k] = h[k] /\ v \in {h[j] : j \in 1 .. (k - 1)}
      BY <1>1, <1>4, <1>5, <2>1 DEF HistoryUpTo, Orderly
    <3>2. PICK j \in 1 .. (k - 1) : h[j] = v BY <3>1
    <3>3. j \in 1 .. l BY <2>1, <1>5
    <3> QED BY <1>4, <1>5, <3>2, <3>3
  <2>2. CASE \E i \in 1 .. recorded : k = l + i
    <3>1. PICK i \in 1 .. recorded : k = l + i BY <2>2
    <3>2. g[k] = m + i BY <1>4, <1>5, <3>1
    <3>3. v \in 1 .. (m + i - 1) BY <3>2
    <3>4. CASE v <= m
      <4>1. PICK j \in 1 .. l : g[j] = v BY <1>7, <3>3, <3>4
      <4>2. j \in 1 .. (k - 1) BY <3>1, <4>1
      <4> QED BY <4>1, <4>2
    <3>5. CASE v > m
      <4>1. PICK j \in Nat : v = m + j /\ j \in 1 .. (i - 1)
        <5>1. v - m \in Nat /\ v = m + (v - m) /\ v - m \in 1 .. (i - 1) BY <3>3, <3>5
        <5> QED BY <5>1
      <4>2. j \in 1 .. recorded /\ l + j \in 1 .. (k - 1) BY <3>1, <4>1
      <4>3. g[l + j] = v BY <1>4, <1>5, <4>1, <4>2
      <4> QED BY <4>2, <4>3
    <3> QED BY <3>3, <3>4, <3>5
  <2> QED BY <1>6, <2>1, <2>2
<1>9. \A k \in DOMAIN g : g[k] \in 1 .. n
  <2> SUFFICES ASSUME NEW k \in DOMAIN g PROVE g[k] \in 1 .. n OBVIOUS
  <2>1. CASE k \in 1 .. l
    BY <1>1, <1>4, <1>5, <2>1 DEF HistoryUpTo
  <2>2. CASE \E i \in 1 .. recorded : k = l + i
    <3>1. PICK i \in 1 .. recorded : k = l + i BY <2>2
    <3>2. g[k] = m + i BY <1>4, <1>5, <3>1
    <3> QED BY <3>2
  <2> QED BY <1>6, <2>1, <2>2
<1>10. 1 .. (m + marked) \subseteq {g[k] : k \in DOMAIN g}
  <2> SUFFICES ASSUME NEW v \in 1 .. (m + marked) PROVE \E k \in DOMAIN g : g[k] = v
    OBVIOUS
  <2>1. CASE v <= m
    <3>1. PICK k \in 1 .. l : g[k] = v BY <1>7, <2>1
    <3> QED BY <1>4, <1>5, <3>1, SMTT(60)
  <2>2. CASE v > m
    <3>1. v - m \in 1 .. recorded /\ m + (v - m) = v BY <2>2
    <3>2. g[l + (v - m)] = v BY <1>4, <1>5, <3>1
    <3>3. l + (v - m) \in DOMAIN g BY <1>4, <1>5, <3>1
    <3> QED BY <3>2, <3>3
  <2> QED BY <2>1, <2>2
<1>11. Len(g) <= (m + marked) + (cut + (recorded - marked))
  <2>1. l <= m + cut BY <1>5 DEF HistoryUpTo
  <2> QED BY <1>4, <1>5, <2>1
<1> QED BY <1>4, <1>8, <1>9, <1>10, <1>11 DEF HistoryUpTo, g, more

\* The first entries of a sequence that counts on from m.
LEMMA FirstOfThem ==
  ASSUME NEW m \in Nat, NEW number \in Nat, NEW k \in Nat, k <= number
  PROVE  SubSeq([i \in 1 .. number |-> m + i], 1, k) = [i \in 1 .. k |-> m + i]
<1> DEFINE all == [i \in 1 .. number |-> m + i]
<1>1. all \in Seq(Nat) /\ Len(all) = number
  <2>1. \A i \in 1 .. number : m + i \in Nat OBVIOUS
  <2> QED BY <2>1
<1>2. \A i \in 1 .. number : all[i] = m + i OBVIOUS
<1> HIDE DEF all
<1>3. SubSeq(all, 1, k) = [i \in 1 .. k |-> all[i]]
  <2>1. SubSeq(all, 1, k) = [i \in 1 .. ((k - 1) + 1) |-> all[(i + 1) - 1]]
    BY <1>1
  <2>2. (k - 1) + 1 = k /\ \A i \in 1 .. k : (i + 1) - 1 = i OBVIOUS
  <2> QED BY <2>1, <2>2
<1>4. \A i \in 1 .. k : all[i] = m + i BY <1>2
<1> QED BY <1>3, <1>4 DEF all

\* The rows after the marked ones are marked in their order.
LEMMA MarkGoesOn ==
  ASSUME NEW events \in Seq(Row), NEW m \in Nat, NEW marked \in Nat, MarkedUpTo(events, m)
  PROVE  MarkedUpTo(Mark(events, [k \in 1 .. marked |-> m + k]), m + marked)
<1> DEFINE them == [k \in 1 .. marked |-> m + k]
           M    == Mark(events, them)
<1>1. DOMAIN them = 1 .. marked /\ \A k \in 1 .. marked : them[k] = m + k OBVIOUS
<1>2. \A i \in DOMAIN events : events[i] \in Row /\ i \in Nat OBVIOUS
<1> HIDE DEF them
<1>3. M = [i \in DOMAIN events |-> IF \E k \in DOMAIN them : them[k] = i
                                   THEN [events[i] EXCEPT !.marked = TRUE] ELSE events[i]]
  BY DEF Mark
<1> HIDE DEF M
<1>4. ASSUME NEW i \in DOMAIN events PROVE M[i].marked <=> i <= m + marked
  <2>1. (\E k \in DOMAIN them : them[k] = i) <=> (i > m /\ i <= m + marked)
    <3>1. ASSUME i > m, i <= m + marked PROVE \E k \in DOMAIN them : them[k] = i
      <4>1. i - m \in 1 .. marked /\ m + (i - m) = i BY <1>2, <3>1
      <4> QED BY <1>1, <4>1
    <3>2. ASSUME NEW k \in DOMAIN them, them[k] = i PROVE i > m /\ i <= m + marked
      <4>1. k \in 1 .. marked /\ i = m + k BY <1>1, <3>2
      <4> QED BY <4>1
    <3> QED BY <3>1, <3>2
  <2>2. events[i].marked <=> i <= m BY DEF MarkedUpTo
  <2>3. [events[i] EXCEPT !.marked = TRUE].marked = TRUE BY <1>2 DEF Row
  <2>4. CASE i > m /\ i <= m + marked BY <1>3, <2>1, <2>3, <2>4
  <2>5. CASE ~(i > m /\ i <= m + marked)
    <3>1. M[i] = events[i] BY <1>3, <2>1, <2>5
    <3>2. i <= m <=> i <= m + marked BY <1>2, <2>5
    <3> QED BY <2>2, <3>1, <3>2
  <2> QED BY <2>4, <2>5
<1>5. DOMAIN M = DOMAIN events BY <1>3
<1> QED BY <1>4, <1>5 DEF MarkedUpTo, M, them

\* Whoever correlates the rows of one session, to their end or not, the histories
\* stay those of their rows.
LEMMA CorrelateGoesOn ==
  ASSUME interrupted \in Nat, correlated \in [Contexts -> Seq(Nat)],
         NEW all \in [Contexts -> Seq(Row)], \A o \in Contexts : LogIs(all, o),
         NEW c \in Contexts, CorrelateAll(all, c) \/ CorrelatePart(all, c)
  PROVE  HistoryInv'
<1>1. PICK m \in 0 .. Len(all[c]) :
        MarkedUpTo(all[c], m) /\ HistoryUpTo(correlated[c], m, Len(all[c]), interrupted)
  BY DEF LogIs
<1>2. PICK events \in Seq(Row) : events = all[c] OBVIOUS
<1>3. PICK n \in Nat : n = Len(events) OBVIOUS
<1>4. m \in Nat /\ m <= n /\ n - m \in Nat BY <1>1, <1>2, <1>3
<1>5. Unmarked(all, c) = [k \in 1 .. (n - m) |-> m + k]
  BY <1>1, <1>2, <1>3, UnmarkedFollow
<1>6. Len(Unmarked(all, c)) = n - m
  <2>1. \A k \in 1 .. (n - m) : m + k \in Nat BY <1>4
  <2> QED BY <1>4, <1>5, <2>1
<1>7. PICK recorded \in Nat, marked \in Nat :
        Correlate(all, c, recorded, marked) /\ recorded <= n - m /\ marked <= recorded
  <2>1. CASE CorrelateAll(all, c)
    BY <1>4, <1>6, <2>1 DEF CorrelateAll
  <2>2. CASE CorrelatePart(all, c)
    <3>1. PICK marked \in 0 .. (Len(Unmarked(all, c)) - 1), last \in {0, 1} :
            Correlate(all, c, marked + last, marked)
      BY <2>2 DEF CorrelatePart
    <3>2. /\ marked \in Nat /\ marked + last \in Nat /\ marked + last <= n - m
          /\ marked <= marked + last
      BY <1>4, <1>6, <3>1
    <3> QED BY <3>1, <3>2
  <2> QED BY <2>1, <2>2
<1> DEFINE more == [k \in 1 .. recorded |-> m + k]
           done == [k \in 1 .. marked |-> m + k]
<1>8. /\ correlated' = [correlated EXCEPT ![c] = @ \o more]
      /\ rows' = [all EXCEPT ![c] = Mark(events, done)]
      /\ interrupted' = interrupted + (recorded - marked)
  <2>1. SubSeq(Unmarked(all, c), 1, recorded) = more BY <1>4, <1>5, <1>7, FirstOfThem
  <2>2. marked <= n - m BY <1>4, <1>7
  <2>3. SubSeq(Unmarked(all, c), 1, marked) = done BY <1>4, <1>5, <2>2, FirstOfThem
  <2> HIDE DEF more, done
  <2> QED BY <1>2, <1>7, <2>1, <2>3 DEF Correlate
<1>9. m + recorded <= n /\ m + marked \in 0 .. n /\ recorded - marked \in Nat
  BY <1>4, <1>7
<1>10. HistoryUpTo(correlated[c] \o more, m + marked, n, interrupted + (recorded - marked))
  <2>1. HistoryUpTo(correlated[c], m, n, interrupted) BY <1>1, <1>2, <1>3
  <2> QED BY <1>4, <1>7, <1>9, <2>1, HistoryGrows
<1>11. MarkedUpTo(Mark(events, done), m + marked)
  BY <1>1, <1>2, <1>4, <1>7, MarkGoesOn
<1> HIDE DEF more, done
<1>12. Mark(events, done) \in Seq(Row) /\ DOMAIN Mark(events, done) = DOMAIN events
  BY MarkKeeps
<1>13. Len(Mark(events, done)) = n
  <2>1. PICK s \in Seq(Row) : s = Mark(events, done) BY <1>12
  <2>2. PICK k \in Nat : k = Len(s) OBVIOUS
  <2>3. DOMAIN s = 1 .. k /\ DOMAIN events = 1 .. n BY <1>3, <2>2
  <2>4. 1 .. k = 1 .. n BY <1>12, <2>1, <2>3
  <2>5. k = n BY <2>4
  <2> QED BY <2>1, <2>2, <2>5
<1>14. interrupted' \in Nat BY <1>8, <1>9
<1>15. correlated[c] \o more \in Seq(Nat) BY <1>10 DEF HistoryUpTo
<1>16. correlated' \in [Contexts -> Seq(Nat)] /\ rows' \in [Contexts -> Seq(Row)]
  BY <1>8, <1>12, <1>15
<1>17. ASSUME NEW o \in Contexts
       PROVE  \E k \in 0 .. Len(rows'[o]) :
                /\ MarkedUpTo(rows'[o], k)
                /\ HistoryUpTo(correlated'[o], k, Len(rows'[o]), interrupted')
  <2>1. CASE o = c
    <3>1. rows'[c] = Mark(events, done) /\ correlated'[c] = correlated[c] \o more BY <1>8
    <3> QED BY <1>8, <1>9, <1>10, <1>11, <1>13, <2>1, <3>1
  <2>2. CASE o # c
    <3>1. rows'[o] = all[o] /\ correlated'[o] = correlated[o] BY <1>8, <2>2
    <3>2. PICK k \in 0 .. Len(all[o]) :
            MarkedUpTo(all[o], k) /\ HistoryUpTo(correlated[o], k, Len(all[o]), interrupted)
      BY DEF LogIs
    <3>3. HistoryUpTo(correlated[o], k, Len(all[o]), interrupted')
      <4>1. PICK i \in Nat : i = k BY <3>2
      <4>2. Len(correlated[o]) \in Nat OBVIOUS
      <4>3. Len(correlated[o]) <= i + interrupted => Len(correlated[o]) <= i + interrupted'
        BY <1>8, <1>9, <4>2
      <4> QED BY <3>2, <4>1, <4>3 DEF HistoryUpTo
    <3> QED BY <3>1, <3>2, <3>3
  <2> QED BY <2>1, <2>2
<1> QED BY <1>14, <1>16, <1>17 DEF HistoryInv, LogIs

\* A row that is inserted is not marked, and nothing is recorded of it.
LEMMA InsertedFollows ==
  ASSUME HistoryInv, NEW c \in Contexts, NEW message \in Recipients,
         NEW kind \in {"sent", "outcome", "received"}
  PROVE  /\ Inserted(c, kind, message) \in [Contexts -> Seq(Row)]
         /\ \A o \in Contexts : LogIs(Inserted(c, kind, message), o)
<1> DEFINE all == Inserted(c, kind, message)
<1>1. PICK entry \in Row : entry = [kind |-> kind, message |-> message, marked |-> FALSE]
  BY DEF Row
<1>2. rows \in [Contexts -> Seq(Row)] /\ correlated \in [Contexts -> Seq(Nat)]
  BY DEF HistoryInv
<1>3. PICK s \in Seq(Row) : s = rows[c] BY <1>2
<1>4. all = [rows EXCEPT ![c] = Append(s, entry)] BY <1>1, <1>2, <1>3 DEF Inserted
<1>5. PICK n \in Nat : n = Len(s) OBVIOUS
<1>6. /\ Append(s, entry) \in Seq(Row) /\ Len(Append(s, entry)) = n + 1
      /\ DOMAIN Append(s, entry) = 1 .. (n + 1)
      /\ \A i \in 1 .. n : Append(s, entry)[i] = s[i]
      /\ Append(s, entry)[n + 1] = entry
  BY <1>5
<1>7. entry.marked = FALSE BY <1>1
<1> HIDE DEF all
<1>8. all \in [Contexts -> Seq(Row)] BY <1>2, <1>4, <1>6
<1>9. ASSUME NEW o \in Contexts PROVE LogIs(all, o)
  <2>0. PICK m \in 0 .. Len(rows[o]) :
          MarkedUpTo(rows[o], m) /\ HistoryUpTo(correlated[o], m, Len(rows[o]), interrupted)
    BY DEF HistoryInv, LogIs
  <2>1. CASE o # c
    <3>1. all[o] = rows[o] BY <1>2, <1>4, <2>1
    <3> QED BY <2>0, <3>1 DEF LogIs
  <2>2. CASE o = c
    <3>1. all[o] = Append(s, entry) /\ Len(all[o]) = n + 1 BY <1>2, <1>4, <1>6, <2>2
    <3>2. m \in Nat /\ m <= n BY <1>3, <1>5, <2>0, <2>2
    <3>3. MarkedUpTo(all[o], m)
      <4> SUFFICES ASSUME NEW i \in 1 .. (n + 1) PROVE all[o][i].marked <=> i <= m
        BY <1>6, <3>1 DEF MarkedUpTo
      <4>1. CASE i \in 1 .. n
        <5>1. i \in DOMAIN rows[o] BY <1>3, <1>5, <2>2, <4>1
        <5>2. all[o][i] = rows[o][i] BY <1>3, <1>6, <2>2, <3>1, <4>1
        <5> QED BY <2>0, <5>1, <5>2 DEF MarkedUpTo
      <4>2. CASE i = n + 1
        <5>1. ~(i <= m) BY <3>2, <4>2
        <5> QED BY <1>6, <1>7, <3>1, <4>2, <5>1
      <4> QED BY <4>1, <4>2
    <3>4. HistoryUpTo(correlated[o], m, n + 1, interrupted)
      <4>1. \A v \in 1 .. n : v \in 1 .. (n + 1) OBVIOUS
      <4> QED BY <1>3, <1>5, <2>0, <2>2, <4>1 DEF HistoryUpTo
    <3>5. m \in 0 .. (n + 1) BY <3>2
    <3> QED BY <3>1, <3>3, <3>4, <3>5 DEF LogIs
  <2> QED BY <2>1, <2>2
<1> QED BY <1>8, <1>9 DEF all

LEMMA LogStays ==
  ASSUME HistoryInv, UNCHANGED log
  PROVE  HistoryInv'
<1>1. rows' = rows /\ correlated' = correlated /\ interrupted' = interrupted BY DEF log
<1> QED BY <1>1 DEF HistoryInv, LogIs

LEMMA InsertedKeeps ==
  ASSUME HistoryInv, NEW c \in Contexts, NEW message \in Recipients,
         NEW kind \in {"sent", "outcome", "received"},
         rows' = Inserted(c, kind, message), UNCHANGED <<correlated, interrupted>>
  PROVE  HistoryInv'
<1> DEFINE all == Inserted(c, kind, message)
<1>1. all \in [Contexts -> Seq(Row)] /\ \A o \in Contexts : LogIs(all, o) BY InsertedFollows
<1> HIDE DEF all
<1>2. rows' = all BY DEF all
<1> QED BY <1>1, <1>2 DEF HistoryInv, LogIs

\* What each step does to the log.
LEMMA HistoryKeeps ==
  ASSUME HistoryInv, inbox \in [Contexts -> Seq(Recipients)], [MessagesNext]_messageVars
  PROVE  HistoryInv'
<1>0. /\ interrupted \in Nat /\ correlated \in [Contexts -> Seq(Nat)]
      /\ rows \in [Contexts -> Seq(Row)] /\ \A o \in Contexts : LogIs(rows, o)
  BY DEF HistoryInv
<1>1. ASSUME NEW c \in Contexts, CorrelateAll(rows, c) \/ CorrelatePart(rows, c)
      PROVE  HistoryInv'
  BY <1>0, <1>1, CorrelateGoesOn
<1>2. ASSUME NEW r \in Recipients, Sending(r)
      PROVE  HistoryInv'
  <2>1. CASE Select(r) \/ Deliver(r) \/ Learn(r) \/ DeliverAgain(r)
    BY <2>1, LogStays DEF Select, Deliver, Learn, DeliverAgain
  <2>2. CASE Bind(r)
    BY <2>2, InsertedKeeps, SenderSpeaks DEF Bind
  <2>3. CASE SendRecorded(r)
    BY <1>1, <2>3, SenderSpeaks DEF SendRecorded
  <2>4. CASE SendUnrecorded(r)
    BY <1>1, <2>4, LogStays, SenderSpeaks DEF SendUnrecorded
  <2>5. CASE RecordOutcome(r)
    <3> DEFINE all == Inserted(SenderContext, "outcome", r)
    <3>1. all \in [Contexts -> Seq(Row)] /\ \A o \in Contexts : LogIs(all, o)
      BY InsertedFollows, SenderSpeaks
    <3>2. CorrelateAll(all, SenderContext) \/ CorrelatePart(all, SenderContext)
      BY <2>5 DEF RecordOutcome
    <3> HIDE DEF all
    <3> QED BY <1>0, <3>1, <3>2, CorrelateGoesOn, SenderSpeaks
  <2> QED BY <1>2, <2>1, <2>2, <2>3, <2>4, <2>5 DEF Sending
<1>3. ASSUME NEW d \in Deliveries, Prompt(d) \/ Answer(d)
      PROVE  HistoryInv'
  BY <1>3, LogStays DEF Prompt, Answer
<1>4. ASSUME NEW c \in Contexts, Fetch(c)
      PROVE  HistoryInv'
  <2>1. Head(inbox[c]) \in Recipients
    <3>1. PICK s \in Seq(Recipients) : s = inbox[c] OBVIOUS
    <3>2. s # <<>> BY <1>4, <3>1 DEF Fetch
    <3> QED BY <3>1, <3>2
  <2>2. /\ \/ rows' = Inserted(c, "received", Head(inbox[c]))
           \/ rows' = rows
        /\ UNCHANGED <<correlated, interrupted>>
    BY <1>4 DEF Fetch
  <2> QED BY <2>1, <2>2, InsertedKeeps, LogStays DEF log
<1>5. ASSUME NEW c \in Contexts, Take(c) \/ BrokerEnds(c) \/ BrokerReopens(c)
      PROVE  HistoryInv'
  BY <1>1, <1>5, LogStays DEF Take, BrokerEnds, BrokerReopens
<1>6. ASSUME NEW p \in Positions, Succeed(p)
      PROVE  HistoryInv'
  BY <1>6, LogStays DEF Succeed
<1>7. ASSUME UNCHANGED messageVars PROVE HistoryInv'
  BY <1>7, LogStays DEF messageVars
<1> QED BY <1>2, <1>3, <1>4, <1>5, <1>6, <1>7 DEF MessagesNext

LEMMA HistoryStarts ==
  ASSUME MessagesInit
  PROVE  HistoryInv
<1>1. /\ rows = [c \in Contexts |-> <<>>] /\ correlated = [c \in Contexts |-> <<>>]
      /\ interrupted = 0
  BY DEF MessagesInit
<1>2. \A S : <<>> \in Seq(S) OBVIOUS
<1>3. Len(<<>>) = 0 /\ DOMAIN <<>> = {} OBVIOUS
<1>4. MarkedUpTo(<<>>, 0) /\ HistoryUpTo(<<>>, 0, 0, 0)
  <2>1. 1 .. 0 = {} OBVIOUS
  <2>2. <<>> \in Seq(Nat) BY <1>2
  <2>3. 0 <= 0 + 0 OBVIOUS
  <2> QED BY <1>3, <2>1, <2>2, <2>3 DEF MarkedUpTo, HistoryUpTo, Orderly
<1>5. \A c \in Contexts : LogIs(rows, c)
  <2>1. 0 \in 0 .. 0 OBVIOUS
  <2> QED BY <1>1, <1>3, <1>4, <2>1 DEF LogIs
<1>6. rows \in [Contexts -> Seq(Row)] /\ correlated \in [Contexts -> Seq(Nat)]
  BY <1>1, <1>2
<1> QED BY <1>1, <1>5, <1>6 DEF HistoryInv

LEMMA HistoryImplied ==
  ASSUME HistoryInv
  PROVE  HistoryIsFaithful
<1> SUFFICES ASSUME NEW c \in Contexts
             PROVE  LET recorded == {correlated[c][k] : k \in DOMAIN correlated[c]}
                    IN /\ \A i \in DOMAIN rows[c] : rows[c][i].marked => i \in recorded
                       /\ \A k \in DOMAIN correlated[c] :
                            1..(correlated[c][k] - 1) \subseteq
                              {correlated[c][l] : l \in 1..(k - 1)}
                       /\ Len(correlated[c]) <= Cardinality(recorded) + interrupted
  BY DEF HistoryIsFaithful
<1> DEFINE recorded == {correlated[c][k] : k \in DOMAIN correlated[c]}
<1>0. rows \in [Contexts -> Seq(Row)] /\ correlated \in [Contexts -> Seq(Nat)]
      /\ interrupted \in Nat
  BY DEF HistoryInv
<1>1. PICK m \in 0 .. Len(rows[c]) :
        MarkedUpTo(rows[c], m) /\ HistoryUpTo(correlated[c], m, Len(rows[c]), interrupted)
  BY DEF HistoryInv, LogIs
<1>2. PICK n \in Nat : n = Len(rows[c]) /\ DOMAIN rows[c] = 1 .. n
  <2>1. PICK s \in Seq(Row) : s = rows[c] BY <1>0
  <2> QED BY <2>1
<1>3. m \in Nat BY <1>1, <1>2
<1>4. 1 .. m \subseteq recorded /\ recorded \subseteq 1 .. n
  BY <1>1, <1>2 DEF HistoryUpTo
<1>5. \A i \in DOMAIN rows[c] : rows[c][i].marked => i \in recorded
  <2>1. \A i \in DOMAIN rows[c] : rows[c][i].marked => i \in 1 .. m
    BY <1>1, <1>2, <1>3 DEF MarkedUpTo
  <2> HIDE DEF recorded
  <2> QED BY <1>4, <2>1
<1>6. \A k \in DOMAIN correlated[c] :
        1..(correlated[c][k] - 1) \subseteq {correlated[c][l] : l \in 1..(k - 1)}
  BY <1>1 DEF HistoryUpTo, Orderly
<1> HIDE DEF recorded
<1>7. m <= Cardinality(recorded) /\ Cardinality(recorded) \in Nat
  <2>1. IsFiniteSet(1 .. n) BY FS_Interval
  <2>2. IsFiniteSet(recorded) BY <1>4, <2>1, FS_Subset
  <2>3. Cardinality(1 .. m) <= Cardinality(recorded) BY <1>4, <2>2, FS_Subset
  <2>4. Cardinality(1 .. m) = m
    <3>1. CASE m = 0
      <4>1. 1 .. m = {} BY <3>1
      <4> QED BY <3>1, <4>1, FS_EmptySet
    <3>2. CASE m > 0
      <4>1. 1 \in Int /\ m \in Int /\ ~(1 > m) BY <1>3, <3>2
      <4>2. Cardinality(1 .. m) = m - 1 + 1 BY <4>1, FS_Interval
      <4> QED BY <1>3, <4>2
    <3> QED BY <1>3, <3>1, <3>2
  <2>5. Cardinality(recorded) \in Nat BY <2>2, FS_CardinalityType
  <2> QED BY <2>3, <2>4, <2>5
<1>8. Len(correlated[c]) <= Cardinality(recorded) + interrupted
  <2>1. Len(correlated[c]) \in Nat BY <1>0
  <2>2. Len(correlated[c]) <= m + interrupted BY <1>1 DEF HistoryUpTo
  <2> QED BY <1>0, <1>3, <1>7, <2>1, <2>2
<1> QED BY <1>5, <1>6, <1>8 DEF recorded

(* A marked row is in the domain's history, the rows of a session enter it *)
(* in their order whoever correlates them, and none enters twice but for a *)
(* correlation that ended between record_event and the mark (correlate and *)
(* event, noetic_sessions.py:242-275).                                     *)
THEOREM HistoryStaysFaithful == MessagesSpec => []HistoryIsFaithful
<1> DEFINE Inv == MessagesInv /\ HistoryInv
<1>1. MessagesInit => Inv BY MessagesInitKeeps, HistoryStarts
<1>2. Inv /\ [MessagesNext]_messageVars => Inv'
  <2> SUFFICES ASSUME Inv, [MessagesNext]_messageVars PROVE Inv' OBVIOUS
  <2>1. inbox \in [Contexts -> Seq(Recipients)] BY DEF MessagesInv, MessageTypes
  <2> QED BY <2>1, MessagesNextKeeps, HistoryKeeps
<1>3. Inv => HistoryIsFaithful BY HistoryImplied
<1> HIDE DEF Inv
<1> QED BY <1>1, <1>2, <1>3, PTL DEF MessagesSpec
=============================================================================
