------------------------------ MODULE Sessions ------------------------------
(***************************************************************************)
(* Managed conversations of one position (scripts/noetic_sessions.py): how *)
(* clients launch and reopen them, and how each broker attaches its        *)
(* conversation to the ordinal domain and reports its end.                 *)
(*                                                                         *)
(* A launch is one open of broker.lock: its flock is held by the launcher  *)
(* and, once it is spawned, by the broker that inherits the descriptor.    *)
(* The broker hosts a Pi process of the same group, which a killed broker  *)
(* leaves behind.                                                          *)
(***************************************************************************)
EXTENDS Naturals, Sequences, FiniteSets

CONSTANTS
  Ids,         \* registry rows, one conversation each
  Clients,     \* threads of servers and command lines that launch
  NoId,
  MaxLaunches,
  MaxFaults    \* killed launchers and brokers, failed spawns and records

ASSUME SessionsAssumption ==
  /\ NoId \notin Ids /\ IsFiniteSet(Clients)
  /\ MaxLaunches \in Nat /\ MaxFaults \in Nat

VARIABLES
  row,       \* the registry: [status, predecessor, target]
  instance,  \* the position's current instantiation, 0 before the first
  current,   \* that instantiation's designated session, by its row, or NoId
  standing,  \* status of the session opened for a row, "none" before it is
  under,     \* the instantiation that session belongs to, 0 before
  launches,  \* [id, launcher, broker, pi, retained]
  owner,     \* broker-ownership.json: the launch recorded for a row, or 0
  client,    \* [at, id, launch]
  faults

domain == <<instance, current, standing, under>>
vars == <<row, domain, launches, owner, client, faults>>

Waiting == [at |-> "idle", id |-> NoId, launch |-> 0]

Init ==
  /\ row = [s \in Ids |-> [status |-> "absent", predecessor |-> 0, target |-> FALSE]]
  /\ instance = 0 /\ current = NoId
  /\ standing = [s \in Ids |-> "none"] /\ under = [s \in Ids |-> 0]
  /\ launches = <<>> /\ owner = [s \in Ids |-> 0]
  /\ client = [c \in Clients |-> Waiting]
  /\ faults = 0

Alive(i) == launches[i].broker \notin {"unborn", "gone"}

\* A launcher that does not hand its descriptor to the broker.
LockedByLauncher(s) ==
  \E i \in DOMAIN launches : launches[i].id = s /\ launches[i].launcher

\* flock: some descriptor of an earlier open of the row's broker.lock is open.
Locked(s) ==
  \E i \in DOMAIN launches :
    launches[i].id = s /\ (launches[i].launcher \/ Alive(i))

\* processes.inspect of the recorded owner: a group without its leader, and a
\* record that was never written, confirm nothing.
Owned(s) == owner[s] # 0 /\ Alive(owner[s])
CleanupConfirmed(s) == owner[s] # 0 /\ ~Alive(owner[s]) /\ ~launches[owner[s]].pi

MayLaunch ==
  Len(launches) + Cardinality({c \in Clients : client[c].at = "locking"}) < MaxLaunches

At(c, place) == client[c].at = place
Goes(c, place) == client' = [client EXCEPT ![c].at = place]
Leaves(c) == client' = [client EXCEPT ![c] = Waiting]
Fault == faults < MaxFaults /\ faults' = faults + 1

---------------------------------------------------------------------------
(* Clients *)

\* create: a new conversation at the position, as a successor of the current
\* instantiation or within it.
Create(c, s) ==
  /\ At(c, "idle") /\ row[s].status = "absent" /\ MayLaunch
  /\ \E predecessor \in {0, instance} :
       row' = [row EXCEPT ![s].status = "created", ![s].predecessor = predecessor]
  /\ client' = [client EXCEPT ![c] = [at |-> "locking", id |-> s, launch |-> 0]]
  /\ UNCHANGED <<domain, launches, owner, faults>>

\* reopen: what it checks before it launches. A conversation whose broker
\* still runs is returned as it is.
Reopenable(s) ==
  /\ row[s].target
  /\ standing[s] # "superseded"
  /\ under[s] = instance
  /\ current \in {NoId, s}
  /\ CleanupConfirmed(s)

Reopen(c, s) ==
  /\ At(c, "idle") /\ Reopenable(s) /\ MayLaunch
  /\ client' = [client EXCEPT ![c] = [at |-> "locking", id |-> s, launch |-> 0]]
  /\ UNCHANGED <<row, domain, launches, owner, faults>>

\* _launch: the lock, then the status.
Lock(c) ==
  LET s == client[c].id
  IN /\ At(c, "locking") /\ ~Locked(s)
     /\ launches' = Append(launches, [id |-> s, launcher |-> TRUE, broker |-> "unborn",
                                      pi |-> FALSE, retained |-> "none"])
     /\ row' = [row EXCEPT ![s].status = "starting"]
     /\ client' = [client EXCEPT ![c] = [at |-> "spawning", id |-> s,
                                         launch |-> Len(launches) + 1]]
     /\ UNCHANGED <<domain, owner, faults>>

\* flock without LOCK_NB.
RefusedNever(c) ==
  /\ At(c, "locking") /\ Locked(client[c].id) /\ MaxLaunches = 0
  /\ UNCHANGED vars

Refused(c) ==
  /\ At(c, "locking") /\ Locked(client[c].id)
  /\ Leaves(c)
  /\ UNCHANGED <<row, domain, launches, owner, faults>>

Spawn(c) ==
  /\ At(c, "spawning")
  /\ launches' = [launches EXCEPT ![client[c].launch].broker = "starting"]
  /\ Goes(c, "saving")
  /\ UNCHANGED <<row, domain, owner, faults>>

Save(c) ==
  /\ At(c, "saving")
  /\ owner' = [owner EXCEPT ![client[c].id] = client[c].launch]
  /\ Goes(c, "waiting")
  /\ UNCHANGED <<row, domain, launches, faults>>

\* Popen or the ownership record raises.
LaunchRaises(c) ==
  /\ client[c].at \in {"spawning", "saving"} /\ Fault
  /\ Goes(c, "failing")
  /\ UNCHANGED <<row, domain, launches, owner>>

\* The launcher's descriptor is closed on every way out of _launch.
Released(c) == launches' = [launches EXCEPT ![client[c].launch].launcher = FALSE]

Launched(c) ==
  /\ At(c, "waiting") /\ Alive(client[c].launch)
  /\ row[client[c].id].status = "idle" /\ row[client[c].id].target
  /\ Released(c) /\ Leaves(c)
  /\ UNCHANGED <<row, domain, owner, faults>>

\* The broker exited, or 15 seconds have passed.
GiveUp(c) ==
  /\ At(c, "waiting")
  /\ Goes(c, "failing")
  /\ UNCHANGED <<row, domain, launches, owner, faults>>

\* reconcile without terminate only looks.
ReconcileLooking(c) ==
  /\ At(c, "failing")
  /\ Goes(c, "marking")
  /\ UNCHANGED <<row, domain, launches, owner, faults>>

\* processes.reconcile(terminate=True): signals reach the recorded group as
\* long as its leader runs.
Reconcile(c) ==
  /\ At(c, "failing")
  /\ launches' = IF Owned(client[c].id)
                 THEN [launches EXCEPT ![owner[client[c].id]].broker = "gone",
                                       ![owner[client[c].id]].pi = FALSE]
                 ELSE launches
  /\ Goes(c, "marking")
  /\ UNCHANGED <<row, domain, owner, faults>>

MarkFailed(c) ==
  /\ At(c, "marking")
  /\ row' = [row EXCEPT ![client[c].id].status = "ended"]
  /\ Released(c) /\ Leaves(c)
  /\ UNCHANGED <<domain, owner, faults>>

\* The launching process dies; its descriptors close.
LauncherDies(c) ==
  /\ ~At(c, "idle") /\ Fault
  /\ launches' = IF client[c].launch = 0 THEN launches
                 ELSE [launches EXCEPT ![client[c].launch].launcher = FALSE]
  /\ Leaves(c)
  /\ UNCHANGED <<row, domain, owner>>

---------------------------------------------------------------------------
(* Brokers *)

Step(i, place) == launches' = [launches EXCEPT ![i].broker = place]
Is(i, place) == launches[i].broker = place

StartPi(i) ==
  /\ Is(i, "starting")
  /\ launches' = [launches EXCEPT ![i].broker = "observing", ![i].pi = TRUE]
  /\ UNCHANGED <<row, domain, owner, client, faults>>

\* The first get_state: the expected model and native context, or an error.
Observe(i) ==
  /\ Is(i, "observing")
  /\ \E place \in (IF launches[i].pi THEN {"attaching", "closing"} ELSE {"closing"}) :
       Step(i, place)
  /\ UNCHANGED <<row, domain, owner, client, faults>>

\* attach runs under one lock for the whole namespace.
AdapterFree ==
  \A i \in DOMAIN launches : launches[i].broker \notin {"opening", "recording"}

Superseded == [s \in Ids |-> IF under[s] = instance /\ standing[s] = "open"
                             THEN "superseded" ELSE standing[s]]

AttachUnchecked(i) ==
  LET s == launches[i].id
  IN /\ Is(i, "attaching") /\ AdapterFree /\ row[s].target
     /\ standing' = [Superseded EXCEPT ![s] = "open"]
     /\ current' = s
     /\ Step(i, "ready")
     /\ UNCHANGED <<row, instance, under, owner, client, faults>>

\* set_session_status(open), which the domain refuses outside the current
\* instantiation.
AttachAgain(i) ==
  LET s == launches[i].id
  IN /\ Is(i, "attaching") /\ AdapterFree /\ row[s].target
     /\ under[s] = instance
     /\ standing' = [Superseded EXCEPT ![s] = "open"]
     /\ current' = s
     /\ Step(i, "ready")
     /\ UNCHANGED <<row, instance, under, owner, client, faults>>

AttachRefused(i) ==
  LET s == launches[i].id
  IN /\ Is(i, "attaching") /\ AdapterFree
     /\ IF row[s].target THEN under[s] # instance
                         ELSE row[s].predecessor \notin {0, instance}
     /\ Step(i, "closing")
     /\ UNCHANGED <<row, domain, owner, client, faults>>

\* The first instantiation of the position, or a successor.
Instantiate(i) ==
  LET s == launches[i].id
  IN /\ Is(i, "attaching") /\ AdapterFree /\ ~row[s].target
     /\ row[s].predecessor = instance
     /\ instance' = instance + 1 /\ current' = NoId /\ standing' = Superseded
     /\ Step(i, "opening")
     /\ UNCHANGED <<row, under, owner, client, faults>>

\* Another session of the current instantiation.
Join(i) ==
  LET s == launches[i].id
  IN /\ Is(i, "attaching") /\ AdapterFree /\ ~row[s].target
     /\ row[s].predecessor = 0 /\ instance # 0
     /\ Step(i, "opening")
     /\ UNCHANGED <<row, domain, owner, client, faults>>

OpenSession(i) ==
  LET s == launches[i].id
  IN /\ Is(i, "opening")
     /\ standing' = [Superseded EXCEPT ![s] = "open"]
     /\ under' = [under EXCEPT ![s] = instance]
     /\ current' = s
     /\ Step(i, "recording")
     /\ UNCHANGED <<row, instance, owner, client, faults>>

Record(i) ==
  /\ Is(i, "recording")
  /\ row' = [row EXCEPT ![launches[i].id].target = TRUE]
  /\ Step(i, "ready")
  /\ UNCHANGED <<domain, owner, client, faults>>

Ready(i) ==
  /\ Is(i, "ready")
  /\ row' = [row EXCEPT ![launches[i].id].status = "idle"]
  /\ Step(i, "serving")
  /\ UNCHANGED <<domain, owner, client, faults>>

\* shutdown, SIGTERM, or the end of Pi's stream.
Close(i) ==
  /\ Is(i, "serving")
  /\ Step(i, "closing")
  /\ UNCHANGED <<row, domain, owner, client, faults>>

ReportSilently(i) ==
  /\ Is(i, "closing")
  /\ launches' = [launches EXCEPT ![i].pi = FALSE, ![i].broker = "reading"]
  /\ UNCHANGED <<row, domain, owner, client, faults>>

\* Pi is waited for or killed; then the registry row tells the end.
Report(i) ==
  LET s == launches[i].id
  IN /\ Is(i, "closing")
     /\ row' = [row EXCEPT ![s].status = "ended"]
     /\ launches' = [launches EXCEPT ![i].pi = FALSE,
                        ![i].broker = IF row[s].target THEN "reading" ELSE "gone"]
     /\ UNCHANGED <<domain, owner, client, faults>>

\* The domain's end is written back over what a separate read found.
ReadRetained(i) ==
  /\ Is(i, "reading")
  /\ launches' = [launches EXCEPT ![i].retained = standing[launches[i].id],
                                  ![i].broker = "writing"]
  /\ UNCHANGED <<row, domain, owner, client, faults>>

WriteBack(i) ==
  LET s == launches[i].id
  IN /\ Is(i, "writing")
     /\ standing' = [standing EXCEPT ![s] =
          IF launches[i].retained = "superseded" THEN "superseded" ELSE "closed"]
     /\ current' = IF current = s THEN NoId ELSE current
     /\ Step(i, "gone")
     /\ UNCHANGED <<row, instance, under, owner, client, faults>>

PiExits(i) ==
  /\ launches[i].pi
  /\ launches' = [launches EXCEPT ![i].pi = FALSE]
  /\ UNCHANGED <<row, domain, owner, client, faults>>

\* SIGKILL of the broker alone.
BrokerDies(i) ==
  /\ Alive(i) /\ Fault
  /\ Step(i, "gone")
  /\ UNCHANGED <<row, domain, owner, client>>

---------------------------------------------------------------------------
ClientStep(c) ==
  \/ Lock(c) \/ Refused(c) \/ Spawn(c) \/ Save(c) \/ Launched(c) \/ GiveUp(c)
  \/ Reconcile(c) \/ MarkFailed(c)

BrokerStep(i) ==
  \/ StartPi(i) \/ Observe(i)
  \/ AttachAgain(i) \/ AttachRefused(i) \/ Instantiate(i) \/ Join(i)
  \/ OpenSession(i) \/ Record(i) \/ Ready(i)
  \/ Report(i) \/ ReadRetained(i) \/ WriteBack(i)

Next ==
  \/ \E c \in Clients :
       \/ ClientStep(c) \/ LaunchRaises(c) \/ LauncherDies(c)
       \/ \E s \in Ids : Create(c, s) \/ Reopen(c, s)
  \/ \E i \in DOMAIN launches :
       BrokerStep(i) \/ Close(i) \/ PiExits(i) \/ BrokerDies(i)

\* Threads and processes that run are scheduled; nobody has to launch, to shut
\* a broker down or to fail.
Fairness ==
  /\ \A c \in Clients : WF_vars(ClientStep(c))
  /\ \A i \in 1..MaxLaunches : WF_vars(i \in DOMAIN launches /\ BrokerStep(i))

Spec == Init /\ [][Next]_vars /\ Fairness

---------------------------------------------------------------------------
(* Properties *)

TypeOK ==
  /\ row \in [Ids -> [status : {"absent", "created", "starting", "idle", "ended"},
                      predecessor : Nat, target : BOOLEAN]]
  /\ instance \in Nat /\ current \in Ids \union {NoId}
  /\ standing \in [Ids -> {"none", "open", "closed", "superseded"}]
  /\ under \in [Ids -> 0..instance]
  /\ Len(launches) <= MaxLaunches
  /\ owner \in [Ids -> 0..Len(launches)]
  /\ \A c \in Clients : client[c].launch \in 0..Len(launches)

\* "A broker already owns this session": the flock outlives the launcher that
\* took it, so no interleaving of launches, kills and reopens runs two brokers
\* of one conversation.
OneBroker ==
  \A i, j \in DOMAIN launches :
    launches[i].id = launches[j].id /\ Alive(i) /\ Alive(j) => i = j

\* At most one Pi process drives a conversation's native context.
OneActor ==
  \A i, j \in DOMAIN launches :
    launches[i].id = launches[j].id /\ launches[i].pi /\ launches[j].pi => i = j

\* Whatever a client checked before it launched, and whenever a broker reports
\* its end, the open session of the position is the designated session of its
\* current instantiation, and there is no other.
DesignatedAlone ==
  /\ \A s \in Ids : standing[s] = "open" => current = s
  /\ current # NoId => standing[current] = "open" /\ under[current] = instance

\* As long as nothing is killed from outside: one Pi per conversation, and a
\* launch that is reported failed has left neither broker nor Pi behind.
UnkilledIsClean ==
  faults = 0 =>
    /\ OneActor
    /\ \A c \in Clients : client[c].at = "marking" =>
         ~Alive(client[c].launch) /\ ~launches[client[c].launch].pi

\* A conversation is shown idle only once its native state was observed and its
\* exact target published (docs/developer-sessions.md:67); and, as long as
\* nothing is killed, it has its broker, or the launcher that has just stopped
\* it is about to say so.
IdleIsTrue ==
  \A s \in Ids : row[s].status = "idle" =>
    /\ row[s].target /\ under[s] # 0
    /\ \/ faults > 0
       \/ \E i \in DOMAIN launches : launches[i].id = s /\ Alive(i)
       \/ \E c \in Clients : client[c].id = s /\ client[c].at = "marking"

\* What the registry shows of a conversation is so: the launcher, the broker at
\* its start and at its end and the next launch all write it, in any order.
StandingIsTrue == TypeOK /\ UnkilledIsClean /\ IdleIsTrue

\* The conversations of a position, as the position sees them.
Running == [s \in Ids |-> {i \in DOMAIN launches : launches[i].id = s /\ Alive(i)}]

Seat == INSTANCE SeatPromise WITH
  Conversations <- Ids, Nobody <- NoId, Brokers <- 1..MaxLaunches,
  running <- Running, occupant <- instance, belongs <- under, seated <- current

\* Launchers and brokers that race, are killed and reopen what was closed keep
\* what the position promises: one broker per conversation, the seat taken by
\* a conversation that runs, none moved from its occupant to another one.
KeepsSeat == Seat!Spec

\* Every launch is answered, whoever else launches, is killed or never reports.
LaunchEnds == \A c \in Clients : client[c].at # "idle" ~> client[c].at = "idle"
=============================================================================
