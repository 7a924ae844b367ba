-------------------------------- MODULE Launch --------------------------------
(***************************************************************************)
(* Reviewed work launched through the application.  A request carries its  *)
(* own command id: its directory is made once, file by file, under the     *)
(* mutation lock, and a driver of its own inherits the directory's lock    *)
(* and an admission slot and works without the server that started it.     *)
(* Requests are retried and collide, servers and drivers die anywhere, the *)
(* selection changes, files are lost, and a prepared run is recovered,     *)
(* never relaunched.                                                       *)
(***************************************************************************)
EXTENDS Naturals, FiniteSets

CONSTANTS
  Servers,         \* threads that serve requests
  CommandIds,        \* command ids
  Bodies,          \* request bodies
  MaxRequests,     \* bound on requests
  MaxRecoveries,   \* bound on recoveries
  MaxLosses        \* bound on deaths and lost files

VARIABLES
  launches,   \* per command, the files of its directory
  server,     \* per server, where it is and what it has read
  worker,     \* per command, where its driver is
  held,       \* the mutation lock, the admission slots, and the drivers' locks
  capacity,   \* max_active_drivers of the runs root
  executions, \* the runs the ordinal domain has prepared
  worked,     \* the runs whose actors were started, with the request they started from
  spent       \* requests, recoveries and faults so far

launchVars == <<launches, server, worker, held, capacity, executions, worked, spent>>
launched == <<executions, worked, capacity>>

Open == "free"
None == "none"

(* A lock is held by a server or a driver, which are told apart; the lock  *)
(* of a command is a file of its directory.                                *)
ASSUME LaunchAssumption ==
  /\ Servers \intersect CommandIds = {} /\ Open \notin Servers \union CommandIds
  /\ {"mutation", "slot1", "slot2"} \intersect CommandIds = {}

NoRun == [of |-> None, nth |-> 0]
There(k, f) == f \in launches[k].there
Make(k, f) == launches' = [launches EXCEPT ![k].there = @ \union {f}]
Keep(k, f, content) ==
  launches' = [launches EXCEPT ![k].there = @ \union {f}, ![k][f] = content]
Serves(c, stage) == server[c].stage = stage
Reach(c, stage) == server' = [server EXCEPT ![c].stage = stage]
Rest == [stage |-> "idle", command |-> None, body |-> None, run |-> NoRun,
         shown |-> [status |-> None, run |-> NoRun]]
(* The threads are alike: whichever is idle takes what comes.              *)
IsNext(c) == Serves(c, "idle") /\ c = CHOOSE d \in Servers : Serves(d, "idle")
Spend(what) == spent' = [spent EXCEPT ![what] = @ + 1]

(* Closing a descriptor frees a lock when no other process holds it.       *)
Holding(lock, who) == held[lock] = who
Closed(c) == [lock \in DOMAIN held |-> IF held[lock] = c THEN Open ELSE held[lock]]
Exited(k) == [lock \in DOMAIN held |-> IF held[lock] = k THEN Open ELSE held[lock]]
LockHeld(k) == ~Holding(k, Open)

(* driver_slot: the first free slot of the root.                           *)
SlotNamed(n) == CASE n = 1 -> "slot1" [] n = 2 -> "slot2"
IsFree(n) == n <= capacity /\ Holding(SlotNamed(n), Open)
Admitting == {n \in 1 .. 2 : IsFree(n) /\ \A m \in 1 .. n - 1 : ~IsFree(m)}

-----------------------------------------------------------------------------
(* A request.                                                              *)

(* A command that has a directory is only told of; a new one is frozen     *)
(* with what it selects, before any lock is taken.                         *)
RequestLaunch(c, k, b) ==
  /\ IsNext(c) /\ spent.requests < MaxRequests /\ Spend("requests")
  /\ server' = [server EXCEPT ![c] =
       [Rest EXCEPT !.stage = IF There(k, "directory") THEN "retained" ELSE "locking",
                    !.command = k, !.body = b]]
  /\ UNCHANGED <<launches, worker, held, launched>>

Admit(c) ==
  \E n \in Admitting : held' = [held EXCEPT !["mutation"] = c, ![SlotNamed(n)] = c]

(* As AdmitLaunch, without the second look under the lock.                 *)
AdmitLaunchAtOnce(c) ==
  LET k == server[c].command IN
  /\ Serves(c, "locking") /\ Holding("mutation", Open)
  /\ IF Admitting # {} THEN Admit(c) /\ Make(k, "directory") /\ Reach(c, "assigning")
       ELSE server' = [server EXCEPT ![c] = Rest] /\ UNCHANGED <<launches, held>>
  /\ UNCHANGED <<worker, launched, spent>>

(* Under the mutation lock the directory is looked for again; without a    *)
(* free slot nothing is left behind.                                       *)
AdmitLaunch(c) ==
  LET k == server[c].command IN
  /\ Serves(c, "locking") /\ Holding("mutation", Open)
  /\ CASE There(k, "directory") ->
            Reach(c, "retained") /\ UNCHANGED <<launches, held>>
       [] ~There(k, "directory") /\ Admitting # {} ->
            Admit(c) /\ Make(k, "directory") /\ Reach(c, "assigning")
       [] OTHER ->
            /\ server' = [server EXCEPT ![c] = Rest]
            /\ UNCHANGED <<launches, held>>
  /\ UNCHANGED <<worker, launched, spent>>

(* immutable: a file is whole or absent, and one that is there is only     *)
(* compared; what differs ends the request.                                *)
WriteOnce(k, f, content) ==
  IF There(k, f) THEN launches[k][f] = content /\ UNCHANGED launches
  ELSE Keep(k, f, content)
Withdraw(c) == server' = [server EXCEPT ![c] = Rest] /\ held' = Closed(c) /\ UNCHANGED launches

(* assignment.json holds the digest of the request, request.json itself.   *)
RetainRequest(c, f) ==
  LET k == server[c].command IN
  IF There(k, f) /\ launches[k][f] # server[c].body THEN Withdraw(c)
  ELSE /\ WriteOnce(k, f, server[c].body) /\ UNCHANGED held
       /\ Reach(c, IF f = "assignment" THEN "freezing" ELSE "queueing")

WriteAssignment(c) ==
  /\ Serves(c, "assigning") /\ RetainRequest(c, "assignment")
  /\ UNCHANGED <<worker, launched, spent>>

FreezeRequest(c) ==
  /\ Serves(c, "freezing") /\ RetainRequest(c, "request")
  /\ UNCHANGED <<worker, launched, spent>>

Receipt(status, run) == [status |-> status, run |-> run]
SetStatus(k, status) == Keep(k, "receipt", Receipt(status, launches[k].receipt.run))

QueueReceipt(c) ==
  /\ Serves(c, "queueing") /\ Keep(server[c].command, "receipt", Receipt("queued", NoRun))
  /\ Reach(c, "opening")
  /\ UNCHANGED <<worker, held, launched, spent>>

OpenLock(c) ==
  /\ Serves(c, "opening") /\ Make(server[c].command, "lock") /\ Reach(c, "owning")
  /\ UNCHANGED <<worker, held, launched, spent>>

(* lock_held asks by taking the lock: a view of the launches may have it   *)
(* for that moment, and then the launch has failed.                        *)
TakeLaunchLock(c) ==
  LET k == server[c].command IN
  /\ Serves(c, "owning")
  /\ \/ Reach(c, "failing") /\ UNCHANGED held
     \/ ~LockHeld(k) /\ Reach(c, "attempting") /\ held' = [held EXCEPT ![k] = c]
  /\ UNCHANGED <<launches, worker, launched, spent>>

(* Of one time, so never the same twice.                                   *)
MarkAttempt(c) ==
  LET k == server[c].command IN
  /\ Serves(c, "attempting")
  /\ IF There(k, "attempt") THEN Withdraw(c)
     ELSE Make(k, "attempt") /\ Reach(c, "spawning") /\ UNCHANGED held
  /\ UNCHANGED <<worker, launched, spent>>

(* As Inherited, when the slot stays with the server.                      *)
InheritedLock(c, k) == [held EXCEPT ![k] = k]

(* The driver inherits both descriptors.                                   *)
Inherited(c, k) ==
  [lock \in DOMAIN held |-> IF lock # "mutation" /\ held[lock] = c THEN k ELSE held[lock]]

SpawnDriver(c) ==
  LET k == server[c].command IN
  /\ Serves(c, "spawning")
  /\ \/ /\ worker' = [worker EXCEPT ![k] = "started"] /\ held' = Inherited(c, k)
        /\ Reach(c, "closing")
     \/ Reach(c, "failing") /\ UNCHANGED <<worker, held>>
  /\ UNCHANGED <<launches, launched, spent>>

FailLaunch(c) ==
  LET k == server[c].command IN
  /\ Serves(c, "failing") /\ Reach(c, "closing")
  /\ SetStatus(k, "failed")
  /\ UNCHANGED <<worker, held, launched, spent>>

CloseLaunch(c) ==
  /\ Serves(c, "closing") /\ held' = Closed(c) /\ Reach(c, "answering")
  /\ UNCHANGED <<launches, worker, launched, spent>>

-----------------------------------------------------------------------------
(* What is told of a command.                                              *)

IsAssigned(k) == There(k, "assignment")
IsReadable(k) == IsAssigned(k) /\ There(k, "request")
Observed(k) == IF There(k, "observation") THEN launches[k].observation ELSE NoRun

(* The run is that of the original observation, and of nothing else; an    *)
(* attempt that nobody drives is uncertain.                                *)
ReadReceipt(k) == IF There(k, "receipt") THEN launches[k].receipt
                  ELSE Receipt("uncertain", NoRun)
LaunchReceipt(k) ==
  LET known == There(k, "observation") \/ ReadReceipt(k).run = NoRun
      unowned == /\ ReadReceipt(k).status \notin {"finished", "failed"}
                 /\ ~LockHeld(k) /\ There(k, "attempt")
  IN Receipt(IF unowned \/ ~known THEN "uncertain" ELSE ReadReceipt(k).status, Observed(k))

(* A retained command is told of under the mutation lock, and only to the  *)
(* request it retains; a directory without its files is told of to nobody. *)
RetainsRequest(k, b) == launches[k].request = b

IsTold(c) == server[c].shown.status # None

TellRetained(c) ==
  LET k == server[c].command IN
  /\ Serves(c, "retained") /\ Holding("mutation", Open)
  /\ IF IsReadable(k) /\ RetainsRequest(k, server[c].body)
       THEN server' = [server EXCEPT ![c].stage = "idle", ![c].shown = LaunchReceipt(k)]
       ELSE server' = [server EXCEPT ![c] = Rest]
  /\ UNCHANGED <<launches, worker, held, launched, spent>>

TellLaunched(c) ==
  LET k == server[c].command IN
  /\ Serves(c, "answering")
  /\ server' = [server EXCEPT ![c].stage = "idle", ![c].shown = LaunchReceipt(k)]
  /\ UNCHANGED <<launches, worker, held, launched, spent>>

-----------------------------------------------------------------------------
(* The driver.                                                             *)

Works(k, stage) == worker[k] = stage
Leave(k) == worker' = [worker EXCEPT ![k] = "away"] /\ held' = Exited(k)
Advance(k, stage) == worker' = [worker EXCEPT ![k] = stage] /\ UNCHANGED held

(* process.json is that of one driver; and what was frozen is compared     *)
(* with what is there now, before any effect.                              *)
CheckFrozen(k) ==
  /\ Works(k, "started")
  /\ \/ /\ ~There(k, "process") /\ Advance(k, "preparing")
        /\ launches' = [launches EXCEPT ![k].there = @ \union {"process"},
                                        ![k].receipt.status = "launch-attempted"]
     \/ SetStatus(k, "failed") /\ Leave(k)
  /\ UNCHANGED <<server, launched, spent>>

PrepareRun(k) ==
  /\ Works(k, "preparing")
  /\ executions' = executions \union
       {[of |-> k, nth |-> Cardinality({r \in executions : r.of = k}) + 1]}
  /\ Advance(k, "observing")
  /\ UNCHANGED <<launches, server, worked, capacity, spent>>

Latest(k) == CHOOSE r \in executions : r.of = k /\ \A s \in executions : s.of = k => s.nth <= r.nth

ObservePreparation(k) ==
  /\ Works(k, "observing") /\ WriteOnce(k, "observation", Latest(k)) /\ Advance(k, "naming")
  /\ UNCHANGED <<server, launched, spent>>

NameRun(k) ==
  /\ Works(k, "naming") /\ Keep(k, "receipt", Receipt("prepared", Latest(k)))
  /\ Advance(k, "executing")
  /\ UNCHANGED <<server, launched, spent>>

StartActors(k) ==
  /\ Works(k, "executing")
  /\ worked' = worked \union {[run |-> Latest(k), body |-> launches[k].request]}
  /\ Advance(k, "ending")
  /\ UNCHANGED <<launches, server, executions, capacity, spent>>

(* It may fail anywhere; what it ends with is its exit code.               *)
EndDriver(k) ==
  /\ worker[k] \notin {"away", "started"} /\ Leave(k)
  /\ \/ Works(k, "ending") /\ SetStatus(k, "finished")
     \/ SetStatus(k, "failed")
  /\ UNCHANGED <<server, launched, spent>>

-----------------------------------------------------------------------------
(* Recovery of what a prepared run has left.                               *)

(* As StillOwns, by the observed run alone.                                *)
OwnsObserved(k, r) == LockHeld(k) /\ Observed(k) = r

(* A driver whose run is not known yet may be the one.                     *)
StillOwns(k, r) == LockHeld(k) /\ Observed(k) \in {NoRun, r}

(* recover, under the mutation lock and with a slot: one directory that    *)
(* has not got its files refuses every recovery.                           *)
RecoverRun(c, r) ==
  /\ IsNext(c) /\ spent.recoveries < MaxRecoveries /\ Spend("recoveries")
  /\ r \in executions /\ Holding("mutation", Open) /\ Admit(c)
  /\ \A k \in CommandIds : There(k, "directory") => IsAssigned(k) /\ ~StillOwns(k, r)
  /\ server' = [server EXCEPT ![c] = [Rest EXCEPT !.stage = "restoring", !.run = r]]
  /\ UNCHANGED <<launches, worker, launched>>

(* A lost receipt is made again, from the original observation only; then  *)
(* the contribution is resumed, if that was asked.                         *)
RestoreReceipts(c) ==
  LET mine == {k \in CommandIds : There(k, "observation") /\ Observed(k) = server[c].run} IN
  /\ Serves(c, "restoring") /\ \A k \in mine : IsReadable(k) /\ ~LockHeld(k)
  /\ launches' = [k \in CommandIds |-> IF k \in mine
       THEN [launches[k] EXCEPT !.there = @ \union {"receipt"},
                                !.receipt = Receipt(ReadReceipt(k).status, Observed(k))]
       ELSE launches[k]]
  /\ Reach(c, "resuming")
  /\ UNCHANGED <<worker, held, launched, spent>>

EndRecovery(c) ==
  /\ server[c].stage \in {"restoring", "resuming"}
  /\ held' = Closed(c) /\ server' = [server EXCEPT ![c] = Rest]
  /\ UNCHANGED <<launches, worker, launched, spent>>

-----------------------------------------------------------------------------
(* What happens around them.                                               *)

(* A server dies with its locks, but not with its drivers; without a lock  *)
(* there is nothing that dies with it.                                     *)
ServerDies(c) ==
  /\ \E lock \in DOMAIN held : Holding(lock, c)
  /\ spent.faults < MaxLosses /\ Spend("faults")
  /\ server' = [server EXCEPT ![c] = Rest] /\ held' = Closed(c)
  /\ UNCHANGED <<launches, worker, launched>>

DriverDies(k) ==
  /\ ~Works(k, "away") /\ spent.faults < MaxLosses /\ Spend("faults") /\ Leave(k)
  /\ UNCHANGED <<launches, server, launched>>

(* A file is lost while nobody works on the command.                       *)
LoseFile(k, f) ==
  /\ spent.faults < MaxLosses /\ Spend("faults") /\ There(k, f)
  /\ Works(k, "away") /\ Holding("mutation", Open)
  /\ \A c \in Servers : ~Serves(c, "answering")
  /\ launches' = [launches EXCEPT ![k].there = @ \ {f}]
  /\ UNCHANGED <<server, worker, held, launched>>

LaunchInit ==
  /\ launches = [k \in CommandIds |-> [there |-> {}, observation |-> NoRun,
       assignment |-> None, request |-> None,
       receipt |-> Receipt(None, NoRun)]]
  /\ server = [c \in Servers |-> Rest] /\ worker = [k \in CommandIds |-> "away"]
  /\ held = [lock \in {"mutation", "slot1", "slot2"} \union CommandIds |-> Open]
  /\ capacity \in 1 .. 2
  /\ executions = {} /\ worked = {}
  /\ spent = [requests |-> 0, recoveries |-> 0, faults |-> 0]

LaunchNext ==
  \/ \E c \in Servers :
       \/ \E k \in CommandIds, b \in Bodies : RequestLaunch(c, k, b)
       \/ AdmitLaunch(c) \/ WriteAssignment(c) \/ FreezeRequest(c) \/ QueueReceipt(c)
       \/ OpenLock(c) \/ TakeLaunchLock(c) \/ MarkAttempt(c) \/ SpawnDriver(c) \/ FailLaunch(c)
       \/ CloseLaunch(c) \/ TellRetained(c) \/ TellLaunched(c)
       \/ \E r \in executions : RecoverRun(c, r)
       \/ RestoreReceipts(c) \/ EndRecovery(c) \/ ServerDies(c)
  \/ \E k \in CommandIds :
       \/ CheckFrozen(k) \/ PrepareRun(k) \/ ObservePreparation(k) \/ NameRun(k)
       \/ StartActors(k) \/ EndDriver(k) \/ DriverDies(k)
       \/ \E f \in {"receipt", "observation"} : LoseFile(k, f)

LaunchSpec == LaunchInit /\ [][LaunchNext]_launchVars

-----------------------------------------------------------------------------
(* However often and from however many servers a command is sent, one run  *)
(* is prepared for it at most and its receipt does not start over, its     *)
(* actors get the body it was accepted with, and whoever is told of it     *)
(* asked for that and hears of no other run (start looks for the directory *)
(* again under the lock, :443-445; retained_command compares, :488).       *)
CommandIsOneRequest ==
  /\ \A k \in CommandIds :
       /\ Cardinality({r \in executions : r.of = k}) <= 1
       /\ There(k, "observation") => ReadReceipt(k).status # "queued"
  /\ \A w \in worked, c \in Servers :
       IsTold(c) /\ server[c].command = w.run.of =>
         server[c].body = w.body /\ server[c].shown.run \in {NoRun, w.run}

(* A run is recovered only when the driver that prepared it is gone, even  *)
(* when nothing tells yet which run that driver has prepared (recover      *)
(* refuses for a held driver.lock without an observation, :757-759).       *)
RecoveryIsAlone ==
  \A c \in Servers : server[c].stage \in {"restoring", "resuming"} =>
    Works(server[c].run.of, "away")

(* No more drivers and recoveries work at a time than the root has slots,  *)
(* whichever of the servers that admitted them are still there             *)
(* (the driver inherits the slot's descriptor, :470-473; driver_slot).     *)
WorkIsAdmitted ==
  Cardinality({k \in CommandIds : ~Works(k, "away")}
              \union {c \in Servers : server[c].stage \in {"restoring", "resuming"}}) <= capacity
=============================================================================
