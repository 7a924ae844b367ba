--------------------------- MODULE CommandsProofs ---------------------------
(***************************************************************************)
(* Theorems of the services that act on commands: the idempotent services, *)
(* for any callers, keys, requests and number of faults; launched work,    *)
(* for any servers, commands and bodies and any number of requests,        *)
(* recoveries, deaths and lost files; and contributions to the native      *)
(* store, for any resumers and any number of resumptions and deposits.     *)
(***************************************************************************)
EXTENDS Once, Launch, Opermem, FiniteSetTheorems, TLAPS

USE LaunchAssumption

-----------------------------------------------------------------------------
\* Types.

Files == {"directory", "assignment", "request", "receipt", "lock", "attempt", "process",
          "observation"}
RunOf(k) == [of |-> k, nth |-> 1]
Runs == {NoRun} \union {RunOf(k) : k \in CommandIds}
Statuses == {None, "queued", "launch-attempted", "prepared", "finished", "failed", "uncertain"}
Receipts == [status : Statuses, run : Runs]

Directories ==
  [there : SUBSET Files, observation : Runs, assignment : Bodies \union {None},
   request : Bodies \union {None}, receipt : Receipts]

Admitted == {"assigning", "freezing", "queueing", "opening", "owning", "attempting", "spawning"}
Recovering == {"restoring", "resuming"}
Launching == Admitted \union {"failing", "closing"}
Serving == Launching \union {"retained", "locking", "answering"}

ServerSessions ==
  [stage : {"idle"} \union Recovering \union Serving, command : CommandIds \union {None},
   body : Bodies \union {None}, run : Runs, shown : Receipts]

Prepared == {"observing", "naming", "executing", "ending"}
Locks == {"mutation", "slot1", "slot2"} \union CommandIds

LaunchTypes ==
  /\ launches \in [CommandIds -> Directories]
  /\ server \in [Servers -> ServerSessions]
  /\ worker \in [CommandIds -> {"away", "started", "preparing"} \union Prepared]
  /\ held \in [Locks -> {Open} \union Servers \union CommandIds]
  /\ capacity \in 1 .. 2
  /\ executions \subseteq {RunOf(k) : k \in CommandIds}

-----------------------------------------------------------------------------
\* The inductive invariant.

\* Who has the root's mutation lock.
MutationHeld ==
  \A c \in Servers : server[c].stage \in Launching \union Recovering => held["mutation"] = c

\* Who works has a slot of the root, and a driver the lock of its directory.
Slotted(who) == \E n \in 1 .. capacity : held[SlotNamed(n)] = who

SlotsHeld ==
  /\ \A c \in Servers : server[c].stage \in Admitted \union Recovering => Slotted(c)
  /\ \A k \in CommandIds : worker[k] # "away" => Slotted(k) /\ held[k] = k

\* A launch concerns a command; it has its lock before it marks its attempt.
LaunchKnown ==
  \A c \in Servers :
    LET k == server[c].command
        stage == server[c].stage
    IN /\ stage \in Serving => k \in CommandIds
       /\ stage \in {"attempting", "spawning"} => held[k] = c
       /\ stage \in Admitted \ {"spawning"} => ~There(k, "attempt")
       /\ stage = "spawning" => There(k, "attempt")
       /\ stage \in Launching \union {"answering"} => There(k, "directory")
       /\ stage \in (Launching \ {"assigning", "freezing"}) \union {"answering"} =>
            There(k, "request") /\ launches[k].request = server[c].body

\* What the files of a command say of each other and of its driver.
FilesAgree ==
  \A k \in CommandIds :
    /\ \A f \in launches[k].there : There(k, "directory")
    /\ There(k, "observation") => There(k, "process")
    /\ There(k, "process") => There(k, "attempt") /\ launches[k].receipt.status # "queued"
    /\ launches[k].observation \in {NoRun, RunOf(k)}
    /\ worker[k] # "away" => There(k, "attempt") /\ There(k, "request")
    /\ worker[k] \notin {"away", "started"} => There(k, "process")
    /\ RunOf(k) \in executions => There(k, "process") /\ worker[k] # "preparing"
    /\ worker[k] \in Prepared => RunOf(k) \in executions

\* What was worked at, and what was told, is what the command retains.
WorkedAsFrozen ==
  \A w \in worked : \E k \in CommandIds :
    w = [run |-> RunOf(k), body |-> launches[k].request] /\ There(k, "request")

ToldAsFrozen ==
  \A c \in Servers : IsTold(c) =>
    LET k == server[c].command IN
    /\ k \in CommandIds /\ There(k, "request") /\ launches[k].request = server[c].body
    /\ server[c].shown.run \in {NoRun, RunOf(k)}

RecoveryKnown ==
  \A c \in Servers : server[c].stage \in Recovering =>
    \E k \in CommandIds : server[c].run = RunOf(k) /\ worker[k] = "away"

LaunchInv ==
  /\ LaunchTypes /\ MutationHeld /\ SlotsHeld /\ LaunchKnown /\ FilesAgree
  /\ WorkedAsFrozen /\ ToldAsFrozen /\ RecoveryKnown

-----------------------------------------------------------------------------
\* What the auxiliary operators do.

LEMMA InitInv == LaunchInit => LaunchInv
<1> SUFFICES ASSUME LaunchInit PROVE LaunchInv
  OBVIOUS
<1>1. NoRun \in Runs /\ Rest \in ServerSessions /\ Rest.stage = "idle" /\ Rest.shown.status = None
  BY DEF Runs, Rest, ServerSessions, Receipts, Statuses
<1>2. \A c \in Servers : server[c].stage = "idle" /\ ~IsTold(c)
  BY <1>1 DEF LaunchInit, IsTold
<1>3. LaunchTypes
  BY <1>1 DEF LaunchInit, LaunchTypes, Directories, Receipt, Receipts, Statuses, Locks
<1>4. \A k \in CommandIds : launches[k].there = {} /\ launches[k].observation = NoRun
  BY DEF LaunchInit
<1> QED
  BY <1>2, <1>3, <1>4 DEF LaunchInit, LaunchInv, MutationHeld, SlotsHeld, LaunchKnown, FilesAgree,
    WorkedAsFrozen, ToldAsFrozen, RecoveryKnown, Admitted, Recovering, Launching, Serving, Prepared,
    There

(* A server that goes on keeps what it has read.                           *)
LEMMA ReachKeeps ==
  ASSUME LaunchTypes, NEW c \in Servers, NEW stage \in {"idle"} \union Recovering \union Serving,
         Reach(c, stage)
  PROVE /\ server' \in [Servers -> ServerSessions] /\ server'[c].stage = stage
        /\ server'[c].command = server[c].command /\ server'[c].body = server[c].body
        /\ server'[c].run = server[c].run /\ server'[c].shown = server[c].shown
        /\ \A d \in Servers : d # c => server'[d] = server[d]
<1>1. server \in [Servers -> ServerSessions]
  BY DEF LaunchTypes
<1>2. server' = [server EXCEPT ![c] = [server[c] EXCEPT !.stage = stage]]
  BY DEF Reach
<1>3. [server[c] EXCEPT !.stage = stage] \in ServerSessions
  BY <1>1 DEF ServerSessions
<1>4. server'[c] = [server[c] EXCEPT !.stage = stage]
  BY <1>1, <1>2
<1> QED
  BY <1>1, <1>2, <1>3, <1>4 DEF ServerSessions

(* A file is added to the directory, whatever its content is.              *)
LEMMA MakeKeeps ==
  ASSUME LaunchTypes, NEW k \in CommandIds, NEW f \in Files, Make(k, f)
  PROVE /\ launches' \in [CommandIds -> Directories]
        /\ launches'[k] = [launches[k] EXCEPT !.there = launches[k].there \union {f}]
        /\ launches'[k].there = launches[k].there \union {f}
        /\ launches'[k].request = launches[k].request
        /\ launches'[k].receipt = launches[k].receipt
        /\ launches'[k].observation = launches[k].observation
        /\ \A j \in CommandIds : j # k => launches'[j] = launches[j]
<1>1. launches \in [CommandIds -> Directories]
  BY DEF LaunchTypes
<1>2. launches' = [launches EXCEPT ![k] =
                    [launches[k] EXCEPT !.there = launches[k].there \union {f}]]
  BY DEF Make
<1>3. [launches[k] EXCEPT !.there = launches[k].there \union {f}] \in Directories
  BY <1>1 DEF Directories
<1> QED
  BY <1>1, <1>2, <1>3 DEF Directories

LEMMA KeepReceipt ==
  ASSUME LaunchTypes, NEW k \in CommandIds, NEW r \in Receipts, Keep(k, "receipt", r)
  PROVE /\ launches' \in [CommandIds -> Directories]
        /\ launches'[k].there = launches[k].there \union {"receipt"}
        /\ launches'[k].request = launches[k].request
        /\ launches'[k].receipt = r
        /\ launches'[k].observation = launches[k].observation
        /\ \A j \in CommandIds : j # k => launches'[j] = launches[j]
<1>1. launches \in [CommandIds -> Directories]
  BY DEF LaunchTypes
<1> DEFINE new == [launches[k] EXCEPT !.there = launches[k].there \union {"receipt"}, !.receipt = r]
<1>2. launches' = [launches EXCEPT ![k] = new]
  BY <1>1 DEF Keep, Directories
<1>3. new \in Directories
  BY <1>1 DEF Directories, Files
<1>4. new.there = launches[k].there \union {"receipt"} /\ new.request = launches[k].request
      /\ new.receipt = r /\ new.observation = launches[k].observation
  BY <1>1 DEF Directories
<1> HIDE DEF new
<1> QED
  BY <1>1, <1>2, <1>3, <1>4

(* Of those who serve under the mutation lock there is one.                *)
LEMMA OneServes ==
  ASSUME LaunchInv, NEW c \in Servers, server[c].stage \in Launching \union Recovering
  PROVE /\ held["mutation"] = c
        /\ \A d \in Servers : d # c => server[d].stage \notin Launching \union Recovering
BY DEF LaunchInv, MutationHeld

-----------------------------------------------------------------------------
\* One lemma per operation.

(* A server that has the mutation lock writes a file of its command.       *)
LEMMA ServerWrites ==
  ASSUME LaunchInv, NEW c \in Servers, server[c].stage \in Launching,
         NEW stage \in Launching, Reach(c, stage),
         UNCHANGED <<worker, held, executions, worked, capacity>>,
         NEW k \in CommandIds, k = server[c].command,
         launches' \in [CommandIds -> Directories],
         NEW f \in Files \ {"process", "observation"},
         launches'[k].there = launches[k].there \union {f},
         \A j \in CommandIds : j # k => launches'[j] = launches[j],
         launches'[k].observation = launches[k].observation,
         There(k, "request") => launches'[k].request = launches[k].request,
         launches'[k].receipt.status = "queued" =>
           ~There(k, "process") \/ launches[k].receipt.status = "queued",
         stage \in Admitted => server[c].stage \in Admitted,
         stage \in {"attempting", "spawning"} => held[k] = c,
         stage \in Admitted \ {"spawning"} => ~There(k, "attempt") /\ f # "attempt",
         stage = "spawning" => f = "attempt",
         stage \notin {"assigning", "freezing"} =>
           launches'[k].request = server[c].body /\ "request" \in launches'[k].there
  PROVE LaunchInv'
<1>1. There(k, "directory")
  BY DEF LaunchInv, LaunchKnown, Launching, Admitted
<1>2. /\ server' \in [Servers -> ServerSessions] /\ server'[c].stage = stage
      /\ server'[c].command = k /\ server'[c].body = server[c].body
      /\ server'[c].run = server[c].run /\ server'[c].shown = server[c].shown
      /\ \A d \in Servers : d # c => server'[d] = server[d]
  BY ReachKeeps DEF LaunchInv, Serving
<1>3. \A d \in Servers : d # c => server[d].stage \notin Launching \union Recovering
  BY OneServes
<1>4. LaunchTypes'
  BY <1>2 DEF LaunchInv, LaunchTypes
<1>5. MutationHeld'
  BY <1>2 DEF LaunchInv, MutationHeld
<1>6. SlotsHeld'
  BY <1>2 DEF LaunchInv, SlotsHeld, Slotted, Recovering, Launching, Admitted
<1>7. LaunchKnown'
  BY <1>1, <1>2, <1>3 DEF LaunchInv, LaunchKnown, There, Serving, Launching, Admitted
<1>8. FilesAgree'
  BY <1>1 DEF LaunchInv, FilesAgree, There
<1>9. WorkedAsFrozen'
  BY DEF LaunchInv, WorkedAsFrozen, There
<1>10. ToldAsFrozen'
  BY <1>2 DEF LaunchInv, ToldAsFrozen, IsTold, There
<1>11. RecoveryKnown'
  BY <1>2 DEF LaunchInv, RecoveryKnown, Recovering, Launching, Admitted
<1> QED
  BY <1>4, <1>5, <1>6, <1>7, <1>8, <1>9, <1>10, <1>11 DEF LaunchInv

(* A server that works under no lock, and frees those it had.              *)
LEMMA ServerLeaves ==
  ASSUME LaunchInv, NEW c \in Servers, held' = held \/ held' = Closed(c),
         UNCHANGED <<launches, worker, executions, worked, capacity>>,
         server' \in [Servers -> ServerSessions],
         \A d \in Servers : d # c => server'[d] = server[d],
         server'[c].stage \in {"idle", "retained", "locking", "answering"},
         server'[c].stage # "idle" => server'[c].command \in CommandIds,
         server'[c].stage = "answering" \/ server'[c].shown.status # None =>
           LET k == server'[c].command IN
           k \in CommandIds /\ There(k, "directory") /\ There(k, "request")
             /\ launches[k].request = server'[c].body,
         server'[c].shown.status # None =>
           server'[c].shown.run \in {NoRun, RunOf(server'[c].command)}
  PROVE LaunchInv'
<1>1. /\ held' \in [Locks -> {Open} \union Servers \union CommandIds]
      /\ \A each \in Locks : held[each] # c => held'[each] = held[each]
  BY DEF LaunchInv, LaunchTypes, Closed
<1>2. LaunchTypes'
  BY <1>1 DEF LaunchInv, LaunchTypes
<1>3. MutationHeld'
  BY <1>1 DEF LaunchInv, MutationHeld, Launching, Admitted, Recovering, Locks
<1>4. SlotsHeld'
  <2>1. \A who \in Servers \union CommandIds : who # c /\ Slotted(who) => Slotted(who)'
    BY <1>1 DEF LaunchInv, LaunchTypes, Slotted, SlotNamed, Locks
  <2> QED
    BY ZenonT(60), <1>1, <2>1 DEF LaunchInv, SlotsHeld, Admitted, Recovering, Locks
<1>5. LaunchKnown'
  <2>1. ASSUME NEW d \in Servers, d # c, server[d].stage \in {"attempting", "spawning"}
        PROVE held'[server[d].command] = d
    BY <1>1, <2>1 DEF LaunchInv, LaunchKnown, Serving, Launching, Admitted, Locks
  <2>2. server'[c].stage \notin Launching
    BY DEF Launching, Admitted
  <2>3. /\ server'[c].stage \in Serving => server'[c].command \in CommandIds
        /\ server'[c].stage = "answering" =>
             /\ There(server'[c].command, "directory") /\ There(server'[c].command, "request")
             /\ launches[server'[c].command].request = server'[c].body
    BY DEF Serving, Launching, Admitted
  <2>4. \A k \in CommandIds, f \in Files : There(k, f)' <=> There(k, f)
    BY DEF There
  <2> QED
    BY <2>1, <2>2, <2>3 DEF LaunchInv, LaunchKnown, There, Launching, Admitted
<1>6. FilesAgree' /\ WorkedAsFrozen'
  BY DEF LaunchInv, FilesAgree, WorkedAsFrozen, There
<1>7. ToldAsFrozen'
  BY DEF LaunchInv, ToldAsFrozen, IsTold, There
<1>8. RecoveryKnown'
  BY DEF LaunchInv, RecoveryKnown, Recovering
<1> QED
  BY <1>2, <1>3, <1>4, <1>5, <1>6, <1>7, <1>8 DEF LaunchInv

LEMMA RequestLaunchKeeps ==
  ASSUME LaunchInv, NEW c \in Servers, NEW k \in CommandIds, NEW b \in Bodies,
         RequestLaunch(c, k, b)
  PROVE LaunchInv'
<1> DEFINE s == IF There(k, "directory") THEN "retained" ELSE "locking"
           new == [Rest EXCEPT !.stage = s, !.command = k, !.body = b]
<1>1. server' = [server EXCEPT ![c] = new]
      /\ UNCHANGED <<launches, worker, held, executions, worked, capacity>>
  BY DEF RequestLaunch, launched
<1>2. new \in ServerSessions /\ new.stage = s /\ new.command = k /\ new.shown.status = None
  BY DEF Rest, ServerSessions, Serving, Receipts, Statuses, Runs
<1>3. server \in [Servers -> ServerSessions]
  BY DEF LaunchInv, LaunchTypes
<1> HIDE DEF new
<1>4. /\ server' \in [Servers -> ServerSessions] /\ server'[c] = new
      /\ \A d \in Servers : d # c => server'[d] = server[d]
  BY <1>1, <1>2, <1>3
<1> QED
  BY <1>1, <1>2, <1>4, ServerLeaves

(* A server that gives up what it was asked.                               *)
LEMMA RestKeeps ==
  ASSUME LaunchInv, NEW c \in Servers, server' = [server EXCEPT ![c] = Rest],
         held' = held \/ held' = Closed(c),
         UNCHANGED <<launches, worker, executions, worked, capacity>>
  PROVE LaunchInv'
<1>1. Rest \in ServerSessions /\ Rest.stage = "idle" /\ Rest.shown.status = None
  BY DEF Rest, ServerSessions, Receipts, Statuses, Runs
<1>2. server \in [Servers -> ServerSessions]
  BY DEF LaunchInv, LaunchTypes
<1>3. /\ server' \in [Servers -> ServerSessions] /\ server'[c] = Rest
      /\ \A d \in Servers : d # c => server'[d] = server[d]
  BY <1>1, <1>2
<1> QED
  BY <1>1, <1>3, ServerLeaves

LEMMA EndRecoveryKeeps ==
  ASSUME LaunchInv, NEW c \in Servers, EndRecovery(c) \/ ServerDies(c)
  PROVE LaunchInv'
BY RestKeeps DEF EndRecovery, ServerDies, launched

(* What is told of a command is of its own run.                            *)
LEMMA ReceiptIsOwn ==
  ASSUME LaunchInv, NEW k \in CommandIds
  PROVE LaunchReceipt(k) \in Receipts /\ LaunchReceipt(k).run \in {NoRun, RunOf(k)}
<1>1. Observed(k) \in {NoRun, RunOf(k)} /\ Observed(k) \in Runs
  BY DEF Observed, LaunchInv, FilesAgree, Runs
<1>2. ReadReceipt(k) \in Receipts
  BY DEF ReadReceipt, LaunchInv, LaunchTypes, Directories, Receipt, Receipts, Statuses, Runs
<1>3. \A status \in Statuses, r \in Runs :
        Receipt(status, r) \in Receipts /\ Receipt(status, r).run = r
  BY DEF Receipt, Receipts
<1>4. ReadReceipt(k).status \in Statuses /\ "uncertain" \in Statuses
  BY <1>2 DEF Receipts, Statuses
<1> QED
  BY <1>1, <1>3, <1>4 DEF LaunchReceipt

(* An answer is kept with the request that it was given to.                *)
LEMMA TellKeeps ==
  ASSUME LaunchInv, NEW c \in Servers, server[c].command \in CommandIds,
         There(server[c].command, "request"), There(server[c].command, "directory"),
         launches[server[c].command].request = server[c].body,
         server' = [server EXCEPT ![c].stage = "idle",
                                  ![c].shown = LaunchReceipt(server[c].command)],
         UNCHANGED <<launches, worker, held, executions, worked, capacity>>
  PROVE LaunchInv'
<1> DEFINE receipt == LaunchReceipt(server[c].command)
           new == [server[c] EXCEPT !.stage = "idle", !.shown = receipt]
<1>1. receipt \in Receipts /\ receipt.run \in {NoRun, RunOf(server[c].command)}
  BY ReceiptIsOwn
<1> HIDE DEF receipt
<1>2. server \in [Servers -> ServerSessions] /\ server[c] \in ServerSessions
  BY DEF LaunchInv, LaunchTypes
<1>3. new \in ServerSessions /\ new.stage = "idle" /\ new.command = server[c].command
      /\ new.body = server[c].body /\ new.shown = receipt
  BY <1>1, <1>2 DEF ServerSessions
<1>4. server' = [server EXCEPT ![c] = new]
  BY <1>2 DEF receipt
<1> HIDE DEF new
<1>5. /\ server' \in [Servers -> ServerSessions] /\ server'[c] = new
      /\ \A d \in Servers : d # c => server'[d] = server[d]
  BY <1>2, <1>3, <1>4
<1> QED
  BY <1>1, <1>3, <1>5, ServerLeaves

LEMMA TellRetainedKeeps ==
  ASSUME LaunchInv, NEW c \in Servers, TellRetained(c)
  PROVE LaunchInv'
<1> DEFINE k == server[c].command
<1>1. k \in CommandIds
  BY DEF TellRetained, Serves, LaunchInv, LaunchKnown, Serving
<1>2. CASE IsReadable(k) /\ RetainsRequest(k, server[c].body)
  <2>1. There(k, "directory")
    BY <1>1, <1>2 DEF IsReadable, There, LaunchInv, FilesAgree
  <2> QED
    BY <1>1, <1>2, <2>1, TellKeeps DEF TellRetained, launched, IsReadable, RetainsRequest
<1>3. CASE ~(IsReadable(k) /\ RetainsRequest(k, server[c].body))
  BY <1>3, RestKeeps DEF TellRetained, launched
<1> QED
  BY <1>2, <1>3

LEMMA TellLaunchedKeeps ==
  ASSUME LaunchInv, NEW c \in Servers, TellLaunched(c)
  PROVE LaunchInv'
<1>1. server[c].stage = "answering"
  BY DEF TellLaunched, Serves
<1> QED
  BY <1>1, TellKeeps DEF TellLaunched, launched, LaunchInv, LaunchKnown, Serving

LEMMA CloseLaunchKeeps ==
  ASSUME LaunchInv, NEW c \in Servers, CloseLaunch(c)
  PROVE LaunchInv'
<1> DEFINE k == server[c].command
<1>1. server[c].stage = "closing" /\ held' = Closed(c)
      /\ UNCHANGED <<launches, worker, executions, worked, capacity>>
  BY DEF CloseLaunch, Serves, launched
<1>2. k \in CommandIds /\ There(k, "directory") /\ There(k, "request")
      /\ launches[k].request = server[c].body
  BY <1>1 DEF LaunchInv, LaunchKnown, Serving, Launching, Admitted
<1>3. /\ server' \in [Servers -> ServerSessions] /\ server'[c].stage = "answering"
      /\ server'[c].command = k /\ server'[c].body = server[c].body
      /\ server'[c].shown = server[c].shown
      /\ \A d \in Servers : d # c => server'[d] = server[d]
  BY ReachKeeps DEF CloseLaunch, LaunchInv, Serving
<1>4. server[c].shown.status # None => server[c].shown.run \in {NoRun, RunOf(k)}
  BY DEF LaunchInv, ToldAsFrozen, IsTold
<1> QED
  BY <1>1, <1>2, <1>3, <1>4, ServerLeaves

(* What a server that launches knows of its command.                       *)
LEMMA LaunchedHere ==
  ASSUME LaunchInv, NEW c \in Servers, server[c].stage \in Launching
  PROVE /\ server[c].command \in CommandIds
        /\ server[c].stage \in Admitted \ {"spawning"} => ~There(server[c].command, "attempt")
        /\ There(server[c].command, "process") => There(server[c].command, "attempt")
        /\ server[c].stage \notin {"assigning", "freezing"} =>
             /\ There(server[c].command, "request")
             /\ launches[server[c].command].request = server[c].body
        /\ server[c].body \in Bodies \union {None}
BY DEF LaunchInv, LaunchKnown, FilesAgree, LaunchTypes, ServerSessions, Serving

(* assignment.json and request.json: another file of that name ends it.    *)
LEMMA RetainRequestKeeps ==
  ASSUME LaunchInv, NEW c \in Servers, NEW f \in {"assignment", "request"},
         server[c].stage = IF f = "assignment" THEN "assigning" ELSE "freezing",
         RetainRequest(c, f), UNCHANGED <<worker, executions, worked, capacity>>
  PROVE LaunchInv'
<1> DEFINE k == server[c].command
<1>1. CASE There(k, f) /\ launches[k][f] # server[c].body
  BY <1>1, RestKeeps DEF RetainRequest, Withdraw
<1>2. CASE ~(There(k, f) /\ launches[k][f] # server[c].body)
  <2> DEFINE next == IF f = "assignment" THEN "freezing" ELSE "queueing"
  <2>1. held' = held /\ WriteOnce(k, f, server[c].body) /\ Reach(c, next)
    BY <1>2 DEF RetainRequest
  <2>2. /\ server[c].stage \in Launching /\ server[c].stage \in Admitted \ {"spawning"}
        /\ next \in Launching /\ next \notin {"spawning", "attempting"}
    BY DEF Launching, Admitted
  <2>3. k \in CommandIds /\ server[c].body \in Bodies \union {None}
        /\ ~There(k, "attempt") /\ ~There(k, "process")
    BY <2>2, LaunchedHere
  <2>4. launches \in [CommandIds -> Directories]
    BY DEF LaunchInv, LaunchTypes
  <2>5. CASE There(k, f)
    <3>1. launches' = launches /\ launches[k][f] = server[c].body
      BY <2>1, <2>5 DEF WriteOnce
    <3>2. launches[k].there = launches[k].there \union {f}
      BY <2>5 DEF There
    <3>3. f = "request" => launches'[k].request = server[c].body /\ "request" \in launches'[k].there
      BY <3>1, <2>5 DEF There
    <3>4. next \notin {"assigning", "freezing"} => f = "request"
      OBVIOUS
    <3>5. f \in Files \ {"process", "observation"} /\ f # "attempt"
      BY DEF Files
    <3> HIDE DEF next
    <3> QED
      BY <2>1, <2>2, <2>3, <2>4, <3>1, <3>2, <3>3, <3>4, <3>5, ServerWrites
  <2>6. CASE ~There(k, f)
    <3> DEFINE new == [launches[k] EXCEPT !.there = launches[k].there \union {f},
                                          ![f] = server[c].body]
    <3>1. launches' = [launches EXCEPT ![k] = new]
      BY <2>1, <2>6, <2>3, <2>4 DEF WriteOnce, Keep, Directories
    <3>2. new \in Directories
      BY <2>3, <2>4 DEF Directories, Files
    <3>3. /\ new.there = launches[k].there \union {f} /\ new.receipt = launches[k].receipt
          /\ new.observation = launches[k].observation
          /\ f = "request" => new.request = server[c].body
          /\ f # "request" => new.request = launches[k].request
      BY <2>3, <2>4 DEF Directories
    <3> HIDE DEF new
    <3>4. launches' \in [CommandIds -> Directories] /\ launches'[k] = new
          /\ \A j \in CommandIds : j # k => launches'[j] = launches[j]
      BY <3>1, <3>2, <2>3, <2>4
    <3>5. f = "request" => launches'[k].request = server[c].body /\ "request" \in launches'[k].there
      BY <3>3, <3>4
    <3>6. next \notin {"assigning", "freezing"} => f = "request"
      OBVIOUS
    <3>7. f \in Files \ {"process", "observation"} /\ f # "attempt"
      BY DEF Files
    <3>8. There(k, "request") => launches'[k].request = launches[k].request
      BY <2>6, <3>3, <3>4
    <3> HIDE DEF next
    <3> QED
      BY <2>1, <2>2, <2>3, <3>3, <3>4, <3>5, <3>6, <3>7, <3>8, ServerWrites
  <2> QED
    BY <2>5, <2>6
<1> QED
  BY <1>1, <1>2

LEMMA WriteAssignmentKeeps ==
  ASSUME LaunchInv, NEW c \in Servers, WriteAssignment(c) \/ FreezeRequest(c)
  PROVE LaunchInv'
BY RetainRequestKeeps DEF WriteAssignment, FreezeRequest, Serves, launched

LEMMA QueueReceiptKeeps ==
  ASSUME LaunchInv, NEW c \in Servers, QueueReceipt(c)
  PROVE LaunchInv'
<1>1. /\ server[c].stage = "queueing" /\ Reach(c, "opening")
      /\ UNCHANGED <<worker, held, executions, worked, capacity>>
  BY DEF QueueReceipt, Serves, launched
<1>2. server[c].stage \in Launching /\ "opening" \in Admitted /\ "opening" \in Launching
      /\ server[c].stage \in Admitted \ {"spawning"} /\ "receipt" \in Files
  BY <1>1 DEF Launching, Admitted, Files
<1>3. Receipt("queued", NoRun) \in Receipts
  BY DEF Receipt, Receipts, Statuses, Runs
<1> QED
  BY <1>1, <1>2, <1>3, LaunchedHere, KeepReceipt, ServerWrites DEF QueueReceipt, LaunchInv, There

LEMMA OpenLockKeeps ==
  ASSUME LaunchInv, NEW c \in Servers, OpenLock(c)
  PROVE LaunchInv'
<1>1. /\ server[c].stage = "opening" /\ Reach(c, "owning")
      /\ UNCHANGED <<worker, held, executions, worked, capacity>>
  BY DEF OpenLock, Serves, launched
<1>2. server[c].stage \in Launching /\ "owning" \in Admitted /\ "owning" \in Launching
      /\ server[c].stage \in Admitted \ {"spawning"} /\ "lock" \in Files
  BY <1>1 DEF Launching, Admitted, Files
<1> DEFINE k == server[c].command
<1>3. /\ k \in CommandIds /\ launches[k].request = server[c].body
      /\ "request" \in launches[k].there /\ ~There(k, "attempt")
  BY <1>1, <1>2, LaunchedHere DEF There
<1>4. /\ launches' \in [CommandIds -> Directories]
      /\ launches'[k].there = launches[k].there \union {"lock"}
      /\ launches'[k].request = launches[k].request
      /\ launches'[k].receipt = launches[k].receipt
      /\ launches'[k].observation = launches[k].observation
      /\ \A j \in CommandIds : j # k => launches'[j] = launches[j]
  BY <1>2, <1>3, MakeKeeps DEF OpenLock, LaunchInv
<1> HIDE DEF k
<1> QED
  BY <1>1, <1>2, <1>3, <1>4, ServerWrites DEF k

LEMMA MarkAttemptKeeps ==
  ASSUME LaunchInv, NEW c \in Servers, MarkAttempt(c)
  PROVE LaunchInv'
<1>1. server[c].stage = "attempting" /\ UNCHANGED <<worker, executions, worked, capacity>>
  BY DEF MarkAttempt, Serves, launched
<1>2. server[c].stage \in Launching /\ "spawning" \in Admitted /\ "spawning" \in Launching
      /\ server[c].stage \in Admitted \ {"spawning"} /\ "attempt" \in Files
  BY <1>1 DEF Launching, Admitted, Files
<1>3. held[server[c].command] = c
  BY <1>1 DEF LaunchInv, LaunchKnown
<1>4. Make(server[c].command, "attempt") /\ Reach(c, "spawning") /\ held' = held
  BY <1>2, LaunchedHere DEF MarkAttempt
<1> DEFINE k == server[c].command
<1>5. /\ k \in CommandIds /\ launches[k].request = server[c].body
      /\ "request" \in launches[k].there
  BY <1>1, <1>2, LaunchedHere DEF There
<1>6. /\ launches' \in [CommandIds -> Directories]
      /\ launches'[k].there = launches[k].there \union {"attempt"}
      /\ launches'[k].request = launches[k].request
      /\ launches'[k].receipt = launches[k].receipt
      /\ launches'[k].observation = launches[k].observation
      /\ \A j \in CommandIds : j # k => launches'[j] = launches[j]
  BY <1>2, <1>4, <1>5, MakeKeeps DEF LaunchInv
<1> HIDE DEF k
<1> QED
  BY <1>1, <1>2, <1>3, <1>4, <1>5, <1>6, ServerWrites DEF k

LEMMA FailLaunchKeeps ==
  ASSUME LaunchInv, NEW c \in Servers, FailLaunch(c)
  PROVE LaunchInv'
<1> DEFINE k == server[c].command
           r == Receipt("failed", launches[k].receipt.run)
<1>1. /\ server[c].stage = "failing" /\ Reach(c, "closing") /\ Keep(k, "receipt", r)
      /\ UNCHANGED <<worker, held, executions, worked, capacity>>
  BY DEF FailLaunch, Serves, launched, SetStatus
<1>2. server[c].stage \in Launching /\ "closing" \notin Admitted /\ "closing" \in Launching
      /\ "receipt" \in Files
  BY <1>1 DEF Launching, Admitted, Files
<1>3. k \in CommandIds
  BY <1>2, LaunchedHere
<1>4. r \in Receipts /\ r.status = "failed"
  BY <1>3 DEF Receipt, Receipts, Statuses, LaunchInv, LaunchTypes, Directories
<1> HIDE DEF r
<1>5. launches[k].request = server[c].body /\ "request" \in launches[k].there
  BY <1>1, <1>2, LaunchedHere DEF There
<1>6. /\ launches' \in [CommandIds -> Directories]
      /\ launches'[k].there = launches[k].there \union {"receipt"}
      /\ launches'[k].request = launches[k].request
      /\ launches'[k].receipt = r
      /\ launches'[k].observation = launches[k].observation
      /\ \A j \in CommandIds : j # k => launches'[j] = launches[j]
  BY <1>1, <1>3, <1>4, KeepReceipt DEF LaunchInv
<1> QED
  BY <1>1, <1>2, <1>3, <1>4, <1>5, <1>6, ServerWrites DEF Admitted

\* Locks.

(* Whoever is given the mutation lock and a free slot takes nothing from   *)
(* those who work.                                                         *)
LEMMA AdmitGives ==
  ASSUME LaunchInv, NEW c \in Servers, Holding("mutation", Open), Admit(c)
  PROVE /\ held' \in [Locks -> {Open} \union Servers \union CommandIds]
        /\ held'["mutation"] = c
        /\ \A k \in CommandIds : held'[k] = held[k]
        /\ \E n \in 1 .. capacity : held'[SlotNamed(n)] = c
        /\ \A who \in Servers \union CommandIds : Slotted(who) =>
             \E n \in 1 .. capacity : held'[SlotNamed(n)] = who
<1>1. PICK n \in Admitting : held' = [held EXCEPT !["mutation"] = c, ![SlotNamed(n)] = c]
  BY DEF Admit
<1>2. n \in 1 .. 2 /\ n <= capacity /\ held[SlotNamed(n)] = Open
  BY DEF Admitting, IsFree, Holding
<1>3. held \in [Locks -> {Open} \union Servers \union CommandIds] /\ capacity \in 1 .. 2
  BY DEF LaunchInv, LaunchTypes
<1>4. SlotNamed(1) = "slot1" /\ SlotNamed(2) = "slot2"
  BY DEF SlotNamed
<1>5. n \in 1 .. capacity
  BY <1>2, <1>3
<1>6. \A m \in 1 .. capacity : m = 1 \/ m = 2
  BY <1>3
<1>7. SlotNamed(n) \in {"slot1", "slot2"}
  BY <1>2, <1>4
<1>8. /\ held' \in [Locks -> {Open} \union Servers \union CommandIds]
      /\ held'["mutation"] = c /\ held'[SlotNamed(n)] = c
      /\ \A k \in CommandIds : held'[k] = held[k]
  BY <1>1, <1>3, <1>7 DEF Locks
<1>9. \A m \in 1 .. capacity : m # n => held'[SlotNamed(m)] = held[SlotNamed(m)]
  BY <1>1, <1>2, <1>3, <1>4, <1>6 DEF Locks
<1> QED
  BY <1>2, <1>5, <1>8, <1>9 DEF Slotted

LEMMA AdmitLaunchKeeps ==
  ASSUME LaunchInv, NEW c \in Servers, AdmitLaunch(c)
  PROVE LaunchInv'
<1> DEFINE k == server[c].command
<1>1. server[c].stage = "locking" /\ Holding("mutation", Open)
      /\ UNCHANGED <<worker, executions, worked, capacity>>
  BY DEF AdmitLaunch, Serves, launched
<1>2. k \in CommandIds
  BY <1>1 DEF LaunchInv, LaunchKnown, Serving
<1>3. CASE There(k, "directory")
  <2>1. Reach(c, "retained") /\ UNCHANGED <<launches, held>>
    BY <1>3 DEF AdmitLaunch
  <2>2. /\ server' \in [Servers -> ServerSessions] /\ server'[c].stage = "retained"
        /\ server'[c].command = k /\ server'[c].body = server[c].body
        /\ server'[c].shown = server[c].shown
        /\ \A d \in Servers : d # c => server'[d] = server[d]
    BY <2>1, ReachKeeps DEF LaunchInv, Serving
  <2>3. server[c].shown.status # None =>
          /\ k \in CommandIds /\ There(k, "directory") /\ There(k, "request")
          /\ launches[k].request = server[c].body
          /\ server[c].shown.run \in {NoRun, RunOf(k)}
    BY <1>3 DEF LaunchInv, ToldAsFrozen, IsTold
  <2> QED
    BY <1>1, <1>2, <2>1, <2>2, <2>3, ServerLeaves
<1>4. CASE ~There(k, "directory") /\ Admitting = {}
  BY <1>1, <1>4, RestKeeps DEF AdmitLaunch
<1>5. CASE ~There(k, "directory") /\ Admitting # {}
  <2>1. Admit(c) /\ Make(k, "directory") /\ Reach(c, "assigning")
    BY <1>5 DEF AdmitLaunch
  <2>2. /\ server' \in [Servers -> ServerSessions] /\ server'[c].stage = "assigning"
        /\ server'[c].command = k /\ server'[c].body = server[c].body
        /\ server'[c].shown = server[c].shown
        /\ \A d \in Servers : d # c => server'[d] = server[d]
    BY <2>1, ReachKeeps DEF LaunchInv, Serving, Launching, Admitted
  <2>3. /\ launches' \in [CommandIds -> Directories]
        /\ launches'[k].there = launches[k].there \union {"directory"}
        /\ launches'[k].request = launches[k].request
        /\ launches'[k].receipt = launches[k].receipt
        /\ launches'[k].observation = launches[k].observation
        /\ \A j \in CommandIds : j # k => launches'[j] = launches[j]
    BY <1>2, <2>1, MakeKeeps DEF LaunchInv, Files
  <2>4. \A d \in Servers : server[d].stage \notin Launching \union Recovering
    BY <1>1 DEF Holding, LaunchInv, MutationHeld
  <2>5. LaunchTypes'
    BY <1>1, <2>1, <2>2, <2>3, AdmitGives DEF LaunchInv, LaunchTypes
  <2>6. MutationHeld'
    BY <1>1, <2>1, <2>2, <2>4, AdmitGives DEF MutationHeld
  <2>7. SlotsHeld'
    BY <1>1, <2>1, <2>2, <2>4, AdmitGives DEF LaunchInv, SlotsHeld, Slotted, Launching
  <2>8. LaunchKnown'
    <3>1. ~There(k, "attempt")
      BY <1>2, <1>5 DEF LaunchInv, FilesAgree, There
    <3> QED
      BY <1>1, <1>2, <2>2, <2>3, <2>4, <3>1
      DEF LaunchInv, LaunchKnown, There, Serving, Launching, Admitted
  <2>9. FilesAgree' /\ WorkedAsFrozen'
    BY <1>1, <1>2, <2>3 DEF LaunchInv, FilesAgree, WorkedAsFrozen, There
  <2>10. ToldAsFrozen'
    BY <2>2, <2>3 DEF LaunchInv, ToldAsFrozen, IsTold, There
  <2>11. RecoveryKnown'
    BY <1>1, <2>2 DEF LaunchInv, RecoveryKnown, Recovering
  <2> QED
    BY <2>5, <2>6, <2>7, <2>8, <2>9, <2>10, <2>11 DEF LaunchInv
<1> QED
  BY <1>3, <1>4, <1>5

(* A launch changes nothing but its stage.                                 *)
LEMMA ServerGoes ==
  ASSUME LaunchInv, NEW c \in Servers, server[c].stage \in {"owning", "spawning"},
         Reach(c, "failing"), UNCHANGED <<launches, worker, held, executions, worked, capacity>>
  PROVE LaunchInv'
<1> DEFINE k == server[c].command
<1>1. server[c].stage \in Launching /\ "failing" \in Launching /\ "failing" \notin Admitted
  BY DEF Launching, Admitted
<1>2. k \in CommandIds /\ There(k, "request") /\ launches[k].request = server[c].body
  BY <1>1, LaunchedHere
<1>3. launches \in [CommandIds -> Directories] /\ "request" \in Files
      /\ launches[k].there = launches[k].there \union {"request"}
  BY <1>2 DEF LaunchInv, LaunchTypes, Files, There
<1> HIDE DEF k
<1> QED
  BY <1>1, <1>2, <1>3, ServerWrites DEF There, k, Admitted

LEMMA TakeLaunchLockKeeps ==
  ASSUME LaunchInv, NEW c \in Servers, TakeLaunchLock(c)
  PROVE LaunchInv'
<1> DEFINE k == server[c].command
<1>1. server[c].stage = "owning" /\ UNCHANGED <<launches, worker, executions, worked, capacity>>
  BY DEF TakeLaunchLock, Serves, launched
<1>2. CASE Reach(c, "failing") /\ UNCHANGED held
  BY <1>1, <1>2, ServerGoes
<1>3. CASE ~LockHeld(k) /\ Reach(c, "attempting") /\ held' = [held EXCEPT ![k] = c]
  <2>1. /\ server' \in [Servers -> ServerSessions] /\ server'[c].stage = "attempting"
        /\ server'[c].command = k /\ server'[c].body = server[c].body
        /\ server'[c].run = server[c].run /\ server'[c].shown = server[c].shown
        /\ \A d \in Servers : d # c => server'[d] = server[d]
    BY <1>3, ReachKeeps DEF LaunchInv, Serving, Launching, Admitted
  <2>2. server[c].stage \in Launching /\ server[c].stage \in Admitted
    BY <1>1 DEF Launching, Admitted
  <2>3. k \in CommandIds /\ held[k] = Open
    BY <1>3, <2>2, LaunchedHere DEF LockHeld, Holding
  <2>4. /\ held' \in [Locks -> {Open} \union Servers \union CommandIds] /\ held'[k] = c
        /\ \A each \in Locks : each # k => held'[each] = held[each]
    BY <1>3, <2>3 DEF LaunchInv, LaunchTypes, Locks
  <2>5. held'["mutation"] = held["mutation"]
    BY <2>3, <2>4 DEF Locks
  <2>6. \A d \in Servers : d # c => server[d].stage \notin Launching \union Recovering
    BY <2>2, OneServes
  <2>7. LaunchTypes'
    BY <1>1, <2>1, <2>4 DEF LaunchInv, LaunchTypes
  <2>8. MutationHeld'
    BY <2>1, <2>2, <2>5 DEF LaunchInv, MutationHeld
  <2>9. SlotsHeld'
    <3>1. \A who \in Servers \union CommandIds : Slotted(who) => Slotted(who)'
      BY <1>1, <2>3, <2>4 DEF LaunchInv, LaunchTypes, Slotted, SlotNamed, Locks
    <3>2. \A j \in CommandIds : worker[j] # "away" => held'[j] = j
      BY <2>3, <2>4 DEF LaunchInv, SlotsHeld, Locks
    <3> QED
      BY <1>1, <2>1, <2>2, <3>1, <3>2 DEF LaunchInv, SlotsHeld, Recovering, Admitted
  <2>10. LaunchKnown'
    BY <1>1, <2>1, <2>2, <2>3, <2>4, <2>6
    DEF LaunchInv, LaunchKnown, There, Serving, Launching, Admitted
  <2>11. FilesAgree' /\ WorkedAsFrozen'
    BY <1>1 DEF LaunchInv, FilesAgree, WorkedAsFrozen, There
  <2>12. ToldAsFrozen' /\ RecoveryKnown'
    BY <1>1, <2>1 DEF LaunchInv, ToldAsFrozen, IsTold, There, RecoveryKnown, Recovering
  <2> QED
    BY <2>7, <2>8, <2>9, <2>10, <2>11, <2>12 DEF LaunchInv
<1> QED
  BY <1>2, <1>3 DEF TakeLaunchLock

(* The driver inherits its slot and its lock, and nothing of others.       *)
LEMMA SpawnDriverKeeps ==
  ASSUME LaunchInv, NEW c \in Servers, SpawnDriver(c)
  PROVE LaunchInv'
<1> DEFINE k == server[c].command
<1>1. server[c].stage = "spawning" /\ UNCHANGED <<launches, executions, worked, capacity>>
  BY DEF SpawnDriver, Serves, launched
<1>2. CASE Reach(c, "failing") /\ UNCHANGED <<worker, held>>
  BY <1>1, <1>2, ServerGoes
<1>3. CASE /\ worker' = [worker EXCEPT ![k] = "started"] /\ held' = Inherited(c, k)
           /\ Reach(c, "closing")
  <2>1. /\ server' \in [Servers -> ServerSessions] /\ server'[c].stage = "closing"
        /\ server'[c].command = k /\ server'[c].body = server[c].body
        /\ server'[c].run = server[c].run /\ server'[c].shown = server[c].shown
        /\ \A d \in Servers : d # c => server'[d] = server[d]
    BY <1>3, ReachKeeps DEF LaunchInv, Serving, Launching, Admitted
  <2>2. server[c].stage \in Launching /\ server[c].stage \in Admitted
    BY <1>1 DEF Launching, Admitted
  <2>3. /\ k \in CommandIds /\ held[k] = c /\ There(k, "attempt") /\ There(k, "request")
        /\ launches[k].request = server[c].body /\ There(k, "directory")
    BY <1>1, <2>2, LaunchedHere DEF LaunchInv, LaunchKnown
  <2>4. /\ held' \in [Locks -> {Open} \union Servers \union CommandIds]
        /\ held'["mutation"] = held["mutation"]
        /\ \A each \in Locks \ {"mutation"} :
             held'[each] = IF held[each] = c THEN k ELSE held[each]
    BY <1>3, <2>3 DEF LaunchInv, LaunchTypes, Locks, Inherited
  <2>5. \A d \in Servers : d # c => server[d].stage \notin Launching \union Recovering
    BY <2>2, OneServes
  <2>6. LaunchTypes'
    BY <1>1, <1>3, <2>1, <2>3, <2>4 DEF LaunchInv, LaunchTypes
  <2>7. MutationHeld'
    BY <2>1, <2>2, <2>4 DEF LaunchInv, MutationHeld
  <2>8. SlotsHeld'
    <3>1. /\ \A n \in 1 .. capacity : SlotNamed(n) \in Locks \ {"mutation"}
          /\ \A j \in CommandIds : j \in Locks \ {"mutation"} /\ j # c
      BY <2>3 DEF LaunchInv, LaunchTypes, SlotNamed, Locks
    <3>2. \A j \in CommandIds : Slotted(j) => Slotted(j)'
      BY <1>1, <2>4, <3>1 DEF Slotted
    <3>3. Slotted(c)
      BY <2>2 DEF LaunchInv, SlotsHeld
    <3>4. \A j \in CommandIds : j = k => Slotted(j)'
      BY <1>1, <2>4, <3>1, <3>3 DEF Slotted
    <3>5. \A j \in CommandIds : worker'[j] # "away" => Slotted(j)' /\ held'[j] = j
      BY <1>3, <2>3, <2>4, <3>1, <3>2, <3>4 DEF LaunchInv, SlotsHeld, LaunchTypes
    <3>6. \A d \in Servers : server'[d].stage \notin Admitted \union Recovering
      BY <2>1, <2>5 DEF Launching, Admitted, Recovering
    <3> QED
      BY <3>5, <3>6 DEF SlotsHeld
  <2>9. LaunchKnown'
    BY <1>1, <2>1, <2>3, <2>5
    DEF LaunchInv, LaunchKnown, There, Serving, Launching, Admitted
  <2>10. FilesAgree'
    <3>1. worker[k] = "away"
      BY <2>3 DEF LaunchInv, SlotsHeld
    <3> QED
      BY <1>1, <1>3, <2>3, <3>1 DEF LaunchInv, FilesAgree, There, LaunchTypes, Prepared
  <2>11. WorkedAsFrozen' /\ ToldAsFrozen'
    BY <1>1, <2>1 DEF LaunchInv, WorkedAsFrozen, ToldAsFrozen, IsTold, There
  <2>12. RecoveryKnown'
    BY <2>1, <2>5 DEF RecoveryKnown, Recovering
  <2> QED
    BY <2>6, <2>7, <2>8, <2>9, <2>10, <2>11, <2>12 DEF LaunchInv
<1> QED
  BY <1>2, <1>3 DEF SpawnDriver

\* Recovery.

LEMMA RecoverRunKeeps ==
  ASSUME LaunchInv, NEW c \in Servers, NEW r \in executions, RecoverRun(c, r)
  PROVE LaunchInv'
<1> DEFINE new == [Rest EXCEPT !.stage = "restoring", !.run = r]
<1>1. /\ Holding("mutation", Open) /\ Admit(c) /\ server' = [server EXCEPT ![c] = new]
      /\ UNCHANGED <<launches, worker, executions, worked, capacity>>
  BY DEF RecoverRun, launched
<1>2. PICK k \in CommandIds : r = RunOf(k)
  BY DEF LaunchInv, LaunchTypes
<1>3. new \in ServerSessions /\ new.stage = "restoring" /\ new.run = r /\ new.shown.status = None
  BY <1>2 DEF Rest, ServerSessions, Receipts, Statuses, Runs, Recovering
<1>4. server \in [Servers -> ServerSessions]
  BY DEF LaunchInv, LaunchTypes
<1> HIDE DEF new
<1>5. /\ server' \in [Servers -> ServerSessions] /\ server'[c] = new
      /\ \A d \in Servers : d # c => server'[d] = server[d]
  BY <1>1, <1>3, <1>4
<1>6. \A d \in Servers : server[d].stage \notin Launching \union Recovering
  BY <1>1 DEF Holding, LaunchInv, MutationHeld
<1>7. worker[k] = "away"
  <2>1. There(k, "directory")
    <3>1. There(k, "process")
      BY <1>2 DEF LaunchInv, FilesAgree
    <3> QED
      BY <3>1 DEF LaunchInv, FilesAgree, There
  <2>2. Observed(k) \in {NoRun, r}
    BY <1>2 DEF Observed, LaunchInv, FilesAgree
  <2>3. ~LockHeld(k)
    BY <2>1, <2>2 DEF RecoverRun, StillOwns
  <2> QED
    BY <2>3 DEF LockHeld, Holding, LaunchInv, SlotsHeld
<1>8. LaunchTypes'
  BY <1>1, <1>5, AdmitGives DEF LaunchInv, LaunchTypes
<1>9. MutationHeld'
  BY <1>1, <1>5, <1>6, AdmitGives DEF MutationHeld
<1>10. SlotsHeld'
  BY <1>1, <1>5, <1>6, AdmitGives DEF LaunchInv, SlotsHeld, Slotted, Launching
<1>11. LaunchKnown'
  BY <1>1, <1>3, <1>5, <1>6 DEF LaunchInv, LaunchKnown, There, Serving, Launching, Admitted
<1>12. FilesAgree' /\ WorkedAsFrozen'
  BY <1>1 DEF LaunchInv, FilesAgree, WorkedAsFrozen, There
<1>13. ToldAsFrozen'
  BY <1>1, <1>3, <1>5 DEF LaunchInv, ToldAsFrozen, IsTold, There
<1>14. RecoveryKnown'
  BY <1>1, <1>2, <1>3, <1>5, <1>6, <1>7 DEF RecoveryKnown
<1> QED
  BY <1>8, <1>9, <1>10, <1>11, <1>12, <1>13, <1>14 DEF LaunchInv

LEMMA RestoreReceiptsKeeps ==
  ASSUME LaunchInv, NEW c \in Servers, RestoreReceipts(c)
  PROVE LaunchInv'
<1> DEFINE mine == {k \in CommandIds : There(k, "observation") /\ Observed(k) = server[c].run}
           new(k) == [launches[k] EXCEPT !.there = launches[k].there \union {"receipt"},
                                         !.receipt = Receipt(ReadReceipt(k).status, Observed(k))]
<1>1. server[c].stage = "restoring" /\ Reach(c, "resuming")
      /\ UNCHANGED <<worker, held, executions, worked, capacity>>
  BY DEF RestoreReceipts, Serves, launched
<1>2. launches' = [k \in CommandIds |-> IF k \in mine THEN new(k) ELSE launches[k]]
  BY DEF RestoreReceipts
<1>3. /\ server' \in [Servers -> ServerSessions] /\ server'[c].stage = "resuming"
      /\ server'[c].command = server[c].command /\ server'[c].body = server[c].body
      /\ server'[c].run = server[c].run /\ server'[c].shown = server[c].shown
      /\ \A d \in Servers : d # c => server'[d] = server[d]
  BY <1>1, ReachKeeps DEF LaunchInv, Recovering
<1>4. \A k \in CommandIds : launches[k] \in Directories
  BY DEF LaunchInv, LaunchTypes
<1>5. \A k \in CommandIds :
        /\ Receipt(ReadReceipt(k).status, Observed(k)) \in Receipts
        /\ Receipt(ReadReceipt(k).status, Observed(k)).status = ReadReceipt(k).status
  BY <1>4 DEF Receipt, Receipts, ReadReceipt, Observed, Directories, Statuses, Runs
<1>6. \A k \in CommandIds : ReadReceipt(k).status = "queued" => launches[k].receipt.status = "queued"
  BY DEF ReadReceipt, Receipt
<1>7. \A k \in CommandIds :
        /\ new(k) \in Directories /\ new(k).there = launches[k].there \union {"receipt"}
        /\ new(k).request = launches[k].request /\ new(k).observation = launches[k].observation
        /\ new(k).receipt.status = "queued" => launches[k].receipt.status = "queued"
  BY <1>4, <1>5, <1>6 DEF Directories, Files
<1> HIDE DEF new
<1>8. /\ launches' \in [CommandIds -> Directories]
      /\ \A k \in CommandIds :
           /\ launches'[k].there \in {launches[k].there, launches[k].there \union {"receipt"}}
           /\ k \notin mine => launches'[k] = launches[k]
           /\ launches'[k].request = launches[k].request
           /\ launches'[k].observation = launches[k].observation
           /\ launches'[k].receipt.status = "queued" => launches[k].receipt.status = "queued"
  BY <1>2, <1>4, <1>7
<1>9. \A k \in mine : There(k, "observation")
  OBVIOUS
<1> HIDE DEF mine
<1>10. LaunchTypes'
  BY <1>1, <1>3, <1>8 DEF LaunchInv, LaunchTypes
<1>11. MutationHeld' /\ SlotsHeld'
  BY <1>1, <1>3 DEF LaunchInv, MutationHeld, SlotsHeld, Slotted, Recovering, Launching, Admitted
<1>12. LaunchKnown'
  <2>1. \A d \in Servers : d # c => server[d].stage \notin Launching \union Recovering
    BY <1>1, OneServes DEF Recovering
  <2> QED
    BY <1>1, <1>3, <1>8, <2>1 DEF LaunchInv, LaunchKnown, There, Serving, Launching, Admitted
<1>13. FilesAgree'
  <2>1. \A k \in CommandIds : "receipt" \in launches'[k].there /\ "receipt" \notin launches[k].there
          => There(k, "observation")
    BY <1>8, <1>9 DEF There
  <2> QED
    BY <1>1, <1>8, <2>1 DEF LaunchInv, FilesAgree, There
<1>14. WorkedAsFrozen' /\ ToldAsFrozen'
  BY <1>1, <1>3, <1>8 DEF LaunchInv, WorkedAsFrozen, ToldAsFrozen, IsTold, There
<1>15. RecoveryKnown'
  BY <1>1, <1>3 DEF LaunchInv, RecoveryKnown, Recovering
<1> QED
  BY <1>10, <1>11, <1>12, <1>13, <1>14, <1>15 DEF LaunchInv

\* The driver.

(* What a driver leaves alone when it leaves: the locks of the others.     *)
LEMMA DriverLeaves ==
  ASSUME LaunchInv, NEW k \in CommandIds, Leave(k), UNCHANGED <<server, executions, worked, capacity>>,
         launches' \in [CommandIds -> Directories],
         \A j \in CommandIds : j # k => launches'[j] = launches[j],
         launches'[k].there = launches[k].there
           \/ launches'[k].there = launches[k].there \union {"receipt"},
         worker[k] # "away" \/ launches'[k].there = launches[k].there,
         launches'[k].request = launches[k].request,
         launches'[k].observation = launches[k].observation,
         launches'[k].receipt.status = "queued" => launches[k].receipt.status = "queued"
  PROVE LaunchInv'
<1>1. /\ worker' \in [CommandIds -> {"away", "started", "preparing"} \union Prepared]
      /\ worker'[k] = "away" /\ \A j \in CommandIds : j # k => worker'[j] = worker[j]
  BY DEF Leave, LaunchInv, LaunchTypes
<1>2. /\ held' \in [Locks -> {Open} \union Servers \union CommandIds]
      /\ \A each \in Locks : held[each] # k => held'[each] = held[each]
  BY DEF Leave, Exited, LaunchInv, LaunchTypes
<1>3. \A c \in Servers : c # k
  OBVIOUS
<1>4. LaunchTypes'
  BY <1>1, <1>2 DEF LaunchInv, LaunchTypes
<1>5. MutationHeld'
  BY <1>2, <1>3 DEF LaunchInv, MutationHeld, Locks
<1>6. SlotsHeld'
  <2>1. \A who \in Servers \union CommandIds : who # k /\ Slotted(who) => Slotted(who)'
    BY <1>2 DEF LaunchInv, LaunchTypes, Slotted, SlotNamed, Locks
  <2> QED
    BY <1>1, <1>2, <1>3, <2>1 DEF LaunchInv, SlotsHeld, Locks
<1>7. LaunchKnown'
  <2>1. ASSUME NEW c \in Servers, server[c].stage \in {"attempting", "spawning"}
        PROVE held'[server[c].command] = c
    <3>1. server[c].command \in CommandIds /\ held[server[c].command] = c
      BY <2>1 DEF LaunchInv, LaunchKnown, Serving, Launching, Admitted
    <3>2. server[c].command \in Locks
      BY <3>1 DEF Locks
    <3> QED
      BY <1>2, <1>3, <3>1, <3>2
  <2>2. \A j \in CommandIds :
          /\ launches'[j].request = launches[j].request
          /\ \A f \in {"attempt", "request"} : f \in launches'[j].there <=> f \in launches[j].there
          /\ "directory" \in launches[j].there => "directory" \in launches'[j].there
    OBVIOUS
  <2> QED
    BY <2>1, <2>2 DEF LaunchInv, LaunchKnown, There, Serving, Launching, Admitted
<1>8. FilesAgree'
  BY <1>1 DEF LaunchInv, FilesAgree, There, Prepared
<1>9. WorkedAsFrozen' /\ ToldAsFrozen'
  BY DEF LaunchInv, WorkedAsFrozen, ToldAsFrozen, IsTold, There
<1>10. RecoveryKnown'
  BY <1>1 DEF LaunchInv, RecoveryKnown
<1> QED
  BY <1>4, <1>5, <1>6, <1>7, <1>8, <1>9, <1>10 DEF LaunchInv

LEMMA DriverDiesKeeps ==
  ASSUME LaunchInv, NEW k \in CommandIds, DriverDies(k)
  PROVE LaunchInv'
<1>1. launches \in [CommandIds -> Directories]
  BY DEF LaunchInv, LaunchTypes
<1> QED
  BY <1>1, DriverLeaves DEF DriverDies, launched

(* A driver that ends, however it does, says so in its receipt.            *)
LEMMA SayKeeps ==
  ASSUME LaunchInv, NEW k \in CommandIds, NEW status \in {"finished", "failed"},
         SetStatus(k, status), Leave(k), worker[k] # "away",
         UNCHANGED <<server, executions, worked, capacity>>
  PROVE LaunchInv'
<1> DEFINE r == Receipt(status, launches[k].receipt.run)
<1>1. r \in Receipts /\ r.status = status
  BY DEF Receipt, Receipts, Statuses, LaunchInv, LaunchTypes, Directories
<1>2. Keep(k, "receipt", r)
  BY DEF SetStatus
<1> HIDE DEF r
<1> QED
  BY <1>1, <1>2, KeepReceipt, DriverLeaves DEF LaunchInv

LEMMA EndDriverKeeps ==
  ASSUME LaunchInv, NEW k \in CommandIds, EndDriver(k)
  PROVE LaunchInv'
BY SayKeeps DEF EndDriver, launched

(* A driver that goes on with its run: no lock, no server, no other        *)
(* command is concerned.                                                   *)
LEMMA DriverGoes ==
  ASSUME LaunchInv, NEW k \in CommandIds, worker[k] # "away",
         NEW stage \in {"preparing"} \union Prepared, Advance(k, stage),
         UNCHANGED <<server, capacity>>,
         launches' \in [CommandIds -> Directories],
         \A j \in CommandIds : j # k => launches'[j] = launches[j],
         NEW f \in {"process", "observation", "receipt"},
         launches'[k].there = launches[k].there
           \/ launches'[k].there = launches[k].there \union {f},
         launches'[k].request = launches[k].request,
         launches'[k].observation \in {NoRun, RunOf(k)},
         launches'[k].receipt.status = "queued" => launches[k].receipt.status = "queued",
         "process" \in launches'[k].there,
         There(k, "process") \/ launches'[k].receipt.status # "queued",
         executions' = executions \/ executions' = executions \union {RunOf(k)},
         stage = "preparing" => RunOf(k) \notin executions',
         stage # "preparing" => RunOf(k) \in executions',
         \A w \in worked' : w \in worked
           \/ w = [run |-> RunOf(k), body |-> launches[k].request]
  PROVE LaunchInv'
<1>1. /\ worker' \in [CommandIds -> {"away", "started", "preparing"} \union Prepared]
      /\ worker'[k] = stage /\ \A j \in CommandIds : j # k => worker'[j] = worker[j]
      /\ held' = held
  BY DEF Advance, LaunchInv, LaunchTypes
<1>2. There(k, "attempt") /\ There(k, "request") /\ There(k, "directory")
  BY DEF LaunchInv, FilesAgree, There
<1>3. stage # "away" /\ stage # "started" /\ (stage \in Prepared => stage # "preparing")
  BY DEF Prepared
<1>4. LaunchTypes'
  BY <1>1 DEF LaunchInv, LaunchTypes
<1>5. MutationHeld'
  BY <1>1 DEF LaunchInv, MutationHeld
<1>6. SlotsHeld'
  BY <1>1 DEF LaunchInv, SlotsHeld, Slotted
<1>7. LaunchKnown'
  <2>1. \A j \in CommandIds :
          /\ launches'[j].request = launches[j].request
          /\ \A g \in {"attempt", "request", "directory"} :
               g \in launches'[j].there <=> g \in launches[j].there
    OBVIOUS
  <2> QED
    BY <1>1, <2>1 DEF LaunchInv, LaunchKnown, There, Serving, Launching, Admitted
<1>8. FilesAgree'
  <2>1. \A j \in CommandIds : j # k => RunOf(j) # RunOf(k)
    BY DEF RunOf
  <2>2. \A j \in CommandIds : j # k => (RunOf(j) \in executions' <=> RunOf(j) \in executions)
    BY <2>1
  <2> HIDE DEF RunOf
  <2>3. ASSUME NEW j \in CommandIds, j # k
        PROVE /\ launches'[j] = launches[j] /\ worker'[j] = worker[j]
              /\ RunOf(j) \in executions' <=> RunOf(j) \in executions
    BY <1>1, <2>2, <2>3
  <2>4. launches'[k].receipt.status # "queued"
    BY DEF LaunchInv, FilesAgree
  <2> QED
    BY <1>1, <1>2, <1>3, <2>3, <2>4 DEF LaunchInv, FilesAgree, There
<1>9. WorkedAsFrozen'
  BY <1>2 DEF LaunchInv, WorkedAsFrozen, There
<1>10. ToldAsFrozen'
  BY DEF LaunchInv, ToldAsFrozen, IsTold, There
<1>11. RecoveryKnown'
  BY <1>1 DEF LaunchInv, RecoveryKnown
<1> QED
  BY <1>4, <1>5, <1>6, <1>7, <1>8, <1>9, <1>10, <1>11 DEF LaunchInv

LEMMA CheckFrozenKeeps ==
  ASSUME LaunchInv, NEW k \in CommandIds, CheckFrozen(k)
  PROVE LaunchInv'
<1>1. worker[k] = "started" /\ UNCHANGED <<server, executions, worked, capacity>>
  BY DEF CheckFrozen, Works, launched
<1>2. CASE SetStatus(k, "failed") /\ Leave(k)
  BY <1>1, <1>2, SayKeeps
<1>3. CASE /\ ~There(k, "process") /\ Advance(k, "preparing")
           /\ launches' = [launches EXCEPT ![k].there = @ \union {"process"},
                                           ![k].receipt.status = "launch-attempted"]
  <2> DEFINE new == [launches[k] EXCEPT !.there = launches[k].there \union {"process"},
                                        !.receipt.status = "launch-attempted"]
  <2>1. launches \in [CommandIds -> Directories]
    BY DEF LaunchInv, LaunchTypes
  <2>2. launches' = [launches EXCEPT ![k] = new]
    BY <1>3, <2>1 DEF Directories
  <2>3. [launches[k].receipt EXCEPT !.status = "launch-attempted"] \in Receipts
    BY <2>1 DEF Directories, Receipts, Statuses
  <2>4. new \in Directories
    BY <2>1, <2>3 DEF Directories, Files
  <2>5. /\ new.there = launches[k].there \union {"process"} /\ new.request = launches[k].request
        /\ new.observation = launches[k].observation /\ new.receipt.status = "launch-attempted"
    BY <2>1 DEF Directories, Receipts
  <2> HIDE DEF new
  <2>6. /\ launches' \in [CommandIds -> Directories] /\ launches'[k] = new
        /\ \A j \in CommandIds : j # k => launches'[j] = launches[j]
    BY <2>1, <2>2, <2>4
  <2>7. RunOf(k) \notin executions /\ launches[k].observation \in {NoRun, RunOf(k)}
    BY <1>3 DEF LaunchInv, FilesAgree
  <2> QED
    BY <1>1, <1>3, <2>5, <2>6, <2>7, DriverGoes
<1> QED
  BY <1>2, <1>3 DEF CheckFrozen

(* The run a driver prepares is the first of its command.                  *)
LEMMA PrepareRunKeeps ==
  ASSUME LaunchInv, NEW k \in CommandIds, PrepareRun(k)
  PROVE LaunchInv'
<1>1. worker[k] = "preparing" /\ Advance(k, "observing")
      /\ UNCHANGED <<launches, server, worked, capacity>>
  BY DEF PrepareRun, Works
<1>2. {r \in executions : r.of = k} = {}
  <2>1. RunOf(k) \notin executions
    BY <1>1 DEF LaunchInv, FilesAgree
  <2>2. \A r \in executions : r.of = k => r = RunOf(k)
    BY DEF LaunchInv, LaunchTypes, RunOf
  <2> QED
    BY <2>1, <2>2
<1>3. Cardinality({r \in executions : r.of = k}) + 1 = 1
  BY <1>2, FS_EmptySet
<1>4. executions' = executions \union {RunOf(k)}
  BY <1>3 DEF PrepareRun, RunOf
<1>5. There(k, "process") /\ launches[k].observation \in {NoRun, RunOf(k)}
  BY <1>1 DEF LaunchInv, FilesAgree
<1>6. launches \in [CommandIds -> Directories] /\ "observing" \in Prepared
  BY DEF LaunchInv, LaunchTypes, Prepared
<1> QED
  BY <1>1, <1>4, <1>5, <1>6, DriverGoes DEF There

LEMMA LatestIsFirst ==
  ASSUME LaunchInv, NEW k \in CommandIds, worker[k] \in Prepared
  PROVE RunOf(k) \in executions /\ Latest(k) = RunOf(k) /\ There(k, "process")
<1>1. RunOf(k) \in executions /\ There(k, "process")
  BY DEF LaunchInv, FilesAgree, Prepared
<1>2. \A r \in executions : r.of = k => r = RunOf(k)
  BY DEF LaunchInv, LaunchTypes, RunOf
<1>3. RunOf(k).of = k /\ RunOf(k).nth \in Nat
  BY DEF RunOf
<1>4. RunOf(k).of = k /\ \A s \in executions : s.of = k => s.nth <= RunOf(k).nth
  BY <1>2, <1>3
<1> QED
  BY <1>1, <1>2, <1>4 DEF Latest

LEMMA ObserveKeeps ==
  ASSUME LaunchInv, NEW k \in CommandIds, ObservePreparation(k)
  PROVE LaunchInv'
<1>1. worker[k] = "observing" /\ Advance(k, "naming") /\ worker[k] \in Prepared
      /\ UNCHANGED <<server, executions, worked, capacity>> /\ "naming" \in Prepared
  BY DEF ObservePreparation, Works, launched, Prepared
<1>2. RunOf(k) \in executions /\ Latest(k) = RunOf(k) /\ There(k, "process")
  BY <1>1, LatestIsFirst
<1>3. launches \in [CommandIds -> Directories] /\ launches[k].observation \in {NoRun, RunOf(k)}
  BY DEF LaunchInv, LaunchTypes, FilesAgree
<1>4. CASE There(k, "observation")
  <2>1. launches' = launches
    BY <1>4 DEF ObservePreparation, WriteOnce
  <2> QED
    BY <1>1, <1>2, <1>3, <2>1, DriverGoes DEF There
<1>5. CASE ~There(k, "observation")
  <2> DEFINE new == [launches[k] EXCEPT !.there = launches[k].there \union {"observation"},
                                        !.observation = RunOf(k)]
  <2>1. launches' = [launches EXCEPT ![k] = new]
    BY <1>2, <1>3, <1>5 DEF ObservePreparation, WriteOnce, Keep, Directories
  <2>2. RunOf(k) \in Runs
    BY DEF Runs
  <2> HIDE DEF RunOf
  <2>3. new \in Directories
    BY <1>3, <2>2 DEF Directories, Files
  <2>4. /\ new.there = launches[k].there \union {"observation"}
        /\ new.request = launches[k].request
        /\ new.observation = RunOf(k) /\ new.receipt = launches[k].receipt
    BY <1>3 DEF Directories
  <2> HIDE DEF new
  <2>5. /\ launches' \in [CommandIds -> Directories] /\ launches'[k] = new
        /\ \A j \in CommandIds : j # k => launches'[j] = launches[j]
    BY <1>3, <2>1, <2>3
  <2> QED
    BY <1>1, <1>2, <2>4, <2>5, DriverGoes DEF There
<1> QED
  BY <1>4, <1>5

LEMMA NameRunKeeps ==
  ASSUME LaunchInv, NEW k \in CommandIds, NameRun(k)
  PROVE LaunchInv'
<1>1. worker[k] = "naming" /\ Advance(k, "executing") /\ worker[k] \in Prepared
      /\ UNCHANGED <<server, executions, worked, capacity>> /\ "executing" \in Prepared
  BY DEF NameRun, Works, launched, Prepared
<1>2. RunOf(k) \in executions /\ Latest(k) = RunOf(k) /\ There(k, "process")
  BY <1>1, LatestIsFirst
<1>3. Receipt("prepared", RunOf(k)) \in Receipts
      /\ Receipt("prepared", RunOf(k)).status = "prepared"
  BY DEF Receipt, Receipts, Statuses, Runs
<1>4. Keep(k, "receipt", Receipt("prepared", RunOf(k)))
  BY <1>2 DEF NameRun
<1>5. launches[k].observation \in {NoRun, RunOf(k)}
  BY DEF LaunchInv, FilesAgree
<1>6. LaunchTypes
  BY DEF LaunchInv
<1>7. /\ launches' \in [CommandIds -> Directories]
      /\ launches'[k].there = launches[k].there \union {"receipt"}
      /\ launches'[k].request = launches[k].request
      /\ launches'[k].receipt.status = "prepared"
      /\ launches'[k].observation = launches[k].observation
      /\ \A j \in CommandIds : j # k => launches'[j] = launches[j]
  BY <1>3, <1>4, <1>6, KeepReceipt
<1> HIDE DEF RunOf
<1> QED
  BY <1>1, <1>2, <1>5, <1>7, DriverGoes DEF There

LEMMA StartActorsKeeps ==
  ASSUME LaunchInv, NEW k \in CommandIds, StartActors(k)
  PROVE LaunchInv'
<1>1. worker[k] = "executing" /\ Advance(k, "ending") /\ worker[k] \in Prepared
      /\ UNCHANGED <<launches, server, executions, capacity>> /\ "ending" \in Prepared
  BY DEF StartActors, Works, Prepared
<1>2. RunOf(k) \in executions /\ Latest(k) = RunOf(k) /\ There(k, "process")
  BY <1>1, LatestIsFirst
<1>3. launches \in [CommandIds -> Directories] /\ launches[k].observation \in {NoRun, RunOf(k)}
  BY DEF LaunchInv, LaunchTypes, FilesAgree
<1>4. \A w \in worked' : w \in worked \/ w = [run |-> RunOf(k), body |-> launches[k].request]
  BY <1>2 DEF StartActors
<1> QED
  BY <1>1, <1>2, <1>3, <1>4, DriverGoes DEF There

(* A file of a command nobody works at is lost.                            *)
LEMMA LoseFileKeeps ==
  ASSUME LaunchInv, NEW k \in CommandIds, NEW f \in {"receipt", "observation"}, LoseFile(k, f)
  PROVE LaunchInv'
<1> DEFINE new == [launches[k] EXCEPT !.there = launches[k].there \ {f}]
<1>1. worker[k] = "away" /\ UNCHANGED <<server, worker, held, executions, worked, capacity>>
  BY DEF LoseFile, Works, launched
<1>2. launches \in [CommandIds -> Directories]
  BY DEF LaunchInv, LaunchTypes
<1>3. launches' = [launches EXCEPT ![k] = new]
  BY <1>2 DEF LoseFile
<1>4. new \in Directories
  BY <1>2 DEF Directories
<1>5. /\ new.there = launches[k].there \ {f} /\ new.request = launches[k].request
      /\ new.observation = launches[k].observation /\ new.receipt = launches[k].receipt
  BY <1>2 DEF Directories
<1> HIDE DEF new
<1>6. /\ launches' \in [CommandIds -> Directories] /\ launches'[k] = new
      /\ \A j \in CommandIds : j # k => launches'[j] = launches[j]
  BY <1>2, <1>3, <1>4
<1>7. \A j \in CommandIds :
        /\ launches'[j].request = launches[j].request
        /\ launches'[j].observation = launches[j].observation
        /\ launches'[j].receipt = launches[j].receipt
        /\ launches'[j].there \subseteq launches[j].there
        /\ \A g \in Files \ {"receipt", "observation"} :
             g \in launches'[j].there <=> g \in launches[j].there
  BY <1>5, <1>6
<1>8. LaunchTypes'
  BY <1>1, <1>6 DEF LaunchInv, LaunchTypes
<1>9. MutationHeld' /\ SlotsHeld'
  BY <1>1 DEF LaunchInv, MutationHeld, SlotsHeld, Slotted
<1>10. LaunchKnown'
  BY <1>1, <1>7 DEF LaunchInv, LaunchKnown, There, Files, Serving, Launching, Admitted
<1>11. FilesAgree'
  BY <1>1, <1>7 DEF LaunchInv, FilesAgree, There, Files
<1>12. WorkedAsFrozen' /\ ToldAsFrozen' /\ RecoveryKnown'
  BY <1>1, <1>7 DEF LaunchInv, WorkedAsFrozen, ToldAsFrozen, RecoveryKnown, There, IsTold, Files
<1> QED
  BY <1>8, <1>9, <1>10, <1>11, <1>12 DEF LaunchInv

LEMMA StepInv ==
  LaunchInv /\ [LaunchNext]_launchVars => LaunchInv'
<1> SUFFICES ASSUME LaunchInv, [LaunchNext]_launchVars
             PROVE LaunchInv'
  OBVIOUS
<1>1. CASE UNCHANGED launchVars
  BY <1>1 DEF launchVars, LaunchInv, LaunchTypes, MutationHeld, SlotsHeld, Slotted, LaunchKnown,
    FilesAgree, WorkedAsFrozen, ToldAsFrozen, RecoveryKnown, There, IsTold
<1>2. ASSUME NEW c \in Servers, NEW k \in CommandIds, NEW b \in Bodies, RequestLaunch(c, k, b)
      PROVE LaunchInv'
  BY <1>2, RequestLaunchKeeps
<1>3. ASSUME NEW c \in Servers, NEW r \in executions, RecoverRun(c, r)
      PROVE LaunchInv'
  BY <1>3, RecoverRunKeeps
<1>4. ASSUME NEW c \in Servers,
             \/ AdmitLaunch(c) \/ WriteAssignment(c) \/ FreezeRequest(c) \/ QueueReceipt(c)
             \/ OpenLock(c) \/ TakeLaunchLock(c) \/ MarkAttempt(c) \/ SpawnDriver(c)
      PROVE LaunchInv'
  BY <1>4, AdmitLaunchKeeps, WriteAssignmentKeeps, QueueReceiptKeeps, OpenLockKeeps,
     TakeLaunchLockKeeps, MarkAttemptKeeps, SpawnDriverKeeps
<1>5. ASSUME NEW c \in Servers,
             \/ FailLaunch(c) \/ CloseLaunch(c) \/ TellRetained(c) \/ TellLaunched(c)
             \/ RestoreReceipts(c) \/ EndRecovery(c) \/ ServerDies(c)
      PROVE LaunchInv'
  BY <1>5, FailLaunchKeeps, CloseLaunchKeeps, TellRetainedKeeps, TellLaunchedKeeps,
     RestoreReceiptsKeeps, EndRecoveryKeeps
<1>6. ASSUME NEW k \in CommandIds,
             \/ CheckFrozen(k) \/ PrepareRun(k) \/ ObservePreparation(k) \/ NameRun(k)
             \/ StartActors(k) \/ EndDriver(k) \/ DriverDies(k)
      PROVE LaunchInv'
  BY <1>6, CheckFrozenKeeps, PrepareRunKeeps, ObserveKeeps, NameRunKeeps, StartActorsKeeps,
     EndDriverKeeps, DriverDiesKeeps
<1>7. ASSUME NEW k \in CommandIds, NEW f \in {"receipt", "observation"}, LoseFile(k, f)
      PROVE LaunchInv'
  BY <1>7, LoseFileKeeps
<1> QED
  BY <1>1, <1>2, <1>3, <1>4, <1>5, <1>6, <1>7 DEF LaunchNext

-----------------------------------------------------------------------------
\* The theorems.

(* The files, locks and processes of launched work always agree: who works *)
(* has a slot and its own lock, what was worked at and told is what the    *)
(* command retains, and a run has the one name its observation gives it    *)
(* (LaunchLibrary, noetic_opermem_application.py:428-493; the driver,      *)
(* noetic_harness.py:46-90).                                               *)
THEOREM AlwaysKnown == LaunchSpec => []LaunchInv
<1> QED
  BY InitInv, StepInv, PTL DEF LaunchSpec

(* However often and from however many servers a command is sent, it has   *)
(* one run at most, its receipt does not start over, its actors get the    *)
(* body it was accepted with and whoever is told of it had asked for that  *)
(* (noetic_opermem_application.py:443-458, :486-493).                      *)
THEOREM OneRequestAlways == LaunchSpec => []CommandIsOneRequest
<1>1. LaunchInv => CommandIsOneRequest
  <2> SUFFICES ASSUME LaunchInv PROVE CommandIsOneRequest
    OBVIOUS
  <2>1. ASSUME NEW k \in CommandIds
        PROVE Cardinality({r \in executions : r.of = k}) <= 1
    <3>1. {r \in executions : r.of = k} \subseteq {RunOf(k)}
      BY DEF LaunchInv, LaunchTypes, RunOf
    <3>2. IsFiniteSet({RunOf(k)}) /\ Cardinality({RunOf(k)}) = 1
      BY FS_Singleton
    <3> QED
      BY <3>1, <3>2, FS_Subset
  <2>2. ASSUME NEW k \in CommandIds, There(k, "observation")
        PROVE ReadReceipt(k).status # "queued"
    <3>1. launches[k].receipt.status # "queued"
      BY <2>2 DEF LaunchInv, FilesAgree
    <3> QED
      BY <3>1 DEF ReadReceipt, Receipt
  <2>3. ASSUME NEW w \in worked, NEW c \in Servers, IsTold(c), server[c].command = w.run.of
        PROVE server[c].body = w.body /\ server[c].shown.run \in {NoRun, w.run}
    <3>1. PICK k \in CommandIds : w = [run |-> RunOf(k), body |-> launches[k].request]
      BY DEF LaunchInv, WorkedAsFrozen
    <3>2. w.run = RunOf(k) /\ w.run.of = k /\ w.body = launches[k].request
      BY <3>1 DEF RunOf
    <3> QED
      BY <2>3, <3>2 DEF LaunchInv, ToldAsFrozen
  <2> QED
    BY <2>1, <2>2, <2>3 DEF CommandIsOneRequest
<1> QED
  BY <1>1, AlwaysKnown, PTL

(* A run is recovered only while the driver that prepared it is gone, and  *)
(* none can start before the recovery has ended                            *)
(* (noetic_opermem_application.py:754-759).                                *)
THEOREM RecoversAlone == LaunchSpec => []RecoveryIsAlone
<1>1. LaunchInv => RecoveryIsAlone
  <2> SUFFICES ASSUME LaunchInv, NEW c \in Servers, server[c].stage \in Recovering
               PROVE worker[server[c].run.of] = "away"
    BY DEF RecoveryIsAlone, Recovering, Works
  <2>1. PICK k \in CommandIds : server[c].run = RunOf(k) /\ worker[k] = "away"
    BY DEF LaunchInv, RecoveryKnown
  <2>2. RunOf(k).of = k
    BY DEF RunOf
  <2> QED
    BY <2>1, <2>2
<1> QED
  BY <1>1, AlwaysKnown, PTL

(* No more drivers and recoveries work at a time than the root has slots:  *)
(* each has a slot of its own, whichever servers are left                  *)
(* (noetic_opermem_application.py:470-473; noetic_harness.py:74-90).       *)
THEOREM AdmittedAlways == LaunchSpec => []WorkIsAdmitted
<1> DEFINE drivers == {k \in CommandIds : ~Works(k, "away")}
           recovering == {c \in Servers : server[c].stage \in {"restoring", "resuming"}}
           slots == {held[SlotNamed(n)] : n \in 1 .. capacity}
<1>1. LaunchInv => WorkIsAdmitted
  <2> SUFFICES ASSUME LaunchInv PROVE WorkIsAdmitted
    OBVIOUS
  <2>1. capacity = 1 \/ capacity = 2
    BY DEF LaunchInv, LaunchTypes
  <2>2. drivers \union recovering \subseteq slots
    BY DEF LaunchInv, SlotsHeld, Slotted, Works, Recovering
  <2>3. IsFiniteSet(slots) /\ Cardinality(slots) <= capacity
    <3> DEFINE first == held[SlotNamed(1)]
               second == held[SlotNamed(2)]
    <3>1. capacity = 1 => slots = {first}
      OBVIOUS
    <3>2. capacity = 2 => slots = {first} \union {second}
      OBVIOUS
    <3> HIDE DEF slots, first, second
    <3>3. IsFiniteSet({first}) /\ Cardinality({first}) = 1
      BY FS_Singleton
    <3>4. /\ IsFiniteSet({first} \union {second})
          /\ Cardinality({first} \union {second}) \in {1, 2}
      BY <3>3, FS_AddElement
    <3> QED
      BY <2>1, <3>1, <3>2, <3>3, <3>4
  <2>4. IsFiniteSet(drivers \union recovering)
        /\ Cardinality(drivers \union recovering) <= Cardinality(slots)
    <3> HIDE DEF drivers, recovering, slots
    <3> QED
      BY <2>2, <2>3, FS_Subset
  <2>5. /\ Cardinality(drivers \union recovering) \in Nat /\ Cardinality(slots) \in Nat
        /\ capacity \in Nat
    <3> HIDE DEF drivers, recovering, slots
    <3> QED
      BY <2>1, <2>3, <2>4, FS_CardinalityType
  <2>6. Cardinality(drivers \union recovering) <= capacity
    <3> HIDE DEF drivers, recovering, slots
    <3> QED
      BY <2>3, <2>4, <2>5
  <2> QED
    BY <2>6 DEF WorkIsAdmitted
<1> QED
  BY <1>1, AlwaysKnown, PTL

-----------------------------------------------------------------------------
\* Launched work is asked for exactly once: what takes effect for a command is
\* the request its directory retains, who is told of it hears of that one.

FrozenRequest ==
  [k \in CommandIds |-> IF There(k, "request") THEN launches[k].request ELSE None]
Heard ==
  [c \in Servers |-> IF IsTold(c) THEN [key |-> server[c].command, request |-> server[c].body]
                     ELSE [key |-> None, request |-> None]]

Acceptance == INSTANCE ExactlyOnce WITH
  Keys <- CommandIds, Requests <- Bodies, Callers <- Servers,
  effect <- FrozenRequest, told <- Heard

\* Who serves a request or was told of one has asked it.
Asking ==
  \A c \in Servers : server[c].stage \in Serving \/ IsTold(c) => server[c].body \in Bodies

\* Steps at which no request is retained, and the two kinds of them.
RequestsStand ==
  \A k \in CommandIds :
    /\ "request" \in launches'[k].there <=> "request" \in launches[k].there
    /\ launches'[k].request = launches[k].request

Quiet ==
  \A c \in Servers :
    /\ server'[c].shown = server[c].shown
    /\ server'[c].command = server[c].command /\ server'[c].body = server[c].body
    /\ server'[c].stage \in Serving => server[c].stage \in Serving

Silent(c) ==
  /\ \A d \in Servers : d # c => server'[d] = server[d]
  /\ server'[c].shown.status = None
  /\ server'[c].stage \in Serving => server'[c].body \in Bodies

Accepts == Asking' /\ [Acceptance!Next]_<<FrozenRequest, Heard>>

LEMMA RequestsSame ==
  ASSUME RequestsStand
  PROVE FrozenRequest' = FrozenRequest
BY DEF RequestsStand, FrozenRequest, There

LEMMA QuietAccepts ==
  ASSUME Asking, RequestsStand, Quiet
  PROVE Accepts
<1>1. Asking'
  BY DEF Asking, Quiet, IsTold
<1>2. Heard' = Heard
  BY DEF Heard, Quiet, IsTold
<1> QED
  BY <1>1, <1>2, RequestsSame DEF Accepts

LEMMA SilentAccepts ==
  ASSUME Asking, RequestsStand, NEW c \in Servers, Silent(c)
  PROVE Accepts
<1>1. Asking'
  BY DEF Asking, Silent, IsTold
<1>2. Heard' = [Heard EXCEPT ![c] = [key |-> None, request |-> None]]
  BY DEF Heard, Silent, IsTold
<1>3. Acceptance!Ask(c)
  BY <1>2, RequestsSame DEF Acceptance!Ask, Acceptance!Nothing, None
<1> QED
  BY <1>1, <1>3 DEF Accepts, Acceptance!Next

LEMMA ReachIsQuiet ==
  ASSUME LaunchTypes, NEW c \in Servers, NEW stage \in {"idle"} \union Recovering \union Serving,
         Reach(c, stage), stage \in Serving => server[c].stage \in Serving
  PROVE Quiet
BY ReachKeeps DEF Quiet

LEMMA RestIsSilent ==
  ASSUME LaunchTypes, NEW c \in Servers, server' = [server EXCEPT ![c] = Rest]
  PROVE Silent(c)
<1>1. Rest.stage \notin Serving /\ Rest.shown.status = None
  BY DEF Rest, Serving, Launching, Admitted
<1> QED
  BY <1>1 DEF Silent, LaunchTypes

LEMMA StageSorts ==
  /\ {"locking", "retained", "assigning", "freezing", "queueing", "opening", "owning", "attempting",
      "spawning", "failing", "closing", "answering"} \subseteq Serving
  /\ "restoring" \notin Serving /\ "resuming" \in Recovering /\ "resuming" \notin Serving
BY DEF Serving, Launching, Admitted, Recovering

\* A request that is asked, and the recovery of a run.
LEMMA AsksAccepts ==
  ASSUME LaunchInv, Asking, NEW c \in Servers,
         \/ \E k \in CommandIds, b \in Bodies : RequestLaunch(c, k, b)
         \/ \E r \in executions : RecoverRun(c, r)
         \/ EndRecovery(c) \/ ServerDies(c)
  PROVE Accepts
<1>1. LaunchTypes BY DEF LaunchInv
<1>2. RequestsStand
  BY DEF RequestLaunch, RecoverRun, EndRecovery, ServerDies, RequestsStand
<1>3. CASE EndRecovery(c) \/ ServerDies(c)
  BY <1>1, <1>2, <1>3, RestIsSilent, SilentAccepts DEF EndRecovery, ServerDies
<1>4. ASSUME NEW k \in CommandIds, NEW b \in Bodies, RequestLaunch(c, k, b)
      PROVE Silent(c)
  <2>1. PICK stage : server' = [server EXCEPT ![c] =
                       [Rest EXCEPT !.stage = stage, !.command = k, !.body = b]]
    BY <1>4 DEF RequestLaunch
  <2>2. server'[c] = [Rest EXCEPT !.stage = stage, !.command = k, !.body = b]
    BY <1>1, <2>1 DEF LaunchTypes
  <2>3. server'[c].body = b /\ server'[c].shown.status = None
    BY <2>2 DEF Rest
  <2> QED
    BY <1>1, <2>1, <2>3 DEF Silent, LaunchTypes
<1>5. ASSUME NEW r \in executions, RecoverRun(c, r)
      PROVE Silent(c)
  <2>1. server' = [server EXCEPT ![c] = [Rest EXCEPT !.stage = "restoring", !.run = r]]
    BY <1>5 DEF RecoverRun
  <2>2. server'[c] = [Rest EXCEPT !.stage = "restoring", !.run = r]
    BY <1>1, <2>1 DEF LaunchTypes
  <2>3. server'[c].stage = "restoring" /\ server'[c].shown.status = None
    BY <2>2 DEF Rest
  <2> QED
    BY <1>1, <2>1, <2>3, StageSorts DEF Silent, LaunchTypes
<1> QED
  BY <1>2, <1>3, <1>4, <1>5, SilentAccepts

\* What a launch does besides its request.
LEMMA LaunchingAccepts ==
  ASSUME LaunchInv, Asking, NEW c \in Servers,
         \/ AdmitLaunch(c) \/ WriteAssignment(c) \/ QueueReceipt(c) \/ OpenLock(c)
         \/ TakeLaunchLock(c) \/ MarkAttempt(c) \/ SpawnDriver(c) \/ FailLaunch(c)
         \/ CloseLaunch(c)
  PROVE Accepts
<1> DEFINE k == server[c].command
<1>1. LaunchTypes BY DEF LaunchInv
<1>2. launches \in [CommandIds -> Directories] BY <1>1 DEF LaunchTypes
<1>3. server[c].stage \in Serving
  BY StageSorts DEF AdmitLaunch, WriteAssignment, QueueReceipt, OpenLock, TakeLaunchLock,
    MarkAttempt, SpawnDriver, FailLaunch, CloseLaunch, Serves
<1>4. k \in CommandIds
  BY <1>3 DEF LaunchInv, LaunchKnown
<1>5. ASSUME NEW f \in {"directory", "lock", "attempt"}, Make(k, f) PROVE RequestsStand
  BY <1>2, <1>4, <1>5 DEF Make, RequestsStand, Directories
<1>6. ASSUME NEW f \in {"assignment", "receipt"}, NEW content, Keep(k, f, content)
      PROVE RequestsStand
  BY <1>2, <1>4, <1>6 DEF Keep, RequestsStand, Directories
<1>7. UNCHANGED launches => RequestsStand
  BY DEF RequestsStand
<1>8. RequestsStand
  BY <1>5, <1>6, <1>7 DEF AdmitLaunch, WriteAssignment, RetainRequest, WriteOnce, Withdraw,
    QueueReceipt, OpenLock, TakeLaunchLock, MarkAttempt, SpawnDriver, FailLaunch, SetStatus,
    CloseLaunch
<1>9. ASSUME NEW stage \in Serving, Reach(c, stage) PROVE Accepts
  BY <1>1, <1>3, <1>8, <1>9, ReachIsQuiet, QuietAccepts
<1>10. ASSUME server' = [server EXCEPT ![c] = Rest] PROVE Accepts
  BY <1>1, <1>8, <1>10, RestIsSilent, SilentAccepts
<1> QED
  BY <1>9, <1>10, StageSorts DEF AdmitLaunch, WriteAssignment, RetainRequest, Withdraw,
    QueueReceipt, OpenLock, TakeLaunchLock, MarkAttempt, SpawnDriver, FailLaunch, CloseLaunch

\* The request is retained where none was, or is the same.
LEMMA FreezeAccepts ==
  ASSUME LaunchInv, Asking, NEW c \in Servers, FreezeRequest(c)
  PROVE Accepts
<1> DEFINE k == server[c].command
           b == server[c].body
<1>1. LaunchTypes BY DEF LaunchInv
<1>2. launches \in [CommandIds -> Directories] BY <1>1 DEF LaunchTypes
<1>3. server[c].stage \in Serving
  BY StageSorts DEF FreezeRequest, Serves
<1>4. k \in CommandIds /\ b \in Bodies
  BY <1>3 DEF LaunchInv, LaunchKnown, Asking
<1>5. UNCHANGED launches => RequestsStand
  BY DEF RequestsStand
<1>6. CASE There(k, "request") /\ launches[k]["request"] # b
  BY <1>1, <1>5, <1>6, RestIsSilent, SilentAccepts DEF FreezeRequest, RetainRequest, Withdraw
<1>7. CASE ~(There(k, "request") /\ launches[k]["request"] # b)
  <2>1. Reach(c, "queueing") /\ WriteOnce(k, "request", b)
    BY <1>7 DEF FreezeRequest, RetainRequest
  <2>2. Quiet
    BY <1>1, <1>3, <2>1, ReachIsQuiet, StageSorts
  <2>3. CASE There(k, "request")
    BY <1>5, <2>1, <2>2, <2>3, QuietAccepts DEF WriteOnce
  <2>4. CASE ~There(k, "request")
    <3>1. Keep(k, "request", b) BY <2>1, <2>4 DEF WriteOnce
    <3>2. /\ "request" \in launches'[k].there /\ launches'[k].request = b
          /\ \A j \in CommandIds : j # k => launches'[j] = launches[j]
      BY <1>2, <1>4, <3>1 DEF Keep, Directories
    <3>3. FrozenRequest' = [FrozenRequest EXCEPT ![k] = b]
      BY <1>4, <3>2 DEF FrozenRequest, There
    <3>4. FrozenRequest[k] = "none"
      BY <1>4, <2>4 DEF FrozenRequest, None
    <3>5. Heard' = Heard /\ Asking'
      BY <2>2 DEF Heard, Quiet, IsTold, Asking
    <3>6. Acceptance!Perform(k, b)
      BY <3>3, <3>4, <3>5 DEF Acceptance!Perform
    <3> QED
      BY <1>4, <3>5, <3>6 DEF Accepts, Acceptance!Next
  <2> QED BY <2>3, <2>4
<1> QED BY <1>6, <1>7

\* Who is told of a command asked for what it retains.
LEMMA TellsAccepts ==
  ASSUME LaunchInv, Asking, NEW c \in Servers, UNCHANGED launches,
         server[c].stage \in Serving, There(server[c].command, "request"),
         launches[server[c].command].request = server[c].body, NEW r,
         server' = [server EXCEPT ![c].stage = "idle", ![c].shown = r]
  PROVE Accepts
<1> DEFINE k == server[c].command
           b == server[c].body
<1>1. server \in [Servers -> ServerSessions] BY DEF LaunchInv, LaunchTypes
<1>2. k \in CommandIds /\ b \in Bodies
  BY DEF LaunchInv, LaunchKnown, Asking
<1>3. /\ server'[c].stage = "idle" /\ server'[c].shown = r
      /\ server'[c].command = k /\ server'[c].body = b
      /\ \A d \in Servers : d # c => server'[d] = server[d]
  BY <1>1 DEF ServerSessions
<1>4. RequestsStand BY DEF RequestsStand
<1>5. "idle" \notin Serving BY DEF Serving, Launching, Admitted
<1>6. CASE r.status = None
  BY <1>3, <1>4, <1>5, <1>6, SilentAccepts DEF Silent
<1>7. CASE r.status # None
  <2>1. Asking' BY <1>2, <1>3 DEF Asking, IsTold
  <2>2. Heard' = [Heard EXCEPT ![c] = [key |-> k, request |-> b]]
    BY <1>3, <1>7 DEF Heard, IsTold
  <2>3. FrozenRequest[k] = b BY <1>2 DEF FrozenRequest
  <2>4. Acceptance!Answer(c, k, b)
    BY <1>4, <2>2, <2>3, RequestsSame DEF Acceptance!Answer
  <2> QED
    BY <1>2, <2>1, <2>4 DEF Accepts, Acceptance!Next
<1> QED BY <1>6, <1>7

LEMMA AnswersAccept ==
  ASSUME LaunchInv, Asking, NEW c \in Servers, TellRetained(c) \/ TellLaunched(c)
  PROVE Accepts
<1>1. server[c].stage \in Serving /\ UNCHANGED launches
  BY StageSorts DEF TellRetained, TellLaunched, Serves
<1>2. CASE TellLaunched(c)
  <2>1. There(server[c].command, "request") /\ launches[server[c].command].request = server[c].body
    BY <1>2 DEF TellLaunched, Serves, LaunchInv, LaunchKnown
  <2> QED
    BY <1>1, <1>2, <2>1, TellsAccepts DEF TellLaunched
<1>3. CASE TellRetained(c) /\ IsReadable(server[c].command)
             /\ RetainsRequest(server[c].command, server[c].body)
  BY <1>1, <1>3, TellsAccepts DEF TellRetained, IsReadable, RetainsRequest
<1>4. CASE TellRetained(c) /\ server' = [server EXCEPT ![c] = Rest]
  BY <1>1, <1>4, RestIsSilent, SilentAccepts DEF LaunchInv, RequestsStand
<1> QED BY <1>2, <1>3, <1>4 DEF TellRetained

LEMMA RestoresAccepts ==
  ASSUME LaunchInv, Asking, NEW c \in Servers, RestoreReceipts(c)
  PROVE Accepts
<1>1. LaunchTypes BY DEF LaunchInv
<1>2. \A k \in CommandIds : launches[k] \in Directories BY <1>1 DEF LaunchTypes
<1>3. RequestsStand
  <2> SUFFICES ASSUME NEW k \in CommandIds
               PROVE /\ "request" \in launches'[k].there <=> "request" \in launches[k].there
                     /\ launches'[k].request = launches[k].request
    BY DEF RequestsStand
  <2>1. \/ launches'[k] = launches[k]
        \/ launches'[k] = [launches[k] EXCEPT !.there = launches[k].there \union {"receipt"},
             !.receipt = Receipt(ReadReceipt(k).status, Observed(k))]
    BY DEF RestoreReceipts
  <2> QED BY <1>2, <2>1 DEF Directories
<1>4. Quiet
  BY <1>1, StageSorts, ReachIsQuiet DEF RestoreReceipts
<1> QED BY <1>3, <1>4, QuietAccepts

\* Drivers, and files that are lost, leave requests and servers alone.
LEMMA DrivingAccepts ==
  ASSUME LaunchInv, Asking, NEW k \in CommandIds,
         \/ CheckFrozen(k) \/ PrepareRun(k) \/ ObservePreparation(k) \/ NameRun(k)
         \/ StartActors(k) \/ EndDriver(k) \/ DriverDies(k)
         \/ \E f \in {"receipt", "observation"} : LoseFile(k, f)
  PROVE Accepts
<1>1. launches \in [CommandIds -> Directories] BY DEF LaunchInv, LaunchTypes
<1>2. ASSUME NEW f \in {"observation", "receipt"}, NEW content, Keep(k, f, content)
      PROVE RequestsStand
  BY <1>1, <1>2 DEF Keep, RequestsStand, Directories
<1>3. UNCHANGED launches => RequestsStand
  BY DEF RequestsStand
<1>4. ASSUME CheckFrozen(k) PROVE RequestsStand
  <2>1. CASE launches' = [launches EXCEPT ![k].there = @ \union {"process"},
                                          ![k].receipt.status = "launch-attempted"]
    BY <1>1, <2>1 DEF RequestsStand, Directories
  <2>2. CASE SetStatus(k, "failed")
    BY <1>2, <2>2 DEF SetStatus
  <2> QED BY <1>4, <2>1, <2>2 DEF CheckFrozen
<1>5. ASSUME NEW f \in {"receipt", "observation"}, LoseFile(k, f)
      PROVE RequestsStand
  BY <1>1, <1>5 DEF LoseFile, RequestsStand, Directories
<1>6. RequestsStand
  BY <1>2, <1>3, <1>4, <1>5 DEF PrepareRun, ObservePreparation, WriteOnce, NameRun, StartActors,
    EndDriver, SetStatus, DriverDies
<1>7. UNCHANGED server
  BY DEF CheckFrozen, PrepareRun, ObservePreparation, NameRun, StartActors, EndDriver, DriverDies,
    LoseFile
<1> QED
  BY <1>6, <1>7, QuietAccepts DEF Quiet

LEMMA StepAccepts ==
  LaunchInv /\ Asking /\ [LaunchNext]_launchVars => Accepts
<1> SUFFICES ASSUME LaunchInv, Asking, [LaunchNext]_launchVars PROVE Accepts
  OBVIOUS
<1>1. CASE UNCHANGED launchVars
  BY <1>1, QuietAccepts DEF launchVars, Quiet, RequestsStand
<1>2. ASSUME NEW c \in Servers,
             \/ \E k \in CommandIds, b \in Bodies : RequestLaunch(c, k, b)
             \/ AdmitLaunch(c) \/ WriteAssignment(c) \/ FreezeRequest(c) \/ QueueReceipt(c)
             \/ OpenLock(c) \/ TakeLaunchLock(c) \/ MarkAttempt(c) \/ SpawnDriver(c)
             \/ FailLaunch(c) \/ CloseLaunch(c) \/ TellRetained(c) \/ TellLaunched(c)
             \/ \E r \in executions : RecoverRun(c, r)
             \/ RestoreReceipts(c) \/ EndRecovery(c) \/ ServerDies(c)
      PROVE Accepts
  BY <1>2, AsksAccepts, LaunchingAccepts, FreezeAccepts, AnswersAccept, RestoresAccepts
<1>3. ASSUME NEW k \in CommandIds,
             \/ CheckFrozen(k) \/ PrepareRun(k) \/ ObservePreparation(k) \/ NameRun(k)
             \/ StartActors(k) \/ EndDriver(k) \/ DriverDies(k)
             \/ \E f \in {"receipt", "observation"} : LoseFile(k, f)
      PROVE Accepts
  BY <1>3, DrivingAccepts
<1> QED
  BY <1>1, <1>2, <1>3 DEF LaunchNext

(* Whatever servers and drivers do, die or lose, the launches of reviewed   *)
(* work promise what the cache of commands does: a command id stands for   *)
(* one request, retained in one step and for good, and who is told of the  *)
(* command asked for that very request (start and retained_command,        *)
(* noetic_opermem_application.py:428-493).                                  *)
THEOREM LaunchesExactlyOnce == LaunchSpec => Acceptance!Spec
<1>1. LaunchInit => Asking /\ Acceptance!Init
  <2> SUFFICES ASSUME LaunchInit PROVE Asking /\ Acceptance!Init
    OBVIOUS
  <2>1. \A c \in Servers : server[c].stage \notin Serving /\ ~IsTold(c)
    BY DEF LaunchInit, Rest, IsTold, Serving, Launching, Admitted
  <2>2. \A k \in CommandIds : ~There(k, "request")
    BY DEF LaunchInit, There
  <2> QED
    BY <2>1, <2>2 DEF Asking, FrozenRequest, Heard, Acceptance!Init, Acceptance!Nothing, None
<1>2. LaunchInv /\ Asking /\ [LaunchNext]_launchVars
        => Asking' /\ [Acceptance!Next]_<<FrozenRequest, Heard>>
  BY StepAccepts DEF Accepts
<1> QED
  BY <1>1, <1>2, AlwaysKnown, PTL DEF LaunchSpec, Acceptance!Spec

-----------------------------------------------------------------------------
\* Commands: a command takes effect at most once.

Phases == {"idle", "calling", "locked", "searched", "done"}
Inside == {"locked", "searched", "done"}

\* What the holder of the lock knows: after the search, 0 says that the key
\* has no event, any other number is the event of the key; when it is done the
\* event is its own.
HolderKnows ==
  \A c \in Callers :
    /\ pc[c] = "searched" =>
         IF found = 0 THEN \A i \in DOMAIN history : history[i].key # call[c].key
                      ELSE found \in DOMAIN history /\ history[found].key = call[c].key
    /\ pc[c] = "done" => found \in DOMAIN history /\ history[found] = call[c]

IInv == TypeOK /\ HolderAlone /\ AtMostOnce /\ AnswerIsTheEffect /\ HolderKnows

LEMMA InitIInv == Init => IInv
  BY CallersAreNamed, FaultsAreCounted
  DEF Init, IInv, TypeOK, HolderAlone, AtMostOnce, AnswerIsTheEffect, HolderKnows, Commands,
      NoCommand, NoRow

USE DEF Phases, Inside

\* The holder's own view of the lock: who is past it holds it.
LEMMA HolderIsOne ==
  ASSUME IInv, NEW c \in Callers, pc[c] \in Inside
  PROVE  lock = c /\ \A d \in Callers \ {c} : pc[d] \notin Inside
BY DEF IInv, HolderAlone

\* Every action preserves the invariant, one lemma each.
LEMMA CallStep ==
  ASSUME IInv, NEW c \in Callers, Call(c)
  PROVE  IInv'
<1>1. /\ pc[c] = "idle" /\ call' \in [Callers -> Commands \cup {NoCommand}]
      /\ \A d \in Callers \ {c} : call'[d] = call[d] /\ pc'[d] = pc[d] /\ answer'[d] = answer[d]
      /\ pc'[c] = "calling" /\ answer'[c] = 0 /\ call'[c] \in Commands
      /\ pc' \in [Callers -> Phases] /\ answer' \in [Callers -> 0 .. Len(history)]
  BY DEF IInv, TypeOK, Call
<1>2. UNCHANGED <<lock, cache, history, found, faults>>
  BY DEF Call
<1>3. TypeOK'
  BY <1>1, <1>2 DEF IInv, TypeOK
<1>4. HolderAlone' /\ AtMostOnce' /\ AnswerIsTheEffect'
  BY <1>1, <1>2 DEF IInv, HolderAlone, AtMostOnce, AnswerIsTheEffect
<1>5. HolderKnows'
  BY <1>1, <1>2 DEF IInv, HolderKnows
<1> QED
  BY <1>3, <1>4, <1>5 DEF IInv

LEMMA LockStep ==
  ASSUME IInv, NEW c \in Callers, Lock(c)
  PROVE  IInv'
<1>1. /\ pc[c] = "calling" /\ lock = "free" /\ lock' = c
      /\ pc'[c] = "locked" /\ pc' \in [Callers -> Phases]
      /\ \A d \in Callers \ {c} : pc'[d] = pc[d]
  BY DEF IInv, TypeOK, Lock
<1>2. UNCHANGED <<call, cache, history, found, answer, faults>>
  BY DEF Lock
<1>3. TypeOK'
  BY <1>1, <1>2 DEF IInv, TypeOK
<1>4. HolderAlone' /\ AtMostOnce' /\ AnswerIsTheEffect'
  BY <1>1, <1>2, CallersAreNamed DEF IInv, HolderAlone, AtMostOnce, AnswerIsTheEffect
<1>5. HolderKnows'
  BY <1>1, <1>2 DEF IInv, HolderKnows
<1> QED
  BY <1>3, <1>4, <1>5 DEF IInv

\* Whoever leaves the lock leaves nobody in it.
LEMMA UnlockStep ==
  ASSUME IInv, NEW c \in Callers, pc[c] \in Inside, Unlock(c)
  PROVE  /\ pc' \in [Callers -> Phases] /\ lock' = "free" /\ found' = 0
         /\ \A d \in Callers : pc'[d] \notin Inside
         /\ \A d \in Callers : pc'[d] # "idle" => pc[d] # "idle"
         /\ HolderAlone' /\ HolderKnows'
<1>1. \A d \in Callers : pc'[d] = IF d = c THEN "idle" ELSE pc[d]
  BY DEF IInv, TypeOK, Unlock
<1>2. \A d \in Callers : pc'[d] \notin Inside
  BY <1>1, HolderIsOne
<1>3. pc' \in [Callers -> Phases] /\ lock' = "free" /\ found' = 0
  BY DEF IInv, TypeOK, Unlock
<1> QED
  BY <1>1, <1>2, <1>3, CallersAreNamed DEF HolderAlone, HolderKnows

LEMMA CachedStep ==
  ASSUME IInv, NEW c \in Callers, Cached(c)
  PROVE  IInv'
<1> DEFINE row == cache[call[c].key]
<1>1. pc[c] \in Inside /\ Unlock(c) /\ UNCHANGED <<call, cache, history, faults>>
  BY DEF Cached
<1>2. call[c] \in Commands
  BY <1>1 DEF IInv, TypeOK
<1>3. /\ row \in [request : Requests, event : DOMAIN history]
      /\ history[row.event] = [key |-> call[c].key, request |-> row.request]
  BY <1>2 DEF IInv, TypeOK, AnswerIsTheEffect, Cached, UseRow, Commands
<1>4. /\ answer'[c] \in {0, row.event}
      /\ answer'[c] # 0 => row.request = call[c].request
      /\ \A d \in Callers \ {c} : answer'[d] = answer[d]
      /\ answer' \in [Callers -> 0 .. Len(history)]
  BY <1>3 DEF IInv, TypeOK, Cached, UseRow
<1>5. answer'[c] # 0 => history[answer'[c]] = call[c]
  BY <1>2, <1>3, <1>4 DEF Commands
<1>6. TypeOK'
  BY <1>1, <1>4, UnlockStep DEF IInv, TypeOK
<1>7. AtMostOnce' /\ AnswerIsTheEffect'
  BY <1>1, <1>4, <1>5 DEF IInv, AtMostOnce, AnswerIsTheEffect
<1> QED
  BY <1>1, <1>6, <1>7, UnlockStep DEF IInv

\* The search finds an event of the key if there is one.
LEMMA FirstEvent ==
  ASSUME IInv, NEW k, EventsOf(k) # {}
  PROVE  LET i == CHOOSE i \in EventsOf(k) : \A j \in EventsOf(k) : i <= j
         IN i \in DOMAIN history /\ history[i].key = k
<1>1. PICK i \in EventsOf(k) : TRUE
  OBVIOUS
<1>2. \A j \in EventsOf(k) : j = i /\ j \in Nat
  BY <1>1 DEF EventsOf, IInv, AtMostOnce, TypeOK
<1>3. \A j \in EventsOf(k) : i <= j
  BY <1>1, <1>2
<1> QED
  BY <1>1, <1>3 DEF EventsOf

LEMMA SearchStep ==
  ASSUME IInv, NEW c \in Callers, Search(c)
  PROVE  IInv'
<1>1. /\ pc[c] = "locked" /\ pc'[c] = "searched" /\ pc' \in [Callers -> Phases]
      /\ \A d \in Callers \ {c} : pc'[d] = pc[d]
  BY DEF IInv, TypeOK, Search
<1>2. UNCHANGED <<call, lock, cache, history, answer, faults>>
  BY DEF Search
<1>3. IF EventsOf(call[c].key) = {} THEN found' = 0
      ELSE found' \in DOMAIN history /\ history[found'].key = call[c].key
  BY FirstEvent DEF Search
<1>4. found' \in 0 .. Len(history)
  BY <1>3 DEF IInv, TypeOK
<1>5. TypeOK'
  BY <1>1, <1>2, <1>4 DEF IInv, TypeOK
<1>6. HolderAlone' /\ AtMostOnce' /\ AnswerIsTheEffect'
  BY <1>1, <1>2 DEF IInv, HolderAlone, AtMostOnce, AnswerIsTheEffect
<1>7. \A d \in Callers \ {c} : pc'[d] \notin Inside
  BY <1>1, HolderIsOne
<1>8. found' = 0 => \A i \in DOMAIN history : history[i].key # call[c].key
  BY <1>3 DEF EventsOf, IInv, TypeOK
<1>9. HolderKnows'
  BY <1>1, <1>2, <1>3, <1>7, <1>8 DEF HolderKnows
<1> QED
  BY <1>5, <1>6, <1>9 DEF IInv

LEMMA RecoverStep ==
  ASSUME IInv, NEW c \in Callers, Recover(c)
  PROVE  IInv'
<1>1. /\ pc[c] = "searched" /\ pc'[c] = "done" /\ pc' \in [Callers -> Phases]
      /\ \A d \in Callers \ {c} : pc'[d] = pc[d]
  BY DEF IInv, TypeOK, Recover
<1>2. UNCHANGED <<call, lock, cache, history, found, answer, faults>>
  BY DEF Recover
<1>3. TypeOK'
  BY <1>1, <1>2 DEF IInv, TypeOK
<1>4. HolderAlone' /\ AtMostOnce' /\ AnswerIsTheEffect'
  BY <1>1, <1>2 DEF IInv, HolderAlone, AtMostOnce, AnswerIsTheEffect
<1>5. found \in DOMAIN history /\ history[found].key = call[c].key
  BY <1>1 DEF Recover, IInv, HolderKnows
<1>6. history[found] = call[c]
  <2>1. history[found] \in Commands /\ call[c] \in Commands
    BY <1>1, <1>5 DEF IInv, TypeOK
  <2> QED
    BY <2>1, <1>5 DEF Recover, SameRequest, Commands
<1>7. HolderKnows'
  BY <1>1, <1>2, <1>5, <1>6, HolderIsOne DEF HolderKnows
<1> QED
  BY <1>3, <1>4, <1>7 DEF IInv

LEMMA RefuseStep ==
  ASSUME IInv, NEW c \in Callers, Refuse(c)
  PROVE  IInv'
<1>1. pc[c] \in Inside /\ Unlock(c) /\ UNCHANGED <<call, cache, history, answer, faults>>
  BY DEF Refuse
<1>2. TypeOK'
  BY <1>1, UnlockStep DEF IInv, TypeOK
<1>3. AtMostOnce' /\ AnswerIsTheEffect'
  BY <1>1 DEF IInv, AtMostOnce, AnswerIsTheEffect
<1> QED
  BY <1>1, <1>2, <1>3, UnlockStep DEF IInv

LEMMA PerformStep ==
  ASSUME IInv, NEW c \in Callers, Perform(c)
  PROVE  IInv'
<1>1. /\ pc[c] = "searched" /\ pc'[c] = "done" /\ pc' \in [Callers -> Phases]
      /\ \A d \in Callers \ {c} : pc'[d] = pc[d]
      /\ found = 0 /\ found' = Len(history) + 1
  BY DEF IInv, TypeOK, Perform
<1>2. UNCHANGED <<call, lock, cache, answer, faults>>
  BY DEF Perform
<1>3. call[c] \in Commands
  BY <1>1 DEF IInv, TypeOK
<1>4. /\ history' \in Seq(Commands) /\ Len(history') = Len(history) + 1
      /\ DOMAIN history = 1 .. Len(history) /\ DOMAIN history' = 1 .. Len(history) + 1
      /\ \A i \in DOMAIN history : history'[i] = history[i]
      /\ history'[Len(history) + 1] = call[c]
      /\ Len(history) \in Nat
  BY <1>3 DEF IInv, TypeOK, Perform
<1> HIDE DEF Perform
<1>5. \A i \in DOMAIN history : history[i].key # call[c].key
  BY <1>1 DEF IInv, HolderKnows
<1>6. TypeOK'
  <2>1. cache' \in [Keys -> [request : Requests, event : DOMAIN history'] \cup {NoRow}]
    BY <1>2, <1>4 DEF IInv, TypeOK
  <2> QED
    BY <2>1, <1>1, <1>2, <1>3, <1>4 DEF IInv, TypeOK
<1>7. AtMostOnce'
  BY <1>4, <1>5 DEF IInv, AtMostOnce
<1>8. AnswerIsTheEffect'
  <2>1. \A d \in Callers : answer[d] # 0 => answer[d] \in DOMAIN history
    BY <1>4 DEF IInv, TypeOK
  <2>2. \A k \in Keys : cache[k] # NoRow => cache[k].event \in DOMAIN history
    BY DEF IInv, TypeOK
  <2> QED
    BY <2>1, <2>2, <1>2, <1>4 DEF IInv, AnswerIsTheEffect
<1>9. HolderAlone'
  BY <1>1, <1>2 DEF IInv, HolderAlone
<1>10. HolderKnows'
  BY <1>1, <1>2, <1>4, HolderIsOne DEF HolderKnows
<1> QED
  BY <1>6, <1>7, <1>8, <1>9, <1>10 DEF IInv

LEMMA CommitStep ==
  ASSUME IInv, NEW c \in Callers, Commit(c)
  PROVE  IInv'
<1>1. pc[c] = "done" /\ Unlock(c) /\ UNCHANGED <<call, history, faults>>
  BY DEF Commit
<1>2. call[c] \in Commands /\ found \in DOMAIN history /\ history[found] = call[c]
  BY <1>1 DEF IInv, TypeOK, HolderKnows
<1> DEFINE row == [request |-> call[c].request, event |-> found]
<1>3. /\ row \in [request : Requests, event : DOMAIN history]
      /\ call[c] = [key |-> call[c].key, request |-> row.request] /\ call[c].key \in Keys
  BY <1>2 DEF Commands
<1>4. /\ \A k \in Keys : cache'[k] = IF k = call[c].key THEN row ELSE cache[k]
      /\ cache' \in [Keys -> [request : Requests, event : DOMAIN history] \cup {NoRow}]
  BY <1>3 DEF IInv, TypeOK, Commit
<1>5. /\ \A d \in Callers : answer'[d] = IF d = c THEN found ELSE answer[d]
      /\ answer' \in [Callers -> 0 .. Len(history)]
  BY <1>2 DEF IInv, TypeOK, Commit
<1>6. TypeOK'
  BY <1>1, <1>4, <1>5, UnlockStep DEF IInv, TypeOK
<1>7. AnswerIsTheEffect'
  BY <1>1, <1>2, <1>3, <1>4, <1>5 DEF IInv, AnswerIsTheEffect
<1>8. AtMostOnce'
  BY <1>1 DEF IInv, AtMostOnce
<1> QED
  BY <1>1, <1>6, <1>7, <1>8, UnlockStep DEF IInv

LEMMA FaultStep ==
  ASSUME IInv, NEW c \in Callers, Fault(c)
  PROVE  IInv'
<1>1. /\ \A d \in Callers : pc'[d] = IF d = c THEN "idle" ELSE pc[d]
      /\ pc' \in [Callers -> Phases] /\ faults' \in 0 .. MaxFaults
  BY FaultsAreCounted DEF IInv, TypeOK, Fault
<1>2. UNCHANGED <<call, cache, history, answer>>
  BY DEF Fault
<1>3. IF lock = c THEN lock' = "free" /\ found' = 0 ELSE UNCHANGED <<lock, found>>
  BY DEF Fault
<1>4. TypeOK'
  BY <1>1, <1>2, <1>3 DEF IInv, TypeOK
<1>5. AtMostOnce' /\ AnswerIsTheEffect'
  BY <1>2 DEF IInv, AtMostOnce, AnswerIsTheEffect
<1>6. HolderAlone' /\ HolderKnows'
  <2>1. CASE lock = c
    BY <2>1, <1>1, <1>3, CallersAreNamed DEF IInv, HolderAlone, HolderKnows
  <2>2. CASE lock # c
    BY <2>2, <1>1, <1>2, <1>3 DEF IInv, HolderAlone, HolderKnows
  <2> QED
    BY <2>1, <2>2
<1> QED
  BY <1>4, <1>5, <1>6 DEF IInv

LEMMA StepIInv == IInv /\ [Next]_vars => IInv'
<1> SUFFICES ASSUME IInv, [Next]_vars PROVE IInv'
  OBVIOUS
<1>1. CASE UNCHANGED vars
  BY <1>1 DEF vars, IInv, TypeOK, HolderAlone, AtMostOnce, AnswerIsTheEffect, HolderKnows
<1>2. CASE Next
  <2> PICK c \in Callers :
        \/ Call(c) \/ Lock(c) \/ Cached(c) \/ Search(c) \/ Recover(c) \/ Refuse(c)
        \/ Perform(c) \/ Commit(c) \/ Fault(c)
    BY <1>2 DEF Next
  <2> QED
    BY CallStep, LockStep, CachedStep, SearchStep, RecoverStep, RefuseStep, PerformStep,
       CommitStep, FaultStep
<1> QED
  BY <1>1, <1>2

-----------------------------------------------------------------------------
\* However many callers retry, die or collide on a key, its command has at most
\* one event in the ordinal domain.
THEOREM EffectIsUnique == Spec => []AtMostOnce
<1>1. IInv => AtMostOnce
  BY DEF IInv
<1> QED
  BY InitIInv, StepIInv, <1>1, PTL DEF Spec

\* An answer names the event the caller's own command made, whether it came
\* from the cache, from the history after a death, or from the effect itself.
THEOREM AnswerIsTrue == Spec => []AnswerIsTheEffect
<1>1. IInv => AnswerIsTheEffect
  BY DEF IInv
<1> QED
  BY InitIInv, StepIInv, <1>1, PTL DEF Spec

\* The cache lock excludes: only its holder is between the lookup and the
\* commit.
THEOREM LockExcludes == Spec => []HolderAlone
<1>1. IInv => HolderAlone
  BY DEF IInv
<1> QED
  BY InitIInv, StepIInv, <1>1, PTL DEF Spec

-----------------------------------------------------------------------------
\* The refinement: an effect map, and what each caller was told.

\* The only event of a key is the one any choice finds.
LEMMA EffectOf ==
  ASSUME IInv, NEW k \in Keys
  PROVE  /\ EventsOf(k) = {} => effect[k] = "none"
         /\ \A i \in DOMAIN history : history[i].key = k => effect[k] = history[i].request
<1>1. ASSUME NEW i \in DOMAIN history, history[i].key = k
      PROVE  effect[k] = history[i].request
  <2>1. i \in EventsOf(k) /\ \A j \in EventsOf(k) : j = i
    BY <1>1 DEF EventsOf, IInv, AtMostOnce
  <2>2. (CHOOSE j \in EventsOf(k) : TRUE) = i
    BY <2>1
  <2> QED
    BY <2>1, <2>2 DEF effect
<1> QED
  BY <1>1 DEF effect

LEMMA InitPromise == Init => Promise!Init
BY DEF Init, Promise!Init, effect, told, EventsOf, Promise!Nothing, NoCommand

\* Steps that touch neither the history nor an answer are invisible.
LEMMA Invisible ==
  ASSUME UNCHANGED <<call, history, answer>>
  PROVE  UNCHANGED <<effect, told>>
BY DEF effect, told, EventsOf

LEMMA SameHistory ==
  ASSUME UNCHANGED history
  PROVE  UNCHANGED effect
BY DEF effect, EventsOf

\* The only step that changes what took effect, on a key without an effect.
LEMMA PerformPromised ==
  ASSUME IInv, IInv', NEW c \in Callers, Perform(c)
  PROVE  Promise!Perform(call[c].key, call[c].request) /\ call[c] \in Commands
<1>1. pc[c] = "searched" /\ found = 0 /\ UNCHANGED <<call, answer>>
  BY DEF Perform
<1>2. call[c] \in Commands
  BY <1>1 DEF IInv, TypeOK
<1>3. call[c].key \in Keys /\ call[c].request \in Requests
  BY <1>2 DEF Commands
<1>4. \A i \in DOMAIN history : history[i].key # call[c].key
  BY <1>1 DEF IInv, HolderKnows
<1>5. effect[call[c].key] = "none"
  BY <1>3, <1>4, EffectOf DEF EventsOf
<1>6. /\ DOMAIN history = 1 .. Len(history) /\ Len(history) \in Nat
      /\ DOMAIN history' = 1 .. Len(history) + 1
      /\ \A i \in DOMAIN history : history'[i] = history[i]
      /\ history'[Len(history) + 1] = call[c]
  BY <1>2 DEF IInv, TypeOK, Perform
<1>7. effect'[call[c].key] = call[c].request
  <2>1. Len(history) + 1 \in DOMAIN history'
    BY <1>6
  <2>2. Len(history) + 1 \in EventsOf(call[c].key)'
    BY <2>1, <1>1, <1>6 DEF EventsOf
  <2>3. \A j \in EventsOf(call[c].key)' : j = Len(history) + 1
    BY <2>1, <1>4, <1>6, <1>1 DEF EventsOf
  <2>4. (CHOOSE j \in EventsOf(call[c].key)' : TRUE) = Len(history) + 1
    BY <2>2, <2>3
  <2> QED
    BY <2>2, <2>4, <1>1, <1>3, <1>6 DEF effect
<1>8. ASSUME NEW k \in Keys, k # call[c].key
      PROVE  effect'[k] = effect[k]
  <2>1. EventsOf(k)' = EventsOf(k)
    BY <1>6, <1>8 DEF EventsOf
  <2>2. CASE EventsOf(k) = {}
    BY <2>1, <2>2 DEF effect
  <2>3. CASE EventsOf(k) # {}
    <3>1. (CHOOSE i \in EventsOf(k) : TRUE) \in DOMAIN history
      BY <2>3 DEF EventsOf
    <3> QED
      BY <3>1, <2>1, <2>3, <1>6 DEF effect
  <2> QED
    BY <2>2, <2>3
<1>9. effect' = [effect EXCEPT ![call[c].key] = call[c].request]
  <2>1. /\ DOMAIN effect = Keys /\ effect = [k \in Keys |-> effect[k]]
        /\ effect' = [k \in Keys |-> effect'[k]]
    BY DEF effect
  <2> QED
    BY <2>1, <1>3, <1>7, <1>8
<1>10. UNCHANGED told
  BY <1>1 DEF told
<1> QED
  BY <1>2, <1>5, <1>9, <1>10 DEF Promise!Perform

\* An answer given is an answer about what took effect.
LEMMA AnswerPromised ==
  ASSUME IInv, NEW c \in Callers, call[c] \in Commands, UNCHANGED <<call, history>>,
         NEW i \in DOMAIN history, history[i] = call[c],
         answer' = [answer EXCEPT ![c] = i]
  PROVE  Promise!Answer(c, call[c].key, call[c].request)
<1>1. call[c].key \in Keys /\ call[c] = [key |-> call[c].key, request |-> call[c].request]
  BY DEF Commands
<1>2. effect[call[c].key] = call[c].request
  BY <1>1, EffectOf
<1>3. i # 0 /\ answer \in [Callers -> 0 .. Len(history)]
  BY DEF IInv, TypeOK
<1>4. told' = [told EXCEPT ![c] = [key |-> call[c].key, request |-> call[c].request]]
  BY <1>1, <1>3 DEF told
<1> QED
  BY <1>2, <1>4, SameHistory DEF Promise!Answer

LEMMA NoAnswerPromised ==
  ASSUME IInv, NEW c \in Callers, UNCHANGED history,
         \A d \in Callers \ {c} : call'[d] = call[d],
         answer' = [answer EXCEPT ![c] = 0]
  PROVE  Promise!Ask(c)
<1>1. answer \in [Callers -> 0 .. Len(history)]
  BY DEF IInv, TypeOK
<1>2. told' = [told EXCEPT ![c] = Promise!Nothing]
  BY <1>1 DEF told, Promise!Nothing, NoCommand
<1> QED
  BY <1>2, SameHistory DEF Promise!Ask

LEMMA StepPromise ==
  IInv /\ IInv' /\ [Next]_vars => [Promise!Next]_<<effect, told>>
<1> SUFFICES ASSUME IInv, IInv', [Next]_vars
             PROVE  Promise!Next \/ UNCHANGED <<effect, told>>
  OBVIOUS
<1>1. CASE UNCHANGED vars
  BY <1>1, Invisible DEF vars
<1>2. ASSUME NEW c \in Callers, Call(c)
      PROVE  Promise!Ask(c)
  <2>1. \A d \in Callers \ {c} : call'[d] = call[d]
    BY <1>2 DEF Call, IInv, TypeOK
  <2> QED
    BY <2>1, <1>2, NoAnswerPromised DEF Call
<1>3. ASSUME NEW c \in Callers, Cached(c)
      PROVE  Promise!Ask(c) \/ (call[c] \in Commands /\ Promise!Answer(c, call[c].key, call[c].request))
  <2> DEFINE row == cache[call[c].key]
  <2>1. pc[c] # "idle" /\ UNCHANGED <<call, history>>
    BY <1>3 DEF Cached
  <2>2. call[c] \in Commands /\ call[c].key \in Keys
    BY <2>1 DEF IInv, TypeOK, Commands
  <2>3. /\ row \in [request : Requests, event : DOMAIN history]
        /\ history[row.event] = [key |-> call[c].key, request |-> row.request]
    BY <1>3, <2>2 DEF IInv, TypeOK, AnswerIsTheEffect, Cached, UseRow
  <2>4. CASE row.request = call[c].request
    <3>1. history[row.event] = call[c] /\ row.event \in DOMAIN history
      BY <2>2, <2>3, <2>4 DEF Commands
    <3>2. answer' = [answer EXCEPT ![c] = row.event]
      BY <1>3, <2>4 DEF Cached, UseRow
    <3> QED
      BY <2>1, <2>2, <3>1, <3>2, AnswerPromised
  <2>5. CASE row.request # call[c].request
    <3>1. answer' = [answer EXCEPT ![c] = 0]
      BY <1>3, <2>5 DEF Cached, UseRow
    <3> QED
      BY <2>1, <3>1, NoAnswerPromised
  <2> QED
    BY <2>4, <2>5
<1>4. ASSUME NEW c \in Callers, Commit(c)
      PROVE  call[c] \in Commands /\ Promise!Answer(c, call[c].key, call[c].request)
  <2>1. pc[c] = "done" /\ UNCHANGED <<call, history>> /\ answer' = [answer EXCEPT ![c] = found]
    BY <1>4 DEF Commit
  <2>2. call[c] \in Commands /\ found \in DOMAIN history /\ history[found] = call[c]
    BY <2>1 DEF IInv, TypeOK, HolderKnows
  <2> QED
    BY <2>1, <2>2, AnswerPromised
<1>5. ASSUME NEW c \in Callers, Lock(c) \/ Search(c) \/ Recover(c) \/ Refuse(c) \/ Fault(c)
      PROVE  UNCHANGED <<effect, told>>
  BY <1>5, Invisible DEF Lock, Search, Recover, Refuse, Fault
<1>6. CASE Next
  <2> PICK c \in Callers :
        \/ Call(c) \/ Lock(c) \/ Cached(c) \/ Search(c) \/ Recover(c) \/ Refuse(c)
        \/ Perform(c) \/ Commit(c) \/ Fault(c)
    BY <1>6 DEF Next
  <2>1. call[c] \in Commands => call[c].key \in Keys /\ call[c].request \in Requests
    BY DEF Commands
  <2> QED
    BY <1>2, <1>3, <1>4, <1>5, <2>1, PerformPromised DEF Promise!Next
<1> QED
  BY <1>1, <1>6

\* The adapter keeps its promise: with the effects read off the domain's
\* history, Disciplines.once implements an exactly-once command register,
\* through lost answers, failed commits and retries by other processes.
THEOREM ImplementsExactlyOnce == Spec => KeepsPromise
<1>1. IInv /\ [Next]_vars => IInv'
  BY StepIInv
<1> QED
  BY InitIInv, <1>1, InitPromise, StepPromise, PTL DEF Spec, KeepsPromise, Promise!Spec

-----------------------------------------------------------------------------
(* Contributions to the native store.                                      *)

Contexts == [version : Nat, cut : Nat]
OpermemAnswers == [class : {"replay", "success"}, accepted : BOOLEAN]
Holdings == {Nothing} \cup Contexts \cup OpermemAnswers \cup [current : BOOLEAN] \cup [formed : BOOLEAN]

(* Where a process is: before the context, before the link, with the       *)
(* actors, submitting, or at its end.                                      *)
Early == {"preparing", "writing preparation", "requesting", "retrieving"}
Unlinked == {"capturing", "attaching", "writing scope", "declaring", "writing link"}
Working == {"binding", "acting work", "acted work", "acting review", "acted review",
            "judging", "unaccepted"}
Submitting == {"rereading", "writing pending", "rewriting", "looking", "comparing", "sending",
               "awaiting", "answered", "retaining"}
Ending == {"failed", "reporting", "synchronizing"}
Late == {"ending"} \cup Submitting \cup Ending
Stages == Early \cup Unlinked \cup Working \cup Late

Slots == [outcome : {"none", "accepted", "rejected"}, version : Nat]
Natives == [version : Nat, current : BOOLEAN, cut : Nat, slot : Slots]
Filed == [state : {"absent", "torn", "whole"}, holds : Holdings]
SessionNames == {"none", "that of work", "that of review"}
Dispositions == {Nothing, "error", "complete", "active"}
Busy == [stage : Stages, context : {Nothing} \cup Contexts, committed : BOOLEAN,
         answer : {Nothing} \cup OpermemAnswers, disposition : Dispositions]

Surroundings ==
  /\ kind \in {"plain", "superseding", "checking"} /\ owned \in BOOLEAN
  /\ native \in Natives
  /\ requests \subseteq [by : Workers, version : Nat]
  /\ files \in [RunFiles -> Filed]
  /\ verdict \in {"open", "accepted", "rejected"}
  /\ identity \in [Steps -> SessionNames]

OpermemTypes == Surroundings /\ process \in [Workers -> Busy \cup {Away}]

Identified == identity["work"] # identity["review"]

(* What the task has come to: its link is its context, and it has accepted *)
(* the work of two sessions only when it is past judging.                  *)
Bound ==
  /\ process[Task].stage \in Early \cup Unlinked => ~Whole("link")
  /\ ~owned /\ process[Task].stage \in Working => ~Whole("link")
  /\ ~owned /\ process[Task].stage = "ending" => Whole("link")
  /\ process[Task].stage \in Stages \ Early => process[Task].context \in Contexts
  /\ Whole("link") => files["link"].holds \in Contexts
  /\ Whole("link") /\ process[Task].stage \in Stages => process[Task].context = files["link"].holds

Judged ==
  /\ process[Task].stage = "judging" => Identified
  /\ verdict = "accepted" => Identified
  /\ verdict = "accepted" /\ process[Task].stage \notin Late \cup {"away"} =>
       process[Task].stage = "writing link" /\ ~owned

Earned ==
  verdict = "accepted" /\ Whole("link") /\ Gate /\ ContributionIsFormed /\ Identified

(* Whoever submits, submits earned work under the context of its link.     *)
Submits(p) == process[p].stage \in Submitting =>
  Earned /\ process[p].context = files["link"].holds
Asks(r) == Earned /\ r.version = files["link"].holds.version
Deposited == Committed => Earned /\ Slot.version = files["link"].holds.version

(* Nothing says that the work was deposited unless it was.                 *)
Answered(p) == process[p].stage = "answered" /\ process[p].answer.accepted => Committed
Tells(p) == process[p].stage = "synchronizing" /\ process[p].disposition = "complete" => Committed
Told ==
  /\ ReceiptEstablishes => Committed
  /\ telos = "complete" => Committed
  /\ "native-receipt" \in correspondence => Committed

OpermemInv ==
  /\ OpermemTypes /\ Bound /\ Judged
  /\ \A p \in Workers : Submits(p)
  /\ \A r \in requests : Asks(r)
  /\ Deposited
  /\ \A p \in Workers : Answered(p)
  /\ \A p \in Workers : Tells(p)
  /\ Told

-----------------------------------------------------------------------------
(* What a step leaves of earned work, of the task and of what is told.     *)
Goes(p, stage) ==
  /\ process' \in [Workers -> Busy \cup {Away}]
  /\ process'[p] \in Busy /\ process'[p].stage = stage
  /\ process'[p].context = process[p].context /\ process'[p].answer = process[p].answer
  /\ process'[p].disposition = process[p].disposition
  /\ \A q \in Workers \ {p} : process'[q] = process[q]

Becomes(p) ==
  /\ process' \in [Workers -> Busy \cup {Away}]
  /\ \A q \in Workers \ {p} : process'[q] = process[q]

Kept ==
  /\ UNCHANGED <<kind, owned, verdict, identity>> /\ correspondence \subseteq correspondence'
  /\ files'["link"] = files["link"] \/ ~(Whole("link") \/ Whole("link")')
  /\ Whole("report") => files'["report"] = files["report"]
  /\ Whole("scope") => Whole("scope")'
  /\ Whole("preparation") => Whole("preparation")'

SlotHolds ==
  \/ native'.slot = native.slot
  \/ ~Committed /\ (Committed' => Earned /\ native'.slot.version = files["link"].holds.version)

TellsNoMore ==
  /\ ReceiptEstablishes' => ReceiptEstablishes \/ Committed
  /\ telos' = "complete" => telos = "complete" \/ Committed
  /\ "native-receipt" \in correspondence' => "native-receipt" \in correspondence \/ Committed

GoesOn ==
  \/ process'[Task].stage = process[Task].stage /\ process'[Task].context = process[Task].context
  \/ process'[Task].stage = "away"
  \/ /\ process[Task].stage \in Late \cup {"away"} /\ process'[Task].stage \in Late \ {"ending"}
     /\ process'[Task].context \in Contexts
     /\ Whole("link") => process'[Task].context = files["link"].holds

Sound(p) == Submits(p) /\ Answered(p) /\ Tells(p)

LEMMA TaskWorks == Task \in Workers
BY DEF Workers

(* A busy process enters a stage with what it had.                         *)
LEMMA Enters ==
  ASSUME OpermemTypes, NEW p \in Workers, NEW from \in Stages, Is(p, from), NEW stage \in Stages,
         Enter(p, stage)
  PROVE  Goes(p, stage)
<1>1. process[p] \in Busy
  <2>1. process[p] # Away
    <3>1. from # "away"
      BY DEF Stages, Early, Unlinked, Working, Late, Submitting, Ending
    <3>2. Away.stage = "away"
      BY DEF Away
    <3> QED BY <3>1, <3>2 DEF Is
  <2> QED BY <2>1 DEF OpermemTypes, Surroundings
<1> DEFINE row == [process[p] EXCEPT !.stage = stage]
<1>2. row \in Busy /\ row.stage = stage /\ row.context = process[p].context
      /\ row.answer = process[p].answer /\ row.disposition = process[p].disposition
  BY <1>1 DEF Busy
<1>3. process' = [process EXCEPT ![p] = row]
  BY DEF Enter
<1> HIDE DEF row
<1>4. process' \in [Workers -> Busy \cup {Away}] /\ process'[p] = row
      /\ \A q \in Workers \ {p} : process'[q] = process[q]
  BY <1>2, <1>3 DEF OpermemTypes, Surroundings
<1> QED BY <1>2, <1>4 DEF Goes

(* A process takes on a new state.                                         *)
LEMMA TakesOn ==
  ASSUME OpermemTypes, NEW p \in Workers, NEW row \in Busy \cup {Away},
         process' = [process EXCEPT ![p] = row]
  PROVE  Becomes(p) /\ process'[p] = row
BY DEF OpermemTypes, Surroundings, Becomes

LEMMA Puts ==
  ASSUME OpermemTypes, NEW f \in RunFiles, NEW content \in Holdings, Put(f, content)
  PROVE  /\ files' \in [RunFiles -> Filed] /\ files'[f] = [state |-> "whole", holds |-> content]
         /\ \A g \in RunFiles \ {f} : files'[g] = files[g]
<1>1. [state |-> "whole", holds |-> content] \in Filed
  BY DEF Filed
<1> QED BY <1>1 DEF OpermemTypes, Surroundings, Put

(* What was earned stays earned as long as its files and verdict stand.    *)
LEMMA StaysEarned ==
  ASSUME Kept, Earned
  PROVE  Earned' /\ files'["link"] = files["link"]
<1>1. files'["link"] = files["link"] /\ Whole("link")'
  BY DEF Kept, Earned, Whole
<1>2. Gate'
  BY <1>1 DEF Kept, Earned, Gate, RunIsOwned, Attached, ParticipantsAreGenuine, Whole
<1>3. ContributionIsFormed'
  BY DEF Kept, Earned, ContributionIsFormed, Whole
<1>4. verdict' = "accepted" /\ Identified'
  BY DEF Kept, Earned, Identified
<1> QED BY <1>1, <1>2, <1>3, <1>4 DEF Earned

(* The task goes on: nothing it is bound to changes.                       *)
LEMMA StaysBound ==
  ASSUME Bound, Judged, Kept, GoesOn
  PROVE  Bound' /\ Judged'
<1>1. Bound'
  BY DEF Bound, Kept, GoesOn, Whole, Late, Stages, Early, Unlinked, Working, Submitting, Ending
<1>2. Judged'
  BY DEF Judged, Kept, GoesOn, Identified, Late, Submitting, Ending
<1> QED BY <1>1, <1>2

(* A step that keeps earned work and tells no more than was deposited.     *)
LEMMA Carries ==
  ASSUME OpermemInv, OpermemTypes', Kept, GoesOn, SlotHolds, TellsNoMore,
         \A p \in Workers : process'[p] = process[p] \/ Sound(p)',
         \A r \in requests' : r \in requests \/ Asks(r)'
  PROVE  OpermemInv'
<1>1. Bound' /\ Judged'
  BY StaysBound DEF OpermemInv
<1>2. Committed => Committed'
  BY DEF SlotHolds, Committed, Slot
<1>3. \A p \in Workers : Submits(p)'
  BY StaysEarned DEF OpermemInv, Submits, Sound
<1>4. \A r \in requests' : Asks(r)'
  BY StaysEarned DEF OpermemInv, Asks
<1>5. Deposited'
  <2>1. CASE native'.slot = native.slot
    BY <2>1, StaysEarned DEF OpermemInv, Deposited, Committed, Slot
  <2>2. CASE native'.slot # native.slot
    BY <2>2, StaysEarned DEF SlotHolds, Deposited, Committed, Slot
  <2> QED BY <2>1, <2>2
<1>6. \A p \in Workers : Answered(p)' /\ Tells(p)'
  BY <1>2 DEF OpermemInv, Answered, Tells, Sound
<1>7. Told'
  BY <1>2 DEF OpermemInv, Told, TellsNoMore
<1> QED BY <1>1, <1>3, <1>4, <1>5, <1>6, <1>7 DEF OpermemInv

(* Before anything is earned nothing is submitted, deposited or told.      *)
LEMMA NothingYet ==
  ASSUME OpermemInv, ~Earned
  PROVE  /\ requests = {} /\ ~Committed
         /\ \A p \in Workers : process[p].stage \notin Submitting
         /\ ~ReceiptEstablishes /\ telos # "complete" /\ "native-receipt" \notin correspondence
BY DEF OpermemInv, Asks, Deposited, Submits, Told

(* A step of the task before anything is earned.                           *)
LEMMA Toils ==
  ASSUME OpermemInv, ~Earned, OpermemTypes', Bound', Judged', UNCHANGED <<native, requests, telos>>,
         NEW stage, Goes(Task, stage), stage \notin Submitting \cup {"synchronizing"},
         files'["receipt"] = files["receipt"],
         "native-receipt" \in correspondence' => "native-receipt" \in correspondence
  PROVE  OpermemInv'
<1>1. /\ requests' = {} /\ ~Committed'
      /\ \A p \in Workers : process'[p].stage \notin Submitting
  BY NothingYet DEF Goes, Committed, Slot
<1>2. \A p \in Workers : Submits(p)' /\ Answered(p)'
  BY <1>1 DEF Submits, Answered, Submitting
<1>3. \A p \in Workers : Tells(p)'
  BY NothingYet DEF OpermemInv, Tells, Goes
<1>4. Told'
  BY NothingYet DEF Told, ReceiptEstablishes, Whole
<1> QED BY <1>1, <1>2, <1>3, <1>4 DEF OpermemInv, Deposited

(* At these stages nothing is earned.                                      *)
LEMMA Unearned ==
  ASSUME OpermemInv, process[Task].stage \in Early \cup Unlinked \cup Working
  PROVE  ~Earned
BY DEF OpermemInv, Earned, Bound, Judged, Early, Unlinked, Working, Late, Submitting, Ending

-----------------------------------------------------------------------------
(* The task, until the work is judged: the names of its stages and records *)
LEMMA StageNames ==
  /\ Acting["work"] = "acting work" /\ Acting["review"] = "acting review"
  /\ Acted["work"] = "acted work" /\ Acted["review"] = "acted review"
  /\ Reserved["work"] = "participant work" /\ Reserved["review"] = "participant review"
  /\ Opened["work"] = "session work" /\ Opened["review"] = "session review"
  /\ Finished["work"] = "closed work" /\ Finished["review"] = "closed review"
  /\ Broken["work"] = "failed work" /\ Broken["review"] = "failed review"
  /\ Unnamed["work"] = "unavailable work" /\ Unnamed["review"] = "unavailable review"
BY DEF Acting, Acted, Reserved, Opened, Finished, Broken, Unnamed

(* The task goes to another stage of its work, with what it had.           *)
LEMMA Advances ==
  ASSUME OpermemInv, NEW from \in (Early \cup Unlinked \cup Working) \ {"writing link"},
         NEW to \in (Early \cup Unlinked \cup Working) \ {"judging"},
         from \in Early => to \in Early, from \in Working => to \in Working,
         Is(Task, from), Enter(Task, to), UNCHANGED <<given, store, cameTo>>,
         files' \in [RunFiles -> Filed], files'["receipt"] = files["receipt"],
         files'["link"] = files["link"],
         "native-receipt" \in correspondence' => "native-receipt" \in correspondence
  PROVE  OpermemInv'
<1>1. Goes(Task, to)
  BY TaskWorks, Enters DEF OpermemInv, Stages
<1>2. ~Earned
  BY Unearned DEF Is
<1>3. OpermemTypes'
  BY <1>1 DEF OpermemInv, OpermemTypes, Surroundings, Goes, given, store, cameTo
<1>4. Bound'
  BY <1>1 DEF OpermemInv, Bound, Goes, Is, Whole, given, Stages, Early, Unlinked, Working
<1>5. Judged'
  BY <1>1 DEF OpermemInv, Judged, Goes, Is, Identified, given, cameTo,
     Early, Unlinked, Working, Late, Submitting, Ending
<1>6. to \notin Submitting \cup {"synchronizing"}
  BY DEF Early, Unlinked, Working, Submitting
<1> QED
  BY <1>1, <1>2, <1>3, <1>4, <1>5, <1>6, Toils DEF store, cameTo

LEMMA PrepareExecutionSound ==
  ASSUME OpermemInv, PrepareExecution
  PROVE  OpermemInv'
BY Advances DEF OpermemInv, OpermemTypes, Surroundings, PrepareExecution, Establish, Early, Unlinked, Working

LEMMA WritePreparationSound ==
  ASSUME OpermemInv, WritePreparation
  PROVE  OpermemInv'
<1>1. Put("preparation", Nothing) BY DEF WritePreparation
<1>2. /\ files' \in [RunFiles -> Filed] /\ files'["receipt"] = files["receipt"]
      /\ files'["link"] = files["link"]
  BY <1>1, Puts DEF OpermemInv, RunFiles, Holdings
<1> QED BY <1>2, Advances DEF WritePreparation, Early, Unlinked, Working

LEMMA RequestNativeSound ==
  ASSUME OpermemInv, RequestNative
  PROVE  OpermemInv'
BY Advances DEF OpermemInv, OpermemTypes, Surroundings, RequestNative, Establish, Early, Unlinked, Working

LEMMA PrepareUnownedSound ==
  ASSUME OpermemInv, PrepareUnowned
  PROVE  OpermemInv'
BY Advances DEF OpermemInv, OpermemTypes, Surroundings, PrepareUnowned, Early, Unlinked, Working

LEMMA CaptureEvidenceSound ==
  ASSUME OpermemInv, CaptureEvidence
  PROVE  OpermemInv'
<1>1. Put("evidence", [current |-> TRUE]) BY DEF CaptureEvidence
<1>2. /\ files' \in [RunFiles -> Filed] /\ files'["receipt"] = files["receipt"]
      /\ files'["link"] = files["link"]
  BY <1>1, Puts DEF OpermemInv, RunFiles, Holdings
<1> QED BY <1>2, Advances DEF CaptureEvidence, Early, Unlinked, Working

LEMMA AttachSound ==
  ASSUME OpermemInv, Attach
  PROVE  OpermemInv'
<1>1. CASE owned
  BY <1>1, Advances
  DEF OpermemInv, OpermemTypes, Surroundings, Attach, Establish, Early, Unlinked, Working
<1>2. CASE ~owned
  BY <1>2, StageNames, Advances
  DEF OpermemInv, OpermemTypes, Surroundings, Attach, Early, Unlinked, Working
<1> QED BY <1>1, <1>2

LEMMA WriteScopeSound ==
  ASSUME OpermemInv, WriteScope
  PROVE  OpermemInv'
<1>1. Put("scope", Nothing) BY DEF WriteScope
<1>2. /\ files' \in [RunFiles -> Filed] /\ files'["receipt"] = files["receipt"]
      /\ files'["link"] = files["link"]
  BY <1>1, Puts DEF OpermemInv, RunFiles, Holdings
<1> QED BY <1>2, Advances DEF WriteScope, Early, Unlinked, Working

LEMMA DeclareScopeSound ==
  ASSUME OpermemInv, DeclareScope
  PROVE  OpermemInv'
BY Advances DEF OpermemInv, OpermemTypes, Surroundings, DeclareScope, Establish, Early, Unlinked, Working

LEMMA BindNativeSound ==
  ASSUME OpermemInv, BindNative
  PROVE  OpermemInv'
BY StageNames, Advances
DEF OpermemInv, OpermemTypes, Surroundings, BindNative, Establish, Early, Unlinked, Working

LEMMA ReserveActorSound ==
  ASSUME OpermemInv, NEW step \in Steps, ReserveActor(step)
  PROVE  OpermemInv'
<1>1. Acting[step] \in Working \ {"judging"} /\ Acted[step] \in Working \ {"judging"}
  BY StageNames DEF Steps, Working
<1>2. Reserved[step] # "native-receipt"
  BY StageNames DEF Steps
<1>3. Acting[step] \notin Early /\ Acting[step] # "writing link"
  BY StageNames DEF Steps, Early
<1>4. "native-receipt" \in correspondence' => "native-receipt" \in correspondence
  BY <1>2 DEF ReserveActor, Establish
<1> QED BY <1>1, <1>3, <1>4, Advances DEF OpermemInv, OpermemTypes, Surroundings, ReserveActor

(* The task reads its context.                                             *)
LEMMA RetrieveContextSound ==
  ASSUME OpermemInv, RetrieveContext
  PROVE  OpermemInv'
<1> DEFINE stage == IF kind = "checking" THEN "capturing" ELSE "attaching"
           row == [process[Task] EXCEPT !.stage = stage, !.context = NativeContext]
<1>1. process[Task] \in Busy
  BY TaskWorks DEF RetrieveContext, Is, Away, OpermemInv, OpermemTypes, Surroundings
<1>2. NativeContext \in Contexts
  BY DEF OpermemInv, OpermemTypes, Surroundings, Natives, NativeContext, Contexts
<1>3. row \in Busy /\ row.stage = stage /\ row.context = NativeContext
  BY <1>1, <1>2 DEF Busy, Stages, Unlinked
<1>4. process' = [process EXCEPT ![Task] = row]
  BY DEF RetrieveContext
<1>5. stage \in {"capturing", "attaching"}
  OBVIOUS
<1> HIDE DEF row, stage
<1>6. Becomes(Task) /\ process'[Task] = row
  BY <1>3, <1>4, TaskWorks, TakesOn DEF OpermemInv
<1>7. ~Earned
  BY Unearned DEF RetrieveContext, Is, Early
<1>8. OpermemTypes'
  BY <1>6 DEF OpermemInv, OpermemTypes, Surroundings, RetrieveContext, Becomes, given, store, cameTo
<1>9. Bound'
  <2>1. ~Whole("link") /\ ~Whole("link")'
    BY DEF OpermemInv, Bound, RetrieveContext, Is, Whole, Early
  <2> QED BY <1>2, <1>3, <1>5, <1>6, <2>1 DEF Bound, Working, Stages
<1>10. Judged'
  <2>1. verdict' # "accepted"
    BY DEF OpermemInv, Judged, RetrieveContext, Is, cameTo, Late, Submitting, Ending
  <2> QED BY <1>3, <1>5, <1>6, <2>1 DEF Judged
<1>11. /\ requests' = {} /\ ~Committed'
       /\ \A p \in Workers :
            \/ process'[p].stage \notin Submitting \cup {"synchronizing"}
            \/ process'[p] = process[p] /\ process[p].stage \notin Submitting
  BY <1>3, <1>5, <1>6, <1>7, NothingYet
  DEF RetrieveContext, store, Committed, Slot, Becomes, Submitting
<1>12. \A p \in Workers : Submits(p)' /\ Answered(p)' /\ Tells(p)'
  BY <1>7, <1>11, NothingYet DEF OpermemInv, Submits, Answered, Tells, Submitting
<1>13. Told'
  BY <1>7, NothingYet DEF Told, ReceiptEstablishes, Whole, RetrieveContext, cameTo
<1> QED BY <1>8, <1>9, <1>10, <1>11, <1>12, <1>13 DEF OpermemInv, Deposited

(* The link is the context the task has read.                              *)
LEMMA WriteLinkSound ==
  ASSUME OpermemInv, WriteLink
  PROVE  OpermemInv'
<1> DEFINE stage == IF owned THEN "binding" ELSE "ending"
<1>1. process[Task].stage = "writing link" /\ ~Whole("link") /\ process[Task].context \in Contexts
  BY DEF WriteLink, Is, OpermemInv, Bound, Unlinked, Stages, Early
<1>2. ~Earned
  BY <1>1 DEF Earned
<1>3. stage \in {"binding", "ending"} /\ (owned <=> stage = "binding")
  BY DEF OpermemInv, OpermemTypes, Surroundings
<1>4. Enter(Task, stage)
  BY DEF WriteLink
<1> HIDE DEF stage
<1>5. Goes(Task, stage)
  BY <1>1, <1>3, <1>4, TaskWorks, Enters DEF Is, OpermemInv, Stages, Unlinked, Working, Late
<1>6. /\ files' \in [RunFiles -> Filed] /\ files'["receipt"] = files["receipt"]
      /\ files'["link"] = [state |-> "whole", holds |-> process[Task].context]
  <2>1. Put("link", process[Task].context) /\ "link" \in RunFiles /\ "receipt" \in RunFiles \ {"link"}
    BY DEF WriteLink, RunFiles
  <2>2. process[Task].context \in Holdings
    BY <1>1 DEF Holdings
  <2> QED BY <2>1, <2>2, Puts DEF OpermemInv
<1>7. OpermemTypes'
  BY <1>5, <1>6 DEF OpermemInv, OpermemTypes, Surroundings, WriteLink, Goes, given, store, cameTo
<1>8. Bound'
  <2>1. /\ Whole("link")' /\ files'["link"].holds = process[Task].context
        /\ process'[Task].context = process[Task].context /\ process'[Task].stage = stage
    BY <1>5, <1>6 DEF Goes, Whole
  <2>2. stage \notin Early \cup Unlinked /\ (stage \in Working => owned')
    BY <1>3 DEF WriteLink, given, Early, Unlinked, Working
  <2> QED BY <1>1, <2>1, <2>2 DEF Bound
<1>9. Judged'
  BY <1>1, <1>3, <1>5
  DEF OpermemInv, Judged, Identified, Goes, WriteLink, given, cameTo, Late, Submitting, Ending
<1>10. stage \notin Submitting \cup {"synchronizing"}
  BY <1>3 DEF Submitting
<1> QED BY <1>2, <1>5, <1>6, <1>7, <1>8, <1>9, <1>10, Toils DEF WriteLink, store, cameTo

(* What the stream of an actor names is observed, and the work it leaves.  *)
LEMMA ObserveActorSound ==
  ASSUME OpermemInv, NEW step \in Steps, NEW session \in Sessions(step),
         NEW completed \in BOOLEAN, NEW formed \in BOOLEAN,
         ObserveActor(step, session, completed, formed)
  PROVE  OpermemInv'
<1> DEFINE stage == IF ~(completed /\ Genuine(step, session)) THEN "unaccepted"
                    ELSE IF step = "review" THEN "judging"
                    ELSE IF EvidenceIsCurrent THEN Acting["review"] ELSE "unaccepted"
<1>1. process[Task].stage \in Working \ {"judging"}
  BY StageNames DEF ObserveActor, Is, Steps, Working
<1>2. ~Earned
  BY <1>1, Unearned
<1>3. /\ stage \in {"unaccepted", "judging", "acting review"}
      /\ stage = "judging" => step = "review" /\ Genuine(step, session)
  BY StageNames DEF Steps
<1>4. Enter(Task, stage)
  BY DEF ObserveActor
<1> HIDE DEF stage
<1>5. Goes(Task, stage)
  BY <1>1, <1>3, <1>4, TaskWorks, Enters DEF Is, OpermemInv, Stages, Working
<1>6. /\ files' \in [RunFiles -> Filed] /\ files'["receipt"] = files["receipt"]
      /\ files'["link"] = files["link"]
  <2>1. CASE Put("report", [formed |-> formed])
    <3>1. [formed |-> formed] \in Holdings /\ "report" \in RunFiles
          /\ {"receipt", "link"} \subseteq RunFiles \ {"report"}
      BY DEF Holdings, RunFiles
    <3> QED BY <2>1, <3>1, Puts DEF OpermemInv
  <2>2. CASE UNCHANGED files
    BY <2>2 DEF OpermemInv, OpermemTypes, Surroundings
  <2> QED BY <2>1, <2>2 DEF ObserveActor
<1>7. /\ identity' \in [Steps -> SessionNames]
      /\ stage = "judging" => Identified'
  <2>1. session \in SessionNames
    <3>1. SessionOf["work"] = "that of work" /\ SessionOf["review"] = "that of review"
      BY DEF SessionOf
    <3> QED BY <3>1 DEF Sessions, Steps, SessionNames
  <2>2. identity' = [identity EXCEPT ![step] = IF Genuine(step, session) THEN session ELSE @]
    BY DEF ObserveActor
  <2>3. identity' \in [Steps -> SessionNames]
    BY <2>1, <2>2 DEF OpermemInv, OpermemTypes, Surroundings
  <2>4. stage = "judging" => identity'["review"] = session /\ identity'["work"] = identity["work"]
    BY <1>3, <2>2 DEF OpermemInv, OpermemTypes, Surroundings, Steps
  <2> QED BY <1>3, <2>3, <2>4 DEF Genuine, Identified
<1>8. OpermemTypes'
  BY <1>5, <1>6, <1>7 DEF OpermemInv, OpermemTypes, Surroundings, ObserveActor, Goes, given, store
<1>9. Bound'
  BY <1>1, <1>3, <1>5, <1>6
  DEF OpermemInv, Bound, Goes, ObserveActor, given, Whole, Early, Unlinked, Working, Stages
<1>10. Judged'
  <2>1. verdict' # "accepted"
    BY <1>1 DEF OpermemInv, Judged, ObserveActor, Working, Late, Submitting, Ending
  <2> QED BY <1>5, <1>7, <2>1 DEF Judged, Goes
<1>11. "native-receipt" \in correspondence' => "native-receipt" \in correspondence
  <2>1. \A s \in Steps : "native-receipt" \notin {Unnamed[s], Opened[s], Finished[s], Broken[s]}
    BY StageNames DEF Steps
  <2> QED BY <2>1 DEF ObserveActor
<1>12. stage \notin Submitting \cup {"synchronizing"}
  BY <1>3 DEF Submitting
<1> QED
  BY <1>2, <1>5, <1>6, <1>8, <1>9, <1>10, <1>11, <1>12, Toils DEF ObserveActor, store

(* The run is judged; what has failed is rejected.                         *)
LEMMA JudgedSound ==
  ASSUME OpermemInv, JudgeRun \/ FailToWork
  PROVE  OpermemInv'
<1> DEFINE stage == IF owned THEN "ending" ELSE "writing link"
<1>1. /\ process[Task].stage \in {"judging", "unaccepted"}
      /\ verdict' \in {"accepted", "rejected"}
      /\ verdict' = "accepted" => process[Task].stage = "judging"
  BY DEF JudgeRun, FailToWork, Is
<1>2. ~Earned
  BY <1>1, Unearned DEF Working
<1>3. stage \in {"ending", "writing link"} /\ (owned <=> stage = "ending")
  BY DEF OpermemInv, OpermemTypes, Surroundings
<1>4. Enter(Task, stage)
  BY DEF JudgeRun, FailToWork
<1> HIDE DEF stage
<1>5. /\ UNCHANGED <<given, store, correspondence, files, identity, telos>>
  BY DEF JudgeRun, FailToWork
<1>6. Goes(Task, stage)
  BY <1>1, <1>3, <1>4, TaskWorks, Enters DEF Is, OpermemInv, Stages, Unlinked, Working, Late
<1>7. OpermemTypes'
  BY <1>1, <1>5, <1>6 DEF OpermemInv, OpermemTypes, Surroundings, Goes, given, store
<1>8. Bound'
  <2>1. ~owned => ~Whole("link")
    BY <1>1 DEF OpermemInv, Bound, Working
  <2>2. process[Task].context \in Contexts /\ (Whole("link") => files["link"].holds \in Contexts)
        /\ (Whole("link") => process[Task].context = files["link"].holds)
    BY <1>1 DEF OpermemInv, Bound, Working, Stages, Early
  <2>3. Whole("link")' = Whole("link") /\ files' = files /\ owned' = owned
    BY <1>5 DEF Whole, given
  <2>4. stage \in Early \cup Unlinked => ~owned
    BY <1>3 DEF Early, Unlinked
  <2>5. stage \notin Working
    BY <1>3 DEF Working
  <2> QED BY <1>3, <1>6, <2>1, <2>2, <2>3, <2>4, <2>5 DEF Bound, Goes
<1>9. Judged'
  <2>1. verdict' = "accepted" => Identified'
    BY <1>1, <1>5 DEF OpermemInv, Judged, Identified
  <2>2. stage = "ending" \/ (stage = "writing link" /\ ~owned')
    BY <1>3, <1>5 DEF given
  <2> QED BY <1>6, <2>1, <2>2 DEF Judged, Goes, Late
<1>10. stage \notin Submitting \cup {"synchronizing"}
  BY <1>3 DEF Submitting
<1> QED BY <1>2, <1>5, <1>6, <1>7, <1>8, <1>9, <1>10, Toils DEF store

-----------------------------------------------------------------------------
(* Submission.                                                             *)

(* A busy process goes to another stage, and nothing else changes.         *)
LEMMA MovesOn ==
  ASSUME OpermemInv, NEW p \in Workers, NEW from \in Late, Is(p, from),
         NEW to \in Late \ {"ending"}, Enter(p, to),
         \/ to \notin Submitting \/ from \in Submitting
         \/ Earned /\ process[p].context = files["link"].holds,
         to \notin {"answered", "synchronizing"},
         Surroundings', Kept, SlotHolds, TellsNoMore,
         \A r \in requests' : r \in requests \/ Asks(r)'
  PROVE  OpermemInv'
<1>1. Goes(p, to)
  BY Enters DEF OpermemInv, Stages
<1>2. GoesOn
  <2>1. CASE p = Task
    <3>1. process[Task].context \in Contexts
          /\ (Whole("link") => process[Task].context = files["link"].holds)
      BY <2>1 DEF OpermemInv, Bound, Is, Stages, Early, Late, Submitting, Ending
    <3> QED BY <1>1, <2>1, <3>1 DEF GoesOn, Goes, Is
  <2>2. CASE p # Task
    BY <1>1, <2>2, TaskWorks DEF Goes, GoesOn
  <2> QED BY <2>1, <2>2
<1>3. Sound(p)'
  <2>1. Submits(p)'
    <3>1. to \in Submitting => Earned /\ process[p].context = files["link"].holds
      BY DEF OpermemInv, Submits, Is
    <3> QED BY <1>1, <3>1, StaysEarned DEF Submits, Goes
  <2> QED BY <1>1, <2>1 DEF Sound, Answered, Tells, Goes
<1>4. OpermemTypes'
  BY <1>1 DEF OpermemTypes, Goes
<1> QED BY <1>1, <1>2, <1>3, <1>4, Carries DEF Goes

(* A process takes on another state, or dies, and nothing else changes.    *)
LEMMA MovesTo ==
  ASSUME OpermemInv, NEW p \in Workers, NEW row \in Busy \cup {Away},
         process' = [process EXCEPT ![p] = row],
         row.stage \in (Late \ {"ending"}) \cup {"away"},
         row.stage = "away" \/ process[p].stage \in Late \cup {"away"},
         row.stage \in Submitting => Earned /\ row.context = files["link"].holds,
         p # Task \/ row.stage = "away" \/
           (row.context \in Contexts /\ (Whole("link") => row.context = files["link"].holds)),
         row.stage = "answered" /\ row.answer.accepted => Committed',
         row.stage = "synchronizing" /\ row.disposition = "complete" => Committed',
         Surroundings', Kept, SlotHolds, TellsNoMore,
         \A r \in requests' : r \in requests \/ Asks(r)'
  PROVE  OpermemInv'
<1>1. Becomes(p) /\ process'[p] = row
  BY TakesOn DEF OpermemInv
<1>2. GoesOn
  BY <1>1, TaskWorks DEF GoesOn, Becomes
<1>3. Sound(p)'
  BY <1>1, StaysEarned DEF Sound, Submits, Answered, Tells
<1>4. OpermemTypes'
  BY <1>1 DEF OpermemTypes, Becomes
<1> QED BY <1>1, <1>2, <1>3, <1>4, Carries DEF Becomes

(* Nothing but the processes changes.                                      *)
LEMMA Undisturbed ==
  ASSUME OpermemInv, UNCHANGED <<given, store, correspondence, files, cameTo>>
  PROVE  /\ Surroundings' /\ Kept /\ SlotHolds /\ TellsNoMore
         /\ requests' = requests /\ (Committed' <=> Committed)
BY DEF OpermemInv, OpermemTypes, Surroundings, Kept, SlotHolds, TellsNoMore, Whole,
   ReceiptEstablishes, Committed, Slot, given, store, cameTo

LEMMA EndTaskSound ==
  ASSUME OpermemInv, EndTask
  PROVE  OpermemInv'
<1> DEFINE Passes == verdict = "accepted" /\ Gate /\ EvidenceIsCurrent /\ ContributionIsFormed
<1>1. Is(Task, "ending") /\ UNCHANGED <<given, store, correspondence, files, cameTo>>
  BY DEF EndTask
<1>2. CASE Passes
  <2>1. Earned /\ process[Task].context = files["link"].holds
    <3>1. Whole("link")
      BY <1>1, <1>2 DEF OpermemInv, Bound, Is, Gate, RunIsOwned
    <3>2. process[Task].context = files["link"].holds
      BY <1>1, <3>1 DEF OpermemInv, Bound, Is, Stages, Late
    <3> QED BY <1>2, <3>1, <3>2 DEF OpermemInv, Judged, Earned
  <2>2. Enter(Task, "rereading")
    BY <1>2 DEF EndTask
  <2> QED BY <1>1, <2>1, <2>2, TaskWorks, Undisturbed, MovesOn DEF Late, Submitting
<1>3. CASE ~Passes
  <2>1. Enter(Task, "reporting")
    BY <1>3 DEF EndTask
  <2>2. "ending" \in Late /\ "reporting" \in Late \ {"ending"} /\ "reporting" \notin Submitting
        /\ "reporting" \notin {"answered", "synchronizing"}
    BY DEF Late, Submitting, Ending
  <2> QED BY <1>1, <2>1, <2>2, TaskWorks, Undisturbed, MovesOn
<1> QED BY <1>2, <1>3

(* The state of a process that submits.                                    *)
LEMMA Submitter ==
  ASSUME OpermemInv, NEW p \in Workers, process[p].stage \in Submitting
  PROVE  /\ process[p] \in Busy /\ Earned /\ process[p].context = files["link"].holds
         /\ process[p].context \in Contexts /\ Whole("link")
<1>1. Earned /\ process[p].context = files["link"].holds
  BY DEF OpermemInv, Submits
<1>2. process[p] \in Busy
  <2>1. Away.stage = "away" /\ "away" \notin Submitting
    BY DEF Away, Submitting
  <2> QED BY <2>1 DEF OpermemInv, OpermemTypes
<1>3. process[p].context \in Contexts
  BY <1>1 DEF OpermemInv, Bound, Earned
<1> QED BY <1>1, <1>2, <1>3 DEF Earned

LEMMA RereadContextSound ==
  ASSUME OpermemInv, RereadContext
  PROVE  OpermemInv'
<1>1. /\ process[Task].stage = "rereading"
      /\ UNCHANGED <<given, store, correspondence, files, cameTo>>
  BY DEF RereadContext, Is
<1>2. /\ process[Task] \in Busy /\ Earned /\ process[Task].context = files["link"].holds
      /\ process[Task].context \in Contexts
  BY <1>1, TaskWorks, Submitter DEF Submitting
<1>3. CASE SameContext(Task) /\ EvidenceIsCurrent
  <2> DEFINE row == [process[Task] EXCEPT !.stage = "writing pending", !.context = NativeContext]
  <2>1. NativeContext = process[Task].context
    BY <1>3 DEF SameContext
  <2>2. row \in Busy /\ row.stage = "writing pending" /\ row.context = process[Task].context
    BY <1>2, <2>1 DEF Busy, Stages, Late, Submitting
  <2>3. process' = [process EXCEPT ![Task] = row]
    BY <1>3 DEF RereadContext
  <2> HIDE DEF row
  <2> QED
    BY <1>1, <1>2, <2>2, <2>3, TaskWorks, Undisturbed, MovesTo DEF Late, Submitting
<1>4. CASE ~(SameContext(Task) /\ EvidenceIsCurrent)
  <2> DEFINE row == [process[Task] EXCEPT !.stage = "failed"]
  <2>1. row \in Busy /\ row.stage = "failed" /\ row.context = process[Task].context
    BY <1>2 DEF Busy, Stages, Late, Ending
  <2>2. process' = [process EXCEPT ![Task] = row]
    BY <1>4 DEF RereadContext
  <2> HIDE DEF row
  <2> QED
    BY <1>1, <1>2, <2>1, <2>2, TaskWorks, Undisturbed, MovesTo DEF Late, Submitting, Ending
<1> QED BY <1>3, <1>4

(* Only the command on disk changes.                                       *)
PendingWritten ==
  files' \in [RunFiles -> Filed] /\ \A f \in RunFiles \ {"pending"} : files'[f] = files[f]

LEMMA PendingIsApart ==
  ASSUME OpermemInv, NEW content \in Holdings, Put("pending", content)
  PROVE  PendingWritten
BY Puts DEF OpermemInv, PendingWritten, RunFiles

LEMMA PendingAlone ==
  ASSUME OpermemInv, PendingWritten, UNCHANGED <<given, store, correspondence, cameTo>>
  PROVE  Surroundings' /\ Kept /\ SlotHolds /\ TellsNoMore /\ requests' = requests
<1>1. /\ files'["link"] = files["link"] /\ files'["report"] = files["report"]
      /\ files'["scope"] = files["scope"] /\ files'["preparation"] = files["preparation"]
      /\ files'["receipt"] = files["receipt"]
  BY DEF PendingWritten, RunFiles
<1> QED
  BY <1>1 DEF OpermemInv, OpermemTypes, Surroundings, PendingWritten, Kept, SlotHolds, TellsNoMore,
     Whole, ReceiptEstablishes, given, store, cameTo

(* The command is kept before it is sent.                                  *)
LEMMA WritePendingSound ==
  ASSUME OpermemInv, NEW p \in Workers, WritePending(p)
  PROVE  OpermemInv'
<1>1. /\ Is(p, "writing pending") /\ process[p].stage \in Submitting
      /\ "writing pending" \in Late /\ "sending" \in Late /\ "failed" \in Late
      /\ "failed" \notin Submitting
      /\ UNCHANGED <<given, store, correspondence, cameTo, resumptions>>
  BY DEF WritePending, Is, Late, Submitting, Ending
<1>2. CASE Absent("pending")
  <2>1. Put("pending", process[p].context) /\ Enter(p, "sending")
    BY <1>2 DEF WritePending
  <2>2. PendingWritten
    BY <1>1, <2>1, Submitter, PendingIsApart DEF Holdings
  <2> QED BY <1>1, <2>1, <2>2, PendingAlone, MovesOn DEF Submitting
<1>3. CASE ~Absent("pending")
  <2>1. UNCHANGED files /\ Enter(p, "failed")
    BY <1>3 DEF WritePending
  <2> QED BY <1>1, <2>1, Undisturbed, MovesOn
<1> QED BY <1>2, <1>3

(* The command is sent.                                                    *)
LEMMA SendSound ==
  ASSUME OpermemInv, NEW p \in Workers, Send(p)
  PROVE  OpermemInv'
<1>1. /\ Is(p, "sending") /\ process[p].stage \in Submitting
      /\ "sending" \in Late /\ "awaiting" \in Late /\ Enter(p, "awaiting")
      /\ requests' = requests \union {CommandFor(p)}
      /\ UNCHANGED <<given, native, commits, correspondence, files, cameTo, resumptions>>
  BY DEF Send, Is, Late, Submitting
<1>2. /\ Earned /\ process[p].context = files["link"].holds /\ process[p].context \in Contexts
  BY <1>1, Submitter
<1>3. CommandFor(p) \in [by : Workers, version : Nat]
      /\ CommandFor(p).version = files["link"].holds.version
  BY <1>2 DEF CommandFor, Contexts
<1>4. Surroundings' /\ Kept /\ SlotHolds /\ TellsNoMore
  BY <1>1, <1>3 DEF OpermemInv, OpermemTypes, Surroundings, Kept, SlotHolds, TellsNoMore, Whole,
     ReceiptEstablishes, Committed, Slot, given, cameTo
<1>5. \A r \in requests' : r \in requests \/ Asks(r)'
  <2>1. Earned' /\ files' = files
    BY <1>1, <1>2, <1>4, StaysEarned
  <2> QED BY <1>1, <1>3, <2>1 DEF Asks
<1> QED BY <1>1, <1>2, <1>4, <1>5, MovesOn

LEMMA LoseAnswerSound ==
  ASSUME OpermemInv, NEW p \in Workers, LoseAnswer(p)
  PROVE  OpermemInv'
<1>1. /\ Is(p, "awaiting") /\ "awaiting" \in Late /\ Enter(p, "failed")
      /\ "failed" \in Late \ {"ending"} /\ "failed" \notin Submitting
      /\ "failed" \notin {"answered", "synchronizing"}
      /\ requests' \subseteq requests
      /\ UNCHANGED <<given, native, commits, correspondence, files, cameTo, resumptions>>
  BY DEF LoseAnswer, Late, Submitting, Ending
<1>2. Surroundings' /\ Kept /\ SlotHolds /\ TellsNoMore
  BY <1>1 DEF OpermemInv, OpermemTypes, Surroundings, Kept, SlotHolds, TellsNoMore, Whole,
     ReceiptEstablishes, Committed, Slot, given, cameTo
<1> QED BY <1>1, <1>2, MovesOn

(* What the answer says is written as the receipt.                         *)
LEMMA WriteReceiptSound ==
  ASSUME OpermemInv, NEW p \in Workers, WriteReceipt(p)
  PROVE  OpermemInv'
<1>1. /\ Is(p, "answered") /\ process[p].stage \in Submitting
      /\ "answered" \in Late /\ "retaining" \in Late /\ "failed" \in Late
      /\ "failed" \notin Submitting
      /\ UNCHANGED <<given, store, correspondence, cameTo, resumptions>>
  BY DEF WriteReceipt, Is, Late, Submitting, Ending
<1>2. CASE AnswerIsExpected(p)
  <2>1. Put("receipt", process[p].answer) /\ Enter(p, "retaining")
    BY <1>2 DEF WriteReceipt
  <2>2. process[p].answer \in Holdings
    BY <1>1, Submitter DEF Busy, Holdings
  <2>3. /\ files' \in [RunFiles -> Filed]
        /\ files'["receipt"] = [state |-> "whole", holds |-> process[p].answer]
        /\ \A g \in RunFiles \ {"receipt"} : files'[g] = files[g]
    BY <2>1, <2>2, Puts DEF OpermemInv, RunFiles
  <2>4. Surroundings' /\ Kept /\ SlotHolds
    BY <1>1, <2>3 DEF OpermemInv, OpermemTypes, Surroundings, Kept, SlotHolds, Whole, RunFiles,
       given, store, cameTo
  <2>5. TellsNoMore
    <3>1. process[p].answer.accepted => Committed
      BY <1>1 DEF OpermemInv, Answered, Is
    <3>2. ReceiptEstablishes' => process[p].answer.accepted
      BY <2>3 DEF ReceiptEstablishes
    <3> QED BY <1>1, <3>1, <3>2 DEF TellsNoMore, cameTo
  <2> QED BY <1>1, <2>1, <2>4, <2>5, MovesOn DEF store, Submitting
<1>3. CASE ~AnswerIsExpected(p)
  <2>1. UNCHANGED files /\ Enter(p, "failed")
    BY <1>3 DEF WriteReceipt
  <2> QED BY <1>1, <2>1, Undisturbed, MovesOn
<1> QED BY <1>2, <1>3

(* A process is gone.                                                      *)
LEMMA Leaves ==
  ASSUME OpermemInv, NEW p \in Workers, process' = [process EXCEPT ![p] = Away],
         Surroundings', Kept, SlotHolds, TellsNoMore, requests' = requests
  PROVE  OpermemInv'
<1>1. Away.stage = "away" /\ "away" \notin Submitting
  BY DEF Away, Submitting
<1> QED BY <1>1, MovesTo

(* The receipt of an owned run is recorded only if it is the slot's.       *)
LEMMA RetainReceiptSound ==
  ASSUME OpermemInv, NEW p \in Workers, RetainReceipt(p)
  PROVE  OpermemInv'
<1>1. /\ Is(p, "retaining") /\ process[p].stage \in Submitting
      /\ "retaining" \in Late /\ "reporting" \in Late /\ "reporting" \notin Submitting
      /\ UNCHANGED <<given, store, files, cameTo, resumptions>>
  BY DEF RetainReceipt, Is, Late, Submitting, Ending
<1> DEFINE Retains == Gate /\ Whole("receipt") /\ ("native-receipt" \in correspondence \/ Committed)
<1>2. CASE ~owned
  <2>1. UNCHANGED correspondence /\ Enter(p, "reporting")
    BY <1>2 DEF RetainReceipt
  <2> QED BY <1>1, <2>1, Undisturbed, MovesOn
<1>3. CASE owned /\ Retains
  <2>1. Establish("native-receipt") /\ Enter(p, "reporting")
    BY <1>3 DEF RetainReceipt
  <2>2. "native-receipt" \in correspondence \/ Committed
    BY <1>3
  <2> HIDE DEF Retains
  <2>3. Surroundings' /\ Kept /\ SlotHolds /\ TellsNoMore
    BY <1>1, <2>1, <2>2
    DEF OpermemInv, OpermemTypes, Surroundings, Establish, Kept, SlotHolds, TellsNoMore, Whole,
        ReceiptEstablishes, Committed, Slot, given, store, cameTo
  <2> QED BY <1>1, <2>1, <2>3, MovesOn DEF store
<1>4. CASE owned /\ ~Retains
  <2>1. UNCHANGED correspondence /\ process' = [process EXCEPT ![p] = Away]
    BY <1>4 DEF RetainReceipt
  <2> HIDE DEF Retains
  <2> QED BY <1>1, <2>1, Undisturbed, Leaves
<1> QED BY <1>2, <1>3, <1>4

LEMMA FailSubmissionSound ==
  ASSUME OpermemInv, NEW p \in Workers, FailSubmission(p)
  PROVE  OpermemInv'
<1>1. /\ Is(p, "failed") /\ "failed" \in Late
      /\ "reporting" \in Late \ {"ending"} /\ "reporting" \notin Submitting
      /\ "reporting" \notin {"answered", "synchronizing"}
      /\ UNCHANGED <<given, store, correspondence, files, cameTo, resumptions>>
  BY DEF FailSubmission, Late, Submitting, Ending
<1>2. CASE p = Task
  <2>1. Enter(p, "reporting")
    BY <1>2 DEF FailSubmission
  <2> QED BY <1>1, <2>1, Undisturbed, MovesOn
<1>3. CASE p # Task
  <2>1. process' = [process EXCEPT ![p] = Away]
    BY <1>3 DEF FailSubmission
  <2> QED BY <1>1, <2>1, Undisturbed, Leaves
<1> QED BY <1>2, <1>3

(* What the run came to is read, and told.                                 *)
LEMMA ReadDispositionSound ==
  ASSUME OpermemInv, NEW p \in Workers, ReadDisposition(p)
  PROVE  OpermemInv'
<1>1. /\ process[p].stage = "reporting" /\ "reporting" \in Late
      /\ UNCHANGED <<given, store, correspondence, files, cameTo, resumptions>>
  BY DEF ReadDisposition, Is, Late, Ending
<1> DEFINE row == [process[p] EXCEPT !.stage = "synchronizing", !.disposition = Disposition]
<1>2. process[p] \in Busy
  <2>1. process[p] # Away
    BY <1>1 DEF Away
  <2> QED BY <2>1 DEF OpermemInv, OpermemTypes
<1>3. Disposition \in Dispositions /\ (Disposition = "complete" => Committed)
  <2>1. Disposition = "complete" => ReceiptEstablishes
    BY DEF Disposition
  <2>2. Disposition \in {"error", "complete", "active"}
    BY DEF Disposition
  <2> QED BY <2>1, <2>2 DEF OpermemInv, Told, Dispositions
<1>4. row \in Busy /\ row.stage = "synchronizing" /\ row.context = process[p].context
      /\ row.disposition = Disposition
  BY <1>2, <1>3 DEF Busy, Stages, Late, Ending
<1>5. process' = [process EXCEPT ![p] = row]
  BY DEF ReadDisposition
<1> HIDE DEF row
<1>6. p = Task => process[p].context \in Contexts
                  /\ (Whole("link") => process[p].context = files["link"].holds)
  BY <1>1 DEF OpermemInv, Bound, Stages, Early, Late, Ending
<1>7. "synchronizing" \in Late \ {"ending"} /\ "synchronizing" \notin Submitting
  BY DEF Late, Ending, Submitting
<1> QED
  BY <1>1, <1>3, <1>4, <1>5, <1>6, <1>7, Undisturbed, MovesTo

LEMMA SyncTelosSound ==
  ASSUME OpermemInv, NEW p \in Workers, SyncTelos(p)
  PROVE  OpermemInv'
<1>1. /\ process[p].stage = "synchronizing" /\ telos' = process[p].disposition
      /\ process' = [process EXCEPT ![p] = Away]
      /\ UNCHANGED <<given, store, correspondence, files, verdict, identity, resumptions>>
  BY DEF SyncTelos, Is
<1>2. telos' = "complete" => Committed
  BY <1>1 DEF OpermemInv, Tells
<1>3. Surroundings' /\ Kept /\ SlotHolds /\ TellsNoMore
  BY <1>1, <1>2
  DEF OpermemInv, OpermemTypes, Surroundings, Kept, SlotHolds, TellsNoMore, Whole,
      ReceiptEstablishes, Committed, Slot, given, store
<1> QED BY <1>1, <1>3, Leaves DEF store

-----------------------------------------------------------------------------
(* Resumption.                                                             *)

(* A resumer takes an accepted run up with the context of its link.        *)
LEMMA ResumeSound ==
  ASSUME OpermemInv, NEW p \in Workers, Resume(p)
  PROVE  OpermemInv'
<1> DEFINE stage == IF ~Absent("receipt") THEN "retaining"
                    ELSE IF Absent("pending") THEN "rewriting" ELSE "looking"
           row == [Worker(stage) EXCEPT !.context = files["link"].holds]
<1>1. /\ process[p].stage = "away" /\ Whole("link") /\ Gate /\ verdict = "accepted"
      /\ ContributionIsFormed /\ process' = [process EXCEPT ![p] = row]
      /\ UNCHANGED <<given, store, correspondence, files, cameTo>>
  BY DEF Resume, Is
<1>2. Earned /\ files["link"].holds \in Contexts
  BY <1>1 DEF OpermemInv, Judged, Bound, Earned
<1>3. stage \in {"retaining", "rewriting", "looking"}
  OBVIOUS
<1> HIDE DEF stage
<1> DEFINE base == Worker(stage)
<1>4. stage \in Stages /\ Nothing \in Dispositions
  BY <1>3 DEF Stages, Late, Submitting, Dispositions
<1>5. base \in Busy /\ base.stage = stage
  BY <1>4 DEF Worker, Busy
<1> HIDE DEF base
<1>6. row \in Busy /\ row.stage = stage /\ row.context = files["link"].holds
  <2>1. row = [base EXCEPT !.context = files["link"].holds]
    BY DEF base
  <2> QED BY <1>2, <1>5, <2>1 DEF Busy
<1> HIDE DEF row
<1>7. stage \in Late \ {"ending"} /\ stage \notin {"answered", "synchronizing"}
  BY <1>3 DEF Late, Submitting
<1> QED BY <1>1, <1>2, <1>6, <1>7, Undisturbed, MovesTo

LEMMA RewritePendingSound ==
  ASSUME OpermemInv, NEW p \in Workers, RewritePending(p)
  PROVE  OpermemInv'
<1>1. /\ Is(p, "rewriting") /\ process[p].stage \in Submitting
      /\ "rewriting" \in Submitting /\ "looking" \in Late \ {"ending"}
      /\ "rewriting" \in Late /\ "failed" \in Late \ {"ending"}
      /\ "failed" \notin Submitting /\ "looking" \notin {"answered", "synchronizing"}
      /\ UNCHANGED <<given, store, correspondence, cameTo, resumptions>>
  BY DEF RewritePending, Is, Late, Submitting, Ending
<1>2. CASE Absent("pending")
  <2>1. Put("pending", process[p].context) /\ Enter(p, "looking")
    BY <1>2 DEF RewritePending, Absent, Torn
  <2>2. PendingWritten
    BY <1>1, <2>1, Submitter, PendingIsApart DEF Holdings
  <2> QED BY <1>1, <2>1, <2>2, PendingAlone, MovesOn
<1>3. CASE Torn("pending")
  <2>1. UNCHANGED files /\ Enter(p, "failed")
    BY <1>3 DEF RewritePending, Absent, Torn
  <2> QED BY <1>1, <2>1, Undisturbed, MovesOn
<1>4. CASE ~Absent("pending") /\ ~Torn("pending")
  <2>1. UNCHANGED files /\ Enter(p, "looking")
    BY <1>4 DEF RewritePending
  <2> QED BY <1>1, <2>1, Undisturbed, MovesOn
<1> QED BY <1>2, <1>3, <1>4

(* A submitter takes another state of submitting, with its context.        *)
LEMMA StillSubmits ==
  ASSUME OpermemInv, NEW p \in Workers, process[p].stage \in Submitting, NEW row \in Busy,
         process' = [process EXCEPT ![p] = row], row.context = process[p].context,
         row.stage \in (Submitting \ {"answered"}) \cup {"failed"},
         UNCHANGED <<given, store, correspondence, files, cameTo>>
  PROVE  OpermemInv'
<1>1. /\ Earned /\ process[p].context = files["link"].holds
      /\ process[p].context \in Contexts
  BY Submitter
<1>2. /\ row.stage \in Late \ {"ending"} /\ process[p].stage \in Late
      /\ row.stage \notin {"answered", "synchronizing"}
  BY DEF Late, Submitting, Ending
<1> QED BY <1>1, <1>2, Undisturbed, MovesTo

LEMMA LookForDepositSound ==
  ASSUME OpermemInv, NEW p \in Workers, LookForDeposit(p)
  PROVE  OpermemInv'
<1> DEFINE known == kind = "superseding" /\ Committed
           row == [process[p] EXCEPT !.stage = IF known THEN "sending" ELSE "comparing",
                                     !.committed = known]
<1>1. /\ process[p].stage \in Submitting /\ process' = [process EXCEPT ![p] = row]
      /\ UNCHANGED <<given, store, correspondence, files, cameTo>>
  BY DEF LookForDeposit, Is, Submitting
<1>2. known \in BOOLEAN
  OBVIOUS
<1> HIDE DEF known
<1>3. row \in Busy /\ row.stage \in {"sending", "comparing"} /\ row.context = process[p].context
  BY <1>1, <1>2, Submitter DEF Busy, Stages, Late, Submitting
<1> HIDE DEF row
<1> QED BY <1>1, <1>3, StillSubmits DEF Submitting

LEMMA CompareContextSound ==
  ASSUME OpermemInv, NEW p \in Workers, CompareContext(p)
  PROVE  OpermemInv'
<1>1. /\ process[p].stage \in Submitting
      /\ UNCHANGED <<given, store, correspondence, files, cameTo>>
  BY DEF CompareContext, Is, Submitting
<1>2. PICK row \in {[process[p] EXCEPT !.stage = "sending"],
                    [process[p] EXCEPT !.stage = "sending", !.committed = TRUE],
                    [process[p] EXCEPT !.stage = "failed"]} :
        process' = [process EXCEPT ![p] = row]
  BY DEF CompareContext
<1>3. row \in Busy /\ row.stage \in {"sending", "failed"} /\ row.context = process[p].context
  BY <1>1, <1>2, Submitter DEF Busy, Stages, Late, Submitting, Ending
<1> QED BY <1>1, <1>2, <1>3, StillSubmits DEF Submitting

-----------------------------------------------------------------------------
(* Deaths, the host and the others.                                        *)
LEMMA WorkerDiesSound ==
  ASSUME OpermemInv, NEW p \in Workers, WorkerDies(p)
  PROVE  OpermemInv'
<1>1. /\ process' = [process EXCEPT ![p] = Away]
      /\ UNCHANGED <<given, store, correspondence, cameTo, resumptions>>
  BY DEF WorkerDies
<1>2. CASE UNCHANGED files
  BY <1>1, <1>2, Undisturbed, Leaves
<1>3. CASE \E f \in Written(process[p].stage) : Absent(f) /\ Tear(f)
  <2>1. PICK f \in Written(process[p].stage) : Absent(f) /\ Tear(f)
    BY <1>3
  <2>2. [state |-> "torn", holds |-> Nothing] \in Filed
    BY DEF Filed, Holdings
  <2>3. files' \in [RunFiles -> Filed]
    BY <2>1, <2>2 DEF Tear, OpermemInv, OpermemTypes, Surroundings
  <2>4. \A g \in RunFiles : files'[g] = files[g] \/ ~(Whole(g) \/ Whole(g)')
    BY <2>1 DEF Tear, Absent, Whole, OpermemInv, OpermemTypes, Surroundings
  <2>5. Kept
    BY <1>1, <2>4 DEF Kept, RunFiles, Whole, given, cameTo
  <2>6. TellsNoMore
    BY <1>1, <2>4 DEF TellsNoMore, ReceiptEstablishes, RunFiles, Whole, cameTo
  <2>7. Surroundings' /\ SlotHolds /\ requests' = requests
    BY <1>1, <2>3 DEF OpermemInv, OpermemTypes, Surroundings, SlotHolds, given, store, cameTo
  <2> QED BY <1>1, <2>5, <2>6, <2>7, Leaves
<1> QED BY <1>2, <1>3 DEF WorkerDies

(* Nothing but the store changes.                                          *)
LEMMA OutOfReach ==
  ASSUME OpermemInv, native' \in Natives, requests' \subseteq requests, native'.slot = native.slot,
         UNCHANGED <<given, correspondence, files, cameTo, process>>
  PROVE  OpermemInv'
<1>1. OpermemTypes' /\ Kept /\ GoesOn /\ SlotHolds /\ TellsNoMore
  BY DEF OpermemInv, OpermemTypes, Surroundings, Kept, GoesOn, SlotHolds, TellsNoMore, Whole,
     ReceiptEstablishes, given, cameTo
<1> QED BY <1>1, Carries

LEMMA HostEndsSound ==
  ASSUME OpermemInv, NEW request \in requests, HostEnds(request)
  PROVE  OpermemInv'
BY OutOfReach DEF HostEnds, OpermemInv, OpermemTypes, Surroundings

LEMMA OtherDepositSound ==
  ASSUME OpermemInv, OtherDeposit
  PROVE  OpermemInv'
<1> DEFINE Moved == {[native EXCEPT !.cut = @ + 1],
                     [native EXCEPT !.cut = @ + 1, !.version = @ + 1],
                     [native EXCEPT !.cut = @ + 1, !.current = FALSE]}
<1>1. native' \in Natives /\ native'.slot = native.slot
  <2>1. native \in Natives
    BY DEF OpermemInv, OpermemTypes, Surroundings
  <2>2. \A moved \in Moved : moved \in Natives /\ moved.slot = native.slot
    <3>1. native.cut + 1 \in Nat /\ native.version + 1 \in Nat
      BY <2>1 DEF Natives
    <3> DEFINE cut == native.cut + 1
               version == native.version + 1
    <3>2. Moved = {[native EXCEPT !.cut = cut],
                   [native EXCEPT !.cut = cut, !.version = version],
                   [native EXCEPT !.cut = cut, !.current = FALSE]}
      OBVIOUS
    <3> HIDE DEF cut, version, Moved
    <3> QED BY <2>1, <3>1, <3>2 DEF Natives, cut, version
  <2>3. native' \in Moved
    BY DEF OtherDeposit
  <2> QED BY <2>2, <2>3
<1> QED BY <1>1, OutOfReach DEF OtherDeposit

LEMMA EditSourcesSound ==
  ASSUME OpermemInv, EditSources
  PROVE  OpermemInv'
<1>1. /\ Put("evidence", [current |-> FALSE])
      /\ UNCHANGED <<given, store, correspondence, cameTo, process, resumptions>>
  BY DEF EditSources
<1>2. /\ files' \in [RunFiles -> Filed]
      /\ \A g \in RunFiles \ {"evidence"} : files'[g] = files[g]
  BY <1>1, Puts DEF OpermemInv, RunFiles, Holdings
<1>3. OpermemTypes'
  BY <1>1, <1>2 DEF OpermemInv, OpermemTypes, Surroundings, given, store, cameTo
<1>4. Kept /\ GoesOn /\ SlotHolds /\ TellsNoMore
  BY <1>1, <1>2 DEF Kept, GoesOn, SlotHolds, TellsNoMore, Whole, RunFiles, ReceiptEstablishes,
     given, store, cameTo
<1> QED BY <1>1, <1>3, <1>4, Carries DEF store

(* A handled command ends the wait for its answer, if it is waited for.    *)
LEMMA EndsTheWait ==
  ASSUME OpermemInv, NEW p \in Workers, NEW row \in Busy \cup {Away},
         process' = [process EXCEPT ![p] = row],
         row = process[p] \/ /\ process[p].stage = "awaiting" /\ row \in Busy
                             /\ row.context = process[p].context
                             /\ \/ row.stage = "failed"
                                \/ row.stage = "answered" /\ (row.answer.accepted => Committed'),
         requests' \subseteq requests, native' \in Natives, SlotHolds,
         UNCHANGED <<given, correspondence, files, cameTo>>
  PROVE  OpermemInv'
<1>1. Surroundings' /\ Kept /\ TellsNoMore
  BY DEF OpermemInv, OpermemTypes, Surroundings, Kept, TellsNoMore, Whole, ReceiptEstablishes,
     given, cameTo
<1>2. CASE row = process[p]
  <2>1. UNCHANGED process
    BY <1>2 DEF OpermemInv, OpermemTypes
  <2>2. OpermemTypes' /\ GoesOn
    BY <1>1, <2>1 DEF OpermemInv, OpermemTypes, GoesOn
  <2> QED BY <1>1, <2>1, <2>2, Carries
<1>3. CASE row # process[p]
  <2>1. process[p].stage = "awaiting" /\ "awaiting" \in Submitting /\ "awaiting" \in Late
    BY <1>3 DEF Submitting, Late
  <2>2. /\ Earned /\ row.context = files["link"].holds /\ row.context \in Contexts
        /\ row.stage \in {"failed", "answered"}
        /\ row.stage = "answered" /\ row.answer.accepted => Committed'
    BY <1>3, <2>1, Submitter
  <2>3. row.stage \in Late \ {"ending"} /\ row.stage # "synchronizing"
    BY <2>2 DEF Late, Submitting, Ending
  <2> QED BY <1>1, <2>1, <2>2, <2>3, MovesTo
<1> QED BY <1>2, <1>3

LEMMA HandleSound ==
  ASSUME OpermemInv, NEW request \in requests, Handle(request)
  PROVE  OpermemInv'
<1> DEFINE p == request.by
           Row(to) == IF process[p].stage = "awaiting" THEN to ELSE process[p]
           Told1(class, is) == [process[p] EXCEPT !.stage = "answered",
                                  !.answer = [class |-> class, accepted |-> is]]
<1>1. /\ p \in Workers /\ Earned /\ request.version = files["link"].holds.version
      /\ request.version \in Nat
      /\ requests' = requests \ {request}
      /\ UNCHANGED <<given, correspondence, files, cameTo, commits, resumptions>>
  BY DEF Handle, OpermemInv, OpermemTypes, Surroundings, Asks
<1>2. process[p] \in Busy \cup {Away} /\ (process[p].stage = "awaiting" => process[p] \in Busy)
  <2>1. Away.stage # "awaiting"
    BY DEF Away
  <2> QED BY <1>1, <2>1 DEF OpermemInv, OpermemTypes
<1>3. ASSUME NEW class \in {"replay", "success"}, NEW is \in BOOLEAN, is => Committed',
             process' = [process EXCEPT ![p] = Row(Told1(class, is))],
             native' \in Natives, SlotHolds
      PROVE  OpermemInv'
  <2> DEFINE row == Row(Told1(class, is))
             reply == [class |-> class, accepted |-> is]
  <2>1. reply \in OpermemAnswers /\ reply.accepted = is
    BY DEF OpermemAnswers
  <2> HIDE DEF reply
  <2>2. process[p].stage = "awaiting" =>
          row \in Busy /\ row.context = process[p].context /\ row.stage = "answered" /\ row.answer = reply
    BY <1>2, <2>1 DEF reply, Busy, Stages, Late, Submitting
  <2>3. process[p].stage # "awaiting" => row = process[p]
    OBVIOUS
  <2>4. process' = [process EXCEPT ![p] = row]
    BY <1>3
  <2> HIDE DEF row
  <2> QED BY <1>1, <1>2, <1>3, <2>1, <2>2, <2>3, <2>4, EndsTheWait
<1>4. CASE Slot.outcome # "none" /\ UNCHANGED native
           /\ process' = [process EXCEPT ![p] = Row(Told1("replay", Committed))]
  <2>1. native' \in Natives /\ SlotHolds /\ (Committed => Committed') /\ Committed \in BOOLEAN
    BY <1>4 DEF OpermemInv, OpermemTypes, Surroundings, SlotHolds, Committed, Slot
  <2> QED BY <1>3, <1>4, <2>1
<1>5. CASE /\ Slot.outcome = "none"
           /\ native' = [native EXCEPT !.slot = [outcome |-> "accepted", version |-> request.version],
                                       !.cut = @ + 1, !.current = kind # "superseding"]
           /\ process' = [process EXCEPT ![p] = Row(Told1("success", TRUE))]
  <2>1. native' \in Natives /\ native'.slot = [outcome |-> "accepted", version |-> request.version]
    <3> DEFINE taken == [outcome |-> "accepted", version |-> request.version]
               live == kind # "superseding"
    <3>1. taken \in Slots /\ live \in BOOLEAN
      BY <1>1 DEF Slots
    <3>2. native' = [native EXCEPT !.slot = taken, !.cut = @ + 1, !.current = live]
      BY <1>5
    <3>3. native \in Natives
      BY DEF OpermemInv, OpermemTypes, Surroundings
    <3> DEFINE cut == native.cut + 1
    <3>4. cut \in Nat
      BY <3>3 DEF Natives
    <3>5. native' = [native EXCEPT !.slot = taken, !.cut = cut, !.current = live]
      BY <3>2
    <3> HIDE DEF taken, live, cut
    <3>6. native' \in Natives /\ native'.slot = taken
      BY <3>1, <3>3, <3>4, <3>5 DEF Natives
    <3> QED BY <3>6 DEF taken
  <2>2. Committed' /\ SlotHolds
    BY <1>1, <1>5, <2>1 DEF SlotHolds, Committed, Slot
  <2> QED BY <1>3, <1>5, <2>1, <2>2
<1>6. CASE /\ Slot.outcome = "none"
           /\ native' \in {native, [native EXCEPT !.slot = [outcome |-> "rejected",
                                                          version |-> request.version]]}
           /\ process' = [process EXCEPT ![p] = Row([process[p] EXCEPT !.stage = "failed"])]
  <2>1. native' \in Natives
    BY <1>1, <1>6 DEF OpermemInv, OpermemTypes, Surroundings, Natives, Slots
  <2>2. SlotHolds
    BY <1>1, <1>6 DEF OpermemInv, OpermemTypes, Surroundings, Natives, Slots, SlotHolds, Committed, Slot
  <2> DEFINE row == Row([process[p] EXCEPT !.stage = "failed"])
  <2>3. process[p].stage = "awaiting" =>
          row \in Busy /\ row.context = process[p].context /\ row.stage = "failed"
    BY <1>2 DEF Busy, Stages, Late, Ending
  <2>4. process[p].stage # "awaiting" => row = process[p]
    OBVIOUS
  <2>5. process' = [process EXCEPT ![p] = row]
    BY <1>6
  <2> HIDE DEF row
  <2> QED BY <1>1, <1>2, <2>1, <2>2, <2>3, <2>4, <2>5, EndsTheWait
<1> QED
  BY <1>4, <1>5, <1>6 DEF Handle

LEMMA StutterSound ==
  ASSUME OpermemInv, UNCHANGED opermemVars
  PROVE  OpermemInv'
BY OutOfReach DEF OpermemInv, OpermemTypes, Surroundings, opermemVars, given, store, cameTo

-----------------------------------------------------------------------------
LEMMA OpermemInitSound == OpermemInit => OpermemInv
<1> SUFFICES ASSUME OpermemInit PROVE OpermemInv
  OBVIOUS
<1> DEFINE first == Worker("preparing")
<1>1. first = [stage |-> "preparing", context |-> Nothing, committed |-> FALSE,
               answer |-> Nothing, disposition |-> Nothing]
  BY DEF Worker
<1> HIDE DEF first
<1>2. first \in Busy /\ first.stage = "preparing"
  BY <1>1 DEF Busy, Stages, Early, Dispositions
<1>3. process = [p \in Workers |-> IF p = Task THEN first ELSE Away]
  BY DEF OpermemInit, first
<1>4. process \in [Workers -> Busy \cup {Away}] /\ process[Task].stage = "preparing"
  BY <1>2, <1>3, TaskWorks
<1>5. \A p \in Workers : process[p].stage \in {"preparing", "away"}
  <2>1. Away.stage = "away"
    BY DEF Away
  <2> QED BY <1>2, <1>3, <2>1
<1>6. \A f \in RunFiles : files[f] = [state |-> "absent", holds |-> Nothing]
  BY DEF OpermemInit
<1>7. ~Whole("link") /\ ~ReceiptEstablishes
  BY <1>6 DEF Whole, ReceiptEstablishes, RunFiles
<1>8. Surroundings
  <2>1. files \in [RunFiles -> Filed]
    BY DEF OpermemInit, Filed, Holdings
  <2>2. native \in Natives
    BY DEF OpermemInit, Natives, Slots, NoSlot
  <2>3. identity \in [Steps -> SessionNames]
    BY DEF OpermemInit, SessionNames
  <2> QED BY <2>1, <2>2, <2>3 DEF OpermemInit, Surroundings
<1>9. Bound /\ Judged
  <2>1. "preparing" \notin Stages \ Early /\ "preparing" # "judging" /\ verdict # "accepted"
    BY DEF OpermemInit, Early
  <2> QED BY <1>4, <1>7, <2>1 DEF Bound, Judged
<1>10. \A p \in Workers : Submits(p) /\ Answered(p) /\ Tells(p)
  BY <1>5 DEF Submits, Answered, Tells, Submitting
<1>11. requests = {} /\ ~Committed /\ Told
  BY <1>7 DEF OpermemInit, Committed, Slot, NoSlot, Told
<1> QED BY <1>4, <1>8, <1>9, <1>10, <1>11 DEF OpermemInv, OpermemTypes, Deposited

LEMMA OpermemNextSound ==
  ASSUME OpermemInv, OpermemNext
  PROVE  OpermemInv'
<1>1. CASE \/ PrepareExecution \/ WritePreparation \/ RequestNative \/ PrepareUnowned
           \/ RetrieveContext \/ CaptureEvidence
           \/ Attach \/ WriteScope \/ DeclareScope \/ WriteLink \/ BindNative
  BY <1>1, PrepareExecutionSound, WritePreparationSound, RequestNativeSound, PrepareUnownedSound,
     RetrieveContextSound, CaptureEvidenceSound, AttachSound, WriteScopeSound, DeclareScopeSound,
     WriteLinkSound, BindNativeSound
<1>2. ASSUME NEW step \in Steps,
             \/ ReserveActor(step)
             \/ \E session \in Sessions(step), completed, formed \in BOOLEAN :
                  ObserveActor(step, session, completed, formed)
      PROVE  OpermemInv'
  BY <1>2, ReserveActorSound, ObserveActorSound
<1>3. CASE JudgeRun \/ FailToWork \/ EndTask \/ RereadContext
  BY <1>3, JudgedSound, EndTaskSound, RereadContextSound
<1>4. ASSUME NEW p \in Workers,
             \/ WritePending(p) \/ Send(p) \/ LoseAnswer(p) \/ WriteReceipt(p) \/ RetainReceipt(p)
             \/ FailSubmission(p) \/ ReadDisposition(p) \/ SyncTelos(p)
             \/ Resume(p) \/ RewritePending(p) \/ LookForDeposit(p) \/ CompareContext(p)
             \/ WorkerDies(p)
      PROVE  OpermemInv'
  BY <1>4, WritePendingSound, SendSound, LoseAnswerSound, WriteReceiptSound, RetainReceiptSound,
     FailSubmissionSound, ReadDispositionSound, SyncTelosSound, ResumeSound, RewritePendingSound,
     LookForDepositSound, CompareContextSound, WorkerDiesSound
<1>5. ASSUME NEW request \in requests, Handle(request) \/ HostEnds(request)
      PROVE  OpermemInv'
  BY <1>5, HandleSound, HostEndsSound
<1>6. CASE OtherDeposit \/ EditSources
  BY <1>6, OtherDepositSound, EditSourcesSound
<1> QED BY <1>1, <1>2, <1>3, <1>4, <1>5, <1>6 DEF OpermemNext

(* A contribution, in the native store as in what Telos was told of it, is *)
(* the one accepted piece of work, worked out under the context it is      *)
(* deposited in, however the submission was interrupted and resumed        *)
(* (submit and resume_run, noetic_opermem.py:522-627, :790-894).           *)
THEOREM ContributionStaysEarned == OpermemSpec => []ContributionIsEarned
<1>1. OpermemInv /\ [OpermemNext]_opermemVars => OpermemInv'
  BY OpermemNextSound, StutterSound
<1>2. OpermemInv => ContributionIsEarned
  <2>1. ASSUME OpermemInv PROVE DepositIsWitnessed
    BY <2>1 DEF OpermemInv, Deposited, Earned, Identified, Gate, DepositIsWitnessed
  <2>2. ASSUME OpermemInv PROVE TelosIsEarned
    BY <2>2 DEF OpermemInv, Told, Deposited, Earned, TelosIsEarned
  <2> QED BY <2>1, <2>2 DEF ContributionIsEarned
<1> QED BY OpermemInitSound, <1>1, <1>2, PTL DEF OpermemSpec
=============================================================================
