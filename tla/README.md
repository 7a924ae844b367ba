# A TLA+ verification of noetic-dev

noetic-dev runs reasoning and development work by language-model agents under a
strict account of who was asked what, by which authority, and what came of it.
The agents (the "Pi" processes) are unreliable by nature; everything around them
is Python that must not be: a kernel that reserves one piece of work at a time,
drivers that own processes, a domain of positions and sessions, brokers that
speak to agents, command caches, journals, reviews and releases. Most of it is
sequential code over SQLite and private files, made hard by what happens in
between: several command lines, web threads and drivers act on the same stores,
any of them may be killed, agents and services answer late or never, and
everything is retried.

This directory models that system in TLA+, checks it with TLC on small instances
and proves with TLAPS, of nearly every part, that it holds for every instance.
`PROJECT.json` records, for every definition, the source lines it stands for,
for every property one plausible bug of the code that breaks it, and for every
hazard of the code the properties that watch it.

## 1. Inventory

| component (scripts/) | state | operations | hard because |
|---|---|---|---|
| executive controller (`noetic_controller.py`, `patterns/*.json`) | one SQLite run: version, phase, slots, activations, artifacts, command receipts | start, begin, submit, runtime_failed, cancel | stale callers, redelivered commands, returns that undo accepted work |
| harness driver (`noetic_harness.py`) | run directory: driver lock, `submission.json`, `cancel.requested`, `pause.requested`, journal | drive, pause, resume, cancel, process_info | crashes between two files, a cancellation racing an answer, orphaned process groups |
| process ownership (`noetic_processes.py`) | `*-ownership.json` per process group | spawn, inspect, reconcile, stop | a leader that died, a number that was reused, a record never written |
| delegation policy (`noetic_harness.py`, bridge in `noetic_sessions.py`) | plan, journal of attempts, children | delegate, read, complete | concurrent requests, attempts that fail half-way, remediations |
| ordinal scope store (`noetic_scope.py`, `noetic_efforts.py`) | positions, mandates, environments, instantiations, sessions, actions, disciplines, events | about twenty transactions | stale scopes and targets, successions against session changes |
| discipline executions (`noetic_disciplines.py`) | command cache beside the domain | create, execution, participant, all through `once` | two stores that commit one after the other |
| managed sessions (`noetic_sessions.py`, registry and manager) | registry rows and events, `broker.lock`, `correlation.lock`, ownership record, domain session | create, reopen, message, fan out, correlate, shut down | launchers and brokers that die, checks made before the lock, deliveries of unknown outcome |
| session broker (`noetic_sessions.py`, `Broker`) | pending commands, dialogs, status | prompt, steer, stop, dialog answer, deliver, shutdown | a reader thread without the lock, timeouts, late answers |
| cognitional event journal (`cognitional_event_journal.py`) | one append-only file | append under the expected head, inspect, recover | torn writes, one writer by contract only |
| trace reducers (`m0_trace.py`, `m1_trace.py`) | none: functions of a trace | validate and project | dozens of cross references between records |
| verified change (`development_verified_change*.py`, `noetic_develop.py`) | none: functions of packet, trace and view | validate, observe, status | three programs with a field table each for one view |
| reviewed runs and batches (`noetic_run.py`, `noetic_batch.py`) | a journal per run, link files, a frozen manifest, `.execution.lock` | run, review, resume, batch run | kills with an actor at work, an operator beside a reviewer |
| operational memory (`noetic_opermem*.py`) | pending, receipt, scope and link files; the native store; correspondence in the domain | run, checking, submit, resume | an answer lost after the commit, torn files, two resumptions |
| application service (`noetic_opermem_application.py`, `noetic_application.py`) | a directory per command id, mutation lock, admission slots, driver locks; project copies | launch, recover, view, start and apply work | retries to several servers, drivers that outlive them, edits during an apply |
| storage migration, archive (`noetic_storage.py`, `noetic_archive.py`) | modes, bundles, a restored root | protect, export, import | copying what is being written |
| release manager (`noetic_release.py`) | releases, `current`, wrapper, report, adoption | install, roll back, status | deaths around the switch, brokers of other releases |
| agent review broker (`governance/agent_review_broker.py`, `request_agent_review.py`) | one request in progress, the router's session | review, prove, report outcome, confirm exhaustion | reports lost or late, a router that restarts, a moving pull request |
| route attestation (`governance/route_attestation.py`) | receipts, dispositions, gaps, cursor | pass, recovery of one run | runs that finish out of order, reads that age, passes that overlap and die |
| purposes and telos (`noetic_telos.py`, `noetic_purposes*.py`) | subgoals and associations in an external store | record_result; purposes, bindings | told in two steps after the work is accepted |
| recall and memory, usage and costs, other governance tools, command lines, browser client | records written by the parts above | readers, one-shot checks, rendering | see section 7 |

How they interact. The *driver* calls the controller and is the only caller in
an ordinary run; the web application and command lines call it too. The driver
spawns an actor per activation and owns its process group; an actor of a
delegated implementation reaches, over a bridge, the *session manager*, which
creates child sessions. The manager spawns a *broker* per session; the broker
spawns Pi, observes its native state and publishes the session in the *scope
store*. A *message* to other sessions goes through their brokers, is fetched by
their Pis, and its events are correlated with the scope store's history.
*Disciplines* create their domain records through `once`, so that a repeated
request has one effect. The *application* launches operations of the operational
memory as drivers of their own, which prepare an execution in the domain and
submit one contribution to the *native store*; what is accepted is told to
*Telos*. A *batch* runs reviewed runs one after the other; a *development run*
writes its packet and trace into the *journal*. Work accepted in a copy is
*applied* to the project by the operator. *Export* and *protection* copy and
close what all of these write. *Releases* replace the code under running
brokers, and the *review broker* and *attestation* guard how releases come to
be merged.

## 2. Modules

| module | models | checked by |
|---|---|---|
| `Controller` | the kernel: one action per operation, one definition per row of the two transition tables | through `ControllerRefines` |
| `RunPromise`, `ControllerRefines` | abstract: phases accepted in order, given up only by a paid reopening, tried again within a budget, blocked only when a budget is spent, final when ended; and the mapping to it | run `runs` |
| `Archive`, `Apply` | maintenance of a run; applying its work to a project | run `runs` |
| `Harness`, `MCHarness` | the driver over `Controller` (EXTENDS), the operator's cancel, process groups, crashes | run `harness` |
| `Scope`, `MCScope` | the ordinal domain | run `scope` |
| `Sessions`, `MCSessions` | launching, attaching, reopening and ending brokers | runs `sessions`, `sessions_live`, `sessions_orphan` |
| `SeatPromise` | abstract: one broker per conversation, one seat of the position, taken by a conversation that runs and belongs to the current occupant | run `sessions` |
| `Messages` | messages between them and the log of events | run `sessions` |
| `Broker` | the threads inside one broker and Pi | runs `broker`, `broker_doc` |
| `M0Trace`, `M1Trace`, `VerifiedChange` | the reducers and the three stages over them, as operators | through `Journal` |
| `Journal`, `MCJournal` | a supplier's edits, and the journal a verified change is written to | run `journal` |
| `Delegation` | the delegation policy with the bridge and the children | runs `services`, `delegation_doc` |
| `Release`, `Review`, `Attestation`, `Reviewed` | releases; the review broker; attestation; reviewed runs and batches | run `services` |
| `ExactlyOnce`, `Once` | abstract: a command takes effect at most once, and who is answered is told of that effect; the cache of commands over the domain's history | run `commands`; `Launch` keeps the same promise (`LaunchesExactlyOnce`) |
| `Launch`, `Opermem` | the launch of reviewed work; one operation on the operational memory | run `commands` |
| `MCServices`, `MCCommands`, `MCRuns`, `MCSessions` | several of the above side by side | |
| `ControllerProofs`, `HarnessProofs`, `ScopeProofs`, `SessionsProofs`, `BrokerProofs`, `CommandsProofs`, `ServicesProofs`, `RecordsProofs` | theorems about the above (section 4) | TLAPS |

An operator that stands just before a definition, imitates it and is used
nowhere is a plausible bug of that definition (a dropped guard, a missing reset,
a number off by one). Each is known to break the property `PROJECT.json` names.

*Side by side.* `MCServices`, `MCCommands`, `MCRuns` and `MCSessions` put
components in one run that share no state. A variable chosen at the start says
which of them moves, and the others stay in one initial state; so the run
explores the sum of their state spaces, never the product, and each property
speaks of the component it names. `MCScope` does the same with three shares of the
bounds of one module. Components that do share state are composed for real:
`Harness` extends `Controller`, `Journal` extends `VerifiedChange`, `Sessions`
holds registry, domain, launchers, brokers and Pis, `Launch` servers, drivers
and domain, `Opermem` run, domain and native store, `Archive` run, program and
maintenance.

### Controller

Every public operation is one `BEGIN IMMEDIATE` transaction, so it is one
action; an operation that raises rolls back and is simply not enabled. Callers
name an activation and an expected version, any that ever existed. `kind` is the
pattern the store was started with. Identifiers are numbered in order of first
appearance. `_transition` is split by table row (`Produced`, `PassNext`,
`FailRemediate`, `Return`, ...); the "pending / activate" row is taken in the
same transaction by the rows that lead to it, as in the code. `_allocate`
raises when a prior slot is unbound or partial: here it disables the row.
`receipts` is the commands table, `answers` (history) what callers were told.

### Harness

The driver's program counter `drive` follows the body of `drive()` from the lock
to the last `_export`; `held` is the answer in its memory, which a crash
forgets. Files survive. A *step* is the process group of an activation's actor
or verification: its `group` may be live, have lost its leader ("members"), or
be gone. `Terminate` is `reconcile(terminate=True)`: it signals only a group
whose recorded leader lives, and the group may survive as a zombie. `Reports` is
`process_info`: it says "confirmed" only when every inspected step is, and may
say "unconfirmed" when it is (a reused process number). `Ask`/`Request`/
`TakeLock`/`Sweep`/`Conclude` are `cancel()` step by step beside the driver.

### Delegation

One run with an accepted plan. `Pending` is the fixed-point of the plan
validation. A request passes `Delegate` (known, unknown or fresh), the
dependencies one at a time, `Dispatch` (durable before the effect),
`CreateChild`, `RecordChild`, or fails on the way. A turn is an implementation
activation; `Remediate` starts the next with the same journal.

### Scope

The tables are functions from primary keys to rows; an ordinal is the sequence
of its numbers after the leading 0. Every action takes a scope (an effort scope,
or an application scope under any root mandate version that ever existed) and
any recorded target, so staleness of what the caller holds is part of the model.
`used` (history) remembers what the last scope reached: its efforts and its version.
`NamesItsOwn` says what a record may name of another.

### Once

`once()` takes the cache's lock, looks for the row, otherwise searches the
domain's history for an event of the key (`_recover`), otherwise performs the
effect (its own commit, with the event) and commits the row. `Fault` is a death,
a lock timeout or a cache that cannot commit, anywhere.

### Sessions

`client[c]` is a thread in `create`/`reopen`/`_launch`; `launches[i]` a spawned
broker with its Pi; `owner` the ownership record; `row` the registry; the domain
is the position's current instantiation, its designated session and the standing
of each session. The lock (`Locked`) is a flock held by the launcher *or* the
broker that inherited it. The broker attaches under the adapter's exclusion,
opens in the domain and records in the registry as separate steps; its end
reports to the registry and writes back to the domain as three. Deaths: the
launcher anywhere, the broker alone anywhere (its Pi lives on), Pi anywhere.
The four reads of `reopen` before `_launch` are one check. `Seat` maps all of it
to `SeatPromise`: a conversation runs the brokers of its launches that are alive
(`Running`), its occupant is the instantiation it is under, the seat is the
designated session; registry, files, locks and clients are left out of it.

### Messages

`sends[r]` is the thread of a fan-out that serves one recipient: it selects the
target it was given, asks whether message may pass, binds it in the target's
registry, asks the broker to deliver, and learns the outcome (`Sending`). A
target is an exact session, possibly one that is superseded by then. `requests`
is what a broker's handler was asked, by a thread or by an operator who delivers
the same message again; the handler looks, prompts Pi and waits until its row
appears, or not (`Prompt`, `Answer`). Pi handles the command whenever it gets to
it: its fetch (`Fetch`) is answered from the envelope and recorded, then it
takes the message into its conversation (`Take`). `rows` are the registry's
events; `event()` inserts a row and then calls `correlate`, which under
`correlation.lock` records every unmarked row in the domain and marks it, and
may end between the two (`Correlate`). Correlations of several processes are
serialised by that lock, so each is one step with its possible interruption.

### Broker

`handler[h].at` is where an action (prompt, steer, stop, dialog answer,
shutdown) is, under the action lock; `pending` the commands registered for an
answer; the reader takes records from `outbox` without the lock and writes
`status`. A command is answered, refused, timed out (20 s) or released by the
end of the stream. Pi takes commands in order, answers later or never, works,
asks and settles on its own. "failed" is folded into "idle" or ended.

### M0Trace, M1Trace, VerifiedChange, Journal

The reducers are predicates over a sequence of records: `Accepts` is every
condition the code tests, in groups named after the records, and `Projection`
what it returns. A digest is the material it is taken of (an injective hash);
the identifiers of a binding that never differ apart are one value. Syntax of
names, digests and times belongs to the parser and is left out. `VerifiedChange`
adds the packet and the tables of its fields, its gates, the terminal view
(`Observe`) and the status derived from it, each with its own table of the fields
it takes. `Beside` joins two records where the code spells out the fields of
both. `Journal` starts from a source each reducer accepts (`MCJournal`), lets a
supplier set up to `MaxEdits` fields of source or packet to any alternative value
(or drop a field of either, or add one to a record), then offers the records one
by one to a writer whose write may be torn, with `Inspect` and `Recover`.

### Reviewed

A batch's manifest is any acyclic dependency (`depends`); `batch` is frozen in
two steps. `events[t]` is the journal of a child's run, from which everything
else is projected. `controller[c]` is a process inside `noetic_batch` and
`noetic_run`: it takes `.execution.lock`, picks the next child whose
dependencies were accepted without a recorded Telos error, makes its directory
and journal, runs the three steps, judges, and reports. The batch has a
governing chain. Reporting is two steps: Telos is told (`TellTelos`, which
`told` follows) and the journal then says so or not (`ReportRun`); a failure of
either is `telosError`. An operator reviews a run at any time; a reviewer that
then reports raises. A step that timed out or was interrupted ended as one that
failed. Nobody reports an operator's review unless he has it done
(`OperatorReports`, one step on a reviewed run: what a report that fails leaves
is what none leaves). A kill leaves the actor of the step alive.

What Telos knows may lag behind what a batch builds on. `batch_status` holds a
batch on a recorded `telos_error` only. A review by an operator reports to
nobody, and a controller killed between the review and `finish` leaves no error,
so in both cases the run is accepted, Telos was not told, and a resumed batch
goes on. `AcceptanceIsEarned` states what remains true: dependencies are
reviewed and accepted, no recorded failure is passed over, and Telos was told of
each but in these two cases (`abandoned` remembers the second).

### Opermem

`process` holds the worker and the resumers; `files` the run's files, absent,
torn or whole. The native store is a slot for this run's deposit beside an
anchor that other deposits move; a request handed to a host may be handled after
its sender gave up (`Handle`, `LoseAnswer`). Three kinds of run: plain,
superseding (its own deposit closes its context) and checking. An owned run is
prepared, attached, bound and observed in the domain as separate transactions.

### Launch

A command id's directory is made file by file under the mutation lock:
assignment, request, receipt, attempt. The driver inherits the descriptors of
its lock and of an admission slot (`held`), so both outlive the server. It
checks the frozen request, prepares the execution in the domain, records which
(`ObservePreparation`, `NameRun`) and starts actors. `RecoverRun` is `recover`,
with `RestoreReceipts`. `LoseFile` deletes a receipt or observation, which the
code is written to survive. `capacity` is the root's `max_active_drivers`, one
or two.

### Archive and Apply

`Archive` follows a harness or a reviewed run through its program, and beside it
`export_run`, `import_run` and `protect_tree` part by part; `moments` remembers
which whole states there were. `Apply` takes the application's lock, saves the
accepted manifest, looks at every file, copies it aside, writes it, and reports
or rolls back file by file; the owner edits the project and anybody the copy at
any time, and the process may die anywhere.

### Release

An operation holds the maintenance lock and passes its stages: state and
session checks under one of three modes, extraction, build, recheck, wrapper,
link, replacement of `current`, report. `Raise` runs the code's cleanup
(`RevertLive`, `RestoreWrapper`, `RemoveRelease`), `OperationDies` does not.
Brokers start and end without regard to the lock, on whatever `current` names.

### Review and Attestation

`Review` is one broker with requests one after the other: the pull request is
read before and after its diff, the router is asked for a decision per
candidate, the candidate is invoked, every outcome is reported to the router (a
report that is lost or not answered ends the review), and the evidence is
assembled and judged again by an independent validator. The router may answer
anything, change its tools, or be gone.
`Attestation` has the world (runs, pull requests, the base, the rules) and two
operators' passes: list (or take one run by hand, whatever the cursor), choose the
oldest untreated run, load, validate, read the rules, reload, publish, save the
cursor, or record a gap; every read is a step of its own, so everything may change
in between. The rules in force are read only once, by the validator of the
protected base, so a reload finds nothing of their change; `together` (history)
holds the runs whose evidence still stood at the moment their rules were read.

## 3. Runs, bounds and what they show

| run | instance | distinct states | shows |
|---|---|---|---|
| `runs` | both patterns, 4 phases, 1 remediation, 2 returns; a harness run of 2 activations or a reviewed run, 2 maintenance operations; 2 works on 2 files, 1 edit | 666 thousand | serial reservation with each activation begun once, reviewed acceptance, coherent slots, exactly-once results, refinement of `RunPromise`; what is restored is the run as it once was, and an inventory is of one moment; an apply writes only reviewed bytes over unchanged files, all or none |
| `harness` | 2 recurrent operations, 2 crashes | 132 thousand | no replay, one process group, truthful cleanup, every drive ends, a cancellation is honoured |
| `scope` | shares of the bounds: one effort, 3 positions, 2 occupants and 2 sessions each, 3 closures, 1 revision; or 2 efforts, 4 positions, 1 discipline, 1 execution, 4 recorded events; or 2 nested disciplines, 1 revision | 219 thousand | one designated open session and a chain of occupants, authority as received, no operation outside its scope or under a revised root mandate, no record that names another effort's |
| `sessions` | 2 conversations, 2 clients, 3 launches, 1 fault (symmetry in ids and clients); or one message to 2 positions, 1 mishap, 1 delivery by an operator | 1.2 million | refinement of `SeatPromise` (one broker, one seat, none moves between occupants); the open session is the designated one, the registry is true, nothing left of failed launches; a sender is told the truth, the domain's history is faithful |
| `sessions_live` | 1 conversation, 2 clients, 3 launches, 1 fault | 6 thousand | every launch is answered |
| `broker` | 2 handlers, 3 commands, 1 question | 234 thousand | answers match and nothing stays pending, stopped means stopped, every action ends |
| `journal` | 2 accepted traces, every pair of edits to any place of trace or packet; with one edit at most also written to the journal, 1 death | 130 thousand | what the work is, is sealed; the three programs agree; the journal keeps what it told and is complete only with its trace |
| `services` | delegation: 2 tasks, every accepted plan, 2 turns; release: 2 releases, 2 broker sessions, 2 operations, 2 starts; review: 2 heads, 3 decisions, 2 reviews, 2 moves; attestation: 2 operators, 1 pull request, 3 runs, 2 passes, 1 change; batch: 2 children, 2 controllers (symmetry), 2 native identities, 3 resumptions | 1.9 million | delegated work is launched once, in order and accepted whole; a home is whole wherever an operation ends, and no undeclared broker is switched under; evidence is what the router recorded; no run is passed over, receipts hold for good and rest on one moment; a batch accepts earned work only, builds on what Telos was told where a controller lived to tell it, one writer at a time |
| `commands` | 2 callers, 2 keys, 2 requests, 2 faults; 2 servers, 2 command ids, 2 bodies, 2 requests, 1 recovery, 1 death or lost file; 2 resumers, 2 resumptions, 1 foreign deposit | 1.5 million | one effect and true answers, refinement of `ExactlyOnce`; a command id is one request, recovery is alone, work is admitted; one contribution, earned, complete only when committed |
| `delegation_doc`, `sessions_orphan`, `broker_doc` | as `services` (delegation), `sessions` (without messages), `broker` with 5 commands | | the disagreements of section 6 |

Why the bounds are enough. *Controller*: the phases are those of the bundled
patterns, and the budgets allow a second return after re-entry and a remediation
whose review fails again, so every row fires in every phase it can. *Harness*:
two operations give a successor that could meet an orphan of its predecessor,
two crashes a reopening that crashes again. *Delegation*: two tasks give every
dependency, two turns the remediation. *Scope*: three positions in one line make
a delegator, a delegate and a stranger; two efforts make "another effort"; two
occupants and two sessions make every succession against every reopening.
*Once*: two callers are enough to race, two keys to confuse them, two faults to
die in the retry. *Sessions*: three launches are a conversation, its rival and a
reopening of the first. *Messages*: two recipients share the sender's log, whose
order and correlation they contend for; each target has a successor, and one
mishap at any step is a succession, a death or a refusal there. *Broker*: a stop
is two commands, so three leave room for a prompt before, within or after it.
*Journal*: consistency conditions compare two places, so an edit that hides
another needs two; a third would have to agree with both. *Release*: two
operations are an install and a rollback, or an interrupted one and its retry.
*Review*: three decisions are more than the candidates that can be tried, so one
may be foreign or repeated. *Attestation*: three runs are one in front of the
cursor, one behind and one that finishes late; one change puts a push, another
merge, a rerun or an expiry anywhere between two reads. *Reviewed*: two children
depend on each other or not, three resumptions resume a resumed batch. *Launch*:
two bodies under one id conflict, two servers race, and one death is enough to
leave every prefix of a launch behind. *Opermem*: two resumers beside the worker
make three submitters of one deposit. *Archive*: an export and its import, or a
protection during either. *Apply*: the first file exists and the last does not,
so replacing and creating are both undone; two works contend for the project.

Deadlock is not checked where systems may rest: a run that ended, a budget of
the model that is spent, or no client. It is checked in `journal`, where an
inspection is always possible.

### Fairness

`FairHarness` assumes that a driver inside `drive` goes on: every wait in it
(actor, verification, locks) ends by a timeout, and a crash takes it out. Nobody
is obliged to start a drive. `Sessions!Fairness`: a launching thread and a live
broker make progress (`_launch` polls with a deadline, broker waits time out);
nobody has to launch, fail or shut down. `Broker!Fairness`: the reader and
handlers are threads that are scheduled, and a timeout is a step of the handler;
nothing is assumed of Pi, which may never answer. The other modules state no
fairness and claim safety only: their code waits without a bound for models,
routers, operators or another invocation, so nothing in it has to happen.

## 4. What is proved

Every safety property of the runs is a theorem but one of the journal's
(`WorkIsSealed`). The theorems hold for every value of the constants, that is for any number of callers, clients, launches, requests,
faults and operations: the bounds of section 3 are constants of the modules, and
nothing in a proof looks at their values. They are

| module | about | theorems and the properties of the runs they state |
|---|---|---|
| `ControllerProofs` | the kernel | `TypeCorrect`; `Serial` (`SerialReservation`); `CoherentAlways` (`CoherentBasis`); `DraftsWereReviewed` (`AcceptedWorkWasReviewed`); `AppliedOnce` (`ResultsAppliedOnce`); `ImplementsPromise` (`KeepsPromise`); `BudgetBoundsRun` |
| `HarnessProofs` | the driver over the kernel | `NeverReplayed` (`NothingReplayed`); `CleanupStaysTrue` (`CleanupIsTrue`); `HarnessKeepsKernel`, `HarnessKeepsPromise`: all that is proved of the kernel, of a driven run |
| `ScopeProofs` | the ordinal domain | `OccupationStaysSound`; `AuthorityStaysReceived`; `OperationsStayInScope` (an action property) |
| `SessionsProofs` | managed sessions, messages | `OneBrokerAlways` (the refinement's part that excludes a second broker); `SeatIsKept` (`KeepsSeat`); `DesignatedAloneAlways`; `StandingAlwaysTrue`; `OutcomeStaysTrue`; `HistoryStaysFaithful` |
| `BrokerProofs` | inside a broker | `ExchangeStaysSound`; `StopsStay` (`StoppedIsStopped`) |
| `CommandsProofs` | `Once`, `Launch`, `Opermem` | `LockExcludes`; `EffectIsUnique` (`AtMostOnce`); `AnswerIsTrue` (`AnswerIsTheEffect`); `ImplementsExactlyOnce` (`KeepsPromise`); `OneRequestAlways`; `RecoversAlone`; `AdmittedAlways`; `LaunchesExactlyOnce`; `ContributionStaysEarned` |
| `ServicesProofs` | delegation, releases, review, attestation, reviewed runs | `DelegationStaysSound`; `HomeStaysSound`; `SwitchStaysDeclared` (an action property); `EvidenceStaysTrue`; `AttestationStaysSound`; `OneWriterAlways`; `AcceptanceStaysEarned` |
| `RecordsProofs` | journal, copies of a run, applying | `JournalStaysTrue`; `SourcesStayExplained`; `CopiesStayTrue`; `ApplyStaysSound` (an invariant and two action properties) |

### Assumptions

Each is an `ASSUME` of the module it speaks of, evaluated by TLC in every run.
Bounds are natural numbers: `Controller`, `Broker` and `Scope` assume no more.
The rest say that things the code keeps apart are apart, and that what it hands
over has its form. "free" is no caller and "none" no request (`Once`), "nobody"
no controller (`Reviewed`), and no conversation is the absent one, of finitely
many clients (`Sessions`). A server is no command, and a command's lock neither
the mutation lock nor a slot (`Launch`: other files). The operator holds no
native identity (`Reviewed`: those are agents' sessions). "legacy" and "none" are
no releases (`Release`: an identity is a digest). The sender is not among the
recipients (`Messages`: `fanout` leaves it out unless asked). What a run
wrote is told from what others wrote (`Apply`: contents are named for their
origin). A role hands in a result of the schema's form (`Harness`: the kernel
validates it before anything else). Every trace has its packet (`Journal`).

### Arguments

Each proof has an inductive invariant, one lemma per action that it is kept,
and a lemma that it implies the property. What the invariant says beyond the
property is why the code is right:

* *Kernel*. `Core` (typing with `OneOpen`): the typing of `current`
  makes retiring "the current one" retire an existing activation, and seriality
  makes the retired one the only open one. Versions count reservations and
  beginnings, so that none is begun twice (`EachBegunOnce`). `Lineage`, which `CoherentBasis`
  follows from, says which visit of a phase each slot was filled by, and that a
  return empties every later slot; `ReviewLine` follows a draft from its
  production to the review that passed it; `Receipted` relates what callers were
  told to the commands table; `Accounted` balances activations against what is
  left of the budgets. They are stated for `Operate`, any one of the kernel's
  operations, so that they carry over to every module that performs these.
* *Refinement of `RunPromise`*. Each row of the transition tables is a step of the
  promise or changes nothing it sees; a reopening is paid because `Lineage` knows
  the phase that is returned to as one already accepted, and a block is one of the
  rows that find a budget spent.
* *Harness*. `Records` (only a begun activation has processes or an answer),
  `Placed` (what the driver's place says of the run) and `Alive` (whose group may
  live). Each kernel operation it performs is an `Operate` step.
* *Scope*. `Tree` and the tables' foreign keys, `Occupied` (the instantiations of
  a position form one chain, the last is current), `Numbered`, `Entrusted` (the
  version a delegate received exists). `StaysInScope` needs that the effort of
  each row is the one of the row it hangs from, and `NamesItsOwn` as an invariant of
  its own: a coordination notes each position under the discipline it has, untested.
* *Sessions*. `OneHolds` (the flock of a conversation is held by one launch,
  across the passing of the descriptor), `ClientsKnown` (which launch a client
  waits for), `Apart`, `OwnersKnown`, `RowsKnown`, `BrokersKnown` (what a broker's
  stage says of row and domain); `Bounded` counts launches and clients, so that
  `Unkilled` is what no fault leaves.
* *Refinement of `SeatPromise`*. A broker that starts holds the flock, so by `OneHolds`
  its conversation has no other. What attaches checked the standing of the
  conversation before the steps that change the domain: `Newcomers` (a conversation
  without a published target is launched once and has not sat before that launch
  opens its session) and `Openers` (only sessions of newcomers are being opened)
  say that the check still holds then, so that none sits under a second occupant.
* *Messages*. Per recipient `SendingIs` and a count of what was dispatched against
  what is still on its way; per session `LogIs`: the marked rows are the first
  ones, the recorded numbers never jump over a missing one, and repetitions do not
  outnumber interruptions.
* *Broker*. `OneActs` (one handler past the action lock), the numbers of the
  commands in inbox, outbox and `pending` in order (`InboxKnown`, `OutboxKnown`,
  `PendingIsAwaited`), and `StopKnown`: from a stop's `get_state` on, nothing on
  its way can set Pi to work.
* *Once*. `HolderKnows`: the holder of the lock found the event of its key, or
  there is none. Without it nothing prevents a second effect of the same key.
* *Launch*. Who is at a stage holds the lock of it (`MutationHeld`, `SlotsHeld`,
  the latter an injection of those at work into the slots); files appear in their
  order (`FilesAgree`); `WorkedAsFrozen`, `ToldAsFrozen`. That launches implement `ExactlyOnce` is proved
  of them alone (`Acceptance`, in `CommandsProofs`): the effect of a command is the
  request its directory retains, which one step writes and none replaces, the
  answer is what a server was shown, and who serves has asked (`Asking`).
* *Opermem*. The identities of the run and its steps (`Judged`), what each
  submitter still holds (`Submits`), what any request on its way asks (`Asks`),
  and that a deposit is one of them (`Deposited`), so that whoever is answered,
  the answer is the run's own (`Answered`, `Told`).
* *Delegation, releases, review, attestation, reviewed runs*. Respectively the
  attempts of a task in sequence and the request in hand (`AttemptsKnown`,
  `RequestKnown`); what each stage of an operation has changed (`InOperation`); the
  record of attempts as the router's own, up to the stage (`OnTrack`,
  `RecordFollows`); every run behind the cursor treated for good (`Behind`),
  what a pass has read still provable when it publishes (`PassIsSound`), and rules
  read while it stood (`ReceiptStoodTogether`: nothing of a run is ever restored, so
  a reload that finds it as before says it stood in between); one controller,
  stages in their order, and a killed one's orphan alone (`OneController`,
  `Progressing`, `WritersKnown`). `Reports` is what lets a batch build: an accepted
  child no controller has in hand was told to Telos, or is one of the two
  exceptions.
* *Journal*. Every prefix of the file replays, and the record in the writer's hand
  was admitted after all of them. What is complete is the trace of its packet
  because what is explained is verified, and what is verified is its digest.
* *Traces and their status*. `SourcesAreExplained` needs no invariant: it holds of
  every packet and every sequence of records. The proof computes the fields of
  each record a stage hands on (`M0Projected`, `M1Projected`, `M1Domains`; then
  `M0Observed`, `M1Observed`, `ObservedWhole`, `StatusWhole`) and meets the table
  of the next stage with them; a trace has a fixed number of records, so nothing
  is induced over it. `M0Evidence` and `M1Evidence` find what the status says in
  the trace. The packet's own tables (`PacketFields`) are a premise the first
  program tests: without them the second would refuse some of its projections.
* *Copies*. `moments` holds the content at every step of a copy, because nothing
  that a lock excludes may write (`Excluded`), and what was copied in one stage is
  still so in the next (`CopiedWhole`, `Walks`).
* *Applying*. `WorkIs` (baseline, task and accepted manifest of each run),
  `FileIs` (what a file holds was reviewed, or was there), and of the apply in
  progress `ChangeIs`, file by file: what was copied aside, what is written, what
  may differ because its owner edited it.

### Model-checked only

* `LaunchEnds`, `ActionEnds`, `DriveEnds`, `CancelIsHonoured`: liveness under
  fairness is out of the prover's reach.
* `WorkIsSealed`: that no edits within the bound break the seal of a given trace
  without a refusal; it is a property of the bound, for enough edits make another
  trace of one.
* The disagreements of section 6, which are counterexamples.

## 5. Hazards

`PROJECT.json` lists what in this code a test would hardly reach, each at its
line, with the properties that would notice. Known behaviour worth a remark, not
counted as disagreement because no text promises otherwise (where one admits it,
it is named):

Runs and their processes

* `cancel()` beside a driver that is about to hold leaves `cancel.requested`
  durable while the run stays active until the next drive or cancel.
* A signal inside `Popen`, or a crash between begin and spawn, leaves a step no
  inspection can ever confirm; the run then stops as uncertain.
* A reopened activation whose groups are confirmed gone fails as "process group
  absent"; `docs/harness-runtime.md` names only `runtime_uncertain`.
* A delegation request in hand when its parent fails may still create its child.
* A journal that cannot be written after a child was created leaves the driver
  without a record of it: a task with dispatches left may get a second child, and
  completion then refuses it for having two.
* A check that passed is kept: later work in the same workspace can outdate it.
* Driver slots bound only drivers that take one.
* An export writes its bundle before its second look at the run; when that look
  fails, the bundle stays. A torn bundle refuses a new export. A reviewed run
  holds no driver lock, so an export beside its reviewer may be reported and its
  import refused. `cancel.requested` and `pause.requested` are not archived.
* An apply that dies leaves a half-applied project without a receipt, which the
  next look at its changes refuses; a torn `project-apply.json` makes it raise
  for ever; an edit in the instant between the last look at a file and its
  replacement is overwritten (the docs say that an apply is no transaction).

Sessions and messages

* A session whose position was closed stays open, and child positions of a
  closed position go on working.
* `_attach` does not check again that the conversation it reopens is the
  designated one: one opened in between is superseded by the older.
* `shutdown` first stops: with a silent Pi it is refused and the broker serves on.
* `event()` inserts the row of a fetch and then correlates: when that raises, the
  message never reaches Pi's conversation and its sender is told "accepted". A
  sending that failed may leave an `agent_message_sent` row though it is told
  "not-dispatched". A target superseded before the delivery is told "uncertain"
  although nothing was dispatched.

Commands and launches

* The response `once` recovers is the record as it is now, not as it was.
* A server that dies between making a command's directory and `request.json`
  leaves an id that is refused for ever, and without `assignment.json` one that
  makes every later `recover` raise; a death between the receipt and the attempt
  leaves "queued" for ever.
* `lock_held` probes a lock by taking it for an instant, so a view can make a
  launch fail or refuse a recovery.
* Torn pending, receipt or scope files block the resumption of an operation for
  ever; a task says "not-submitted" though it may have committed; the exchange
  accepts the replay of a rejected command and writes it as a receipt; an unowned
  run's link is written after its review, so a crash leaves an accepted run that
  cannot be resumed; Telos is told in two steps that can leave a completed
  subgoal active.
* A run that an operator reviewed, or whose controller died between review and
  report, is accepted with its subgoal still active, and a batch builds on it.

Reviews and releases

* A pass drops runs that two inventory pages list in conflict, with a line on
  stderr only and no record behind the cursor; `docs/governance/route-attestation.md:26`
  promises against silent loss only where a cursor left the inventory. A run
  whose head was superseded, whose base or rules differ or whose artifact expired
  fails in every pass, and holds the cursor back.
* An operator's review during a reviewer's makes the reviewer's own `review_run`
  raise, and "failed" then overrides "accepted" (`noetic_develop.py:324-328`):
  the batch is held.
* A death between `.current-next` and its replacement leaves a link that makes
  every later switch fail until somebody removes it.

## 6. Disagreements found

* `delegation_doc` / `KnownChildIsReturned`: a remediation of a delegated
  implementation replays the journal, finds each task dispatched to a child of
  the previous activation, and the bridge refuses that child; such an
  implementation cannot be remediated.
* `sessions_orphan` / `OneActor`: `reopen` reads the ownership record before the
  lock; another reopen whose broker is killed in between leaves a Pi, and the
  first starts a second one on the same native context.
* `broker_doc` / `SettledIsShown`: a handler writes "running" (or restores the
  prior status) after the reader wrote "idle", and the settled session stays
  shown as working.

## 7. Not modelled

Of the modelled components: run creation and options validation, prompt
composition, transcripts and change evidence (harness); a journal that cannot be written in
the middle of a request (delegation); the content of the anchor, which is compared
by version (operational memory); legacy namespaces, read
pages, migration (scope); `sync`, `validate_binding` and the correspondence
(disciplines); attachments, the actor bridge's transport, storage errors in
handlers, duplicates in the population of a fan-out (sessions); efforts other
than the launch's own (launch); migration of legacy paths (storage); the
judgement schemas of the operational memory, which are data to its protocol; the
replay and explain command lines of a verified change. The text of prompts,
mandates and artifacts is data no property tells apart; hashes are injective.

Components left out entirely: *recall and memory* (retrieval and text processing
over files written elsewhere), *command lines and validation* (parsing,
rendering, repository lint), the *browser client* (the server is the authority
on every state), and, of the governance tools, the one-shot checks
(`check_delivery_gate.py`, `check_evidence_manifest.py`, `check_worktree.py`,
`capture_protected_ci.py`, `collect_evidence.py`, `run_isolated_pi.py` and their
like): sequential programs that read files, keep no state that another actor
changes, and whose outcome is a function of their input. The purposes of
`noetic_purposes.py` live in an external store; only what is told to it after an
acceptance is modelled.

## 8. Plan

Done: controller with its promise and first theorems, harness, delegation,
scope, once with its proofs, sessions and broker; then the reducers, verified
change and journal, reviewed runs and batches, releases, review broker and
attestation, operational memory and its launches, archive and protection,
applying work, messages and correlation.

Proved since: every safety property of the runs but `WorkIsSealed`, among them
the refinements of `RunPromise`, `ExactlyOnce` and `SeatPromise`; and that launches
implement `ExactlyOnce` too.

Next, modelling, where it still adds something: `sync` and the correspondence of
a bound run, associations of purposes, and the creation of a harness run.
