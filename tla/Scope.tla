------------------------------- MODULE Scope -------------------------------
(***************************************************************************)
(* The ordinal domain (ScopeStore in scripts/noetic_scope.py): positions   *)
(* addressed by ordinals, the mandates they were entrusted with, the       *)
(* agents that occupied them, those agents' sessions, bound actions,       *)
(* disciplines and executions.                                             *)
(*                                                                         *)
(* Every public operation is one BEGIN IMMEDIATE transaction, so it is one *)
(* action here and a crash leaves no half of it.  What may be stale is     *)
(* what the caller holds: the scope it composed under an earlier root      *)
(* mandate, the target it resolved before a succession.  Callers therefore *)
(* pass any scope and any recorded target.                                 *)
(*                                                                         *)
(* The tables are functions from primary keys to rows.  An ordinal is the  *)
(* sequence of its numbers after the leading 0, NULL an impossible value   *)
(* of the column.  The event an operation appends to the history is left   *)
(* out where the operation determines it; activations, recorded events and *)
(* coordinations are kept.                                                 *)
(***************************************************************************)
EXTENDS Naturals, Sequences, FiniteSets

CONSTANTS MaxPositions, MaxEfforts, MaxClosed, MaxRevisions, MaxEnvironments,
          MaxInstantiations, MaxSessions, MaxActions, MaxDisciplines, MaxExecutions, MaxEvents

ASSUME BoundsAreNaturals ==
  {MaxPositions, MaxEfforts, MaxClosed, MaxRevisions, MaxEnvironments, MaxInstantiations, MaxSessions,
   MaxActions, MaxDisciplines, MaxExecutions, MaxEvents} \subseteq Nat

VARIABLES
  positions,       \* ordinal -> status, next child, effort, discipline, ...
  mandates,        \* <<ordinal, version>> -> delegator, received version
  environments,    \* effort root -> its environment version
  instantiations,  \* <<ordinal, sequence>> -> mandate, status, session
  sessions,        \* target -> status
  actions,         \* sequence of bound actions
  disciplines,     \* sequence of discipline instances
  executions,      \* sequence: the discipline of each execution
  history,         \* correlated events
  used             \* the scope the last operation was given (history)

lineage  == <<mandates, environments>>
agents   == <<instantiations, sessions>>
work     == <<actions, disciplines, executions, history>>
vars     == <<positions, lineage, agents, work, used>>

Root        == <<>>
NoEffort    == Root
NoDiscipline == 0
NoSession   == 0
Human       == <<Root, 0, 0>>     \* no delegating target: human origin

Efforts     == DOMAIN environments
Parent(o)   == SubSeq(o, 1, Len(o) - 1)
Descendant(o, ancestor) ==
  Len(ancestor) <= Len(o) /\ SubSeq(o, 1, Len(ancestor)) = ancestor
Agent(t)    == <<t[1], t[2]>>

-----------------------------------------------------------------------------
\* Scope.effort names one effort; Scope.application names several, under a
\* version of the root mandate (0 in an effort scope).
Scopes ==
       [efforts : {{e} : e \in Efforts}, version : {0}]
  \cup [efforts : SUBSET Efforts, version : 1 .. positions[Root].mandate]

AnyTargetInScope(scope, o) ==
  IF scope.version = 0 THEN positions[o].effort \in scope.efforts
                       ELSE scope.version = positions[Root].mandate

InScope(scope, o) ==
  IF scope.version = 0
  THEN positions[o].effort \in scope.efforts
  ELSE /\ scope.version = positions[Root].mandate
       /\ o = Root \/ positions[o].effort \in scope.efforts

Covered(scope) == IF scope.version = 0 THEN scope.efforts ELSE scope.efforts \cup {Root}
Reach(scope)   == [efforts |-> Covered(scope), version |-> scope.version]

\* _target(current=True)
Current(t) ==
  /\ positions[t[1]].status = "open"
  /\ positions[t[1]].current = t[2]
  /\ instantiations[Agent(t)].status = "active"
  /\ instantiations[Agent(t)].session = t[3]
  /\ sessions[t] = "open"

\* _origin: a human, or the current target of the parent position.
Origins(parent) == {Human} \cup {t \in DOMAIN sessions : t[1] = parent /\ Current(t)}

ReceivedLatest(o, delegator) == IF o = Root THEN 0 ELSE positions[Parent(o)].mandate

\* _mandate: an agent passes on the version it received, a human the parent's.
Received(o, delegator) ==
  CASE o = Root -> 0
    [] o # Root /\ delegator = Human -> positions[Parent(o)].mandate
    [] OTHER -> instantiations[Agent(delegator)].mandate

Put(table, key, row) == [k \in DOMAIN table \cup {key} |-> IF k = key THEN row ELSE table[k]]

Entrust(o, version, delegator) ==
  mandates' = Put(mandates, <<o, version>>,
                  [delegator |-> delegator, received |-> Received(o, delegator)])

Position(effort, discipline) ==
  [status |-> "open", next |-> 0, effort |-> effort, discipline |-> discipline,
   current |-> 0, mandate |-> 1]

NextChild(parent) == Append(parent, positions[parent].next)

\* _allocate: the parent's counter, the position and its first mandate.
Allocate(parent, effort, discipline, delegator) ==
  /\ positions[parent].status = "open"
  /\ Cardinality(DOMAIN positions) < MaxPositions
  /\ positions' = Put([positions EXCEPT ![parent].next = @ + 1],
                      NextChild(parent), Position(effort, discipline))
  /\ mandates' = Put(mandates, <<NextChild(parent), 1>>,
                     [delegator |-> delegator,
                      received  |-> Received(NextChild(parent), delegator)])

Init ==
  /\ positions = [o \in {Root} |-> Position(NoEffort, NoDiscipline)]
  /\ mandates = [k \in {<<Root, 1>>} |-> [delegator |-> Human, received |-> 0]]
  /\ environments = <<>> /\ instantiations = <<>> /\ sessions = <<>>
  /\ actions = <<>> /\ disciplines = <<>> /\ executions = <<>> /\ history = {}
  /\ used = [efforts |-> {}, version |-> 0]

-----------------------------------------------------------------------------
CreateEffort ==
  /\ Cardinality(Efforts) < MaxEfforts
  /\ \E delegator \in Origins(Root) :
       Allocate(Root, NextChild(Root), NoDiscipline, delegator)
  /\ environments' = Put(environments, NextChild(Root), 1)
  /\ used' = [efforts |-> {Root}, version |-> 0]
  /\ UNCHANGED <<agents, work>>

\* Participants of a discipline are delegated within its initiator's branch.
MayParticipate(parent, d) ==
  d # NoDiscipline =>
    /\ disciplines[d].effort = positions[parent].effort
    /\ Descendant(parent, disciplines[d].initiator)

Delegate(scope, parent) ==
  /\ InScope(scope, parent) /\ positions[parent].effort # NoEffort
  /\ \E delegator \in Origins(parent), d \in {NoDiscipline} \cup DOMAIN disciplines :
       /\ MayParticipate(parent, d)
       /\ Allocate(parent, positions[parent].effort, d, delegator)
  /\ used' = Reach(scope)
  /\ UNCHANGED <<environments, agents, work>>

\* The root has no parent: its own current agent may revise its mandate.
ReviseMandate(scope, o) ==
  /\ InScope(scope, o)
  /\ Cardinality(DOMAIN mandates) < Cardinality(DOMAIN positions) + MaxRevisions
  /\ \E delegator \in Origins(Parent(o)) :
       Entrust(o, positions[o].mandate + 1, delegator)
  /\ positions' = [positions EXCEPT ![o].mandate = @ + 1]
  /\ used' = Reach(scope)
  /\ UNCHANGED <<environments, agents, work>>

SetEnvironment(scope, effort) ==
  /\ InScope(scope, effort) /\ environments[effort] < MaxEnvironments
  /\ environments' = [environments EXCEPT ![effort] = @ + 1]
  /\ used' = Reach(scope)
  /\ UNCHANGED <<positions, mandates, agents, work>>

ClosePosition(scope, o) ==
  /\ InScope(scope, o) /\ o # Root
  /\ Cardinality({p \in DOMAIN positions : positions[p].status = "closed"}) < MaxClosed
  /\ positions' = [positions EXCEPT ![o].status = "closed"]
  /\ used' = Reach(scope)
  /\ UNCHANGED <<lineage, agents, work>>

-----------------------------------------------------------------------------
Instances(o)  == {k[2] : k \in {k \in DOMAIN instantiations : k[1] = o}}
SessionsOf(k) == {t[3] : t \in {t \in DOMAIN sessions : Agent(t) = k}}
Following(S)  == 1 + IF S = {} THEN 0 ELSE CHOOSE m \in S : \A n \in S : n <= m

SupersedeNone(k) == sessions

\* UPDATE sessions SET status='superseded' WHERE ... AND status='open'
Supersede(k) ==
  [t \in DOMAIN sessions |-> IF Agent(t) = k /\ sessions[t] = "open"
                             THEN "superseded" ELSE sessions[t]]

Retired(o) ==
  IF positions[o].current = 0 THEN instantiations
  ELSE [instantiations EXCEPT ![<<o, positions[o].current>>].status = "superseded",
                              ![<<o, positions[o].current>>].session = NoSession]

\* Succession: the caller names the current predecessor and hands over.
Instantiate(scope, o) ==
  /\ InScope(scope, o) /\ positions[o].status = "open"
  /\ Cardinality(DOMAIN instantiations) < MaxInstantiations
  /\ LET sequence == Following(Instances(o))
     IN /\ instantiations' = Put(Retired(o), <<o, sequence>>,
             [mandate |-> positions[o].mandate, predecessor |-> positions[o].current,
              status |-> "active", session |-> NoSession])
        /\ positions' = [positions EXCEPT ![o].current = sequence]
  /\ sessions' = Supersede(<<o, positions[o].current>>)
  /\ used' = Reach(scope)
  /\ UNCHANGED <<lineage, work>>

CurrentInstance(k) ==
  /\ positions[k[1]].status = "open"
  /\ positions[k[1]].current = k[2]
  /\ instantiations[k].status = "active"

OpenSession(scope, k) ==
  /\ InScope(scope, k[1]) /\ CurrentInstance(k)
  /\ Cardinality(DOMAIN sessions) < MaxSessions
  /\ LET sequence == Following(SessionsOf(k))
     IN /\ sessions' = Put(Supersede(k), <<k[1], k[2], sequence>>, "open")
        /\ instantiations' = [instantiations EXCEPT ![k].session = sequence]
  /\ used' = Reach(scope)
  /\ UNCHANGED <<positions, lineage, work>>

\* set_session_status: reopening needs the current instantiation; any other
\* status may be set on any session, whatever its instantiation became
\* ("failed" is one way of being "closed" here).
Reopen(scope, t) ==
  /\ InScope(scope, t[1]) /\ CurrentInstance(Agent(t))
  /\ sessions' = [Supersede(Agent(t)) EXCEPT ![t] = "open"]
  /\ instantiations' = [instantiations EXCEPT ![Agent(t)].session = t[3]]
  /\ used' = Reach(scope)
  /\ UNCHANGED <<positions, lineage, work>>

EndSession(scope, t) ==
  /\ InScope(scope, t[1])
  /\ \E status \in {"closed", "superseded"} :
       sessions' = [sessions EXCEPT ![t] = status]
  /\ instantiations' =
       [instantiations EXCEPT ![Agent(t)].session = IF @ = t[3] THEN NoSession ELSE @]
  /\ used' = Reach(scope)
  /\ UNCHANGED <<positions, lineage, work>>

\* bind_action: with both selectors any recorded target, otherwise the current
\* one; what it freezes is the same.
BindAction(scope, t) ==
  /\ InScope(scope, t[1]) /\ Len(actions) < MaxActions
  /\ actions' = Append(actions,
       [target |-> t, mandate |-> instantiations[Agent(t)].mandate,
        environment |-> IF t[1] = Root THEN 0 ELSE environments[positions[t[1]].effort]])
  /\ used' = Reach(scope)
  /\ UNCHANGED <<positions, lineage, agents, disciplines, executions, history>>

-----------------------------------------------------------------------------
\* A nested discipline is initiated by a participant of its parent instance;
\* an initiating target, when named, is the initiator's current one.
CreateDiscipline(scope, initiator) ==
  /\ InScope(scope, initiator) /\ positions[initiator].status = "open"
  /\ positions[initiator].effort # NoEffort
  /\ Len(disciplines) < MaxDisciplines
  /\ \E parent \in {NoDiscipline} \cup DOMAIN disciplines :
       /\ parent # NoDiscipline =>
            /\ disciplines[parent].effort = positions[initiator].effort
            /\ positions[initiator].discipline = parent
       /\ disciplines' = Append(disciplines,
            [effort |-> positions[initiator].effort, initiator |-> initiator,
             parent |-> parent, environment |-> environments[positions[initiator].effort]])
  /\ used' = Reach(scope)
  /\ UNCHANGED <<positions, lineage, agents, actions, executions, history>>

CreateExecution(scope, d) ==
  /\ InScope(scope, disciplines[d].effort) /\ Len(executions) < MaxExecutions
  /\ executions' = Append(executions, d)
  /\ used' = Reach(scope)
  /\ UNCHANGED <<positions, lineage, agents, actions, disciplines, history>>

Event(o, d, x) == [ordinal |-> o, discipline |-> d, execution |-> x]

\* _event: the discipline defaults to the position's, and must be of the
\* position's effort; an execution must be one of that discipline.
Correlated(e) ==
  /\ e.discipline # NoDiscipline => disciplines[e.discipline].effort = positions[e.ordinal].effort
  /\ e.execution # 0 => executions[e.execution] = e.discipline

Note(events) ==
  /\ Cardinality(history) < MaxEvents
  /\ history' = history \cup events
  /\ UNCHANGED <<positions, lineage, agents, actions, disciplines, executions>>

\* A participant of the execution's discipline, at any of its recorded targets.
RecordActivation(scope, x, t) ==
  /\ InScope(scope, t[1])
  /\ positions[t[1]].effort = disciplines[executions[x]].effort
  /\ positions[t[1]].discipline = executions[x]
  /\ Correlated(Event(t[1], executions[x], x))
  /\ Note({Event(t[1], executions[x], x)})
  /\ used' = Reach(scope)

RecordEvent(scope, o) ==
  /\ InScope(scope, o)
  /\ \E named \in {NoDiscipline} \cup DOMAIN disciplines, x \in {0} \cup DOMAIN executions :
       LET d == IF named = NoDiscipline THEN positions[o].discipline ELSE named
       IN /\ Correlated(Event(o, d, x))
          /\ Note({Event(o, d, x)})
  /\ used' = Reach(scope)

\* coordinate: one event at the root, and one at every instructed position.
Coordinate(scope) ==
  /\ scope.version # 0 /\ InScope(scope, Root)
  /\ \E instructed \in SUBSET (DOMAIN positions \ {Root}) :
       /\ instructed # {} /\ \A o \in instructed : InScope(scope, o)
       /\ Note({Event(o, positions[o].discipline, 0) : o \in instructed \cup {Root}})
  /\ used' = Reach(scope)

Positional(scope) ==
  \E o \in DOMAIN positions :
    \/ Delegate(scope, o) \/ ReviseMandate(scope, o) \/ ClosePosition(scope, o)
    \/ Instantiate(scope, o) \/ CreateDiscipline(scope, o) \/ RecordEvent(scope, o)

Targeted(scope) ==
  \E t \in DOMAIN sessions :
    \/ Reopen(scope, t) \/ EndSession(scope, t) \/ BindAction(scope, t)
    \/ \E x \in DOMAIN executions : RecordActivation(scope, x, t)

Next ==
  \/ CreateEffort
  \/ \E scope \in Scopes :
       \/ Positional(scope) \/ Targeted(scope) \/ Coordinate(scope)
       \/ \E e \in Efforts : SetEnvironment(scope, e)
       \/ \E k \in DOMAIN instantiations : OpenSession(scope, k)
       \/ \E d \in DOMAIN disciplines : CreateExecution(scope, d)

Spec == Init /\ [][Next]_vars

-----------------------------------------------------------------------------
Ordinals == DOMAIN positions

TypeOK ==
  /\ \A o \in Ordinals :
       /\ positions[o].status \in {"open", "closed"}
       /\ positions[o].next \in Nat /\ positions[o].mandate \in Nat \ {0}
       /\ positions[o].effort \in Efforts \cup {NoEffort}
       /\ positions[o].discipline \in {NoDiscipline} \cup DOMAIN disciplines
       /\ positions[o].current # 0 => <<o, positions[o].current>> \in DOMAIN instantiations
  /\ Root \in Ordinals /\ Efforts \subseteq Ordinals
  /\ \A k \in DOMAIN mandates : k[1] \in Ordinals
  /\ \A k \in DOMAIN instantiations : k[1] \in Ordinals
  /\ \A t \in DOMAIN sessions :
       /\ Agent(t) \in DOMAIN instantiations
       /\ sessions[t] \in {"open", "closed", "superseded"}
  /\ history \subseteq [ordinal : Ordinals, discipline : {NoDiscipline} \cup DOMAIN disciplines,
                        execution : {0} \cup DOMAIN executions]

\* A session is open exactly when it is the designated session of the active
\* instantiation its position currently has: whatever order sessions are
\* opened, closed, reopened and successions happen in, no position ever has
\* two open sessions and no predecessor keeps one.
OpenIsDesignated ==
  \A t \in DOMAIN sessions :
    sessions[t] = "open" <=>
      /\ positions[t[1]].current = t[2]
      /\ instantiations[Agent(t)].status = "active"
      /\ instantiations[Agent(t)].session = t[3]

\* The occupants of a position form one chain: each names the one before it,
\* the last alone is active, and none received an older mandate than its
\* predecessor.
SuccessionIsAChain ==
  \A k \in DOMAIN instantiations :
    LET before == <<k[1], k[2] - 1>>
    IN /\ instantiations[k].predecessor = k[2] - 1
       /\ instantiations[k].status = "active" <=> positions[k[1]].current = k[2]
       /\ k[2] > 1 => /\ before \in DOMAIN instantiations
                      /\ instantiations[before].mandate <= instantiations[k].mandate

\* A position is occupied by one agent after another, one session at a time,
\* whatever is superseded, closed and reopened in between.
OccupationIsSound == TypeOK /\ OpenIsDesignated /\ SuccessionIsAChain

\* Authority passes through what was received: a mandate entrusted by an agent
\* names the version that agent's instantiation received, which is recorded
\* and cannot be newer than anything its own position was given.
AuthorityWasReceived ==
  \A k \in DOMAIN mandates :
    LET m == mandates[k]
    IN k[1] # Root =>
         /\ <<Parent(k[1]), m.received>> \in DOMAIN mandates
         /\ m.delegator # Human =>
              /\ m.delegator[1] = Parent(k[1])
              /\ m.received = instantiations[Agent(m.delegator)].mandate

\* Everything recorded about one branch, in each table.
InBranch(root, o) == IF root = Root THEN o = Root ELSE o # Root /\ o[1] = root[1]
Keyed(root, table) == {<<k, table[k]>> : k \in {x \in DOMAIN table : InBranch(root, x[1])}}

BranchPositions(root)  == {<<o, positions[o]>> : o \in {p \in Ordinals : InBranch(root, p)}}
BranchRecords(root)    == <<Keyed(root, mandates), Keyed(root, instantiations), Keyed(root, sessions),
                            {<<e, environments[e]>> : e \in {p \in Efforts : InBranch(root, p)}}>>
BranchActions(root)    == {i \in DOMAIN actions : InBranch(root, actions[i].target[1])}
BranchWork(root)       == <<{i \in DOMAIN disciplines : InBranch(root, disciplines[i].effort)},
                            {i \in DOMAIN executions :
                               InBranch(root, disciplines[executions[i]].effort)}>>
BranchHistory(root)    == {e \in history : InBranch(root, e.ordinal)}

\* What is recorded of an effort names only what is of that effort: a position
\* its discipline, in whose initiator's branch it was delegated; a discipline
\* its initiator, and as its parent the one the initiator takes part in; an
\* event its discipline, and an execution of that one.
NamesItsOwn ==
  /\ \A o \in Ordinals : positions[o].discipline # NoDiscipline =>
       /\ disciplines[positions[o].discipline].effort = positions[o].effort
       /\ Descendant(Parent(o), disciplines[positions[o].discipline].initiator)
  /\ \A d \in DOMAIN disciplines :
       LET row == disciplines[d]
       IN /\ row.initiator \in Ordinals /\ row.effort = positions[row.initiator].effort
          /\ row.parent # NoDiscipline => positions[row.initiator].discipline = row.parent
  /\ \A e \in history :
       /\ e.discipline # NoDiscipline =>
            disciplines[e.discipline].effort = positions[e.ordinal].effort
       /\ e.execution # 0 => executions[e.execution] = e.discipline

\* An operation is done under an effort's scope or the root mandate's version
\* of that moment, changes records only of the efforts its scope covers, and
\* leaves no record naming a discipline, an initiator or an execution of
\* another effort, whatever discipline, target or ordinal the caller names.
StaysInScope ==
  [][/\ used'.version \in {0, positions[Root].mandate}
     /\ \A e \in (Efforts \cup {Root}) \ used'.efforts :
          /\ positions' = positions \/ BranchPositions(e)' = BranchPositions(e)
          /\ \/ <<mandates, instantiations, sessions, environments>>' =
                   <<mandates, instantiations, sessions, environments>>
             \/ BranchRecords(e)' = BranchRecords(e)
          /\ actions' = actions \/ BranchActions(e)' = BranchActions(e)
          /\ \/ <<disciplines, executions>>' = <<disciplines, executions>>
             \/ BranchWork(e)' = BranchWork(e)
          /\ history' = history \/ BranchHistory(e)' = BranchHistory(e)
     /\ NamesItsOwn']_vars

=============================================================================
