---------------------------- MODULE ScopeProofs -----------------------------
(***************************************************************************)
(* Theorems of the ordinal domain, for every bound: the occupants of a     *)
(* position and their sessions, the authority its mandates came from, and  *)
(* the efforts an operation may touch.                                     *)
(***************************************************************************)
EXTENDS Scope, SequenceTheorems, TLAPS

Ordinal   == Seq(Nat)
Targets   == Ordinal \X Nat \X Nat
Positive  == Nat \ {0}

PositionRecord == [status : {"open", "closed"}, next : Nat, effort : Ordinal, discipline : Nat,
                   current : Nat, mandate : Positive]
MandateRecord  == [delegator : Targets, received : Nat]
InstanceRecord == [mandate : Nat, predecessor : Nat, status : {"active", "superseded"},
                   session : Nat]
SessionStatus  == {"open", "closed", "superseded"}
DisciplineRow  == [effort : Ordinal, initiator : Ordinal, parent : Nat, environment : Nat]

\* The tables: their rows, and their foreign keys.
PositionTable ==
  /\ positions \in [Ordinals -> PositionRecord]
  /\ Ordinals \subseteq Ordinal /\ Root \in Ordinals
  /\ environments \in [Efforts -> Nat] /\ Efforts \subseteq Ordinals

MandateTable ==
  /\ mandates \in [DOMAIN mandates -> MandateRecord]
  /\ DOMAIN mandates \subseteq Ordinals \X Nat

AgentTable ==
  /\ instantiations \in [DOMAIN instantiations -> InstanceRecord]
  /\ DOMAIN instantiations \subseteq Ordinals \X Nat
  /\ sessions \in [DOMAIN sessions -> SessionStatus]
  /\ DOMAIN sessions \subseteq Ordinals \X Nat \X Positive
  /\ \A t \in DOMAIN sessions : Agent(t) \in DOMAIN instantiations

WorkTable ==
  /\ disciplines \in Seq(DisciplineRow) /\ executions \in Seq(Nat)
  /\ \A d \in DOMAIN disciplines : disciplines[d].effort \in Efforts
  /\ \A o \in Ordinals : positions[o].discipline \in {NoDiscipline} \cup DOMAIN disciplines
  /\ \A x \in DOMAIN executions : executions[x] \in DOMAIN disciplines
  /\ actions \in Seq([target : Targets, mandate : Nat, environment : Nat])
  /\ \A i \in DOMAIN actions : actions[i].target \in DOMAIN sessions
  /\ history \subseteq [ordinal : Ordinals, discipline : {NoDiscipline} \cup DOMAIN disciplines,
                        execution : {0} \cup DOMAIN executions]

\* The tree: a position other than the root is a child its parent has counted,
\* in the effort its first number names; an effort is a child of the root.
Tree ==
  /\ \A o \in Ordinals : o # Root =>
       /\ Parent(o) \in Ordinals /\ o[Len(o)] < positions[Parent(o)].next
       /\ positions[o].effort = <<o[1]>> /\ positions[o].effort \in Efforts
  /\ positions[Root].effort = NoEffort
  /\ \A e \in Efforts : e # Root /\ e = <<e[1]>>

\* The occupants of a position are numbered from 1 to its current one, which
\* alone is active; their mandates were its own, and never got older.
Occupied ==
  /\ \A o \in Ordinals, n \in Nat :
       <<o, n>> \in DOMAIN instantiations <=> n \in 1 .. positions[o].current
  /\ \A o \in Ordinals, n \in Nat : <<o, n>> \in DOMAIN instantiations =>
       /\ instantiations[<<o, n>>].predecessor = n - 1
       /\ instantiations[<<o, n>>].status = "active" <=> positions[o].current = n
       /\ instantiations[<<o, n>>].mandate \in 1 .. positions[o].mandate
       /\ n > 1 => instantiations[<<o, n - 1>>].mandate <= instantiations[<<o, n>>].mandate

\* The sessions of an agent are numbered from 1 without a gap.
Numbered ==
  \A k \in DOMAIN instantiations : \E n \in Nat : SessionsOf(k) = 1 .. n

\* The mandates of a position are numbered from 1 to its current one, and an
\* agent that entrusted one is recorded.
Entrusted ==
  /\ \A o \in Ordinals, v \in Nat :
       <<o, v>> \in DOMAIN mandates <=> v \in 1 .. positions[o].mandate
  /\ \A k \in DOMAIN mandates :
       k[1] # Root /\ mandates[k].delegator # Human =>
         Agent(mandates[k].delegator) \in DOMAIN instantiations

ScopeTypes == PositionTable /\ MandateTable /\ AgentTable /\ WorkTable
ScopeInv ==
  /\ ScopeTypes /\ Tree /\ Occupied /\ Numbered /\ Entrusted
  /\ OpenIsDesignated /\ AuthorityWasReceived

-----------------------------------------------------------------------------
(* Tables and ordinals.                                                    *)

\* A table stays one of its rows' type when a row of it is written.
LEMMA PutTyped ==
  ASSUME NEW Row, NEW table, NEW key, NEW row \in Row, table \in [DOMAIN table -> Row]
  PROVE  Put(table, key, row) \in [DOMAIN Put(table, key, row) -> Row]
  BY DEF Put

\* A child's ordinal: its parent is the one it was appended to.
LEMMA ChildOf ==
  ASSUME NEW p \in Ordinal, NEW n \in Nat
  PROVE  /\ Append(p, n) \in Ordinal /\ Append(p, n) # Root
         /\ Parent(Append(p, n)) = p
         /\ Append(p, n)[Len(Append(p, n))] = n
         /\ p # Root => Append(p, n)[1] = p[1]
         /\ p = Root => Append(p, n)[1] = n /\ Append(p, n) = <<n>>
<1> DEFINE c == Append(p, n)
<1>1. /\ c \in Ordinal /\ Len(c) = Len(p) + 1 /\ Len(p) \in Nat
      /\ c[Len(p) + 1] = n /\ \A i \in 1 .. Len(p) : c[i] = p[i]
  BY DEF Ordinal
<1>2. c # Root
  BY <1>1 DEF Root, Ordinal
<1>3. Parent(c) = p
  <2>1. Parent(c) = SubSeq(c, 1, Len(p))
    BY <1>1 DEF Parent
  <2>2. /\ SubSeq(c, 1, Len(p)) \in Ordinal /\ Len(SubSeq(c, 1, Len(p))) = Len(p)
        /\ \A i \in 1 .. Len(p) : SubSeq(c, 1, Len(p))[i] = c[i]
    BY <1>1, SubSeqProperties DEF Ordinal
  <2> QED BY <1>1, <2>1, <2>2, SeqEqual DEF Ordinal
<1>4. p # Root => c[1] = p[1]
  <2>1. p # Root => Len(p) # 0
    BY EmptySeq DEF Ordinal, Root
  <2> QED BY <1>1, <2>1
<1>5. p = Root => c[1] = n /\ c = <<n>>
  BY DEF Root
<1> QED BY <1>1, <1>2, <1>3, <1>4, <1>5

\* Numbering from 1 without a gap goes on with the next number.
LEMMA FollowingIs ==
  ASSUME NEW n \in Nat
  PROVE  Following(1 .. n) = n + 1
<1>1. CASE n = 0
  <2>1. 1 .. n = {}
    BY <1>1
  <2> QED BY <1>1, <2>1 DEF Following
<1>2. CASE n # 0
  <2> DEFINE Last(m) == m \in 1 .. n /\ \A x \in 1 .. n : x <= m
  <2>1. Last(n) /\ 1 .. n # {}
    BY <1>2
  <2>2. \A m : Last(m) => m = n
    BY <1>2
  <2>3. (CHOOSE m \in 1 .. n : \A x \in 1 .. n : x <= m) = n
    BY <2>1, <2>2
  <2> QED BY <2>1, <2>3 DEF Following
<1> QED BY <1>1, <1>2

-----------------------------------------------------------------------------
(* What an operation leaves alone.                                         *)

\* No occupant changes, no mandate is withdrawn, a new position is empty.
Grows ==
  /\ \A o \in Ordinals : /\ o \in Ordinals'
                         /\ positions'[o].current = positions[o].current
                         /\ positions[o].mandate <= positions'[o].mandate
  /\ \A o \in Ordinals' \ Ordinals : positions'[o].current = 0

LEMMA AgentsKept ==
  ASSUME ScopeTypes, Occupied, Numbered, OpenIsDesignated, PositionTable', UNCHANGED agents, Grows
  PROVE  AgentTable' /\ Occupied' /\ Numbered' /\ OpenIsDesignated'
<1>1. instantiations' = instantiations /\ sessions' = sessions
  BY DEF agents
<1>2. AgentTable'
  BY <1>1 DEF ScopeTypes, AgentTable, Grows, Agent
<1>3. Occupied'
  <2>1. \A o \in Ordinals' \ Ordinals, n \in Nat : <<o, n>> \notin DOMAIN instantiations
    BY DEF ScopeTypes, AgentTable
  <2>2. \A o \in Ordinals' : positions'[o] \in PositionRecord
    BY DEF PositionTable
  <2>3. \A o \in Ordinals', n \in Nat :
          <<o, n>> \in DOMAIN instantiations <=> n \in 1 .. positions'[o].current
    <3>1. TAKE o \in Ordinals', n \in Nat
    <3>2. CASE o \in Ordinals
      BY <3>2 DEF Occupied, Grows
    <3>3. CASE o \notin Ordinals
      <4>1. positions'[o].current = 0
        BY <3>3 DEF Grows
      <4>2. n \notin 1 .. 0
        OBVIOUS
      <4> QED BY <2>1, <3>3, <4>1, <4>2
    <3> QED BY <3>2, <3>3
  <2>4. \A o \in Ordinals : positions[o] \in PositionRecord
    BY DEF ScopeTypes, PositionTable
  <2>5. \A k \in DOMAIN instantiations : instantiations[k] \in InstanceRecord
    BY DEF ScopeTypes, AgentTable
  <2>6. ASSUME NEW o \in Ordinals', NEW n \in Nat, <<o, n>> \in DOMAIN instantiations
        PROVE  /\ instantiations[<<o, n>>].predecessor = n - 1
               /\ instantiations[<<o, n>>].status = "active" <=> positions'[o].current = n
               /\ instantiations[<<o, n>>].mandate \in 1 .. positions'[o].mandate
               /\ n > 1 => instantiations[<<o, n - 1>>].mandate <= instantiations[<<o, n>>].mandate
    <3>1. o \in Ordinals
      BY <2>1, <2>6
    <3>2. instantiations[<<o, n>>].mandate \in 1 .. positions'[o].mandate
      <4>1. /\ instantiations[<<o, n>>].mandate \in 1 .. positions[o].mandate
            /\ positions[o].mandate <= positions'[o].mandate
            /\ positions[o].mandate \in Nat /\ positions'[o].mandate \in Nat
        BY <3>1, <2>6, <2>2, <2>4 DEF Occupied, Grows, PositionRecord, Positive
      <4> QED BY <4>1
    <3> QED BY <2>6, <3>1, <3>2 DEF Occupied, Grows
  <2> QED BY <1>1, <2>3, <2>6 DEF Occupied
<1>4. Numbered'
  BY <1>1 DEF Numbered, SessionsOf
<1>5. OpenIsDesignated'
  <2>1. \A t \in DOMAIN sessions : t[1] \in Ordinals
    BY DEF ScopeTypes, AgentTable
  <2> QED BY <1>1, <2>1 DEF OpenIsDesignated, Grows
<1> QED BY <1>2, <1>3, <1>4, <1>5

\* No mandate is entrusted, and no recorded agent's own changes.
SameAuthority ==
  /\ mandates' = mandates /\ Ordinals' = Ordinals
  /\ \A o \in Ordinals : positions'[o].mandate = positions[o].mandate
  /\ \A k \in DOMAIN instantiations :
       k \in DOMAIN instantiations' /\ instantiations'[k].mandate = instantiations[k].mandate

LEMMA LineageKept ==
  ASSUME MandateTable, Entrusted, AuthorityWasReceived, SameAuthority
  PROVE  MandateTable' /\ Entrusted' /\ AuthorityWasReceived'
<1>1. MandateTable'
  BY DEF MandateTable, SameAuthority
<1>2. Entrusted'
  BY DEF Entrusted, SameAuthority
<1>3. AuthorityWasReceived'
  BY DEF AuthorityWasReceived, SameAuthority, Entrusted, Parent
<1> QED BY <1>1, <1>2, <1>3

\* No position or effort is created, and none is moved.
SameTree ==
  /\ Ordinals' = Ordinals /\ Efforts' = Efforts
  /\ \A o \in Ordinals : positions'[o].effort = positions[o].effort
                         /\ positions'[o].next = positions[o].next
                         /\ positions'[o].discipline = positions[o].discipline

LEMMA TreeKept ==
  ASSUME Tree, PositionTable, SameTree
  PROVE  Tree'
  BY DEF Tree, SameTree, Parent, PositionTable

\* Positions, efforts and sessions that work refers to are still there.
WorkStands ==
  /\ UNCHANGED work /\ Ordinals \subseteq Ordinals' /\ Efforts \subseteq Efforts'
  /\ \A o \in Ordinals : positions'[o].discipline = positions[o].discipline
  /\ \A o \in Ordinals' \ Ordinals :
       positions'[o].discipline \in {NoDiscipline} \cup DOMAIN disciplines
  /\ DOMAIN sessions \subseteq DOMAIN sessions'

LEMMA WorkKept ==
  ASSUME WorkTable, WorkStands
  PROVE  WorkTable'
  BY DEF WorkTable, WorkStands, work

\* A column of one position is written.
LEMMA ColumnWritten ==
  ASSUME PositionTable, environments' \in [Efforts' -> Nat], Efforts' = Efforts,
         NEW o \in Ordinals, NEW row \in PositionRecord, positions' = [positions EXCEPT ![o] = row]
  PROVE  /\ PositionTable' /\ Ordinals' = Ordinals
         /\ positions'[o] = row /\ \A p \in Ordinals : p # o => positions'[p] = positions[p]
  BY DEF PositionTable, Ordinals, Efforts

-----------------------------------------------------------------------------
(* Positions and mandates.                                                 *)

\* Who entrusts: a human, or a recorded session of the parent position.
LEMMA OriginIs ==
  ASSUME ScopeTypes, Occupied, NEW o \in Ordinals, NEW t \in Origins(o)
  PROVE  /\ t \in Targets
         /\ t # Human => /\ t[1] = o /\ Agent(t) \in DOMAIN instantiations
                         /\ instantiations[Agent(t)].mandate \in 1 .. positions[o].mandate
<1>1. CASE t = Human
  <2>1. Root \in Ordinal
    BY DEF Root, Ordinal
  <2> QED BY <1>1, <2>1 DEF Human, Targets
<1>2. CASE t # Human
  <2>1. t \in DOMAIN sessions /\ t[1] = o
    BY <1>2 DEF Origins
  <2>2. t \in Targets /\ Agent(t) \in DOMAIN instantiations /\ t[2] \in Nat
    BY <2>1 DEF ScopeTypes, AgentTable, PositionTable, Targets, Positive
  <2>3. instantiations[<<o, t[2]>>].mandate \in 1 .. positions[o].mandate
    BY <2>1, <2>2 DEF Occupied, Agent
  <2> QED BY <2>1, <2>2, <2>3 DEF Agent
<1> QED BY <1>1, <1>2

\* A mandate written under the next version of its position, entrusted by an
\* origin of the parent: what it received is recorded.
LEMMA EntrustKeeps ==
  ASSUME ScopeTypes, Occupied, Entrusted, AuthorityWasReceived, UNCHANGED agents,
         NEW o \in Ordinals', NEW version \in Positive, NEW delegator \in Targets,
         o # Root => Parent(o) \in Ordinals,
         o # Root /\ delegator # Human =>
           /\ delegator[1] = Parent(o) /\ Agent(delegator) \in DOMAIN instantiations
           /\ instantiations[Agent(delegator)].mandate \in 1 .. positions[Parent(o)].mandate,
         Ordinals' = Ordinals \cup {o}, Entrust(o, version, delegator),
         \A p \in Ordinals : p # o => positions'[p].mandate = positions[p].mandate,
         positions'[o].mandate = version,
         o \in Ordinals => version = positions[o].mandate + 1,
         o \notin Ordinals => version = 1
  PROVE  MandateTable' /\ Entrusted' /\ AuthorityWasReceived'
<1> DEFINE row == [delegator |-> delegator, received |-> Received(o, delegator)]
<1>1. \A p \in Ordinals : positions[p].mandate \in Positive
  BY DEF ScopeTypes, PositionTable, PositionRecord
<1>2. /\ Received(o, delegator) \in Nat
      /\ o # Root => Received(o, delegator) \in 1 .. positions[Parent(o)].mandate
      /\ o # Root /\ delegator # Human =>
           Received(o, delegator) = instantiations[Agent(delegator)].mandate
  <2>1. CASE o = Root
    BY <2>1 DEF Received
  <2>2. CASE o # Root /\ delegator = Human
    <3>1. Received(o, delegator) = positions[Parent(o)].mandate
      BY <2>2 DEF Received
    <3>2. positions[Parent(o)].mandate \in Nat \ {0}
      BY <1>1, <2>2 DEF Positive
    <3> QED BY <2>2, <3>1, <3>2
  <2>3. CASE o # Root /\ delegator # Human
    <3>1. Received(o, delegator) = instantiations[Agent(delegator)].mandate
      BY <2>3 DEF Received
    <3>2. positions[Parent(o)].mandate \in Nat \ {0}
      BY <1>1, <2>3 DEF Positive
    <3> QED BY <2>3, <3>1, <3>2
  <2> QED BY <2>1, <2>2, <2>3
<1>3. row \in MandateRecord
  BY <1>2 DEF MandateRecord
<1>4. /\ DOMAIN mandates' = DOMAIN mandates \cup {<<o, version>>}
      /\ mandates'[<<o, version>>] = row
      /\ \A k \in DOMAIN mandates : k # <<o, version>> => mandates'[k] = mandates[k]
      /\ mandates' \in [DOMAIN mandates' -> MandateRecord]
  <2>1. mandates' = Put(mandates, <<o, version>>, row)
    BY DEF Entrust
  <2>2. mandates \in [DOMAIN mandates -> MandateRecord]
    BY DEF ScopeTypes, MandateTable
  <2> HIDE DEF row
  <2>3. Put(mandates, <<o, version>>, row) \in
          [DOMAIN Put(mandates, <<o, version>>, row) -> MandateRecord]
    BY <2>2, <1>3, PutTyped
  <2>4. mandates' \in [DOMAIN mandates' -> MandateRecord]
    BY <2>1, <2>3
  <2>5. /\ DOMAIN mandates' = DOMAIN mandates \cup {<<o, version>>}
        /\ mandates'[<<o, version>>] = row
        /\ \A k \in DOMAIN mandates : k # <<o, version>> => mandates'[k] = mandates[k]
    BY <2>1 DEF Put
  <2> QED BY <2>4, <2>5
<1>5. MandateTable'
  BY <1>4 DEF ScopeTypes, MandateTable, Positive
<1>6. <<o, version>> \notin DOMAIN mandates
  <2>1. CASE o \in Ordinals
    BY <2>1, <1>1 DEF Entrusted, Positive
  <2>2. CASE o \notin Ordinals
    BY <2>2 DEF ScopeTypes, MandateTable
  <2> QED BY <2>1, <2>2
<1>7. Entrusted'
  <2>1. ASSUME NEW p \in Ordinals', NEW v \in Nat
        PROVE  <<p, v>> \in DOMAIN mandates' <=> v \in 1 .. positions'[p].mandate
    <3>1. CASE p # o
      BY <1>4, <2>1, <3>1 DEF Entrusted
    <3>2. CASE p = o /\ o \in Ordinals
      <4>1. <<o, v>> \in DOMAIN mandates' <=> v \in 1 .. positions[o].mandate \/ v = version
        BY <1>4, <3>2 DEF Entrusted
      <4>2. positions[o].mandate \in Nat /\ version = positions[o].mandate + 1
        BY <1>1, <3>2 DEF Positive
      <4> QED BY <3>2, <4>1, <4>2
    <3>3. CASE p = o /\ o \notin Ordinals
      <4>1. <<o, v>> \in DOMAIN mandates' <=> v = 1
        BY <1>4, <3>3 DEF ScopeTypes, MandateTable
      <4> QED BY <3>3, <4>1
    <3> QED BY <3>1, <3>2, <3>3
  <2>2. instantiations' = instantiations
    BY DEF agents
  <2>3. ASSUME NEW k \in DOMAIN mandates', k[1] # Root, mandates'[k].delegator # Human
        PROVE  Agent(mandates'[k].delegator) \in DOMAIN instantiations'
    BY <1>4, <2>2, <2>3 DEF Entrusted
  <2> QED BY <2>1, <2>3 DEF Entrusted
<1>8. AuthorityWasReceived'
  <2>1. instantiations' = instantiations
    BY DEF agents
  <2>2. ASSUME NEW k \in DOMAIN mandates', k[1] # Root
        PROVE  /\ <<Parent(k[1]), mandates'[k].received>> \in DOMAIN mandates'
               /\ mandates'[k].delegator # Human =>
                    /\ mandates'[k].delegator[1] = Parent(k[1])
                    /\ mandates'[k].received = instantiations'[Agent(mandates'[k].delegator)].mandate
    <3>1. CASE k = <<o, version>>
      BY <1>1, <1>2, <1>4, <2>1, <2>2, <3>1 DEF Entrusted, Positive
    <3>2. CASE k # <<o, version>>
      BY <1>4, <2>1, <2>2, <3>2 DEF AuthorityWasReceived
    <3> QED BY <3>1, <3>2
  <2> QED BY <2>2 DEF AuthorityWasReceived, Parent
<1> QED BY <1>5, <1>7, <1>8

\* A new position keeps everything: its ordinal was never used before.
LEMMA AllocateKeeps ==
  ASSUME ScopeInv, NEW parent \in Ordinals, NEW effort \in Ordinal,
         NEW d \in {NoDiscipline} \cup DOMAIN disciplines, NEW delegator \in Origins(parent),
         Allocate(parent, effort, d, delegator), UNCHANGED <<agents, work>>,
         environments' \in [Efforts' -> Nat],
         Efforts' = Efforts \/ (parent = Root /\ Efforts' = Efforts \cup {NextChild(parent)}),
         effort = <<NextChild(parent)[1]>>, effort \in Efforts'
  PROVE  /\ ScopeInv' /\ NextChild(parent) \notin Ordinals
         /\ Ordinals' = Ordinals \cup {NextChild(parent)}
         /\ \A o \in Ordinals : o # parent => positions'[o] = positions[o]
         /\ \A k \in DOMAIN mandates : k \in DOMAIN mandates' /\ mandates'[k] = mandates[k]
         /\ DOMAIN mandates' = DOMAIN mandates \cup {<<NextChild(parent), 1>>}
<1> DEFINE child == NextChild(parent)
           new   == Position(effort, d)
<1>1. /\ positions \in [Ordinals -> PositionRecord] /\ Ordinals \subseteq Ordinal
      /\ Root \in Ordinals /\ positions[parent] \in PositionRecord /\ positions[parent].next \in Nat
  BY DEF ScopeInv, ScopeTypes, PositionTable, PositionRecord
<1>2. /\ child \in Ordinal /\ child # Root /\ Parent(child) = parent
      /\ child[Len(child)] = positions[parent].next
      /\ parent # Root => child[1] = parent[1]
      /\ parent = Root => child = <<child[1]>>
  BY <1>1, ChildOf DEF NextChild
<1>3. child \notin Ordinals
  BY <1>1, <1>2 DEF ScopeInv, Tree
<1>4. PICK old : old = [positions[parent] EXCEPT !.next = positions[parent].next + 1]
  OBVIOUS
<1>5. /\ old \in PositionRecord /\ old.next = positions[parent].next + 1
      /\ old.effort = positions[parent].effort /\ old.current = positions[parent].current
      /\ old.discipline = positions[parent].discipline
      /\ old.mandate = positions[parent].mandate
  BY <1>1, <1>4 DEF PositionRecord
<1>6. /\ new \in PositionRecord /\ new.next = 0 /\ new.effort = effort /\ new.current = 0
      /\ new.mandate = 1 /\ new.discipline = d
  <2>1. d \in Nat
    BY DEF ScopeInv, ScopeTypes, WorkTable, NoDiscipline
  <2> QED BY <2>1 DEF PositionRecord, Position, Positive
<1>7. positions' = Put([positions EXCEPT ![parent] = old], child, new)
  BY <1>4 DEF Allocate
<1> HIDE DEF new, child
<1>8. /\ Ordinals' = Ordinals \cup {child} /\ positions'[child] = new
      /\ positions' \in [Ordinals' -> PositionRecord]
      /\ positions'[parent] = old
      /\ \A o \in Ordinals : o # parent => positions'[o] = positions[o]
  BY <1>1, <1>3, <1>5, <1>6, <1>7 DEF Put, Ordinals
<1>9. PositionTable'
  <2>1. Efforts' \subseteq Ordinals'
    BY <1>8 DEF ScopeInv, ScopeTypes, PositionTable, child
  <2> QED BY <1>1, <1>2, <1>8, <2>1 DEF PositionTable
<1>10. Grows
  <2>1. \A o \in Ordinals : positions[o].mandate \in Nat
    BY <1>1 DEF PositionRecord, Positive
  <2> QED BY <1>3, <1>5, <1>6, <1>8, <2>1 DEF Grows
<1>11. AgentTable' /\ Occupied' /\ Numbered' /\ OpenIsDesignated'
  BY <1>9, <1>10, AgentsKept DEF ScopeInv
<1>12. /\ delegator \in Targets
       /\ delegator # Human => /\ delegator[1] = parent
                               /\ Agent(delegator) \in DOMAIN instantiations
                               /\ instantiations[Agent(delegator)].mandate
                                    \in 1 .. positions[parent].mandate
  BY OriginIs DEF ScopeInv
<1>13. MandateTable' /\ Entrusted' /\ AuthorityWasReceived'
  <2>1. Entrust(child, 1, delegator)
    BY DEF Allocate, Entrust, child
  <2>2. /\ positions'[child].mandate = 1
        /\ \A p \in Ordinals : p # child => positions'[p].mandate = positions[p].mandate
    BY <1>5, <1>6, <1>8
  <2> QED BY SMTT(60), <1>2, <1>3, <1>8, <1>12, <2>1, <2>2, EntrustKeeps DEF ScopeInv, Positive
<1>14. Tree'
  <2>1. Efforts \subseteq Efforts'
    OBVIOUS
  <2>2. ASSUME NEW o \in Ordinals', o # Root
        PROVE  /\ Parent(o) \in Ordinals' /\ o[Len(o)] < positions'[Parent(o)].next
               /\ positions'[o].effort = <<o[1]>> /\ positions'[o].effort \in Efforts'
    <3>1. CASE o = child
      BY <1>1, <1>2, <1>5, <1>6, <1>8, <3>1 DEF child
    <3>2. CASE o # child
      <4>1. /\ o \in Ordinals /\ Parent(o) \in Ordinals
            /\ o[Len(o)] < positions[Parent(o)].next
            /\ positions[o].effort = <<o[1]>> /\ positions[o].effort \in Efforts'
        BY <1>8, <2>1, <2>2, <3>2 DEF ScopeInv, Tree
      <4>2. positions'[o].effort = positions[o].effort
        BY <1>5, <1>8, <4>1
      <4>3. CASE Parent(o) # parent
        BY <1>8, <4>1, <4>2, <4>3
      <4>4. CASE Parent(o) = parent
        <5>1. o[Len(o)] \in Nat
          <6>1. o \in Ordinal /\ Len(o) \in 1 .. Len(o)
            BY <1>1, <2>2, <4>1, EmptySeq DEF Ordinal, Root
          <6> QED BY <6>1 DEF Ordinal
        <5>2. o[Len(o)] < positions'[parent].next
          BY <1>1, <1>5, <1>8, <4>1, <4>4, <5>1
        <5> QED BY <1>8, <4>1, <4>2, <4>4, <5>2
      <4> QED BY <4>3, <4>4
    <3> QED BY <3>1, <3>2
  <2>3. positions'[Root].effort = NoEffort
    BY <1>1, <1>5, <1>8 DEF ScopeInv, Tree
  <2>4. \A e \in Efforts' : e # Root /\ e = <<e[1]>>
    BY <1>2 DEF ScopeInv, Tree, child
  <2> QED BY <2>2, <2>3, <2>4 DEF Tree, Parent
<1>15. WorkTable'
  <2>1. WorkStands
    BY <1>1, <1>3, <1>5, <1>6, <1>8 DEF WorkStands, agents
  <2> QED BY <2>1, WorkKept DEF ScopeInv, ScopeTypes
<1>16. /\ \A k \in DOMAIN mandates : k \in DOMAIN mandates' /\ mandates'[k] = mandates[k]
       /\ DOMAIN mandates' = DOMAIN mandates \cup {<<child, 1>>}
  <2>1. <<child, 1>> \notin DOMAIN mandates
    BY <1>3 DEF ScopeInv, ScopeTypes, MandateTable
  <2> QED BY <2>1 DEF Allocate, Put, child
<1> QED
  BY <1>3, <1>8, <1>9, <1>11, <1>13, <1>14, <1>15, <1>16 DEF ScopeInv, ScopeTypes, child

\* Creating an effort meets what an allocation needs.
LEMMA EffortAllocated ==
  ASSUME ScopeInv, CreateEffort
  PROVE  /\ ScopeInv' /\ NextChild(Root) \notin Ordinals
         /\ Ordinals' = Ordinals \cup {NextChild(Root)}
         /\ \A o \in Ordinals : o # Root => positions'[o] = positions[o]
         /\ \A k \in DOMAIN mandates : k \in DOMAIN mandates' /\ mandates'[k] = mandates[k]
         /\ DOMAIN mandates' = DOMAIN mandates \cup {<<NextChild(Root), 1>>}
         /\ NextChild(Root) = <<NextChild(Root)[1]>> /\ NextChild(Root) # Root
<1>1. PICK delegator \in Origins(Root) :
        Allocate(Root, NextChild(Root), NoDiscipline, delegator)
  BY DEF CreateEffort
<1>2. Root \in Ordinals /\ positions[Root].next \in Nat /\ Root \in Ordinal
  BY DEF ScopeInv, ScopeTypes, PositionTable, PositionRecord
<1>3. /\ NextChild(Root) \in Ordinal /\ NextChild(Root) # Root
      /\ NextChild(Root) = <<NextChild(Root)[1]>>
  <2>1. PICK n \in Nat : n = positions[Root].next
    BY <1>2
  <2>2. /\ Append(Root, n) \in Ordinal /\ Append(Root, n) # Root
        /\ Append(Root, n)[1] = n /\ Append(Root, n) = <<n>>
    BY <1>2, <2>1, ChildOf
  <2> QED BY <2>1, <2>2 DEF NextChild
<1>4. environments' = Put(environments, NextChild(Root), 1)
  BY DEF CreateEffort
<1>5. /\ environments' \in [Efforts' -> Nat] /\ Efforts' = Efforts \cup {NextChild(Root)}
  BY <1>4 DEF Put, Efforts, ScopeInv, ScopeTypes, PositionTable
<1>6. UNCHANGED <<agents, work>>
  BY DEF CreateEffort
<1>7. /\ ScopeInv' /\ NextChild(Root) \notin Ordinals
      /\ Ordinals' = Ordinals \cup {NextChild(Root)}
      /\ \A o \in Ordinals : o # Root => positions'[o] = positions[o]
      /\ \A k \in DOMAIN mandates : k \in DOMAIN mandates' /\ mandates'[k] = mandates[k]
      /\ DOMAIN mandates' = DOMAIN mandates \cup {<<NextChild(Root), 1>>}
  BY <1>1, <1>2, <1>3, <1>5, <1>6, AllocateKeeps
<1> QED BY <1>3, <1>7

\* So does delegation: the child works for its parent's effort.
LEMMA ChildAllocated ==
  ASSUME ScopeInv, NEW scope, NEW parent \in Ordinals, Delegate(scope, parent)
  PROVE  /\ ScopeInv' /\ NextChild(parent) \notin Ordinals
         /\ Ordinals' = Ordinals \cup {NextChild(parent)}
         /\ \A o \in Ordinals : o # parent => positions'[o] = positions[o]
         /\ \A k \in DOMAIN mandates : k \in DOMAIN mandates' /\ mandates'[k] = mandates[k]
         /\ DOMAIN mandates' = DOMAIN mandates \cup {<<NextChild(parent), 1>>}
         /\ parent # Root /\ NextChild(parent) # Root /\ NextChild(parent)[1] = parent[1]
<1>1. PICK delegator \in Origins(parent), d \in {NoDiscipline} \cup DOMAIN disciplines :
        Allocate(parent, positions[parent].effort, d, delegator)
  BY DEF Delegate
<1>2. parent # Root /\ positions[parent].effort = <<parent[1]>> /\ positions[parent].effort \in Efforts
  BY DEF ScopeInv, Tree, Delegate
<1>3. /\ positions[parent].next \in Nat /\ parent \in Ordinal /\ positions[parent].effort \in Ordinal
  BY DEF ScopeInv, ScopeTypes, PositionTable, PositionRecord
<1>4. /\ NextChild(parent) \in Ordinal /\ NextChild(parent) # Root
      /\ NextChild(parent)[1] = parent[1]
  BY <1>2, <1>3, ChildOf DEF NextChild
<1>5. environments' = environments /\ UNCHANGED <<agents, work>>
  BY DEF Delegate
<1>6. environments' \in [Efforts' -> Nat] /\ Efforts' = Efforts
  BY <1>5 DEF Efforts, ScopeInv, ScopeTypes, PositionTable
<1>7. /\ positions[parent].effort = <<NextChild(parent)[1]>>
      /\ positions[parent].effort \in Efforts'
  BY <1>2, <1>4, <1>6
<1>8. /\ ScopeInv' /\ NextChild(parent) \notin Ordinals
      /\ Ordinals' = Ordinals \cup {NextChild(parent)}
      /\ \A o \in Ordinals : o # parent => positions'[o] = positions[o]
      /\ \A k \in DOMAIN mandates : k \in DOMAIN mandates' /\ mandates'[k] = mandates[k]
      /\ DOMAIN mandates' = DOMAIN mandates \cup {<<NextChild(parent), 1>>}
  BY <1>1, <1>3, <1>5, <1>6, <1>7, AllocateKeeps
<1> QED BY <1>2, <1>4, <1>8

\* A revision entrusts the next version to the same position.
LEMMA ReviseKeeps ==
  ASSUME ScopeInv, NEW scope, NEW o \in Ordinals, ReviseMandate(scope, o)
  PROVE  /\ ScopeInv' /\ Ordinals' = Ordinals
         /\ \A p \in Ordinals : p # o => positions'[p] = positions[p]
         /\ \A k \in DOMAIN mandates : k \in DOMAIN mandates' /\ mandates'[k] = mandates[k]
         /\ DOMAIN mandates' = DOMAIN mandates \cup {<<o, positions[o].mandate + 1>>}
<1>1. PICK delegator \in Origins(Parent(o)) : Entrust(o, positions[o].mandate + 1, delegator)
  BY DEF ReviseMandate
<1>2. /\ positions \in [Ordinals -> PositionRecord] /\ positions[o] \in PositionRecord
      /\ positions[o].mandate \in Positive /\ o \in Ordinal /\ Root \in Ordinals
  BY DEF ScopeInv, ScopeTypes, PositionTable, PositionRecord
<1>3. Parent(o) \in Ordinals
  <2>1. CASE o = Root
    <3>1. Parent(<<>>) = <<>>
      BY DEF Parent
    <3> QED BY <1>2, <2>1, <3>1 DEF Root
  <2>2. CASE o # Root
    BY <2>2 DEF ScopeInv, Tree
  <2> QED BY <2>1, <2>2
<1>4. PICK row : row = [positions[o] EXCEPT !.mandate = positions[o].mandate + 1]
  OBVIOUS
<1>5. /\ row \in PositionRecord /\ row.mandate = positions[o].mandate + 1
      /\ row.next = positions[o].next /\ row.effort = positions[o].effort
      /\ row.current = positions[o].current /\ row.discipline = positions[o].discipline
  BY <1>2, <1>4 DEF PositionRecord, Positive
<1>6. /\ positions' = [positions EXCEPT ![o] = row] /\ environments' = environments
      /\ UNCHANGED <<agents, work>>
  BY <1>4 DEF ReviseMandate
<1>7. environments' \in [Efforts' -> Nat] /\ Efforts' = Efforts
  BY <1>6 DEF Efforts, ScopeInv, ScopeTypes, PositionTable
<1>8. /\ PositionTable' /\ Ordinals' = Ordinals /\ positions'[o] = row
      /\ \A p \in Ordinals : p # o => positions'[p] = positions[p]
  BY <1>5, <1>6, <1>7, ColumnWritten DEF ScopeInv, ScopeTypes
<1>9. Grows
  <2>1. \A p \in Ordinals : positions[p].mandate \in Nat
    BY <1>2 DEF PositionRecord, Positive
  <2> QED BY <1>5, <1>8, <2>1 DEF Grows
<1>10. AgentTable' /\ Occupied' /\ Numbered' /\ OpenIsDesignated'
  BY <1>6, <1>8, <1>9, AgentsKept DEF ScopeInv
<1>11. MandateTable' /\ Entrusted' /\ AuthorityWasReceived'
  <2>1. /\ delegator \in Targets
        /\ delegator # Human => /\ delegator[1] = Parent(o)
                                /\ Agent(delegator) \in DOMAIN instantiations
                                /\ instantiations[Agent(delegator)].mandate
                                     \in 1 .. positions[Parent(o)].mandate
    BY <1>1, <1>3, OriginIs DEF ScopeInv
  <2>2. positions[o].mandate + 1 \in Positive /\ Ordinals' = Ordinals \cup {o}
    BY <1>2, <1>8 DEF Positive
  <2>3. \A p \in Ordinals : p # o => positions'[p].mandate = positions[p].mandate
    BY <1>8
  <2>4. positions'[o].mandate = positions[o].mandate + 1
    BY <1>5, <1>8
  <2> QED BY <1>1, <1>3, <1>6, <1>8, <2>1, <2>2, <2>3, <2>4, EntrustKeeps DEF ScopeInv
<1>12. Tree'
  <2>1. SameTree
    BY <1>5, <1>7, <1>8 DEF SameTree
  <2> QED BY <2>1, TreeKept DEF ScopeInv, ScopeTypes
<1>13. WorkTable'
  <2>1. WorkStands
    BY <1>5, <1>6, <1>7, <1>8 DEF WorkStands, agents
  <2> QED BY <2>1, WorkKept DEF ScopeInv, ScopeTypes
<1>14. /\ \A k \in DOMAIN mandates : k \in DOMAIN mandates' /\ mandates'[k] = mandates[k]
       /\ DOMAIN mandates' = DOMAIN mandates \cup {<<o, positions[o].mandate + 1>>}
  <2>1. <<o, positions[o].mandate + 1>> \notin DOMAIN mandates
    BY <1>2 DEF ScopeInv, Entrusted, Positive
  <2> QED BY <1>1, <2>1 DEF Entrust, Put
<1> QED BY <1>8, <1>10, <1>11, <1>12, <1>13, <1>14 DEF ScopeInv, ScopeTypes

LEMMA EnvironmentKeeps ==
  ASSUME ScopeInv, NEW scope, NEW effort \in Efforts, SetEnvironment(scope, effort)
  PROVE  ScopeInv' /\ Efforts' = Efforts
<1>1. /\ positions' = positions /\ mandates' = mandates /\ UNCHANGED <<agents, work>>
      /\ environments' = [environments EXCEPT ![effort] = environments[effort] + 1]
  BY DEF SetEnvironment
<1>2. environments' \in [Efforts' -> Nat] /\ Efforts' = Efforts
  BY <1>1 DEF Efforts, ScopeInv, ScopeTypes, PositionTable
<1>3. PositionTable'
  BY <1>1, <1>2 DEF ScopeInv, ScopeTypes, PositionTable, Ordinals
<1>4. Grows
  <2>1. \A o \in Ordinals : positions[o].mandate \in Nat
    BY DEF ScopeInv, ScopeTypes, PositionTable, PositionRecord, Positive
  <2> QED BY <1>1, <2>1 DEF Grows, Ordinals
<1>5. AgentTable' /\ Occupied' /\ Numbered' /\ OpenIsDesignated'
  BY <1>1, <1>3, <1>4, AgentsKept DEF ScopeInv
<1>6. MandateTable' /\ Entrusted' /\ AuthorityWasReceived'
  <2>1. SameAuthority
    BY <1>1 DEF SameAuthority, Ordinals, agents
  <2> QED BY <2>1, LineageKept DEF ScopeInv, ScopeTypes
<1>7. Tree'
  <2>1. SameTree
    BY <1>1, <1>2 DEF SameTree, Ordinals
  <2> QED BY <2>1, TreeKept DEF ScopeInv, ScopeTypes
<1>8. WorkTable'
  <2>1. WorkStands
    BY <1>1, <1>2 DEF WorkStands, Ordinals, agents
  <2> QED BY <2>1, WorkKept DEF ScopeInv, ScopeTypes
<1> QED BY <1>2, <1>3, <1>5, <1>6, <1>7, <1>8 DEF ScopeInv, ScopeTypes

LEMMA CloseKeeps ==
  ASSUME ScopeInv, NEW scope, NEW o \in Ordinals, ClosePosition(scope, o)
  PROVE  /\ ScopeInv' /\ Ordinals' = Ordinals
         /\ \A p \in Ordinals : p # o => positions'[p] = positions[p]
<1>1. positions \in [Ordinals -> PositionRecord] /\ positions[o] \in PositionRecord
  BY DEF ScopeInv, ScopeTypes, PositionTable
<1>2. PICK row : row = [positions[o] EXCEPT !.status = "closed"]
  OBVIOUS
<1>3. /\ row \in PositionRecord /\ row.mandate = positions[o].mandate
      /\ row.next = positions[o].next /\ row.effort = positions[o].effort
      /\ row.current = positions[o].current /\ row.discipline = positions[o].discipline
  BY <1>1, <1>2 DEF PositionRecord
<1>4. /\ positions' = [positions EXCEPT ![o] = row]
      /\ UNCHANGED <<mandates, environments, agents, work>>
  BY <1>2 DEF ClosePosition, lineage
<1>5. environments' \in [Efforts' -> Nat] /\ Efforts' = Efforts
  BY <1>4 DEF Efforts, ScopeInv, ScopeTypes, PositionTable
<1>6. /\ PositionTable' /\ Ordinals' = Ordinals /\ positions'[o] = row
      /\ \A p \in Ordinals : p # o => positions'[p] = positions[p]
  BY <1>3, <1>4, <1>5, ColumnWritten DEF ScopeInv, ScopeTypes
<1>7. Grows
  <2>1. \A p \in Ordinals : positions[p].mandate \in Nat
    BY <1>1 DEF PositionRecord, Positive
  <2> QED BY <1>3, <1>6, <2>1 DEF Grows
<1>8. AgentTable' /\ Occupied' /\ Numbered' /\ OpenIsDesignated'
  BY <1>4, <1>6, <1>7, AgentsKept DEF ScopeInv
<1>9. MandateTable' /\ Entrusted' /\ AuthorityWasReceived'
  <2>1. SameAuthority
    BY <1>3, <1>4, <1>6 DEF SameAuthority, agents
  <2> QED BY <2>1, LineageKept DEF ScopeInv, ScopeTypes
<1>10. Tree'
  <2>1. SameTree
    BY <1>3, <1>5, <1>6 DEF SameTree
  <2> QED BY <2>1, TreeKept DEF ScopeInv, ScopeTypes
<1>11. WorkTable'
  <2>1. WorkStands
    BY <1>3, <1>4, <1>5, <1>6 DEF WorkStands, agents
  <2> QED BY <2>1, WorkKept DEF ScopeInv, ScopeTypes
<1> QED BY <1>6, <1>8, <1>9, <1>10, <1>11 DEF ScopeInv, ScopeTypes

-----------------------------------------------------------------------------
(* Agents and their sessions.                                              *)

\* Only sessions change, and which of them an instantiation designates.
OnlySessions ==
  /\ UNCHANGED <<positions, lineage, work>>
  /\ DOMAIN instantiations' = DOMAIN instantiations
  /\ instantiations' \in [DOMAIN instantiations -> InstanceRecord]
  /\ \A k \in DOMAIN instantiations :
       /\ instantiations'[k].mandate = instantiations[k].mandate
       /\ instantiations'[k].predecessor = instantiations[k].predecessor
       /\ instantiations'[k].status = instantiations[k].status
  /\ DOMAIN sessions \subseteq DOMAIN sessions'
  /\ sessions' \in [DOMAIN sessions' -> SessionStatus]
  /\ DOMAIN sessions' \subseteq Ordinals \X Nat \X Positive
  /\ \A t \in DOMAIN sessions' : Agent(t) \in DOMAIN instantiations

LEMMA SessionsWritten ==
  ASSUME ScopeInv, OnlySessions
  PROVE  ScopeTypes' /\ Tree' /\ Occupied' /\ Entrusted' /\ AuthorityWasReceived'
<1>1. /\ positions' = positions /\ environments' = environments /\ mandates' = mandates
      /\ Ordinals' = Ordinals /\ Efforts' = Efforts
  BY DEF OnlySessions, lineage, Ordinals, Efforts
<1>2. PositionTable'
  BY <1>1 DEF ScopeInv, ScopeTypes, PositionTable
<1>3. MandateTable' /\ Entrusted' /\ AuthorityWasReceived'
  <2>1. SameAuthority
    BY <1>1 DEF SameAuthority, OnlySessions
  <2> QED BY <2>1, LineageKept DEF ScopeInv, ScopeTypes
<1>4. Tree'
  <2>1. SameTree
    BY <1>1 DEF SameTree
  <2> QED BY <2>1, TreeKept DEF ScopeInv, ScopeTypes
<1>5. WorkTable'
  <2>1. WorkStands
    BY <1>1 DEF WorkStands, OnlySessions
  <2> QED BY <2>1, WorkKept DEF ScopeInv, ScopeTypes
<1>6. AgentTable'
  BY <1>1 DEF ScopeInv, ScopeTypes, AgentTable, OnlySessions
<1>7. Occupied'
  <2>1. ASSUME NEW o \in Ordinals, NEW n \in Nat, <<o, n>> \in DOMAIN instantiations, n > 1
        PROVE  <<o, n - 1>> \in DOMAIN instantiations
    <3>1. n \in 1 .. positions[o].current /\ positions[o].current \in Nat
      BY <2>1 DEF ScopeInv, ScopeTypes, Occupied, PositionTable, PositionRecord
    <3>2. n - 1 \in 1 .. positions[o].current /\ n - 1 \in Nat
      BY <2>1, <3>1
    <3> QED BY <3>2 DEF ScopeInv, Occupied
  <2> QED BY <1>1, <2>1 DEF ScopeInv, Occupied, OnlySessions
<1> QED BY <1>2, <1>3, <1>4, <1>5, <1>6, <1>7 DEF ScopeTypes

\* What is known of a target and of an agent by their rows.
LEMMA RowsAre ==
  ASSUME AgentTable
  PROVE  /\ \A k \in DOMAIN instantiations :
              /\ k = <<k[1], k[2]>> /\ k[1] \in Ordinals /\ k[2] \in Nat
              /\ instantiations[k] \in InstanceRecord
         /\ \A t \in DOMAIN sessions :
              /\ t = <<t[1], t[2], t[3]>> /\ t[1] \in Ordinals /\ t[2] \in Nat /\ t[3] \in Positive
              /\ Agent(t) \in DOMAIN instantiations /\ sessions[t] \in SessionStatus
              /\ t[3] \in SessionsOf(Agent(t))
  BY DEF AgentTable, SessionsOf, Agent

LEMMA OpenKeeps ==
  ASSUME ScopeInv, NEW scope, NEW k \in DOMAIN instantiations, OpenSession(scope, k)
  PROVE  /\ ScopeInv'
         /\ DOMAIN instantiations' = DOMAIN instantiations /\ DOMAIN sessions \subseteq DOMAIN sessions'
         /\ \A j \in DOMAIN instantiations : j # k => instantiations'[j] = instantiations[j]
         /\ \A t \in DOMAIN sessions' : Agent(t) # k => t \in DOMAIN sessions
         /\ \A t \in DOMAIN sessions : Agent(t) # k => sessions'[t] = sessions[t]
<1> USE RowsAre DEF ScopeInv, ScopeTypes
<1>1. PICK n \in Nat : SessionsOf(k) = 1 .. n
  BY DEF Numbered
<1> DEFINE opened == <<k[1], k[2], n + 1>>
<1>2. Following(SessionsOf(k)) = n + 1
  BY <1>1, FollowingIs
<1>3. PICK row : row = [instantiations[k] EXCEPT !.session = n + 1]
  OBVIOUS
<1>4. /\ row \in InstanceRecord /\ row.session = n + 1 /\ row.status = instantiations[k].status
      /\ row.mandate = instantiations[k].mandate
      /\ row.predecessor = instantiations[k].predecessor
  BY SMTT(60), <1>3 DEF InstanceRecord
<1>5. /\ instantiations' = [instantiations EXCEPT ![k] = row]
      /\ sessions' = Put(Supersede(k), opened, "open") /\ UNCHANGED <<positions, lineage, work>>
      /\ positions[k[1]].current = k[2] /\ instantiations[k].status = "active"
  BY <1>2, <1>3 DEF OpenSession, CurrentInstance
<1>6. /\ DOMAIN instantiations' = DOMAIN instantiations /\ instantiations'[k] = row
      /\ instantiations' \in [DOMAIN instantiations -> InstanceRecord]
      /\ \A j \in DOMAIN instantiations : j # k => instantiations'[j] = instantiations[j]
  BY <1>4, <1>5 DEF AgentTable
<1>7. /\ Agent(opened) = k /\ opened \in Ordinals \X Nat \X Positive /\ opened[3] = n + 1
      /\ opened[1] = k[1] /\ opened[2] = k[2]
  BY DEF Agent, Positive
<1>8. \A t \in DOMAIN sessions : Agent(t) = k => t[3] # n + 1 /\ t[1] = k[1] /\ t[2] = k[2]
  <2>1. n + 1 \notin 1 .. n
    OBVIOUS
  <2> QED BY <1>1, <2>1 DEF Agent
<1>9. opened \notin DOMAIN sessions
  BY <1>7, <1>8
<1>10. /\ DOMAIN sessions' = DOMAIN sessions \cup {opened} /\ sessions'[opened] = "open"
       /\ \A t \in DOMAIN sessions : Agent(t) # k => sessions'[t] = sessions[t]
       /\ \A t \in DOMAIN sessions : Agent(t) = k =>
            sessions'[t] # "open" /\ sessions'[t] \in SessionStatus
  <2> HIDE DEF opened
  <2> QED BY <1>5, <1>9 DEF Put, Supersede, SessionStatus
<1>11. sessions' \in [DOMAIN sessions' -> SessionStatus]
  <2>1. sessions' = [t \in DOMAIN sessions' |-> sessions'[t]]
    BY <1>5 DEF Put
  <2>2. \A t \in DOMAIN sessions' : sessions'[t] \in SessionStatus
    BY <1>10 DEF SessionStatus
  <2> QED BY <2>1, <2>2
<1>12. OnlySessions
  BY <1>4, <1>5, <1>6, <1>7, <1>10, <1>11 DEF OnlySessions, AgentTable
<1>13. ScopeTypes' /\ Tree' /\ Occupied' /\ Entrusted' /\ AuthorityWasReceived'
  BY <1>12, SessionsWritten
<1>14. Numbered'
  <2>1. ASSUME NEW j \in DOMAIN instantiations, j # k
        PROVE  SessionsOf(j)' = SessionsOf(j)
    BY <1>7, <1>10, <2>1 DEF SessionsOf
  <2>2. SessionsOf(k)' = SessionsOf(k) \cup {n + 1}
    <3> HIDE DEF opened
    <3> QED BY <1>7, <1>10 DEF SessionsOf
  <2>3. SessionsOf(k)' = 1 .. (n + 1)
    BY <1>1, <2>2
  <2> QED BY <1>6, <2>1, <2>3 DEF Numbered
<1>15. OpenIsDesignated'
  <2>1. positions' = positions
    BY <1>5
  <2>2. ASSUME NEW t \in DOMAIN sessions'
        PROVE  sessions'[t] = "open" <=>
                 /\ positions'[t[1]].current = t[2]
                 /\ instantiations'[Agent(t)].status = "active"
                 /\ instantiations'[Agent(t)].session = t[3]
    <3>1. CASE t = opened
      BY <1>4, <1>5, <1>6, <1>7, <1>10, <2>1, <3>1
    <3>2. CASE t \in DOMAIN sessions /\ Agent(t) = k
      BY <1>4, <1>6, <1>8, <1>10, <3>2
    <3>3. CASE t \in DOMAIN sessions /\ Agent(t) # k
      BY <1>6, <1>10, <2>1, <3>3 DEF OpenIsDesignated
    <3> QED BY <1>10, <3>1, <3>2, <3>3
  <2> QED BY <2>2 DEF OpenIsDesignated, Agent
<1> QED BY <1>6, <1>7, <1>10, <1>13, <1>14, <1>15

LEMMA ReopenKeeps ==
  ASSUME ScopeInv, NEW scope, NEW t \in DOMAIN sessions, Reopen(scope, t)
  PROVE  /\ ScopeInv'
         /\ DOMAIN instantiations' = DOMAIN instantiations /\ DOMAIN sessions' = DOMAIN sessions
         /\ \A j \in DOMAIN instantiations : j # Agent(t) => instantiations'[j] = instantiations[j]
         /\ \A u \in DOMAIN sessions : Agent(u) # Agent(t) => sessions'[u] = sessions[u]
<1> USE RowsAre DEF ScopeInv, ScopeTypes
<1>1. PICK k \in DOMAIN instantiations : k = Agent(t)
  OBVIOUS
<1>2. PICK row : row = [instantiations[k] EXCEPT !.session = t[3]]
  OBVIOUS
<1>3. /\ row \in InstanceRecord /\ row.session = t[3] /\ row.status = instantiations[k].status
      /\ row.mandate = instantiations[k].mandate
      /\ row.predecessor = instantiations[k].predecessor
  BY <1>2 DEF InstanceRecord, Positive
<1>4. /\ instantiations' = [instantiations EXCEPT ![k] = row]
      /\ sessions' = [Supersede(k) EXCEPT ![t] = "open"] /\ UNCHANGED <<positions, lineage, work>>
      /\ positions[k[1]].current = k[2] /\ instantiations[k].status = "active"
  BY <1>1, <1>2 DEF Reopen, CurrentInstance
<1>5. /\ DOMAIN instantiations' = DOMAIN instantiations /\ instantiations'[k] = row
      /\ instantiations' \in [DOMAIN instantiations -> InstanceRecord]
      /\ \A j \in DOMAIN instantiations : j # k => instantiations'[j] = instantiations[j]
  BY <1>3, <1>4 DEF AgentTable
<1>6. /\ DOMAIN sessions' = DOMAIN sessions /\ sessions'[t] = "open"
      /\ \A u \in DOMAIN sessions : Agent(u) # k => sessions'[u] = sessions[u]
      /\ \A u \in DOMAIN sessions : Agent(u) = k /\ u # t =>
           sessions'[u] # "open" /\ sessions'[u] \in SessionStatus
  BY <1>1, <1>4 DEF Supersede, SessionStatus
<1>7. sessions' \in [DOMAIN sessions' -> SessionStatus]
  <2>1. sessions' = [u \in DOMAIN sessions' |-> sessions'[u]]
    BY <1>4 DEF Supersede
  <2>2. \A u \in DOMAIN sessions' : sessions'[u] \in SessionStatus
    BY <1>6 DEF SessionStatus
  <2> QED BY <2>1, <2>2
<1>8. OnlySessions
  BY <1>3, <1>4, <1>5, <1>6, <1>7 DEF OnlySessions, AgentTable
<1>9. ScopeTypes' /\ Tree' /\ Occupied' /\ Entrusted' /\ AuthorityWasReceived'
  BY <1>8, SessionsWritten
<1>10. Numbered'
  BY ZenonT(60), <1>5, <1>6 DEF Numbered, SessionsOf
<1>11. OpenIsDesignated'
  <2>1. positions' = positions
    BY <1>4
  <2>2. ASSUME NEW u \in DOMAIN sessions'
        PROVE  sessions'[u] = "open" <=>
                 /\ positions'[u[1]].current = u[2]
                 /\ instantiations'[Agent(u)].status = "active"
                 /\ instantiations'[Agent(u)].session = u[3]
    <3>1. CASE u = t
      BY <1>1, <1>3, <1>4, <1>5, <1>6, <2>1, <3>1 DEF Agent
    <3>2. CASE u # t /\ Agent(u) = k
      <4>1. u[3] # t[3]
        BY <1>1, <1>6, <3>2 DEF Agent
      <4> QED BY <1>3, <1>5, <1>6, <3>2, <4>1
    <3>3. CASE Agent(u) # k
      BY <1>5, <1>6, <2>1, <3>3 DEF OpenIsDesignated
    <3> QED BY <3>1, <3>2, <3>3
  <2> QED BY <2>2 DEF OpenIsDesignated, Agent
<1> QED BY <1>1, <1>5, <1>6, <1>9, <1>10, <1>11

LEMMA EndKeeps ==
  ASSUME ScopeInv, NEW scope, NEW t \in DOMAIN sessions, EndSession(scope, t)
  PROVE  /\ ScopeInv'
         /\ DOMAIN instantiations' = DOMAIN instantiations /\ DOMAIN sessions' = DOMAIN sessions
         /\ \A j \in DOMAIN instantiations : j # Agent(t) => instantiations'[j] = instantiations[j]
         /\ \A u \in DOMAIN sessions : Agent(u) # Agent(t) => sessions'[u] = sessions[u]
<1> USE RowsAre DEF ScopeInv, ScopeTypes
<1>1. PICK k \in DOMAIN instantiations : k = Agent(t)
  OBVIOUS
<1>2. PICK left : left = IF instantiations[k].session = t[3] THEN NoSession
                                                            ELSE instantiations[k].session
  OBVIOUS
<1>3. left \in Nat /\ left # t[3] /\ (left = instantiations[k].session \/ left = NoSession)
      /\ (instantiations[k].session # t[3] => left = instantiations[k].session)
  BY <1>2 DEF NoSession, InstanceRecord, Positive
<1>4. PICK row : row = [instantiations[k] EXCEPT !.session = left]
  OBVIOUS
<1>5. /\ row \in InstanceRecord /\ row.session = left /\ row.status = instantiations[k].status
      /\ row.mandate = instantiations[k].mandate
      /\ row.predecessor = instantiations[k].predecessor
  BY <1>3, <1>4 DEF InstanceRecord
<1>6. PICK status \in {"closed", "superseded"} : sessions' = [sessions EXCEPT ![t] = status]
  BY DEF EndSession
<1>7. instantiations' = [instantiations EXCEPT ![k] = row] /\ UNCHANGED <<positions, lineage, work>>
  BY <1>1, <1>2, <1>4 DEF EndSession, NoSession
<1>8. /\ DOMAIN instantiations' = DOMAIN instantiations /\ instantiations'[k] = row
      /\ instantiations' \in [DOMAIN instantiations -> InstanceRecord]
      /\ \A j \in DOMAIN instantiations : j # k => instantiations'[j] = instantiations[j]
  BY <1>5, <1>7 DEF AgentTable
<1>9. /\ DOMAIN sessions' = DOMAIN sessions /\ sessions'[t] # "open"
      /\ \A u \in DOMAIN sessions : u # t => sessions'[u] = sessions[u]
      /\ sessions' \in [DOMAIN sessions' -> SessionStatus]
  BY <1>6 DEF AgentTable, SessionStatus
<1>10. OnlySessions
  BY <1>5, <1>7, <1>8, <1>9 DEF OnlySessions, AgentTable
<1>11. ScopeTypes' /\ Tree' /\ Occupied' /\ Entrusted' /\ AuthorityWasReceived'
  BY <1>10, SessionsWritten
<1>12. Numbered'
  BY <1>8, <1>9 DEF Numbered, SessionsOf
<1>13. OpenIsDesignated'
  <2>1. positions' = positions
    BY <1>7
  <2>2. ASSUME NEW u \in DOMAIN sessions'
        PROVE  sessions'[u] = "open" <=>
                 /\ positions'[u[1]].current = u[2]
                 /\ instantiations'[Agent(u)].status = "active"
                 /\ instantiations'[Agent(u)].session = u[3]
    <3>1. CASE u = t
      BY <1>1, <1>3, <1>5, <1>8, <1>9, <3>1
    <3>2. CASE u # t /\ Agent(u) = k
      <4>1. u[3] # t[3] /\ u[3] # NoSession
        BY <1>1, <1>9, <3>2 DEF Agent, NoSession, Positive
      <4>2. row.session = u[3] <=> instantiations[k].session = u[3]
        BY <1>3, <1>5, <4>1
      <4> QED BY <1>5, <1>8, <1>9, <2>1, <3>2, <4>2 DEF OpenIsDesignated
    <3>3. CASE Agent(u) # k
      BY <1>1, <1>8, <1>9, <2>1, <3>3 DEF OpenIsDesignated
    <3> QED BY <3>1, <3>2, <3>3
  <2> QED BY <2>2 DEF OpenIsDesignated, Agent
<1> QED BY <1>1, <1>8, <1>9, <1>11, <1>12, <1>13

\* A succession: the next number, after a predecessor that keeps no session.
LEMMA InstantiateKeeps ==
  ASSUME ScopeInv, NEW scope, NEW o \in Ordinals, Instantiate(scope, o)
  PROVE  /\ ScopeInv' /\ Ordinals' = Ordinals
         /\ \A p \in Ordinals : p # o => positions'[p] = positions[p]
         /\ \A k \in DOMAIN instantiations : k \in DOMAIN instantiations'
         /\ \A k \in DOMAIN instantiations' : k[1] # o => k \in DOMAIN instantiations
         /\ \A k \in DOMAIN instantiations : k[1] # o => instantiations'[k] = instantiations[k]
         /\ DOMAIN sessions' = DOMAIN sessions
         /\ \A t \in DOMAIN sessions : t[1] # o => sessions'[t] = sessions[t]
<1> USE RowsAre DEF ScopeInv, ScopeTypes
<1>1. PICK n \in Nat : n = positions[o].current
  BY DEF PositionTable, PositionRecord
<1>2. /\ positions[o] \in PositionRecord /\ positions[o].mandate \in Positive
      /\ \A p \in Ordinals : positions[p] \in PositionRecord
  BY DEF PositionTable, PositionRecord
<1>3. Instances(o) = 1 .. n
  <2>1. \A i \in Nat : <<o, i>> \in DOMAIN instantiations <=> i \in 1 .. n
    BY <1>1 DEF Occupied
  <2>2. \A i : i \in Instances(o) <=> i \in Nat /\ <<o, i>> \in DOMAIN instantiations
    BY DEF Instances
  <2>3. \A i \in 1 .. n : i \in Nat
    OBVIOUS
  <2> QED BY <2>1, <2>2, <2>3
<1>4. Following(Instances(o)) = n + 1
  BY <1>3, FollowingIs
<1> DEFINE new == <<o, n + 1>>
           old == <<o, n>>
<1>5. PICK row : row = [mandate |-> positions[o].mandate, predecessor |-> n, status |-> "active",
                        session |-> NoSession]
  OBVIOUS
<1>6. /\ row \in InstanceRecord /\ row.mandate = positions[o].mandate /\ row.predecessor = n
      /\ row.status = "active"
  BY <1>1, <1>2, <1>5 DEF InstanceRecord, NoSession, Positive
<1>7. PICK place : place = [positions[o] EXCEPT !.current = n + 1]
  OBVIOUS
<1>8. /\ place \in PositionRecord /\ place.current = n + 1
      /\ place.mandate = positions[o].mandate /\ place.next = positions[o].next
      /\ place.effort = positions[o].effort /\ place.discipline = positions[o].discipline
  BY <1>2, <1>7 DEF PositionRecord
<1>9. /\ positions' = [positions EXCEPT ![o] = place]
      /\ instantiations' = Put(Retired(o), new, row)
      /\ sessions' = Supersede(old) /\ UNCHANGED <<mandates, environments, work>>
  BY <1>1, <1>4, <1>5, <1>7 DEF Instantiate, lineage
<1>10. environments' \in [Efforts' -> Nat] /\ Efforts' = Efforts
  BY <1>9 DEF Efforts, PositionTable
<1>11. /\ PositionTable' /\ Ordinals' = Ordinals /\ positions'[o] = place
       /\ \A p \in Ordinals : p # o => positions'[p] = positions[p]
  BY <1>8, <1>9, <1>10, ColumnWritten
<1>12. /\ new \notin DOMAIN instantiations
       /\ n # 0 => old \in DOMAIN instantiations
       /\ n = 0 => old \notin DOMAIN instantiations
  <2>1. n + 1 \notin 1 .. n /\ (n # 0 => n \in 1 .. n) /\ (n = 0 => n \notin 1 .. n)
    OBVIOUS
  <2> QED BY <1>1, <2>1 DEF Occupied
<1>13. /\ DOMAIN Retired(o) = DOMAIN instantiations
       /\ \A k \in DOMAIN instantiations :
            /\ k # old => Retired(o)[k] = instantiations[k]
            /\ k = old => /\ Retired(o)[k] \in InstanceRecord
                          /\ Retired(o)[k].status = "superseded"
                          /\ Retired(o)[k].mandate = instantiations[k].mandate
                          /\ Retired(o)[k].predecessor = instantiations[k].predecessor
  <2>1. CASE n = 0
    BY <1>1, <1>12, <2>1 DEF Retired
  <2>2. CASE n # 0
    <3>1. PICK gone : gone = [instantiations[old] EXCEPT !.status = "superseded",
                                                         !.session = NoSession]
      OBVIOUS
    <3>2. /\ gone \in InstanceRecord /\ gone.status = "superseded"
          /\ gone.mandate = instantiations[old].mandate
          /\ gone.predecessor = instantiations[old].predecessor
      BY <1>12, <2>2, <3>1 DEF InstanceRecord, NoSession
    <3>3. Retired(o) = [instantiations EXCEPT ![old] = gone]
      BY <1>1, <1>12, <2>2, <3>1 DEF Retired, AgentTable
    <3> QED BY <3>2, <3>3 DEF AgentTable
  <2> QED BY <2>1, <2>2
<1> HIDE DEF new
<1>14. /\ DOMAIN instantiations' = DOMAIN instantiations \cup {new} /\ instantiations'[new] = row
       /\ \A k \in DOMAIN instantiations :
            /\ k # old => instantiations'[k] = instantiations[k]
            /\ k = old => /\ instantiations'[k] \in InstanceRecord
                          /\ instantiations'[k].status = "superseded"
                          /\ instantiations'[k].mandate = instantiations[k].mandate
                          /\ instantiations'[k].predecessor = instantiations[k].predecessor
       /\ instantiations' = [k \in DOMAIN instantiations' |-> instantiations'[k]]
  BY <1>9, <1>12, <1>13 DEF Put
<1>15. /\ DOMAIN sessions' = DOMAIN sessions
       /\ \A t \in DOMAIN sessions : Agent(t) # old => sessions'[t] = sessions[t]
       /\ \A t \in DOMAIN sessions : Agent(t) = old =>
            sessions'[t] # "open" /\ sessions'[t] \in SessionStatus
       /\ sessions' = [t \in DOMAIN sessions' |-> sessions'[t]]
  BY <1>9 DEF Supersede, SessionStatus
<1>16. AgentTable'
  <2>1. instantiations' \in [DOMAIN instantiations' -> InstanceRecord]
    BY <1>6, <1>14
  <2>2. sessions' \in [DOMAIN sessions' -> SessionStatus]
    BY <1>15
  <2>3. DOMAIN instantiations' \subseteq Ordinals' \X Nat
    BY <1>11, <1>14 DEF AgentTable, new
  <2> QED BY <1>11, <1>14, <1>15, <2>1, <2>2, <2>3 DEF AgentTable, Agent
<1>17. Occupied'
  <2>1. ASSUME NEW p \in Ordinals, NEW i \in Nat
        PROVE  <<p, i>> \in DOMAIN instantiations' <=> i \in 1 .. positions'[p].current
    <3>1. CASE p # o
      BY <1>11, <1>14, <3>1 DEF Occupied, new
    <3>2. CASE p = o
      <4>1. <<o, i>> \in DOMAIN instantiations' <=> i \in 1 .. n \/ i = n + 1
        BY <1>1, <1>14, <3>2 DEF Occupied, new
      <4> QED BY <1>8, <1>11, <3>2, <4>1
    <3> QED BY <3>1, <3>2
  <2>2. ASSUME NEW p \in Ordinals, NEW i \in Nat, <<p, i>> \in DOMAIN instantiations'
        PROVE  /\ instantiations'[<<p, i>>].predecessor = i - 1
               /\ instantiations'[<<p, i>>].status = "active" <=> positions'[p].current = i
               /\ instantiations'[<<p, i>>].mandate \in 1 .. positions'[p].mandate
               /\ i > 1 => instantiations'[<<p, i - 1>>].mandate <= instantiations'[<<p, i>>].mandate
    <3>1. \A j \in Nat : <<p, j>> \in DOMAIN instantiations =>
            /\ instantiations'[<<p, j>>].mandate = instantiations[<<p, j>>].mandate
            /\ instantiations'[<<p, j>>].predecessor = instantiations[<<p, j>>].predecessor
            /\ <<p, j>> # old =>
                 instantiations'[<<p, j>>].status = instantiations[<<p, j>>].status
            /\ <<p, j>> = old => instantiations'[<<p, j>>].status = "superseded"
      BY <1>14
    <3>2. positions'[p].mandate = positions[p].mandate
      BY <1>8, <1>11
    <3>3. CASE <<p, i>> = new
      <4>1. p = o /\ i = n + 1
        BY <3>3 DEF new
      <4>2. instantiations'[<<p, i>>].mandate = positions[o].mandate
        BY <1>6, <1>14, <3>3
      <4>3. positions[o].mandate \in Nat /\ positions[o].mandate \in 1 .. positions[o].mandate
        BY <1>2 DEF Positive
      <4>4. i > 1 => instantiations'[<<p, i - 1>>].mandate <= positions[o].mandate
        <5>1. CASE n = 0
          BY <4>1, <5>1
        <5>2. CASE n # 0
          <6>1. instantiations'[<<o, n>>].mandate \in 1 .. positions[o].mandate
            BY <1>12, <3>1, <4>1, <5>2 DEF Occupied
          <6>2. i - 1 = n
            BY <4>1
          <6> QED BY <4>1, <4>3, <6>1, <6>2
        <5> QED BY <5>1, <5>2
      <4>5. /\ instantiations'[<<p, i>>].predecessor = i - 1
            /\ instantiations'[<<p, i>>].status = "active" /\ positions'[p].current = i
        BY <1>6, <1>8, <1>11, <1>14, <3>3, <4>1
      <4> QED BY <3>2, <4>1, <4>2, <4>3, <4>4, <4>5
    <3>4. CASE <<p, i>> # new
      <4>1. <<p, i>> \in DOMAIN instantiations
        BY <1>14, <2>2, <3>4
      <4>2. /\ instantiations[<<p, i>>].predecessor = i - 1
            /\ instantiations[<<p, i>>].status = "active" <=> positions[p].current = i
            /\ instantiations[<<p, i>>].mandate \in 1 .. positions[p].mandate
            /\ i > 1 => instantiations[<<p, i - 1>>].mandate <= instantiations[<<p, i>>].mandate
            /\ i \in 1 .. positions[p].current
        BY <4>1 DEF Occupied
      <4>3. i > 1 => <<p, i - 1>> \in DOMAIN instantiations /\ i - 1 \in Nat
        <5>1. positions[p].current \in Nat
          BY <1>2 DEF PositionRecord
        <5>2. i > 1 => i - 1 \in 1 .. positions[p].current /\ i - 1 \in Nat
          BY <4>2, <5>1
        <5> QED BY <5>2 DEF Occupied
      <4>4. instantiations'[<<p, i>>].status = "active" <=> positions'[p].current = i
        <5>1. CASE p # o
          BY <1>11, <3>1, <4>1, <4>2, <5>1
        <5>2. CASE p = o /\ i = n
          BY <1>8, <1>11, <3>1, <4>1, <5>2
        <5>3. CASE p = o /\ i # n
          BY <1>1, <1>8, <1>11, <3>1, <3>4, <4>1, <4>2, <5>3 DEF new
        <5> QED BY <5>1, <5>2, <5>3
      <4> QED BY <3>1, <3>2, <4>1, <4>2, <4>3, <4>4
    <3> QED BY <3>3, <3>4
  <2> QED BY <1>11, <2>1, <2>2 DEF Occupied
<1>18. Numbered'
  <2>1. ASSUME NEW k \in DOMAIN instantiations
        PROVE  \E i \in Nat : SessionsOf(k)' = 1 .. i
    BY <1>15 DEF Numbered, SessionsOf
  <2>2. SessionsOf(new)' = 1 .. 0
    <3>1. SessionsOf(new)' = {}
      BY <1>12, <1>15 DEF SessionsOf
    <3> QED BY <3>1
  <2> QED BY <1>14, <2>1, <2>2 DEF Numbered
<1>19. OpenIsDesignated'
  <2>1. ASSUME NEW t \in DOMAIN sessions'
        PROVE  sessions'[t] = "open" <=>
                 /\ positions'[t[1]].current = t[2]
                 /\ instantiations'[Agent(t)].status = "active"
                 /\ instantiations'[Agent(t)].session = t[3]
    <3>1. t \in DOMAIN sessions /\ t[1] \in Ordinals /\ t[2] \in 1 .. positions[t[1]].current
      BY <1>15, <2>1 DEF Occupied, Agent
    <3>2. CASE Agent(t) = old
      <4>1. t[1] = o /\ t[2] = n
        BY <3>2 DEF Agent
      <4> QED BY <1>8, <1>11, <1>15, <3>1, <3>2, <4>1
    <3>3. CASE Agent(t) # old /\ t[1] = o
      <4>1. t[2] # n /\ t[2] # n + 1
        BY <1>1, <3>1, <3>3 DEF Agent
      <4> QED BY <1>1, <1>8, <1>11, <1>15, <3>1, <3>3, <4>1 DEF OpenIsDesignated
    <3>4. CASE Agent(t) # old /\ t[1] # o
      BY <1>11, <1>14, <1>15, <3>1, <3>4 DEF OpenIsDesignated
    <3> QED BY <3>2, <3>3, <3>4
  <2> QED BY <2>1 DEF OpenIsDesignated, Agent
<1>20. MandateTable' /\ Entrusted' /\ AuthorityWasReceived'
  <2>1. SameAuthority
    BY <1>8, <1>9, <1>11, <1>14 DEF SameAuthority
  <2> QED BY <2>1, LineageKept
<1>21. Tree'
  <2>1. SameTree
    BY <1>8, <1>10, <1>11 DEF SameTree
  <2> QED BY <2>1, TreeKept
<1>22. WorkTable'
  <2>1. WorkStands
    BY <1>8, <1>9, <1>10, <1>11, <1>15 DEF WorkStands
  <2> QED BY <2>1, WorkKept
<1>23. \A k \in DOMAIN instantiations : k[1] # o => k # old
  OBVIOUS
<1>24. \A t \in DOMAIN sessions : t[1] # o => Agent(t) # old
  BY DEF Agent
<1> QED
  BY <1>11, <1>14, <1>15, <1>16, <1>17, <1>18, <1>19, <1>20, <1>21, <1>22, <1>23, <1>24 DEF new

-----------------------------------------------------------------------------
(* Work: bound actions, disciplines, executions and events.                *)

LEMMA OnlyWork ==
  ASSUME ScopeInv, UNCHANGED <<positions, lineage, agents>>, WorkTable'
  PROVE  ScopeInv'
<1>1. /\ positions' = positions /\ environments' = environments /\ mandates' = mandates
      /\ instantiations' = instantiations /\ sessions' = sessions
      /\ Ordinals' = Ordinals /\ Efforts' = Efforts
  BY DEF lineage, agents, Ordinals, Efforts
<1>2. PositionTable' /\ MandateTable' /\ AgentTable'
  BY <1>1 DEF ScopeInv, ScopeTypes, PositionTable, MandateTable, AgentTable
<1>3. Tree' /\ Occupied' /\ Entrusted'
  BY <1>1 DEF ScopeInv, Tree, Occupied, Entrusted
<1>4. Numbered' /\ OpenIsDesignated' /\ AuthorityWasReceived'
  BY <1>1 DEF ScopeInv, Numbered, SessionsOf, OpenIsDesignated, AuthorityWasReceived
<1> QED BY <1>2, <1>3, <1>4 DEF ScopeInv, ScopeTypes

LEMMA BindKeeps ==
  ASSUME ScopeInv, NEW scope, NEW t \in DOMAIN sessions, BindAction(scope, t)
  PROVE  ScopeInv' /\ \E row : row.target = t /\ actions' = Append(actions, row)
<1>1. PICK environment :
        environment = IF t[1] = Root THEN 0 ELSE environments[positions[t[1]].effort]
  OBVIOUS
<1>2. PICK row : row = [target |-> t, mandate |-> instantiations[Agent(t)].mandate,
                        environment |-> environment]
  OBVIOUS
<1>3. /\ actions' = Append(actions, row) /\ UNCHANGED <<positions, lineage, agents>>
      /\ UNCHANGED <<disciplines, executions, history>>
  BY <1>1, <1>2 DEF BindAction
<1>4. row.target = t /\ row \in [target : Targets, mandate : Nat, environment : Nat]
  <2>1. t[1] \in Ordinals /\ t \in Targets
    BY DEF ScopeInv, ScopeTypes, AgentTable, PositionTable, Targets, Positive
  <2>2. instantiations[Agent(t)].mandate \in Nat
    BY DEF ScopeInv, ScopeTypes, AgentTable, InstanceRecord
  <2>3. environment \in Nat
    BY <1>1, <2>1 DEF ScopeInv, ScopeTypes, Tree, PositionTable
  <2> QED BY <1>2, <2>1, <2>2, <2>3
<1>5. WorkTable'
  <2>1. sessions' = sessions /\ Ordinals' = Ordinals /\ positions' = positions /\ Efforts' = Efforts
    BY <1>3 DEF agents, Ordinals, lineage, Efforts
  <2>2. /\ actions' \in Seq([target : Targets, mandate : Nat, environment : Nat])
        /\ \A i \in DOMAIN actions' : actions'[i].target \in DOMAIN sessions
    BY <1>3, <1>4 DEF ScopeInv, ScopeTypes, WorkTable
  <2> QED BY <1>3, <2>1, <2>2 DEF ScopeInv, ScopeTypes, WorkTable
<1> QED BY <1>3, <1>4, <1>5, OnlyWork

LEMMA DisciplineKeeps ==
  ASSUME ScopeInv, NEW scope, NEW initiator \in Ordinals, CreateDiscipline(scope, initiator)
  PROVE  /\ ScopeInv' /\ executions' = executions
         /\ \E row : row.effort = positions[initiator].effort /\ disciplines' = Append(disciplines, row)
<1>1. PICK parent \in {NoDiscipline} \cup DOMAIN disciplines :
        disciplines' = Append(disciplines,
          [effort |-> positions[initiator].effort, initiator |-> initiator,
           parent |-> parent, environment |-> environments[positions[initiator].effort]])
  BY DEF CreateDiscipline
<1>2. PICK row : row = [effort |-> positions[initiator].effort, initiator |-> initiator,
           parent |-> parent, environment |-> environments[positions[initiator].effort]]
  OBVIOUS
<1>3. /\ disciplines' = Append(disciplines, row) /\ UNCHANGED <<positions, lineage, agents>>
      /\ UNCHANGED <<actions, executions, history>>
  BY <1>1, <1>2 DEF CreateDiscipline
<1>4. row \in DisciplineRow /\ row.effort = positions[initiator].effort /\ row.effort \in Efforts
  <2>1. positions[initiator].effort \in Efforts /\ environments[positions[initiator].effort] \in Nat
    BY DEF CreateDiscipline, ScopeInv, ScopeTypes, Tree, PositionTable
  <2>2. positions[initiator].effort \in Ordinal /\ initiator \in Ordinal /\ parent \in Nat
    BY <2>1 DEF ScopeInv, ScopeTypes, PositionTable, WorkTable, NoDiscipline
  <2> QED BY <1>2, <2>1, <2>2 DEF DisciplineRow
<1>5. WorkTable'
  <2>1. sessions' = sessions /\ Ordinals' = Ordinals /\ positions' = positions /\ Efforts' = Efforts
    BY <1>3 DEF agents, Ordinals, lineage, Efforts
  <2>2. /\ disciplines' \in Seq(DisciplineRow) /\ DOMAIN disciplines \subseteq DOMAIN disciplines'
        /\ \A d \in DOMAIN disciplines' : disciplines'[d].effort \in Efforts
    BY SMTT(60), <1>3, <1>4 DEF ScopeInv, ScopeTypes, WorkTable
  <2> QED BY <1>3, <2>1, <2>2 DEF ScopeInv, ScopeTypes, WorkTable
<1> QED BY <1>3, <1>4, <1>5, OnlyWork

LEMMA ExecutionKeeps ==
  ASSUME ScopeInv, NEW scope, NEW d \in DOMAIN disciplines, CreateExecution(scope, d)
  PROVE  ScopeInv'
<1>1. /\ executions' = Append(executions, d) /\ UNCHANGED <<positions, lineage, agents>>
      /\ UNCHANGED <<actions, disciplines, history>>
  BY DEF CreateExecution
<1>2. WorkTable'
  <2>1. sessions' = sessions /\ Ordinals' = Ordinals /\ positions' = positions /\ Efforts' = Efforts
    BY <1>1 DEF agents, Ordinals, lineage, Efforts
  <2>2. /\ executions' \in Seq(Nat) /\ DOMAIN executions \subseteq DOMAIN executions'
        /\ \A x \in DOMAIN executions' : executions'[x] \in DOMAIN disciplines
    BY <1>1 DEF ScopeInv, ScopeTypes, WorkTable
  <2> QED BY <1>1, <2>1, <2>2 DEF ScopeInv, ScopeTypes, WorkTable
<1> QED BY <1>1, <1>2, OnlyWork

\* Every operation that notes events notes them at recorded positions, of
\* recorded disciplines and executions, within its scope.
LEMMA NoteKeeps ==
  ASSUME ScopeInv, NEW events, Note(events),
         events \subseteq [ordinal : Ordinals, discipline : {NoDiscipline} \cup DOMAIN disciplines,
                           execution : {0} \cup DOMAIN executions]
  PROVE  ScopeInv'
<1>1. /\ UNCHANGED <<positions, lineage, agents>> /\ UNCHANGED <<actions, disciplines, executions>>
      /\ history' = history \cup events
  BY DEF Note
<1>2. WorkTable'
  <2>1. sessions' = sessions /\ Ordinals' = Ordinals /\ positions' = positions /\ Efforts' = Efforts
    BY <1>1 DEF agents, Ordinals, lineage, Efforts
  <2> QED BY <1>1, <2>1 DEF ScopeInv, ScopeTypes, WorkTable
<1> QED BY <1>1, <1>2, OnlyWork

Events == [ordinal : Ordinals, discipline : {NoDiscipline} \cup DOMAIN disciplines,
           execution : {0} \cup DOMAIN executions]

\* A position is in scope only if its effort, the root's being none, is covered.
LEMMA Reaches ==
  ASSUME ScopeInv, NEW scope, NEW o \in Ordinals, InScope(scope, o)
  PROVE  positions[o].effort \in Covered(scope)
  BY DEF ScopeInv, Tree, InScope, Covered, NoEffort

\* What an operation notes, it notes within its scope.
Within(scope, events) == \A e \in events : positions[e.ordinal].effort \in Covered(scope)

LEMMA ActivationNoted ==
  ASSUME ScopeInv, NEW scope, NEW t \in DOMAIN sessions, NEW x \in DOMAIN executions,
         RecordActivation(scope, x, t)
  PROVE  \E events \in SUBSET Events : Note(events) /\ Within(scope, events)
<1>1. t[1] \in Ordinals /\ executions[x] \in DOMAIN disciplines
  BY DEF ScopeInv, ScopeTypes, AgentTable, WorkTable
<1>2. Event(t[1], executions[x], x) \in Events
  BY <1>1 DEF Event, Events
<1>3. positions[t[1]].effort \in Covered(scope)
  BY <1>1, Reaches DEF RecordActivation
<1>4. Within(scope, {Event(t[1], executions[x], x)})
  BY <1>3 DEF Within, Event
<1> QED BY <1>2, <1>4 DEF RecordActivation

LEMMA EventNoted ==
  ASSUME ScopeInv, NEW scope, NEW o \in Ordinals, RecordEvent(scope, o)
  PROVE  \E events \in SUBSET Events : Note(events) /\ Within(scope, events)
<1>1. PICK named \in {NoDiscipline} \cup DOMAIN disciplines, x \in {0} \cup DOMAIN executions :
        Note({Event(o, IF named = NoDiscipline THEN positions[o].discipline ELSE named, x)})
  BY DEF RecordEvent
<1>2. PICK d : d = IF named = NoDiscipline THEN positions[o].discipline ELSE named
  OBVIOUS
<1>3. d \in {NoDiscipline} \cup DOMAIN disciplines
  BY <1>2 DEF ScopeInv, ScopeTypes, WorkTable
<1>4. Event(o, d, x) \in Events /\ Note({Event(o, d, x)})
  BY <1>1, <1>2, <1>3 DEF Event, Events
<1>5. Within(scope, {Event(o, d, x)})
  <2>1. positions[o].effort \in Covered(scope)
    BY Reaches DEF RecordEvent
  <2> QED BY <2>1 DEF Within, Event
<1> QED BY <1>4, <1>5

LEMMA CoordinationNoted ==
  ASSUME ScopeInv, NEW scope, Coordinate(scope)
  PROVE  \E events \in SUBSET Events : Note(events) /\ Within(scope, events)
<1>1. PICK instructed \in SUBSET (DOMAIN positions \ {Root}) :
        /\ \A o \in instructed : InScope(scope, o)
        /\ Note({Event(o, positions[o].discipline, 0) : o \in instructed \cup {Root}})
  BY DEF Coordinate
<1> DEFINE events == {Event(o, positions[o].discipline, 0) : o \in instructed \cup {Root}}
<1>2. Root \in Ordinals /\ InScope(scope, Root)
  BY DEF Coordinate, ScopeInv, ScopeTypes, PositionTable
<1>3. \A o \in instructed \cup {Root} : o \in Ordinals /\ InScope(scope, o)
  BY <1>1, <1>2 DEF Ordinals
<1>4. \A o \in instructed \cup {Root} : positions[o].effort \in Covered(scope)
  BY <1>3, Reaches
<1>5. events \in SUBSET Events
  BY <1>3 DEF Event, Events, ScopeInv, ScopeTypes, WorkTable
<1>6. Within(scope, events)
  BY <1>4 DEF Within, Event
<1> QED BY <1>1, <1>5, <1>6

-----------------------------------------------------------------------------
(* Every operation.                                                        *)

LEMMA PositionalKeeps ==
  ASSUME ScopeInv, NEW scope, Positional(scope)
  PROVE  ScopeInv'
<1>1. PICK o \in Ordinals :
        \/ Delegate(scope, o) \/ ReviseMandate(scope, o) \/ ClosePosition(scope, o)
        \/ Instantiate(scope, o) \/ CreateDiscipline(scope, o) \/ RecordEvent(scope, o)
  BY DEF Positional, Ordinals
<1>2. CASE Delegate(scope, o)
  BY <1>2, ChildAllocated
<1>3. CASE ReviseMandate(scope, o)
  BY <1>3, ReviseKeeps
<1>4. CASE ClosePosition(scope, o)
  BY <1>4, CloseKeeps
<1>5. CASE Instantiate(scope, o)
  BY <1>5, InstantiateKeeps
<1>6. CASE CreateDiscipline(scope, o)
  BY <1>6, DisciplineKeeps
<1>7. CASE RecordEvent(scope, o)
  BY <1>7, EventNoted, NoteKeeps DEF Events
<1> QED BY <1>1, <1>2, <1>3, <1>4, <1>5, <1>6, <1>7

LEMMA TargetedKeeps ==
  ASSUME ScopeInv, NEW scope, Targeted(scope)
  PROVE  ScopeInv'
<1>1. PICK t \in DOMAIN sessions :
        \/ Reopen(scope, t) \/ EndSession(scope, t) \/ BindAction(scope, t)
        \/ \E x \in DOMAIN executions : RecordActivation(scope, x, t)
  BY DEF Targeted
<1>2. CASE Reopen(scope, t)
  BY <1>2, ReopenKeeps
<1>3. CASE EndSession(scope, t)
  BY <1>3, EndKeeps
<1>4. CASE BindAction(scope, t)
  BY <1>4, BindKeeps
<1>5. ASSUME NEW x \in DOMAIN executions, RecordActivation(scope, x, t)
      PROVE  ScopeInv'
  BY <1>5, ActivationNoted, NoteKeeps DEF Events
<1> QED BY <1>1, <1>2, <1>3, <1>4, <1>5

LEMMA ScopeNext ==
  ASSUME ScopeInv, [Next]_vars
  PROVE  ScopeInv'
<1>1. CASE CreateEffort
  BY <1>1, EffortAllocated
<1>2. ASSUME NEW scope \in Scopes, Positional(scope)
      PROVE  ScopeInv'
  BY <1>2, PositionalKeeps
<1>3. ASSUME NEW scope \in Scopes, Targeted(scope)
      PROVE  ScopeInv'
  BY <1>3, TargetedKeeps
<1>4. ASSUME NEW scope \in Scopes, Coordinate(scope)
      PROVE  ScopeInv'
  BY <1>4, CoordinationNoted, NoteKeeps DEF Events
<1>5. ASSUME NEW scope \in Scopes, NEW e \in Efforts, SetEnvironment(scope, e)
      PROVE  ScopeInv'
  BY <1>5, EnvironmentKeeps
<1>6. ASSUME NEW scope \in Scopes, NEW k \in DOMAIN instantiations, OpenSession(scope, k)
      PROVE  ScopeInv'
  BY <1>6, OpenKeeps
<1>7. ASSUME NEW scope \in Scopes, NEW d \in DOMAIN disciplines, CreateExecution(scope, d)
      PROVE  ScopeInv'
  BY <1>7, ExecutionKeeps
<1>8. CASE UNCHANGED vars
  <2>1. UNCHANGED <<positions, lineage, agents>> /\ UNCHANGED work
    BY <1>8 DEF vars
  <2>2. WorkTable'
    BY <2>1 DEF ScopeInv, ScopeTypes, WorkTable, work, lineage, agents, Ordinals, Efforts
  <2> QED BY <2>1, <2>2, OnlyWork
<1> QED BY <1>1, <1>2, <1>3, <1>4, <1>5, <1>6, <1>7, <1>8 DEF Next

LEMMA ScopeInit ==
  Init => ScopeInv
<1> SUFFICES ASSUME Init PROVE ScopeInv
  OBVIOUS
<1> DEFINE row == Position(NoEffort, NoDiscipline)
<1>1. Root \in Ordinal /\ row \in PositionRecord
  BY DEF Root, Ordinal, Position, NoEffort, NoDiscipline, PositionRecord, Positive
<1>2. row.effort = NoEffort /\ row.discipline = NoDiscipline /\ row.mandate = 1 /\ row.current = 0
  BY DEF Position
<1> HIDE DEF row
<1>3. positions = [o \in {Root} |-> row] /\ Ordinals = {Root} /\ positions[Root] = row
  BY DEF Init, Ordinals, row
<1>4. /\ Efforts = {} /\ DOMAIN instantiations = {} /\ DOMAIN sessions = {}
      /\ disciplines = <<>> /\ executions = <<>> /\ actions = <<>> /\ history = {}
  BY DEF Init, Efforts
<1>5. environments \in [Efforts -> Nat]
  BY DEF Init, Efforts
<1>6. PositionTable
  BY <1>1, <1>3, <1>4, <1>5 DEF PositionTable
<1>7. /\ DOMAIN mandates = {<<Root, 1>>} /\ mandates[<<Root, 1>>].delegator = Human
      /\ mandates \in [DOMAIN mandates -> MandateRecord]
  <2>1. Human \in Targets
    BY <1>1 DEF Human, Targets
  <2> QED BY <2>1 DEF Init, MandateRecord
<1>8. MandateTable /\ Entrusted
  BY <1>2, <1>3, <1>7 DEF MandateTable, Entrusted
<1>9. AgentTable
  <2>1. /\ instantiations \in [DOMAIN instantiations -> InstanceRecord]
        /\ sessions \in [DOMAIN sessions -> SessionStatus]
    BY DEF Init
  <2> QED BY <1>4, <2>1 DEF AgentTable
<1>10. WorkTable
  BY <1>2, <1>3, <1>4 DEF WorkTable
<1>11. Tree
  BY <1>2, <1>3, <1>4 DEF Tree
<1>12. Occupied /\ Numbered
  BY <1>2, <1>3, <1>4 DEF Occupied, Numbered
<1>13. OpenIsDesignated /\ AuthorityWasReceived
  BY <1>4, <1>7 DEF OpenIsDesignated, AuthorityWasReceived
<1> QED BY <1>6, <1>8, <1>9, <1>10, <1>11, <1>12, <1>13 DEF ScopeInv, ScopeTypes

LEMMA ScopeAlways ==
  Spec => []ScopeInv
<1>1. ScopeInv /\ [Next]_vars => ScopeInv'
  BY ScopeNext
<1> QED BY ScopeInit, <1>1, PTL DEF Spec

LEMMA TypesImplied ==
  ScopeInv => TypeOK
<1> SUFFICES ASSUME ScopeInv PROVE TypeOK
  OBVIOUS
<1> USE RowsAre DEF ScopeInv, ScopeTypes
<1>1. ASSUME NEW o \in Ordinals
      PROVE  /\ positions[o].status \in {"open", "closed"}
             /\ positions[o].next \in Nat /\ positions[o].mandate \in Nat \ {0}
             /\ positions[o].effort \in Efforts \cup {NoEffort}
             /\ positions[o].discipline \in {NoDiscipline} \cup DOMAIN disciplines
             /\ positions[o].current # 0 => <<o, positions[o].current>> \in DOMAIN instantiations
  <2>1. /\ positions[o].status \in {"open", "closed"}
        /\ positions[o].next \in Nat /\ positions[o].mandate \in Nat \ {0}
        /\ positions[o].current \in Nat
    BY DEF PositionTable, PositionRecord, Positive
  <2>2. positions[o].effort \in Efforts \cup {NoEffort}
    BY DEF Tree
  <2>3. positions[o].current # 0 => positions[o].current \in 1 .. positions[o].current
    BY <2>1
  <2> QED BY <2>1, <2>2, <2>3 DEF WorkTable, Occupied
<1>2. Root \in Ordinals /\ Efforts \subseteq Ordinals
  BY DEF PositionTable
<1>3. /\ \A k \in DOMAIN mandates : k[1] \in Ordinals
      /\ \A k \in DOMAIN instantiations : k[1] \in Ordinals
  BY DEF MandateTable
<1>4. \A t \in DOMAIN sessions : /\ Agent(t) \in DOMAIN instantiations
                                 /\ sessions[t] \in {"open", "closed", "superseded"}
  BY DEF SessionStatus
<1>5. history \subseteq [ordinal : Ordinals, discipline : {NoDiscipline} \cup DOMAIN disciplines,
                         execution : {0} \cup DOMAIN executions]
  BY DEF WorkTable
<1> QED BY <1>1, <1>2, <1>3, <1>4, <1>5 DEF TypeOK

LEMMA ChainImplied ==
  ScopeInv => SuccessionIsAChain
<1> SUFFICES ASSUME ScopeInv, NEW k \in DOMAIN instantiations
             PROVE  /\ instantiations[k].predecessor = k[2] - 1
                    /\ instantiations[k].status = "active" <=> positions[k[1]].current = k[2]
                    /\ k[2] > 1 =>
                         /\ <<k[1], k[2] - 1>> \in DOMAIN instantiations
                         /\ instantiations[<<k[1], k[2] - 1>>].mandate <= instantiations[k].mandate
  BY DEF SuccessionIsAChain
<1>1. k = <<k[1], k[2]>> /\ k[1] \in Ordinals /\ k[2] \in Nat
  BY RowsAre DEF ScopeInv, ScopeTypes
<1>2. PICK o \in Ordinals, n \in Nat : k = <<o, n>>
  BY <1>1
<1>3. positions[o].current \in Nat /\ n \in 1 .. positions[o].current
  BY <1>2 DEF ScopeInv, ScopeTypes, PositionTable, PositionRecord, Occupied
<1>4. n > 1 => <<o, n - 1>> \in DOMAIN instantiations
  <2>1. n > 1 => n - 1 \in Nat /\ n - 1 \in 1 .. positions[o].current
    BY <1>3
  <2> QED BY <2>1 DEF ScopeInv, Occupied
<1> QED BY <1>2, <1>4 DEF ScopeInv, Occupied

\* Whatever is delegated, superseded, closed and reopened, and whatever scope
\* and target a caller still holds, a position is occupied by one agent after
\* another, each with one open session at most.
THEOREM OccupationStaysSound == Spec => []OccupationIsSound
<1>1. ScopeInv => OccupationIsSound
  BY TypesImplied, ChainImplied DEF OccupationIsSound, ScopeInv
<1> QED BY <1>1, ScopeAlways, PTL

\* Every mandate below the root was given under a version of its parent's
\* mandate that is recorded, the one its delegating agent had received.
THEOREM AuthorityStaysReceived == Spec => []AuthorityWasReceived
<1>1. ScopeInv => AuthorityWasReceived
  BY DEF ScopeInv
<1> QED BY <1>1, ScopeAlways, PTL

-----------------------------------------------------------------------------
(* What an operation may touch.                                            *)

\* A branch is an effort: a position is in the branch its effort names, the
\* root in its own.
LEMMA BranchIsEffort ==
  ASSUME ScopeInv, NEW e \in Efforts \cup {Root}, NEW o \in Ordinals, positions[o].effort # e
  PROVE  ~InBranch(e, o)
  BY DEF ScopeInv, Tree, InBranch, NoEffort

\* What an operation within a scope works on is not of an effort outside it.
LEMMA OutOfReach ==
  ASSUME ScopeInv, NEW scope, NEW e \in (Efforts \cup {Root}) \ Covered(scope), NEW o \in Ordinals,
         InScope(scope, o)
  PROVE  ~InBranch(e, o)
  BY Reaches, BranchIsEffort

LEMMA SamePositions ==
  ASSUME NEW e,
         \A o : InBranch(e, o) => /\ o \in Ordinals' <=> o \in Ordinals
                                  /\ o \in Ordinals => positions'[o] = positions[o]
  PROVE  BranchPositions(e)' = BranchPositions(e)
  BY DEF BranchPositions, InBranch

LEMMA SameRows ==
  ASSUME NEW e, NEW table, NEW other,
         \A k : InBranch(e, k[1]) => /\ k \in DOMAIN table <=> k \in DOMAIN other
                                     /\ k \in DOMAIN table => table[k] = other[k]
  PROVE  Keyed(e, table) = Keyed(e, other)
  BY DEF Keyed

LEMMA SameEnvironments ==
  ASSUME NEW e,
         \A o : InBranch(e, o) => /\ o \in Efforts' <=> o \in Efforts
                                  /\ o \in Efforts => environments'[o] = environments[o]
  PROVE  {<<x, environments'[x]>> : x \in {p \in Efforts' : InBranch(e, p)}}
           = {<<x, environments[x]>> : x \in {p \in Efforts : InBranch(e, p)}}
  OBVIOUS

LEMMA SameRecords ==
  ASSUME NEW e, Keyed(e, mandates') = Keyed(e, mandates),
         Keyed(e, instantiations') = Keyed(e, instantiations),
         Keyed(e, sessions') = Keyed(e, sessions),
         {<<x, environments'[x]>> : x \in {p \in Efforts' : InBranch(e, p)}}
           = {<<x, environments[x]>> : x \in {p \in Efforts : InBranch(e, p)}}
  PROVE  BranchRecords(e)' = BranchRecords(e)
<1>1. /\ Keyed(e, mandates)' = Keyed(e, mandates)
      /\ Keyed(e, instantiations)' = Keyed(e, instantiations)
      /\ Keyed(e, sessions)' = Keyed(e, sessions)
  BY DEF Keyed, InBranch
<1> QED BY <1>1 DEF BranchRecords, InBranch

\* What one effort or the root keeps of a step.
Stays(e) ==
  /\ positions' = positions \/ BranchPositions(e)' = BranchPositions(e)
  /\ \/ <<mandates, instantiations, sessions, environments>>' =
          <<mandates, instantiations, sessions, environments>>
     \/ BranchRecords(e)' = BranchRecords(e)
  /\ actions' = actions \/ BranchActions(e)' = BranchActions(e)
  /\ <<disciplines, executions>>' = <<disciplines, executions>> \/ BranchWork(e)' = BranchWork(e)
  /\ history' = history \/ BranchHistory(e)' = BranchHistory(e)

LEMMA EffortStays ==
  ASSUME ScopeInv, CreateEffort, NEW e \in (Efforts \cup {Root}) \ used'.efforts
  PROVE  Stays(e)
<1> DEFINE child == NextChild(Root)
<1>1. /\ child \notin Ordinals /\ Ordinals' = Ordinals \cup {child} /\ child # Root
      /\ child = <<child[1]>>
      /\ \A o \in Ordinals : o # Root => positions'[o] = positions[o]
      /\ \A k \in DOMAIN mandates : k \in DOMAIN mandates' /\ mandates'[k] = mandates[k]
      /\ DOMAIN mandates' = DOMAIN mandates \cup {<<child, 1>>}
  BY EffortAllocated
<1>2. /\ environments' = Put(environments, child, 1) /\ UNCHANGED <<agents, work>>
      /\ e \in Efforts /\ e # Root /\ e = <<e[1]>> /\ e # child
  BY <1>1 DEF CreateEffort, ScopeInv, ScopeTypes, PositionTable, Tree
<1> HIDE DEF child
<1>3. \A o : InBranch(e, o) => o # Root /\ o # child
  BY <1>1, <1>2 DEF InBranch
<1>4. BranchPositions(e)' = BranchPositions(e)
  BY <1>1, <1>3, SamePositions
<1>5. Keyed(e, mandates') = Keyed(e, mandates)
  <2>1. \A k : InBranch(e, k[1]) => k # <<child, 1>>
    BY <1>3
  <2> QED BY <1>1, <2>1, SameRows
<1>6. {<<x, environments'[x]>> : x \in {p \in Efforts' : InBranch(e, p)}}
        = {<<x, environments[x]>> : x \in {p \in Efforts : InBranch(e, p)}}
  <2>1. /\ Efforts' = Efforts \cup {child}
        /\ \A o \in Efforts : o # child => environments'[o] = environments[o]
    BY <1>2 DEF Put, Efforts
  <2> QED BY <1>3, <2>1, SameEnvironments
<1>7. BranchRecords(e)' = BranchRecords(e)
  BY <1>2, <1>5, <1>6, SameRecords DEF agents
<1> QED BY <1>2, <1>4, <1>7 DEF Stays, work

LEMMA ChildStays ==
  ASSUME ScopeInv, NEW scope, NEW parent \in Ordinals, Delegate(scope, parent),
         NEW e \in (Efforts \cup {Root}) \ used'.efforts
  PROVE  Stays(e)
<1> DEFINE child == NextChild(parent)
<1>1. /\ child \notin Ordinals /\ Ordinals' = Ordinals \cup {child} /\ child # Root
      /\ parent # Root /\ child[1] = parent[1]
      /\ \A o \in Ordinals : o # parent => positions'[o] = positions[o]
      /\ \A k \in DOMAIN mandates : k \in DOMAIN mandates' /\ mandates'[k] = mandates[k]
      /\ DOMAIN mandates' = DOMAIN mandates \cup {<<child, 1>>}
  BY ChildAllocated
<1>2. /\ environments' = environments /\ UNCHANGED <<agents, work>> /\ InScope(scope, parent)
      /\ used'.efforts = Covered(scope)
  BY DEF Delegate, Reach
<1> HIDE DEF child
<1>3. ~InBranch(e, parent)
  BY <1>2, OutOfReach
<1>4. \A o : InBranch(e, o) => o # parent /\ o # child
  BY <1>1, <1>3 DEF InBranch
<1>5. BranchPositions(e)' = BranchPositions(e)
  BY <1>1, <1>4, SamePositions
<1>6. Keyed(e, mandates') = Keyed(e, mandates)
  <2>1. \A k : InBranch(e, k[1]) => k # <<child, 1>>
    BY <1>4
  <2> QED BY <1>1, <2>1, SameRows
<1>7. BranchRecords(e)' = BranchRecords(e)
  BY <1>2, <1>6, SameRecords DEF agents, Efforts
<1> QED BY <1>2, <1>5, <1>7 DEF Stays, work

LEMMA RevisionStays ==
  ASSUME ScopeInv, NEW scope, NEW o \in Ordinals, ReviseMandate(scope, o),
         NEW e \in (Efforts \cup {Root}) \ used'.efforts
  PROVE  Stays(e)
<1>1. /\ environments' = environments /\ UNCHANGED <<agents, work>> /\ InScope(scope, o)
      /\ used'.efforts = Covered(scope)
  BY DEF ReviseMandate, Reach
<1>2. /\ Ordinals' = Ordinals
      /\ \A p \in Ordinals : p # o => positions'[p] = positions[p]
      /\ \A k \in DOMAIN mandates : k \in DOMAIN mandates' /\ mandates'[k] = mandates[k]
      /\ DOMAIN mandates' = DOMAIN mandates \cup {<<o, positions[o].mandate + 1>>}
  BY ReviseKeeps
<1>3. \A p : InBranch(e, p) => p # o
  BY <1>1, OutOfReach
<1>4. BranchPositions(e)' = BranchPositions(e)
  BY <1>2, <1>3, SamePositions
<1>5. Keyed(e, mandates') = Keyed(e, mandates)
  <2>1. \A k : InBranch(e, k[1]) => k # <<o, positions[o].mandate + 1>>
    BY <1>3
  <2> QED BY <1>2, <2>1, SameRows
<1>6. BranchRecords(e)' = BranchRecords(e)
  BY <1>1, <1>5, SameRecords DEF agents, Efforts
<1> QED BY <1>1, <1>4, <1>6 DEF Stays, work

LEMMA ClosingStays ==
  ASSUME ScopeInv, NEW scope, NEW o \in Ordinals, ClosePosition(scope, o),
         NEW e \in (Efforts \cup {Root}) \ used'.efforts
  PROVE  Stays(e)
<1>1. /\ UNCHANGED <<lineage, agents, work>> /\ InScope(scope, o) /\ used'.efforts = Covered(scope)
  BY DEF ClosePosition, Reach
<1>2. Ordinals' = Ordinals /\ \A p \in Ordinals : p # o => positions'[p] = positions[p]
  BY CloseKeeps
<1>3. \A p : InBranch(e, p) => p # o
  BY <1>1, OutOfReach
<1>4. BranchPositions(e)' = BranchPositions(e)
  BY <1>2, <1>3, SamePositions
<1> QED BY <1>1, <1>4 DEF Stays, work, lineage, agents

LEMMA SuccessionStays ==
  ASSUME ScopeInv, NEW scope, NEW o \in Ordinals, Instantiate(scope, o),
         NEW e \in (Efforts \cup {Root}) \ used'.efforts
  PROVE  Stays(e)
<1>1. /\ UNCHANGED <<lineage, work>> /\ InScope(scope, o) /\ used'.efforts = Covered(scope)
  BY DEF Instantiate, Reach
<1>2. /\ Ordinals' = Ordinals
      /\ \A p \in Ordinals : p # o => positions'[p] = positions[p]
      /\ \A k \in DOMAIN instantiations : k \in DOMAIN instantiations'
      /\ \A k \in DOMAIN instantiations' : k[1] # o => k \in DOMAIN instantiations
      /\ \A k \in DOMAIN instantiations : k[1] # o => instantiations'[k] = instantiations[k]
      /\ DOMAIN sessions' = DOMAIN sessions
      /\ \A t \in DOMAIN sessions : t[1] # o => sessions'[t] = sessions[t]
  BY InstantiateKeeps
<1>3. \A p : InBranch(e, p) => p # o
  BY <1>1, OutOfReach
<1>4. BranchPositions(e)' = BranchPositions(e)
  BY <1>2, <1>3, SamePositions
<1>5. Keyed(e, instantiations') = Keyed(e, instantiations)
  BY <1>2, <1>3, SameRows
<1>6. Keyed(e, sessions') = Keyed(e, sessions)
  BY <1>2, <1>3, SameRows
<1>7. BranchRecords(e)' = BranchRecords(e)
  BY <1>1, <1>5, <1>6, SameRecords DEF lineage, Efforts
<1> QED BY <1>1, <1>4, <1>7 DEF Stays, work

LEMMA SessionStays ==
  ASSUME ScopeInv, NEW scope, NEW k \in DOMAIN instantiations, InScope(scope, k[1]),
         UNCHANGED <<positions, lineage, work>>, used'.efforts = Covered(scope),
         DOMAIN instantiations' = DOMAIN instantiations, DOMAIN sessions \subseteq DOMAIN sessions',
         \A j \in DOMAIN instantiations : j # k => instantiations'[j] = instantiations[j],
         \A t \in DOMAIN sessions' : Agent(t) # k => t \in DOMAIN sessions,
         \A t \in DOMAIN sessions : Agent(t) # k => sessions'[t] = sessions[t],
         NEW e \in (Efforts \cup {Root}) \ used'.efforts
  PROVE  Stays(e)
<1>1. k[1] \in Ordinals
  BY RowsAre DEF ScopeInv, ScopeTypes
<1>2. \A p : InBranch(e, p) => p # k[1]
  BY <1>1, OutOfReach
<1>3. Keyed(e, instantiations') = Keyed(e, instantiations)
  <2>1. \A j : InBranch(e, j[1]) => j # k
    BY <1>2
  <2> QED BY <2>1, SameRows
<1>4. Keyed(e, sessions') = Keyed(e, sessions)
  <2>1. \A t : InBranch(e, t[1]) => Agent(t) # k
    BY <1>2 DEF Agent
  <2> QED BY <2>1, SameRows
<1>5. BranchRecords(e)' = BranchRecords(e)
  BY <1>3, <1>4, SameRecords DEF lineage, Efforts
<1> QED BY <1>5 DEF Stays, work

LEMMA EnvironmentStays ==
  ASSUME ScopeInv, NEW scope, NEW effort \in Efforts, SetEnvironment(scope, effort),
         NEW e \in (Efforts \cup {Root}) \ used'.efforts
  PROVE  Stays(e)
<1>1. /\ UNCHANGED <<positions, mandates, agents, work>> /\ InScope(scope, effort)
      /\ used'.efforts = Covered(scope)
      /\ environments' = [environments EXCEPT ![effort] = environments[effort] + 1]
  BY DEF SetEnvironment, Reach
<1>2. effort \in Ordinals /\ Efforts' = Efforts
  BY <1>1 DEF ScopeInv, ScopeTypes, PositionTable, Efforts
<1>3. \A p : InBranch(e, p) => p # effort
  BY <1>1, <1>2, OutOfReach
<1>4. {<<x, environments'[x]>> : x \in {p \in Efforts' : InBranch(e, p)}}
        = {<<x, environments[x]>> : x \in {p \in Efforts : InBranch(e, p)}}
  <2>1. \A o \in Efforts : o # effort => environments'[o] = environments[o]
    BY <1>1 DEF Efforts
  <2> QED BY <1>2, <1>3, <2>1, SameEnvironments
<1>5. BranchRecords(e)' = BranchRecords(e)
  BY <1>1, <1>4, SameRecords DEF agents
<1> QED BY <1>1, <1>5 DEF Stays, work

LEMMA BindingStays ==
  ASSUME ScopeInv, NEW scope, NEW t \in DOMAIN sessions, BindAction(scope, t),
         NEW e \in (Efforts \cup {Root}) \ used'.efforts
  PROVE  Stays(e)
<1>1. PICK row : row.target = t /\ actions' = Append(actions, row)
  BY BindKeeps
<1>2. /\ UNCHANGED <<positions, lineage, agents, disciplines, executions, history>>
      /\ InScope(scope, t[1]) /\ used'.efforts = Covered(scope)
  BY DEF BindAction, Reach
<1>3. t[1] \in Ordinals
  BY RowsAre DEF ScopeInv, ScopeTypes
<1>4. ~InBranch(e, t[1])
  BY <1>2, <1>3, OutOfReach
<1>5. BranchActions(e)' = BranchActions(e)
  <2>1. actions \in Seq([target : Targets, mandate : Nat, environment : Nat])
    BY DEF ScopeInv, ScopeTypes, WorkTable
  <2>2. /\ DOMAIN actions' = DOMAIN actions \cup {Len(actions) + 1}
        /\ \A i \in DOMAIN actions : actions'[i] = actions[i] /\ i # Len(actions) + 1
        /\ actions'[Len(actions) + 1] = row
    BY <1>1, <2>1
  <2> QED BY <1>1, <1>4, <2>2 DEF BranchActions, InBranch
<1> QED BY <1>2, <1>5 DEF Stays, lineage, agents

LEMMA DisciplineStays ==
  ASSUME ScopeInv, NEW scope, NEW initiator \in Ordinals, CreateDiscipline(scope, initiator),
         NEW e \in (Efforts \cup {Root}) \ used'.efforts
  PROVE  Stays(e)
<1>1. PICK row : row.effort = positions[initiator].effort /\ disciplines' = Append(disciplines, row)
  BY DisciplineKeeps
<1>2. /\ UNCHANGED <<positions, lineage, agents, actions, executions, history>>
      /\ InScope(scope, initiator) /\ used'.efforts = Covered(scope)
  BY DEF CreateDiscipline, Reach
<1>3. row.effort \in Efforts /\ row.effort # e
  BY <1>1, <1>2, Reaches DEF CreateDiscipline, ScopeInv, Tree
<1>4. ~InBranch(e, row.effort)
  <2>1. row.effort \in Ordinals /\ row.effort # Root /\ row.effort = <<row.effort[1]>>
    BY <1>3 DEF ScopeInv, ScopeTypes, PositionTable, Tree
  <2>2. e # Root => e = <<e[1]>>
    BY DEF ScopeInv, Tree
  <2> QED BY <1>3, <2>1, <2>2 DEF InBranch
<1>5. BranchWork(e)' = BranchWork(e)
  <2>1. disciplines \in Seq(DisciplineRow)
    BY DEF ScopeInv, ScopeTypes, WorkTable
  <2>2. /\ DOMAIN disciplines' = DOMAIN disciplines \cup {Len(disciplines) + 1}
        /\ \A i \in DOMAIN disciplines : disciplines'[i] = disciplines[i] /\ i # Len(disciplines) + 1
        /\ disciplines'[Len(disciplines) + 1] = row
    BY <1>1, <2>1
  <2>3. /\ executions' = executions
        /\ \A i \in DOMAIN executions : executions[i] \in DOMAIN disciplines
    BY <1>2 DEF ScopeInv, ScopeTypes, WorkTable
  <2>4. {i \in DOMAIN disciplines' : InBranch(e, disciplines'[i].effort)}
          = {i \in DOMAIN disciplines : InBranch(e, disciplines[i].effort)}
    BY <1>4, <2>2
  <2>5. {i \in DOMAIN executions' : InBranch(e, disciplines'[executions'[i]].effort)}
          = {i \in DOMAIN executions : InBranch(e, disciplines[executions[i]].effort)}
    BY <2>2, <2>3
  <2> QED BY <2>4, <2>5 DEF BranchWork, InBranch
<1> QED BY <1>2, <1>5 DEF Stays, lineage, agents

LEMMA ExecutionStays ==
  ASSUME ScopeInv, NEW scope, NEW d \in DOMAIN disciplines, CreateExecution(scope, d),
         NEW e \in (Efforts \cup {Root}) \ used'.efforts
  PROVE  Stays(e)
<1>1. /\ executions' = Append(executions, d) /\ InScope(scope, disciplines[d].effort)
      /\ UNCHANGED <<positions, lineage, agents, actions, disciplines, history>>
      /\ used'.efforts = Covered(scope)
  BY DEF CreateExecution, Reach
<1>2. disciplines[d].effort \in Ordinals
  BY DEF ScopeInv, ScopeTypes, WorkTable, PositionTable
<1>3. ~InBranch(e, disciplines[d].effort)
  BY <1>1, <1>2, OutOfReach
<1>4. BranchWork(e)' = BranchWork(e)
  <2>1. executions \in Seq(Nat)
    BY DEF ScopeInv, ScopeTypes, WorkTable
  <2>2. /\ DOMAIN executions' = DOMAIN executions \cup {Len(executions) + 1}
        /\ \A i \in DOMAIN executions : executions'[i] = executions[i] /\ i # Len(executions) + 1
        /\ executions'[Len(executions) + 1] = d
    <3>1. d \in Nat
      BY DEF ScopeInv, ScopeTypes, WorkTable
    <3> QED BY <1>1, <2>1, <3>1
  <2>3. {i \in DOMAIN executions' : InBranch(e, disciplines[executions'[i]].effort)}
          = {i \in DOMAIN executions : InBranch(e, disciplines[executions[i]].effort)}
    BY <1>3, <2>2
  <2> QED BY <1>1, <2>3 DEF BranchWork, InBranch
<1> QED BY <1>1, <1>4 DEF Stays, lineage, agents

LEMMA NoteStays ==
  ASSUME ScopeInv, NEW scope, NEW events \in SUBSET Events, Note(events), Within(scope, events),
         used'.efforts = Covered(scope), NEW e \in (Efforts \cup {Root}) \ used'.efforts
  PROVE  Stays(e)
<1>1. /\ history' = history \cup events
      /\ UNCHANGED <<positions, lineage, agents, actions, disciplines, executions>>
  BY DEF Note
<1>2. \A x \in events : ~InBranch(e, x.ordinal)
  <2>1. \A x \in events : x.ordinal \in Ordinals /\ positions[x.ordinal].effort # e
    BY DEF Within, Events
  <2> QED BY <2>1, BranchIsEffort
<1>3. BranchHistory(e)' = BranchHistory(e)
  BY <1>1, <1>2 DEF BranchHistory, InBranch
<1> QED BY <1>1, <1>3 DEF Stays, lineage, agents

LEMMA StepStays ==
  ASSUME ScopeInv, Next, NEW e \in (Efforts \cup {Root}) \ used'.efforts
  PROVE  Stays(e)
<1>1. CASE CreateEffort
  BY <1>1, EffortStays
<1>2. ASSUME NEW scope \in Scopes, NEW o \in Ordinals, Delegate(scope, o)
      PROVE  Stays(e)
  BY <1>2, ChildStays
<1>3. ASSUME NEW scope \in Scopes, NEW o \in Ordinals, ReviseMandate(scope, o)
      PROVE  Stays(e)
  BY <1>3, RevisionStays
<1>4. ASSUME NEW scope \in Scopes, NEW o \in Ordinals, ClosePosition(scope, o)
      PROVE  Stays(e)
  BY <1>4, ClosingStays
<1>5. ASSUME NEW scope \in Scopes, NEW o \in Ordinals, Instantiate(scope, o)
      PROVE  Stays(e)
  BY <1>5, SuccessionStays
<1>6. ASSUME NEW scope \in Scopes, NEW o \in Ordinals, CreateDiscipline(scope, o)
      PROVE  Stays(e)
  BY <1>6, DisciplineStays
<1>7. ASSUME NEW scope \in Scopes, NEW o \in Ordinals, RecordEvent(scope, o)
      PROVE  Stays(e)
  <2>1. used'.efforts = Covered(scope)
    BY <1>7 DEF RecordEvent, Reach
  <2> QED BY <1>7, <2>1, EventNoted, NoteStays
<1>8. ASSUME NEW scope \in Scopes, NEW t \in DOMAIN sessions, Reopen(scope, t)
      PROVE  Stays(e)
  <2>1. /\ UNCHANGED <<positions, lineage, work>> /\ used'.efforts = Covered(scope) /\ InScope(scope, t[1])
    BY <1>8 DEF Reopen, Reach
  <2>2. /\ DOMAIN instantiations' = DOMAIN instantiations /\ DOMAIN sessions' = DOMAIN sessions
        /\ \A j \in DOMAIN instantiations : j # Agent(t) => instantiations'[j] = instantiations[j]
        /\ \A u \in DOMAIN sessions : Agent(u) # Agent(t) => sessions'[u] = sessions[u]
    BY <1>8, ReopenKeeps
  <2>3. PICK k \in DOMAIN instantiations : k = Agent(t)
    BY RowsAre DEF ScopeInv, ScopeTypes
  <2>4. k[1] = t[1]
    BY <2>3 DEF Agent
  <2> QED BY <2>1, <2>2, <2>3, <2>4, SessionStays
<1>9. ASSUME NEW scope \in Scopes, NEW t \in DOMAIN sessions, EndSession(scope, t)
      PROVE  Stays(e)
  <2>1. /\ UNCHANGED <<positions, lineage, work>> /\ used'.efforts = Covered(scope) /\ InScope(scope, t[1])
    BY <1>9 DEF EndSession, Reach
  <2>2. /\ DOMAIN instantiations' = DOMAIN instantiations /\ DOMAIN sessions' = DOMAIN sessions
        /\ \A j \in DOMAIN instantiations : j # Agent(t) => instantiations'[j] = instantiations[j]
        /\ \A u \in DOMAIN sessions : Agent(u) # Agent(t) => sessions'[u] = sessions[u]
    BY <1>9, EndKeeps
  <2>3. PICK k \in DOMAIN instantiations : k = Agent(t)
    BY RowsAre DEF ScopeInv, ScopeTypes
  <2>4. k[1] = t[1]
    BY <2>3 DEF Agent
  <2> QED BY <2>1, <2>2, <2>3, <2>4, SessionStays
<1>10. ASSUME NEW scope \in Scopes, NEW t \in DOMAIN sessions, BindAction(scope, t)
       PROVE  Stays(e)
  BY <1>10, BindingStays
<1>11. ASSUME NEW scope \in Scopes, NEW t \in DOMAIN sessions, NEW x \in DOMAIN executions,
              RecordActivation(scope, x, t)
       PROVE  Stays(e)
  <2>1. used'.efforts = Covered(scope)
    BY <1>11 DEF RecordActivation, Reach
  <2> QED BY <1>11, <2>1, ActivationNoted, NoteStays
<1>12. ASSUME NEW scope \in Scopes, Coordinate(scope)
       PROVE  Stays(e)
  <2>1. used'.efforts = Covered(scope)
    BY <1>12 DEF Coordinate, Reach
  <2> QED BY <1>12, <2>1, CoordinationNoted, NoteStays
<1>13. ASSUME NEW scope \in Scopes, NEW f \in Efforts, SetEnvironment(scope, f)
       PROVE  Stays(e)
  BY <1>13, EnvironmentStays
<1>14. ASSUME NEW scope \in Scopes, NEW k \in DOMAIN instantiations, OpenSession(scope, k)
       PROVE  Stays(e)
  <2>1. /\ UNCHANGED <<positions, lineage, work>> /\ used'.efforts = Covered(scope) /\ InScope(scope, k[1])
    BY <1>14 DEF OpenSession, Reach
  <2>2. /\ DOMAIN instantiations' = DOMAIN instantiations /\ DOMAIN sessions \subseteq DOMAIN sessions'
        /\ \A j \in DOMAIN instantiations : j # k => instantiations'[j] = instantiations[j]
        /\ \A t \in DOMAIN sessions' : Agent(t) # k => t \in DOMAIN sessions
        /\ \A t \in DOMAIN sessions : Agent(t) # k => sessions'[t] = sessions[t]
    BY <1>14, OpenKeeps
  <2> QED BY <2>1, <2>2, SessionStays
<1>15. ASSUME NEW scope \in Scopes, NEW d \in DOMAIN disciplines, CreateExecution(scope, d)
       PROVE  Stays(e)
  BY <1>15, ExecutionStays
<1> QED
  BY <1>1, <1>2, <1>3, <1>4, <1>5, <1>6, <1>7, <1>8, <1>9, <1>10, <1>11, <1>12, <1>13, <1>14, <1>15
  DEF Next, Positional, Targeted, Ordinals

-----------------------------------------------------------------------------
(* What a record names.                                                    *)

\* A position keeps its effort and discipline.
LEMMA OwnColumnKept ==
  ASSUME ScopeInv, NamesItsOwn, NEW o \in Ordinals, NEW row, row.effort = positions[o].effort,
         row.discipline = positions[o].discipline, positions' = [positions EXCEPT ![o] = row],
         UNCHANGED <<disciplines, executions, history>>
  PROVE  NamesItsOwn'
<1>1. /\ Ordinals' = Ordinals
      /\ \A p \in Ordinals : /\ positions'[p].effort = positions[p].effort
                             /\ positions'[p].discipline = positions[p].discipline
  BY DEF ScopeInv, ScopeTypes, PositionTable, Ordinals
<1>2. \A e \in history : e.ordinal \in Ordinals
  BY DEF ScopeInv, ScopeTypes, WorkTable
<1> QED BY <1>1, <1>2 DEF NamesItsOwn, Descendant, Parent

LEMMA OwnUntouched ==
  ASSUME ScopeInv, NamesItsOwn, UNCHANGED <<positions, disciplines, executions, history>>
  PROVE  NamesItsOwn'
  BY DEF NamesItsOwn, Ordinals, Descendant, Parent

\* The new position's discipline, if any, is of its effort and of its parent's
\* branch.
LEMMA OwnAllocated ==
  ASSUME ScopeInv, NamesItsOwn, NEW parent \in Ordinals, NEW effort,
         NEW d \in {NoDiscipline} \cup DOMAIN disciplines, NEW delegator,
         Allocate(parent, effort, d, delegator),
         d # NoDiscipline => disciplines[d].effort = effort /\ Descendant(parent, disciplines[d].initiator),
         NextChild(parent) \notin Ordinals, UNCHANGED <<disciplines, executions, history>>
  PROVE  NamesItsOwn'
<1> DEFINE child == NextChild(parent)
<1>1. Parent(child) = parent
  BY ChildOf DEF NextChild, ScopeInv, ScopeTypes, PositionTable, PositionRecord
<1>2. positions' = Put([positions EXCEPT ![parent].next = @ + 1], child, Position(effort, d))
  BY DEF Allocate
<1> HIDE DEF child
<1>3. PICK old : old = [positions[parent] EXCEPT !.next = positions[parent].next + 1]
  OBVIOUS
<1>4. old.effort = positions[parent].effort /\ old.discipline = positions[parent].discipline
  BY <1>3 DEF ScopeInv, ScopeTypes, PositionTable, PositionRecord
<1>5. PICK new : new = Position(effort, d)
  OBVIOUS
<1>6. new.effort = effort /\ new.discipline = d
  BY <1>5 DEF Position
<1>7. positions' = Put([positions EXCEPT ![parent] = old], child, new)
  BY <1>2, <1>3, <1>5
<1>8. /\ Ordinals' = Ordinals \cup {child} /\ positions'[child] = new
      /\ child \notin Ordinals
      /\ \A p \in Ordinals : /\ positions'[p].effort = positions[p].effort
                             /\ positions'[p].discipline = positions[p].discipline
  BY <1>4, <1>7 DEF Put, Ordinals, ScopeInv, ScopeTypes, PositionTable, child
<1>9. \A o \in Ordinals' : positions'[o].discipline # NoDiscipline =>
        /\ disciplines[positions'[o].discipline].effort = positions'[o].effort
        /\ Descendant(Parent(o), disciplines[positions'[o].discipline].initiator)
  <2>1. ASSUME NEW o \in Ordinals, positions'[o].discipline # NoDiscipline
        PROVE  /\ disciplines[positions'[o].discipline].effort = positions'[o].effort
               /\ Descendant(Parent(o), disciplines[positions'[o].discipline].initiator)
    BY <1>8, <2>1 DEF NamesItsOwn
  <2> QED BY <1>1, <1>6, <1>8, <2>1
<1>10. \A e \in history : e.ordinal \in Ordinals
  BY DEF ScopeInv, ScopeTypes, WorkTable
<1>11. \A i \in DOMAIN disciplines :
         /\ disciplines[i].initiator \in Ordinals'
         /\ disciplines[i].effort = positions'[disciplines[i].initiator].effort
         /\ disciplines[i].parent # NoDiscipline =>
              positions'[disciplines[i].initiator].discipline = disciplines[i].parent
  BY <1>8 DEF NamesItsOwn
<1>12. \A e \in history :
         /\ e.discipline # NoDiscipline =>
              disciplines[e.discipline].effort = positions'[e.ordinal].effort
         /\ e.execution # 0 => executions[e.execution] = e.discipline
  BY <1>8, <1>10 DEF NamesItsOwn
<1>13. disciplines' = disciplines /\ executions' = executions /\ history' = history
  OBVIOUS
<1> QED BY <1>9, <1>11, <1>12, <1>13 DEF NamesItsOwn, Descendant, Parent

LEMMA OwnDiscipline ==
  ASSUME ScopeInv, NamesItsOwn, NEW scope, NEW initiator \in Ordinals,
         CreateDiscipline(scope, initiator)
  PROVE  NamesItsOwn'
<1>1. PICK parent \in {NoDiscipline} \cup DOMAIN disciplines :
        /\ parent # NoDiscipline => positions[initiator].discipline = parent
        /\ disciplines' = Append(disciplines,
             [effort |-> positions[initiator].effort, initiator |-> initiator,
              parent |-> parent, environment |-> environments[positions[initiator].effort]])
  BY DEF CreateDiscipline
<1>2. PICK row : row = [effort |-> positions[initiator].effort, initiator |-> initiator,
           parent |-> parent, environment |-> environments[positions[initiator].effort]]
  OBVIOUS
<1>3. row.effort = positions[initiator].effort /\ row.initiator = initiator /\ row.parent = parent
  BY <1>2
<1>4. disciplines' = Append(disciplines, row) /\ UNCHANGED <<positions, executions, history>>
  BY <1>1, <1>2 DEF CreateDiscipline
<1>5. disciplines \in Seq(DisciplineRow)
  BY DEF ScopeInv, ScopeTypes, WorkTable
<1>6. /\ DOMAIN disciplines' = DOMAIN disciplines \cup {Len(disciplines) + 1}
      /\ \A i \in DOMAIN disciplines : disciplines'[i] = disciplines[i] /\ i # Len(disciplines) + 1
      /\ disciplines'[Len(disciplines) + 1] = row
  BY <1>4, <1>5
<1>7. \A o \in Ordinals : positions[o].discipline # NoDiscipline =>
        positions[o].discipline \in DOMAIN disciplines
  BY DEF ScopeInv, ScopeTypes, WorkTable
<1>8. \A e \in history : e.discipline # NoDiscipline => e.discipline \in DOMAIN disciplines
  BY DEF ScopeInv, ScopeTypes, WorkTable
<1>9. \A d \in DOMAIN disciplines' :
        /\ disciplines'[d].initiator \in Ordinals
        /\ disciplines'[d].effort = positions[disciplines'[d].initiator].effort
        /\ disciplines'[d].parent # NoDiscipline =>
             positions[disciplines'[d].initiator].discipline = disciplines'[d].parent
  BY <1>1, <1>3, <1>6 DEF NamesItsOwn
<1>10. Ordinals' = Ordinals
  BY <1>4 DEF Ordinals
<1> QED BY <1>4, <1>6, <1>7, <1>8, <1>9, <1>10 DEF NamesItsOwn, Descendant, Parent

LEMMA OwnExecution ==
  ASSUME ScopeInv, NamesItsOwn, NEW scope, NEW d \in DOMAIN disciplines, CreateExecution(scope, d)
  PROVE  NamesItsOwn'
<1>1. executions' = Append(executions, d) /\ UNCHANGED <<positions, disciplines, history>>
  BY DEF CreateExecution
<1>2. \A x \in DOMAIN executions : executions'[x] = executions[x]
  BY <1>1 DEF ScopeInv, ScopeTypes, WorkTable
<1>3. \A e \in history : e.execution # 0 => e.execution \in DOMAIN executions
  BY DEF ScopeInv, ScopeTypes, WorkTable
<1>4. Ordinals' = Ordinals
  BY <1>1 DEF Ordinals
<1> QED BY <1>1, <1>2, <1>3, <1>4 DEF NamesItsOwn, Descendant, Parent

LEMMA OwnNoted ==
  ASSUME ScopeInv, NamesItsOwn, NEW events, \A e \in events : Correlated(e), Note(events)
  PROVE  NamesItsOwn'
<1>1. /\ history' = history \cup events /\ UNCHANGED <<positions, disciplines, executions>>
  BY DEF Note
<1>2. \A e \in history' :
        /\ e.discipline # NoDiscipline =>
             disciplines[e.discipline].effort = positions[e.ordinal].effort
        /\ e.execution # 0 => executions[e.execution] = e.discipline
  BY <1>1 DEF NamesItsOwn, Correlated
<1>3. Ordinals' = Ordinals
  BY <1>1 DEF Ordinals
<1> QED BY <1>1, <1>2, <1>3 DEF NamesItsOwn, Descendant, Parent

LEMMA PositionalOwns ==
  ASSUME ScopeInv, NamesItsOwn, NEW scope, NEW o \in Ordinals,
         \/ Delegate(scope, o) \/ ReviseMandate(scope, o) \/ ClosePosition(scope, o)
         \/ Instantiate(scope, o) \/ CreateDiscipline(scope, o) \/ RecordEvent(scope, o)
  PROVE  NamesItsOwn'
<1>1. positions[o] \in PositionRecord
  BY DEF ScopeInv, ScopeTypes, PositionTable
<1>2. CASE Delegate(scope, o)
  <2>1. PICK delegator \in Origins(o), d \in {NoDiscipline} \cup DOMAIN disciplines :
          MayParticipate(o, d) /\ Allocate(o, positions[o].effort, d, delegator)
    BY <1>2 DEF Delegate
  <2>2. NextChild(o) \notin Ordinals
    BY <1>2, ChildAllocated
  <2>3. UNCHANGED <<disciplines, executions, history>>
    BY <1>2 DEF Delegate, work
  <2> QED BY <2>1, <2>2, <2>3, OwnAllocated DEF MayParticipate
<1>3. CASE ReviseMandate(scope, o)
  <2>1. PICK row : row = [positions[o] EXCEPT !.mandate = positions[o].mandate + 1]
    OBVIOUS
  <2>2. row.effort = positions[o].effort /\ row.discipline = positions[o].discipline
    BY <1>1, <2>1 DEF PositionRecord
  <2>3. /\ positions' = [positions EXCEPT ![o] = row]
        /\ UNCHANGED <<disciplines, executions, history>>
    BY <1>3, <2>1 DEF ReviseMandate, work
  <2> QED BY <2>2, <2>3, OwnColumnKept
<1>4. CASE ClosePosition(scope, o)
  <2>1. PICK row : row = [positions[o] EXCEPT !.status = "closed"]
    OBVIOUS
  <2>2. row.effort = positions[o].effort /\ row.discipline = positions[o].discipline
    BY <1>1, <2>1 DEF PositionRecord
  <2>3. /\ positions' = [positions EXCEPT ![o] = row]
        /\ UNCHANGED <<disciplines, executions, history>>
    BY <1>4, <2>1 DEF ClosePosition, work
  <2> QED BY <2>2, <2>3, OwnColumnKept
<1>5. CASE Instantiate(scope, o)
  <2>1. PICK row : row = [positions[o] EXCEPT !.current = Following(Instances(o))]
    OBVIOUS
  <2>2. row.effort = positions[o].effort /\ row.discipline = positions[o].discipline
    BY <1>1, <2>1 DEF PositionRecord
  <2>3. /\ positions' = [positions EXCEPT ![o] = row]
        /\ UNCHANGED <<disciplines, executions, history>>
    BY <1>5, <2>1 DEF Instantiate, work
  <2> QED BY <2>2, <2>3, OwnColumnKept
<1>6. CASE CreateDiscipline(scope, o)
  BY <1>6, OwnDiscipline
<1>7. CASE RecordEvent(scope, o)
  <2>1. PICK d, x : Correlated(Event(o, d, x)) /\ Note({Event(o, d, x)})
    BY <1>7 DEF RecordEvent
  <2> QED BY <2>1, OwnNoted
<1> QED BY <1>2, <1>3, <1>4, <1>5, <1>6, <1>7

\* An event noted of a position under its own discipline is correlated.
LEMMA CoordinationOwns ==
  ASSUME ScopeInv, NamesItsOwn, NEW scope, Coordinate(scope)
  PROVE  NamesItsOwn'
<1>1. PICK instructed \in SUBSET (DOMAIN positions \ {Root}) :
        Note({Event(o, positions[o].discipline, 0) : o \in instructed \cup {Root}})
  BY DEF Coordinate
<1>2. \A o \in instructed \cup {Root} : o \in Ordinals
  BY DEF Ordinals, ScopeInv, ScopeTypes, PositionTable
<1>3. \A o \in instructed \cup {Root} : Correlated(Event(o, positions[o].discipline, 0))
  BY <1>2 DEF Correlated, Event, NamesItsOwn
<1> QED BY <1>1, <1>3, OwnNoted

LEMMA StepOwns ==
  ASSUME ScopeInv, NamesItsOwn, Next
  PROVE  NamesItsOwn'
<1>1. CASE CreateEffort
  <2>1. PICK delegator : Allocate(Root, NextChild(Root), NoDiscipline, delegator)
    BY <1>1 DEF CreateEffort
  <2>2. NextChild(Root) \notin Ordinals /\ UNCHANGED <<disciplines, executions, history>>
    BY <1>1, EffortAllocated DEF CreateEffort, work
  <2>3. Root \in Ordinals
    BY DEF ScopeInv, ScopeTypes, PositionTable
  <2> QED BY <2>1, <2>2, <2>3, OwnAllocated
<1>2. ASSUME NEW scope \in Scopes, Positional(scope)
      PROVE  NamesItsOwn'
  BY <1>2, PositionalOwns DEF Positional, Ordinals
<1>3. ASSUME NEW scope \in Scopes, Targeted(scope)
      PROVE  NamesItsOwn'
  <2>1. PICK t \in DOMAIN sessions :
          \/ Reopen(scope, t) \/ EndSession(scope, t) \/ BindAction(scope, t)
          \/ \E x \in DOMAIN executions : RecordActivation(scope, x, t)
    BY <1>3 DEF Targeted
  <2>2. CASE Reopen(scope, t) \/ EndSession(scope, t) \/ BindAction(scope, t)
    BY <2>2, OwnUntouched DEF Reopen, EndSession, BindAction, work
  <2>3. CASE \E x \in DOMAIN executions : RecordActivation(scope, x, t)
    <3>1. PICK x \in DOMAIN executions : RecordActivation(scope, x, t)
      BY <2>3
    <3> QED BY <3>1, OwnNoted DEF RecordActivation
  <2> QED BY <2>1, <2>2, <2>3
<1>4. ASSUME NEW scope \in Scopes, Coordinate(scope)
      PROVE  NamesItsOwn'
  BY <1>4, CoordinationOwns
<1>5. ASSUME NEW scope \in Scopes, NEW e \in Efforts, SetEnvironment(scope, e)
      PROVE  NamesItsOwn'
  BY <1>5, OwnUntouched DEF SetEnvironment, work
<1>6. ASSUME NEW scope \in Scopes, NEW k \in DOMAIN instantiations, OpenSession(scope, k)
      PROVE  NamesItsOwn'
  BY <1>6, OwnUntouched DEF OpenSession, work
<1>7. ASSUME NEW scope \in Scopes, NEW d \in DOMAIN disciplines, CreateExecution(scope, d)
      PROVE  NamesItsOwn'
  BY <1>7, OwnExecution
<1> QED BY <1>1, <1>2, <1>3, <1>4, <1>5, <1>6, <1>7 DEF Next

LEMMA OwnAlways == Spec => []NamesItsOwn
<1>1. Init => NamesItsOwn
  <2> SUFFICES ASSUME Init
               PROVE  NamesItsOwn
    OBVIOUS
  <2>1. /\ \A o \in Ordinals : positions[o].discipline = NoDiscipline
        /\ DOMAIN disciplines = {} /\ history = {}
    BY DEF Init, Ordinals, Position, Root
  <2> QED BY <2>1 DEF NamesItsOwn
<1>2. ScopeInv /\ NamesItsOwn /\ [Next]_vars => NamesItsOwn'
  BY StepOwns, OwnUntouched DEF vars, work
<1> QED BY <1>1, <1>2, ScopeAlways, PTL DEF Spec

\* The version an operation's scope carries.
LEMMA StepInTime ==
  ASSUME Next
  PROVE  used'.version \in {0, positions[Root].mandate}
<1>1. ASSUME NEW scope, NEW o, InScope(scope, o)
      PROVE  Reach(scope).version \in {0, positions[Root].mandate}
  BY <1>1 DEF InScope, Reach
<1>2. CASE CreateEffort
  BY <1>2 DEF CreateEffort
<1>3. ASSUME NEW scope \in Scopes, Positional(scope)
      PROVE  used'.version \in {0, positions[Root].mandate}
  <2>1. PICK o : InScope(scope, o) /\ used' = Reach(scope)
    BY <1>3 DEF Positional, Delegate, ReviseMandate, ClosePosition, Instantiate,
                CreateDiscipline, RecordEvent
  <2> QED BY <1>1, <2>1
<1>4. ASSUME NEW scope \in Scopes, Targeted(scope)
      PROVE  used'.version \in {0, positions[Root].mandate}
  <2>1. PICK o : InScope(scope, o) /\ used' = Reach(scope)
    BY <1>4 DEF Targeted, Reopen, EndSession, BindAction, RecordActivation
  <2> QED BY <1>1, <2>1
<1>5. ASSUME NEW scope \in Scopes, NEW o, InScope(scope, o), used' = Reach(scope)
      PROVE  used'.version \in {0, positions[Root].mandate}
  BY <1>1, <1>5
<1> QED BY <1>2, <1>3, <1>4, <1>5
        DEF Next, Coordinate, SetEnvironment, OpenSession, CreateExecution

\* No operation is done under a version of the root mandate that was revised,
\* none changes a record of an effort its scope does not cover, or of the root
\* under an effort's scope, and whatever discipline, target, execution or
\* ordinal it also names, every record names only what is of its own effort.
THEOREM OperationsStayInScope == Spec => StaysInScope
<1> DEFINE Stay == \A e \in (Efforts \cup {Root}) \ used'.efforts : Stays(e)
           Timely == used'.version \in {0, positions[Root].mandate}
<1>1. ScopeInv /\ [Next]_vars => [Stay]_vars
  BY StepStays
<1>2. [Next]_vars => [Timely]_vars
  BY StepInTime
<1>3. [Timely /\ Stay /\ NamesItsOwn']_vars =>
        [/\ used'.version \in {0, positions[Root].mandate}
         /\ \A e \in (Efforts \cup {Root}) \ used'.efforts :
              /\ positions' = positions \/ BranchPositions(e)' = BranchPositions(e)
              /\ \/ <<mandates, instantiations, sessions, environments>>' =
                       <<mandates, instantiations, sessions, environments>>
                 \/ BranchRecords(e)' = BranchRecords(e)
              /\ actions' = actions \/ BranchActions(e)' = BranchActions(e)
              /\ \/ <<disciplines, executions>>' = <<disciplines, executions>>
                 \/ BranchWork(e)' = BranchWork(e)
              /\ history' = history \/ BranchHistory(e)' = BranchHistory(e)
         /\ NamesItsOwn']_vars
  BY DEF Stays
<1>4. [][Timely /\ Stay /\ NamesItsOwn']_vars => StaysInScope
  BY <1>3, PTL DEF StaysInScope
<1>5. ScopeInv /\ NamesItsOwn' /\ [Next]_vars => [Timely /\ Stay /\ NamesItsOwn']_vars
  BY <1>1, <1>2
<1> QED BY <1>4, <1>5, ScopeAlways, OwnAlways, PTL DEF Spec
=============================================================================
