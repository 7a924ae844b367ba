------------------------------- MODULE MCScope -------------------------------
(***************************************************************************)
(* Scope under three shares of its bounds: one spends them on agents,      *)
(* their sessions, mandates and actions, one on efforts, disciplines and   *)
(* their executions, one on nested disciplines.  The share is chosen at    *)
(* the start.                                                              *)
(***************************************************************************)
EXTENDS Scope

VARIABLE share

Agents == [efforts |-> 1, positions |-> 3, closed |-> 3, revisions |-> 1, instantiations |-> 2,
           sessions |-> 2, environments |-> 2, actions |-> 1, disciplines |-> 0,
           executions |-> 0, events |-> 0]
Work   == [efforts |-> 2, positions |-> 4, closed |-> 1, revisions |-> 0, instantiations |-> 1,
           sessions |-> 1, environments |-> 1, actions |-> 0, disciplines |-> 1,
           executions |-> 1, events |-> 4]
Nested == [efforts |-> 2, positions |-> 4, closed |-> 1, revisions |-> 1, instantiations |-> 0,
           sessions |-> 0, environments |-> 1, actions |-> 0, disciplines |-> 2,
           executions |-> 1, events |-> 0]

Spent(bounds) ==
  /\ Cardinality(Efforts) <= bounds.efforts
  /\ Cardinality(DOMAIN positions) <= bounds.positions
  /\ Cardinality({p \in DOMAIN positions : positions[p].status = "closed"}) <= bounds.closed
  /\ Cardinality(DOMAIN mandates) <= Cardinality(DOMAIN positions) + bounds.revisions
  /\ Cardinality(DOMAIN instantiations) <= bounds.instantiations
  /\ Cardinality(DOMAIN sessions) <= bounds.sessions
  /\ \A e \in DOMAIN environments : environments[e] <= bounds.environments
  /\ Len(actions) <= bounds.actions /\ Len(disciplines) <= bounds.disciplines
  /\ Len(executions) <= bounds.executions /\ Cardinality(history) <= bounds.events

SharedInit == Init /\ share \in {Agents, Work, Nested}
SharedNext == share' = share /\ Next /\ Spent(share)'
SharedSpec == SharedInit /\ [][SharedNext]_<<vars, share>>

(* What the next operation depends on: everything but the reach of the last. *)
Recorded == <<positions, lineage, agents, work, share>>
=============================================================================
