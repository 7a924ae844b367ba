---------------------------- MODULE SeatPromise -----------------------------
(***************************************************************************)
(* What a position of the domain promises: it is held by one occupant      *)
(* after another, and at any time one conversation of the occupant has its *)
(* seat.  A conversation takes the seat while its broker runs, at most one *)
(* broker runs it, and it belongs for good to the occupant under whom it   *)
(* first sat: once that one is succeeded, it never sits again.             *)
(***************************************************************************)
EXTENDS Naturals

CONSTANTS Conversations, Nobody, Brokers

VARIABLES
  running,    \* per conversation, its brokers
  occupant,   \* number of the current occupant, 0 before the first
  belongs,    \* per conversation, the number of its occupant, 0 before it sat
  seated      \* the conversation that has the seat, or Nobody

Init ==
  /\ running = [s \in Conversations |-> {}]
  /\ occupant = 0
  /\ belongs = [s \in Conversations |-> 0]
  /\ seated = Nobody

Start(s, b) ==
  /\ running[s] = {}
  /\ running' = [running EXCEPT ![s] = {b}]
  /\ UNCHANGED <<occupant, belongs, seated>>

\* The next occupant is there before any conversation of it sits.
Succeed(s) ==
  /\ running[s] # {} /\ belongs[s] = 0
  /\ occupant' = occupant + 1
  /\ seated' = Nobody
  /\ UNCHANGED <<running, belongs>>

Sit(s) ==
  /\ running[s] # {}
  /\ occupant # 0 /\ belongs[s] \in {0, occupant}
  /\ belongs' = [belongs EXCEPT ![s] = occupant]
  /\ seated' = s
  /\ UNCHANGED <<running, occupant>>

\* A broker ends.  One that was killed has not given up the seat.
End(s) ==
  /\ running[s] # {}
  /\ running' = [running EXCEPT ![s] = {}]
  /\ seated' \in IF seated = s THEN {s, Nobody} ELSE {seated}
  /\ UNCHANGED <<occupant, belongs>>

Next ==
  \E s \in Conversations :
    Succeed(s) \/ Sit(s) \/ End(s) \/ \E b \in Brokers : Start(s, b)

Spec == Init /\ [][Next]_<<running, occupant, belongs, seated>>
=============================================================================
