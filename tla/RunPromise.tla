----------------------------- MODULE RunPromise -----------------------------
(***************************************************************************)
(* What a run promises whoever started it, without versions, callers,      *)
(* activations or drafts: phases are accepted one after the other, an      *)
(* accepted phase is given up only by a reopening paid from a budget, each *)
(* phase is tried again only so often, the run is blocked only when a      *)
(* budget is spent, and one that ended does nothing more.                  *)
(***************************************************************************)
EXTENDS Naturals

CONSTANTS LastPhase, Reopenings, Retries

Phases == 0 .. LastPhase

VARIABLES accepted,   \* phases whose result stands
          left,       \* reopenings left
          retries,    \* further tries left in this phase
          outcome     \* "open" until the run completes, blocks or stops

Below(p) == {q \in Phases : q < p}

Init == accepted = {} /\ left = Reopenings /\ retries = Retries /\ outcome = "open"

Accept(p) ==
  /\ outcome = "open"
  /\ accepted = Below(p)
  /\ accepted' = accepted \cup {p}
  /\ IF p = LastPhase THEN outcome' = "completed" /\ UNCHANGED retries
                      ELSE retries' = Retries /\ UNCHANGED outcome
  /\ UNCHANGED left

Retry ==
  /\ outcome = "open" /\ retries > 0
  /\ retries' = retries - 1
  /\ UNCHANGED <<accepted, left, outcome>>

Reopen(p) ==
  /\ outcome = "open" /\ left > 0
  /\ p \in accepted
  /\ accepted' = Below(p)
  /\ left' = left - 1
  /\ UNCHANGED <<retries, outcome>>

Block ==
  /\ outcome = "open" /\ (left = 0 \/ retries = 0)
  /\ outcome' = "blocked"
  /\ UNCHANGED <<accepted, left, retries>>

Stop ==
  /\ outcome = "open"
  /\ outcome' = "stopped"
  /\ UNCHANGED <<accepted, left, retries>>

Next == (\E p \in Phases : Accept(p) \/ Reopen(p)) \/ Retry \/ Block \/ Stop

Spec == Init /\ [][Next]_<<accepted, left, retries, outcome>>
=============================================================================
