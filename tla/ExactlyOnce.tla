---------------------------- MODULE ExactlyOnce ----------------------------
(***************************************************************************)
(* What the correlation adapter promises the callers of Disciplines.once,  *)
(* and the launches of reviewed work their own: a command key has at most  *)
(* one effect, in one step; whoever is answered for the key asked for that *)
(* very request and is told of that effect.                                *)
(***************************************************************************)
CONSTANTS Keys, Requests, Callers

VARIABLES effect,   \* per key, the request that took effect, or "none"
          told      \* per caller, the command it was last answered for, or Nothing

Nothing == [key |-> "none", request |-> "none"]

Init == effect = [k \in Keys |-> "none"] /\ told = [c \in Callers |-> Nothing]

Perform(k, r) ==
  /\ effect[k] = "none"
  /\ effect' = [effect EXCEPT ![k] = r]
  /\ UNCHANGED told

Answer(c, k, r) ==
  /\ effect[k] = r
  /\ told' = [told EXCEPT ![c] = [key |-> k, request |-> r]]
  /\ UNCHANGED effect

\* A caller starts another command.
Ask(c) ==
  /\ told' = [told EXCEPT ![c] = Nothing]
  /\ UNCHANGED effect

Next ==
  \/ \E c \in Callers : Ask(c)
  \/ \E k \in Keys, r \in Requests : Perform(k, r) \/ \E c \in Callers : Answer(c, k, r)

Spec == Init /\ [][Next]_<<effect, told>>
=============================================================================
