----------------------------- MODULE MCSessions -----------------------------
(***************************************************************************)
(* Managed sessions and what passes between them: either the conversations *)
(* of a position are launched and shut down, or a message passes between   *)
(* the sessions of several positions.  The two share no state; the choice  *)
(* is made at the start and the other stays as it began.  Rows are         *)
(* interchangeable, and so are clients.                                    *)
(***************************************************************************)
EXTENDS Sessions, Messages, TLC

VARIABLE active

SessionsInit ==
  /\ active \in {"conversations", "messages"} /\ Init /\ MessagesInit
  /\ active = "conversations" => \A r \in Recipients : sends[r].target = <<r, 1>>

SessionsNext ==
  /\ active' = active
  /\ \/ active = "conversations" /\ Next /\ UNCHANGED messageVars
     \/ active = "messages" /\ MessagesNext /\ UNCHANGED vars

SessionsSpec == SessionsInit /\ [][SessionsNext]_<<vars, messageVars, active>>

Interchangeable == Permutations(Ids) \union Permutations(Clients)
=============================================================================
