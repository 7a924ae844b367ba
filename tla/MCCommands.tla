------------------------------ MODULE MCCommands ------------------------------
(***************************************************************************)
(* What is asked for more than once and done once: a command to the        *)
(* ordinal domain, the launch of reviewed work and the contribution to the *)
(* native store.  They share no state: each is explored from initial       *)
(* states in which it is the active one.                                   *)
(***************************************************************************)
EXTENDS Once, Launch, Opermem

VARIABLE active

AtRest(service, initial) == active # service => initial

CommandsInit ==
  /\ active \in {"once", "launch", "opermem"}
  /\ Init /\ LaunchInit /\ OpermemInit
  /\ AtRest("launch", capacity = 1)
  /\ AtRest("opermem", kind = "plain" /\ ~owned)

Otherwise(service) ==
  /\ active = service /\ UNCHANGED active
  /\ service # "once" => UNCHANGED vars
  /\ service # "launch" => UNCHANGED launchVars
  /\ service # "opermem" => UNCHANGED opermemVars

CommandsNext ==
  \/ Otherwise("once") /\ Next
  \/ Otherwise("launch") /\ LaunchNext
  \/ Otherwise("opermem") /\ OpermemNext

CommandsSpec == CommandsInit /\ [][CommandsNext]_<<active, vars, launchVars, opermemVars>>
=============================================================================
