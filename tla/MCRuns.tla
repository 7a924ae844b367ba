-------------------------------- MODULE MCRuns --------------------------------
(***************************************************************************)
(* A run as its controller keeps it, as maintenance copies and protects it *)
(* and as its work is applied to a project.  The three share no state: one *)
(* run explores each of them while the others are in an initial state.     *)
(***************************************************************************)
EXTENDS ControllerRefines, Archive, Apply

VARIABLE active

RunsInit ==
  /\ active \in {"controller", "archive", "apply"}
  /\ Init /\ ArchiveInit /\ ApplyInit
  /\ active # "controller" => kind = CHOOSE k \in Kinds : TRUE
  /\ active # "archive" => program = "harness"

RunsNext ==
  /\ UNCHANGED active
  /\ \/ active = "controller" /\ Next /\ UNCHANGED archiveVars /\ UNCHANGED applyVars
     \/ active = "archive" /\ ArchiveNext /\ UNCHANGED vars /\ UNCHANGED applyVars
     \/ active = "apply" /\ ApplyNext /\ UNCHANGED vars /\ UNCHANGED archiveVars

RunsSpec == RunsInit /\ [][RunsNext]_<<active, vars, archiveVars, applyVars>>
=============================================================================
