------------------------------ MODULE MCServices ------------------------------
(***************************************************************************)
(* The services that stand by themselves: they share no state with one     *)
(* another, so one run explores each of them from initial states in which  *)
(* it is the active one.                                                   *)
(***************************************************************************)
EXTENDS Delegation, Release, Review, Attestation, Reviewed

VARIABLE active

Services == {"delegation", "release", "review", "attestation", "reviewed"}

(* The others rest in one of their initial states.                         *)
AtRest(service, initial) == active # service => initial

ServicesInit ==
  /\ active \in Services
  /\ Init /\ ReleaseInit /\ ReviewInit /\ AttestationInit /\ ReviewedInit
  /\ AtRest("delegation", deps = [t \in Tasks |-> {}])
  /\ AtRest("release", pointer = "none")
  /\ AtRest("review", pull.head = CHOOSE h \in Heads : TRUE)
  /\ AtRest("reviewed", depends = [t \in Children |-> {}])

Otherwise(service) ==
  /\ active = service /\ UNCHANGED active
  /\ service # "delegation" => UNCHANGED vars
  /\ service # "release" => UNCHANGED releaseVars
  /\ service # "review" => UNCHANGED reviewVars
  /\ service # "attestation" => UNCHANGED attestationVars
  /\ service # "reviewed" => UNCHANGED reviewedVars

ServicesNext ==
  \/ Otherwise("delegation") /\ Next
  \/ Otherwise("release") /\ ReleaseNext
  \/ Otherwise("review") /\ ReviewNext
  \/ Otherwise("attestation") /\ AttestationNext
  \/ Otherwise("reviewed") /\ ReviewedNext

servicesVars == <<active, vars, releaseVars, reviewVars, attestationVars, reviewedVars>>
ServicesSpec == ServicesInit /\ [][ServicesNext]_servicesVars
\* Controllers are alike; nothing but the batch knows them.
Interchangeable == Permutations(Controllers)
=============================================================================
