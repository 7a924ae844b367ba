----------------------------- MODULE MCHarness ------------------------------
(***************************************************************************)
(* Finite results for the harness: what each pattern needs to go forward   *)
(* and to be stopped.  Offered in every phase, all but one are refused.    *)
(***************************************************************************)
EXTENDS Harness

Says(outcome, names, full) ==
  [outcome |-> outcome, names |-> names, blocking |-> FALSE, target |-> 0, full |-> full]

\* Artifact 1 is the draft under review.
DevelopmentResults ==
  {Says("produced", None, TRUE), Says("pass", 1, TRUE), Says("fail", 1, TRUE)}

CognitionResults ==
  {Says("advance", None, TRUE), Says("complete", None, TRUE),
   Says("return", None, TRUE)}
=============================================================================
