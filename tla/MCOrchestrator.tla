--------------------------- MODULE MCOrchestrator ---------------------------
(***************************************************************************)
(* Instances of Orchestrator for TLC.  One plan stops for missing input    *)
(* after another step ran; the other delegates after a high-risk operation *)
(* whose inputs the tool itself checks.  The liveness run needs only the   *)
(* shortest plans that reach every branch of the loop.                     *)
(***************************************************************************)
EXTENDS Orchestrator, TLC

Step(tool, complete) == [tool |-> tool, complete |-> complete]

MCStepPlans ==
  { <<Step("get_user", TRUE), Step("add_user_to_group", FALSE)>>,
    <<Step("create_user", FALSE), Step("delegate_to_peer", TRUE)>> }

ShortStepPlans ==
  { <<Step("get_user", TRUE)>>, <<Step("add_user_to_group", FALSE)>> }

TurnSymmetry == Permutations(Turns)

=============================================================================
