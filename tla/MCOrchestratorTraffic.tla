------------------------ MODULE MCOrchestratorTraffic ------------------------
(***************************************************************************)
(* The smallest instance of OrchestratorTraffic: one plan of one read.     *)
(***************************************************************************)
EXTENDS OrchestratorTraffic

OneReadPlan == { <<[tool |-> "get_user", complete |-> TRUE]>> }

=============================================================================
