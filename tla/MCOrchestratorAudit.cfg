SPECIFICATION Spec
CONSTANTS
  MaxAttempts = 3
  Turns = {t1, t2}
  Tools = {"get_user", "create_user", "add_user_to_group", "delegate_to_peer"}
  HighRiskTools = {"create_user", "add_user_to_group"}
  DeferMissingCheck = {"create_user"}
  DelegatingTools = {"delegate_to_peer"}
  StepPlans <- MCStepPlans
INVARIANT
  HighRiskAudited
