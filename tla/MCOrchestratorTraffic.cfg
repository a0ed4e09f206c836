SPECIFICATION TrafficSpec
CONSTANTS
  MaxAttempts = 3
  Turns = {t1, t2}
  Tools = {"get_user", "create_user"}
  HighRiskTools = {"create_user"}
  DeferMissingCheck = {"create_user"}
  DelegatingTools = {}
  StepPlans <- OneReadPlan
VIEW Future
PROPERTY StopsAfterMaxRetry
