SPECIFICATION Spec
CONSTANTS
  Calls = {c1, c2, c3}
  Requests <- MCRequests
  Keys = {"k1"}
  NoKey = "no key"
  Fingerprints = {"f1", "f2"}
  HighRiskTools = {"create_user"}
  Operations = {"create_user", "get_user"}
  MaxHops = 2
  A2AEnabled = TRUE
  MaxRestarts = 1
  None = None
INVARIANTS
  TypeOK
  DuplicateNeedsRaceOrRestart
  GuardedExecution
  AnsweredExecutionAudited
PROPERTIES
  RecordStable
  KeepsPromise
