SPECIFICATION FairSpec
CONSTANTS
  Delegations = {d1}
  Inputs <- MCInputs
  Agents = {"a", "b", "c", "d", "e"}
  Self = "a"
  Target = "b"
  Registry <- MCRegistry
  SelfTrusted = TRUE
  MaxRetries = 2
  Keys = {"k1"}
  NoKey = "no key"
  Fingerprints = {"f1", "f2"}
  HighRiskTools = {"create_user"}
  Operations = {"create_user", "get_user", "list_users"}
  MaxHops = 2
  A2AEnabled = TRUE
  MaxRestarts = 1
  None = None
INVARIANTS
  SuccessWasExecuted
  RefusedNotExecuted
PROPERTY
  Reported
