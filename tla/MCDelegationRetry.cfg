SPECIFICATION Spec
CONSTANTS
  Delegations = {d1}
  Inputs <- OneCreate
  Agents = {"a", "b", "c", "d", "e"}
  Self = "a"
  Target = "b"
  Registry <- MCRegistry
  SelfTrusted = TRUE
  MaxRetries = 1
  Keys = {"k1"}
  NoKey = "no key"
  Fingerprints = {"f1", "f2"}
  HighRiskTools = {"create_user"}
  Operations = {"create_user", "get_user", "list_users"}
  MaxHops = 2
  A2AEnabled = TRUE
  MaxRestarts = 0
  None = None
INVARIANT
  RetryExecutesOnce
