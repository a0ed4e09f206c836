SPECIFICATION Spec
CONSTANTS
  Calls <- CreateCalls
  Accounts <- MCAccounts
  Joiners <- MCJoiners
  Groups <- MCGroups
  Memberships <- MCMemberships
  Employees <- MCEmployees
  NameQuery <- MCNameQuery
  FullName <- MCFullName
  MaxChanges = 0
  Unresolved = Unresolved
  None = "none"
  PartOf <- MCPartOf
  PageMax = 3
  Statements <- MCStatements
CHECK_DEADLOCK FALSE
INVARIANT
  MissingPolicyMeansNoGrant
