SPECIFICATION Spec
CONSTANTS
  Calls <- MCCalls
  Accounts <- MCAccounts
  Joiners <- MCJoiners
  Groups <- MCGroups
  Memberships <- MCMemberships
  Employees <- MCEmployees
  NameQuery <- MCNameQuery
  FullName <- MCFullName
  MaxChanges = 2
  Unresolved = Unresolved
  None = "none"
  PartOf <- MCPartOf
  PageMax = 3
  Statements <- MCStatements
CHECK_DEADLOCK FALSE
INVARIANTS
  TypeOK
  OnlyTheMeant
  AnswerTellsWrites
  AccountOfOneEmployee
  FitsThePrompt
  GroupsWereHeld
  SupposedGrantExists
  WritesAsAsked
