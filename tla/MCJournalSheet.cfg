SPECIFICATION Spec
CONSTANTS
  None = None
  All = All
  Rules = {1, 2}
  Matches <- MCMatches
  RuleOf <- MCRuleOf
  TransactionOf <- MCTransactionOf
  Positions <- MCPositions
  FirstPosition <- MCFirstPosition
  Late = {12}
  Switched = {2}
  Reincluded = {"moved"}
  PageSize = 1
  Slots = {o1}
INVARIANTS
  RowsOfChannel
  OnlyMixedOrMovedMislists
  TraceOfSelection
PROPERTY TraceSettles
