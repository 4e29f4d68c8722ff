SPECIFICATION Spec
CONSTANTS
  None = None
  alice = alice
  bob = bob
  usdt = usdt
  usdtOnBase = usdtOnBase
  Fields <- MCFields
  TextFields = {"sender", "token"}
  NumberFields = {"value", "amount"}
  TransferFields = {"token", "amount", "token_recognised"}
  FiledAs <- MCFiledAs
  Trees <- MCTrees
  RuleTrees <- MCRuleTrees
  RuleIds = {1, 2, 3}
  Transactions <- MCTransactions
INVARIANTS
  MatchesAsAlone
  FiledAsRecorded
