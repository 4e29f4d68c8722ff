SPECIFICATION FairEvaluationSpec
CONSTANTS
  None = None
  a1 = a1
  b2 = b2
  c2 = c2
  d3 = d3
  t1 = t1
  t2 = t2
  Blocks <- ForkedBlocks
  Txs = {t1, t2}
  Number <- MCNumber
  Parent <- MCParent
  TxsOf <- MCTxsOf
  Emitting <- MCEmitting
  CallsTransfer = {t1}
  TransferRules = {r1}
  PlainRules = {r2}
  Evaluators = {e1, e2}
  MaxFaults = 1
INVARIANTS
  MatchesComplete
PROPERTIES
  EvaluatesOnce
  EveryBlockEvaluated
