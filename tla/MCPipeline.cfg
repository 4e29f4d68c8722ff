SPECIFICATION FairPipelineSpec
CONSTANTS
  None = None
  a1 = a1
  b2 = b2
  c2 = c2
  d3 = d3
  t1 = t1
  t2 = t2
  Blocks <- ForkedBlocks
  Txs = {t1, t2}
  Number <- MCNumber
  Parent <- MCParent
  TxsOf <- MCTxsOf
  Emitting <- MCEmitting
  CallsTransfer = {t1}
  TransferRules = {r1}
  PlainRules = {}
  Ingesters = {p}
  Decoders = {p}
  Evaluators = {p}
  Tickers = {p}
  BatchSize = 1
  NodeMayLag = FALSE
  MaxFaults = 1
  FaultyStages = {"ingest", "decode", "evaluate"}
PROPERTY
  OnlyAbandonedHoldUp
