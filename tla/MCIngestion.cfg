SPECIFICATION FairIngestionSpec
CONSTANTS
  None = None
  a1 = a1
  b2 = b2
  c2 = c2
  d3 = d3
  t1 = t1
  t2 = t2
  Blocks <- ForkedBlocks
  Txs = {t1, t2}
  Number <- MCNumber
  Parent <- MCParent
  TxsOf <- MCTxsOf
  Emitting <- MCEmitting
  CallsTransfer = {t1}
  TransferRules = {}
  PlainRules = {}
  Ingesters = {i1}
  NodeMayLag = TRUE
  MaxFaults = 1
INVARIANTS
  CursorNamesStoredBlock
  NothingSkipped
PROPERTY
  CatchesUp
