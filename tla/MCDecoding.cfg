SPECIFICATION FairDecodingSpec
CONSTANTS
  None = None
  a1 = a1
  b2 = b2
  c2 = c2
  d3 = d3
  t1 = t1
  t2 = t2
  Blocks <- ForkedBlocks
  Txs = {t1, t2}
  Number <- MCNumber
  Parent <- MCParent
  TxsOf <- MCTxsOf
  Emitting <- MCEmitting
  CallsTransfer = {t1}
  TransferRules = {}
  PlainRules = {}
  Decoders = {w1, w2}
  BatchSize = 1
  MaxFaults = 1
INVARIANTS
  ClaimedByOne
  DecodedOnce
PROPERTIES
  StatusMovesForward
  EveryTransactionDecoded
