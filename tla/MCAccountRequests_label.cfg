SPECIFICATION OrderlyAccountSpec
CONSTANTS
  g = g
  p = p
  a1 = a1
  a2 = a2
  b1 = b1
  b2 = b2
  b3 = b3
  tg = tg
  ca1 = ca1
  ca2 = ca2
  cb1 = cb1
  cb2 = cb2
  cb3 = cb3
  s1 = s1
  s2 = s2
  s3 = s3
  x = x
  y = y
  Block <- StraightBlocks
  Tx <- StraightTx
  Addr <- Addresses
  NoAddr = NoAddr
  Genesis = g
  Height <- StraightHeight
  Parent <- StraightParent
  Txs <- StraightTxs
  Vin <- StraightVin
  Vout <- StraightVout
  None = None
  Deleted = Deleted
  BLOCK_BATCH_SIZE = 2
  TX_BATCH_SIZE = 5
  ADDRESS_BATCH_SIZE = 4
  MaxQueue = 2
  PastBlocks = 3
  QueryAddr = {x}
  QueryBlocks <- UnnamedBlocks
  CrashAllowed = FALSE
INVARIANT
  LatestAnswersMatchTheirBlock
