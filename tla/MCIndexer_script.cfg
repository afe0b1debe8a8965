SPECIFICATION OrderlySpec
CONSTANTS
  g = g
  p = p
  a1 = a1
  a2 = a2
  b1 = b1
  b2 = b2
  b3 = b3
  tg = tg
  ca1 = ca1
  ca2 = ca2
  cb1 = cb1
  cb2 = cb2
  cb3 = cb3
  s1 = s1
  s2 = s2
  s3 = s3
  x = x
  y = y
  Block <- Blocks
  Tx <- AllTx
  Addr <- Addresses
  NoAddr = NoAddr
  Genesis = g
  Height <- ForkHeight
  Parent <- ForkParent
  Txs <- ForkTxs
  Vin <- ForkVin
  Vout <- ForkVout
  None = None
  Deleted = Deleted
  BLOCK_BATCH_SIZE = 4
  TX_BATCH_SIZE = 8
  ADDRESS_BATCH_SIZE = 8
  MaxQueue = 2
  PastBlocks = 3
  QueryAddr = {}
  CrashAllowed = FALSE
INVARIANTS
  CoinsKeepTheirScript
