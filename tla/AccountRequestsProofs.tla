----------------------- MODULE AccountRequestsProofs ------------------------
(***************************************************************************)
(* Proofs about AccountRequests, for every ledger, every value of the       *)
(* indexer's bounds and every set of block identifiers.  The indexer's own *)
(* inductive invariant carries over, because a request does to the indexer *)
(* nothing it does not do anyway; RequestInv adds what the request knows   *)
(* at each of its awaits, BuriedInv which rows of the tables stay as they  *)
(* are while it waits, and ReadsInv how the coins it has kept and the keys *)
(* it has still to read make up the ledger's answer.                       *)
(***************************************************************************)
EXTENDS AccountRequests, CoinsProofs

Request ==
  [at : {"nothing", "blockHash", "blockSymbol", "address", "name", "list", "utxos", "txHash",
         "answered"},
   address : Addr \cup {NoAddr}, id : QueryBlocks \cup {None},
   height : Nat \cup {-1}, hash : OrNone(Block), symbol : OrNone(Nat),
   list : Seq(UtxoKey), coins : Seq(Outpoint)]

(* The block is settled once the request asks for the address.              *)
SettledRequest == request.at \notin {"nothing", "blockHash", "blockSymbol"}

RequestInv ==
  /\ request \in Request
  /\ lookups = IF request.at = "name" THEN {request.address} ELSE {}
  /\ request.at # "nothing" => request.address \in QueryAddr
  /\ request.at = "blockHash" => GivesIndex(request.id) /\ request.height = request.id.index
  /\ request.at = "blockSymbol" => GivesHash(request.id) /\ request.hash = request.id.hash
  /\ SettledRequest /\ GivesBlock(request.id) => request.hash # None /\ NamesItsBlock
  /\ request.at = "txHash" => request.list # <<>>

-----------------------------------------------------------------------------
(* What a request does to the indexer.                                     *)

LEMMA LookupsKept ==
  ASSUME Worker \/ SaveState \/ Syncer
  PROVE  lookups' = lookups
  <1> USE DEF outside
  <1>1. CASE Take \/ SkipBlock \/ AddBlock \/ SkipTx \/ AddTx \/ SpendInput
    BY <1>1 DEF Take, SkipBlock, AddBlock, SkipTx, AddTx, SpendInput
  <1>2. CASE ResolveAddress \/ MissAddress \/ NameAddress \/ BeginOutputs \/ CreateOutput
    BY <1>2 DEF ResolveAddress, MissAddress, NameAddress, BeginOutputs, CreateOutput
  <1>3. CASE FinishTx \/ FinishBlock \/ FinishBlockAndFlush
    BY <1>3 DEF FinishTx, FinishBlock, FinishBlockAndFlush, TakeBatches
  <1>4. CASE Removing
    BY <1>4 DEF Removing, BeginRemove, RemoveTx, RevalidateInput, EndRevalidation, RemoveOutput,
                RemoveTxSymbol, CommitRemove, TakeBatches
  <1>5. CASE Flushing
    BY <1>5 DEF Flushing, WriteBatches, FlushList
  <1>6. CASE Exit \/ SaveState \/ Syncer
    BY <1>6 DEF Exit, SaveState, TakeBatches, Syncer, BlockAdded, BlockRemoved, HandleBlock
  <1> QED
    BY <1>1, <1>2, <1>3, <1>4, <1>5, <1>6 DEF Worker, Adding

LEMMA RequestKinds ==
  ASSUME RequestInv, AccountRequest
  PROVE  \/ UNCHANGED vars
         \/ request.at = "address" /\ MissAccount
         \/ request.at = "name" /\ NameAccount
  BY DEF AccountRequest, AskByIndex, AskByHash, AskLatest, ReadBlockHash, ReadBlockSymbol,
         FindAddress, MissAccount, NameAccount, ReadList, MissRecord, SkipRecord, TakeRecord,
         ReadTxHash, AnswerCoins, LackBlockHash, Served, Becomes, Fails, Waits

LEMMA RequestsAreIndexerSteps ==
  ASSUME RequestInv, [AccountNext]_accountVars
  PROVE  [Next]_vars
  <1>1. CASE AccountRequest
    <2>1. request.at = "address" /\ MissAccount => LookupMiss(request.address)
      BY DEF MissAccount
    <2>2. request.at = "name" /\ NameAccount => LookupName(request.address)
      BY DEF NameAccount
    <2>3. request.at \in {"address", "name"} => request.address \in QueryAddr
      BY DEF RequestInv
    <2> QED
      BY <1>1, <2>1, <2>2, <2>3, RequestKinds DEF Next, Requests
  <1>2. CASE ~AccountRequest
    BY <1>2 DEF AccountNext, accountVars, Next
  <1> QED
    BY <1>1, <1>2

-----------------------------------------------------------------------------
(* What the request reads.                                                 *)

LEMMA ReadBlock ==
  ASSUME IInv, pc # "exited", NEW b \in Block, BlockSymbol(b) # None
  PROVE  BlockSymbol(b) = Height[b]
  <1> USE DEF IInv
  <1>1. CASE pc = "secondFlush"
    <2>1. b \in DOMAIN db["block-sym"] /\ BlockSymbol(b) = db["block-sym"][b]
      BY <1>1 DEF CacheInv, BlockSymbol, Get, EmptyMap
    <2> QED
      BY <2>1 DEF HeightInv, Gapless
  <1> QED
    BY <1>1, KnownBlock

LEMMA ReadAddress ==
  ASSUME IInv, NEW a \in Addr, AddressSymbol(a) # None
  PROVE  AddressSymbol(a) \in Nat
  BY DEF IInv, TypeOK, DbTypeOK, CacheTypeOK, IsMap, AddressSymbol, Get

LEMMA ReadCoins ==
  ASSUME IInv, NEW s \in DOMAIN db["address-utxos"]
  PROVE  UtxoList(s).coins \in Seq(UtxoKey)
  BY DEF IInv, TypeOK, DbTypeOK, IsMap, UtxoList, UtxoListRecord

-----------------------------------------------------------------------------
LEMMA NoRequestType == NoRequest \in Request
  BY DEF NoRequest, Request, OrNone

LEMMA InitRequestInv == AccountInit => RequestInv
  BY NoRequestType DEF AccountInit, Init, RequestInv, NoRequest, SettledRequest

LEMMA AskStep ==
  ASSUME IInv, RequestInv, NEW a \in QueryAddr, NEW id \in QueryBlocks,
         AskByIndex(a, id) \/ AskByHash(a, id) \/ AskLatest(a, id)
  PROVE  RequestInv'
  <1> USE DEF IInv
  <1>1. /\ id.index \in Nat \cup {None} /\ id.hash \in Block \cup {None} /\ a \in Addr
        /\ lastBlockSymbol \in Nat \cup {-1} /\ bestBlockHash.hash \in OrNone(Block)
    BY QueryBlocksAreIdentifiers, BoundsAreNatural DEF TypeOK, FieldTypeOK
  <1>2. request.at = "nothing" /\ lookups = {} /\ lookups' = lookups
    BY DEF RequestInv, AskByIndex, AskByHash, AskLatest, Waits, Becomes, vars, outside
  <1>3. PICK at \in {"blockHash", "blockSymbol", "address"}, height \in Nat \cup {-1},
              hash \in OrNone(Block) :
          /\ request' = [at |-> at, address |-> a, id |-> id, height |-> height, hash |-> hash,
                         symbol |-> None, list |-> <<>>, coins |-> <<>>]
          /\ at = "blockHash" => GivesIndex(id) /\ height = id.index
          /\ at = "blockSymbol" => GivesHash(id) /\ hash = id.hash
          /\ at = "address" => ~GivesBlock(id)
    <2>1. CASE AskByIndex(a, id)
      BY <1>1, <2>1 DEF AskByIndex, Becomes, NoRequest, GivesIndex, OrNone
    <2>2. CASE AskByHash(a, id)
      BY <1>1, <2>2 DEF AskByHash, Becomes, NoRequest, GivesHash, OrNone
    <2>3. CASE AskLatest(a, id)
      BY <1>1, <2>3 DEF AskLatest, Becomes, NoRequest, GivesBlock, OrNone
    <2> QED
      BY <2>1, <2>2, <2>3
  <1>4. request' \in Request
    BY <1>1, <1>3 DEF Request, OrNone
  <1>5. request'.at # "name" /\ request'.at # "txHash" /\ request'.address \in QueryAddr
    BY <1>3
  <1> QED
    BY <1>2, <1>3, <1>4, <1>5 DEF RequestInv, SettledRequest

LEMMA FailsStep ==
  ASSUME RequestInv, Fails, request.at # "name"
  PROVE  RequestInv'
  BY NoRequestType DEF Fails, Becomes, RequestInv, NoRequest, SettledRequest, vars, outside

LEMMA ReadStep ==
  ASSUME IInv, RequestInv, pc # "exited",
         ReadBlockHash \/ ReadBlockSymbol \/ FindAddress \/ ReadList \/ ReadTxHash
  PROVE  RequestInv'
  <1> USE DEF IInv
  <1>1. CASE Fails
    BY <1>1, FailsStep
       DEF ReadBlockHash, ReadBlockSymbol, FindAddress, ReadList, ReadTxHash, Waits
  <1>2. CASE ReadBlockHash /\ ~Fails
    <2>1. /\ request.at = "blockHash" /\ request.height \in DOMAIN db["sym-block"]
          /\ request' = [request EXCEPT !.at = "address", !.hash = db["sym-block"][request.height]]
          /\ lookups' = lookups
      BY <1>2 DEF ReadBlockHash, Waits, Becomes, vars, outside
    <2>2. /\ db["sym-block"][request.height] \in Block
          /\ Height[db["sym-block"][request.height]] = request.height
      BY <2>1 DEF TypeOK, DbTypeOK, IsMap, HeightInv, Gapless
    <2> QED
      BY <2>1, <2>2, SentinelsAreNoValues
         DEF RequestInv, Request, SettledRequest, OrNone, NamesItsBlock, GivesHash
  <1>3. CASE ReadBlockSymbol /\ ~Fails
    <2>1. /\ request.at = "blockSymbol" /\ BlockSymbol(request.hash) # None
          /\ request' = [request EXCEPT !.at = "address", !.height = BlockSymbol(request.hash)]
          /\ lookups' = lookups
      BY <1>3 DEF ReadBlockSymbol, Waits, Becomes, vars, outside
    <2>2. request.hash # None /\ request.hash \in Block
      BY <2>1 DEF RequestInv, GivesHash, Request, OrNone
    <2>3. BlockSymbol(request.hash) = Height[request.hash] /\ Height[request.hash] \in Nat
      BY <2>1, <2>2, ReadBlock, LedgerTypes
    <2> QED
      BY <2>1, <2>2, <2>3
         DEF RequestInv, Request, SettledRequest, OrNone, NamesItsBlock, GivesHash
  <1>4. CASE FindAddress
    <2>1. AddressSymbol(request.address) \in Nat
      BY <1>4, ReadAddress, BoundsAreNatural DEF FindAddress, Waits, RequestInv
    <2> QED
      BY <1>4, <2>1 DEF FindAddress, Waits, Becomes, RequestInv, Request, SettledRequest, OrNone,
                        NamesItsBlock, vars, outside
  <1>5. CASE ReadList /\ ~Fails
    <2>1. UtxoList(request.symbol).coins \in Seq(UtxoKey)
      BY <1>5, ReadCoins DEF ReadList
    <2> QED
      BY <1>5, <2>1 DEF ReadList, Waits, Becomes, RequestInv, Request, SettledRequest, NamesItsBlock,
                        vars, outside
  <1>6. CASE ReadTxHash /\ ~Fails
    <2> DEFINE hash == db["sym-tx"][NextCoin[1]]
    <2>1. /\ request.at = "txHash" /\ NextCoin[1] \in DOMAIN db["sym-tx"]
          /\ request' = [request EXCEPT !.at = "utxos", !.list = Tail(@),
                                        !.coins = Append(@, <<hash, NextCoin[2]>>)]
          /\ lookups' = lookups
      BY <1>6 DEF ReadTxHash, Waits, Becomes, vars, outside
    <2>2. /\ request.list \in Seq(UtxoKey) /\ request.list # <<>>
          /\ request.coins \in Seq(Outpoint)
      BY <2>1 DEF RequestInv, Request
    <2>3. NextCoin \in UtxoKey /\ Tail(request.list) \in Seq(UtxoKey)
      BY <2>2, HeadTailProperties DEF NextCoin
    <2>4. hash \in Tx
      BY <2>1 DEF TypeOK, DbTypeOK, IsMap
    <2>5. <<hash, NextCoin[2]>> \in Outpoint
      BY <2>3, <2>4 DEF Outpoint, UtxoKey
    <2>6. Append(request.coins, <<hash, NextCoin[2]>>) \in Seq(Outpoint)
      BY <2>2, <2>5, AppendProperties
    <2> HIDE DEF hash
    <2> QED
      BY <2>1, <2>3, <2>6 DEF RequestInv, Request, SettledRequest, NamesItsBlock
  <1> QED
    BY <1>1, <1>2, <1>3, <1>4, <1>5, <1>6

LEMMA NameStep ==
  ASSUME IInv, RequestInv, MissAccount \/ NameAccount
  PROVE  RequestInv'
  <1>1. CASE MissAccount
    BY <1>1 DEF MissAccount, LookupMiss, Waits, RequestInv, Request, SettledRequest, NamesItsBlock
  <1>2. CASE NameAccount
    <2>1. NewAddressSymbol \in Nat
      BY DEF NewAddressSymbol, IInv, TypeOK, FieldTypeOK
    <2> QED
      BY <1>2, <2>1 DEF NameAccount, LookupName, Waits, RequestInv, Request, SettledRequest, OrNone,
                        NamesItsBlock
  <1> QED
    BY <1>1, <1>2

LEMMA CoinStep ==
  ASSUME RequestInv,
         MissRecord \/ SkipRecord \/ TakeRecord \/ AnswerCoins \/ LackBlockHash \/ Served
  PROVE  RequestInv'
  <1>1. CASE MissRecord \/ LackBlockHash
    BY <1>1, FailsStep DEF MissRecord, LackBlockHash, Waits
  <1>2. CASE Served
    BY <1>2, FailsStep DEF Served, Fails, Waits
  <1>3. CASE SkipRecord
    <2>1. Tail(request.list) \in Seq(UtxoKey)
      BY <1>3, HeadTailProperties DEF SkipRecord, RequestInv, Request
    <2> QED
      BY <1>3, <2>1 DEF SkipRecord, Waits, Becomes, RequestInv, Request, SettledRequest, NamesItsBlock,
                        vars, outside
  <1>4. CASE TakeRecord \/ AnswerCoins
    BY <1>4 DEF TakeRecord, AnswerCoins, Waits, Becomes, RequestInv, Request, SettledRequest,
                NamesItsBlock, vars, outside
  <1> QED
    BY <1>1, <1>2, <1>3, <1>4

LEMMA NextRequestInv ==
  ASSUME IInv, RequestInv, [AccountNext]_accountVars
  PROVE  RequestInv'
  <1>1. CASE AccountRequest
    <2>1. pc # "exited"
      BY <1>1 DEF AccountRequest, AskByIndex, AskByHash, AskLatest, ReadBlockHash, ReadBlockSymbol,
                  FindAddress, MissAccount, NameAccount, ReadList, MissRecord, SkipRecord,
                  TakeRecord, ReadTxHash, AnswerCoins, LackBlockHash, Served, Waits
    <2> QED
      BY <1>1, <2>1, AskStep, ReadStep, NameStep, CoinStep DEF AccountRequest
  <1>2. CASE (Worker \/ SaveState \/ Syncer) /\ UNCHANGED request
    BY <1>2, LookupsKept DEF RequestInv, SettledRequest, NamesItsBlock
  <1>3. CASE (Crash \/ Restart) /\ request' = NoRequest
    BY <1>3, NoRequestType DEF Crash, Restart, Reboot, RequestInv, NoRequest, SettledRequest
  <1>4. CASE UNCHANGED accountVars
    BY <1>4 DEF accountVars, vars, outside, RequestInv, SettledRequest, NamesItsBlock
  <1> QED
    BY <1>1, <1>2, <1>3, <1>4 DEF AccountNext

-----------------------------------------------------------------------------
LEMMA AccountInductive == AccountSpec => [](IInv /\ RequestInv)
  <1>1. AccountInit => IInv /\ RequestInv
    BY InitIInv, InitRequestInv DEF AccountInit
  <1>2. IInv /\ RequestInv /\ [AccountNext]_accountVars => IInv' /\ RequestInv'
    BY RequestsAreIndexerSteps, NextIInv, NextRequestInv
  <1> QED
    BY <1>1, <1>2, PTL DEF AccountSpec

(* To the indexer a request for an account's coins is a lookup and nothing  *)
(* else: every behaviour with the request is one of the indexer alone, so  *)
(* what holds of that one holds while accounts are read.                   *)
THEOREM RequestsAreLookups == AccountSpec => Spec
  <1>1. AccountInit => Init
    BY DEF AccountInit
  <1>2. RequestInv /\ [AccountNext]_accountVars => [Next]_vars
    BY RequestsAreIndexerSteps
  <1> QED
    BY <1>1, <1>2, AccountInductive, PTL DEF AccountSpec, Spec

(* Whatever the request reads, its locals keep their shapes, and it is about *)
(* to name its address exactly while a lookup is open.                     *)
THEOREM RequestTypesCorrect == AccountSpec => []RequestTypeOK
  <1>1. RequestInv => RequestTypeOK
    BY DEF RequestInv, Request, RequestTypeOK
  <1> QED
    BY <1>1, AccountInductive, PTL

(* An answer to a request for a block is about that block: its hash and its *)
(* height belong together, though one was asked for and the other read in  *)
(* the middle of indexing, flushing, removing or naming.                   *)
THEOREM AnswersNameBlocks == AccountSpec => []AnswersNameTheirBlock
  <1>1. RequestInv => AnswersNameTheirBlock
    BY DEF RequestInv, AnswersNameTheirBlock, Answered, SettledRequest
  <1> QED
    BY <1>1, AccountInductive, PTL

(* The same while accounts are read: a request that looks an address up,   *)
(* and names it, takes the name of no other request away.                  *)
THEOREM KnownNamesStayForRequests ==
  AccountSpec /\ [][NamesKeepClear]_vars => SymbolsAreKept
  BY KnownNamesStay, RequestsAreLookups, PTL

-----------------------------------------------------------------------------
(* What no reorg reaches.  A block is buried when the syncer takes back     *)
(* neither it nor any block as high or below; a request is safe from what  *)
(* happens while it reads if the block it asks for is buried.              *)

Buried(b) == b \in Block /\ \A c \in Block : Height[c] <= Height[b] => ~ Removable(c)

(* A stored block that is buried is indexed, and its transactions keep the  *)
(* symbols they are stored with.                                           *)
FixedTxs(b) ==
  \A i \in DOMAIN Txs[b] :
    Txs[b][i] \in DOMAIN View("tx-sym") /\ View("tx-sym")[Txs[b][i]] = db["tx-sym"][Txs[b][i]]

FixedInv ==
  pc # "exited" => \A b \in DOMAIN db["block-sym"] : Buried(b) => b \in Known /\ FixedTxs(b)

(* The table of heights keeps the blocks a removal took off its top.        *)
Held(blocks, known) == \A h \in DOMAIN blocks : blocks[h] \in DOMAIN known \/ Removable(blocks[h])

HeldInv ==
  /\ Held(db["sym-block"], db["block-sym"])
  /\ Held(View("sym-block"), View("block-sym"))

(* Whoever is named on disk was stored with a block.                        *)
BegunInv == meta.latestAddressSymbol # None => meta.latestBlockSymbol # None

BuriedInv == FixedInv /\ HeldInv /\ BegunInv

-----------------------------------------------------------------------------
(* What a request for a block's coins has got, and what it has still to     *)
(* read: `live' are the coins of its address on the block's chain, `all'    *)
(* are all outputs of that chain.                                          *)

Covers(symbol, list, coins, all, live, a) ==
  /\ Once(list) /\ Once(coins) /\ Entries(coins) \subseteq live
  /\ \A o \in live : o \in Entries(coins) \/ KeyIn(symbol, o) \in Entries(list)
  /\ \A o \in Entries(coins) : KeyIn(symbol, o) \notin Entries(list)
  /\ \A o \in all : KeyIn(symbol, o) \in Entries(list) => AddressOf(o) = a

AllCoins  == CreatedIn(Branch[request.hash])
LiveCoins == CoinsOf(Branch[request.hash], request.address)

(* Its symbol is its address's or nobody's.                                 *)
OwnSymbol ==
  request.at = "list" =>
    /\ request.symbol \in Nat /\ request.symbol <= lastAddressSymbol
    /\ \A b \in DOMAIN View("address-sym") :
         View("address-sym")[b] = request.symbol => b = request.address

Reads == request.at \in {"utxos", "txHash", "answered"}

ReadsInv ==
  /\ OwnSymbol
  /\ ~Reads => request.coins = <<>>
  /\ request.at # "nothing" => request.id \in QueryBlocks
  /\ SettledRequest /\ GivesBlock(request.id) /\ (GivesIndex(request.id) \/ Reads) =>
       request.hash \in DOMAIN db["block-sym"]
  /\ Reads /\ GivesBlock(request.id) =>
       Covers(db["tx-sym"], request.list, request.coins, AllCoins, LiveCoins, request.address)
  /\ request.at = "txHash" /\ GivesBlock(request.id) =>
       \E o \in LiveCoins : Head(request.list) = KeyIn(db["tx-sym"], o)
  /\ request.at = "answered" => request.list = <<>>

(* A block asked for by its index is buried, and so are those below it; one *)
(* asked for by its hash is the genesis block.                             *)
QueriesAreBuried ==
  \A id \in QueryBlocks :
    /\ GivesIndex(id) => \A c \in Block : Height[c] <= id.index => ~ Removable(c)
    /\ GivesHash(id) => id.hash = Genesis

(* No block that is taken back pays an address twice that is asked for.     *)
QueriesArePaidOnce == QueryAddr \subseteq PaidOnce

-----------------------------------------------------------------------------
(* Buried blocks and the tables.                                           *)

LEMMA GenesisIsBuried ==
  /\ Buried(Genesis) /\ Height[Genesis] = 0
  /\ \A b \in Block : Height[b] = 0 => b = Genesis
  <1>1. Genesis \in Block /\ Height[Genesis] = 0
    BY LedgerTypes, LedgerTree
  <1>2. \A b \in Block : Height[b] <= 0 => b = Genesis
    <2> SUFFICES ASSUME NEW b \in Block, b # Genesis
                 PROVE  ~ (Height[b] <= 0)
      OBVIOUS
    <2> QED
      BY ParentBelow
  <1>3. ~ Removable(Genesis)
    BY DEF Removable
  <1> QED
    BY <1>1, <1>2, <1>3, LedgerFacts DEF Buried

LEMMA BuriedBelow ==
  ASSUME NEW b, Buried(b), NEW c \in Block, Height[c] <= Height[b]
  PROVE  Buried(c) /\ ~ Removable(c)
  BY LedgerFacts DEF Buried

(* The transactions of a stored block are stored.                           *)
LEMMA StoredTxs ==
  ASSUME ChainInv, SymbolInv, NEW b \in DOMAIN db["block-sym"], NEW i \in DOMAIN Txs[b]
  PROVE  /\ <<b, i>> \in StoredPlaces /\ At(<<b, i>>) = Txs[b][i]
         /\ Txs[b][i] \in DOMAIN db["tx-sym"]
  <1>1. <<b, i>> \in StoredPlaces
    BY PlaceFacts, KnownFacts DEF StoredPlaces, ChainInv
  <1> QED
    BY <1>1 DEF SymbolInv, OrderedInv, Numbered, At

LEMMA DbKept ==
  ASSUME ChainInv, [Next]_vars, ~WriteBatches
  PROVE  UNCHANGED <<db, meta>>
  BY ViewsKept, AddedBlock, RemovedBlock DEF ChainInv, IInv, Reboot

LEMMA FixedWrite ==
  ASSUME ChainInv, SymbolInv, WriteBatches, NEW b \in Known
  PROVE  /\ DOMAIN db'["block-sym"] = Known /\ Known' = Known
         /\ FixedTxs(b)'
  <1>1. DOMAIN db'["block-sym"] = Known /\ Known' = Known /\ Mined = Places(Known)
    BY WrittenPlaces
  <1>2. pc # "exited"
    BY DEF WriteBatches, FlushPc
  <1>3. /\ DOMAIN View("tx-sym") = DOMAIN db'["tx-sym"] /\ View("tx-sym")' = View("tx-sym")
        /\ \A t \in DOMAIN db'["tx-sym"] : View("tx-sym")[t] = db'["tx-sym"][t]
    BY WrittenLayers DEF ChainInv, IInv, BlockTables, Tables
  <1>4. ASSUME NEW i \in DOMAIN Txs[b]
        PROVE  Txs[b][i] \in DOMAIN View("tx-sym")
    <2>1. <<b, i>> \in Mined /\ At(<<b, i>>) = Txs[b][i]
      BY <1>1, PlaceFacts, KnownFacts DEF ChainInv, At
    <2> QED
      BY <1>2, <2>1 DEF SymbolInv, OrderedInv, Numbered
  <1>5. FixedTxs(b)'
    BY <1>3, <1>4 DEF FixedTxs
  <1> QED
    BY <1>1, <1>5

(* Of the steps that write nothing, each keeps buried blocks in memory and   *)
(* the symbols of their transactions.                                      *)
LEMMA FixedKnown ==
  ASSUME ChainInv, SymbolInv, RemovableInv, [Next]_vars, ~WriteBatches, ~Reboot,
         NEW b \in Known, Buried(b)
  PROVE  b \in Known' /\ db' = db
  <1> USE DEF ChainInv, IInv
  <1>1. CASE AddBlock
    BY <1>1, AddedBlock
  <1>2. CASE CommitRemove
    <2>1. pc \in Undoing
      BY <1>2 DEF CommitRemove, Undoing
    <2>2. b # job.block
      BY <2>1, LedgerFacts DEF RemovableInv, Buried
    <2> QED
      BY <1>2, <2>2, RemovedBlock
  <1> QED
    BY <1>1, <1>2, ViewsKept DEF Known

LEMMA FixedView ==
  ASSUME ChainInv, SymbolInv, RemovableInv, [Next]_vars, ~WriteBatches, ~Reboot,
         NEW b \in Known, Buried(b), NEW i \in DOMAIN Txs[b],
         Txs[b][i] \in DOMAIN View("tx-sym")
  PROVE  /\ Txs[b][i] \in DOMAIN View("tx-sym")'
         /\ View("tx-sym")'[Txs[b][i]] = View("tx-sym")[Txs[b][i]]
  <1> USE DEF ChainInv, IInv
  <1> DEFINE t == Txs[b][i]
  <1>3. CASE AddTx
    BY <1>3, AddTxMined
  <1>4. CASE RemoveTxSymbol
    <2>1. /\ <<job.block, job.tx>> \in Mined /\ At(<<job.block, job.tx>>) = CurrentTx
          /\ \A x : x \in DOMAIN View("tx-sym")' <=> x # CurrentTx /\ x \in DOMAIN View("tx-sym")
          /\ \A x \in DOMAIN View("tx-sym")' : View("tx-sym")'[x] = View("tx-sym")[x]
          /\ db' = db /\ pc = "unlist"
      BY <1>4, RemoveTxMined
    <2>2. Removable(job.block)
      BY <2>1 DEF RemovableInv, Undoing
    <2>3. b # job.block
      BY <2>2, LedgerFacts DEF Buried
    <2>4. Known \in SUBSET Block /\ OnePerHeight(Known) /\ Rooted(Known)
      BY KnownFacts DEF RootedInv
    <2>5. <<b, i>> \in Places(Known) /\ At(<<b, i>>) = t
      BY <2>4, PlaceFacts DEF At
    <2>6. <<job.block, job.tx>> \in Places(Known)
      BY <2>1 DEF Mined
    <2>7. t # CurrentTx
      BY <2>1, <2>3, <2>4, <2>5, <2>6, MinedOnce
    <2> QED
      BY <2>1, <2>7
  <1>5. CASE FlushBegins
    <2>1. View("tx-sym")' = View("tx-sym")
      BY <1>5, TakenLayers
    <2> QED
      BY <2>1
  <1>6. CASE ~TxStep
    BY <1>6, TxTablesKept
  <1> QED
    BY <1>3, <1>4, <1>5, <1>6 DEF TxStep

LEMMA FixedStep ==
  ASSUME ChainInv, SymbolInv, RemovableInv, FixedInv, [Next]_vars
  PROVE  FixedInv'
  <1> SUFFICES ASSUME pc' # "exited", NEW b \in DOMAIN db'["block-sym"], Buried(b)
               PROVE  b \in Known' /\ FixedTxs(b)'
    BY DEF FixedInv, Buried, Removable
  <1> USE DEF ChainInv, IInv
  <1>1. CASE Reboot
    <2>1. /\ db' = db /\ DOMAIN View("block-sym")' = DOMAIN db["block-sym"]
          /\ DOMAIN View("tx-sym")' = DOMAIN db["tx-sym"]
          /\ \A k \in DOMAIN db["tx-sym"] : View("tx-sym")'[k] = db["tx-sym"][k]
      BY <1>1, RebootedLayers DEF Reboot, Tables
    <2>2. \A i \in DOMAIN Txs[b] : Txs[b][i] \in DOMAIN db["tx-sym"]
      BY <2>1, StoredTxs
    <2> QED
      BY <2>1, <2>2 DEF FixedTxs, Known
  <1>2. CASE WriteBatches
    <2>1. b \in Known
      BY <1>2, WrittenPlaces
    <2> QED
      BY <1>2, <2>1, FixedWrite
  <1>3. CASE ~Reboot /\ ~WriteBatches
    <2>1. db' = db
      BY <1>3, DbKept
    <2>2. pc # "exited"
      BY <1>3, Running
    <2>3. b \in Known /\ FixedTxs(b)
      BY <2>1, <2>2 DEF FixedInv
    <2>4. \A i \in DOMAIN Txs[b] : /\ Txs[b][i] \in DOMAIN View("tx-sym")'
                                   /\ View("tx-sym")'[Txs[b][i]] = View("tx-sym")[Txs[b][i]]
      BY <1>3, <2>3, FixedView DEF FixedTxs
    <2>5. b \in Known'
      BY <1>3, <2>3, FixedKnown
    <2> QED
      BY <2>1, <2>3, <2>4, <2>5 DEF FixedTxs
  <1> QED
    BY <1>1, <1>2, <1>3

(* A buried block that is stored stays stored, and so do the symbols of its *)
(* transactions: no step of the indexer changes what they are read by.     *)
LEMMA FixedStays ==
  ASSUME ChainInv, SymbolInv, RemovableInv, FixedInv, [Next]_vars,
         NEW b \in DOMAIN db["block-sym"], Buried(b)
  PROVE  /\ b \in DOMAIN db'["block-sym"]
         /\ \A i \in DOMAIN Txs[b] : db'["tx-sym"][Txs[b][i]] = db["tx-sym"][Txs[b][i]]
  <1> USE DEF ChainInv, IInv
  <1>1. CASE WriteBatches
    <2>1. pc # "exited" /\ pc \in FlushPc
      BY <1>1 DEF WriteBatches, FlushPc
    <2>2. b \in Known /\ FixedTxs(b)
      BY <2>1 DEF FixedInv
    <2>3. /\ DOMAIN View("tx-sym") = DOMAIN db'["tx-sym"]
          /\ \A t \in DOMAIN db'["tx-sym"] : View("tx-sym")[t] = db'["tx-sym"][t]
      BY <1>1, WrittenLayers DEF BlockTables
    <2>4. b \in DOMAIN db'["block-sym"]
      BY <1>1, <2>2, WrittenPlaces
    <2> QED
      BY <2>2, <2>3, <2>4 DEF FixedTxs
  <1>2. CASE ~WriteBatches
    <2>1. db' = db
      BY <1>2, DbKept
    <2> QED
      BY <2>1
  <1> QED
    BY <1>1, <1>2

LEMMA HeldStep ==
  ASSUME ChainInv, RemovableInv, HeldInv, [Next]_vars
  PROVE  HeldInv'
  <1> USE DEF ChainInv, IInv
  <1>1. CASE AddBlock
    <2>1. /\ db' = db /\ Known' = Known \cup {job.block}
          /\ \A h : h \in Heights' <=> h = Height[job.block] \/ h \in Heights
          /\ View("sym-block")'[Height[job.block]] = job.block
          /\ \A h \in Heights : h # Height[job.block] =>
               View("sym-block")'[h] = View("sym-block")[h]
      BY <1>1, AddedBlock
    <2> QED
      BY <2>1 DEF HeldInv, Held, Known, Heights, Removable
  <1>2. CASE CommitRemove
    <2>1. db' = db /\ Known' = Known \ {job.block} /\ View("sym-block")' = View("sym-block")
      BY <1>2, RemovedBlock
    <2>2. Removable(job.block)
      BY <1>2 DEF CommitRemove, RemovableInv, Undoing
    <2> QED
      BY <2>1, <2>2 DEF HeldInv, Held, Known, Removable
  <1>3. CASE Reboot
    <2>1. /\ db' = db /\ DOMAIN View("sym-block")' = DOMAIN db["sym-block"]
          /\ DOMAIN View("block-sym")' = DOMAIN db["block-sym"]
          /\ \A h \in DOMAIN db["sym-block"] : View("sym-block")'[h] = db["sym-block"][h]
      BY <1>3, RebootedLayers DEF Reboot, Tables
    <2> QED
      BY <2>1 DEF HeldInv, Held, Removable
  <1>4. CASE WriteBatches
    <2>1. /\ DOMAIN db'["sym-block"] = DOMAIN View("sym-block")
          /\ DOMAIN db'["block-sym"] = DOMAIN View("block-sym")
          /\ \A h \in DOMAIN db'["sym-block"] : View("sym-block")[h] = db'["sym-block"][h]
          /\ View("sym-block")' = View("sym-block") /\ View("block-sym")' = View("block-sym")
      BY <1>4, WrittenLayers DEF BlockTables, Tables
    <2> QED
      BY <2>1 DEF HeldInv, Held, Removable
  <1>5. CASE ~AddBlock /\ ~CommitRemove /\ ~Reboot /\ ~WriteBatches
    <2>1. /\ View("block-sym")' = View("block-sym") /\ View("sym-block")' = View("sym-block")
          /\ db' = db
      BY <1>5, ViewsKept
    <2> QED
      BY <2>1 DEF HeldInv, Held, Removable
  <1> QED
    BY <1>1, <1>2, <1>3, <1>4, <1>5

LEMMA BegunStep ==
  ASSUME ChainInv, BegunInv, [Next]_vars
  PROVE  BegunInv'
  <1> USE DEF ChainInv, IInv
  <1>1. CASE WriteBatches
    <2>1. meta' = flush.meta /\ pc \in FlushPc
      BY <1>1 DEF WriteBatches
    <2>2. flush.meta.latestBlockSymbol \in Nat
      BY <2>1 DEF FlushInv
    <2> QED
      BY <2>1, <2>2, SentinelsAreNoValues DEF BegunInv
  <1>2. CASE ~WriteBatches
    <2>1. meta' = meta
      BY <1>2, DbKept
    <2> QED
      BY <2>1 DEF BegunInv
  <1> QED
    BY <1>1, <1>2

LEMMA InitBuried == Init => BuriedInv
  <1> SUFFICES ASSUME Init
               PROVE  BuriedInv
    OBVIOUS
  <1>1. /\ DOMAIN db["block-sym"] = {} /\ DOMAIN db["sym-block"] = {}
        /\ meta.latestAddressSymbol = None
    BY DEF Init, Tables, EmptyMap, NoMetadata
  <1>2. View("sym-block") = Overlay(Overlay(EmptyMap, EmptyMap), EmptyMap)
    BY DEF Init, View, Written, NoFlush, NoBatches, Tables
  <1>3. DOMAIN View("sym-block") = {}
    BY <1>2, OverlayEmpty DEF EmptyMap
  <1> QED
    BY <1>1, <1>3 DEF BuriedInv, FixedInv, HeldInv, Held, BegunInv

LEMMA BuriedStep ==
  ASSUME ChainInv, SymbolInv, RemovableInv, BuriedInv, [Next]_vars
  PROVE  BuriedInv'
  BY FixedStep, HeldStep, BegunStep DEF BuriedInv

-----------------------------------------------------------------------------
(* The chain of a stored block is the stored chain up to it.                *)

LEMMA BranchBlocks ==
  ASSUME ChainInv, NEW b \in DOMAIN db["block-sym"]
  PROVE  /\ b \in Block /\ Height[b] \in Nat /\ Height[b] <= DbHeight
         /\ BlocksIn(Branch[b]) = BlocksIn(Prefix(DbChain, Height[b]))
  <1> USE DEF ChainInv
  <1> DEFINE blocks == DOMAIN db["block-sym"]
             h      == Height[b]
             branch == Branch[b]
  <1>1. blocks \in SUBSET Block /\ OnePerHeight(blocks) /\ Rooted(blocks)
    BY KnownFacts DEF RootedInv
  <1>2. b \in Block /\ h \in Nat /\ \A x \in blocks : Height[x] \in Nat
    BY <1>1, LedgerFacts
  <1>3. h <= DbHeight /\ DbHeight \in Nat \cup {-1}
    <2>1. DbHeight \in Nat \cup {-1}
      BY DbChainType DEF IInv
    <2>2. h \in 0 .. DbHeight
      BY DEF ChainedInv, Chained
    <2> QED
      BY <2>1, <2>2
  <1>4. branch \in Seq(Block) /\ Len(branch) = h + 1
    BY <1>2, BranchIsBranch DEF IsBranch
  <1>5. DOMAIN branch = 1 .. h + 1
    BY <1>4
  <1>6. \A x \in blocks : Height[x] <= h => branch[Height[x] + 1] = x
    BY <1>1, Ancestors
  <1>7. BlocksIn(Prefix(DbChain, h)) = {x \in blocks : Height[x] <= h}
    BY <1>2, <1>3, BlocksUpTo
  <1> HIDE DEF branch, blocks, h
  <1>8. ASSUME NEW x \in blocks, Height[x] <= h
        PROVE  x \in BlocksIn(branch)
    <2>1. Height[x] + 1 \in 1 .. h + 1
      BY <1>2, <1>8
    <2> QED
      BY <1>5, <1>6, <1>8, <2>1 DEF BlocksIn
  <1>9. ASSUME NEW x \in BlocksIn(branch)
        PROVE  x \in blocks /\ Height[x] <= h
    <2>1. PICK i \in 1 .. h + 1 : x = branch[i]
      BY <1>5 DEF BlocksIn
    <2>2. i - 1 \in 0 .. h /\ i - 1 <= h /\ (i - 1) + 1 = i
      BY <1>2
    <2>3. PICK z \in blocks : Height[z] = i - 1
      BY <1>1, <2>2, RootedHeights DEF blocks, h
    <2>4. branch[i] = z
      BY <1>6, <2>2, <2>3
    <2> QED
      BY <2>1, <2>2, <2>3, <2>4
  <1>10. BlocksIn(branch) = BlocksIn(Prefix(DbChain, h))
    BY <1>7, <1>8, <1>9
  <1> QED
    BY <1>2, <1>3, <1>10 DEF branch, h

LEMMA BranchCoins ==
  ASSUME ChainInv, NEW b \in DOMAIN db["block-sym"]
  PROVE  LET prefix == Prefix(DbChain, Height[b]) IN
         /\ CreatedIn(Branch[b]) = CreatedIn(prefix) /\ SpentIn(Branch[b]) = SpentIn(prefix)
         /\ TxsIn(Branch[b]) = TxsIn(prefix)
  BY BranchBlocks DEF CreatedIn, SpentIn, TxsIn

(* Its outputs are stored, and those on a buried block's chain keep their   *)
(* keys.                                                                   *)
LEMMA BranchOutputs ==
  ASSUME ChainInv, SymbolInv, NEW b \in DOMAIN db["block-sym"]
  PROVE  CreatedIn(Branch[b]) \subseteq Outputs(DOMAIN db["tx-sym"])
  <1>1. Height[b] \in Nat \cup {-1} /\ Height[b] <= DbHeight
    BY BranchBlocks
  <1> QED
    BY <1>1, BranchCoins, StoredOutputs

LEMMA DbOutputsApart ==
  ASSUME ChainInv, SymbolInv, NEW o \in Outputs(DOMAIN db["tx-sym"]),
         NEW e \in Outputs(DOMAIN db["tx-sym"]),
         KeyIn(db["tx-sym"], o) = KeyIn(db["tx-sym"], e)
  PROVE  o = e
  <1>1. o = <<o[1], o[2]>> /\ e = <<e[1], e[2]>>
    BY DEF Outputs, Outpoint
  <1>2. o[2] = e[2] /\ db["tx-sym"][o[1]] = db["tx-sym"][e[1]]
    BY DEF KeyIn
  <1>3. o[1] = e[1]
    BY <1>2, DbKeysApart DEF Outputs
  <1> QED
    BY <1>1, <1>2, <1>3

LEMMA KeysStay ==
  ASSUME ChainInv, SymbolInv, RemovableInv, FixedInv, [Next]_vars,
         NEW b \in DOMAIN db["block-sym"], Buried(b), NEW o \in CreatedIn(Branch[b])
  PROVE  KeyIn(db'["tx-sym"], o) = KeyIn(db["tx-sym"], o)
  <1>1. Height[b] \in Nat \cup {-1} /\ Height[b] <= DbHeight
    BY BranchBlocks
  <1>2. o[1] \in TxsIn(Prefix(DbChain, Height[b]))
    <2>1. o \in Outputs(TxsIn(Prefix(DbChain, Height[b])))
      BY <1>1, BranchCoins, CreatedUpTo
    <2> QED
      BY <2>1 DEF Outputs
  <1>3. PICK p \in StoredPlaces : Height[p[1]] <= Height[b] /\ At(p) = o[1]
    BY <1>1, <1>2, TxsUpTo
  <1>4. p[1] \in DOMAIN db["block-sym"] /\ p[1] \in Block /\ p[2] \in DOMAIN Txs[p[1]]
    BY PlaceTypes, KnownFacts DEF StoredPlaces, ChainInv
  <1>5. Buried(p[1])
    BY <1>3, <1>4, BuriedBelow
  <1>6. db'["tx-sym"][o[1]] = db["tx-sym"][o[1]]
    BY <1>3, <1>4, <1>5, FixedStays DEF At
  <1> QED
    BY <1>6 DEF KeyIn

-----------------------------------------------------------------------------
(* Reading a list.                                                         *)

LEMMA FirstEntry ==
  ASSUME NEW T, NEW list \in Seq(T), list # <<>>
  PROVE  /\ Head(list) \in T /\ Tail(list) \in Seq(T)
         /\ Entries(list) = {Head(list)} \cup Entries(Tail(list))
         /\ Once(list) => Once(Tail(list)) /\ Head(list) \notin Entries(Tail(list))
  <1> DEFINE n == Len(list)
             rest == Tail(list)
  <1>1. n \in Nat /\ n >= 1 /\ DOMAIN list = 1 .. n /\ \A i \in 1 .. n : list[i] \in T
    <2>1. n \in Nat /\ n # 0 /\ DOMAIN list = 1 .. n /\ \A i \in 1 .. n : list[i] \in T
      BY EmptySeq, LenProperties, ElementOfSeq
    <2> QED
      BY <2>1
  <1>2. /\ rest \in Seq(T) /\ Len(rest) = n - 1 /\ Head(list) = list[1] /\ Head(list) \in T
        /\ \A i \in 1 .. n - 1 : rest[i] = list[i + 1]
    BY HeadTailProperties
  <1>3. DOMAIN rest = 1 .. n - 1
    BY <1>2, LenProperties
  <1> HIDE DEF n, rest
  <1>4. \A i \in 1 .. n : i = 1 \/ (i - 1 \in 1 .. n - 1 /\ (i - 1) + 1 = i)
    BY <1>1
  <1>5. \A i \in 1 .. n - 1 : i + 1 \in 1 .. n /\ i + 1 # 1
    BY <1>1
  <1>6. ASSUME NEW i \in DOMAIN list
        PROVE  list[i] \in {Head(list)} \cup Entries(rest)
    BY <1>1, <1>2, <1>3, <1>4 DEF Entries
  <1>7. ASSUME NEW e \in {Head(list)} \cup Entries(rest)
        PROVE  e \in Entries(list)
    <2>1. 1 \in DOMAIN list
      BY <1>1
    <2>2. CASE e = Head(list)
      BY <1>2, <2>1, <2>2 DEF Entries
    <2>3. CASE e \in Entries(rest)
      BY <1>1, <1>2, <1>3, <1>5, <2>3 DEF Entries
    <2> QED
      BY <2>2, <2>3
  <1>8. Entries(list) = {Head(list)} \cup Entries(rest)
    BY <1>6, <1>7 DEF Entries
  <1>9. ASSUME Once(list), NEW i \in DOMAIN rest, NEW j \in DOMAIN rest, rest[i] = rest[j]
        PROVE  i = j
    <2>1. i + 1 \in DOMAIN list /\ j + 1 \in DOMAIN list /\ list[i + 1] = list[j + 1]
      BY <1>1, <1>2, <1>3, <1>5, <1>9
    <2>2. i + 1 = j + 1 /\ i \in Int /\ j \in Int
      BY <1>3, <1>9, <2>1 DEF Once
    <2> QED
      BY <2>2
  <1>10. ASSUME Once(list), Head(list) \in Entries(rest)
         PROVE  FALSE
    <2>1. PICK i \in DOMAIN rest : rest[i] = Head(list)
      BY <1>10 DEF Entries
    <2>2. /\ i + 1 \in DOMAIN list /\ 1 \in DOMAIN list /\ list[i + 1] = list[1] /\ i + 1 # 1
      BY <1>1, <1>2, <1>3, <1>5, <2>1
    <2> QED
      BY <1>10, <2>2 DEF Once
  <1> QED
    BY <1>2, <1>8, <1>9, <1>10 DEF rest, Once

LEMMA CoversFrame ==
  ASSUME NEW symbol, NEW symbol2, NEW list, NEW coins, NEW all, NEW live, NEW a,
         Covers(symbol, list, coins, all, live, a), live \subseteq all,
         \A o \in all : KeyIn(symbol2, o) = KeyIn(symbol, o)
  PROVE  Covers(symbol2, list, coins, all, live, a)
  BY DEF Covers

(* The next entry is no coin's, or the coin it is joins those listed.       *)
LEMMA CoversWithout ==
  ASSUME NEW symbol, NEW T, NEW list \in Seq(T), NEW coins, NEW all, NEW live, NEW a,
         Covers(symbol, list, coins, all, live, a), list # <<>>,
         \A o \in live : KeyIn(symbol, o) # Head(list)
  PROVE  Covers(symbol, Tail(list), coins, all, live, a)
  BY FirstEntry DEF Covers

LEMMA CoversWith ==
  ASSUME NEW symbol, NEW T, NEW list \in Seq(T), NEW C, NEW coins \in Seq(C),
         NEW all, NEW live, NEW a,
         Covers(symbol, list, coins, all, live, a), list # <<>>,
         NEW o \in live, o \in C, Head(list) = KeyIn(symbol, o),
         \A e \in live : KeyIn(symbol, e) = KeyIn(symbol, o) => e = o
  PROVE  Covers(symbol, Tail(list), Append(coins, o), all, live, a)
  <1>1. /\ Entries(list) = {Head(list)} \cup Entries(Tail(list))
        /\ Once(Tail(list)) /\ Head(list) \notin Entries(Tail(list))
    BY FirstEntry DEF Covers
  <1>2. o \notin Entries(coins)
    BY <1>1 DEF Covers
  <1>3. Once(Append(coins, o)) /\ Entries(Append(coins, o)) = Entries(coins) \cup {o}
    <2>1. Lists(<<>>, coins, Entries(coins))
      BY DEF Lists, Covers, Once, Entries
    <2>2. Lists(<<>>, Append(coins, o), Entries(coins) \cup {o})
      BY <1>2, <2>1, AnotherWaits
    <2>3. Entries(<<>>) = {}
      BY DEF Entries
    <2> QED
      BY <2>2, <2>3 DEF Lists
  <1> QED
    BY <1>1, <1>3 DEF Covers

-----------------------------------------------------------------------------
(* What the indexer does while a request waits.                            *)

LEMMA StoredInView ==
  ASSUME IInv, FreshInv, NEW b \in OnDisk
  PROVE  b \in DOMAIN View("address-sym") /\ View("address-sym")[b] = db["address-sym"][b]
  <1>1. /\ b \in DOMAIN Written("address-sym")
        /\ Written("address-sym")[b] = db["address-sym"][b]
    BY StoredName
  <1>2. b \notin DOMAIN dbBatches["address-sym"]
    BY DEF FreshInv, Batched
  <1> QED
    BY <1>1, <1>2, OverlayKeys DEF View

LEMMA FoundInView ==
  ASSUME IInv, FreshInv, NEW a \in Addr, AddressSymbol(a) # None
  PROVE  a \in DOMAIN View("address-sym") /\ View("address-sym")[a] = AddressSymbol(a)
  <1>1. CASE a \in DOMAIN lastSeenAddresses
    BY <1>1 DEF IInv, CacheInv, AddressSymbol
  <1>2. CASE a \notin DOMAIN lastSeenAddresses
    <2>1. a \in OnDisk /\ AddressSymbol(a) = db["address-sym"][a]
      BY <1>2 DEF AddressSymbol, Get, OnDisk
    <2> QED
      BY <2>1, StoredInView
  <1> QED
    BY <1>1, <1>2

(* A new name is above the request's symbol.                                *)
LEMMA OwnSymbolAllocated ==
  ASSUME IInv, OwnSymbol, Quiet, NEW x \in Addr, AllocateAddress(x), request' = request
  PROVE  OwnSymbol'
  <1> DEFINE name == lastAddressSymbol + 1
  <1>1. /\ lastAddressSymbol' = name /\ lastAddressSymbol \in Nat /\ name \in Nat
        /\ dbBatches'["address-sym"] = Put(dbBatches["address-sym"], x, name)
    BY DEF AllocateAddress, NewAddressSymbol, IInv, TypeOK, FieldTypeOK, BatchesType, Tables
  <1>2. name # Deleted
    BY <1>1, SentinelsAreNoValues
  <1>3. /\ \A b : b \in DOMAIN View("address-sym")' <=> b = x \/ b \in DOMAIN View("address-sym")
        /\ View("address-sym")'[x] = name
        /\ \A b \in DOMAIN View("address-sym") : b # x =>
             View("address-sym")'[b] = View("address-sym")[b]
    <2> HIDE DEF name
    <2> QED
      BY <1>1, <1>2, ViewPut DEF BlockTables
  <1> SUFFICES ASSUME request.at = "list"
               PROVE  /\ request.symbol <= lastAddressSymbol'
                      /\ \A b \in DOMAIN View("address-sym")' :
                           View("address-sym")'[b] = request.symbol => b = request.address
    BY DEF OwnSymbol
  <1>4. request.symbol \in Nat /\ request.symbol <= lastAddressSymbol
    BY DEF OwnSymbol
  <1>5. request.symbol # name /\ request.symbol <= name
    BY <1>1, <1>4
  <1> QED
    BY <1>1, <1>3, <1>5 DEF OwnSymbol

(* No step but a start takes names back.                                    *)
LEMMA NamesGrow ==
  ASSUME Worker \/ SaveState \/ Syncer
  PROVE  lastAddressSymbol' \in {lastAddressSymbol, lastAddressSymbol + 1}
  <1> USE DEF symbols, index, AllocateAddress, NewAddressSymbol
  <1>1. CASE Take \/ SkipBlock \/ AddBlock \/ SkipTx \/ AddTx \/ SpendInput
    BY <1>1 DEF Take, SkipBlock, AddBlock, SkipTx, AddTx, SpendInput
  <1>2. CASE ResolveAddress \/ MissAddress \/ NameAddress \/ BeginOutputs \/ CreateOutput
    BY <1>2 DEF ResolveAddress, MissAddress, NameAddress, BeginOutputs, CreateOutput
  <1>3. CASE FinishTx \/ FinishBlock \/ FinishBlockAndFlush
    BY <1>3 DEF FinishTx, FinishBlock, FinishBlockAndFlush, TakeBatches
  <1>4. CASE Removing
    BY <1>4 DEF Removing, BeginRemove, RemoveTx, RevalidateInput, EndRevalidation, RemoveOutput,
                RemoveTxSymbol, CommitRemove, TakeBatches
  <1>5. CASE Flushing
    BY <1>5 DEF Flushing, WriteBatches, FlushList
  <1>6. CASE Exit \/ SaveState \/ Syncer
    BY <1>6 DEF Exit, SaveState, TakeBatches, Syncer, BlockAdded, BlockRemoved, HandleBlock
  <1> QED
    BY <1>1, <1>2, <1>3, <1>4, <1>5, <1>6 DEF Worker, Adding

LEMMA OwnSymbolStays ==
  ASSUME IInv, FreshInv, OwnSymbol, Worker \/ SaveState \/ Syncer, request' = request
  PROVE  OwnSymbol'
  <1> USE DEF IInv
  <1>a. [Next]_vars
    BY DEF Next
  <1>1. CASE FlushBegins
    <2>1. View("address-sym")' = View("address-sym") /\ lastAddressSymbol' = lastAddressSymbol
      BY <1>a, <1>1, TakenLayers, Taken
    <2> QED
      BY <2>1 DEF OwnSymbol
  <1>2. CASE WriteBatches
    <2>1. View("address-sym")' = View("address-sym") /\ lastAddressSymbol' = lastAddressSymbol
      BY <1>2, WrittenLayers DEF Tables, WriteBatches, symbols
    <2> QED
      BY <2>1 DEF OwnSymbol
  <1>3. CASE ~FlushBegins /\ ~WriteBatches /\ ~Reboot
    <2>1. Quiet
      BY <1>a, <1>3, StillSteps, QuietSteps DEF Still
    <2>2. CASE NamesUnchanged
      <3>1. View("address-sym")' = View("address-sym")
        BY <2>1, <2>2, LayersKept DEF NamesUnchanged
      <3> QED
        BY <2>2, <3>1 DEF OwnSymbol, NamesUnchanged
    <2>3. CASE NameAddress
      <3>1. PICK x \in Addr : AllocateAddress(x)
        <4>1. NextOutputAddress \in Addr
          BY <2>3, JobTypes DEF NameAddress, WorkerInv, AddTxPc
        <4> QED
          BY <2>3, <4>1 DEF NameAddress, NextOutputAddress
      <3> QED
        BY <2>1, <3>1, OwnSymbolAllocated
    <2>4. CASE \E x \in QueryAddr : LookupName(x)
      <3>1. PICK x \in Addr : AllocateAddress(x)
        BY <2>4, BoundsAreNatural DEF LookupName
      <3> QED
        BY <2>1, <3>1, OwnSymbolAllocated
    <2> QED
      BY <1>a, <1>3, <2>2, <2>3, <2>4, NamesSteps
  <1>4. CASE Reboot
    <2>1. lastAddressSymbol \in Nat /\ lastAddressSymbol' \in {lastAddressSymbol, lastAddressSymbol + 1}
      BY NamesGrow DEF TypeOK, FieldTypeOK
    <2>2. /\ DOMAIN View("address-sym")' = DOMAIN db["address-sym"]
          /\ \A b \in DOMAIN db["address-sym"] : View("address-sym")'[b] = db["address-sym"][b]
      BY <1>4, RebootedLayers DEF Tables
    <2>3. \A b \in DOMAIN db["address-sym"] :
            b \in DOMAIN View("address-sym") /\ View("address-sym")[b] = db["address-sym"][b]
      BY StoredInView DEF OnDisk
    <2> QED
      BY <2>1, <2>2, <2>3 DEF OwnSymbol
  <1> QED
    BY <1>1, <1>2, <1>3, <1>4

LEMMA AskedIsBuried ==
  ASSUME QueriesAreBuried, RequestInv, ReadsInv, SettledRequest, GivesBlock(request.id)
  PROVE  Buried(request.hash)
  <1>1. request.at # "nothing" /\ request.id \in QueryBlocks
    BY DEF SettledRequest, ReadsInv
  <1>2. request.hash \in Block /\ NamesItsBlock
    BY DEF RequestInv, Request, OrNone
  <1>3. CASE GivesIndex(request.id)
    BY <1>1, <1>2, <1>3 DEF QueriesAreBuried, NamesItsBlock, Buried
  <1>4. CASE GivesHash(request.id)
    BY <1>1, <1>2, <1>4, GenesisIsBuried DEF QueriesAreBuried, NamesItsBlock
  <1> QED
    BY <1>3, <1>4 DEF GivesBlock

(* What the request has got is still there, under the keys it has read.     *)
LEMMA WaitingReads ==
  ASSUME QueriesAreBuried, ChainInv, SymbolInv, RemovableInv, BuriedInv, RequestInv, ReadsInv,
         [Next]_vars, request' = request, OwnSymbol'
  PROVE  ReadsInv'
  <1>1. ASSUME SettledRequest, GivesBlock(request.id), GivesIndex(request.id) \/ Reads
        PROVE  /\ request.hash \in DOMAIN db'["block-sym"]
               /\ \A o \in AllCoins : KeyIn(db'["tx-sym"], o) = KeyIn(db["tx-sym"], o)
    <2>1. Buried(request.hash) /\ request.hash \in DOMAIN db["block-sym"]
      BY <1>1, AskedIsBuried DEF ReadsInv
    <2> QED
      BY <2>1, FixedStays, KeysStay DEF BuriedInv, AllCoins
  <1>2. LiveCoins \subseteq AllCoins
    BY DEF LiveCoins, AllCoins, CoinsOf
  <1>3. ASSUME Reads, GivesBlock(request.id)
        PROVE  Covers(db'["tx-sym"], request.list, request.coins, AllCoins, LiveCoins,
                      request.address)
    <2>1. SettledRequest
      BY <1>3 DEF Reads, SettledRequest
    <2> QED
      BY <1>1, <1>2, <1>3, <2>1, CoversFrame DEF ReadsInv
  <1>4. ASSUME request.at = "txHash", GivesBlock(request.id)
        PROVE  \E o \in LiveCoins : Head(request.list) = KeyIn(db'["tx-sym"], o)
    <2>1. SettledRequest /\ Reads
      BY <1>4 DEF Reads, SettledRequest
    <2> QED
      BY <1>1, <1>2, <1>4, <2>1 DEF ReadsInv
  <1>5. UNCHANGED <<Reads, SettledRequest, AllCoins, LiveCoins>>
    BY DEF Reads, SettledRequest, AllCoins, LiveCoins
  <1> QED
    BY <1>1, <1>3, <1>4, <1>5 DEF ReadsInv

-----------------------------------------------------------------------------
(* What each step of the request finds.                                     *)

LEMMA NoReads ==
  ASSUME request' = NoRequest
  PROVE  ReadsInv'
  BY DEF NoRequest, ReadsInv, OwnSymbol, Reads, SettledRequest

LEMMA AskReads ==
  ASSUME ReadsInv, NEW a \in QueryAddr, NEW id \in QueryBlocks,
         AskByIndex(a, id) \/ AskByHash(a, id) \/ AskLatest(a, id)
  PROVE  ReadsInv'
  <1>1. /\ request'.coins = <<>> /\ request'.id = id
        /\ request'.at \in {"blockHash", "blockSymbol", "address"}
        /\ request'.at = "address" => ~GivesBlock(id)
    <2>1. CASE AskByIndex(a, id)
      BY <2>1 DEF AskByIndex, Becomes, NoRequest
    <2>2. CASE AskByHash(a, id)
      BY <2>2 DEF AskByHash, Becomes, NoRequest
    <2>3. CASE AskLatest(a, id)
      BY <2>3 DEF AskLatest, Becomes, NoRequest, GivesBlock
    <2> QED
      BY <2>1, <2>2, <2>3
  <1> QED
    BY <1>1 DEF ReadsInv, OwnSymbol, Reads, SettledRequest

LEMMA BlockRead ==
  ASSUME QueriesAreBuried, ChainInv, BuriedInv, RequestInv, ReadsInv,
         ReadBlockHash \/ ReadBlockSymbol
  PROVE  ReadsInv'
  <1> USE DEF ChainInv, IInv
  <1>1. CASE Fails
    BY <1>1, NoReads DEF Fails, Becomes
  <1>2. CASE ReadBlockHash /\ ~Fails
    <2> DEFINE b == db["sym-block"][request.height]
    <2>1. /\ request.at = "blockHash" /\ request.height \in DOMAIN db["sym-block"]
          /\ request' = [request EXCEPT !.at = "address", !.hash = b]
          /\ UNCHANGED vars
      BY <1>2 DEF ReadBlockHash, Waits, Becomes
    <2>2. /\ request.id \in QueryBlocks /\ GivesIndex(request.id)
          /\ request.height = request.id.index /\ request.coins = <<>>
      BY <2>1 DEF ReadsInv, RequestInv, Reads
    <2>3. b \in Block /\ Height[b] = request.height
      BY <2>1 DEF TypeOK, DbTypeOK, IsMap, HeightInv, Gapless
    <2>4. Height[b] <= request.id.index
      BY <2>2, <2>3, LedgerFacts
    <2>5. ~ Removable(b)
      BY <2>2, <2>3, <2>4 DEF QueriesAreBuried
    <2>6. b \in DOMAIN db["block-sym"]
      BY <2>1, <2>5 DEF BuriedInv, HeldInv, Held
    <2>7. db' = db
      BY <2>1 DEF vars, index, database
    <2> HIDE DEF b
    <2>8. /\ request'.at = "address" /\ request'.hash = b /\ request'.id = request.id
          /\ request'.coins = request.coins
      BY <2>1 DEF RequestInv, Request
    <2> QED
      BY <2>2, <2>6, <2>7, <2>8 DEF ReadsInv, OwnSymbol, Reads, SettledRequest
  <1>3. CASE ReadBlockSymbol /\ ~Fails
    <2>1. /\ request.at = "blockSymbol"
          /\ request' = [request EXCEPT !.at = "address", !.height = BlockSymbol(request.hash)]
      BY <1>3 DEF ReadBlockSymbol, Waits, Becomes
    <2>2. /\ request.id \in QueryBlocks /\ GivesHash(request.id) /\ request.coins = <<>>
      BY <2>1 DEF ReadsInv, RequestInv, Reads
    <2>3. request'.at = "address" /\ request'.id = request.id /\ request'.coins = request.coins
      BY <2>1 DEF RequestInv, Request
    <2> QED
      BY <2>2, <2>3 DEF ReadsInv, OwnSymbol, Reads, SettledRequest, GivesHash
  <1> QED
    BY <1>1, <1>2, <1>3

(* Naming the address.                                                      *)
LEMMA NamingReads ==
  ASSUME ReadsInv, db' = db, request.at \in {"address", "name"}, request'.at \in {"name", "list"},
         request'.hash = request.hash, request'.id = request.id, request'.coins = request.coins,
         OwnSymbol'
  PROVE  ReadsInv'
  BY DEF ReadsInv, Reads, SettledRequest

LEMMA AddressReads ==
  ASSUME ChainInv, FreshInv, RequestInv, ReadsInv, FindAddress \/ MissAccount \/ NameAccount
  PROVE  ReadsInv'
  <1> USE DEF ChainInv, IInv
  <1> DEFINE a == request.address
  <1>1. request \in Request /\ (request.at # "nothing" => a \in Addr)
    BY BoundsAreNatural DEF RequestInv
  <1>2. CASE FindAddress
    <2>1. /\ request.at = "address" /\ AddressSymbol(a) # None /\ UNCHANGED vars
          /\ request' = [request EXCEPT !.at = "list", !.symbol = AddressSymbol(a)]
      BY <1>2 DEF FindAddress, Waits, Becomes
    <2>2. /\ db' = db /\ View("address-sym")' = View("address-sym")
          /\ lastAddressSymbol' = lastAddressSymbol
      BY <2>1 DEF vars, index, database, symbols, View, Written
    <2>3. a \in DOMAIN View("address-sym") /\ View("address-sym")[a] = AddressSymbol(a)
      BY <1>1, <2>1, FoundInView
    <2>4. /\ AddressSymbol(a) <= lastAddressSymbol
          /\ \A b \in DOMAIN View("address-sym") : View("address-sym")[b] = AddressSymbol(a) => b = a
      BY <2>3 DEF NamesInv, AddressSymbolsUnique
    <2>5. AddressSymbol(a) \in Nat
      BY <1>1, <2>1, ReadAddress
    <2>6. OwnSymbol'
      <3>1. /\ request'.at = "list" /\ request'.symbol = AddressSymbol(a)
            /\ request'.address = a
        BY <1>1, <2>1 DEF Request
      <3> QED
        BY <2>2, <2>4, <2>5, <3>1 DEF OwnSymbol
    <2>7. /\ request'.at = "list" /\ request'.hash = request.hash /\ request'.id = request.id
          /\ request'.coins = request.coins
      BY <1>1, <2>1 DEF Request
    <2> QED
      BY <2>1, <2>2, <2>6, <2>7, NamingReads
  <1>3. CASE MissAccount
    <2>1. /\ request.at = "address" /\ db' = db
          /\ request' = [request EXCEPT !.at = "name"]
      BY <1>3 DEF MissAccount, Waits, LookupMiss, index, database
    <2>2. /\ request'.at = "name" /\ request'.hash = request.hash /\ request'.id = request.id
          /\ request'.coins = request.coins
      BY <1>1, <2>1 DEF Request
    <2>3. OwnSymbol'
      BY <2>2 DEF OwnSymbol
    <2> QED
      BY <2>1, <2>2, <2>3, NamingReads
  <1>4. CASE NameAccount
    <2> DEFINE name == lastAddressSymbol + 1
    <2>1. /\ request.at = "name" /\ AllocateAddress(a) /\ db' = db
          /\ request' = [request EXCEPT !.at = "list", !.symbol = name]
      BY <1>4 DEF NameAccount, Waits, LookupName, AllocateAddress, NewAddressSymbol, database
    <2>2. /\ lastAddressSymbol' = name /\ lastAddressSymbol \in Nat /\ name \in Nat
          /\ dbBatches'["address-sym"] = Put(dbBatches["address-sym"], a, name)
      BY <2>1 DEF AllocateAddress, NewAddressSymbol, TypeOK, FieldTypeOK, BatchesType, Tables
    <2>3. name # Deleted
      BY <2>2, SentinelsAreNoValues
    <2>4. Quiet
      <3>1. LookupName(a) /\ a \in QueryAddr
        BY <1>4, <2>1 DEF NameAccount, RequestInv
      <3> QED
        BY <3>1 DEF LookupName, AllocateAddress, Quiet, heights, database, worker
    <2>5. /\ \A b : b \in DOMAIN View("address-sym")' <=> b = a \/ b \in DOMAIN View("address-sym")
          /\ View("address-sym")'[a] = name
          /\ \A b \in DOMAIN View("address-sym") : b # a =>
               View("address-sym")'[b] = View("address-sym")[b]
      <3> HIDE DEF name, a
      <3> QED
        BY <2>2, <2>3, <2>4, ViewPut DEF BlockTables
    <2>6. /\ request'.at = "list" /\ request'.symbol = name /\ request'.address = a
          /\ request'.hash = request.hash /\ request'.id = request.id
          /\ request'.coins = request.coins
      BY <1>1, <2>1 DEF Request
    <2>7. \A b \in DOMAIN View("address-sym") :
            View("address-sym")[b] \in Nat /\ View("address-sym")[b] <= lastAddressSymbol
      BY NamesView DEF NamesInv, AddressSymbolsUnique, IsMap
    <2>8. \A b \in DOMAIN View("address-sym") : View("address-sym")[b] # name
      BY <2>2, <2>7
    <2>9. OwnSymbol'
      <3> HIDE DEF name, a
      <3>1. name <= name
        BY <2>2
      <3> QED
        BY <2>2, <2>5, <2>6, <2>8, <3>1 DEF OwnSymbol
    <2> QED
      BY <2>1, <2>6, <2>9, NamingReads
  <1> QED
    BY <1>2, <1>3, <1>4

(* The list names the outputs of the stored chain that pay the address, and *)
(* those of the block's chain are among them.                              *)
LEMMA ListReads ==
  ASSUME QueriesAreBuried, QueriesArePaidOnce, ChainInv, SymbolInv, CoinsInv, BuriedInv, RequestInv,
         ReadsInv, ReadList
  PROVE  ReadsInv'
  <1> USE DEF ChainInv, IInv, CoinsInv
  <1> DEFINE a == request.address
             s == request.symbol
             list == UtxoList(s).coins
             symbol == db["tx-sym"]
             B == request.hash
  <1>1. CASE Fails
    BY <1>1, NoReads DEF Fails, Becomes
  <1>2. CASE ~Fails
    <2>1. /\ request.at = "list" /\ s \in DOMAIN db["address-utxos"] /\ UNCHANGED vars
          /\ request' = [request EXCEPT !.at = "utxos", !.list = list]
      BY <1>2 DEF ReadList, Waits, Becomes
    <2>2. db' = db
      BY <2>1 DEF vars, index, database
    <2>3. /\ request'.at = "utxos" /\ request'.list = list /\ request'.coins = <<>>
          /\ request'.id = request.id /\ request'.hash = B /\ request'.address = a
      BY <2>1 DEF RequestInv, Request, ReadsInv, Reads
    <2>4. /\ request.id \in QueryBlocks /\ SettledRequest /\ a \in Addr
          /\ a \in PaidOnce
      BY <2>1, BoundsAreNatural DEF ReadsInv, SettledRequest, RequestInv, QueriesArePaidOnce
    <2>5. PICK b \in DOMAIN db["address-sym"] : db["address-sym"][b] = s
      BY <2>1 DEF OwnedInv, Owned
    <2>6. b = a
      <3>1. b \in DOMAIN View("address-sym") /\ View("address-sym")[b] = s
        BY <2>5, StoredInView DEF OnDisk
      <3> QED
        BY <2>1, <3>1 DEF ReadsInv, OwnSymbol
    <2>7. list = DbListing(a)
      BY <2>1, <2>5, <2>6 DEF DbListing, CoinsUnder, UtxoList
    <2>8. /\ Once(list)
          /\ Entries(list) = {KeyIn(symbol, o) : o \in {e \in Outputs(DOMAIN symbol) : AddressOf(e) = a}}
      BY <2>4, <2>7, NothingWaits DEF ListsInv, DbPaid, PaidTo
    <2>9. ASSUME GivesBlock(request.id)
          PROVE  B \in DOMAIN db["block-sym"]
      <3>1. CASE GivesIndex(request.id)
        BY <2>4, <2>9, <3>1 DEF ReadsInv
      <3>2. CASE GivesHash(request.id)
        <4>1. B = Genesis
          BY <2>4, <2>9, <3>2 DEF RequestInv, NamesItsBlock, QueriesAreBuried
        <4>2. meta.latestBlockSymbol # None
          BY <2>5 DEF NamesInv, AddressSymbolsUnique, BuriedInv, BegunInv
        <4>3. DbHeight \in Nat
          BY <4>2 DEF DbHeight, OrElse, TypeOK, MetaTypeOK, MetadataType, OrNone
        <4>4. /\ 0 \in DOMAIN db["sym-block"] /\ db["sym-block"][0] \in DOMAIN db["block-sym"]
              /\ Height[db["sym-block"][0]] = 0
          BY <4>3 DEF ChainedInv, Chained, HeightInv, Gapless
        <4>5. db["sym-block"][0] \in Block
          BY <4>4 DEF TypeOK, DbTypeOK, IsMap
        <4> QED
          BY <4>1, <4>4, <4>5, GenesisIsBuried
      <3> QED
        BY <2>9, <3>1, <3>2 DEF GivesBlock
    <2>10. ASSUME GivesBlock(request.id)
           PROVE  Covers(symbol, list, <<>>, CreatedIn(Branch[B]), CoinsOf(Branch[B], a), a)
      <3>1. CreatedIn(Branch[B]) \subseteq Outputs(DOMAIN symbol)
        BY <2>9, <2>10, BranchOutputs
      <3>2. \A o \in CoinsOf(Branch[B], a) : KeyIn(symbol, o) \in Entries(list)
        BY <2>8, <3>1 DEF CoinsOf
      <3>3. ASSUME NEW o \in CreatedIn(Branch[B]), KeyIn(symbol, o) \in Entries(list)
            PROVE  AddressOf(o) = a
        <4>1. PICK e \in Outputs(DOMAIN symbol) : AddressOf(e) = a /\ KeyIn(symbol, e) = KeyIn(symbol, o)
          BY <2>8, <3>3
        <4>2. o \in Outputs(DOMAIN symbol)
          BY <3>1
        <4>3. o = e
          BY <4>1, <4>2, DbOutputsApart
        <4> QED
          BY <4>1, <4>3
      <3>4. Once(<<>>) /\ Entries(<<>>) = {}
        BY DEF Once, Entries
      <3> QED
        BY <2>8, <3>2, <3>3, <3>4 DEF Covers
    <2> HIDE DEF list
    <2> QED
      BY <2>2, <2>3, <2>4, <2>9, <2>10
         DEF ReadsInv, OwnSymbol, Reads, SettledRequest, AllCoins, LiveCoins
  <1> QED
    BY <1>1, <1>2

(* The record of the next entry says whether it is a coin of the block's     *)
(* chain.  Every record that has counted since a buried block is that of an *)
(* output: one left behind dates from a block above.                       *)
LEMMA BranchRecord ==
  ASSUME ChainInv, SymbolInv, UtxoInv, BackInv, NEW b \in DOMAIN db["block-sym"],
         NEW o \in Outputs(DOMAIN db["tx-sym"])
  PROVE  LET k == KeyIn(db["tx-sym"], o) IN
         /\ Unspent(db["utxo"][k], Height[b]) <=> o \in CreatedIn(Branch[b]) \ SpentIn(Branch[b])
         /\ <<db["sym-tx"][k[1]], k[2]>> = o
  <1>1. Height[b] \in Nat \cup {-1} /\ Height[b] <= DbHeight
    BY BranchBlocks
  <1> QED
    BY <1>1, BranchCoins, RecordTells

LEMMA RecordIsKeyed ==
  ASSUME ChainInv, OrphanInv, NEW b, Buried(b), NEW k \in DOMAIN db["utxo"],
         Unspent(db["utxo"][k], Height[b])
  PROVE  \E o \in Outputs(DOMAIN db["tx-sym"]) : k = KeyIn(db["tx-sym"], o)
  <1>1. ~ Stray(db["utxo"][k])
    BY LedgerFacts DEF Stray, Buried, Unspent
  <1> QED
    BY <1>1 DEF OrphanInv, Keyed

LEMMA CoinReads ==
  ASSUME QueriesAreBuried, ChainInv, SymbolInv, UtxoInv, BackInv, OrphanInv,
         RequestInv, ReadsInv, SkipRecord \/ TakeRecord \/ ReadTxHash
  PROVE  ReadsInv'
  <1> DEFINE symbol == db["tx-sym"]
             B    == request.hash
             h    == request.height
             k    == NextCoin
             list == request.list
             live == CoinsOf(Branch[B], request.address)
             all  == CreatedIn(Branch[B])
  <1>1. CASE Fails
    BY <1>1, NoReads DEF Fails, Becomes
  <1>2. CASE ~Fails
    <2>1. /\ request.at \in {"utxos", "txHash"} /\ UNCHANGED vars /\ list # <<>>
          /\ request \in Request
      BY <1>2 DEF SkipRecord, TakeRecord, ReadTxHash, Waits, Becomes, RequestInv
    <2>2. db' = db /\ SettledRequest /\ Reads /\ list \in Seq(UtxoKey)
          /\ request.coins \in Seq(Outpoint)
      BY <2>1 DEF vars, index, database, SettledRequest, Reads, Request
    <2>3. /\ request'.at \in {"utxos", "txHash"} /\ request'.id = request.id
          /\ request'.hash = B /\ request'.address = request.address
      BY <1>2, <2>1 DEF SkipRecord, TakeRecord, ReadTxHash, Waits, Becomes, Request
    <2>4. CASE ~GivesBlock(request.id)
      BY <2>1, <2>2, <2>3, <2>4 DEF ReadsInv, OwnSymbol, Reads, SettledRequest
    <2>5. CASE GivesBlock(request.id)
      <3>1. /\ Buried(B) /\ B \in DOMAIN db["block-sym"] /\ h = Height[B]
            /\ Covers(symbol, list, request.coins, all, live, request.address)
        BY <2>2, <2>5, AskedIsBuried DEF ReadsInv, RequestInv, NamesItsBlock, AllCoins, LiveCoins
      <3>2. all \subseteq Outputs(DOMAIN symbol) /\ live \subseteq all
        BY <3>1, BranchOutputs DEF CoinsOf
      <3>3. k = Head(list) /\ k \in Entries(list)
        BY <2>1, <2>2, FirstEntry DEF NextCoin
      <3>4. SUFFICES /\ Covers(symbol, request'.list, request'.coins, all, live, request.address)
                     /\ request'.at = "txHash" => \E o \in live : Head(request'.list) = KeyIn(symbol, o)
        BY <2>1, <2>2, <2>3, <2>5, <3>1
           DEF ReadsInv, OwnSymbol, Reads, SettledRequest, AllCoins, LiveCoins
      <3> HIDE DEF live, all, B, h, symbol, k, list
      <3>5. CASE SkipRecord
        <4>1. /\ request'.at = "utxos" /\ request'.list = Tail(list)
              /\ request'.coins = request.coins /\ ~Unspent(db["utxo"][k], h)
          BY <2>1, <3>5 DEF SkipRecord, Waits, Becomes, Request, k, h, list
        <4>2. ASSUME NEW o \in live
              PROVE  KeyIn(symbol, o) # k
          <5>1. o \in Outputs(DOMAIN symbol)
            BY <3>2
          <5>2. Unspent(db["utxo"][KeyIn(symbol, o)], h)
            BY <3>1, <5>1, BranchRecord DEF live, symbol, CoinsOf
          <5> QED
            BY <4>1, <5>2
        <4> QED
          BY <2>1, <2>2, <3>1, <3>3, <4>1, <4>2, CoversWithout
      <3>6. CASE TakeRecord
        <4>1. /\ request'.list = list /\ request'.coins = request.coins
              /\ k \in DOMAIN db["utxo"] /\ Unspent(db["utxo"][k], h)
          BY <2>1, <3>6 DEF TakeRecord, Waits, Becomes, Request, k, h, list
        <4>2. PICK o \in Outputs(DOMAIN symbol) : k = KeyIn(symbol, o)
          BY <3>1, <4>1, RecordIsKeyed DEF symbol
        <4>3. o \in all /\ o \notin SpentIn(Branch[B])
          BY <3>1, <4>1, <4>2, BranchRecord DEF symbol, all
        <4>4. AddressOf(o) = request.address
          BY <3>1, <3>3, <4>2, <4>3 DEF Covers
        <4>5. o \in live
          BY <4>3, <4>4 DEF live, all, CoinsOf
        <4> QED
          BY <3>1, <3>3, <4>1, <4>2, <4>5
      <3>7. CASE ReadTxHash
        <4>1. request.at = "txHash"
          BY <3>7 DEF ReadTxHash, Waits
        <4>2. PICK o \in live : Head(list) = KeyIn(symbol, o)
          BY <2>5, <4>1 DEF ReadsInv, LiveCoins, live, B, symbol, list
        <4>3. o \in Outputs(DOMAIN symbol) /\ o \in Outpoint
          BY <3>2 DEF Outputs
        <4>4. <<db["sym-tx"][k[1]], k[2]>> = o
          BY <3>1, <3>3, <4>2, <4>3, BranchRecord DEF symbol
        <4>5. /\ request'.at = "utxos" /\ request'.list = Tail(list)
              /\ request'.coins = Append(request.coins, o)
          BY <1>2, <2>1, <3>7, <4>4 DEF ReadTxHash, Waits, Becomes, Request, k, list
        <4>6. \A e \in live : KeyIn(symbol, e) = KeyIn(symbol, o) => e = o
          BY <3>2, <4>3, DbOutputsApart DEF symbol
        <4>7. Covers(symbol, Tail(list), Append(request.coins, o), all, live, request.address)
          BY <2>1, <2>2, <3>1, <4>2, <4>3, <4>6, CoversWith
        <4> QED
          BY <4>5, <4>7
      <3> QED
        BY <3>5, <3>6, <3>7
    <2> QED
      BY <2>4, <2>5
  <1> QED
    BY <1>1, <1>2

LEMMA AnswerReads ==
  ASSUME RequestInv, ReadsInv, AnswerCoins
  PROVE  ReadsInv'
  <1>1. /\ request.at = "utxos" /\ request.list = <<>> /\ UNCHANGED vars
        /\ request' = [request EXCEPT !.at = "answered"]
    BY DEF AnswerCoins, Waits, Becomes
  <1>2. /\ request'.at = "answered" /\ request'.list = <<>> /\ request'.coins = request.coins
        /\ request'.id = request.id /\ request'.hash = request.hash
        /\ request'.address = request.address /\ db' = db
    BY <1>1 DEF RequestInv, Request, vars, index, database
  <1> QED
    BY <1>1, <1>2 DEF ReadsInv, OwnSymbol, Reads, SettledRequest, AllCoins, LiveCoins

-----------------------------------------------------------------------------
Supported == ChainInv /\ SymbolInv /\ UtxoInv /\ RemovableInv /\ OrphanInv /\ CoinsInv

LEMMA InitReads == AccountInit => ReadsInv
  BY DEF AccountInit, ReadsInv, NoRequest, OwnSymbol, Reads, SettledRequest

LEMMA ReadsStep ==
  ASSUME QueriesAreBuried, QueriesArePaidOnce, Supported, BuriedInv, RequestInv, ReadsInv,
         [AccountNext]_accountVars
  PROVE  ReadsInv'
  <1> USE DEF Supported
  <1>1. CASE AccountRequest
    <2>1. CASE \E a \in QueryAddr, id \in QueryBlocks :
                 AskByIndex(a, id) \/ AskByHash(a, id) \/ AskLatest(a, id)
      BY <2>1, AskReads
    <2>2. CASE ReadBlockHash \/ ReadBlockSymbol
      BY <2>2, BlockRead
    <2>3. CASE FindAddress \/ MissAccount \/ NameAccount
      BY <2>3, AddressReads DEF CoinsInv
    <2>4. CASE ReadList
      BY <2>4, ListReads
    <2>5. CASE SkipRecord \/ TakeRecord \/ ReadTxHash
      BY <2>5, CoinReads DEF CoinsInv
    <2>6. CASE AnswerCoins
      BY <2>6, AnswerReads
    <2>7. CASE MissRecord \/ LackBlockHash \/ Served
      BY <2>7, NoReads DEF MissRecord, LackBlockHash, Served, Fails, Becomes
    <2> QED
      BY <1>1, <2>1, <2>2, <2>3, <2>4, <2>5, <2>6, <2>7 DEF AccountRequest
  <1>2. CASE (Crash \/ Restart) /\ request' = NoRequest
    BY <1>2, NoReads
  <1>3. CASE (Worker \/ SaveState \/ Syncer) /\ UNCHANGED request
    <2>1. [Next]_vars
      BY <1>3 DEF Next
    <2>2. OwnSymbol'
      BY <1>3, OwnSymbolStays DEF ChainInv, CoinsInv, ReadsInv
    <2> QED
      BY <1>3, <2>1, <2>2, WaitingReads
  <1>4. CASE UNCHANGED accountVars
    <2>1. [Next]_vars /\ request' = request
      BY <1>4 DEF accountVars
    <2>2. OwnSymbol'
      BY <1>4 DEF accountVars, vars, index, database, symbols, ReadsInv, OwnSymbol, View, Written
    <2> QED
      BY <2>1, <2>2, WaitingReads
  <1> QED
    BY <1>1, <1>2, <1>3, <1>4 DEF AccountNext

(* An answer to a request for the coins of an address in a block lists      *)
(* exactly the coins the ledger gives the address on that block's chain,   *)
(* each once (getAccountCoins, which reads label, list and records one by  *)
(* one while blocks above are indexed, flushed and removed), provided that *)
(* no reorg reaches the block or takes a block back that pays the address  *)
(* twice.                                                                  *)
THEOREM AnswersAreAsOfTheirBlock ==
  ASSUME QueriesAreBuried, QueriesArePaidOnce
  PROVE  AccountSpec /\ [][Orderly]_vars /\ [][TakesBack]_vars => []AnswersMatchTheirBlock
  <1>1. Supported /\ BuriedInv /\ [Next]_vars => BuriedInv'
    BY BuriedStep DEF Supported
  <1>2. Spec /\ [][EventsInOrder]_vars => [](ChainInv /\ SymbolInv /\ UtxoInv)
    BY OutputsFollowTheChain
  <1>3. Spec /\ [][EventsInOrder]_vars /\ [][TakesBack]_vars => [](RemovableInv /\ OrphanInv)
    BY OrphansInductive
  <1>4. Spec /\ [][Orderly]_vars /\ [][TakesBack]_vars => [](RemovableInv /\ CoinsInv)
    BY ListsFollowTheChain
  <1>5. ChainInv /\ SymbolInv /\ UtxoInv /\ RemovableInv /\ OrphanInv /\ CoinsInv => Supported
    BY DEF Supported
  <1>6. Spec /\ [][Orderly]_vars /\ [][TakesBack]_vars => []Supported /\ []BuriedInv
    <2>1. [Orderly]_vars => [EventsInOrder]_vars
      BY DEF Orderly
    <2> QED
      BY <1>1, <1>2, <1>3, <1>4, <1>5, <2>1, InitBuried, PTL DEF Spec
  <1>7. Supported /\ BuriedInv /\ RequestInv /\ ReadsInv /\ [AccountNext]_accountVars => ReadsInv'
    BY ReadsStep
  <1>8. RequestInv /\ ReadsInv => AnswersMatchTheirBlock
    <2> SUFFICES ASSUME RequestInv, ReadsInv, Answered, GivesBlock(request.id)
                 PROVE  MatchesItsBlock
      BY DEF AnswersMatchTheirBlock
    <2>1. SettledRequest /\ Reads /\ request.list = <<>>
      BY DEF Answered, SettledRequest, Reads, ReadsInv
    <2>2. NamesItsBlock
      BY <2>1 DEF RequestInv
    <2>3. Entries(<<>>) = {}
      BY DEF Entries
    <2>4. Once(request.coins) /\ Entries(request.coins) = LiveCoins
      BY <2>1, <2>3 DEF ReadsInv, Covers
    <2> QED
      BY <2>2, <2>4 DEF MatchesItsBlock, IsSetOf, Once, Entries, LiveCoins
  <1> QED
    BY <1>6, <1>7, <1>8, InitReads, AccountInductive, RequestsAreLookups, PTL DEF AccountSpec
=============================================================================
