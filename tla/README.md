# DigiByte Rosetta server: TLA+ verification

The server answers the Rosetta API for a DigiByte node. The node keeps no index
of addresses, so the server builds one: a syncer turns the node's chain into
"block added" and "block removed" events, and an indexer turns those into a
LevelDB database of unspent outputs, from which balances, coins and the inputs
of transactions are answered. This directory models that core, the loop that
drives it, the requests that read it and the construction of transactions from
it; model-checks them with TLC on small instances; and proves their main
invariants with TLAPS for every block tree and every size of batches, caches and
ranges.

## 1. Inventory

| Part | State it keeps | Operations | Modelled |
|---|---|---|---|
| **Indexer** (`src/Indexer.js`) | LevelDB tables `block-sym`, `sym-block`, `tx-sym`, `sym-tx`, `utxo`, `address-utxos`, `address-sym` and five metadata keys; one batch per table; five `lastSeen` caches; counters and heights; `workQueue`, `working` | `handleBlock`, the worker (add, remove), `processBatches`, `saveState`, `initIndexer`; requests: `getAccountBalance`, `getAccountCoins`, `getAccountUtxos`, `getUtxoData` | `Indexer`, `UtxoRequests`, `AccountRequests`; overlapping saves in `SyncLoop` |
| **Syncer** (`src/Syncer.js`) | the SDK's syncer with its past blocks | `sync`, `blockAdded`, `blockRemoved` | its events in `Indexer`, its rounds in `SyncLoop` |
| **Sync loop** (`index.js`) | none but its own timer | one round: count, sync, save, again | `SyncLoop` |
| **BlockCache** (`src/BlockCache.js`) | `map`, `hashes` | `get`, `put`, eviction | `SyncLoop`; that a block's events share one object also in `Indexer` |
| **BlockService** | none | `/block`: fills the cache, may start a sync round and a save | `SyncLoop` |
| **AccountService** | none | `/account/balance`, `/account/coins`: which block is meant, which block the answer names | `AccountRequests` |
| **ConstructionService** | none: the client carries everything from one call to the next | preprocess, metadata, payloads, combine, parse, submit | `Construction` |
| **utils.js** | none | operations of a transaction; every input asks `getUtxoData` and is left out without an answer | the requests, in `UtxoRequests` |
| **MempoolService** | none | node answers; `/mempool/transaction` asks `getUtxoData` as well | through `UtxoRequests` |
| **NetworkService** | none | node answers | no: keeps no state |
| **RPC client, CustomNetworks, config, singletons** | none | one HTTP call per method; constants | no: I/O and constants |

How they interact. Everything runs on one Node.js event loop, so two pieces of
code interleave exactly where one of them awaits. The sync loop calls the SDK's
syncer, which fetches blocks through the server's own `/block` route (this fills
the block cache) and emits events; the listeners call `handleBlock`, which
pushes the *cached* block object into `workQueue`; the worker takes blocks from
there, one at a time. Requests read the same caches and tables meanwhile, and
some of them write: an address nobody has seen is given a symbol, a missing
output is fetched from the node and remembered, and a `/block` request for a
block that is not safe yet starts a round and a save of its own, beside the
loop's. A client that constructs a transaction reads the tables once, in
`/construction/metadata`, and uses what it read several calls later.

What is hard about it, and what has to be right:

- *Batches and caches.* A block's writes wait in batches for blocks on end; the
  caches stand in for them. Reading through the caches must agree with what
  will be written (`ReadsSeePendingWrites`), and an answer must not depend on
  when a flush happened (`AccountCoinsMatchLedger`).
- *Crashes.* Memory is lost, and with it counters that handed out symbols. What
  is on disk must be one complete chain (`ImplementsUtxoIndex`,
  `SafeHeightIsDurable`, `BlockTablesAgree`) and no symbol in use may be handed
  out again (`TxSymbolsUnique`, `AddressSymbolsUnique`).
- *Reorgs.* A removal must undo exactly what the addition did, in tables that
  later blocks have written since (`UtxosAreExact`, `AccountCoinsMatchLedger`,
  `CoinsKeepTheirScript`), and leave one linked chain, the announced one
  (`IndexedChainIsLinked`, `IdleIndexIsSynced`).
- *Requests that read across awaits.* Label, list and records are read one by
  one while the chain moves on: the answer must be the ledger's at one block,
  and name that block (`AnswersMatchTheirBlock`, `AnswersNameTheirBlock`).
- *Requests that write* between any two awaits of the worker
  (`AddressSymbolsUnique`, `SymbolsAreKept`, `AnswersAreTrue`, `NeverExits`).
- *Two owners of one syncer, one cache and one database*: rounds and saves of
  the loop and of clients overlap (`AloneTheLoopIsSafe`, `SafeBlocksAreStored`).
- *Progress.* What was announced must reach the disk although the batches never
  fill once the node is synced (`SettlesWhenQuiet`); while no block is synced for a
  client, and unless the node fails for ever, the index must catch up with the
  node, although a failure of the node, or a block that is evicted between its
  fetch and its event, ends the process on the way (`AloneTheLoopCatchesUp`); and
  whoever waits for a save must get on (`SavesEnd`).
- *A transfer over several calls*: inputs must cover what the operations debit
  and no more (`InputsCoverTheDebits`), what is parsed must be what is spent and
  signed (`UnsignedShowsTheTransfer`, `SignedShowsTheSigners`), and what is
  submitted must be worth what it pays and signed for itself (`SubmittedIsValid`).
  Whether the node takes it depends on rules of its own.

`PROJECT.json` lists every such hazard at its line, the uncovered ones with the
reason.

## 2. Modules

- **`Ledger`**: the block chain as data (a tree of blocks, their transactions,
  inputs and outputs) and the *reference*: the coins of an address on a chain,
  computed from the blocks alone. Its assumptions are what the node's own
  validation guarantees.
- **`UtxoIndex`**: what the indexer promises, in three variables: the chain in
  memory, the chain on disk, the answers. Blocks come and go at the end of a
  linked chain, a save makes memory durable as a whole, a crash falls back to
  the durable chain, and answers are always the ledger's own.
- **`Indexer`**: `src/Indexer.js`, with the events of the syncer, the saves of
  the sync loop, lookups of addresses, crashes and restarts. Extends `Ledger`;
  implements `UtxoIndex` through the mapping at its end.
- **`UtxoRequests`**: `Indexer` plus requests for single outputs
  (`getUtxoData`, `recoverMissingUtxo`), one await at a time, interleaved with
  everything else.
- **`AccountRequests`**: `Indexer` plus a request for the coins of an address
  (`AccountService.js`, `getAccountCoins`), likewise.
- **`SyncLoop`**: `index.js`, `/block` requests, the syncer they share, the block
  cache, and the indexer a whole block at a time, so that rounds and flushes can
  overlap.
- **`Construction`**: `ConstructionService.js` and a client that calls it.
- **`IndexerProofs`**, **`ChainProofs`**, **`UtxoProofs`**, **`CoinsProofs`**,
  **`AccountRequestsProofs`**, **`UtxoRequestsProofs`**, **`SyncLoopProofs`**,
  **`ConstructionProofs`**: the theorems and their proofs. The first five extend
  one another in this order, `UtxoRequestsProofs` extends `ChainProofs`, and
  `ConstructionProofs` begins with lemmas about sums.
- **`MCIndexer`**, **`MCUtxoRequests`**, **`MCAccountRequests`**,
  **`MCSyncLoop`**, **`MCConstruction`**: the ledgers, bounds and transfers the
  runs use.

### How `Indexer` corresponds to the code

Variables have the fields' names. A table is a function with a growing and
shrinking domain; a batch is the same with `Deleted` for a `del`. `pc` is where
the worker stands and `job` its local variables:

| `pc` | the worker is |
|---|---|
| `idle`, `taken` | in `worker`: waiting, or holding a block |
| `tx`, `inputs`, `allocate`, `outputs` | in `batchBlockTxs`: at its loop, in `batchTransactionInputs`, past a missed address lookup, in `batchTransactionOutputs` |
| `firstFlush`, `untx`, `revalidate`, `unlist`, `secondFlush` | removing a block: the flush before, the loop over its transactions, their inputs, their outputs, the flush after |
| `blockFlush`, `stateFlush` | in `processBatches`, called by `processBatchesIfNeeded` or `saveState` |
| `exited` | after `process.exit(1)` |

A step ends where the code awaits something that another actor can come between
and tell. Loops are one step per iteration. A flush is three kinds of steps:
`TakeBatches` empties every batch at once, `FlushList` reads and extends one
address's list, `WriteBatches` is the LevelDB batch followed by the clearing of
the caches (nothing is awaited in between).

Choices a reader should know:

- `BatchIsFull` counts the keys of a batch, the code its entries. They differ
  when one address is named twice in a batch; this shifts a flush by one entry.
- Amounts are left out: `sats` is copied unchanged from an output to its record,
  so a balance is right when its coins are. Sums are floating point in the code;
  that hazard is listed and not covered.
- `scriptPubKey` is kept as whether the record has it.
- The `remove` field is read when the worker looks at it, after the awaits, from
  the object the cache shares: this is why `remove` is a function of the block
  and not part of the queue's entries.
- `Restart` is exit, supervisor and `initIndexer` in one step: nothing is shared
  with anybody in between. `Crash` may come in every state, also between taking
  and writing a batch. A LevelDB batch is atomic.
- `SaveState` is enabled when the worker is idle and a block was indexed. The
  sync loop saves only after a round, and `saveState` waits for the worker.
  While it runs no event arrives: the loop awaits it. The second way to start a
  round and a save, a `/block` request, is what `SyncLoop` is about.
- The order in which a flush extends lists is left open; the code uses one order
  and the result does not depend on it.
- `FlushList` and `RemoveOutput` call the lookup that may allocate a symbol, and
  the model lets them only read: the addresses they ask for always have one.
  This is not assumed but proved (`NamedInv`).
- An input without a record ends the process in the model (`MissesUtxo`). The
  code first asks the node. `NoMissingUtxo` shows that the worker never gets
  there.

What the index relies on its environment for is stated in three conditions on
steps, at the end of `Indexer`'s specification. The code ensures none of them, and
each has a configuration that shows what happens without it:

| Condition | Says | Without it |
|---|---|---|
| `InTurn` | no block is announced again while an earlier event of it waits with another block's behind it | `MCIndexer_overtaken` |
| `OnItsParent` | the node switches no branch that the syncer remembers nothing of | `MCIndexer_unseen`, `MCUtxoRequests_rivals` |
| `NamesKeepClear` | no request names an address during a flush, or is about to name one that a flush now takes | `MCIndexer_renamed`, `MCUtxoRequests_reused` |

`EventsInOrder` is the first two, `Orderly` all three. `Next` itself has none of
them; a run or a theorem that needs one says so (`OrderlySpec`, `InTurnSpec`;
`[][InTurn]_vars` in front of an implication), and what is stated for `Spec` holds
without.

### How `UtxoRequests` corresponds to the code

`asks[o].at` names what the request for `o` awaits; `tx`, `block`, `created` and
`address` are its locals. `AskUtxo` is `utxoExists` up to its first await,
`ReadTxSymbol` and `ReadUtxo` its two reads, `FetchTx` to `NameAndRememberUtxo`
are `recoverMissingUtxo`, `Answer` is `getAddressBySymbol`. The node answers
`FetchTx` with either branch's block, none, or an error, at any time: it may be
ahead of the indexer or behind. It never returns `tx.blockheight`, so that
fallback is dead. `ReadBlockSymbol` and `RememberUtxo` read cache and database in
one step; a miss is followed by a step of its own, so the gap in which two
actors allocate for one address is there.

### How `AccountRequests` corresponds to the code

`request.at` names what `getAccountCoins` awaits and the other fields are its
locals: the height and hash it found for the block the request means (an index
before a hash before the last block; an index of 0 counts as none, because 0 is
falsy), the address's symbol, what is left of its list and the coins kept so
far. `AskByIndex`, `AskByHash` and `AskLatest` are its three branches, one step
each for `getBlockHash`, `getBlockSymbol`, the address lookup (whose miss opens
one of `Indexer`'s lookups and names the address), the list, every record and
every transaction's hash. An error is an answer without data. A crash ends the
request. `getAccountBalance` reads the same records in the same order and has
one await less per coin, so it is not modelled a second time; whatever it sums is
among what is listed here. `getAccountUtxos`, which has neither a block nor a
condition, is part of `Construction`; the symbol it gives to an address nobody has
seen is one of `Indexer`'s lookups.

### How `SyncLoop` corresponds to the code

Blocks are their heights, on a node whose chain only grows: what is at stake
here is who runs when, not what a block holds. Every block is indexed by
`BeginBlock` (its symbol, `lastBlockSymbol`) and `IndexBlock` (its records and
list entries); within them nothing else happens to the block, but a flush of
somebody else may come between them.

| Variable | Code |
|---|---|
| `cache` | `BlockCache`: `held` is the map's keys, `order` the queue `hashes` |
| `sdk`, `rounds` | the SDK's one syncer: its `nextIndex` and `pastBlocks`, which all rounds share, and each round's own end and fetched blocks |
| `loop`, `client` | where `continueSyncIfNeeded` and a `/block` request await |
| `queue`, `worker` | `workQueue`, the worker; an event's `remove` field is read from the object the events of a block share until another object is put into the cache (`Parted`, `Flagged`) |
| `batch` | `named`, `bodies`: `dbBatches`; `entries`: `lastAddressUtxos`; `seen`: `lastSeenBlockHashes` |
| `flushes` | calls of `processBatches` under way, each with what it took, and on whose behalf: the worker, the loop, the client, or nobody any more |
| `height` | `lastBlockSymbol`, `safeLastBlockSymbol` |

Choices a reader should know:

- `/block` puts a block into the cache, compares its height and calls `sync`
  without an await in between: all of that is one step (`Serves`), at once for a
  cached block (`Ask`), after the fetch for another one (`ClientFetches`).
- `getblockcount` may fail each time the loop calls it, and nobody handles the
  rejection (`CountFails`).
- The syncer is the SDK's and external: a round fetches a range through the
  server's own `/block` route, in any order, and emits one block after the
  other; a block that does not continue the last one emitted takes that one back.
  It is modelled from how `Syncer.js` sets it up and what its events do to
  `handleBlock`. A block that could not be fetched is fetched again, silently.
- `Sync` sets `sdk.next` also under a round that is under way: this is what the
  SDK does with its fields, and the reason for `Undisturbed`.
- `processBatches` takes `dbBatches` at once, awaits one read per list, writes,
  clears the caches, and announces `lastBlockSymbol` *as it is by then*
  (`Write`). A list that another flush's clearing has taken away makes it throw
  (`MissLists`): in the worker and in a save that waited for the worker the
  process ends, in a client's save the client gets an error.
- `Exit` is the end of the process, whether by `process.exit(1)` or because
  nobody handles a rejected promise (`index.js:149` calls the loop without a
  `catch`). `Restart` reads the height from the database.
- A write on the disk does not fail, and there is one client's request at a time.

### How `Construction` corresponds to the code

One action per handler and outcome (`Preprocess`; `ExpectsAccounts`,
`CollectInputs` for each account, `InsufficientBalance`; `ExpectsInputs`,
`MakePayloads`; `Mismatch`, `Combine`; `Submit`), and the two forms of
`/construction/parse` as operators. The variables are what the client carries
from one answer to the next call; `at` is the call it makes next. A key is named
by the address derived from it, which is all `/construction/derive` does; a
signature is the hash it was made for and the key. `SigHash` says what a hash is
taken of, and `Payloads` that each input's is taken when only the inputs so far
are in the transaction. Meanwhile others pay and spend outputs, and a reorg takes
the latest of an account back (`Unpaid`). The client may skip metadata, sign with
other keys or one payload too few.

`getAccountUtxos` reads a list and then record after record, and a record it does
not find ends the reading: what it answers is any part of the list from its
beginning, spent outputs as well as unspent ones, the latest first
(`AccountUtxos`). A reorg that gives a symbol of the list to another transaction
while the list is being read is not modelled here; `MCUtxoRequests_unwound` shows
what that does to a request for an output. `/construction/hash` reads a hash of
what is submitted and changes nothing.

The node (external) takes *only* what spends outputs that are there and unspent, is
signed as it stands by their owners, and pays no more than it spends; and it may
refuse anything (`Submit`). Its rules on fees, dust and maturity, which can only
refuse more, are not modelled, and no property says that something is accepted.

## 3. Runs

Every passing run explores all reachable states of its instance.

| Run | Instance | What it shows |
|---|---|---|
| `fork` | fork ledger, up to four events waiting, crashes, requests that name `y`; `Orderly`; 206,001 states | `AccountCoinsMatchLedger`: the database answers every address at every stored height with the ledger's coins, whatever was flushed when, removed, spent later, lost in a crash. `UtxosAreExact`, `BlockTablesAgree`, `IdleIndexIsSynced` between blocks; `IndexedChainIsLinked` at all times; no list changes its owner (`OwnersStay`); `TypeOK`; `ImplementsUtxoIndex`; `SettlesWhenQuiet` |
| `restart` | fork ledger, up to three events waiting, crashes, names during flushes, a branch switch nobody saw; `InTurn`; 879,544 states | what holds in the harshest environment: `AddressSymbolsUnique`, `ReadsSeePendingWrites`, `SafeHeightIsDurable`, `NoMissingUtxo`, `TxSymbolsUnique` |
| `asks` | fork ledger with `s1` the first to pay `y`, requests for `s1`'s output and lookups of `y`, crashes, no block taken back; `Orderly`; 46,881 states | requests that recover an output and name blocks and addresses on the way: `AnswersAreTrue`, and that `AddressSymbolsUnique` and `SafeHeightIsDurable` survive these writers |
| `account` | trunk ledger, crashes, requests for `x`'s coins at a buried block or at "block 0"; `Orderly`; 1,212,651 states | an answer names the block asked for (`AnswersNameTheirBlock`) and lists exactly the ledger's coins there (`AnswersMatchTheirBlock`), read record by record while blocks above come and go; `NoMissingUtxo`, `AccountCoinsMatchLedger` and `SymbolsAreKept` with those readers and on blocks that pay twice and spend their own outputs; `RequestTypeOK` |
| `sync` | a chain that grows to height 2, a cache of two blocks, a client, a node that may fail, ends of the process by errors and restarts; 464,007 states | unless a block is synced for a client: what is announced is stored (`AloneTheLoopIsSafe`), and the index catches up again and again unless the node fails for ever (`AloneTheLoopCatchesUp`). In any case every save comes to an end (`SavesEnd`); `TypeOK` |
| `construct` | two accounts, four outputs, eight transfers; 82,002 states | `InputsCoverTheDebits`, `UnsignedShowsTheTransfer`, `SignedShowsTheSigners`, `SubmittedIsValid`, `AcceptedPaysTheChangeAsFee`, `ConstructionTypeOK` |

Six more runs expect a violation. Each checks one property that a document, a
comment or an assertion of the repository states, against the code as it is;
`PROJECT.json` gives the quotes under "findings":

| Run | Property | What happens |
|---|---|---|
| `paystwice` | `AccountCoinsMatchLedger` | `removeBlock` reads an address's list from the database for every output and never from its own batch (`Indexer.js:493`): of two outputs to one address only one leaves the list. The removal also hands the transaction's symbol back; the other branch's transaction is given it, and its output to the address meets the entry left behind: the coin is listed, and counted, twice. |
| `script` | `CoinsKeepTheirScript` | The cache entry of a new output has no `scriptPubKey`; an input that spends it in the same batch rewrites the record from there (`Indexer.js:1046`). When a reorg takes the spending block back, the output is unspent and can never be used by `/construction/payloads`. |
| `twice` | `NeverExits` | A request recovers an output between its transaction's symbol and its storage (`Indexer.js:851`); the worker asserts "UTXO should only exist once" and exits. |
| `saves` | `SafeBlocksAreStored` | A flush announces `lastBlockSymbol` as it is when the write returns (`Indexer.js:378`); with a save for a client beside the loop's, the worker is in the next block by then, and that one is announced unfinished. |
| `label` | `LatestAnswersMatchTheirBlock` | A request without a block, or with index 0, is answered with `lastBlockSymbol` and `bestBlockHash` (`Indexer.js:1335`), which the worker moves before it has read the block, and with the coins of the last flush. |
| `sighash` | `PayloadsAreOfTheTransaction` | Each input's hash is taken before the later inputs are added (`ConstructionService.js:216`): with two inputs all but the last signature are for another transaction, and the node refuses it. |

### Further demonstrations

These configurations are kept beside the runs: each can be given to TLC with the
module its name begins with. All but `straight` are expected to fail.

| Configuration | Property | What it shows |
|---|---|---|
| `MCIndexer_straight` | `NoMissingUtxo`, `AccountCoinsMatchLedger`, `SymbolsAreKept` | passes (9,617 states): a ledger without forks whose blocks pay an address twice, spend two outputs at once and spend what they created, with requests that name any address |
| `MCIndexer_flag` | `NeverExits` | The `remove` field is shared by a block's events (`Indexer.js:248`). A block added, removed and added again before the worker reaches it is taken for a removal and the process exits. |
| `MCIndexer_overtaken` | `BlockTablesAgree` | The same field, without `InTurn`: a removal is skipped because the block was added again meanwhile, and the events after it are worked on as if it had been removed. Nothing fails, and the tables hold two blocks for one height, or a block without its parent. |
| `MCIndexer_spendsown` | `NoOrphanUtxo` | Within a removal the re-validation of an input comes after the delete of the output it spent, if the block created it: the record survives (`Indexer.js:451`). |
| `MCIndexer_unseen` | `IndexedChainIsLinked` | Without `OnItsParent`. After a restart the SDK's syncer remembers no block, so a reorg during the downtime is not undone; the missing parent is only logged (`Indexer.js:325`). |
| `MCIndexer_renamed` | `SymbolsAreKept` | Without `NamesKeepClear`. A flush clears the caches after two awaits (`Indexer.js:351`), and with them an address named in between, which is then named again; its outputs under the first symbol are lost to it. |
| `MCUtxoRequests_skipped` | `IdleIndexIsSynced` | A request names the block of a transaction without indexing it (`Indexer.js:828`); when the worker gets to the block, it skips it as known. |
| `MCUtxoRequests_owner` | `UtxosNameTheirOwner` | The worker and a request miss one address together and both allocate (`Indexer.js:964-980`); the output keeps the symbol that never gets a list, and inputs that spend it are left out of the operations. |
| `MCUtxoRequests_reused` | `AnswersAreTrue` | Without `NamesKeepClear`. A request and the worker miss one address together, and `recoverMissingUtxo` names it a second time while the worker's flush is under way (`Indexer.js:964-980`). The flush files the address's list under the new symbol, beside a counter it took before. After a crash the symbol goes to another address, and a request for that one's output is answered with the first one. |
| `MCUtxoRequests_unwound` | `AnswersAreTrue` | A request has read a transaction's symbol and awaits the record. The block is removed, the counter turned back (`Indexer.js:541`), and the symbol goes to a transaction of the other branch, whose output the request then reads. |
| `MCUtxoRequests_rivals` | `AnswersAreTrue` | Without `OnItsParent`. After a branch switch nobody saw, both branches' spends of one output are indexed. The cached record of a spent output carries the spender's transaction symbol (`Indexer.js:1046`), so that the second spend writes it over the first spender's own output. |
| `MCAccountRequests_unflushed` | `AnswersMatchTheirBlock` | A block asked for by its hash is found in the cache before it is flushed (`Indexer.js:1326`), and the request is answered with the coins of the last flush. A request by the index waits for the flush, because heights are looked up in the database. |
| `MCSyncLoop_stuck` | `CatchesUp` | Without the condition that no block is synced for a client, the index need not catch up: two rounds share one next block, and the index ends up knowing the tip by its hash while its height stays below. Every later round takes the tip back and adds it again, and the worker skips it as known. |
| `MCSyncLoop_evicted` | `EventsFindTheirBlock` | Two rounds fetch the same blocks, each answer goes into the cache, and its queue then evicts a block between its fetch and its event (`Indexer.js:241` throws). Rounds for clients are not needed for it: nothing bounds how many safe blocks clients ask for between a fetch and an event, and in run `sync`, whose cache has no room beyond one fetch, a single such request does it. That the index recovers is `AloneTheLoopCatchesUp`. |
| `MCConstruction_fee` | `FeeIsWhatIsLeft` | No output pays the change back: whatever the inputs are worth beyond the operations goes to the miner. |
| `MCConstruction_spent` | `InputsAreUnspent` | `/construction/metadata` offers outputs that are spent, since `getAccountUtxos` does not look. |

### Bounds, and why they are enough

- *Ledgers.* The fork ledger has a branch of two blocks against one of three on
  a common genesis block: the syncer can go back one or two blocks and forward
  again, at any time and more than once. Its payment `s1` is mined on both
  branches at different heights, and spent by `s2` on one only, so it is added,
  removed and added under another symbol with another creation height. Its
  removable blocks do not pay an address twice nor spend their own outputs: that
  is where `paystwice` and `MCIndexer_spendsown` fail, and keeping it out lets
  the others show the rest. The trunk ledger has such a block, `p`, where no
  reorg reaches it, and two branches above it that spend one of its outputs at
  different heights: a request at `p` reads records that are being spent and
  unspent.
- *Batches.* `BLOCK_BATCH_SIZE` 2, `TX_BATCH_SIZE` 4 or 5, `ADDRESS_BATCH_SIZE`
  4 (200, 20000 and 20000 in the code): a batch spans two blocks, so worker,
  flush, crash and reorg meet with the batch empty, half full and full, and
  outputs are spent both before and after the flush that stores them.
- *`MaxQueue`*: 4 in `fork`, room for a whole switch to its longer branch, two
  removals and three additions of which the worker holds one; 3 in `restart`; 1 in
  `account`, whose reader is what that run is about. The proofs have no such bound.
  What both need is `InTurn`, which excludes nothing until three events are
  pending, the one the worker holds included; a fourth may then overtake the first
  (`MCIndexer_overtaken`).
- *`PastBlocks` 3*: the SDK remembers more blocks than any branch here has. Run
  `asks` takes 0, so that no block is removed while the node may be on either
  branch: what a request does across a reorg is shown by `MCUtxoRequests_skipped`.
- *Requests.* `QueryAddr` and `QueryUtxo` are one address and one output where
  the run is about the rest. One request per address or output at a time: two
  requests for one address race with the worker in the same way. `account` asks
  for blocks no reorg reaches; below a reorg an answer may change while it is
  read, and what is then true is a question of its own (`label`).
- *`SyncLoop`.* `MaxHeight` 2, `MaxSync` 1, `SyncLimit` 2 (200 and 1000 in the
  code): a round has one to three blocks and fetches them two at a time, so it
  takes several fetches and starts and ends anywhere in a chain that grows
  meanwhile. `BatchSize` 2: a batch is full in the middle of a round. `Space` 2:
  the cache has room for the two blocks of a fetch and no more, so that the one
  block a client may fetch (`MaxRequests` 1) evicts one the loop is about to need.
  In the code 250 is room for the 201 blocks of a fetch and for 49 others, and a
  client may ask for as many as it likes. The demonstrations have 3: what they
  show happens with room for both.
- *`Construction`.* Transfers debit one account or two, once or twice, in full
  or with change, in the order of the accounts and against it, more than there
  is, and without a debit or a credit. The outputs of one account differ in
  worth, so their order shows.
- Nothing else is bounded: symbols, heights and lists are finite because the
  ledger is and because a removal hands symbols back.

### Fairness

`SettlesWhenQuiet` (`OrderlySpec` of `Indexer`): `WF(Worker)`, because the worker's
timer and promises are served by the event loop, and no step waits for anything
but the disk and the caches; `WF(SaveState)`, because the sync loop saves after
each of its rounds (`index.js:164`); `WF(LookupName(a))`, because an outstanding
database read returns; `WF(Restart)`, because the container is run with
`--restart unless-stopped` (`docs/DOCKER.md:140`), or under pm2. Nothing is
assumed of the node, the syncer or crashes: the property says that *if* they are
eventually quiet, everything announced is on disk and announced as safe.

`AloneTheLoopCatchesUp` and `SavesEnd` (`FairSpec` of `SyncLoop`): weak fairness
of each actor that holds a promise or a timer: the loop, the client's request,
the worker, each owner's round or save, each flush, and the restart. Nothing is
assumed of the node's growth, of clients coming, or of how often `getblockcount`
fails; a node that fails for ever can keep an index from catching up, so the
property has `NodeRecovers` as its premise: the failures come to an end at some time.
The model's `Round` assumes that a block the node has is answered at some time;
errors in between are retried by the SDK.

`Undisturbed` is a condition and not an assumption on the code: the code does
start a round for a client who asks for a block that is not safe yet, and `saves`,
`MCSyncLoop_stuck` and `MCSyncLoop_evicted` show what comes of it. The properties
say what is left to rely on when nobody does, with requests for other blocks
going on.

## 4. Proofs

Eight modules prove, for every value of the constants that satisfies the named
assumptions, queues of any length included. `InTurn`, `OnItsParent` and
`NamesKeepClear` (section 2) appear as conditions on the steps of a behaviour, next to
`Spec`, where the code violates the property without them; `TakesBack` says which
blocks (`TakenBack`, any set) a behaviour removes.

| Theorem | Says |
|---|---|
| `IndexerProofs!TypeCorrect` | `Spec => []TypeOK` |
| `IndexerProofs!AddressSymbolsAreUnique` | `Spec => []AddressSymbolsUnique` |
| `IndexerProofs!SafeHeightDurable` | `Spec => []SafeHeightIsDurable` |
| `IndexerProofs!ReadsSeeWrites` | `Spec => []ReadsSeePendingWrites` |
| `IndexerProofs!InductiveInvariant` | `Spec => []IInv`, from which the others follow |
| `ChainProofs!EventsLeadToTheAnnouncedChain` | `Spec /\ [][InTurn]_vars => [](IInv /\ OrderInv /\ ChainedInv)` |
| `ChainProofs!TablesOfBlocksAgree` | `Spec /\ [][InTurn]_vars => []BlockTablesAgree` |
| `ChainProofs!IdleIndexFollowsSyncer` | `Spec /\ [][InTurn]_vars => []IdleIndexIsSynced` |
| `ChainProofs!IndexedBlocksAreLinked` | `Spec /\ [][EventsInOrder]_vars => []IndexedChainIsLinked` |
| `ChainProofs!SymbolsFollowTheChain` | `Spec /\ [][EventsInOrder]_vars => [](ChainInv /\ SymbolInv)` |
| `ChainProofs!TxSymbolsAreUnique` | `Spec /\ [][EventsInOrder]_vars => []TxSymbolsUnique` |
| `UtxoProofs!OutputsFollowTheChain` | `Spec /\ [][EventsInOrder]_vars => [](ChainInv /\ SymbolInv /\ UtxoInv)` |
| `UtxoProofs!NoUtxoIsMissing` | `Spec /\ [][EventsInOrder]_vars => []NoMissingUtxo` |
| `UtxoProofs!OutputsAreFound` | `Spec /\ [][EventsInOrder]_vars => []WorkerFindsOutputs` |
| `UtxoProofs!OrphansAreOfBlocksThatSpendTheirOwn` | `Spec`, `EventsInOrder`, `TakesBack`: whatever record is nobody's is `Stray`, of a block that was taken back and spends its own output |
| `UtxoProofs!UtxosOfTheChain` | the same, if no block of `TakenBack` spends its own outputs: `[]UtxosAreExact` |
| `CoinsProofs!KnownNamesStay` | `Spec /\ [][NamesKeepClear]_vars => SymbolsAreKept` |
| `CoinsProofs!ListsFollowTheChain` | `Spec /\ [][Orderly]_vars /\ [][TakesBack]_vars => [](RemovableInv /\ CoinsInv)` |
| `CoinsProofs!AnswersForAddressesPaidOnce` | the same: at every stored height the ledger's coins, for every address of `PaidOnce`, which no block of `TakenBack` pays twice |
| `CoinsProofs!AnswersAreTheLedgers` | the same, if `PaidOnce` is every address (`TakenBackPayOnce`): `[]AccountCoinsMatchLedger` |
| `CoinsProofs!IndexerImplementsUtxoIndex` | the same: `ImplementsUtxoIndex` |
| `AccountRequestsProofs!RequestsAreLookups` | `AccountSpec => Spec` |
| `AccountRequestsProofs!KnownNamesStayForRequests` | `AccountSpec /\ [][NamesKeepClear]_vars => SymbolsAreKept` |
| `AccountRequestsProofs!RequestTypesCorrect` | `AccountSpec => []RequestTypeOK` |
| `AccountRequestsProofs!AnswersNameBlocks` | `AccountSpec => []AnswersNameTheirBlock` |
| `AccountRequestsProofs!AnswersAreAsOfTheirBlock` | `QueriesAreBuried`, `QueriesArePaidOnce`: `AccountSpec /\ [][Orderly]_vars /\ [][TakesBack]_vars => []AnswersMatchTheirBlock` |
| `UtxoRequestsProofs!AskingKeepsAddressSymbolsUnique` | `AskingSpec => []AddressSymbolsUnique` |
| `UtxoRequestsProofs!AskingKeepsSafeHeightsDurable` | `AskingSpec => []SafeHeightIsDurable` |
| `UtxoRequestsProofs!OwnersOfSymbolsStay` | `AskingSpec /\ [][NamesKeepClear]_<<vars, asks>> => OwnersStay` |
| `SyncLoopProofs!TypeCorrect` | `Spec => []TypeOK` |
| `SyncLoopProofs!LoopAloneIsSafe` | `Spec => AloneTheLoopIsSafe` |
| `ConstructionProofs!UnsignedIsShown` | `Spec => []UnsignedShowsTheTransfer` |
| `ConstructionProofs!SignedIsShown` | `Spec => []SignedShowsTheSigners` |
| `ConstructionProofs!ConstructionTypes` | `Spec => []ConstructionTypeOK` |
| `ConstructionProofs!InputsAreEnough` | `Spec => []InputsCoverTheDebits` |
| `ConstructionProofs!AcceptedPaysTheChange` | `Spec => []AcceptedPaysTheChangeAsFee` |
| `ConstructionProofs!TransfersAreValid` | `Spec => []SubmittedIsValid` |

### The indexer

None of the properties is inductive. `IInv` is the conjunction of:

- `TypeOK`. It needs to know what the worker knows: that `SubSeq` and indexing
  stay within bounds, that a removed output's address has a symbol.
- `WorkerInv`: what the worker knows at each `pc` and must still hold after
  other actors' steps: it is inside the transaction's inputs or outputs, its
  symbol has been handed out, and the removed block's parent keeps its symbol
  across the first flush.
- `FlushInv`: a flush carries the height memory has, and nothing but names
  collects in the batches meanwhile.
- `CacheInv`: blocks and transactions read through the caches as they will be
  written; the caches are empty while a removal reads; a cached name is the one
  in the newest layer that has it.
- `NamedInv`: whoever a known transaction pays has a symbol, in the same layer
  or below. This is what makes the lookups in `FlushList` and `RemoveOutput`
  plain reads.
- `NamesInv`: names are distinct on disk, on disk with the flush (`Written`),
  and with the batches on top (`View`), each below the counter that goes with
  it. All three are needed: a crash falls back to the first, a write promotes
  the second, an allocation extends the third.
- `HeightInv`: the block tables have no gap up to the height, on disk and in
  memory, and a block is stored under its own height.
- `QueueInv`: the queue and the syncer continue those heights without a gap.

The argument. Most steps do not touch most conjuncts, so steps are first sorted
into kinds (`Quiet`, `Still`, `NamesUnchanged`, ...), and a table is looked at as
three *layers* with lemmas that say how a put, a taking of the batches, a write
and a reboot move between them (`OverlayTwice`, `TakenLayers`, `WrittenLayers`,
`RebootedLayers`). Then one lemma per conjunct shows that `Next` preserves it
(`TypeStep`, `WorkerStep`, `FlushStep`, `CacheStep`, `NamedStep`, `NamesStep`,
`HeightStep`, `QueueStep`), with a step per action or kind of action.

Assumptions used: `LedgerTypes`, that `None` and `Deleted` are no values
(`SentinelsAreNoValues`), and that the bounds are natural numbers
(`BoundsAreNatural`). Neither that blocks form a tree nor that they are valid is
needed.

### The chain

Three more invariants say that the tables hold one chain, and which.

- `OrderInv`. `After(flags, c, b)` is what the worker makes of an event of block
  `b` on chain `c`, with the `remove` flags *as they are now*: it takes the block
  off, puts it on, or skips it. The events taken and waiting (`Pending`), worked
  off like this one after the other, lead from the index's chain (`Base`) to the
  announced one (`Announced`), and each of them is about the last block or the
  next height (`Leads`).
- `ChainedInv`: on disk and in memory, the block tables hold one block per height
  up to the top.
- `RootedInv`: the known, the stored and the announced blocks contain the parent
  of each.

The hard step is an event that arrives while an earlier one of its block waits:
it changes the flag, and with it what the earlier event will do. `Overwrites` says
that a block's later event makes up for what its earlier one did. So if nothing but
events of the block waits behind the earlier one, all of them together amount to
the new event alone (`InARow`, along any number of them), and the chain they lead to
is the announced one again (`Push`): the earlier event may become the skip, or the
later one. That is what `InTurn` says of the moment an event arrives, and all that is
needed of the environment; the length of the queue does not matter.
`MCIndexer_overtaken` is the counterexample without it. A removal is of the top block and the added block is of the next
height, which gives `ChainedInv`. For `RootedInv`, the block being added is among
the announced ones, because nothing that waits takes it back (`WaitingKeeps`), so
its parent is announced and is the one block the index has below it
(`AddedIsRooted`). `LedgerTree` is the assumption used beyond those above, and
`OnItsParent` in the last step only, since without it the announced chain need
not be linked itself.

### The transactions

`LedgerIsValid` says of each block what its own branch has below it, and a branch
is a recursive function. That it is what it should be (`BranchIsBranch`) is shown without
induction: if it failed for some block, it would fail for a lowest one
(`LowestBlock`, from the well-foundedness of `<`), and that one's parent is lower;
that a function with the recursive equation exists at all is shown by naming one.
Of two blocks on a chain the lower one is then on the other one's branch, so a
transaction stands at one *place*, block and position, of the chain (`MinedOnce`).

`SymbolInv` follows the worker through the places:

- `OrderedInv`: the transactions that have a symbol are those of the known blocks,
  up to where the worker is in the block it adds or removes (`Mined`), and symbols
  grow with the order of the chain, up to the counter (`Numbered`). On disk the
  same holds of the stored blocks and the stored counter, since a crash makes these
  the ones in memory.
- `CurrentInv`: the current transaction has the last symbol given out.
- `RemovalInv`: a removal works on what is on disk, and the lowest symbol it has
  met is above those of all other blocks. So when `CommitRemove` turns the counter
  back to it, all that is freed belonged to the removed block, because a removed block is on top
  (`ChainedInv`).
- `JobInv`: the block being added is known and on top.

### The outputs

`UtxoInv` describes the record of every output that is indexed so far (`Created`:
those of the transactions with a symbol, up to the worker's own position in the
outputs it stores or deletes) and every spend (`Spends`, likewise for inputs):

- `StoredInv`: each such output has a record under its transaction's symbol, which
  names the height its transaction stands at (`Dated`) and is spent exactly if one
  of the spends is of it, at that spend's height (`Dues`); on disk for the stored
  blocks, and through the batches for the known ones. Nothing enters the batch of
  outputs while a flush is under way.
- `CachedInv`: the cache of outputs holds created ones with the right height, but
  its symbol may be wrong: `invalidateUtxo` caches an output it has just spent
  under the symbol of the *spending* transaction (`Indexer.js:1046`). The invariant
  says that such an entry is of a spent output, and `OutputsAreFound` that nobody
  reads it again before it is gone: no valid block spends the output twice, and a
  removal begins with a flush, which empties the cache.
- `UncachedInv`: what the cache does not have is on disk, so a miss that reads the
  database (`ReadUtxo`) finds it.
- `PosInv`: the worker begins each transaction at its first input.

From these, `WorkerFindsOutputs`: the worker never lacks a record and never meets
one it is about to create, so two of the four ways to `process.exit(1)` that `Exit`
has never come about.

For the converse, that no record is left behind, the code gives less. A removal puts
back the records its inputs spent after it has deleted the outputs of the
transactions before, so an output that its own block spends survives the removal
(`MCIndexer_spendsown`). `OrphanInv` says that this is the only way: each record is a
created output's, or `Stray`, dating from a block that was taken back and `SpendsOwn`.
That holds of every block (`OrphansAreOfBlocksThatSpendTheirOwn`), and is all that
requests for older blocks need to know. Behaviours in which no block with a chained
spend is taken back have nothing stray, and there `UtxosAreExact` follows; blocks
deeper than any reorg may do as they like.

Assumptions used beyond those above: `LedgerTree`, `LedgerIsValid`, and
`SentinelsAreNoRecords`. `OnItsParent` is needed, since what is validated is a
branch and not whatever two branches put into the tables. Run `restart` finds no
violation of `TxSymbolsUnique` and `NoMissingUtxo` without it on its ledger, which
the proofs do not explain.

### Names that stay

`SymbolsAreKept` is an action property, and two actors may well name one address
one after the other: both missed it before either named it. `FreshInv` says that
both happen between the same two flushes: whoever is about to be named (`lookups`,
the worker at `allocate`), waits in the batch or is being flushed is not on disk,
and nobody asks for a name that is being flushed, because the caches have it until
it is. A flush then adds names only. `NamesKeepClear` is what makes "between two
flushes" mean something, and `MCIndexer_renamed` shows that the code does not
guarantee it.

### The lists and the answers

`CoinsInv` says what the list of an address holds at every step, with six parts:

- `FreshInv`, the names (above): a list is filed under a name, so it stays its
  address's only as long as the name does.
- `ListsInv`: a list in the database names the outputs of the stored transactions
  that pay its address, each once (`DbListing`, `DbPaid`); and in memory what the
  next write leaves of the list (`Listing`), together with what still waits to be
  appended (`Waiting`), names those created so far (`Created`), each once and in
  one of the two only. During a flush an address waits as long as it is in
  `flush.todo`.
- `OwnedInv`: a list stands under a name that some address has, in the same layer or
  below. With the uniqueness of names nobody extends another one's list.
- `LayerInv`: outputs wait only while nothing is being removed, lists are rewritten
  only by a removal, and a flush appends to each list once. This is what makes
  "database, batch, waiting" a sum and not a race.
- `UnlistedInv`: the lists a removal has rewritten are those of the outputs it has
  removed. Each removed output rewrites its list from the database
  (`Indexer.js:493`), so a second output to one address in one block undoes
  what the first did, as `paystwice` shows. The lists that are kept in order are
  therefore those of the addresses in `PaidOnce`, which no block that was taken back
  pays twice; what other addresses have in such a block does not touch them.
- `BackInv`: `sym-tx` leads back from the symbol to its transaction, although a
  removal deletes nothing from it and a symbol may be handed out again.

An answer then is the ledger's at every stored height `h`. The stored blocks up to
`h` are the chain's prefix (`BlocksUpTo`), the transactions, the outputs created and
those spent are the prefix's (`TxsUpTo`, `CreatedUpTo`, `SpentUpTo`), and a record
tells whether its output was created and not spent up to there (`RecordTells`, from
`StoredInv`). So the filter of `AccountCoins` keeps of the list exactly the ledger's
coins, and once each, because the list has each once (`AnswerAt`). That is said of
the addresses in `PaidOnce`; `AnswersAreTheLedgers` is the case in which these are all.

### The refinement

`UtxoIndex` has three variables, and for each of them there is a lemma. `ChainMoves`
says what every step of the indexer does to the chain in memory and to the one on
disk: `Exit` and a reboot fall back to the disk, `WriteBatches` saves, `CommitRemove`
takes the top block off, `FinishBlock` and `FinishBlockAndFlush` put a block on top
whose parent is below it, and everything else changes neither. In particular
`AddBlock`, which already moves `lastBlockSymbol`, indexes nothing yet.
`CoinsAreAnswers` is the third variable: in every state the stored answers are those
of the stored chain, which is `AnswersAreTheLedgers` at the highest height. The
theorem combines the two with a step per kind of move.

### Requests for coins

A request does to the indexer what a lookup does, and nothing else
(`RequestsAreIndexerSteps`), so `IInv` and everything proved from it carries over.
`RequestInv` adds what the request knows at each await, above all that height and
hash belong together from the moment the block is settled, although one of them
was asked for and the other read.

For the coins themselves more is needed, because the request reads label, list and
records one by one, while the worker goes on.

- A block is `Buried` when the syncer can take back neither it nor any block as high or
  below. `BuriedInv`: a stored block that is buried stays indexed, with its height and
  the symbols of its transactions (`FixedInv`); the table of heights, in which a
  removal leaves the removed block behind, names only indexed blocks and removable
  ones (`HeldInv`); and an address is stored only with some block
  (`BegunInv`), so that an address is found only when the genesis block is.
- `OwnSymbol`: between the address lookup and the list, the symbol in the request's
  hand is its address's or nobody's, also when the database has forgotten it in the
  meantime: symbols handed out later are above it.
- `ReadsInv`: what the request has kept and what it has still to read `Covers` the
  answer. Each coin the ledger gives the address at the block is kept, or the key of
  its record is still in the list, and not both; what is kept is such a coin; and
  what else is in the list is of the same address or of a later block. A record is
  kept exactly if it was created and not spent up to the block's height, and since
  what is later written into a record is above a buried block, that is the same
  whenever it is read (`BranchRecord`); that it is the record of an output and not one
  left behind is `RecordIsKeyed`.

`QueriesAreBuried` says that an index asked for is below every reorg and that a hash
asked for is the genesis block's; `QueriesArePaidOnce` that no block that was taken
back pays an address twice *that is asked for*. Run `account` satisfies both; on its states TLC found no violation of `BuriedInv`, `ReadsInv`
and `OrphanInv` either. Neither half of the first can
be dropped: at a height that a reorg changes, label and records may come from two
branches, and by its hash a block is found before it is stored
(`MCAccountRequests_unflushed`).

### Requests for outputs

A request for an output writes more than a lookup: `NameBlock` puts a block into the
batch in the middle of a flush or of another block, and `RememberUtxo` fills the
cache of outputs. `AskingSpec` therefore does not imply `Spec`, and of `IInv` the parts
about blocks (`FlushInv`, `CacheInv`, `HeightInv`) do not hold. What follows rests on
other invariants.

*Symbols are nobody else's.* `UniqueInv` is `NamesInv` with just what that takes of
the shapes of tables, batches and flush. Whoever names an address takes the next
symbol, so this holds in every setting, with names during flushes, removals and
unseen branch switches.

*Safe heights are durable.* A request gives a symbol (`NameBlock`) to a block that
the worker has not reached or has just taken back, on any branch, while a flush or a
removal is under way: memory may know heights with a gap below them, and a height may
get another block. `DurableInv` is what survives it. Whatever is known, in any layer,
is known at its own height (`Tidy`), and each layer has the heights of those below
(`LayersInv`). Not all known heights are without a gap, but those that matter are
(`LevelsInv`): up to the height stored, up to the one a flush writes, up to the one in
memory, and, during a removal, up to the block below the one that goes, whose symbol
`CommitRemove` takes as the new height. `QueueInv` is that of `IInv`: no waiting block
leaves a gap below it.

*Owners stay.* The answer of a request is the address filed with the list of the
symbol it holds, so what must not happen is that a list passes from one address to
another. `ToldInv` says that there is a *reading* of the address symbols, a function of
the symbol and not of the state, that is true of all names and lists, on disk, in a
flush and in the batches (`Told`). A step that hands a symbol out extends the reading
by a symbol nobody holds yet (`ToldNamed`), and everything told before stays told
(`TellsStill`). A crash is what this needs the counters for: the disk speaks only of
symbols up to the counter stored beside it (`StoredAddressSymbol`), so that what is
handed out again afterwards may get a new meaning; a flush takes tables and counter
together. That last fact is where `NamesKeepClear` comes in: a name given during a
flush moves the counter the flush has already taken (`MCUtxoRequests_reused`). Removals,
branch switches nobody saw and crashes are all included.

That a request's answer is right needs the transaction's symbol to keep its meaning as
well, between the awaits of the request, and that a removal does not give
(`MCUtxoRequests_unwound`), nor an unseen branch switch (`MCUtxoRequests_rivals`).
`AnswersAreTrue` is therefore only model-checked, without removals.

### The sync loop

`TypeInv` is `TypeOK` with the shape of flushes. As long as the loop is
`Undisturbed`, `AloneInv` is inductive:

- `ClientApart`: the client has no round and no save.
- `EventsInOrder`: the last block emitted, the queue, the block in the worker and
  the indexed height are one sequence without gap; once the loop neither syncs
  nor waits, the worker is idle.
- `OneFlush`: at most one flush is under way, the worker's while the worker waits
  for it or the loop's while the worker is idle, so it announces the height it
  took; and what it took completes the database up to there.
- `NothingLost`: the database with the batches holds every block up to the one
  being indexed, the database alone every block up to the stored and the
  announced height.

`AloneTheLoopIsSafe` is an implication between two invariants of a behaviour, so
the temporal step proves `[]Undisturbed => []AloneInv` from the step that assumes
`Undisturbed` before and after. What a client's request for a safe block evicts,
failures of the node (`CountFails`) and ends of the process are all part of it. Only that bounds are natural numbers, and cache
and batch not of size 0, is assumed: `Space` need not be large enough, since a
missing block stops a round and loses nothing.

### Construction

`TransferInv` says that what the index lists of an account is that account's
(`ListedInv`), that inputs name the owner and worth of what they spend
(`CollectedInv`), that later stages are empty before their turn (`StagesInv`), and
that the transaction, its payloads, signatures and scripts are those of what was
collected (`TransactionInv`). From the last one, parsing is computed back:
`SignedIsShown` needs that the two parses are of equal length up to the first
credit, and equal if and only if they are at every input. `Credits` and
`RequiredBalances` select by position (`InOrder`), and that a selection in order
exists and has the selected positions as its members is proved from the order of
the natural numbers (`LeastNatural`, `Positions`, `InOrderSelects`).

The rest is about sums, which are a fold over a set that picks its elements by
`CHOOSE`. The module's first part shows that the order does not matter: a partial function with the
recursive equation exists for every finite set and any two agree, because of the
sets for which one of this fails there would be a smallest (`SmallestSet`). From that
follow what the proofs cite: a sum gains an element (`PartTakes`, `PartAdds`), two
disjoint parts add up (`PartsJoin`), a part can be renamed (`PartRenamed`), and a part
of positive amounts is positive (`PartPositive`).

- `TypeInv` strengthens `ConstructionTypeOK` with what types rest on: inputs have
  natural worth, `required` has positive sums.
- `CoverInv` is the loop invariant of `CollectInputs`, wherever the reading of an
  account's list ends: each account asked for so far
  is covered by its own inputs and not without the last of them (`Covered`),
  `change` is their worth less what was asked for, and every input is of an account
  asked for.
- `DistinctInv`: no output is listed, or taken, twice. Accounts are asked for once
  each because `RequiredBalances` groups the debits by account, and that the groups
  add up to all debits is `PartsJoin` once more.
- `SentInv`: what is submitted carries signatures for the hashes of its payloads.

`SubmittedIsValid` combines the last three: a transfer that credits no more than it
debits is submitted with inputs worth what it pays, and with a single input the hash
that was signed is the transaction's own; `sighash` shows that with two it is not. What
the node makes of it is another matter, and nothing is said of it.

## 5. What is only model-checked, and what is not covered

Only model-checked:

- liveness: `SettlesWhenQuiet`, `AloneTheLoopCatchesUp`, `SavesEnd` (out of the
  prover's reach);
- `AnswersAreTrue`, for behaviours without removals: with them it does not hold
  (`MCUtxoRequests_unwound`);
- `TxSymbolsUnique` and `NoMissingUtxo` after a branch switch nobody saw, on the fork
  ledger (`restart`).

Not covered, because the code does not give it:

- the chain when events are not `InTurn` (`MCIndexer_overtaken`), and that it is linked
  after a branch switch nobody saw (`MCIndexer_unseen`);
- the answers for an address that a block pays twice, once such a block was taken
  back (`paystwice`);
- answers at blocks that a reorg may reach, where they need not be the ledger's;
- that an event finds its block in the cache: nothing bounds what clients fetch
  between a block's fetch and its event (`MCSyncLoop_evicted`). What is checked is that
  the index recovers from it.

Not modelled, with the reason:

- amounts in the index and their floating-point sums: TLC's integers end far
  below 2^53; the records of the model have no amount, a balance is right when its
  coins are and their sum is exact;
- a disk write that fails: LevelDB's errors end the process as a crash does, which
  the model has at the same place;
- the content of a transaction's operations (`utils.js`): formatting, apart from
  the inputs it asks for;
- the network, mempool list, RPC client and configuration: no state and no logic
  of their own;
- byte encodings (protobuf, key prefixes, scripts, signatures): a key is modelled
  by what it identifies, a script as whether it is there, a signature as what it
  was made of and by whom;
- a best hash that is a Buffer after a restart is kept as a mark
  (`bestBlockHash.raw`) without a property: it would restate the conversion that
  is missing.

## 6. Plan

Done: `Ledger`, `UtxoIndex`, `Indexer`, `UtxoRequests`, `AccountRequests`,
`SyncLoop`, `Construction`, and the proofs of section 4.

What is left, in this order:

1. `AnswersAreTrue` for outputs that are deeper than any removal reaches, as
   `QueriesAreBuried` has it for `AccountRequests`, and a proof of it.
2. The reading of `getAccountUtxos` record by record while a reorg gives symbols away.
3. Amounts with a bounded significand, scaled down: which sums of satoshis are
   exact.
4. Operations of a transaction, if they are to be checked against the balances.
