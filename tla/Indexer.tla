------------------------------ MODULE Indexer -------------------------------
(***************************************************************************)
(* src/Indexer.js: the utxo indexer, one step of its worker per action.    *)
(*                                                                         *)
(* A worker takes blocks from a queue the syncer's events fill, adds or    *)
(* removes them, and collects its writes in batches that a flush makes     *)
(* durable as one LevelDB batch.  Between flushes, the lastSeen caches     *)
(* stand in for the writes the database does not hold yet.  Symbols (small *)
(* integers) stand for transactions and addresses everywhere; the counters *)
(* that hand them out live in memory and are made durable by a flush.      *)
(*                                                                         *)
(* Atomicity.  A step ends where the code awaits something another actor   *)
(* (a query, an event, a crash) can come between and tell; loops are one   *)
(* step per iteration.  A flush first takes the batches, then reads the    *)
(* lists it extends, then writes: requests come in between.                *)
(***************************************************************************)
EXTENDS Ledger

CONSTANTS
  None,                 \* null or undefined
  Deleted,              \* the value of a `del' operation in a batch
  BLOCK_BATCH_SIZE, TX_BATCH_SIZE, ADDRESS_BATCH_SIZE,
  MaxQueue,             \* bound: events waiting in workQueue
  PastBlocks,           \* blocks the SDK syncer remembers for reorgs
  QueryAddr,            \* addresses that requests ask for
  CrashAllowed          \* whether the process may die at any moment

ASSUME SentinelsAreNoValues ==
  /\ Deleted # None
  /\ None \notin Int /\ Deleted \notin Int
  /\ None \notin Block /\ Deleted \notin Block
  /\ Deleted \notin Tx /\ None \notin Addr

ASSUME BoundsAreNatural ==
  /\ BLOCK_BATCH_SIZE \in Nat /\ TX_BATCH_SIZE \in Nat
  /\ ADDRESS_BATCH_SIZE \in Nat
  /\ MaxQueue \in Nat /\ PastBlocks \in Nat
  /\ QueryAddr \subseteq Addr
  /\ CrashAllowed \in BOOLEAN

VARIABLES
  \* the database
  db,                      \* [Tables -> map from key to value]
  meta,                    \* the keys without prefix
  flush,                   \* what a flush took from the batches, on its way there
  \* batches and caches, in memory
  dbBatches,               \* [Tables -> map from key to value or Deleted]
  lastSeenBlockHashes, lastSeenTxHashes, lastSeenAddresses, lastSeenUtxos,
  lastAddressUtxos,        \* address -> outputs to append to its list
  \* the indexer's own fields
  genesisBlockHash, genesisBlockHashUpdated, bestBlockHash,
  lastBlockSymbol, lastTxSymbol, lastAddressSymbol, safeLastBlockSymbol,
  \* the worker
  workQueue,               \* blocks, in the order of their events
  remove,                  \* [Block -> BOOLEAN]: the field of the CACHED block
  pc, job,                 \* where the worker is, and on what
  \* requests and the syncer
  lookups,                 \* addresses a request found nowhere, not yet named
  synced,                  \* the chain the syncer's events amount to
  depth                    \* how many blocks of it the syncer remembers

database == <<db, meta, flush>>
caches   == <<lastSeenBlockHashes, lastSeenTxHashes, lastSeenAddresses, lastSeenUtxos,
              lastAddressUtxos>>
genesis  == <<genesisBlockHash, genesisBlockHashUpdated>>
heights  == <<bestBlockHash, lastBlockSymbol, safeLastBlockSymbol>>
symbols  == <<lastTxSymbol, lastAddressSymbol>>
index    == <<database, dbBatches, caches, genesis, heights, symbols>>
worker   == <<pc, job>>
events   == <<workQueue, remove>>
syncer   == <<synced, depth>>
outside  == <<events, lookups, syncer>>
vars     == <<index, worker, outside>>

-----------------------------------------------------------------------------
(* Maps: functions with a domain that grows and shrinks.                   *)

EmptyMap == [k \in {} |-> None]

(* f with g's entries written over it.                                     *)
Merge(f, g) ==
  [k \in DOMAIN f \cup DOMAIN g |-> IF k \in DOMAIN g THEN g[k] ELSE f[k]]

Put(f, k, v) == Merge(f, [x \in {k} |-> v])

(* A table after a batch of puts and dels.                                 *)
Overlay(table, ops) ==
  [k \in {x \in DOMAIN table \cup DOMAIN ops : x \in DOMAIN ops => ops[x] # Deleted}
     |-> IF k \in DOMAIN ops THEN ops[k] ELSE table[k]]

Get(f, k) == IF k \in DOMAIN f THEN f[k] ELSE None

OrElse(value, default) == IF value = None THEN default ELSE value

Tables == {"block-sym", "sym-block", "tx-sym", "sym-tx", "utxo", "address-utxos",
           "address-sym"}

NoBatches == [t \in Tables |-> EmptyMap]

NoMetadata ==
  [bestBlockHash |-> None, latestBlockSymbol |-> None, latestTxSymbol |-> None,
   latestAddressSymbol |-> None, genesisBlockHash |-> None]

-----------------------------------------------------------------------------
(* Reading: the caches first, then the database.                           *)

(* Definitions marked FAULTY are not part of the specification: each is a   *)
(* mistake the runs must notice when it takes the place of the definition  *)
(* that follows it.                                                        *)

BlockSymbol(b) ==
  IF b \in DOMAIN lastSeenBlockHashes THEN lastSeenBlockHashes[b]
                                      ELSE Get(db["block-sym"], b)

(* FAULTY: the removed block's own symbol.                                 *)
FaultyParentSymbol(b) == BlockSymbol(b)

(* previousblockhash is undefined in the genesis block.                    *)
ParentSymbol(b) == IF Height[b] = 0 THEN None ELSE BlockSymbol(Parent[b])

(* FAULTY: the transactions of the unflushed batch are overlooked.          *)
FaultyTxSymbol(t) == Get(db["tx-sym"], t)

TxSymbol(t) ==
  IF t \in DOMAIN lastSeenTxHashes THEN lastSeenTxHashes[t] ELSE Get(db["tx-sym"], t)

(* FAULTY: a name made before the last flush is overlooked.                 *)
FaultyAddressSymbol(a) == Get(lastSeenAddresses, a)

AddressSymbol(a) ==
  IF a \in DOMAIN lastSeenAddresses THEN lastSeenAddresses[a]
                                    ELSE Get(db["address-sym"], a)

(* A utxo record, its script as whether the record holds it.  `spentOn' is *)
(* spentOnBlock, `spentIn' is spentInTx, `address' an address symbol.      *)
Utxo(address, created) ==
  [address |-> address, created |-> created, spentOn |-> None, spentIn |-> None,
   script |-> TRUE]

(* FAULTY: the cached record does not know its key.                         *)
FaultyRemembered(s, u) == [txSymbol |-> None, utxo |-> [u EXCEPT !.script = FALSE]]

(* What lastSeenUtxos keeps of an output the worker just created: the same *)
(* fields without the scriptPubKey.                                        *)
Remembered(s, u) == [txSymbol |-> s, utxo |-> [u EXCEPT !.script = FALSE]]

(* The utxo of an outpoint <<tx, n>> with the key it is stored under.      *)
UtxoExistsInDb(o) ==
  LET key == <<TxSymbol(o[1]), o[2]>> IN
  IF TxSymbol(o[1]) # None /\ key \in DOMAIN db["utxo"]
  THEN [key |-> key, utxo |-> db["utxo"][key]]
  ELSE None

UtxoExists(o) ==
  IF o \in DOMAIN lastSeenUtxos
  THEN [key |-> <<lastSeenUtxos[o].txSymbol, o[2]>>, utxo |-> lastSeenUtxos[o].utxo]
  ELSE UtxoExistsInDb(o)

EmptyUtxoList == [coins |-> <<>>, address |-> None]

UtxoList(s) ==
  IF s \in DOMAIN db["address-utxos"] THEN db["address-utxos"][s] ELSE EmptyUtxoList

-----------------------------------------------------------------------------
(* Requests that read the database (getAccountBalance, getAccountCoins).   *)

(* FAULTY: an output still counts in the block that spends it.              *)
FaultyUnspent(u, h) == u.created <= h /\ (u.spentOn # None => h <= u.spentOn)

(* An output counts at height h when it exists by then and is not spent by *)
(* then.                                                                   *)
Unspent(u, h) ==
  /\ u.created <= h
  /\ u.spentOn # None => h < u.spentOn

(* Whether an address is answered: an unknown one and one without a list    *)
(* are errors, an entry without utxo record makes the answer null.         *)
Answerable(a) ==
  LET s == AddressSymbol(a) IN
  /\ s # None /\ s \in DOMAIN db["address-utxos"]
  /\ \A i \in DOMAIN UtxoList(s).coins : UtxoList(s).coins[i] \in DOMAIN db["utxo"]

(* The coins answered for an address at a height the index has reached, by  *)
(* their places in its list.                                               *)
AccountCoins(a, h) ==
  LET list == UtxoList(AddressSymbol(a)).coins IN
  [i \in {j \in DOMAIN list : Unspent(db["utxo"][list[j]], h)} |->
     <<db["sym-tx"][list[i][1]], list[i][2]>>]

-----------------------------------------------------------------------------
(* Flushing: processBatches with writeBatches.                             *)

FlushPc == {"blockFlush", "stateFlush", "firstFlush", "secondFlush"}

NoFlush == [ops |-> NoBatches, meta |-> NoMetadata, todo |-> {}]

(* FAULTY: a flush that does not write the height, or the tx counter.       *)
FaultyHeightMetadata(best, blockSymbol, txSymbol) ==
  [bestBlockHash       |-> best.hash,
   latestBlockSymbol   |-> meta.latestBlockSymbol,
   latestTxSymbol      |-> txSymbol,
   latestAddressSymbol |-> lastAddressSymbol,
   genesisBlockHash    |-> genesisBlockHash]

FaultyCounterMetadata(best, blockSymbol, txSymbol) ==
  [bestBlockHash       |-> best.hash,
   latestBlockSymbol   |-> blockSymbol,
   latestTxSymbol      |-> OrElse(meta.latestTxSymbol, txSymbol),
   latestAddressSymbol |-> lastAddressSymbol,
   genesisBlockHash    |-> genesisBlockHash]

Metadata(best, blockSymbol, txSymbol) ==
  [bestBlockHash       |-> best.hash,
   latestBlockSymbol   |-> blockSymbol,
   latestTxSymbol      |-> txSymbol,
   latestAddressSymbol |-> lastAddressSymbol,
   genesisBlockHash    |-> IF genesisBlockHashUpdated THEN genesisBlockHash
                                                      ELSE meta.genesisBlockHash]

(* processBatches takes every batch at once, with the metadata of that     *)
(* moment.  Addresses named from here on wait for the next flush.          *)
TakeBatches(batches, best, blockSymbol, txSymbol) ==
  /\ flush' = [ops  |-> batches,
               meta |-> Metadata(best, blockSymbol, txSymbol),
               todo |-> DOMAIN lastAddressUtxos]
  /\ dbBatches' = NoBatches
  /\ genesisBlockHashUpdated' = FALSE
  /\ UNCHANGED <<db, meta, caches, genesisBlockHash, lastAddressSymbol, lookups>>

(* processBatchedUtxoLists, one address: its new outputs, appended to the  *)
(* list the database holds, after the other list writes of the batch.      *)
FlushList(a) ==
  LET s    == AddressSymbol(a)
      list == [coins |-> UtxoList(s).coins \o lastAddressUtxos[a], address |-> a]
  IN
  /\ pc \in FlushPc /\ a \in flush.todo
  /\ flush' = [flush EXCEPT !.ops["address-utxos"] = Put(@, s, list), !.todo = @ \ {a}]
  /\ UNCHANGED <<db, meta, dbBatches, caches, genesis, heights, symbols, worker, outside>>

(* One LevelDB batch; then the caches are cleared, whoever filled them in  *)
(* the meantime, and the new height may be served.                         *)
WriteBatches ==
  /\ pc \in FlushPc /\ flush.todo = {}
  /\ db' = [t \in Tables |-> Overlay(db[t], flush.ops[t])]
  /\ meta' = flush.meta
  /\ flush' = NoFlush
  /\ lastSeenBlockHashes' = EmptyMap
  /\ lastSeenTxHashes' = EmptyMap
  /\ lastSeenAddresses' = EmptyMap
  /\ lastSeenUtxos' = EmptyMap
  /\ lastAddressUtxos' = EmptyMap
  /\ safeLastBlockSymbol' = lastBlockSymbol
  /\ pc' = IF pc = "firstFlush" THEN "untx" ELSE "idle"
  /\ UNCHANGED <<dbBatches, genesis, bestBlockHash, lastBlockSymbol, symbols, job, outside>>

BatchIsFull ==
  \/ Cardinality(DOMAIN dbBatches["block-sym"]) >= BLOCK_BATCH_SIZE
  \/ Cardinality(DOMAIN dbBatches["tx-sym"]) >= TX_BATCH_SIZE
  \/ Cardinality(DOMAIN dbBatches["address-sym"]) >= ADDRESS_BATCH_SIZE

-----------------------------------------------------------------------------
(* initIndexer, and the same after a crash or an exit: everything comes    *)
(* from the database, counters the database does not hold from their       *)
(* defaults.  A best hash read back is a Buffer, not a string (`raw').     *)

NoJob == [block |-> Genesis, tx |-> 1, pos |-> 1, resolved |-> <<>>, minTxSymbol |-> None]

DbHeight == OrElse(meta.latestBlockSymbol, -1)
DbChain  == [i \in 1 .. DbHeight + 1 |-> db["sym-block"][i - 1]]

Init ==
  /\ db = [t \in Tables |-> EmptyMap]
  /\ meta = NoMetadata /\ flush = NoFlush
  /\ dbBatches = NoBatches
  /\ lastSeenBlockHashes = EmptyMap /\ lastSeenTxHashes = EmptyMap
  /\ lastSeenAddresses = EmptyMap /\ lastSeenUtxos = EmptyMap
  /\ lastAddressUtxos = EmptyMap
  /\ genesisBlockHash = None /\ genesisBlockHashUpdated = FALSE
  /\ bestBlockHash = [hash |-> None, raw |-> FALSE]
  /\ lastBlockSymbol = -1 /\ lastTxSymbol = -1
  /\ lastAddressSymbol = 0 /\ safeLastBlockSymbol = -1
  /\ workQueue = <<>> /\ remove = [b \in Block |-> FALSE]
  /\ pc = "idle" /\ job = NoJob
  /\ lookups = {}
  /\ synced = <<>> /\ depth = 0

Reboot ==
  /\ dbBatches' = NoBatches /\ flush' = NoFlush
  /\ lastSeenBlockHashes' = EmptyMap /\ lastSeenTxHashes' = EmptyMap
  /\ lastSeenAddresses' = EmptyMap /\ lastSeenUtxos' = EmptyMap
  /\ lastAddressUtxos' = EmptyMap
  /\ genesisBlockHash' = meta.genesisBlockHash /\ genesisBlockHashUpdated' = FALSE
  /\ bestBlockHash' = [hash |-> meta.bestBlockHash, raw |-> meta.bestBlockHash # None]
  /\ lastBlockSymbol' = DbHeight
  /\ lastTxSymbol' = OrElse(meta.latestTxSymbol, -1)
  /\ lastAddressSymbol' = OrElse(meta.latestAddressSymbol, 0)
  /\ safeLastBlockSymbol' = DbHeight
  /\ workQueue' = <<>> /\ remove' = [b \in Block |-> FALSE]
  /\ pc' = "idle" /\ job' = NoJob
  /\ lookups' = {}
  /\ synced' = DbChain /\ depth' = 0
  /\ UNCHANGED <<db, meta>>

(* The process dies anywhere between two steps and is started again.       *)
Crash == CrashAllowed /\ pc # "exited" /\ Reboot

(* After process.exit(1), whatever supervises the process starts it again. *)
Restart == pc = "exited" /\ Reboot

-----------------------------------------------------------------------------
(* The SDK's syncer (external): it emits the blocks of the node's chain in *)
(* order, and takes the last one back when the next block names another    *)
(* parent.  It remembers only blocks it emitted itself since the start, so *)
(* a branch switch below them goes unseen.                                 *)

(* handleBlock: both events of a block push the SAME cached object, so its *)
(* `remove' field is the one of the latest event.  The sync loop asks for  *)
(* no block while saveState runs.                                          *)
HandleBlock(b, removed) ==
  /\ pc \notin {"stateFlush", "exited"} /\ Len(workQueue) < MaxQueue
  /\ remove' = [remove EXCEPT ![b] = removed]
  /\ workQueue' = Append(workQueue, b)
  /\ UNCHANGED <<index, worker, lookups>>

Continues(b) ==
  IF synced = <<>> THEN b = Genesis ELSE Parent[b] = synced[Len(synced)]

BlockAdded(b) ==
  /\ Height[b] = Len(synced)
  /\ Continues(b) \/ depth = 0
  /\ synced' = Append(synced, b)
  /\ depth' = IF depth < PastBlocks THEN depth + 1 ELSE depth
  /\ HandleBlock(b, FALSE)

BlockRemoved(b) ==
  /\ depth > 0 /\ Len(synced) > 1
  /\ b = synced[Len(synced)]
  /\ \E next \in Block : Height[next] = Len(synced) /\ Parent[next] # b
  /\ synced' = SubSeq(synced, 1, Len(synced) - 1)
  /\ depth' = depth - 1
  /\ HandleBlock(b, TRUE)

-----------------------------------------------------------------------------
(* The worker: taking a block and adding it.                               *)

(* The genesis hash is learnt from the first block ever taken.             *)
Take ==
  /\ pc = "idle" /\ workQueue # <<>>
  /\ genesisBlockHash = None => Height[Head(workQueue)] = 0
  /\ genesisBlockHash' = IF genesisBlockHash = None THEN Head(workQueue)
                                                    ELSE genesisBlockHash
  /\ genesisBlockHashUpdated' = (genesisBlockHashUpdated \/ genesisBlockHash = None)
  /\ job' = [NoJob EXCEPT !.block = Head(workQueue)]
  /\ workQueue' = Tail(workQueue)
  /\ pc' = "taken"
  /\ UNCHANGED <<database, dbBatches, caches, heights, symbols, remove, lookups,
                 syncer>>

SkipBlock ==
  /\ pc = "taken" /\ ~remove[job.block]
  /\ BlockSymbol(job.block) # None
  /\ pc' = "idle" /\ job' = NoJob
  /\ UNCHANGED <<index, outside>>

(* A missing parent is only logged.  saveBlock moves lastBlockSymbol before *)
(* anything of the block is indexed.                                       *)
AddBlock ==
  LET b == job.block IN
  /\ pc = "taken" /\ ~remove[b]
  /\ BlockSymbol(b) = None
  /\ bestBlockHash' = [hash |-> b, raw |-> FALSE]
  /\ lastBlockSymbol' = Height[b]
  /\ lastSeenBlockHashes' = Put(lastSeenBlockHashes, b, Height[b])
  /\ dbBatches' = [dbBatches EXCEPT !["block-sym"] = Put(@, b, Height[b]),
                                    !["sym-block"] = Put(@, Height[b], b)]
  /\ pc' = "tx"
  /\ UNCHANGED <<database, lastSeenTxHashes, lastSeenAddresses, lastSeenUtxos,
                 lastAddressUtxos, genesis, safeLastBlockSymbol, symbols, job, outside>>

CurrentTx == Txs[job.block][job.tx]
HasTx     == job.tx <= Len(Txs[job.block])
NextTx    == [job EXCEPT !.tx = @ + 1, !.pos = 1, !.resolved = <<>>]

SkipTx ==
  /\ pc = "tx" /\ HasTx /\ TxSymbol(CurrentTx) # None
  /\ job' = NextTx
  /\ UNCHANGED <<index, pc, outside>>

AddTx ==
  LET s == lastTxSymbol + 1 IN
  /\ pc = "tx" /\ HasTx /\ TxSymbol(CurrentTx) = None
  /\ lastTxSymbol' = s
  /\ lastSeenTxHashes' = Put(lastSeenTxHashes, CurrentTx, s)
  /\ dbBatches' = [dbBatches EXCEPT !["tx-sym"] = Put(@, CurrentTx, s),
                                    !["sym-tx"] = Put(@, s, CurrentTx)]
  /\ pc' = "inputs"
  /\ UNCHANGED <<database, lastSeenBlockHashes, lastSeenAddresses, lastSeenUtxos,
                 lastAddressUtxos, genesis, heights, lastAddressSymbol, job, outside>>

HasInput     == job.pos <= Len(Vin[CurrentTx])
CurrentInput == Vin[CurrentTx][job.pos]

(* The record a spend writes over the one it found.                        *)
SpentBy(u, s, h) == [u EXCEPT !.spentIn = s, !.spentOn = h]

(* batchTransactionInputs and invalidateUtxo.  The cache remembers the      *)
(* SPENDING transaction's symbol beside the record.                        *)
SpendInput ==
  LET o == CurrentInput
      found == UtxoExists(o)
      spent == SpentBy(found.utxo, lastTxSymbol, Height[job.block])
  IN
  /\ pc = "inputs" /\ HasInput /\ found # None
  /\ dbBatches' = [dbBatches EXCEPT !["utxo"] = Put(@, found.key, spent)]
  /\ lastSeenUtxos' = Put(lastSeenUtxos, o, [txSymbol |-> lastTxSymbol, utxo |-> spent])
  /\ job' = [job EXCEPT !.pos = @ + 1]
  /\ UNCHANGED <<database, lastSeenBlockHashes, lastSeenTxHashes, lastSeenAddresses,
                 lastAddressUtxos, genesis, heights, symbols, pc, outside>>

(* Each output's address gets its symbol before any output is stored.      *)
Resolving == pc = "inputs" /\ ~HasInput /\ Len(job.resolved) < Len(Vout[CurrentTx])
NextOutputAddress == Vout[CurrentTx][Len(job.resolved) + 1]

ResolveAddress ==
  /\ Resolving
  /\ NextOutputAddress = NoAddr \/ AddressSymbol(NextOutputAddress) # None
  /\ job' = [job EXCEPT !.resolved =
               Append(@, IF NextOutputAddress = NoAddr THEN None
                                                       ELSE AddressSymbol(NextOutputAddress))]
  /\ UNCHANGED <<index, pc, outside>>

(* The address is neither cached nor stored: the worker awaits the database *)
(* and then names it, without looking again.                               *)
MissAddress ==
  /\ Resolving
  /\ NextOutputAddress # NoAddr /\ AddressSymbol(NextOutputAddress) = None
  /\ pc' = "allocate"
  /\ UNCHANGED <<index, job, outside>>

(* FAULTY: the counter is read and never moved.                             *)
FaultyNewAddressSymbol == lastAddressSymbol

NewAddressSymbol == lastAddressSymbol + 1

AllocateAddress(a) ==
  /\ lastAddressSymbol' = NewAddressSymbol
  /\ dbBatches' = [dbBatches EXCEPT !["address-sym"] = Put(@, a, NewAddressSymbol)]
  /\ lastSeenAddresses' = Put(lastSeenAddresses, a, NewAddressSymbol)
  /\ UNCHANGED <<database, lastSeenBlockHashes, lastSeenTxHashes, lastSeenUtxos,
                 lastAddressUtxos, genesis, heights, lastTxSymbol, events, syncer>>

NameAddress ==
  /\ pc = "allocate"
  /\ AllocateAddress(Vout[CurrentTx][Len(job.resolved) + 1])
  /\ job' = [job EXCEPT !.resolved = Append(@, NewAddressSymbol)]
  /\ pc' = "inputs"
  /\ UNCHANGED lookups

(* batchTransactionOutputs stores the outputs once every address has its   *)
(* symbol.                                                                 *)
BeginOutputs ==
  /\ pc = "inputs" /\ ~HasInput /\ Len(job.resolved) = Len(Vout[CurrentTx])
  /\ job' = [job EXCEPT !.pos = 1]
  /\ pc' = "outputs"
  /\ UNCHANGED <<index, outside>>

HasOutput == job.pos <= Len(Vout[CurrentTx])
CurrentOutput == <<CurrentTx, job.pos>>

(* FAULTY: outputs without an address are not stored.                       *)
FaultyStored(batch, key, u) == IF u.address = None THEN batch ELSE Put(batch, key, u)

Stored(batch, key, u) == Put(batch, key, u)

(* FAULTY: an address's new output replaces the ones waiting.               *)
FaultyListed(a, ref) == Put(lastAddressUtxos, a, <<ref>>)

(* batchUtxoAdditionToAddress.                                             *)
Listed(a, ref) ==
  Put(lastAddressUtxos, a,
      Append(IF a \in DOMAIN lastAddressUtxos THEN lastAddressUtxos[a] ELSE <<>>, ref))

CreateOutput ==
  LET ref == <<lastTxSymbol, job.pos>>
      a   == AddressOf(CurrentOutput)
      new == Utxo(job.resolved[job.pos], Height[job.block])
  IN
  /\ pc = "outputs" /\ HasOutput /\ CurrentOutput \notin DOMAIN lastSeenUtxos
  /\ dbBatches' = [dbBatches EXCEPT !["utxo"] = Stored(@, ref, new)]
  /\ lastSeenUtxos' = Put(lastSeenUtxos, CurrentOutput, Remembered(lastTxSymbol, new))
  /\ lastAddressUtxos' = IF a = NoAddr THEN lastAddressUtxos ELSE Listed(a, ref)
  /\ job' = [job EXCEPT !.pos = @ + 1]
  /\ UNCHANGED <<database, lastSeenBlockHashes, lastSeenTxHashes, lastSeenAddresses,
                 genesis, heights, symbols, pc, outside>>

FinishTx ==
  /\ pc = "outputs" /\ ~HasOutput
  /\ job' = NextTx
  /\ pc' = "tx"
  /\ UNCHANGED <<index, outside>>

(* processBatchesIfNeeded ends a block.                                    *)
FinishBlock ==
  /\ pc = "tx" /\ ~HasTx /\ ~BatchIsFull
  /\ pc' = "idle" /\ job' = NoJob
  /\ UNCHANGED <<index, outside>>

FinishBlockAndFlush ==
  /\ pc = "tx" /\ ~HasTx /\ BatchIsFull
  /\ TakeBatches(dbBatches, bestBlockHash, lastBlockSymbol, lastTxSymbol)
  /\ pc' = "blockFlush" /\ job' = NoJob
  /\ UNCHANGED <<heights, lastTxSymbol, events, syncer>>

-----------------------------------------------------------------------------
(* The worker: removing a block.  Everything is flushed first, so every    *)
(* read of the removal comes from the database; its writes stay in the     *)
(* batches until the second flush.                                         *)

BeginRemove ==
  LET b == job.block IN
  /\ pc = "taken" /\ remove[b]
  /\ BlockSymbol(b) # None /\ ParentSymbol(b) # None
  /\ TakeBatches(dbBatches, bestBlockHash, lastBlockSymbol, lastTxSymbol)
  /\ pc' = "firstFlush"
  /\ UNCHANGED <<heights, lastTxSymbol, job, events, syncer>>

MinSymbol(x, y) == IF x = None \/ y < x THEN y ELSE x

(* A transaction the index does not know is skipped.                       *)
RemoveTx ==
  LET s == TxSymbol(CurrentTx) IN
  /\ pc = "untx" /\ HasTx
  /\ job' = IF s = None THEN NextTx ELSE [job EXCEPT !.minTxSymbol = MinSymbol(@, s)]
  /\ pc' = IF s = None THEN "untx" ELSE "revalidate"
  /\ UNCHANGED <<index, outside>>

Revalidated(u) == [u EXCEPT !.spentIn = None, !.spentOn = None]

RevalidateInput ==
  LET found == UtxoExists(CurrentInput) IN
  /\ pc = "revalidate" /\ HasInput /\ found # None
  /\ dbBatches' = [dbBatches EXCEPT !["utxo"] = Put(@, found.key, Revalidated(found.utxo))]
  /\ job' = [job EXCEPT !.pos = @ + 1]
  /\ UNCHANGED <<database, caches, genesis, heights, symbols, pc, outside>>

EndRevalidation ==
  /\ pc = "revalidate" /\ ~HasInput
  /\ job' = [job EXCEPT !.pos = 1]
  /\ pc' = "unlist"
  /\ UNCHANGED <<index, outside>>

IsLastIndexOf(list, ref, i) ==
  list[i] = ref /\ \A j \in DOMAIN list : list[j] = ref => j <= i

(* FAULTY: the removed output stays in its address's list.                  *)
FaultyUnlisted(list, ref) == list

(* The list without the LAST entry of the output.                          *)
Unlisted(list, ref) ==
  IF \E i \in DOMAIN list : IsLastIndexOf(list, ref, i)
  THEN LET i == CHOOSE k \in DOMAIN list : IsLastIndexOf(list, ref, k)
       IN SubSeq(list, 1, i - 1) \o SubSeq(list, i + 1, Len(list))
  ELSE list

(* The list is read from the database, never from the batch, so two        *)
(* outputs to one address each take their own entry from the same list and *)
(* the later write wins.                                                   *)
WithoutOutput(batch, s, ref) ==
  Put(batch, s, [UtxoList(s) EXCEPT !.coins = Unlisted(@, ref)])

RemoveOutput ==
  LET a   == Vout[CurrentTx][job.pos]
      ref == <<TxSymbol(CurrentTx), job.pos>>
  IN
  /\ pc = "unlist" /\ HasOutput
  /\ dbBatches' = [dbBatches EXCEPT
       !["utxo"] = Put(@, ref, Deleted),
       !["address-utxos"] =
          IF a = NoAddr THEN @ ELSE WithoutOutput(@, AddressSymbol(a), ref)]
  /\ job' = [job EXCEPT !.pos = @ + 1]
  /\ UNCHANGED <<database, caches, genesis, heights, symbols, pc, outside>>

(* FAULTY: the transaction stays known after its outputs are gone.          *)
FaultyRemoveTxSymbol ==
  /\ pc = "unlist" /\ ~HasOutput
  /\ job' = NextTx
  /\ pc' = "untx"
  /\ UNCHANGED <<index, outside>>

RemoveTxSymbol ==
  /\ pc = "unlist" /\ ~HasOutput
  /\ dbBatches' = [dbBatches EXCEPT !["tx-sym"] = Put(@, CurrentTx, Deleted)]
  /\ job' = NextTx
  /\ pc' = "untx"
  /\ UNCHANGED <<database, caches, genesis, heights, symbols, outside>>

(* The counter falls back to below the block's lowest symbol.             *)
RecoveredTxSymbol ==
  IF job.minTxSymbol = None THEN lastTxSymbol ELSE job.minTxSymbol - 1

(* FAULTY: the removed block stays known.                                   *)
FaultyCommitRemove ==
  /\ pc = "untx" /\ ~HasTx
  /\ lastTxSymbol' = RecoveredTxSymbol
  /\ lastBlockSymbol' = ParentSymbol(job.block)
  /\ bestBlockHash' = [hash |-> Parent[job.block], raw |-> FALSE]
  /\ safeLastBlockSymbol' = lastBlockSymbol'
  /\ TakeBatches(dbBatches, bestBlockHash', lastBlockSymbol', lastTxSymbol')
  /\ pc' = "secondFlush" /\ job' = NoJob
  /\ UNCHANGED <<events, syncer>>

CommitRemove ==
  LET b == job.block IN
  /\ pc = "untx" /\ ~HasTx
  /\ lastTxSymbol' = RecoveredTxSymbol
  /\ lastBlockSymbol' = ParentSymbol(b)
  /\ bestBlockHash' = [hash |-> Parent[b], raw |-> FALSE]
  /\ safeLastBlockSymbol' = lastBlockSymbol'
  /\ TakeBatches([dbBatches EXCEPT !["block-sym"] = Put(@, b, Deleted)],
                 bestBlockHash', lastBlockSymbol', lastTxSymbol')
  /\ pc' = "secondFlush" /\ job' = NoJob
  /\ UNCHANGED <<events, syncer>>

-----------------------------------------------------------------------------
(* An error in the worker ends the process: a first block that is not the  *)
(* genesis block, a removal of a block (or onto a parent) the index does   *)
(* not know, an input without utxo, an output stored before.  The code     *)
(* would remove a genesis block, too, but the syncer never takes it back.  *)
(* It asks the node for a missing output of a KNOWN transaction before it  *)
(* gives up: NoMissingUtxo says that the worker never meets one.           *)
RefusesFirst == pc = "idle" /\ workQueue # <<>> /\ genesisBlockHash = None
                  /\ Height[Head(workQueue)] # 0
RefusesRemoval == /\ pc = "taken" /\ remove[job.block]
                  /\ BlockSymbol(job.block) = None \/ ParentSymbol(job.block) = None
MissesUtxo == pc \in {"inputs", "revalidate"} /\ HasInput /\ UtxoExists(CurrentInput) = None
SeenBefore == pc = "outputs" /\ HasOutput /\ CurrentOutput \in DOMAIN lastSeenUtxos

Exit ==
  /\ RefusesFirst \/ RefusesRemoval \/ MissesUtxo \/ SeenBefore
  /\ pc' = "exited"
  /\ UNCHANGED <<index, job, outside>>

-----------------------------------------------------------------------------
(* FAULTY: only a full batch is saved.                                      *)
FaultySaveState ==
  /\ pc = "idle" /\ workQueue = <<>> /\ lastBlockSymbol >= 0 /\ BatchIsFull
  /\ TakeBatches(dbBatches, bestBlockHash, lastBlockSymbol, lastTxSymbol)
  /\ pc' = "stateFlush"
  /\ UNCHANGED <<heights, lastTxSymbol, job, events, syncer>>

(* The sync loop saves once the worker is done (saveState), never before   *)
(* the first block: an empty index has no symbol to encode.                *)
SaveState ==
  /\ pc = "idle" /\ workQueue = <<>> /\ lastBlockSymbol >= 0
  /\ TakeBatches(dbBatches, bestBlockHash, lastBlockSymbol, lastTxSymbol)
  /\ pc' = "stateFlush"
  /\ UNCHANGED <<heights, lastTxSymbol, job, events, syncer>>

(* A request asks for an address.  An unknown one is named as if it had     *)
(* been seen on the chain: reads allocate symbols, too.                    *)
LookupMiss(a) ==
  /\ pc # "exited" /\ a \notin lookups /\ AddressSymbol(a) = None
  /\ lookups' = lookups \cup {a}
  /\ UNCHANGED <<index, worker, events, syncer>>

LookupName(a) ==
  /\ pc # "exited" /\ a \in lookups
  /\ AllocateAddress(a)
  /\ lookups' = lookups \ {a}
  /\ UNCHANGED worker

-----------------------------------------------------------------------------
Syncer == \E b \in Block : BlockAdded(b) \/ BlockRemoved(b)

Adding == \/ Take \/ SkipBlock \/ AddBlock \/ SkipTx \/ AddTx \/ SpendInput
          \/ ResolveAddress \/ MissAddress \/ NameAddress \/ BeginOutputs \/ CreateOutput
          \/ FinishTx \/ FinishBlock \/ FinishBlockAndFlush

Removing == \/ BeginRemove \/ RemoveTx \/ RevalidateInput \/ EndRevalidation
            \/ RemoveOutput \/ RemoveTxSymbol \/ CommitRemove

Flushing == WriteBatches \/ \E a \in flush.todo : FlushList(a)

Worker == Adding \/ Removing \/ Flushing \/ Exit

Requests == \E a \in QueryAddr : LookupMiss(a) \/ LookupName(a)

Next == Worker \/ SaveState \/ Syncer \/ Requests \/ Crash \/ Restart

Spec == Init /\ [][Next]_vars

(* The worker and the requests run on the event loop and always get their  *)
(* turn; the sync loop saves after every round; a process that exited is   *)
(* started again.  Nothing is assumed of the node, the syncer or crashes.  *)
Fairness ==
  /\ WF_vars(Worker) /\ WF_vars(SaveState) /\ WF_vars(Restart)
  /\ \A a \in QueryAddr : WF_vars(LookupName(a))

-----------------------------------------------------------------------------
(* What the index relies on its environment for.  The code ensures none of  *)
(* it; what is said of the index under a condition is false without it.    *)

(* The events the worker has not acted on yet.                              *)
Pending == IF pc = "taken" THEN <<job.block>> \o workQueue ELSE workQueue

(* A block that is announced again shares its `remove' field with its       *)
(* earlier event: that event, if it still waits, would be overtaken when   *)
(* another block's waits behind it.                                        *)
Overtakes(b) == \E i, j \in DOMAIN Pending : i < j /\ Pending[i] = b /\ Pending[j] # b

InTurn == \A b \in Block : BlockAdded(b) \/ BlockRemoved(b) => ~Overtakes(b)

(* The node switches no branch while the syncer remembers none of it.       *)
OnItsParent == \A b \in Block : BlockAdded(b) => Continues(b)

(* No request names an address during a flush, or is about to name one that *)
(* has been named since and that a flush now takes.                        *)
NamesKeepClear ==
  /\ pc \notin FlushPc /\ pc' \in FlushPc => lookups \cap DOMAIN dbBatches["address-sym"] = {}
  /\ pc \in FlushPc /\ pc' \in FlushPc => UNCHANGED lastAddressSymbol

EventsInOrder == InTurn /\ OnItsParent
Orderly       == EventsInOrder /\ NamesKeepClear

OrderlySpec == Init /\ [][Next /\ Orderly]_vars /\ Fairness

-----------------------------------------------------------------------------
(* Types.                                                                  *)

IsMap(f, K, V) == DOMAIN f \subseteq K /\ \A k \in DOMAIN f : f[k] \in V

OrNone(S) == S \cup {None}
Symbol    == Nat
UtxoKey   == Symbol \X (Nat \ {0})
UtxoRecord ==
  [address : OrNone(Nat), created : Nat, spentOn : OrNone(Nat), spentIn : OrNone(Nat),
   script : BOOLEAN]
SeenUtxo == [txSymbol : Symbol, utxo : UtxoRecord]

UtxoListRecord == [coins : Seq(UtxoKey), address : OrNone(Addr)]

(* Records are told from null, when utxoExists finds one or does not, and   *)
(* from the mark of a `del'.                                               *)
ASSUME SentinelsAreNoRecords ==
  /\ None \notin [key : UtxoKey, utxo : UtxoRecord]
  /\ Deleted \notin UtxoRecord /\ Deleted \notin UtxoListRecord

DbTypeOK ==
  /\ DOMAIN db = Tables
  /\ IsMap(db["block-sym"], Block, Nat)
  /\ IsMap(db["sym-block"], Nat, Block)
  /\ IsMap(db["tx-sym"], Tx, Symbol)
  /\ IsMap(db["sym-tx"], Symbol, Tx)
  /\ IsMap(db["utxo"], UtxoKey, UtxoRecord)
  /\ IsMap(db["address-utxos"], Nat, UtxoListRecord)
  /\ IsMap(db["address-sym"], Addr, Nat)

BatchesType(batches) ==
  /\ DOMAIN batches = Tables
  /\ IsMap(batches["block-sym"], Block, Nat \cup {Deleted})
  /\ IsMap(batches["sym-block"], Nat, Block)
  /\ IsMap(batches["tx-sym"], Tx, Symbol \cup {Deleted})
  /\ IsMap(batches["sym-tx"], Symbol, Tx)
  /\ IsMap(batches["utxo"], UtxoKey, UtxoRecord \cup {Deleted})
  /\ IsMap(batches["address-utxos"], Nat, UtxoListRecord)
  /\ IsMap(batches["address-sym"], Addr, Nat)

MetadataType ==
  [bestBlockHash : OrNone(Block), latestBlockSymbol : OrNone(Nat),
   latestTxSymbol : OrNone(Nat \cup {-1}), latestAddressSymbol : OrNone(Nat),
   genesisBlockHash : OrNone(Block)]

MetaTypeOK == meta \in MetadataType

FlushTypeOK ==
  /\ flush = [ops |-> flush.ops, meta |-> flush.meta, todo |-> flush.todo]
  /\ BatchesType(flush.ops)
  /\ flush.meta \in MetadataType
  /\ flush.todo \subseteq DOMAIN lastAddressUtxos

CacheTypeOK ==
  /\ IsMap(lastSeenBlockHashes, Block, Nat)
  /\ IsMap(lastSeenTxHashes, Tx, Symbol)
  /\ IsMap(lastSeenAddresses, Addr, Nat)
  /\ IsMap(lastSeenUtxos, Outpoint, SeenUtxo)
  /\ IsMap(lastAddressUtxos, Addr, Seq(UtxoKey))

FieldTypeOK ==
  /\ genesisBlockHash \in OrNone(Block) /\ genesisBlockHashUpdated \in BOOLEAN
  /\ bestBlockHash \in [hash : OrNone(Block), raw : BOOLEAN]
  /\ lastBlockSymbol \in Nat \cup {-1} /\ safeLastBlockSymbol \in Nat \cup {-1}
  /\ lastTxSymbol \in Nat \cup {-1} /\ lastAddressSymbol \in Nat

JobType ==
  [block : Block, tx : Nat \ {0}, pos : Nat \ {0}, resolved : Seq(OrNone(Nat)),
   minTxSymbol : OrNone(Nat)]

WorkerTypeOK ==
  /\ workQueue \in Seq(Block) /\ remove \in [Block -> BOOLEAN]
  /\ pc \in {"idle", "taken", "tx", "inputs", "allocate", "outputs", "untx", "revalidate",
             "unlist", "exited"} \cup FlushPc
  /\ job \in JobType
  /\ lookups \in SUBSET QueryAddr
  /\ synced \in Seq(Block) /\ depth \in Nat

(* Every variable keeps its shape: in particular the flush always finds     *)
(* encodable symbols, and no cache or table ever holds a null.             *)
TypeOK ==
  /\ DbTypeOK /\ BatchesType(dbBatches) /\ FlushTypeOK /\ MetaTypeOK
  /\ CacheTypeOK /\ FieldTypeOK /\ WorkerTypeOK

-----------------------------------------------------------------------------
(* What the index stands for.                                              *)

(* A table as the next write leaves it, and as the flush after that would.  *)
Written(t) == Overlay(db[t], flush.ops[t])
View(t)    == Overlay(Written(t), dbBatches[t])

(* The chain in memory: what is indexed completely, flushed or not.         *)
AddingBlock == pc \in {"tx", "inputs", "allocate", "outputs"}
IndexedHeight == IF AddingBlock THEN lastBlockSymbol - 1 ELSE lastBlockSymbol
IndexedChain ==
  IF pc = "exited" THEN DbChain
                   ELSE [i \in 1 .. IndexedHeight + 1 |-> View("sym-block")[i - 1]]

IsSetOf(seq, S) ==
  /\ {seq[i] : i \in DOMAIN seq} = S
  /\ \A i, j \in DOMAIN seq : seq[i] = seq[j] => i = j

DbCoins(a) ==
  IF Answerable(a)
  THEN {AccountCoins(a, DbHeight)[i] : i \in DOMAIN AccountCoins(a, DbHeight)} ELSE {}

(* The database answers every request for an address at every height it    *)
(* holds with exactly the coins the ledger gives the address on the stored *)
(* chain up to there, each once: whatever was flushed when, whatever was   *)
(* removed by a reorg, spent later, lost in a crash or named by a request. *)
(* An address without outputs is answered with an error or nothing.        *)
AccountCoinsMatchLedger ==
  \A a \in Addr : \A h \in 0 .. DbHeight :
    IF Used(DbChain, a)
    THEN Answerable(a) /\ IsSetOf(AccountCoins(a, h), CoinsOf(Prefix(DbChain, h), a))
    ELSE Answerable(a) => DOMAIN AccountCoins(a, h) = {}

(* A live transaction has a symbol of its own and no live symbol is above   *)
(* the counter: the counter that a removal turns back never hands out a    *)
(* symbol some output in the database is still stored under.               *)
TxSymbolsUnique ==
  LET live == View("tx-sym") IN
  \A t \in DOMAIN live :
    /\ live[t] <= lastTxSymbol
    /\ \A u \in DOMAIN live : live[u] = live[t] => u = t

(* No two addresses ever share a symbol, on disk or in memory, and none is  *)
(* above the counter a restart resumes from: requests and the worker name  *)
(* addresses in any interleaving, and a crash loses names and counter alike. *)
AddressSymbolsUnique ==
  /\ LET named == View("address-sym") IN
     \A a \in DOMAIN named :
       /\ named[a] <= lastAddressSymbol
       /\ \A b \in DOMAIN named : named[b] = named[a] => a = b
  /\ \A a \in DOMAIN db["address-sym"] :
       /\ meta.latestAddressSymbol # None
       /\ db["address-sym"][a] <= meta.latestAddressSymbol

(* Outside a removal, reading a block or a transaction through the caches   *)
(* gives what the database will hold once all that waits is written, even  *)
(* while a flush has taken the batches and not yet cleared the caches; and  *)
(* a cached address symbol is never an outdated one.                       *)
ReadsSeePendingWrites ==
  pc \notin {"untx", "revalidate", "unlist", "secondFlush", "exited"} =>
    /\ \A b \in Block : BlockSymbol(b) = Get(View("block-sym"), b)
    /\ \A t \in Tx : TxSymbol(t) = Get(View("tx-sym"), t)
    /\ \A a \in DOMAIN lastSeenAddresses : AddressSymbol(a) = Get(View("address-sym"), a)

(* An address that has a symbol on disk keeps it: a second one would hide   *)
(* the outputs listed under the first.                                     *)
SymbolsAreKept ==
  [][\A a \in DOMAIN db["address-sym"] :
       db'["address-sym"][a] = db["address-sym"][a]]_vars

(* The list stored under a symbol stays the list of one address: whatever   *)
(* requests, flushes, removals and crashes come between, the symbol is     *)
(* never given to another address once an output is filed under it.        *)
OwnersStay ==
  [][\A s \in (DOMAIN db["address-utxos"] \cap DOMAIN db'["address-utxos"]) \ {None} :
       LET owner == db["address-utxos"][s].address IN
       owner # None => db'["address-utxos"][s].address = owner]_vars

(* A height announced as safe is the height the database stands for, and    *)
(* every height up to it has its block there: no request is ever answered  *)
(* for a block whose data only memory holds, whichever of the two flushes  *)
(* of a removal, batch limits and crashes came last.  Only the write that  *)
(* commits a removal is announced before it is done.                       *)
SafeHeightIsDurable ==
  /\ pc # "secondFlush" => safeLastBlockSymbol = DbHeight
  /\ \A h \in 0 .. safeLastBlockSymbol :
       h \in DOMAIN db["sym-block"] /\ Height[db["sym-block"][h]] = h

(* The two block tables are inverse up to the stored height: a block that   *)
(* was removed or never flushed is not known by its hash either.           *)
BlockTablesAgree ==
  LET stored == 0 .. DbHeight IN
  /\ \A h \in stored : Get(db["block-sym"], db["sym-block"][h]) = h
  /\ \A b \in DOMAIN db["block-sym"] :
       Height[b] \in stored /\ db["sym-block"][Height[b]] = b

(* Between two blocks the utxo table holds exactly the outputs of the       *)
(* transactions the index knows: nothing is missing, so an input never     *)
(* needs recoverMissingUtxo, and a removal leaves nothing behind.          *)
KnownUtxos ==
  UNION {{<<View("tx-sym")[t], n>> : n \in DOMAIN Vout[t]} : t \in DOMAIN View("tx-sym")}

NoMissingUtxo == pc \in {"idle", "taken"} => KnownUtxos \subseteq DOMAIN View("utxo")
NoOrphanUtxo  == pc \in {"idle", "taken"} => DOMAIN View("utxo") \subseteq KnownUtxos
UtxosAreExact == NoMissingUtxo /\ NoOrphanUtxo

(* The worker finds each output it spends or revalidates, and no output it  *)
(* is about to store is in its cache already: on a valid chain, neither the *)
(* cache that files a spent output under its spender nor what a removal     *)
(* left behind ever costs it a record.                                      *)
WorkerFindsOutputs == ~MissesUtxo /\ ~SeenBefore

(* An output that can be spent has its record with its script, which a     *)
(* transaction that spends it is made from.                                *)
CoinsKeepTheirScript ==
  \A o \in DOMAIN db["utxo"] :
    db["utxo"][o].spentOn = None /\ db["utxo"][o].address # 0 => db["utxo"][o].script

(* Once the queue is worked off, the index stands for the chain the syncer  *)
(* announced, and the sync loop asks for the block after it.               *)
IdleIndexIsSynced ==
  pc = "idle" /\ workQueue = <<>> =>
    /\ lastBlockSymbol = Len(synced) - 1
    /\ IndexedChain = synced

(* The indexed blocks form one chain: each names the one below as its       *)
(* parent.                                                                 *)
IndexedChainIsLinked == Linked(IndexedChain)

(* The indexer survives every sequence of events of the syncer.             *)
NeverExits == pc # "exited"

(* When the syncer is quiet and the process stays up, everything it         *)
(* announced ends up on disk and is announced as safe.                     *)
Settled ==
  /\ pc \in {"idle", "stateFlush"} /\ workQueue = <<>>
  /\ synced # <<>> => safeLastBlockSymbol = Len(synced) - 1 /\ DbChain = synced

SettlesWhenQuiet == <>[][~(Syncer \/ Crash)]_vars => <>[]Settled

-----------------------------------------------------------------------------
(* The indexer implements the abstract index: in memory the indexed chain, *)
(* on disk the stored one, and the stored answers are the ledger's.        *)
Abstract == INSTANCE UtxoIndex WITH
  indexed <- IndexedChain,
  durable <- DbChain,
  coins   <- [a \in Addr |-> DbCoins(a)]

ImplementsUtxoIndex == Abstract!Spec
=============================================================================
