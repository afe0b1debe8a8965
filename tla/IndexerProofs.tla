--------------------------- MODULE IndexerProofs ----------------------------
(***************************************************************************)
(* Proofs about Indexer, for every ledger and every value of its bounds.   *)
(*                                                                         *)
(* None of the properties is inductive by itself.  The inductive invariant *)
(* IInv adds what the worker knows at each of its steps (WorkerInv), what   *)
(* a flush carries (FlushInv), what the caches hold (CacheInv), that the   *)
(* outputs of a known transaction have named addresses (NamedInv), that    *)
(* names are distinct in each layer a crash or a flush may leave behind    *)
(* (NamesInv), and that heights never have a gap, in the tables, the       *)
(* batches, the queue and the syncer (HeightInv, QueueInv).                *)
(***************************************************************************)
EXTENDS Indexer, SequenceTheorems, TLAPS

AddTxPc   == {"inputs", "allocate", "outputs"}
RemovalPc == {"untx", "revalidate", "unlist"}

(* The worker is inside the block it works on.                             *)
WorkerInv ==
  /\ pc \in AddTxPc \cup {"revalidate", "unlist"} => HasTx
  /\ pc \in AddTxPc => lastTxSymbol \in Nat /\ Len(job.resolved) <= Len(Vout[CurrentTx])
  /\ pc \in AddTxPc \cup {"tx"} => lastBlockSymbol \in Nat
  /\ pc = "allocate" =>
       Len(job.resolved) < Len(Vout[CurrentTx]) /\ NextOutputAddress # NoAddr
  /\ pc = "outputs" => Len(job.resolved) = Len(Vout[CurrentTx])
  /\ pc \in {"taken", "tx"} => job.resolved = <<>>
  /\ pc \in RemovalPc \cup {"firstFlush"} => ParentSymbol(job.block) # None
  /\ pc \in {"revalidate", "unlist"} => TxSymbol(CurrentTx) # None

(* While a flush is under way nothing but names collects in the batches,    *)
(* and what it writes is the state in memory.                              *)
BlockTables == {"block-sym", "sym-block", "tx-sym"}

FlushInv ==
  /\ pc \notin FlushPc => flush = NoFlush
  /\ pc \in FlushPc =>
       /\ \A t \in BlockTables : dbBatches[t] = EmptyMap
       /\ flush.meta.latestBlockSymbol = lastBlockSymbol /\ lastBlockSymbol \in Nat

(* The caches stand for what is not written yet, and are empty during a     *)
(* removal.                                                                *)
CacheInv ==
  /\ ReadsSeePendingWrites
  /\ pc \in RemovalPc \cup {"secondFlush"} =>
       lastSeenBlockHashes = EmptyMap /\ lastSeenTxHashes = EmptyMap
  /\ \A a \in DOMAIN lastSeenAddresses :
       /\ a \in DOMAIN View("address-sym")
       /\ lastSeenAddresses[a] = View("address-sym")[a]

Named == DOMAIN lastSeenAddresses \cup DOMAIN db["address-sym"]
Pays(t) == {Vout[t][n] : n \in DOMAIN Vout[t]} \ {NoAddr}

(* Whoever a known transaction pays has a symbol: on disk if it is on disk, *)
(* in the flush or on disk if it is in the flush.                          *)
NamedInv ==
  /\ \A t \in DOMAIN db["tx-sym"] : Pays(t) \subseteq DOMAIN db["address-sym"]
  /\ \A t \in DOMAIN Written("tx-sym") : Pays(t) \subseteq DOMAIN Written("address-sym")
  /\ pc # "exited" => \A t \in DOMAIN dbBatches["tx-sym"] :
       \/ dbBatches["tx-sym"][t] = Deleted
       \/ pc \in {"inputs", "allocate"} /\ t = CurrentTx
       \/ Pays(t) \subseteq Named
  /\ pc \in AddTxPc => \A i \in DOMAIN job.resolved :
       Vout[CurrentTx][i] \in Named \cup {NoAddr}
  /\ DOMAIN lastAddressUtxos \subseteq Named

(* Names are distinct on disk, in what a flush makes of the disk, and in    *)
(* memory, each below the counter that goes with it.                       *)
OneToOne(f) == \A a, b \in DOMAIN f : f[a] = f[b] => a = b

NamesInv ==
  /\ AddressSymbolsUnique
  /\ OneToOne(db["address-sym"]) /\ OneToOne(Written("address-sym"))
  /\ pc \in FlushPc =>
       /\ flush.meta.latestAddressSymbol # None
       /\ \A a \in DOMAIN Written("address-sym") :
            Written("address-sym")[a] <= flush.meta.latestAddressSymbol

(* Heights without a gap, on disk and in memory.                            *)
DbHeights == DOMAIN db["sym-block"]
Heights   == DOMAIN View("sym-block")
TakenHeight == IF pc = "taken" THEN {Height[job.block]} ELSE {}
QueuedHeights(n) == {Height[workQueue[j]] : j \in 1 .. n}

Gapless(blocks, known) ==
  /\ \A h \in DOMAIN blocks : Height[blocks[h]] = h
  /\ \A b \in DOMAIN known :
       known[b] = Height[b] /\ 0 .. Height[b] \subseteq DOMAIN blocks

HeightInv ==
  /\ IF pc = "secondFlush"
     THEN safeLastBlockSymbol = lastBlockSymbol /\ 0 .. lastBlockSymbol \subseteq DbHeights
     ELSE safeLastBlockSymbol = DbHeight
  /\ 0 .. DbHeight \subseteq DbHeights
  /\ DbHeight = -1 => DOMAIN db["block-sym"] = {}
  /\ Gapless(db["sym-block"], db["block-sym"])
  /\ 0 .. lastBlockSymbol \subseteq Heights
  /\ lastBlockSymbol = -1 => DOMAIN View("block-sym") = {}
  /\ Gapless(View("sym-block"), View("block-sym"))

QueueInv ==
  pc # "exited" =>
    /\ pc = "taken" => 0 .. Height[job.block] - 1 \subseteq Heights
    /\ \A i \in DOMAIN workQueue :
         0 .. Height[workQueue[i]] - 1
           \subseteq Heights \cup TakenHeight \cup QueuedHeights(i - 1)
    /\ 0 .. Len(synced) - 1
         \subseteq Heights \cup TakenHeight \cup QueuedHeights(Len(workQueue))
    /\ \A i \in DOMAIN synced : Height[synced[i]] = i - 1

IInv ==
  /\ TypeOK /\ WorkerInv /\ FlushInv /\ CacheInv /\ NamedInv /\ NamesInv
  /\ HeightInv /\ QueueInv

-----------------------------------------------------------------------------
(* Maps.                                                                   *)

LEMMA EmptyMapType ==
  ASSUME NEW K, NEW V
  PROVE  IsMap(EmptyMap, K, V)
  BY DEF IsMap, EmptyMap

LEMMA PutType ==
  ASSUME NEW K, NEW V, NEW f, IsMap(f, K, V), NEW k \in K, NEW v \in V
  PROVE  IsMap(Put(f, k, v), K, V)
  BY DEF IsMap, Put, Merge

LEMMA OverlayType ==
  ASSUME NEW K, NEW V, NEW f, NEW ops, IsMap(f, K, V), IsMap(ops, K, V \cup {Deleted})
  PROVE  IsMap(Overlay(f, ops), K, V)
  BY DEF IsMap, Overlay

LEMMA SubtypeMap ==
  ASSUME NEW K, NEW V, NEW W, NEW f, IsMap(f, K, V), V \subseteq W
  PROVE  IsMap(f, K, W)
  BY DEF IsMap

LEMMA OverlayKeys ==
  ASSUME NEW f, NEW ops
  PROVE  /\ \A x : x \in DOMAIN Overlay(f, ops) <=>
                 \/ x \in DOMAIN ops /\ ops[x] # Deleted
                 \/ x \in DOMAIN f /\ x \notin DOMAIN ops
         /\ \A x \in DOMAIN Overlay(f, ops) :
               Overlay(f, ops)[x] = IF x \in DOMAIN ops THEN ops[x] ELSE f[x]
  BY DEF Overlay

LEMMA OverlayEmpty ==
  ASSUME NEW f
  PROVE  /\ DOMAIN Overlay(f, EmptyMap) = DOMAIN f
         /\ \A x \in DOMAIN f : Overlay(f, EmptyMap)[x] = f[x]
  BY DEF Overlay, EmptyMap

(* Two layers are one when a flush moves between them.                      *)
LEMMA OverlayTwice ==
  ASSUME NEW f, NEW ops
  PROVE  /\ Overlay(Overlay(f, EmptyMap), ops) = Overlay(f, ops)
         /\ Overlay(Overlay(f, ops), EmptyMap) = Overlay(f, ops)
  <1>1. DOMAIN EmptyMap = {}
    BY DEF EmptyMap
  <1>2. /\ DOMAIN Overlay(f, EmptyMap) = DOMAIN f
        /\ \A x \in DOMAIN f : Overlay(f, EmptyMap)[x] = f[x]
    BY OverlayEmpty
  <1> DEFINE g == Overlay(f, EmptyMap)
             r == Overlay(f, ops)
  <1>3. Overlay(g, ops) = r
    <2> HIDE DEF g
    <2>1. {x \in DOMAIN g \cup DOMAIN ops : x \in DOMAIN ops => ops[x] # Deleted}
            = {x \in DOMAIN f \cup DOMAIN ops : x \in DOMAIN ops => ops[x] # Deleted}
      BY <1>2 DEF g
    <2> QED
      BY <1>2, <2>1 DEF Overlay, g
  <1>4. Overlay(r, EmptyMap) = r
    <2>1. r = [x \in DOMAIN r |-> r[x]]
      BY DEF Overlay
    <2> HIDE DEF r
    <2>2. {x \in DOMAIN r \cup DOMAIN EmptyMap : x \in DOMAIN EmptyMap => EmptyMap[x] # Deleted}
            = DOMAIN r
      BY <1>1
    <2> QED
      BY <1>1, <2>1, <2>2 DEF Overlay
  <1> QED
    BY <1>3, <1>4

(* One more put in the batch.                                               *)
LEMMA OverlayPut ==
  ASSUME NEW f, NEW ops, NEW k, NEW v, v # Deleted
  PROVE  /\ \A x : x \in DOMAIN Overlay(f, Put(ops, k, v)) <=> x = k \/ x \in DOMAIN Overlay(f, ops)
         /\ Overlay(f, Put(ops, k, v))[k] = v
         /\ \A x \in DOMAIN Overlay(f, ops) : x # k =>
              Overlay(f, Put(ops, k, v))[x] = Overlay(f, ops)[x]
  <1> DEFINE new == Put(ops, k, v)
  <1>1. /\ DOMAIN new = DOMAIN ops \cup {k} /\ new[k] = v
        /\ \A x \in DOMAIN ops : x # k => new[x] = ops[x]
    BY DEF Put, Merge
  <1> HIDE DEF new
  <1>2. \A x : x \in DOMAIN Overlay(f, new) <=> x = k \/ x \in DOMAIN Overlay(f, ops)
    BY <1>1 DEF Overlay
  <1>3. /\ Overlay(f, new)[k] = v
        /\ \A x \in DOMAIN Overlay(f, ops) : x # k => Overlay(f, new)[x] = Overlay(f, ops)[x]
    BY <1>1, <1>2 DEF Overlay
  <1> QED
    BY <1>2, <1>3 DEF new

(* One more del.                                                            *)
LEMMA OverlayDelete ==
  ASSUME NEW f, NEW ops, NEW k
  PROVE  \A x \in DOMAIN Overlay(f, Put(ops, k, Deleted)) :
           /\ x \in DOMAIN Overlay(f, ops)
           /\ Overlay(f, Put(ops, k, Deleted))[x] = Overlay(f, ops)[x]
  <1> DEFINE new == Put(ops, k, Deleted)
  <1>1. /\ DOMAIN new = DOMAIN ops \cup {k} /\ new[k] = Deleted
        /\ \A x \in DOMAIN ops : x # k => new[x] = ops[x]
    BY DEF Put, Merge
  <1> HIDE DEF new
  <1>2. \A x \in DOMAIN Overlay(f, new) :
          x \in DOMAIN Overlay(f, ops) /\ Overlay(f, new)[x] = Overlay(f, ops)[x]
    BY <1>1 DEF Overlay
  <1> QED
    BY <1>2 DEF new

-----------------------------------------------------------------------------
(* Types: what the operators of a step return.                             *)

LEMMA LedgerFacts ==
  /\ \A b \in Block : Height[b] \in Nat /\ Parent[b] \in Block /\ Txs[b] \in Seq(Tx)
  /\ \A t \in Tx : Vin[t] \in Seq(Outpoint) /\ Vout[t] \in Seq(Addr \cup {NoAddr})
  BY LedgerTypes

LEMMA SymbolTypes ==
  ASSUME TypeOK
  PROVE  /\ \A b \in Block : BlockSymbol(b) \in OrNone(Nat)
         /\ \A b \in Block : ParentSymbol(b) \in OrNone(Nat)
         /\ \A t \in Tx : TxSymbol(t) \in OrNone(Nat)
         /\ \A a \in Addr : AddressSymbol(a) \in OrNone(Nat)
         /\ \A a \in Addr : AddressSymbol(a) # None <=> a \in Named
  BY LedgerFacts, SentinelsAreNoValues
     DEF TypeOK, DbTypeOK, CacheTypeOK, BlockSymbol, ParentSymbol, TxSymbol, AddressSymbol,
         Get, IsMap, OrNone, Symbol, Named

LEMMA UtxoListType ==
  ASSUME TypeOK, NEW s
  PROVE  UtxoList(s) \in UtxoListRecord
  <1>1. EmptyUtxoList \in UtxoListRecord
    BY DEF EmptyUtxoList, UtxoListRecord, OrNone
  <1> QED
    BY <1>1 DEF TypeOK, DbTypeOK, IsMap, UtxoList

LEMMA UtxoExistsType ==
  ASSUME TypeOK, NEW o \in Outpoint, UtxoExists(o) # None
  PROVE  UtxoExists(o).key \in UtxoKey /\ UtxoExists(o).utxo \in UtxoRecord
  <1>1. CASE o \in DOMAIN lastSeenUtxos
    <2>1. lastSeenUtxos[o] \in SeenUtxo
      BY <1>1 DEF TypeOK, CacheTypeOK, IsMap
    <2> QED
      BY <1>1, <2>1 DEF UtxoExists, SeenUtxo, UtxoKey, Outpoint, Symbol
  <1>2. CASE o \notin DOMAIN lastSeenUtxos
    <2>1. UtxoExists(o) = UtxoExistsInDb(o)
      BY <1>2 DEF UtxoExists
    <2>2. /\ <<TxSymbol(o[1]), o[2]>> \in DOMAIN db["utxo"]
          /\ UtxoExists(o) = [key |-> <<TxSymbol(o[1]), o[2]>>,
                              utxo |-> db["utxo"][<<TxSymbol(o[1]), o[2]>>]]
      BY <2>1 DEF UtxoExistsInDb
    <2> QED
      BY <2>2 DEF TypeOK, DbTypeOK, IsMap
  <1> QED
    BY <1>1, <1>2

(* The transaction and the block the worker is at.                         *)
LEMMA JobTypes ==
  ASSUME TypeOK
  PROVE  /\ job.block \in Block /\ job.tx \in Nat \ {0} /\ job.pos \in Nat \ {0}
         /\ job.resolved \in Seq(OrNone(Nat)) /\ job.minTxSymbol \in OrNone(Nat)
         /\ Height[job.block] \in Nat
         /\ HasTx => CurrentTx \in Tx
         /\ HasTx /\ HasInput => CurrentInput \in Outpoint
         /\ HasTx /\ HasOutput => /\ Vout[CurrentTx][job.pos] \in Addr \cup {NoAddr}
                                  /\ job.pos \in DOMAIN Vout[CurrentTx]
         /\ HasTx /\ Len(job.resolved) < Len(Vout[CurrentTx]) =>
               NextOutputAddress \in Addr \cup {NoAddr}
  <1>1. /\ job.block \in Block /\ job.tx \in Nat \ {0} /\ job.pos \in Nat \ {0}
        /\ job.resolved \in Seq(OrNone(Nat)) /\ job.minTxSymbol \in OrNone(Nat)
        /\ Height[job.block] \in Nat /\ Txs[job.block] \in Seq(Tx)
    BY LedgerFacts DEF TypeOK, WorkerTypeOK, JobType
  <1>2. HasTx => CurrentTx \in Tx
    BY <1>1 DEF HasTx, CurrentTx
  <1>3. HasTx => Vin[CurrentTx] \in Seq(Outpoint) /\ Vout[CurrentTx] \in Seq(Addr \cup {NoAddr})
    BY <1>2, LedgerFacts
  <1>4. HasTx /\ HasInput => CurrentInput \in Outpoint
    BY <1>1, <1>3 DEF HasInput, CurrentInput
  <1>5. HasTx /\ HasOutput => /\ Vout[CurrentTx][job.pos] \in Addr \cup {NoAddr}
                             /\ job.pos \in DOMAIN Vout[CurrentTx]
    BY <1>1, <1>3 DEF HasOutput
  <1>6. HasTx /\ Len(job.resolved) < Len(Vout[CurrentTx]) =>
               NextOutputAddress \in Addr \cup {NoAddr}
    BY <1>1, <1>3 DEF NextOutputAddress
  <1> QED
    BY <1>1, <1>2, <1>4, <1>5, <1>6

-----------------------------------------------------------------------------
(* Types: a flush.                                                         *)

FlushBegins == FinishBlockAndFlush \/ BeginRemove \/ CommitRemove \/ SaveState

(* There is always a height to write.                                      *)
LEMMA FlushHeight ==
  ASSUME TypeOK, WorkerInv, CacheInv, HeightInv, FlushBegins
  PROVE  lastBlockSymbol' \in Nat
  <1>1. CASE FinishBlockAndFlush
    BY <1>1 DEF FinishBlockAndFlush, WorkerInv, heights
  <1>2. CASE SaveState
    BY <1>2 DEF SaveState, heights, TypeOK, FieldTypeOK
  <1>3. CASE BeginRemove
    <2>1. BlockSymbol(job.block) # None /\ job.block \in Block /\ pc = "taken"
      BY <1>3, JobTypes DEF BeginRemove
    <2>2. BlockSymbol(job.block) = Get(View("block-sym"), job.block)
      BY <2>1 DEF CacheInv, ReadsSeePendingWrites
    <2>3. lastBlockSymbol # -1
      BY <2>1, <2>2 DEF Get, HeightInv
    <2> QED
      BY <1>3, <2>3 DEF BeginRemove, heights, TypeOK, FieldTypeOK
  <1>4. CASE CommitRemove
    <2>1. job.block \in Block
      BY JobTypes
    <2> QED
      BY <1>4, <2>1, SymbolTypes DEF CommitRemove, WorkerInv, RemovalPc, OrNone
  <1> QED
    BY <1>1, <1>2, <1>3, <1>4 DEF FlushBegins

LEMMA TakeBatchesTypes ==
  ASSUME TypeOK,
         NEW batches, BatchesType(batches),
         NEW best \in [hash : OrNone(Block), raw : BOOLEAN],
         NEW blockSymbol \in Nat, NEW txSymbol \in Nat \cup {-1},
         TakeBatches(batches, best, blockSymbol, txSymbol)
  PROVE  /\ DbTypeOK' /\ BatchesType(dbBatches)' /\ FlushTypeOK' /\ MetaTypeOK' /\ CacheTypeOK'
         /\ genesisBlockHash' \in OrNone(Block) /\ genesisBlockHashUpdated' \in BOOLEAN
         /\ lastAddressSymbol' \in Nat /\ lookups' \in SUBSET QueryAddr
  <1>1. Metadata(best, blockSymbol, txSymbol) \in MetadataType
    BY DEF Metadata, MetadataType, MetaTypeOK, TypeOK, FieldTypeOK, OrNone
  <1>2. FlushTypeOK'
    BY <1>1 DEF TakeBatches, FlushTypeOK, caches
  <1>3. BatchesType(NoBatches)
    BY EmptyMapType DEF BatchesType, NoBatches, Tables
  <1> QED
    BY <1>2, <1>3
       DEF TakeBatches, caches, TypeOK, DbTypeOK, MetaTypeOK, CacheTypeOK, FieldTypeOK,
           WorkerTypeOK

(* An address that waits for its list has a symbol.                         *)
LEMMA ListedAddress ==
  ASSUME TypeOK, DOMAIN lastAddressUtxos \subseteq Named, NEW a \in DOMAIN lastAddressUtxos
  PROVE  a \in Addr /\ AddressSymbol(a) \in Nat /\ lastAddressUtxos[a] \in Seq(UtxoKey)
  <1>1. a \in Addr /\ lastAddressUtxos[a] \in Seq(UtxoKey)
    BY DEF TypeOK, CacheTypeOK, IsMap
  <1> QED
    BY <1>1, SymbolTypes DEF OrNone

LEMMA FlushListTypes ==
  ASSUME TypeOK, NamedInv, NEW a \in flush.todo, FlushList(a)
  PROVE  TypeOK'
  <1> DEFINE s    == AddressSymbol(a)
             list == [coins |-> UtxoList(s).coins \o lastAddressUtxos[a], address |-> a]
             lists == Put(flush.ops["address-utxos"], s, list)
  <1>1. a \in Addr /\ s \in Nat /\ lastAddressUtxos[a] \in Seq(UtxoKey)
    BY ListedAddress DEF NamedInv, TypeOK, FlushTypeOK
  <1>2. list \in UtxoListRecord
    <2>1. UtxoList(s).coins \in Seq(UtxoKey)
      BY UtxoListType DEF UtxoListRecord
    <2>2. UtxoList(s).coins \o lastAddressUtxos[a] \in Seq(UtxoKey)
      BY <1>1, <2>1, ConcatProperties
    <2> QED
      BY <1>1, <2>2 DEF UtxoListRecord, OrNone
  <1>3. IsMap(lists, Nat, UtxoListRecord)
    <2>1. IsMap(flush.ops["address-utxos"], Nat, UtxoListRecord)
      BY DEF TypeOK, FlushTypeOK, BatchesType
    <2> HIDE DEF s, list
    <2> QED
      BY <1>1, <1>2, <2>1, PutType
  <1>4. flush' = [flush EXCEPT !.ops["address-utxos"] = lists, !.todo = @ \ {a}]
    BY DEF FlushList
  <1> HIDE DEF lists
  <1>5. /\ flush' = [ops |-> flush'.ops, meta |-> flush'.meta, todo |-> flush'.todo]
        /\ flush'.ops = [flush.ops EXCEPT !["address-utxos"] = lists]
        /\ flush'.meta = flush.meta /\ flush'.todo = flush.todo \ {a}
    BY <1>4 DEF TypeOK, FlushTypeOK
  <1>6. BatchesType(flush.ops)
    BY DEF TypeOK, FlushTypeOK
  <1>7. BatchesType(flush'.ops)
    BY <1>3, <1>5, <1>6 DEF BatchesType, Tables
  <1>8. lastAddressUtxos' = lastAddressUtxos
    BY DEF FlushList, caches
  <1>9. FlushTypeOK'
    BY <1>5, <1>7, <1>8 DEF TypeOK, FlushTypeOK
  <1> QED
    BY <1>9
       DEF FlushList, caches, genesis, heights, symbols, worker, outside, events, syncer,
           TypeOK, DbTypeOK, MetaTypeOK, CacheTypeOK, FieldTypeOK, WorkerTypeOK

LEMMA WriteBatchesTypes ==
  ASSUME TypeOK, WriteBatches
  PROVE  TypeOK'
  <1> DEFINE ops == flush.ops
  <1>1. BatchesType(ops) /\ flush.meta \in MetadataType
    BY DEF TypeOK, FlushTypeOK
  <1>2. db' = [t \in Tables |-> Overlay(db[t], ops[t])]
    BY DEF WriteBatches
  <1> HIDE DEF ops
  <1>3. /\ IsMap(ops["sym-block"], Nat, Block \cup {Deleted})
        /\ IsMap(ops["sym-tx"], Symbol, Tx \cup {Deleted})
        /\ IsMap(ops["address-utxos"], Nat, UtxoListRecord \cup {Deleted})
        /\ IsMap(ops["address-sym"], Addr, Nat \cup {Deleted})
    BY <1>1 DEF BatchesType, IsMap
  <1>4. \A t \in Tables : db'[t] = Overlay(db[t], ops[t])
    BY <1>2
  <1>5. /\ IsMap(db'["block-sym"], Block, Nat) /\ IsMap(db'["sym-block"], Nat, Block)
        /\ IsMap(db'["tx-sym"], Tx, Symbol) /\ IsMap(db'["sym-tx"], Symbol, Tx)
    BY <1>1, <1>3, <1>4, OverlayType DEF TypeOK, DbTypeOK, BatchesType, Tables
  <1>6. /\ IsMap(db'["utxo"], UtxoKey, UtxoRecord) /\ IsMap(db'["address-sym"], Addr, Nat)
        /\ IsMap(db'["address-utxos"], Nat, UtxoListRecord)
    BY <1>1, <1>3, <1>4, OverlayType DEF TypeOK, DbTypeOK, BatchesType, Tables
  <1>7. DbTypeOK'
    BY <1>2, <1>5, <1>6 DEF DbTypeOK
  <1>8. MetaTypeOK' /\ CacheTypeOK' /\ BatchesType(dbBatches)'
    BY <1>1, EmptyMapType DEF WriteBatches, MetaTypeOK, CacheTypeOK, TypeOK, BatchesType
  <1>9. FlushTypeOK'
    <2>1. BatchesType(NoBatches) /\ NoMetadata \in MetadataType
      BY EmptyMapType DEF BatchesType, NoBatches, Tables, NoMetadata, MetadataType, OrNone
    <2> QED
      BY <2>1 DEF WriteBatches, NoFlush, FlushTypeOK
  <1>10. FieldTypeOK'
    BY DEF WriteBatches, TypeOK, FieldTypeOK, genesis, symbols
  <1>11. WorkerTypeOK'
    BY DEF WriteBatches, TypeOK, WorkerTypeOK, outside, events, syncer
  <1> QED
    BY <1>7, <1>8, <1>9, <1>10, <1>11 DEF TypeOK

-----------------------------------------------------------------------------
(* Types: what each step of the worker leaves behind.                      *)

LEMMA JobMoves ==
  ASSUME job \in JobType
  PROVE  /\ job \in JobType /\ NoJob \in JobType /\ NextTx \in JobType
         /\ [job EXCEPT !.pos = @ + 1] \in JobType /\ [job EXCEPT !.pos = 1] \in JobType
         /\ \A b \in Block : [NoJob EXCEPT !.block = b] \in JobType
         /\ \A s \in OrNone(Nat) : [job EXCEPT !.resolved = Append(@, s)] \in JobType
         /\ \A s \in OrNone(Nat) : [job EXCEPT !.minTxSymbol = s] \in JobType
  <1>1. job \in JobType
    OBVIOUS
  <1>2. /\ job.pos + 1 \in Nat \ {0} /\ job.tx + 1 \in Nat \ {0}
        /\ job.resolved \in Seq(OrNone(Nat))
    BY <1>1 DEF JobType
  <1>3. NoJob \in JobType /\ \A b \in Block : [NoJob EXCEPT !.block = b] \in JobType
    <2>1. Genesis \in Block
      BY LedgerTypes
    <2>2. NoJob \in JobType
      BY <2>1 DEF NoJob, JobType, OrNone
    <2>3. ASSUME NEW b \in Block
          PROVE  [NoJob EXCEPT !.block = b] \in JobType
      BY <2>2 DEF JobType
    <2> QED
      BY <2>2, <2>3
  <1>4. NextTx \in JobType
    <2>1. [job EXCEPT !.tx = @ + 1] \in JobType
      BY <1>1, <1>2 DEF JobType
    <2>2. \A j \in JobType : [j EXCEPT !.pos = 1] \in JobType
      BY DEF JobType
    <2>3. ASSUME NEW j \in JobType, NEW r \in Seq(OrNone(Nat))
          PROVE  [j EXCEPT !.resolved = r] \in JobType
      BY DEF JobType
    <2>4. <<>> \in Seq(OrNone(Nat))
      OBVIOUS
    <2>5. NextTx = [[[job EXCEPT !.tx = @ + 1] EXCEPT !.pos = 1] EXCEPT !.resolved = <<>>]
      BY DEF NextTx
    <2> QED
      BY <2>1, <2>2, <2>3, <2>4, <2>5
  <1>5. [job EXCEPT !.pos = @ + 1] \in JobType /\ [job EXCEPT !.pos = 1] \in JobType
    BY <1>1, <1>2 DEF JobType
  <1>6. \A s \in OrNone(Nat) : [job EXCEPT !.resolved = Append(@, s)] \in JobType
    BY <1>1, <1>2, AppendProperties DEF JobType
  <1>7. \A s \in OrNone(Nat) : [job EXCEPT !.minTxSymbol = s] \in JobType
    BY <1>1 DEF JobType
  <1> QED
    BY <1>1, <1>3, <1>4, <1>5, <1>6, <1>7

LEMMA JobUpdates ==
  ASSUME TypeOK
  PROVE  /\ job \in JobType /\ NoJob \in JobType /\ NextTx \in JobType
         /\ [job EXCEPT !.pos = @ + 1] \in JobType /\ [job EXCEPT !.pos = 1] \in JobType
         /\ \A b \in Block : [NoJob EXCEPT !.block = b] \in JobType
         /\ \A s \in OrNone(Nat) : [job EXCEPT !.resolved = Append(@, s)] \in JobType
         /\ \A s \in OrNone(Nat) : [job EXCEPT !.minTxSymbol = s] \in JobType
  <1>1. job \in JobType
    BY DEF TypeOK, WorkerTypeOK, JobType
  <1> QED
    BY <1>1, JobMoves

LEMMA IndexFrame ==
  ASSUME TypeOK, UNCHANGED index, WorkerTypeOK'
  PROVE  TypeOK'
  BY DEF index, database, caches, genesis, heights, symbols, TypeOK, DbTypeOK, BatchesType,
         FlushTypeOK, MetaTypeOK, CacheTypeOK, FieldTypeOK

LEMMA NextTxFields ==
  ASSUME TypeOK
  PROVE  NextTx.block = job.block /\ NextTx.resolved = <<>>
  BY JobUpdates DEF NextTx, JobType

LEMMA AddingTypes ==
  ASSUME TypeOK, WorkerInv, NamedInv, Adding, ~FlushBegins
  PROVE  TypeOK'
  <1> USE DEF TypeOK
  <1>1. CASE Take
    <2>1. /\ Head(workQueue) \in Block /\ Tail(workQueue) \in Seq(Block)
      BY <1>1 DEF Take, WorkerTypeOK
    <2>2. WorkerTypeOK'
      BY <1>1, <2>1, JobUpdates DEF Take, WorkerTypeOK, syncer
    <2>3. FieldTypeOK'
      BY <1>1, <2>1 DEF Take, FieldTypeOK, heights, symbols, OrNone
    <2> QED
      BY <1>1, <2>2, <2>3
         DEF Take, DbTypeOK, BatchesType, FlushTypeOK, MetaTypeOK, CacheTypeOK, database, caches
  <1>2. CASE SkipBlock
    BY <1>2, IndexFrame, JobUpdates
       DEF SkipBlock, outside, syncer, events, WorkerTypeOK
  <1>3. CASE AddBlock
    <2>1. job.block \in Block /\ Height[job.block] \in Nat
      BY JobTypes
    <2>2. BatchesType(dbBatches)'
      BY <1>3, <2>1, PutType DEF AddBlock, BatchesType, Tables
    <2>3. CacheTypeOK'
      BY <1>3, <2>1, PutType DEF AddBlock, CacheTypeOK
    <2>4. FieldTypeOK'
      BY <1>3, <2>1 DEF AddBlock, FieldTypeOK, genesis, symbols, OrNone
    <2> QED
      BY <1>3, <2>2, <2>3, <2>4
         DEF AddBlock, database, outside, events, syncer, DbTypeOK, FlushTypeOK, MetaTypeOK, WorkerTypeOK
  <1>4. CASE SkipTx \/ FinishTx
    BY <1>4, IndexFrame, JobUpdates
       DEF SkipTx, FinishTx, outside, syncer, events, WorkerTypeOK
  <1>5. CASE AddTx
    <2>1. CurrentTx \in Tx /\ lastTxSymbol + 1 \in Nat
      BY <1>5, JobTypes DEF AddTx, FieldTypeOK
    <2>2. BatchesType(dbBatches)'
      BY <1>5, <2>1, PutType DEF AddTx, BatchesType, Tables, Symbol
    <2>3. CacheTypeOK'
      BY <1>5, <2>1, PutType DEF AddTx, CacheTypeOK, Symbol
    <2>4. FieldTypeOK'
      BY <1>5, <2>1 DEF AddTx, FieldTypeOK, genesis, heights, OrNone
    <2> QED
      BY <1>5, <2>2, <2>3, <2>4
         DEF AddTx, database, outside, events, syncer, DbTypeOK, FlushTypeOK, MetaTypeOK, WorkerTypeOK
  <1>6. CASE SpendInput
    <2> DEFINE found == UtxoExists(CurrentInput)
               spent == SpentBy(found.utxo, lastTxSymbol, Height[job.block])
    <2>1. /\ CurrentInput \in Outpoint /\ Height[job.block] \in Nat /\ lastTxSymbol \in Nat
          /\ job.pos \in Nat \ {0}
      BY <1>6, JobTypes DEF SpendInput, WorkerInv, AddTxPc
    <2>2. found.key \in UtxoKey /\ found.utxo \in UtxoRecord
      BY <1>6, <2>1, UtxoExistsType DEF SpendInput
    <2>3. spent \in UtxoRecord
      BY <2>1, <2>2 DEF SpentBy, UtxoRecord, OrNone
    <2>4. [txSymbol |-> lastTxSymbol, utxo |-> spent] \in SeenUtxo
      BY <2>1, <2>3 DEF SeenUtxo, Symbol
    <2>5. BatchesType(dbBatches)'
      <3>1. IsMap(Put(dbBatches["utxo"], found.key, spent), UtxoKey, UtxoRecord \cup {Deleted})
        BY <2>2, <2>3, PutType DEF BatchesType
      <3> QED
        BY <1>6, <3>1 DEF SpendInput, BatchesType, Tables
    <2>6. CacheTypeOK'
      <3>1. IsMap(Put(lastSeenUtxos, CurrentInput, [txSymbol |-> lastTxSymbol, utxo |-> spent]),
                  Outpoint, SeenUtxo)
        BY <2>1, <2>4, PutType DEF CacheTypeOK
      <3> QED
        BY <1>6, <3>1 DEF SpendInput, CacheTypeOK
    <2>7. WorkerTypeOK'
      BY <1>6, JobUpdates DEF SpendInput, WorkerTypeOK, outside, events, syncer
    <2> QED
      BY <1>6, <2>5, <2>6, <2>7
         DEF SpendInput, database, genesis, heights, symbols, DbTypeOK, FlushTypeOK, MetaTypeOK,
             FieldTypeOK
  <1>7. CASE ResolveAddress
    <2>1. HasTx /\ NextOutputAddress \in Addr \cup {NoAddr}
      BY <1>7, JobTypes DEF ResolveAddress, Resolving, WorkerInv, AddTxPc
    <2> DEFINE s == IF NextOutputAddress = NoAddr THEN None ELSE AddressSymbol(NextOutputAddress)
    <2>2. s \in OrNone(Nat)
      BY <2>1, SymbolTypes DEF OrNone
    <2>3. job' \in JobType /\ WorkerTypeOK'
      <3>1. job' = [job EXCEPT !.resolved = Append(@, s)]
        BY <1>7 DEF ResolveAddress
      <3>2. job' \in JobType
        BY <2>2, <3>1, JobUpdates
      <3> QED
        BY <1>7, <3>2 DEF ResolveAddress, WorkerTypeOK, outside, events, syncer
    <2> QED
      BY <1>7, <2>3
         DEF ResolveAddress, index, genesis, heights, symbols, database,
             caches, DbTypeOK, BatchesType, FlushTypeOK, MetaTypeOK, CacheTypeOK, FieldTypeOK
  <1>8. CASE MissAddress
    BY <1>8, IndexFrame
       DEF MissAddress, outside, syncer, events, WorkerTypeOK
  <1>9. CASE NameAddress
    <2>1. NextOutputAddress \in Addr /\ NewAddressSymbol \in Nat
      BY <1>9, JobTypes
         DEF NameAddress, WorkerInv, AddTxPc, NewAddressSymbol, FieldTypeOK
    <2>2. AllocateAddress(NextOutputAddress)
      BY <1>9 DEF NameAddress, NextOutputAddress
    <2>3. BatchesType(dbBatches)'
      BY <2>1, <2>2, PutType DEF AllocateAddress, BatchesType, Tables
    <2>4. CacheTypeOK'
      BY <2>1, <2>2, PutType DEF AllocateAddress, CacheTypeOK
    <2>5. job' \in JobType
      BY <1>9, <2>1, JobUpdates DEF NameAddress, OrNone
    <2>6. WorkerTypeOK'
      BY <1>9, <2>2, <2>5 DEF NameAddress, AllocateAddress, WorkerTypeOK, events, syncer
    <2> QED
      BY <2>1, <2>2, <2>3, <2>4, <2>6
         DEF AllocateAddress, database, genesis, heights, DbTypeOK, FlushTypeOK, MetaTypeOK, FieldTypeOK
  <1>10. CASE BeginOutputs
    BY <1>10, IndexFrame, JobUpdates
       DEF BeginOutputs, outside, syncer, events, WorkerTypeOK
  <1>11. CASE CreateOutput
    <2> DEFINE ref == <<lastTxSymbol, job.pos>>
               a   == AddressOf(CurrentOutput)
               new == Utxo(job.resolved[job.pos], Height[job.block])
    <2>1. /\ HasTx /\ CurrentTx \in Tx /\ job.pos \in Nat \ {0} /\ Height[job.block] \in Nat
          /\ lastTxSymbol \in Nat /\ job.pos \in DOMAIN Vout[CurrentTx]
          /\ Vout[CurrentTx][job.pos] \in Addr \cup {NoAddr}
      BY <1>11, JobTypes DEF CreateOutput, WorkerInv, AddTxPc
    <2>2. a = Vout[CurrentTx][job.pos]
      BY DEF AddressOf, CurrentOutput
    <2>3. CurrentOutput \in Outpoint /\ ref \in UtxoKey
      BY <2>1 DEF CurrentOutput, Outpoint, UtxoKey, Symbol
    <2>4. job.resolved[job.pos] \in OrNone(Nat)
      <3>1. job.pos \in 1 .. Len(job.resolved) /\ job.resolved \in Seq(OrNone(Nat))
        BY <1>11, <2>1, JobTypes DEF CreateOutput, WorkerInv, HasOutput
      <3> QED
        BY <3>1
    <2>5. new \in UtxoRecord
      BY <2>1, <2>4 DEF Utxo, UtxoRecord, OrNone
    <2>6. Remembered(lastTxSymbol, new) \in SeenUtxo
      BY <2>1, <2>5 DEF Remembered, SeenUtxo, UtxoRecord, Symbol
    <2>7. BatchesType(dbBatches)'
      <3>1. IsMap(Put(dbBatches["utxo"], ref, new), UtxoKey, UtxoRecord \cup {Deleted})
        BY <2>3, <2>5, PutType DEF BatchesType
      <3> QED
        BY <1>11, <3>1 DEF CreateOutput, Stored, BatchesType, Tables
    <2>8. IsMap(lastAddressUtxos', Addr, Seq(UtxoKey))
      <3>1. CASE a = NoAddr
        BY <1>11, <3>1 DEF CreateOutput, CacheTypeOK
      <3>2. CASE a # NoAddr
        <4> DEFINE old == IF a \in DOMAIN lastAddressUtxos THEN lastAddressUtxos[a] ELSE <<>>
        <4>1. a \in Addr
          BY <2>1, <2>2, <3>2
        <4>2. old \in Seq(UtxoKey)
          BY DEF CacheTypeOK, IsMap
        <4>3. Append(old, ref) \in Seq(UtxoKey)
          BY <2>3, <4>2, AppendProperties
        <4>4. IsMap(Put(lastAddressUtxos, a, Append(old, ref)), Addr, Seq(UtxoKey))
          BY <4>1, <4>3, PutType DEF CacheTypeOK
        <4> QED
          BY <1>11, <3>2, <4>4 DEF CreateOutput, Listed
      <3> QED
        BY <3>1, <3>2
    <2>9. CacheTypeOK'
      <3>1. IsMap(Put(lastSeenUtxos, CurrentOutput, Remembered(lastTxSymbol, new)),
                  Outpoint, SeenUtxo)
        BY <2>3, <2>6, PutType DEF CacheTypeOK
      <3> QED
        BY <1>11, <2>8, <3>1 DEF CreateOutput, CacheTypeOK
    <2>10. WorkerTypeOK'
      BY <1>11, JobUpdates DEF CreateOutput, WorkerTypeOK, outside, events, syncer
    <2>11. FlushTypeOK'
      <3>1. DOMAIN lastAddressUtxos \subseteq DOMAIN lastAddressUtxos'
        BY <1>11 DEF CreateOutput, Listed, Put, Merge
      <3>2. flush' = flush
        BY <1>11 DEF CreateOutput, database
      <3> QED
        BY <3>1, <3>2 DEF FlushTypeOK
    <2> QED
      BY <1>11, <2>7, <2>9, <2>10, <2>11
         DEF CreateOutput, database, genesis, heights, symbols, DbTypeOK, MetaTypeOK, FieldTypeOK
  <1>12. CASE FinishBlock
    BY <1>12, IndexFrame, JobUpdates
       DEF FinishBlock, outside, syncer, events, WorkerTypeOK
  <1> QED
    BY <1>1, <1>2, <1>3, <1>4, <1>5, <1>6, <1>7, <1>8, <1>9, <1>10, <1>11, <1>12
       DEF Adding, FlushBegins

LEMMA UnlistedType ==
  ASSUME NEW S, NEW list \in Seq(S), NEW ref
  PROVE  Unlisted(list, ref) \in Seq(S)
  <1>1. CASE \E i \in DOMAIN list : IsLastIndexOf(list, ref, i)
    <2> DEFINE i == CHOOSE k \in DOMAIN list : IsLastIndexOf(list, ref, k)
    <2>1. i \in 1 .. Len(list)
      BY <1>1
    <2> HIDE DEF i
    <2>2. /\ \A k \in 1 .. i - 1 : list[k] \in S
          /\ \A k \in i + 1 .. Len(list) : list[k] \in S
          /\ i - 1 \in Int /\ i + 1 \in Int /\ Len(list) \in Int
      BY <2>1
    <2>3. SubSeq(list, 1, i - 1) \in Seq(S) /\ SubSeq(list, i + 1, Len(list)) \in Seq(S)
      BY <2>2, SubSeqProperties
    <2> QED
      BY <1>1, <2>3, ConcatProperties DEF Unlisted, i
  <1>2. CASE ~\E i \in DOMAIN list : IsLastIndexOf(list, ref, i)
    BY <1>2 DEF Unlisted
  <1> QED
    BY <1>1, <1>2

(* What a removed output's address is read from.                           *)
LEMMA RemovedAddress ==
  ASSUME TypeOK, WorkerInv, CacheInv, NamedInv, pc = "unlist", HasOutput
  PROVE  /\ TxSymbol(CurrentTx) \in Nat
         /\ \/ Vout[CurrentTx][job.pos] = NoAddr
            \/ AddressSymbol(Vout[CurrentTx][job.pos]) \in Nat
  <1> DEFINE a == Vout[CurrentTx][job.pos]
  <1>1. HasTx /\ CurrentTx \in Tx /\ TxSymbol(CurrentTx) # None
    BY JobTypes DEF WorkerInv
  <1>2. a \in Addr \cup {NoAddr} /\ job.pos \in DOMAIN Vout[CurrentTx]
    BY <1>1, JobTypes
  <1>3. CurrentTx \in DOMAIN db["tx-sym"]
    BY <1>1 DEF CacheInv, RemovalPc, TxSymbol, EmptyMap, Get
  <1>4. a # NoAddr => a \in DOMAIN db["address-sym"]
    BY <1>2, <1>3 DEF NamedInv, Pays
  <1> QED
    BY <1>1, <1>2, <1>4, SymbolTypes DEF Named, OrNone

LEMMA RemovingTypes ==
  ASSUME TypeOK, WorkerInv, CacheInv, NamedInv, Removing, ~FlushBegins
  PROVE  TypeOK'
  <1> USE DEF TypeOK
  <1>1. CASE RemoveTx
    <2>1. TxSymbol(CurrentTx) # None =>
            MinSymbol(job.minTxSymbol, TxSymbol(CurrentTx)) \in OrNone(Nat)
      BY <1>1, JobTypes, SymbolTypes DEF RemoveTx, MinSymbol, OrNone
    <2>2. job' \in JobType
      BY <1>1, <2>1, JobUpdates DEF RemoveTx
    <2> QED
      BY <1>1, <2>2, IndexFrame
       DEF RemoveTx, outside, syncer, events, WorkerTypeOK
  <1>2. CASE RevalidateInput
    <2> DEFINE found == UtxoExists(CurrentInput)
    <2>1. CurrentInput \in Outpoint
      BY <1>2, JobTypes DEF RevalidateInput, WorkerInv
    <2>2. found.key \in UtxoKey /\ found.utxo \in UtxoRecord
      BY <1>2, <2>1, UtxoExistsType DEF RevalidateInput
    <2>3. Revalidated(found.utxo) \in UtxoRecord
      BY <2>2 DEF Revalidated, UtxoRecord, OrNone
    <2>4. IsMap(Put(dbBatches["utxo"], found.key, Revalidated(found.utxo)),
                UtxoKey, UtxoRecord \cup {Deleted})
      BY <2>2, <2>3, PutType DEF BatchesType
    <2>5. BatchesType(dbBatches)'
      BY <1>2, <2>4 DEF RevalidateInput, BatchesType, Tables
    <2> QED
      BY <1>2, <2>5, JobUpdates
         DEF RevalidateInput, database, caches, genesis, heights, symbols, outside, events,
             syncer, DbTypeOK, FlushTypeOK, MetaTypeOK, CacheTypeOK, FieldTypeOK, WorkerTypeOK
  <1>3. CASE EndRevalidation
    BY <1>3, IndexFrame, JobUpdates
       DEF EndRevalidation, outside, syncer, events, WorkerTypeOK
  <1>4. CASE RemoveOutput
    <2> DEFINE a == Vout[CurrentTx][job.pos]
               s == AddressSymbol(a)
               ref == <<TxSymbol(CurrentTx), job.pos>>
    <2>1. ref \in UtxoKey /\ (a # NoAddr => s \in Nat)
      BY <1>4, JobTypes, RemovedAddress DEF RemoveOutput, UtxoKey, Symbol
    <2>2. IsMap(Put(dbBatches["utxo"], ref, Deleted), UtxoKey, UtxoRecord \cup {Deleted})
      BY <2>1, PutType DEF BatchesType
    <2>3. [UtxoList(s) EXCEPT !.coins = Unlisted(@, ref)] \in UtxoListRecord
      <3>1. UtxoList(s) \in UtxoListRecord
        BY UtxoListType
      <3>2. Unlisted(UtxoList(s).coins, ref) \in Seq(UtxoKey)
        BY <3>1, UnlistedType DEF UtxoListRecord
      <3> QED
        BY <3>1, <3>2 DEF UtxoListRecord
    <2>4. a # NoAddr =>
            IsMap(WithoutOutput(dbBatches["address-utxos"], s, ref), Nat, UtxoListRecord)
      BY <2>1, <2>3, PutType DEF BatchesType, WithoutOutput
    <2>5. BatchesType(dbBatches)'
      BY <1>4, <2>2, <2>4 DEF RemoveOutput, BatchesType, Tables
    <2> QED
      BY <1>4, <2>5, JobUpdates
         DEF RemoveOutput, database, caches, genesis, heights, symbols, outside, events,
             syncer, DbTypeOK, FlushTypeOK, MetaTypeOK, CacheTypeOK, FieldTypeOK, WorkerTypeOK
  <1>5. CASE RemoveTxSymbol
    <2>1. CurrentTx \in Tx
      BY <1>5, JobTypes DEF RemoveTxSymbol, WorkerInv
    <2>2. IsMap(Put(dbBatches["tx-sym"], CurrentTx, Deleted), Tx, Symbol \cup {Deleted})
      BY <2>1, PutType DEF BatchesType
    <2>3. BatchesType(dbBatches)'
      BY <1>5, <2>2 DEF RemoveTxSymbol, BatchesType, Tables
    <2> QED
      BY <1>5, <2>3, JobUpdates
         DEF RemoveTxSymbol, database, caches, genesis, heights, symbols, outside, events,
             syncer, DbTypeOK, FlushTypeOK, MetaTypeOK, CacheTypeOK, FieldTypeOK, WorkerTypeOK
  <1> QED
    BY <1>1, <1>2, <1>3, <1>4, <1>5 DEF Removing, FlushBegins

LEMMA FlushBeginsTypes ==
  ASSUME TypeOK, WorkerInv, CacheInv, HeightInv, FlushBegins
  PROVE  TypeOK'
  <1> USE DEF TypeOK
  <1> DEFINE Flushed ==
               /\ DbTypeOK' /\ BatchesType(dbBatches)' /\ FlushTypeOK' /\ MetaTypeOK' /\ CacheTypeOK'
               /\ genesisBlockHash' \in OrNone(Block) /\ genesisBlockHashUpdated' \in BOOLEAN
               /\ lastAddressSymbol' \in Nat /\ lookups' \in SUBSET QueryAddr
  <1>1. lastBlockSymbol' \in Nat
    BY FlushHeight
  <1>2. CASE FinishBlockAndFlush \/ BeginRemove \/ SaveState
    <2>1. TakeBatches(dbBatches, bestBlockHash, lastBlockSymbol, lastTxSymbol)
      BY <1>2 DEF FinishBlockAndFlush, BeginRemove, SaveState
    <2>2. UNCHANGED <<heights, lastTxSymbol, events, syncer>>
      BY <1>2 DEF FinishBlockAndFlush, BeginRemove, SaveState
    <2>3. Flushed
      BY <1>1, <2>1, <2>2, TakeBatchesTypes DEF FieldTypeOK, heights
    <2>4. pc' \in FlushPc /\ job' \in JobType
      BY <1>2, JobUpdates DEF FinishBlockAndFlush, BeginRemove, SaveState, FlushPc
    <2> QED
      BY <2>2, <2>3, <2>4 DEF heights, events, syncer, FieldTypeOK, WorkerTypeOK
  <1>3. CASE CommitRemove
    <2> DEFINE batches == [dbBatches EXCEPT !["block-sym"] = Put(@, job.block, Deleted)]
    <2>1. job.block \in Block /\ Parent[job.block] \in Block
      BY JobTypes, LedgerFacts
    <2>2. lastTxSymbol' \in Nat \cup {-1}
      BY <1>3, JobTypes DEF CommitRemove, RecoveredTxSymbol, FieldTypeOK, OrNone
    <2>3. bestBlockHash' \in [hash : OrNone(Block), raw : BOOLEAN]
      BY <1>3, <2>1 DEF CommitRemove, OrNone
    <2>4. BatchesType(batches)
      <3>1. IsMap(Put(dbBatches["block-sym"], job.block, Deleted), Block, Nat \cup {Deleted})
        BY <2>1, PutType DEF BatchesType
      <3> QED
        BY <3>1 DEF BatchesType, Tables
    <2>5. TakeBatches(batches, bestBlockHash', lastBlockSymbol', lastTxSymbol')
      BY <1>3 DEF CommitRemove
    <2>6. Flushed
      <3> HIDE DEF batches
      <3> QED
        BY <1>1, <2>2, <2>3, <2>4, <2>5, TakeBatchesTypes
    <2>7. /\ safeLastBlockSymbol' = lastBlockSymbol' /\ pc' \in FlushPc /\ job' \in JobType
          /\ UNCHANGED <<events, syncer>>
      BY <1>3, JobUpdates DEF CommitRemove, FlushPc
    <2> QED
      BY <1>1, <2>2, <2>3, <2>6, <2>7 DEF events, syncer, FieldTypeOK, WorkerTypeOK
  <1> QED
    BY <1>2, <1>3 DEF FlushBegins

LEMMA DbChainType ==
  ASSUME TypeOK, HeightInv
  PROVE  /\ DbHeight \in Nat \cup {-1}
         /\ DbChain \in Seq(Block) /\ Len(DbChain) = DbHeight + 1
         /\ \A i \in 1 .. DbHeight + 1 : DbChain[i] = db["sym-block"][i - 1]
  <1>1. DbHeight \in Nat \cup {-1}
    BY SentinelsAreNoValues DEF TypeOK, MetaTypeOK, MetadataType, DbHeight, OrElse, OrNone
  <1>2. \A h \in 0 .. DbHeight : db["sym-block"][h] \in Block
    BY <1>1 DEF HeightInv, DbHeights, TypeOK, DbTypeOK, IsMap
  <1>3. \A i \in 1 .. DbHeight + 1 : i - 1 \in 0 .. DbHeight
    BY <1>1
  <1>4. DbHeight + 1 \in Nat
    BY <1>1
  <1> QED
    BY <1>1, <1>2, <1>3, <1>4 DEF DbChain

LEMMA RebootTypes ==
  ASSUME TypeOK, HeightInv, Reboot
  PROVE  TypeOK'
  <1>1. DbTypeOK' /\ MetaTypeOK'
    BY DEF Reboot, database, TypeOK, DbTypeOK, MetaTypeOK
  <1>2. BatchesType(dbBatches)' /\ CacheTypeOK'
    BY EmptyMapType DEF Reboot, BatchesType, CacheTypeOK, NoBatches, Tables
  <1>3. FieldTypeOK'
    <2>1. /\ meta.bestBlockHash \in OrNone(Block) /\ meta.genesisBlockHash \in OrNone(Block)
          /\ OrElse(meta.latestTxSymbol, -1) \in Nat \cup {-1}
          /\ OrElse(meta.latestAddressSymbol, 0) \in Nat
      BY DEF TypeOK, MetaTypeOK, MetadataType, OrElse, OrNone
    <2> QED
      BY <2>1, DbChainType DEF Reboot, FieldTypeOK, OrNone
  <1>4. WorkerTypeOK'
    BY DbChainType, JobUpdates DEF Reboot, WorkerTypeOK
  <1>5. FlushTypeOK'
    <2>1. BatchesType(NoBatches) /\ NoMetadata \in MetadataType
      BY EmptyMapType DEF BatchesType, NoBatches, Tables, NoMetadata, MetadataType, OrNone
    <2> QED
      BY <2>1 DEF Reboot, NoFlush, FlushTypeOK
  <1> QED
    BY <1>1, <1>2, <1>3, <1>4, <1>5 DEF TypeOK

LEMMA SyncerTypes ==
  ASSUME TypeOK, Syncer
  PROVE  TypeOK'
  <1>1. PICK b \in Block : BlockAdded(b) \/ BlockRemoved(b)
    BY DEF Syncer
  <1>2. PICK removed \in BOOLEAN : HandleBlock(b, removed)
    BY <1>1 DEF BlockAdded, BlockRemoved
  <1>3. synced' \in Seq(Block) /\ depth' \in Nat
    <2>1. CASE BlockAdded(b)
      BY <2>1, AppendProperties DEF BlockAdded, TypeOK, WorkerTypeOK
    <2>2. CASE BlockRemoved(b)
      <3>1. /\ Len(synced) - 1 \in Int /\ depth - 1 \in Nat
            /\ \A i \in 1 .. Len(synced) - 1 : synced[i] \in Block
        BY <2>2 DEF BlockRemoved, TypeOK, WorkerTypeOK
      <3> QED
        BY <2>2, <3>1, SubSeqProperties DEF BlockRemoved
    <2> QED
      BY <1>1, <2>1, <2>2
  <1>4. workQueue' \in Seq(Block) /\ remove' \in [Block -> BOOLEAN]
    BY <1>2, AppendProperties DEF HandleBlock, TypeOK, WorkerTypeOK
  <1> QED
    BY <1>2, <1>3, <1>4, IndexFrame
       DEF HandleBlock, worker, TypeOK, WorkerTypeOK

LEMMA RequestTypes ==
  ASSUME TypeOK, Requests
  PROVE  TypeOK'
  <1>1. PICK a \in QueryAddr : LookupMiss(a) \/ LookupName(a)
    BY DEF Requests
  <1>2. CASE LookupMiss(a)
    BY <1>2, IndexFrame
       DEF LookupMiss, worker, events, syncer, TypeOK, WorkerTypeOK
  <1>3. CASE LookupName(a)
    <2>1. a \in Addr /\ NewAddressSymbol \in Nat /\ AllocateAddress(a)
      BY <1>3, BoundsAreNatural DEF LookupName, NewAddressSymbol, TypeOK, FieldTypeOK
    <2>2. BatchesType(dbBatches)'
      BY <2>1, PutType DEF AllocateAddress, TypeOK, BatchesType, Tables
    <2>3. CacheTypeOK'
      BY <2>1, PutType DEF AllocateAddress, TypeOK, CacheTypeOK
    <2> QED
      BY <1>3, <2>1, <2>2, <2>3
         DEF LookupName, AllocateAddress, worker, events, syncer, genesis, heights, database,
             TypeOK, DbTypeOK, FlushTypeOK, MetaTypeOK, FieldTypeOK, WorkerTypeOK
  <1> QED
    BY <1>1, <1>2, <1>3

LEMMA TypeStep ==
  ASSUME IInv, [Next]_vars
  PROVE  TypeOK'
  <1> USE DEF IInv
  <1>1. CASE UNCHANGED vars
    BY <1>1, IndexFrame
       DEF vars, worker, outside, events, syncer, TypeOK, WorkerTypeOK
  <1>2. CASE Exit
    BY <1>2, IndexFrame
       DEF Exit, outside, events, syncer, TypeOK, WorkerTypeOK
  <1>3. CASE Flushing
    BY <1>3, FlushListTypes, WriteBatchesTypes DEF Flushing
  <1> QED
    BY <1>1, <1>2, <1>3, AddingTypes, RemovingTypes, FlushBeginsTypes, SyncerTypes, RequestTypes,
       RebootTypes
       DEF Next, Worker, Crash, Restart, FlushBegins

-----------------------------------------------------------------------------
(* The kinds of steps.                                                     *)

(* Neither the database nor a flush moves.                                  *)
Quiet ==
  /\ UNCHANGED <<db, meta, safeLastBlockSymbol>>
  /\ flush'.meta = flush.meta
  /\ \A t \in BlockTables \cup {"address-sym"} : flush'.ops[t] = flush.ops[t]
  /\ pc \in FlushPc => pc' = pc
  /\ pc \notin FlushPc => pc' \notin FlushPc /\ flush' = flush

(* Nor does anything about blocks and transactions.                         *)
Still ==
  /\ Quiet
  /\ UNCHANGED <<lastSeenBlockHashes, lastSeenTxHashes, lastBlockSymbol>>
  /\ \A t \in BlockTables : dbBatches'[t] = dbBatches[t]
  /\ pc' \in RemovalPc <=> pc \in RemovalPc /\ pc' # "exited"
  /\ pc = "exited" => pc' = "exited"

NamesUnchanged ==
  /\ UNCHANGED <<lastAddressSymbol, lastSeenAddresses>>
  /\ dbBatches'["address-sym"] = dbBatches["address-sym"]

(* What that takes of the types.                                           *)
Shaped ==
  /\ DOMAIN dbBatches = Tables /\ DOMAIN flush.ops = Tables
  /\ flush = [ops |-> flush.ops, meta |-> flush.meta, todo |-> flush.todo]

LEMMA TypedIsShaped ==
  ASSUME TypeOK
  PROVE  Shaped
  BY DEF TypeOK, BatchesType, FlushTypeOK, Shaped

LEMMA ShapedStillSteps ==
  ASSUME Shaped, [Next]_vars
  PROVE  \/ Still
         \/ AddBlock \/ AddTx \/ RemoveTxSymbol
         \/ FlushBegins \/ WriteBatches \/ Reboot
  <1>1. DOMAIN dbBatches = Tables /\ DOMAIN flush.ops = Tables
    BY DEF Shaped
  <1> USE DEF Still, Quiet, FlushPc, RemovalPc, BlockTables
  <1>2. CASE UNCHANGED vars \/ Syncer \/ Exit
    BY <1>2 DEF vars, index, database, caches, heights, worker, Syncer, BlockAdded, BlockRemoved,
                HandleBlock, Exit, RefusesFirst, RefusesRemoval, MissesUtxo, SeenBefore
  <1>3. CASE Requests
    BY <1>1, <1>3 DEF Requests, LookupMiss, LookupName, AllocateAddress, index, database, caches,
                      heights, worker, Tables
  <1>4. CASE Take \/ SkipBlock \/ SkipTx \/ ResolveAddress \/ MissAddress
    BY <1>4 DEF Take, SkipBlock, SkipTx, ResolveAddress, MissAddress, Resolving, index, database,
                caches, heights
  <1>5. CASE SpendInput \/ CreateOutput \/ NameAddress
    BY <1>1, <1>5 DEF SpendInput, CreateOutput, NameAddress, AllocateAddress, database, heights,
                      Tables
  <1>6. CASE BeginOutputs \/ FinishTx \/ FinishBlock
    BY <1>6 DEF BeginOutputs, FinishTx, FinishBlock, index, database, caches, heights
  <1>7. CASE RemoveTx \/ EndRevalidation
    BY <1>7 DEF RemoveTx, EndRevalidation, index, database, caches, heights
  <1>8. CASE RevalidateInput \/ RemoveOutput
    BY <1>1, <1>8 DEF RevalidateInput, RemoveOutput, database, caches, heights, Tables
  <1>9. ASSUME NEW a, FlushList(a)
        PROVE  Still
    <2>1. /\ UNCHANGED <<db, meta, dbBatches, caches, heights, worker>> /\ pc \in FlushPc
          /\ \E list : flush' = [flush EXCEPT !.ops["address-utxos"] = list, !.todo = @ \ {a}]
      BY <1>9 DEF FlushList
    <2>2. /\ flush'.meta = flush.meta
          /\ \A t \in BlockTables \cup {"address-sym"} : flush'.ops[t] = flush.ops[t]
      BY <1>1, <2>1 DEF Shaped, Tables
    <2> QED
      BY <2>1, <2>2 DEF caches, heights, worker
  <1> QED
    BY <1>2, <1>3, <1>4, <1>5, <1>6, <1>7, <1>8, <1>9
       DEF Next, Worker, Adding, Removing, Flushing, Crash, Restart, FlushBegins

LEMMA StillSteps ==
  ASSUME TypeOK, [Next]_vars
  PROVE  \/ Still
         \/ AddBlock \/ AddTx \/ RemoveTxSymbol
         \/ FlushBegins \/ WriteBatches \/ Reboot
  BY TypedIsShaped, ShapedStillSteps

LEMMA QuietSteps ==
  ASSUME AddBlock \/ AddTx \/ RemoveTxSymbol
  PROVE  Quiet
  BY DEF AddBlock, AddTx, RemoveTxSymbol, Quiet, FlushPc, database, heights

LEMMA ShapedNamesSteps ==
  ASSUME Shaped, [Next]_vars, ~FlushBegins, ~WriteBatches, ~Reboot
  PROVE  NamesUnchanged \/ NameAddress \/ \E a \in QueryAddr : LookupName(a)
  <1>1. DOMAIN dbBatches = Tables
    BY DEF Shaped
  <1> USE DEF NamesUnchanged
  <1>2. CASE UNCHANGED vars \/ Syncer \/ Exit
    BY <1>2 DEF vars, index, database, caches, symbols, Syncer, BlockAdded, BlockRemoved,
                HandleBlock, Exit
  <1>3. CASE Requests
    BY <1>3 DEF Requests, LookupMiss, index, database, caches, symbols
  <1>4. CASE Take \/ SkipBlock \/ SkipTx \/ ResolveAddress \/ MissAddress
    BY <1>4 DEF Take, SkipBlock, SkipTx, ResolveAddress, MissAddress, index, database, caches,
                symbols
  <1>5. CASE AddBlock \/ AddTx \/ SpendInput \/ CreateOutput
    BY <1>1, <1>5 DEF AddBlock, AddTx, SpendInput, CreateOutput, database, symbols, Tables
  <1>6. CASE BeginOutputs \/ FinishTx \/ FinishBlock
    BY <1>6 DEF BeginOutputs, FinishTx, FinishBlock, index, database, caches, symbols
  <1>7. CASE RemoveTx \/ EndRevalidation
    BY <1>7 DEF RemoveTx, EndRevalidation, index, database, caches, symbols
  <1>8. CASE RevalidateInput \/ RemoveOutput \/ RemoveTxSymbol
    BY <1>1, <1>8 DEF RevalidateInput, RemoveOutput, RemoveTxSymbol, database, caches, symbols,
                      Tables
  <1>9. CASE \E a \in flush.todo : FlushList(a)
    BY <1>9 DEF FlushList, caches, symbols
  <1> QED
    BY <1>2, <1>3, <1>4, <1>5, <1>6, <1>7, <1>8, <1>9
       DEF Next, Worker, Adding, Removing, Flushing, Crash, Restart, FlushBegins

LEMMA NamesSteps ==
  ASSUME TypeOK, [Next]_vars, ~FlushBegins, ~WriteBatches, ~Reboot
  PROVE  NamesUnchanged \/ NameAddress \/ \E a \in QueryAddr : LookupName(a)
  BY TypedIsShaped, ShapedNamesSteps

-----------------------------------------------------------------------------
(* What flushes do to the layers of a table.                               *)

LEMMA LayersKept ==
  ASSUME Quiet, NEW t \in BlockTables \cup {"address-sym"}
  PROVE  /\ Written(t)' = Written(t)
         /\ dbBatches'[t] = dbBatches[t] => View(t)' = View(t)
  BY DEF Quiet, Written, View

LEMMA ViewPut ==
  ASSUME Quiet, NEW t \in BlockTables \cup {"address-sym"}, NEW k, NEW v, v # Deleted,
         dbBatches'[t] = Put(dbBatches[t], k, v)
  PROVE  /\ \A x : x \in DOMAIN View(t)' <=> x = k \/ x \in DOMAIN View(t)
         /\ View(t)'[k] = v
         /\ \A x \in DOMAIN View(t) : x # k => View(t)'[x] = View(t)[x]
  <1>1. View(t)' = Overlay(Written(t), Put(dbBatches[t], k, v))
    BY LayersKept DEF View
  <1> QED
    BY <1>1, OverlayPut DEF View

(* The block table a flush takes: a removal deletes its block.              *)
TakenBlocks ==
  IF pc = "untx" THEN Put(dbBatches["block-sym"], job.block, Deleted) ELSE dbBatches["block-sym"]

LEMMA ShapedTaken ==
  ASSUME Shaped, FlushBegins
  PROVE  /\ UNCHANGED <<db, meta, caches, lastAddressSymbol>> /\ dbBatches' = NoBatches
         /\ pc \notin FlushPc \cup {"exited"} /\ pc' \in FlushPc
         /\ pc' = "secondFlush" <=> pc = "untx"
         /\ pc' = "firstFlush" <=> pc = "taken"
         /\ \A t \in {"sym-block", "tx-sym", "address-sym"} : flush'.ops[t] = dbBatches[t]
         /\ flush'.ops["block-sym"] = TakenBlocks
         /\ flush'.meta.latestAddressSymbol = lastAddressSymbol
         /\ flush'.meta.latestBlockSymbol = lastBlockSymbol'
         /\ pc # "untx" => UNCHANGED heights
  <1>1. DOMAIN dbBatches = Tables
    BY DEF Shaped
  <1>2. CASE FinishBlockAndFlush \/ BeginRemove \/ SaveState
    <2>1. TakeBatches(dbBatches, bestBlockHash, lastBlockSymbol, lastTxSymbol)
      BY <1>2 DEF FinishBlockAndFlush, BeginRemove, SaveState
    <2>2. UNCHANGED heights
      BY <1>2 DEF FinishBlockAndFlush, BeginRemove, SaveState
    <2>3. \/ pc = "tx" /\ pc' = "blockFlush"
          \/ pc = "taken" /\ pc' = "firstFlush"
          \/ pc = "idle" /\ pc' = "stateFlush"
      BY <1>2 DEF FinishBlockAndFlush, BeginRemove, SaveState
    <2> QED
      BY <2>1, <2>2, <2>3 DEF TakeBatches, Metadata, TakenBlocks, heights, FlushPc
  <1>3. CASE CommitRemove
    <2> DEFINE batches == [dbBatches EXCEPT !["block-sym"] = Put(@, job.block, Deleted)]
    <2>1. /\ TakeBatches(batches, bestBlockHash', lastBlockSymbol', lastTxSymbol')
          /\ pc = "untx" /\ pc' = "secondFlush"
      BY <1>3 DEF CommitRemove
    <2>2. /\ \A t \in {"sym-block", "tx-sym", "address-sym"} : batches[t] = dbBatches[t]
          /\ batches["block-sym"] = Put(dbBatches["block-sym"], job.block, Deleted)
      BY <1>1 DEF Tables
    <2> HIDE DEF batches
    <2> QED
      BY <2>1, <2>2 DEF TakeBatches, Metadata, TakenBlocks, FlushPc
  <1> QED
    BY <1>2, <1>3 DEF FlushBegins

LEMMA Taken ==
  ASSUME TypeOK, FlushBegins
  PROVE  /\ UNCHANGED <<db, meta, caches, lastAddressSymbol>> /\ dbBatches' = NoBatches
         /\ pc \notin FlushPc \cup {"exited"} /\ pc' \in FlushPc
         /\ pc' = "secondFlush" <=> pc = "untx"
         /\ pc' = "firstFlush" <=> pc = "taken"
         /\ \A t \in {"sym-block", "tx-sym", "address-sym"} : flush'.ops[t] = dbBatches[t]
         /\ flush'.ops["block-sym"] = TakenBlocks
         /\ flush'.meta.latestAddressSymbol = lastAddressSymbol
         /\ flush'.meta.latestBlockSymbol = lastBlockSymbol'
         /\ pc # "untx" => UNCHANGED heights
  BY TypedIsShaped, ShapedTaken

LEMMA ShapedTakenLayers ==
  ASSUME Shaped, flush = NoFlush, FlushBegins
  PROVE  /\ \A t \in {"sym-block", "tx-sym", "address-sym"} :
              Written(t)' = View(t) /\ View(t)' = View(t)
         /\ Written("block-sym")' = View("block-sym")'
         /\ \A b \in DOMAIN View("block-sym")' :
              /\ b \in DOMAIN View("block-sym")
              /\ View("block-sym")'[b] = View("block-sym")[b]
         /\ pc # "untx" => View("block-sym")' = View("block-sym")
  <1>1. flush.ops = NoBatches /\ \A t \in Tables : NoBatches[t] = EmptyMap
    BY DEF NoFlush, NoBatches
  <1>2. \A t \in Tables : View(t) = Overlay(db[t], dbBatches[t])
    BY <1>1, OverlayTwice DEF View, Written
  <1>3. db' = db /\ dbBatches' = NoBatches
    BY ShapedTaken
  <1>4. \A t \in Tables : Written(t)' = Overlay(db[t], flush'.ops[t])
    BY <1>3 DEF Written
  <1>5. \A t \in Tables : View(t)' = Overlay(db[t], flush'.ops[t])
    BY <1>1, <1>3, <1>4, OverlayTwice DEF View
  <1>6. /\ flush'.ops["block-sym"] = TakenBlocks
        /\ \A t \in {"sym-block", "tx-sym", "address-sym"} : flush'.ops[t] = dbBatches[t]
    BY ShapedTaken
  <1>7. \A b \in DOMAIN View("block-sym")' :
          b \in DOMAIN View("block-sym") /\ View("block-sym")'[b] = View("block-sym")[b]
    <2>1. CASE pc = "untx"
      BY <1>2, <1>5, <1>6, <2>1, OverlayDelete DEF TakenBlocks, Tables
    <2>2. CASE pc # "untx"
      BY <1>2, <1>5, <1>6, <2>2 DEF TakenBlocks, Tables
    <2> QED
      BY <2>1, <2>2
  <1> QED
    BY <1>2, <1>4, <1>5, <1>6, <1>7 DEF TakenBlocks, Tables

LEMMA TakenLayers ==
  ASSUME TypeOK, FlushInv, FlushBegins
  PROVE  /\ \A t \in {"sym-block", "tx-sym", "address-sym"} :
              Written(t)' = View(t) /\ View(t)' = View(t)
         /\ Written("block-sym")' = View("block-sym")'
         /\ \A b \in DOMAIN View("block-sym")' :
              /\ b \in DOMAIN View("block-sym")
              /\ View("block-sym")'[b] = View("block-sym")[b]
         /\ pc # "untx" => View("block-sym")' = View("block-sym")
  <1>1. flush = NoFlush
    BY Taken DEF FlushInv
  <1> QED
    BY <1>1, TypedIsShaped, ShapedTakenLayers

LEMMA WrittenLayers ==
  ASSUME TypeOK, FlushInv, WriteBatches
  PROVE  /\ \A t \in Tables :
              db'[t] = Written(t) /\ Written(t)' = Written(t) /\ View(t)' = View(t)
         /\ \A t \in BlockTables :
              DOMAIN View(t) = DOMAIN db'[t] /\ \A k \in DOMAIN db'[t] : View(t)[k] = db'[t][k]
  <1>1. /\ \A t \in Tables : db'[t] = Overlay(db[t], flush.ops[t])
        /\ flush' = NoFlush /\ dbBatches' = dbBatches /\ pc \in FlushPc
    BY DEF WriteBatches
  <1>2. \A t \in Tables : flush'.ops[t] = EmptyMap
    BY <1>1 DEF NoFlush, NoBatches
  <1>3. \A t \in Tables : db'[t] = Written(t) /\ Written(t)' = Written(t)
    BY <1>1, <1>2, OverlayTwice DEF Written
  <1>4. \A t \in Tables : View(t)' = View(t)
    BY <1>1, <1>3 DEF View
  <1>5. \A t \in BlockTables : dbBatches[t] = EmptyMap /\ t \in Tables
    BY <1>1 DEF FlushInv, BlockTables, Tables
  <1> QED
    BY <1>3, <1>4, <1>5, OverlayEmpty DEF View

LEMMA RebootedLayers ==
  ASSUME Reboot, NEW t \in Tables
  PROVE  /\ DOMAIN Written(t)' = DOMAIN db[t] /\ DOMAIN View(t)' = DOMAIN db[t]
         /\ \A k \in DOMAIN db[t] : Written(t)'[k] = db[t][k] /\ View(t)'[k] = db[t][k]
  <1>1. db' = db /\ flush'.ops[t] = EmptyMap /\ dbBatches'[t] = EmptyMap
    BY DEF Reboot, NoFlush, NoBatches
  <1>2. /\ DOMAIN Written(t)' = DOMAIN db[t]
        /\ \A k \in DOMAIN db[t] : Written(t)'[k] = db[t][k]
    BY <1>1, OverlayEmpty DEF Written
  <1> QED
    BY <1>1, <1>2, OverlayEmpty DEF View

-----------------------------------------------------------------------------
(* What a flush carries, and what the caches stand for.                     *)

LEMMA FlushStep ==
  ASSUME IInv, [Next]_vars
  PROVE  FlushInv'
  <1> USE DEF IInv, FlushInv
  <1>1. CASE Still
    BY <1>1 DEF Still, Quiet
  <1>2. CASE AddBlock \/ AddTx \/ RemoveTxSymbol
    <2>1. pc \notin FlushPc
      BY <1>2 DEF AddBlock, AddTx, RemoveTxSymbol, FlushPc
    <2> QED
      BY <1>2, <2>1, QuietSteps DEF Quiet
  <1>3. CASE FlushBegins
    <2>1. \A t \in BlockTables : NoBatches[t] = EmptyMap
      BY DEF NoBatches, BlockTables, Tables
    <2> QED
      BY <1>3, <2>1, Taken, FlushHeight
  <1>4. CASE WriteBatches \/ Reboot
    BY <1>4 DEF WriteBatches, Reboot, FlushPc
  <1> QED
    BY <1>1, <1>2, <1>3, <1>4, StillSteps

(* Which steps touch the address names in memory.                           *)
NamesReadable ==
  \A a \in DOMAIN lastSeenAddresses :
    /\ a \in DOMAIN View("address-sym")
    /\ lastSeenAddresses[a] = View("address-sym")[a]

LEMMA NamesReadableStep ==
  ASSUME IInv, [Next]_vars
  PROVE  NamesReadable'
  <1> USE DEF IInv
  <1>0. NamesReadable
    BY DEF CacheInv, NamesReadable
  <1>1. CASE FlushBegins
    BY <1>0, <1>1, Taken, TakenLayers DEF NamesReadable, caches
  <1>2. CASE WriteBatches \/ Reboot
    BY <1>2 DEF WriteBatches, Reboot, NamesReadable, EmptyMap
  <1>3. ASSUME ~FlushBegins, ~WriteBatches, ~Reboot
        PROVE  NamesReadable'
    <2>1. Quiet
      BY <1>3, StillSteps, QuietSteps DEF Still
    <2>2. CASE NamesUnchanged
      BY <1>0, <2>1, <2>2, LayersKept DEF NamesUnchanged, NamesReadable
    <2>3. ASSUME NEW a \in Addr, AllocateAddress(a)
          PROVE  NamesReadable'
      <3> DEFINE n == lastAddressSymbol + 1
      <3>1. /\ dbBatches'["address-sym"] = Put(dbBatches["address-sym"], a, n)
            /\ lastSeenAddresses' = Put(lastSeenAddresses, a, n)
            /\ n # Deleted
        BY <2>3, SentinelsAreNoValues
           DEF AllocateAddress, NewAddressSymbol, TypeOK, BatchesType, FieldTypeOK, Tables
      <3> HIDE DEF n
      <3>3. /\ \A x : x \in DOMAIN View("address-sym")' <=> x = a \/ x \in DOMAIN View("address-sym")
            /\ View("address-sym")'[a] = n
            /\ \A x \in DOMAIN View("address-sym") : x # a =>
                 View("address-sym")'[x] = View("address-sym")[x]
        BY <2>1, <3>1, ViewPut DEF BlockTables
      <3>4. /\ DOMAIN lastSeenAddresses' = DOMAIN lastSeenAddresses \cup {a}
            /\ lastSeenAddresses'[a] = n
            /\ \A x \in DOMAIN lastSeenAddresses : x # a =>
                 lastSeenAddresses'[x] = lastSeenAddresses[x]
        BY <3>1 DEF Put, Merge
      <3> QED
        BY <1>0, <3>3, <3>4 DEF NamesReadable
    <2>4. CASE NameAddress
      <3>1. NextOutputAddress \in Addr /\ AllocateAddress(NextOutputAddress)
        BY <2>4, JobTypes DEF NameAddress, NextOutputAddress, WorkerInv, AddTxPc
      <3> QED
        BY <2>3, <3>1
    <2>5. CASE \E a \in QueryAddr : LookupName(a)
      BY <2>3, <2>5, BoundsAreNatural DEF LookupName
    <2> QED
      BY <1>3, <2>2, <2>4, <2>5, NamesSteps
  <1> QED
    BY <1>1, <1>2, <1>3

(* Reads of blocks and transactions give what will be written.              *)
ReadPc == pc \notin {"untx", "revalidate", "unlist", "secondFlush", "exited"}

BlockReads == \A b \in Block : BlockSymbol(b) = Get(View("block-sym"), b)
TxReads    == \A t \in Tx : TxSymbol(t) = Get(View("tx-sym"), t)

LEMMA BlockReadsStep ==
  ASSUME IInv, [Next]_vars, ReadPc'
  PROVE  BlockReads'
  <1> USE DEF IInv
  <1>1. CASE Still \/ AddTx
    <2>1. /\ Quiet /\ dbBatches'["block-sym"] = dbBatches["block-sym"]
          /\ lastSeenBlockHashes' = lastSeenBlockHashes /\ ReadPc
      <3>1. CASE Still
        BY <3>1 DEF Still, Quiet, BlockTables, ReadPc, RemovalPc, FlushPc
      <3>2. CASE AddTx
        BY <3>2, QuietSteps DEF AddTx, TypeOK, BatchesType, Tables, ReadPc
      <3> QED
        BY <1>1, <3>1, <3>2
    <2>2. View("block-sym")' = View("block-sym") /\ db' = db
      BY <2>1, LayersKept DEF BlockTables, Quiet
    <2> QED
      BY <2>1, <2>2 DEF CacheInv, ReadsSeePendingWrites, ReadPc, BlockReads, BlockSymbol
  <1>2. CASE AddBlock
    <2> DEFINE x == job.block
               h == Height[job.block]
    <2>1. /\ dbBatches'["block-sym"] = Put(dbBatches["block-sym"], x, h)
          /\ lastSeenBlockHashes' = Put(lastSeenBlockHashes, x, h)
          /\ h # Deleted /\ ReadPc /\ Quiet
      <3>1. h \in Nat
        BY JobTypes
      <3> QED
        BY <1>2, <3>1, QuietSteps, SentinelsAreNoValues
           DEF AddBlock, TypeOK, BatchesType, Tables, ReadPc
    <2> HIDE DEF x, h
    <2>3. /\ \A y : y \in DOMAIN View("block-sym")' <=> y = x \/ y \in DOMAIN View("block-sym")
          /\ View("block-sym")'[x] = h
          /\ \A b \in DOMAIN View("block-sym") : b # x =>
               View("block-sym")'[b] = View("block-sym")[b]
      BY <2>1, ViewPut DEF BlockTables
    <2>4. /\ DOMAIN lastSeenBlockHashes' = DOMAIN lastSeenBlockHashes \cup {x}
          /\ lastSeenBlockHashes'[x] = h
          /\ \A b \in DOMAIN lastSeenBlockHashes : b # x =>
               lastSeenBlockHashes'[b] = lastSeenBlockHashes[b]
      BY <2>1 DEF Put, Merge
    <2>5. db' = db /\ BlockReads
      BY <2>1 DEF Quiet, CacheInv, ReadsSeePendingWrites, ReadPc, BlockReads
    <2> SUFFICES ASSUME NEW b \in Block
                 PROVE  BlockSymbol(b)' = Get(View("block-sym")', b)
      BY DEF BlockReads
    <2>6. CASE b = x
      BY <2>3, <2>4, <2>6 DEF BlockSymbol, Get
    <2>7. CASE b # x
      <3>1. BlockSymbol(b)' = BlockSymbol(b)
        BY <2>4, <2>5, <2>7 DEF BlockSymbol
      <3>2. Get(View("block-sym")', b) = Get(View("block-sym"), b)
        BY <2>3, <2>7 DEF Get
      <3> QED
        BY <2>5, <3>1, <3>2 DEF BlockReads
    <2> QED
      BY <2>6, <2>7
  <1>3. CASE RemoveTxSymbol
    BY <1>3 DEF RemoveTxSymbol, ReadPc
  <1>4. CASE FlushBegins
    <2>1. ReadPc /\ pc # "untx" /\ db' = db /\ lastSeenBlockHashes' = lastSeenBlockHashes
      BY <1>4, Taken DEF ReadPc, caches, FlushBegins, FinishBlockAndFlush, BeginRemove, SaveState,
                         CommitRemove
    <2> QED
      BY <1>4, <2>1, TakenLayers
         DEF CacheInv, ReadsSeePendingWrites, ReadPc, BlockReads, BlockSymbol
  <1>5. CASE WriteBatches
    <2>1. lastSeenBlockHashes' = EmptyMap
      BY <1>5 DEF WriteBatches
    <2>2. /\ View("block-sym")' = View("block-sym")
          /\ DOMAIN View("block-sym") = DOMAIN db'["block-sym"]
          /\ \A b \in DOMAIN db'["block-sym"] : View("block-sym")[b] = db'["block-sym"][b]
      BY <1>5, WrittenLayers DEF BlockTables, Tables
    <2> QED
      BY <2>1, <2>2 DEF BlockReads, BlockSymbol, Get, EmptyMap
  <1>6. CASE Reboot
    <2>1. lastSeenBlockHashes' = EmptyMap /\ db' = db
      BY <1>6 DEF Reboot
    <2>2. /\ DOMAIN View("block-sym")' = DOMAIN db["block-sym"]
          /\ \A b \in DOMAIN db["block-sym"] : View("block-sym")'[b] = db["block-sym"][b]
      BY <1>6, RebootedLayers DEF Tables
    <2> QED
      BY <2>1, <2>2 DEF BlockReads, BlockSymbol, Get, EmptyMap
  <1> QED
    BY <1>1, <1>2, <1>3, <1>4, <1>5, <1>6, StillSteps

LEMMA TxReadsStep ==
  ASSUME IInv, [Next]_vars, ReadPc'
  PROVE  TxReads'
  <1> USE DEF IInv
  <1>1. CASE Still \/ AddBlock
    <2>1. /\ Quiet /\ dbBatches'["tx-sym"] = dbBatches["tx-sym"]
          /\ lastSeenTxHashes' = lastSeenTxHashes /\ ReadPc
      <3>1. CASE Still
        BY <3>1 DEF Still, Quiet, BlockTables, ReadPc, RemovalPc, FlushPc
      <3>2. CASE AddBlock
        BY <3>2, QuietSteps DEF AddBlock, TypeOK, BatchesType, Tables, ReadPc
      <3> QED
        BY <1>1, <3>1, <3>2
    <2>2. View("tx-sym")' = View("tx-sym") /\ db' = db
      BY <2>1, LayersKept DEF BlockTables, Quiet
    <2> QED
      BY <2>1, <2>2 DEF CacheInv, ReadsSeePendingWrites, ReadPc, TxReads, TxSymbol
  <1>2. CASE AddTx
    <2> DEFINE x == CurrentTx
               s == lastTxSymbol + 1
    <2>1. /\ dbBatches'["tx-sym"] = Put(dbBatches["tx-sym"], x, s)
          /\ lastSeenTxHashes' = Put(lastSeenTxHashes, x, s)
          /\ s # Deleted /\ ReadPc /\ Quiet
      BY <1>2, QuietSteps, SentinelsAreNoValues
         DEF AddTx, TypeOK, BatchesType, FieldTypeOK, Tables, ReadPc
    <2> HIDE DEF x, s
    <2>3. /\ \A y : y \in DOMAIN View("tx-sym")' <=> y = x \/ y \in DOMAIN View("tx-sym")
          /\ View("tx-sym")'[x] = s
          /\ \A t \in DOMAIN View("tx-sym") : t # x => View("tx-sym")'[t] = View("tx-sym")[t]
      BY <2>1, ViewPut DEF BlockTables
    <2>4. /\ DOMAIN lastSeenTxHashes' = DOMAIN lastSeenTxHashes \cup {x}
          /\ lastSeenTxHashes'[x] = s
          /\ \A t \in DOMAIN lastSeenTxHashes : t # x =>
               lastSeenTxHashes'[t] = lastSeenTxHashes[t]
      BY <2>1 DEF Put, Merge
    <2>5. db' = db /\ TxReads
      BY <2>1 DEF Quiet, CacheInv, ReadsSeePendingWrites, ReadPc, TxReads
    <2> SUFFICES ASSUME NEW t \in Tx
                 PROVE  TxSymbol(t)' = Get(View("tx-sym")', t)
      BY DEF TxReads
    <2>6. CASE t = x
      BY <2>3, <2>4, <2>6 DEF TxSymbol, Get
    <2>7. CASE t # x
      <3>1. TxSymbol(t)' = TxSymbol(t)
        BY <2>4, <2>5, <2>7 DEF TxSymbol
      <3>2. Get(View("tx-sym")', t) = Get(View("tx-sym"), t)
        BY <2>3, <2>7 DEF Get
      <3> QED
        BY <2>5, <3>1, <3>2 DEF TxReads
    <2> QED
      BY <2>6, <2>7
  <1>3. CASE RemoveTxSymbol
    BY <1>3 DEF RemoveTxSymbol, ReadPc
  <1>4. CASE FlushBegins
    <2>1. ReadPc /\ db' = db /\ lastSeenTxHashes' = lastSeenTxHashes
      BY <1>4, Taken DEF ReadPc, caches, FlushBegins, FinishBlockAndFlush, BeginRemove, SaveState,
                         CommitRemove
    <2> QED
      BY <1>4, <2>1, TakenLayers DEF CacheInv, ReadsSeePendingWrites, ReadPc, TxReads, TxSymbol
  <1>5. CASE WriteBatches
    <2>1. lastSeenTxHashes' = EmptyMap
      BY <1>5 DEF WriteBatches
    <2>2. /\ View("tx-sym")' = View("tx-sym")
          /\ DOMAIN View("tx-sym") = DOMAIN db'["tx-sym"]
          /\ \A t \in DOMAIN db'["tx-sym"] : View("tx-sym")[t] = db'["tx-sym"][t]
      BY <1>5, WrittenLayers DEF BlockTables, Tables
    <2> QED
      BY <2>1, <2>2 DEF TxReads, TxSymbol, Get, EmptyMap
  <1>6. CASE Reboot
    <2>1. lastSeenTxHashes' = EmptyMap /\ db' = db
      BY <1>6 DEF Reboot
    <2>2. /\ DOMAIN View("tx-sym")' = DOMAIN db["tx-sym"]
          /\ \A t \in DOMAIN db["tx-sym"] : View("tx-sym")'[t] = db["tx-sym"][t]
      BY <1>6, RebootedLayers DEF Tables
    <2> QED
      BY <2>1, <2>2 DEF TxReads, TxSymbol, Get, EmptyMap
  <1> QED
    BY <1>1, <1>2, <1>3, <1>4, <1>5, <1>6, StillSteps

LEMMA CacheStep ==
  ASSUME IInv, [Next]_vars
  PROVE  CacheInv'
  <1> USE DEF IInv
  <1>1. \A a \in DOMAIN lastSeenAddresses' :
          AddressSymbol(a)' = Get(View("address-sym")', a)
    BY NamesReadableStep DEF NamesReadable, AddressSymbol, Get
  <1>2. ReadsSeePendingWrites'
    BY <1>1, BlockReadsStep, TxReadsStep DEF ReadsSeePendingWrites, ReadPc, BlockReads, TxReads
  <1>3. pc' \in RemovalPc \cup {"secondFlush"} =>
          lastSeenBlockHashes' = EmptyMap /\ lastSeenTxHashes' = EmptyMap
    <2>1. CASE Still
      BY <2>1 DEF Still, Quiet, CacheInv, FlushPc, RemovalPc
    <2>2. CASE AddBlock \/ AddTx \/ Reboot
      BY <2>2 DEF AddBlock, AddTx, Reboot, RemovalPc
    <2>3. CASE RemoveTxSymbol
      BY <2>3 DEF RemoveTxSymbol, CacheInv, RemovalPc, caches
    <2>4. CASE FlushBegins
      BY <2>4, Taken DEF CacheInv, RemovalPc, caches, FlushPc
    <2>5. CASE WriteBatches
      BY <2>5 DEF WriteBatches
    <2> QED
      BY <2>1, <2>2, <2>3, <2>4, <2>5, StillSteps
  <1> QED
    BY <1>2, <1>3, NamesReadableStep DEF CacheInv, NamesReadable

-----------------------------------------------------------------------------
(* Every step leaves the worker where WorkerInv says it is.                 *)

(* A step of somebody else: the worker stands still.                        *)
LEMMA WorkerStandsStill ==
  ASSUME IInv, UNCHANGED <<db, lastSeenBlockHashes, lastSeenTxHashes, heights, lastTxSymbol,
                           worker>>
  PROVE  WorkerInv'
  BY DEF IInv, WorkerInv, heights, worker, HasTx, CurrentTx, NextOutputAddress,
         ParentSymbol, BlockSymbol, TxSymbol

LEMMA WorkerStep ==
  ASSUME IInv, [Next]_vars
  PROVE  WorkerInv'
  <1>1. CASE UNCHANGED vars \/ Syncer \/ Requests \/ \E a \in flush.todo : FlushList(a)
    <2>1. UNCHANGED <<db, lastSeenBlockHashes, lastSeenTxHashes, heights, lastTxSymbol, worker>>
      BY <1>1 DEF vars, index, database, caches, symbols, Syncer, BlockAdded, BlockRemoved,
                  HandleBlock, Requests, LookupMiss, LookupName, AllocateAddress, FlushList
    <2> QED
      BY <2>1, WorkerStandsStill
  <1>2. CASE Crash \/ Restart \/ SkipBlock \/ FinishBlock
    BY <1>2 DEF Crash, Restart, Reboot, SkipBlock, FinishBlock, NoJob, WorkerInv, AddTxPc,
                RemovalPc
  <1>3. CASE FinishBlockAndFlush \/ CommitRemove \/ SaveState \/ Exit
    BY <1>3 DEF FinishBlockAndFlush, CommitRemove, SaveState, Exit, WorkerInv, AddTxPc, RemovalPc
  <1>4. CASE Take
    BY <1>4 DEF Take, NoJob, WorkerInv, AddTxPc, RemovalPc
  <1>5. CASE AddBlock
    <2>1. Height[job.block] \in Nat
      BY JobTypes DEF IInv
    <2> QED
      BY <1>5, <2>1 DEF AddBlock, IInv, WorkerInv, AddTxPc, RemovalPc
  <1>6. CASE SkipTx
    <2>1. NextTx.resolved = <<>>
      BY NextTxFields DEF IInv
    <2> QED
      BY <1>6, <2>1 DEF SkipTx, index, heights, IInv, WorkerInv, AddTxPc, RemovalPc
  <1>7. CASE FinishTx
    <2>1. NextTx.resolved = <<>>
      BY NextTxFields DEF IInv
    <2> QED
      BY <1>7, <2>1 DEF FinishTx, index, heights, IInv, WorkerInv, AddTxPc, RemovalPc
  <1>8. CASE AddTx
    <2>1. /\ lastTxSymbol' \in Nat /\ Len(job.resolved) = 0
          /\ CurrentTx \in Tx /\ Len(Vout[CurrentTx]) \in Nat
      BY <1>8, JobTypes, LedgerFacts DEF AddTx, IInv, WorkerInv, TypeOK, FieldTypeOK
    <2> QED
      BY <1>8, <2>1 DEF AddTx, heights, IInv, WorkerInv, AddTxPc, RemovalPc, HasTx, CurrentTx
  <1>9. CASE SpendInput
    <2>1. job'.block = job.block /\ job'.tx = job.tx /\ job'.resolved = job.resolved
      BY <1>9, JobUpdates DEF SpendInput, IInv, JobType
    <2> QED
      BY <1>9, <2>1
         DEF SpendInput, heights, symbols, IInv, WorkerInv, AddTxPc, RemovalPc, HasTx, CurrentTx
  <1>10. CASE ResolveAddress
    <2>1. /\ job'.block = job.block /\ job'.tx = job.tx
          /\ Len(job'.resolved) = Len(job.resolved) + 1
      BY <1>10, JobUpdates, AppendProperties DEF ResolveAddress, IInv, JobType
    <2>2. HasTx /\ Len(Vout[CurrentTx]) \in Nat /\ Len(job.resolved) \in Nat
      BY <1>10, JobTypes, LedgerFacts DEF ResolveAddress, Resolving, IInv, WorkerInv, AddTxPc
    <2>3. Len(job'.resolved) <= Len(Vout[CurrentTx])
      BY <1>10, <2>1, <2>2 DEF ResolveAddress, Resolving
    <2> QED
      BY <1>10, <2>1, <2>2, <2>3
         DEF ResolveAddress, Resolving, index, heights, symbols, IInv, WorkerInv, AddTxPc,
             RemovalPc, HasTx, CurrentTx
  <1>11. CASE MissAddress
    BY <1>11 DEF MissAddress, Resolving, index, heights, symbols, IInv, WorkerInv, AddTxPc,
                 RemovalPc, HasTx, CurrentTx, NextOutputAddress
  <1>12. CASE NameAddress
    <2>1. /\ job'.block = job.block /\ job'.tx = job.tx
          /\ Len(job'.resolved) = Len(job.resolved) + 1
      BY <1>12, JobUpdates, AppendProperties DEF NameAddress, IInv, JobType
    <2>2. HasTx /\ Len(Vout[CurrentTx]) \in Nat /\ Len(job.resolved) \in Nat
      BY <1>12, JobTypes, LedgerFacts DEF NameAddress, IInv, WorkerInv, AddTxPc
    <2>3. Len(job'.resolved) <= Len(Vout[CurrentTx])
      BY <1>12, <2>1, <2>2 DEF NameAddress, IInv, WorkerInv
    <2> QED
      BY <1>12, <2>1, <2>2, <2>3
         DEF NameAddress, AllocateAddress, heights, IInv, WorkerInv, AddTxPc, RemovalPc,
             HasTx, CurrentTx
  <1>13. CASE BeginOutputs \/ CreateOutput
    <2>1. job'.block = job.block /\ job'.tx = job.tx /\ job'.resolved = job.resolved
      BY <1>13, JobUpdates DEF BeginOutputs, CreateOutput, IInv, JobType
    <2>2. lastTxSymbol' = lastTxSymbol /\ lastBlockSymbol' = lastBlockSymbol
      BY <1>13 DEF BeginOutputs, CreateOutput, index, heights, symbols
    <2>3. pc \in AddTxPc /\ pc' = "outputs" /\ Len(job.resolved) = Len(Vout[CurrentTx])
      BY <1>13 DEF BeginOutputs, CreateOutput, IInv, WorkerInv, AddTxPc
    <2> QED
      BY <2>1, <2>2, <2>3 DEF IInv, WorkerInv, AddTxPc, RemovalPc, HasTx, CurrentTx
  <1>14. CASE BeginRemove
    <2>1. ParentSymbol(job.block)' = ParentSymbol(job.block)
      <3>1. db' = db /\ lastSeenBlockHashes' = lastSeenBlockHashes /\ job' = job
        BY <1>14 DEF BeginRemove, TakeBatches, caches
      <3> QED
        BY <3>1 DEF ParentSymbol, BlockSymbol
    <2> QED
      BY <1>14, <2>1 DEF BeginRemove, WorkerInv, AddTxPc, RemovalPc
  <1>15. CASE RemoveTx \/ RevalidateInput \/ EndRevalidation \/ RemoveOutput \/ RemoveTxSymbol
    <2>1. pc \in RemovalPc /\ pc' \in RemovalPc
      BY <1>15 DEF RemoveTx, RevalidateInput, EndRevalidation, RemoveOutput, RemoveTxSymbol,
                   RemovalPc
    <2>2. \A b : ParentSymbol(b)' = ParentSymbol(b)
      BY <1>15 DEF RemoveTx, RevalidateInput, EndRevalidation, RemoveOutput, RemoveTxSymbol,
                   index, database, caches, ParentSymbol, BlockSymbol
    <2>3. \A t : TxSymbol(t)' = TxSymbol(t)
      BY <1>15 DEF RemoveTx, RevalidateInput, EndRevalidation, RemoveOutput, RemoveTxSymbol,
                   index, database, caches, TxSymbol
    <2>4. job'.block = job.block
      <3>1. \/ job' = NextTx \/ job' = [job EXCEPT !.pos = @ + 1] \/ job' = [job EXCEPT !.pos = 1]
            \/ \E s : job' = [job EXCEPT !.minTxSymbol = s]
        BY <1>15 DEF RemoveTx, RevalidateInput, EndRevalidation, RemoveOutput, RemoveTxSymbol
      <3> QED
        BY <3>1, NextTxFields, JobUpdates DEF IInv, JobType
    <2>5. pc' \in {"revalidate", "unlist"} =>
            job'.tx = job.tx /\ HasTx /\ TxSymbol(CurrentTx) # None
      BY <1>15, JobUpdates DEF RemoveTx, RevalidateInput, EndRevalidation, RemoveOutput,
                   RemoveTxSymbol, IInv, WorkerInv, JobType
    <2> QED
      BY <2>1, <2>2, <2>3, <2>4, <2>5
         DEF IInv, WorkerInv, AddTxPc, RemovalPc, HasTx, CurrentTx
  <1>16. CASE WriteBatches
    <2>1. CASE pc = "firstFlush"
      <3>1. job' = job /\ pc' = "untx" /\ lastSeenBlockHashes' = EmptyMap
        BY <1>16, <2>1 DEF WriteBatches
      <3>2. ParentSymbol(job.block) # None
        BY <2>1 DEF IInv, WorkerInv
      <3>3. /\ View("block-sym")' = View("block-sym")
            /\ DOMAIN View("block-sym") = DOMAIN db'["block-sym"]
            /\ \A b \in DOMAIN db'["block-sym"] : View("block-sym")[b] = db'["block-sym"][b]
        BY <1>16, WrittenLayers DEF IInv, BlockTables, Tables
      <3>4. \A b \in Block : BlockSymbol(b) = Get(View("block-sym"), b)
        BY <2>1 DEF IInv, CacheInv, ReadsSeePendingWrites
      <3>5. \A b \in Block : BlockSymbol(b)' = BlockSymbol(b)
        BY <3>1, <3>3, <3>4 DEF BlockSymbol, Get, EmptyMap
      <3>6. job.block \in Block /\ Parent[job.block] \in Block
        BY JobTypes, LedgerFacts DEF IInv
      <3>7. ParentSymbol(job.block)' # None
        BY <3>1, <3>2, <3>5, <3>6 DEF ParentSymbol
      <3> QED
        BY <3>1, <3>7 DEF WorkerInv, AddTxPc, RemovalPc
    <2>2. CASE pc # "firstFlush"
      BY <1>16, <2>2 DEF WriteBatches, WorkerInv, AddTxPc, RemovalPc
    <2> QED
      BY <2>1, <2>2
  <1> QED
    BY <1>1, <1>2, <1>3, <1>4, <1>5, <1>6, <1>7, <1>8, <1>9, <1>10, <1>11, <1>12, <1>13, <1>14,
       <1>15, <1>16
       DEF Next, Worker, Adding, Removing, Flushing

-----------------------------------------------------------------------------
(* Address symbols.                                                        *)

LEMMA NamesView ==
  ASSUME TypeOK
  PROVE  IsMap(View("address-sym"), Addr, Nat)
  <1>1. /\ IsMap(dbBatches["address-sym"], Addr, Nat \cup {Deleted})
        /\ IsMap(flush.ops["address-sym"], Addr, Nat \cup {Deleted})
    BY SubtypeMap DEF TypeOK, FlushTypeOK, BatchesType
  <1>2. IsMap(Written("address-sym"), Addr, Nat)
    BY <1>1, OverlayType DEF TypeOK, DbTypeOK, Written
  <1> QED
    BY <1>1, <1>2, OverlayType DEF View

(* A name is one more than every name in any layer.                         *)
LEMMA AllocatedName ==
  ASSUME IInv, Quiet, NEW a \in Addr, AllocateAddress(a)
  PROVE  NamesInv'
  <1> DEFINE old == View("address-sym")
             new == View("address-sym")'
             n   == lastAddressSymbol + 1
  <1>1. /\ dbBatches'["address-sym"] = Put(dbBatches["address-sym"], a, n)
        /\ lastAddressSymbol' = n
    BY DEF AllocateAddress, NewAddressSymbol, IInv, TypeOK, BatchesType, Tables
  <1>2. lastAddressSymbol \in Nat /\ n # Deleted
    BY SentinelsAreNoValues DEF IInv, TypeOK, FieldTypeOK
  <1>3. /\ \A x : x \in DOMAIN new <=> x = a \/ x \in DOMAIN old
        /\ new[a] = n
        /\ \A x \in DOMAIN old : x # a => new[x] = old[x]
    <2> HIDE DEF n
    <2> QED
      BY <1>1, <1>2, ViewPut DEF BlockTables
  <1>4. \A x \in DOMAIN old : old[x] \in Nat /\ old[x] <= lastAddressSymbol
    BY NamesView DEF IInv, IsMap, NamesInv, AddressSymbolsUnique
  <1>5. \A x, y \in DOMAIN old : old[y] = old[x] => x = y
    BY DEF IInv, NamesInv, AddressSymbolsUnique
  <1> HIDE DEF old, new
  <1>6. \A x \in DOMAIN new : new[x] <= n
    BY <1>2, <1>3, <1>4
  <1>7. \A x, y \in DOMAIN new : new[y] = new[x] => x = y
    BY <1>2, <1>3, <1>4, <1>5
  <1>8. Written("address-sym")' = Written("address-sym")
    BY LayersKept
  <1> QED
    BY <1>1, <1>6, <1>7, <1>8 DEF new, Quiet, IInv, NamesInv, AddressSymbolsUnique, OneToOne

LEMMA NamesStep ==
  ASSUME IInv, [Next]_vars
  PROVE  NamesInv'
  <1> USE DEF IInv
  <1>1. CASE FlushBegins
    <2>1. /\ Written("address-sym")' = View("address-sym")
          /\ View("address-sym")' = View("address-sym")
          /\ UNCHANGED <<db, meta, lastAddressSymbol>>
          /\ flush'.meta.latestAddressSymbol = lastAddressSymbol
      BY <1>1, Taken, TakenLayers
    <2>2. lastAddressSymbol # None
      BY SentinelsAreNoValues DEF TypeOK, FieldTypeOK
    <2> QED
      BY <2>1, <2>2 DEF NamesInv, AddressSymbolsUnique, OneToOne
  <1>2. CASE WriteBatches
    <2>1. /\ View("address-sym")' = View("address-sym")
          /\ db'["address-sym"] = Written("address-sym")
          /\ Written("address-sym")' = Written("address-sym")
      BY <1>2, WrittenLayers DEF Tables
    <2>2. /\ pc \in FlushPc /\ pc' \notin FlushPc /\ meta' = flush.meta
          /\ lastAddressSymbol' = lastAddressSymbol
      BY <1>2 DEF WriteBatches, FlushPc, symbols
    <2> QED
      BY <2>1, <2>2 DEF NamesInv, AddressSymbolsUnique
  <1>3. CASE Reboot
    <2>1. /\ DOMAIN Written("address-sym")' = DOMAIN db["address-sym"]
          /\ DOMAIN View("address-sym")' = DOMAIN db["address-sym"]
          /\ \A a \in DOMAIN db["address-sym"] :
               /\ Written("address-sym")'[a] = db["address-sym"][a]
               /\ View("address-sym")'[a] = db["address-sym"][a]
      BY <1>3, RebootedLayers DEF Tables
    <2>2. /\ db' = db /\ meta' = meta /\ pc' \notin FlushPc
          /\ meta.latestAddressSymbol # None => lastAddressSymbol' = meta.latestAddressSymbol
      BY <1>3 DEF Reboot, OrElse, FlushPc
    <2> QED
      BY <2>1, <2>2 DEF NamesInv, AddressSymbolsUnique, OneToOne
  <1>4. ASSUME ~FlushBegins, ~WriteBatches, ~Reboot
        PROVE  NamesInv'
    <2>1. Quiet
      BY <1>4, StillSteps, QuietSteps DEF Still
    <2>2. CASE NamesUnchanged
      <3>1. /\ Written("address-sym")' = Written("address-sym")
            /\ View("address-sym")' = View("address-sym")
        BY <2>1, <2>2, LayersKept DEF NamesUnchanged
      <3> QED
        BY <2>1, <2>2, <3>1 DEF NamesInv, AddressSymbolsUnique, Quiet, NamesUnchanged
    <2>3. CASE NameAddress
      <3>1. NextOutputAddress \in Addr /\ AllocateAddress(NextOutputAddress)
        BY <2>3, JobTypes DEF NameAddress, NextOutputAddress, WorkerInv, AddTxPc
      <3> QED
        BY <2>1, <3>1, AllocatedName
    <2>4. CASE \E a \in QueryAddr : LookupName(a)
      BY <2>1, <2>4, AllocatedName, BoundsAreNatural DEF LookupName
    <2> QED
      BY <1>4, <2>2, <2>3, <2>4, NamesSteps
  <1> QED
    BY <1>1, <1>2, <1>3, <1>4

-----------------------------------------------------------------------------
(* Whoever a known transaction pays has a symbol.                           *)

LEMMA NamedGrows ==
  ASSUME Quiet, NamesUnchanged \/ NameAddress \/ \E a \in QueryAddr : LookupName(a)
  PROVE  Named \subseteq Named' /\ db' = db
  <1>1. CASE NamesUnchanged
    BY <1>1 DEF Quiet, NamesUnchanged, Named
  <1>2. ASSUME NEW a, AllocateAddress(a)
        PROVE  Named \subseteq Named' /\ db' = db
    BY <1>2 DEF AllocateAddress, Named, database, Put, Merge
  <1> QED
    BY <1>1, <1>2 DEF NameAddress, LookupName

LEMMA NamedFrame ==
  ASSUME IInv, Quiet, Named \subseteq Named',
         \A t \in DOMAIN dbBatches'["tx-sym"] :
           \/ /\ t \in DOMAIN dbBatches["tx-sym"]
              /\ dbBatches'["tx-sym"][t] = dbBatches["tx-sym"][t]
           \/ dbBatches'["tx-sym"][t] = Deleted
           \/ pc' = "inputs" /\ t = CurrentTx',
         DOMAIN lastAddressUtxos' \subseteq Named',
         pc = "exited" => pc' = "exited",
         pc \in {"inputs", "allocate"} =>
           \/ pc' \in {"inputs", "allocate"} /\ CurrentTx' = CurrentTx
           \/ pc' = "exited"
           \/ Pays(CurrentTx) \subseteq Named',
         pc' \in AddTxPc => \A i \in DOMAIN job'.resolved :
           Vout[CurrentTx'][i] \in Named' \cup {NoAddr}
  PROVE  NamedInv'
  <1>1. /\ \A t \in DOMAIN db'["tx-sym"] : Pays(t) \subseteq DOMAIN db'["address-sym"]
        /\ \A t \in DOMAIN Written("tx-sym")' : Pays(t) \subseteq DOMAIN Written("address-sym")'
    BY LayersKept DEF Quiet, BlockTables, IInv, NamedInv
  <1>2. ASSUME pc' # "exited", NEW t \in DOMAIN dbBatches'["tx-sym"]
        PROVE  \/ dbBatches'["tx-sym"][t] = Deleted
               \/ pc' \in {"inputs", "allocate"} /\ t = CurrentTx'
               \/ Pays(t) \subseteq Named'
    BY <1>2 DEF IInv, NamedInv
  <1> QED
    BY <1>1, <1>2 DEF NamedInv, Pays

LEMMA WorkerNamesStep ==
  ASSUME IInv, TypeOK', Quiet, Adding, ~FlushBegins
  PROVE  NamedInv'
  <1> USE DEF IInv
  <1>0. /\ DOMAIN dbBatches = Tables
        /\ DOMAIN lastAddressUtxos \subseteq Named
    BY DEF TypeOK, BatchesType, NamedInv
  <1>1. CASE Take \/ SkipBlock \/ SkipTx \/ FinishTx \/ FinishBlock
    <2>1. NamesUnchanged
      BY <1>1 DEF Take, SkipBlock, SkipTx, FinishTx, FinishBlock, NamesUnchanged, index,
                  database, caches, symbols
    <2>2. /\ dbBatches' = dbBatches /\ lastAddressUtxos' = lastAddressUtxos
          /\ pc \notin {"inputs", "allocate", "exited"} /\ pc' \notin AddTxPc
      BY <1>1 DEF Take, SkipBlock, SkipTx, FinishTx, FinishBlock, index, caches, AddTxPc
    <2> QED
      BY <1>0, <2>1, <2>2, NamedGrows, NamedFrame
  <1>2. CASE AddBlock
    <2>1. NamesUnchanged /\ dbBatches'["tx-sym"] = dbBatches["tx-sym"]
      BY <1>0, <1>2 DEF AddBlock, NamesUnchanged, database, symbols, Tables
    <2>2. /\ lastAddressUtxos' = lastAddressUtxos
          /\ pc \notin {"inputs", "allocate", "exited"} /\ pc' \notin AddTxPc
      BY <1>2 DEF AddBlock, AddTxPc
    <2> QED
      BY <1>0, <2>1, <2>2, NamedGrows, NamedFrame
  <1>3. CASE AddTx
    <2>1. NamesUnchanged
      BY <1>0, <1>3 DEF AddTx, NamesUnchanged, database, Tables
    <2>2. /\ dbBatches'["tx-sym"] = Put(dbBatches["tx-sym"], CurrentTx, lastTxSymbol + 1)
          /\ lastAddressUtxos' = lastAddressUtxos /\ job' = job
          /\ pc = "tx" /\ pc' = "inputs"
      BY <1>0, <1>3 DEF AddTx, Tables
    <2>3. CurrentTx' = CurrentTx
      BY <2>2 DEF CurrentTx
    <2>4. \A t \in DOMAIN dbBatches'["tx-sym"] : t # CurrentTx =>
            /\ t \in DOMAIN dbBatches["tx-sym"]
            /\ dbBatches'["tx-sym"][t] = dbBatches["tx-sym"][t]
      BY <2>2 DEF Put, Merge
    <2>5. DOMAIN job'.resolved = {}
      BY <2>2 DEF WorkerInv
    <2> QED
      BY <1>0, <2>1, <2>2, <2>3, <2>4, <2>5, NamedGrows, NamedFrame
  <1>4. CASE SpendInput \/ MissAddress
    <2>1. NamesUnchanged /\ dbBatches'["tx-sym"] = dbBatches["tx-sym"]
      BY <1>0, <1>4 DEF SpendInput, MissAddress, NamesUnchanged, index, caches, database, symbols,
                        Tables
    <2>2. /\ lastAddressUtxos' = lastAddressUtxos
          /\ pc = "inputs" /\ pc' \in {"inputs", "allocate"}
      BY <1>4 DEF SpendInput, MissAddress, Resolving, index, caches
    <2>3. job'.block = job.block /\ job'.tx = job.tx /\ job'.resolved = job.resolved
      <3>1. job' = job \/ job' = [job EXCEPT !.pos = @ + 1]
        BY <1>4 DEF SpendInput, MissAddress
      <3> QED
        BY <3>1, JobUpdates DEF JobType
    <2>4. CurrentTx' = CurrentTx
      BY <2>3 DEF CurrentTx
    <2>5. \A i \in DOMAIN job.resolved : Vout[CurrentTx][i] \in Named \cup {NoAddr}
      BY <2>2 DEF NamedInv, AddTxPc
    <2> QED
      BY <1>0, <2>1, <2>2, <2>3, <2>4, <2>5, NamedGrows, NamedFrame
  <1>5. CASE ResolveAddress \/ NameAddress
    <2> DEFINE n == Len(job.resolved) + 1
    <2>1. /\ Named \subseteq Named' /\ db' = db
          /\ dbBatches'["tx-sym"] = dbBatches["tx-sym"]
      <3>1. CASE ResolveAddress
        BY <3>1, NamedGrows DEF ResolveAddress, NamesUnchanged, index, caches, database, symbols
      <3>2. CASE NameAddress
        BY <1>0, <3>2, NamedGrows DEF NameAddress, AllocateAddress, Tables
      <3> QED
        BY <1>5, <3>1, <3>2
    <2>2. /\ lastAddressUtxos' = lastAddressUtxos
          /\ pc \in {"inputs", "allocate"} /\ pc' = "inputs"
      BY <1>5 DEF ResolveAddress, Resolving, NameAddress, AllocateAddress, index, caches
    <2>3. PICK s \in OrNone(Nat) : job' = [job EXCEPT !.resolved = Append(@, s)]
      <3>1. CASE ResolveAddress
        <4>1. HasTx /\ NextOutputAddress \in Addr \cup {NoAddr}
          BY <3>1, JobTypes DEF ResolveAddress, Resolving, WorkerInv, AddTxPc
        <4> QED
          BY <3>1, <4>1, SymbolTypes DEF ResolveAddress, OrNone
      <3>2. CASE NameAddress
        <4>1. NewAddressSymbol \in OrNone(Nat)
          BY DEF NewAddressSymbol, TypeOK, FieldTypeOK, OrNone
        <4> QED
          BY <3>2, <4>1 DEF NameAddress
      <3> QED
        BY <1>5, <3>1, <3>2
    <2>4. /\ job'.block = job.block /\ job'.tx = job.tx
          /\ DOMAIN job'.resolved = DOMAIN job.resolved \cup {n}
      <3>1. /\ job'.block = job.block /\ job'.tx = job.tx
            /\ job'.resolved = Append(job.resolved, s)
        BY <2>3, JobUpdates DEF JobType
      <3>2. job.resolved \in Seq(OrNone(Nat)) /\ Len(job.resolved) \in Nat
        BY JobTypes
      <3>3. DOMAIN Append(job.resolved, s) = 1 .. n /\ DOMAIN job.resolved = 1 .. Len(job.resolved)
        BY <3>2, AppendProperties
      <3>4. 1 .. n = (1 .. Len(job.resolved)) \cup {n}
        BY <3>2
      <3> QED
        BY <3>1, <3>3, <3>4
    <2>5. CurrentTx' = CurrentTx
      BY <2>4 DEF CurrentTx
    <2>6. NextOutputAddress = Vout[CurrentTx][n] /\ HasTx
      BY <2>2 DEF NextOutputAddress, WorkerInv, AddTxPc
    <2>7. NextOutputAddress \in Named' \cup {NoAddr}
      <3>1. CASE ResolveAddress
        <4>1. NextOutputAddress \in Addr \cup {NoAddr}
          BY <2>6, <3>1, JobTypes DEF ResolveAddress, Resolving
        <4> QED
          BY <2>1, <3>1, <4>1, SymbolTypes DEF ResolveAddress
      <3>2. CASE NameAddress
        BY <3>2 DEF NameAddress, AllocateAddress, NextOutputAddress, Named, Put, Merge
      <3> QED
        BY <1>5, <3>1, <3>2
    <2>8. \A i \in DOMAIN job.resolved : Vout[CurrentTx][i] \in Named \cup {NoAddr}
      BY <2>2 DEF NamedInv, AddTxPc
    <2>9. \A i \in DOMAIN job'.resolved : Vout[CurrentTx'][i] \in Named' \cup {NoAddr}
      BY <2>1, <2>4, <2>5, <2>6, <2>7, <2>8
    <2> QED
      BY <1>0, <2>1, <2>2, <2>5, <2>9, NamedFrame
  <1>6. CASE BeginOutputs \/ CreateOutput
    <2>1. NamesUnchanged /\ dbBatches'["tx-sym"] = dbBatches["tx-sym"]
      <3>1. CASE BeginOutputs
        BY <3>1 DEF BeginOutputs, NamesUnchanged, index, caches, database, symbols
      <3>2. CASE CreateOutput
        BY <1>0, <3>2 DEF CreateOutput, NamesUnchanged, database, symbols, Tables
      <3> QED
        BY <1>6, <3>1, <3>2
    <2>2. pc \in {"inputs", "outputs"} /\ pc' = "outputs" /\ HasTx
      BY <1>6 DEF BeginOutputs, CreateOutput, WorkerInv, AddTxPc
    <2>3. job'.block = job.block /\ job'.tx = job.tx /\ job'.resolved = job.resolved
      BY <1>6, JobUpdates DEF BeginOutputs, CreateOutput, JobType
    <2>4. CurrentTx' = CurrentTx
      BY <2>3 DEF CurrentTx
    <2>5. \A i \in DOMAIN job.resolved : Vout[CurrentTx][i] \in Named \cup {NoAddr}
      BY <2>2 DEF NamedInv, AddTxPc
    <2>6. DOMAIN Vout[CurrentTx] = DOMAIN job.resolved
      <3>1. Len(job.resolved) = Len(Vout[CurrentTx])
        BY <1>6 DEF BeginOutputs, CreateOutput, WorkerInv
      <3>2. Vout[CurrentTx] \in Seq(Addr \cup {NoAddr}) /\ job.resolved \in Seq(OrNone(Nat))
        BY <2>2, JobTypes, LedgerFacts
      <3> QED
        BY <3>1, <3>2
    <2>7. Pays(CurrentTx) \subseteq Named
      BY <2>5, <2>6 DEF Pays
    <2>8. DOMAIN lastAddressUtxos' \subseteq Named
      <3>1. CASE BeginOutputs
        BY <1>0, <3>1 DEF BeginOutputs, index, caches
      <3>2. CASE CreateOutput
        <4>1. AddressOf(CurrentOutput) \in Pays(CurrentTx) \cup {NoAddr}
          BY <2>2, <3>2, JobTypes DEF CreateOutput, AddressOf, CurrentOutput, Pays
        <4> QED
          BY <1>0, <2>7, <3>2, <4>1 DEF CreateOutput, Listed, Put, Merge
      <3> QED
        BY <1>6, <3>1, <3>2
    <2>9. Named \subseteq Named' /\ db' = db
      BY <2>1, NamedGrows
    <2> QED
      BY <2>1, <2>2, <2>3, <2>4, <2>5, <2>7, <2>8, <2>9, NamedFrame
  <1> QED
    BY <1>1, <1>2, <1>3, <1>4, <1>5, <1>6 DEF Adding, FlushBegins

LEMMA RemovalNamesStep ==
  ASSUME IInv, TypeOK', Quiet, Removing, ~FlushBegins
  PROVE  NamedInv'
  <1> USE DEF IInv
  <1>0. /\ DOMAIN dbBatches = Tables
        /\ DOMAIN lastAddressUtxos \subseteq Named
    BY DEF TypeOK, BatchesType, NamedInv
  <1>1. /\ pc \in RemovalPc /\ pc' \in RemovalPc
        /\ lastAddressUtxos' = lastAddressUtxos
    BY DEF Removing, FlushBegins, RemoveTx, RevalidateInput, EndRevalidation, RemoveOutput,
           RemoveTxSymbol, RemovalPc, index, caches
  <1>2. CASE RemoveTx \/ EndRevalidation
    <2>1. NamesUnchanged /\ dbBatches' = dbBatches
      BY <1>2 DEF RemoveTx, EndRevalidation, NamesUnchanged, index, caches, database, symbols
    <2> QED
      BY <1>0, <1>1, <2>1, NamedGrows, NamedFrame DEF RemovalPc, AddTxPc
  <1>3. CASE RevalidateInput \/ RemoveOutput
    <2>1. NamesUnchanged /\ dbBatches'["tx-sym"] = dbBatches["tx-sym"]
      BY <1>0, <1>3 DEF RevalidateInput, RemoveOutput, NamesUnchanged, caches, database, symbols,
                        Tables
    <2> QED
      BY <1>0, <1>1, <2>1, NamedGrows, NamedFrame DEF RemovalPc, AddTxPc
  <1>4. CASE RemoveTxSymbol
    <2>1. /\ NamesUnchanged
          /\ dbBatches'["tx-sym"] = Put(dbBatches["tx-sym"], CurrentTx, Deleted)
      BY <1>0, <1>4 DEF RemoveTxSymbol, NamesUnchanged, caches, database, symbols, Tables
    <2>2. \A t \in DOMAIN dbBatches'["tx-sym"] :
            \/ /\ t \in DOMAIN dbBatches["tx-sym"]
               /\ dbBatches'["tx-sym"][t] = dbBatches["tx-sym"][t]
            \/ dbBatches'["tx-sym"][t] = Deleted
      BY <2>1 DEF Put, Merge
    <2> QED
      BY <1>0, <1>1, <2>1, <2>2, NamedGrows, NamedFrame DEF RemovalPc, AddTxPc
  <1> QED
    BY <1>2, <1>3, <1>4 DEF Removing, FlushBegins

(* Names are never deleted: they are in every later layer.                  *)
LEMMA NamesStay ==
  ASSUME TypeOK
  PROVE  /\ DOMAIN db["address-sym"] \subseteq DOMAIN Written("address-sym")
         /\ DOMAIN Written("address-sym") \subseteq DOMAIN View("address-sym")
  <1>1. /\ \A a \in DOMAIN flush.ops["address-sym"] : flush.ops["address-sym"][a] # Deleted
        /\ \A a \in DOMAIN dbBatches["address-sym"] : dbBatches["address-sym"][a] # Deleted
    BY SentinelsAreNoValues DEF TypeOK, FlushTypeOK, BatchesType, IsMap
  <1> QED
    BY <1>1, OverlayKeys DEF Written, View

LEMMA TakenNamedInv ==
  ASSUME IInv, FlushBegins
  PROVE  NamedInv'
  <1> USE DEF IInv
  <1>1. /\ UNCHANGED <<db, caches>> /\ dbBatches' = NoBatches /\ pc' \in FlushPc
        /\ Written("tx-sym")' = View("tx-sym") /\ Written("address-sym")' = View("address-sym")
    BY Taken, TakenLayers
  <1>2. pc \notin {"inputs", "allocate", "exited"}
    BY DEF FlushBegins, FinishBlockAndFlush, BeginRemove, CommitRemove, SaveState
  <1>3. Named \subseteq DOMAIN View("address-sym")
    BY NamesStay DEF Named, CacheInv
  <1>4. ASSUME NEW t \in DOMAIN View("tx-sym")
        PROVE  Pays(t) \subseteq DOMAIN View("address-sym")
    <2>1. \/ t \in DOMAIN dbBatches["tx-sym"] /\ dbBatches["tx-sym"][t] # Deleted
          \/ t \in DOMAIN Written("tx-sym")
      BY <1>4, OverlayKeys DEF View
    <2> QED
      BY <1>2, <1>3, <2>1, NamesStay DEF NamedInv
  <1>5. DOMAIN dbBatches'["tx-sym"] = {}
    BY <1>1 DEF NoBatches, Tables, EmptyMap
  <1>6. Named' = Named /\ lastAddressUtxos' = lastAddressUtxos
    BY <1>1 DEF caches, Named
  <1> QED
    BY <1>1, <1>4, <1>5, <1>6 DEF NamedInv, AddTxPc, FlushPc, Pays

LEMMA WrittenNamedInv ==
  ASSUME IInv, WriteBatches
  PROVE  NamedInv'
  <1> USE DEF IInv
  <1>1. /\ db'["tx-sym"] = Written("tx-sym") /\ db'["address-sym"] = Written("address-sym")
        /\ Written("tx-sym")' = Written("tx-sym")
        /\ Written("address-sym")' = Written("address-sym")
    BY WrittenLayers DEF Tables
  <1>2. DOMAIN dbBatches'["tx-sym"] = {}
    BY DEF WriteBatches, FlushInv, BlockTables, EmptyMap
  <1>3. DOMAIN lastAddressUtxos' = {} /\ pc' \notin AddTxPc
    BY DEF WriteBatches, EmptyMap, AddTxPc
  <1> QED
    BY <1>1, <1>2, <1>3 DEF NamedInv, Pays

LEMMA RebootedNamedInv ==
  ASSUME IInv, Reboot
  PROVE  NamedInv'
  <1>1. /\ DOMAIN Written("tx-sym")' = DOMAIN db["tx-sym"]
        /\ DOMAIN Written("address-sym")' = DOMAIN db["address-sym"]
    BY RebootedLayers DEF Tables
  <1>2. /\ db' = db /\ pc' = "idle" /\ DOMAIN dbBatches'["tx-sym"] = {}
        /\ DOMAIN lastAddressUtxos' = {}
    BY DEF Reboot, NoBatches, Tables, EmptyMap
  <1> QED
    BY <1>1, <1>2 DEF IInv, NamedInv, AddTxPc, Pays

LEMMA NamedStep ==
  ASSUME IInv, TypeOK', [Next]_vars
  PROVE  NamedInv'
  <1> USE DEF IInv
  <1>0. DOMAIN dbBatches = Tables /\ DOMAIN lastAddressUtxos \subseteq Named
    BY DEF TypeOK, BatchesType, NamedInv
  <1>1. CASE (UNCHANGED vars \/ Syncer \/ Requests \/ \E a \in flush.todo : FlushList(a)) /\ Quiet
    <2>1. /\ NamesUnchanged \/ \E a \in QueryAddr : LookupName(a)
          /\ dbBatches'["tx-sym"] = dbBatches["tx-sym"] /\ lastAddressUtxos' = lastAddressUtxos
          /\ pc' = pc /\ job' = job
      BY <1>0, <1>1
         DEF vars, index, worker, caches, database, symbols, Syncer, BlockAdded, BlockRemoved,
             HandleBlock, Requests, LookupMiss, LookupName, AllocateAddress, NamesUnchanged,
             Tables, FlushList
    <2>2. CurrentTx' = CurrentTx
      BY <2>1 DEF CurrentTx
    <2>3. pc \in AddTxPc => \A i \in DOMAIN job.resolved :
            Vout[CurrentTx][i] \in Named \cup {NoAddr}
      BY DEF NamedInv
    <2>4. Named \subseteq Named' /\ db' = db
      BY <1>1, <2>1, NamedGrows
    <2> QED
      BY <1>0, <1>1, <2>1, <2>2, <2>3, <2>4, NamedFrame
  <1>2. CASE Exit /\ Quiet
    <2>1. NamesUnchanged /\ dbBatches' = dbBatches /\ lastAddressUtxos' = lastAddressUtxos
      BY <1>2 DEF Exit, NamesUnchanged, index, caches, database, symbols
    <2>2. pc' = "exited"
      BY <1>2 DEF Exit
    <2> QED
      BY <1>0, <1>2, <2>1, <2>2, NamedGrows, NamedFrame DEF AddTxPc
  <1>3. CASE FlushBegins \/ WriteBatches \/ Reboot
    BY <1>3, TakenNamedInv, WrittenNamedInv, RebootedNamedInv
  <1>4. ASSUME ~FlushBegins, ~WriteBatches, ~Reboot
        PROVE  NamedInv'
    <2>1. Quiet
      BY <1>4, StillSteps, QuietSteps DEF Still
    <2> QED
      BY <1>1, <1>2, <1>4, <2>1, WorkerNamesStep, RemovalNamesStep
         DEF Next, Worker, Flushing, FlushBegins, Crash, Restart
  <1> QED
    BY <1>3, <1>4

-----------------------------------------------------------------------------
(* Heights without a gap.                                                  *)

LEMMA HeightsStay ==
  ASSUME TypeOK
  PROVE  DbHeights \subseteq Heights
  <1>1. /\ \A h \in DOMAIN flush.ops["sym-block"] : flush.ops["sym-block"][h] # Deleted
        /\ \A h \in DOMAIN dbBatches["sym-block"] : dbBatches["sym-block"][h] # Deleted
    BY SentinelsAreNoValues DEF TypeOK, FlushTypeOK, BatchesType, IsMap
  <1> QED
    BY <1>1, OverlayKeys DEF Written, View, DbHeights, Heights

(* A block the index knows has every height up to its own.                  *)
LEMMA KnownBlock ==
  ASSUME IInv, NEW b \in Block, BlockSymbol(b) # None, pc \notin {"exited", "secondFlush"}
  PROVE  /\ BlockSymbol(b) = Height[b] /\ 0 .. Height[b] \subseteq Heights
         /\ pc \in RemovalPc => 0 .. Height[b] \subseteq DbHeights
  <1> USE DEF IInv
  <1>1. CASE pc \in RemovalPc
    <2>1. b \in DOMAIN db["block-sym"] /\ BlockSymbol(b) = db["block-sym"][b]
      BY <1>1 DEF CacheInv, BlockSymbol, Get, EmptyMap
    <2> QED
      BY <2>1, HeightsStay DEF HeightInv, Gapless, DbHeights
  <1>2. CASE pc \notin RemovalPc
    <2>1. BlockSymbol(b) = Get(View("block-sym"), b)
      BY <1>2 DEF CacheInv, ReadsSeePendingWrites, RemovalPc
    <2> QED
      BY <1>2, <2>1 DEF HeightInv, Gapless, Heights, Get
  <1> QED
    BY <1>1, <1>2

LEMMA AddBlockHeights ==
  ASSUME IInv, AddBlock
  PROVE  HeightInv' /\ Heights' = Heights \cup {Height[job.block]}
  <1> USE DEF IInv
  <1> DEFINE b == job.block
             h == Height[job.block]
  <1>1. b \in Block /\ h \in Nat /\ 0 .. h - 1 \subseteq Heights /\ h # Deleted /\ b # Deleted
    BY JobTypes, SentinelsAreNoValues DEF AddBlock, QueueInv
  <1>2. /\ dbBatches'["block-sym"] = Put(dbBatches["block-sym"], b, h)
        /\ dbBatches'["sym-block"] = Put(dbBatches["sym-block"], h, b)
        /\ db' = db /\ meta' = meta /\ lastBlockSymbol' = h
        /\ safeLastBlockSymbol' = safeLastBlockSymbol
        /\ pc = "taken" /\ pc' = "tx"
    BY DEF AddBlock, Tables, database, TypeOK, BatchesType
  <1>3. Quiet
    BY QuietSteps
  <1>4. Height[b] = h
    OBVIOUS
  <1> HIDE DEF b, h
  <1>5. /\ \A x : x \in DOMAIN View("sym-block")' <=> x = h \/ x \in DOMAIN View("sym-block")
        /\ View("sym-block")'[h] = b
        /\ \A x \in DOMAIN View("sym-block") : x # h =>
             View("sym-block")'[x] = View("sym-block")[x]
    BY <1>1, <1>2, <1>3, ViewPut DEF BlockTables
  <1>6. /\ \A x : x \in DOMAIN View("block-sym")' <=> x = b \/ x \in DOMAIN View("block-sym")
        /\ View("block-sym")'[b] = h
        /\ \A x \in DOMAIN View("block-sym") : x # b =>
             View("block-sym")'[x] = View("block-sym")[x]
    BY <1>1, <1>2, <1>3, ViewPut DEF BlockTables
  <1>7. Heights' = Heights \cup {h}
    BY <1>5 DEF Heights
  <1>8. 0 .. h \subseteq Heights'
    <2>1. \A x \in 0 .. h : x \in 0 .. h - 1 \/ x = h
      BY <1>1
    <2> QED
      BY <1>1, <1>7, <2>1
  <1>9. \A x \in DOMAIN View("sym-block")' : Height[View("sym-block")'[x]] = x
    BY <1>4, <1>5 DEF HeightInv, Gapless
  <1>10. \A x \in DOMAIN View("block-sym")' :
           View("block-sym")'[x] = Height[x] /\ 0 .. Height[x] \subseteq Heights'
    <2> SUFFICES ASSUME NEW x \in DOMAIN View("block-sym")'
                 PROVE  View("block-sym")'[x] = Height[x] /\ 0 .. Height[x] \subseteq Heights'
      OBVIOUS
    <2>1. CASE x = b
      BY <1>4, <1>6, <1>8, <2>1
    <2>2. CASE x # b
      <3>1. x \in DOMAIN View("block-sym") /\ View("block-sym")'[x] = View("block-sym")[x]
        BY <1>6, <2>2
      <3> QED
        BY <1>7, <3>1 DEF HeightInv, Gapless, Heights
    <2> QED
      BY <2>1, <2>2
  <1>11. Gapless(View("sym-block"), View("block-sym"))'
    BY <1>9, <1>10 DEF Gapless, Heights
  <1>12. lastBlockSymbol' # -1 /\ DbHeights' = DbHeights /\ DbHeight' = DbHeight
    BY <1>1, <1>2 DEF DbHeights, DbHeight
  <1>13. Gapless(db["sym-block"], db["block-sym"])'
    BY <1>2 DEF HeightInv, Gapless
  <1>14. HeightInv'
    BY <1>2, <1>8, <1>11, <1>12, <1>13 DEF HeightInv
  <1> QED
    BY <1>7, <1>14 DEF h

LEMMA TakenHeights ==
  ASSUME IInv, FlushBegins
  PROVE  HeightInv' /\ Heights' = Heights
  <1> USE DEF IInv
  <1>1. /\ db' = db /\ meta' = meta /\ View("sym-block")' = View("sym-block")
        /\ \A b \in DOMAIN View("block-sym")' :
             b \in DOMAIN View("block-sym") /\ View("block-sym")'[b] = View("block-sym")[b]
        /\ pc' = "secondFlush" <=> pc = "untx"
        /\ pc # "untx" => UNCHANGED heights
    BY Taken, TakenLayers
  <1>2. pc \notin FlushPc
    BY Taken
  <1>3. lastBlockSymbol' \in Nat
    BY FlushHeight
  <1>4. Heights' = Heights /\ DbHeights' = DbHeights /\ DbHeight' = DbHeight
    BY <1>1 DEF Heights, DbHeights, DbHeight
  <1>5. Gapless(View("sym-block"), View("block-sym"))'
    BY <1>1 DEF HeightInv, Gapless
  <1>6. Gapless(db["sym-block"], db["block-sym"])'
    BY <1>1 DEF HeightInv, Gapless
  <1>7. CASE pc = "untx"
    <2>1. lastBlockSymbol' = ParentSymbol(job.block) /\ safeLastBlockSymbol' = lastBlockSymbol'
      BY <1>7 DEF FlushBegins, FinishBlockAndFlush, BeginRemove, CommitRemove, SaveState
    <2>2. ParentSymbol(job.block) # None
      BY <1>7 DEF WorkerInv, RemovalPc
    <2>3. ParentSymbol(job.block) = BlockSymbol(Parent[job.block]) /\ Parent[job.block] \in Block
      BY <2>2, JobTypes, LedgerFacts DEF ParentSymbol
    <2>4. 0 .. lastBlockSymbol' \subseteq DbHeights
      BY <1>7, <2>1, <2>2, <2>3, KnownBlock DEF RemovalPc
    <2>5. 0 .. lastBlockSymbol' \subseteq Heights
      BY <2>4, HeightsStay
    <2>6. pc' = "secondFlush"
      BY <1>1, <1>7
    <2>7. lastBlockSymbol' # -1
      BY <1>3
    <2> QED
      BY <1>1, <1>4, <1>5, <1>6, <2>1, <2>4, <2>5, <2>6, <2>7 DEF HeightInv
  <1>8. CASE pc # "untx"
    <2>1. /\ lastBlockSymbol' = lastBlockSymbol /\ safeLastBlockSymbol' = safeLastBlockSymbol
          /\ pc' # "secondFlush" /\ pc # "secondFlush"
      BY <1>1, <1>2, <1>8 DEF heights, FlushPc
    <2>2. lastBlockSymbol' # -1
      BY <1>3
    <2> QED
      BY <1>1, <1>4, <1>5, <1>6, <2>1, <2>2 DEF HeightInv
  <1> QED
    BY <1>4, <1>7, <1>8

LEMMA WrittenHeights ==
  ASSUME IInv, WriteBatches
  PROVE  HeightInv' /\ Heights' = Heights
  <1> USE DEF IInv
  <1>1. /\ View("block-sym")' = View("block-sym") /\ View("sym-block")' = View("sym-block")
        /\ DOMAIN View("block-sym") = DOMAIN db'["block-sym"]
        /\ \A b \in DOMAIN db'["block-sym"] : View("block-sym")[b] = db'["block-sym"][b]
        /\ DOMAIN View("sym-block") = DOMAIN db'["sym-block"]
        /\ \A h \in DOMAIN db'["sym-block"] : View("sym-block")[h] = db'["sym-block"][h]
    BY WrittenLayers DEF BlockTables, Tables
  <1>2. /\ flush.meta.latestBlockSymbol = lastBlockSymbol /\ lastBlockSymbol \in Nat
        /\ meta' = flush.meta /\ lastBlockSymbol' = lastBlockSymbol
        /\ safeLastBlockSymbol' = lastBlockSymbol /\ pc' # "secondFlush"
    BY DEF FlushInv, WriteBatches
  <1>3. Heights' = Heights /\ DbHeights' = Heights
    BY <1>1 DEF Heights, DbHeights
  <1>4. DbHeight' = lastBlockSymbol /\ lastBlockSymbol # -1
    BY <1>2, SentinelsAreNoValues DEF DbHeight, OrElse
  <1>5. Gapless(View("sym-block"), View("block-sym"))'
    BY <1>1 DEF HeightInv, Gapless
  <1>6. Gapless(db["sym-block"], db["block-sym"])'
    BY <1>1 DEF HeightInv, Gapless
  <1>7. 0 .. lastBlockSymbol \subseteq Heights
    BY DEF HeightInv
  <1>8. HeightInv'
    BY <1>2, <1>3, <1>4, <1>5, <1>6, <1>7 DEF HeightInv
  <1> QED
    BY <1>3, <1>8

LEMMA RebootedHeights ==
  ASSUME IInv, Reboot
  PROVE  HeightInv' /\ Heights' = DbHeights
  <1> USE DEF IInv
  <1>1. /\ db' = db /\ meta' = meta /\ pc' = "idle"
        /\ lastBlockSymbol' = DbHeight /\ safeLastBlockSymbol' = DbHeight
    BY DEF Reboot
  <1>2. /\ DOMAIN View("sym-block")' = DOMAIN db["sym-block"]
        /\ \A h \in DOMAIN db["sym-block"] : View("sym-block")'[h] = db["sym-block"][h]
        /\ DOMAIN View("block-sym")' = DOMAIN db["block-sym"]
        /\ \A b \in DOMAIN db["block-sym"] : View("block-sym")'[b] = db["block-sym"][b]
    BY RebootedLayers DEF Tables
  <1>3. DbHeight' = DbHeight /\ DbHeights' = DbHeights /\ Heights' = DbHeights
    BY <1>1, <1>2 DEF DbHeight, DbHeights, Heights
  <1>4. Gapless(View("sym-block"), View("block-sym"))'
    BY <1>2 DEF HeightInv, Gapless
  <1>5. Gapless(db["sym-block"], db["block-sym"])'
    BY <1>1 DEF HeightInv, Gapless
  <1>6. /\ 0 .. DbHeight \subseteq DbHeights
        /\ DbHeight = -1 => DOMAIN db["block-sym"] = {}
    BY DEF HeightInv
  <1>7. HeightInv'
    BY <1>1, <1>2, <1>3, <1>4, <1>5, <1>6 DEF HeightInv
  <1> QED
    BY <1>3, <1>7

LEMMA HeightStep ==
  ASSUME IInv, [Next]_vars
  PROVE  HeightInv' /\ (Heights \subseteq Heights' \/ Reboot)
  <1> USE DEF IInv
  <1>1. CASE Still \/ AddTx \/ RemoveTxSymbol
    <2>1. /\ Quiet /\ lastBlockSymbol' = lastBlockSymbol
          /\ dbBatches'["block-sym"] = dbBatches["block-sym"]
          /\ dbBatches'["sym-block"] = dbBatches["sym-block"]
      BY <1>1, QuietSteps
         DEF Still, BlockTables, AddTx, RemoveTxSymbol, heights, TypeOK, BatchesType, Tables
    <2>2. View("block-sym")' = View("block-sym") /\ View("sym-block")' = View("sym-block")
      BY <2>1, LayersKept DEF BlockTables
    <2>3. Heights' = Heights /\ DbHeights' = DbHeights /\ DbHeight' = DbHeight
      BY <2>1, <2>2 DEF Heights, DbHeights, DbHeight, Quiet
    <2>4. Gapless(View("sym-block"), View("block-sym"))'
      BY <2>2 DEF HeightInv, Gapless
    <2>5. /\ db' = db /\ safeLastBlockSymbol' = safeLastBlockSymbol
          /\ pc' = "secondFlush" <=> pc = "secondFlush"
      BY <2>1 DEF Quiet, FlushPc
    <2>6. Gapless(db["sym-block"], db["block-sym"])'
      BY <2>5 DEF HeightInv, Gapless
    <2> QED
      BY <2>1, <2>2, <2>3, <2>4, <2>5, <2>6 DEF HeightInv
  <1> QED
    BY <1>1, StillSteps, AddBlockHeights, TakenHeights, WrittenHeights, RebootedHeights

-----------------------------------------------------------------------------
(* The queue and the syncer continue those heights.                         *)

LEMMA QueueFrame ==
  ASSUME QueueInv, Heights \subseteq Heights', UNCHANGED <<workQueue, synced>>,
         pc = "exited" => pc' = "exited",
         pc' = "taken" => pc = "taken" /\ job'.block = job.block,
         pc = "taken" => pc' = "exited" \/ TakenHeight \subseteq Heights' \cup TakenHeight'
  PROVE  QueueInv'
  <1> SUFFICES ASSUME pc' # "exited"
               PROVE  QueueInv'
    BY DEF QueueInv
  <1>1. Heights \cup TakenHeight \subseteq Heights' \cup TakenHeight'
    BY DEF TakenHeight
  <1>2. pc' = "taken" => 0 .. Height[job'.block] - 1 \subseteq Heights'
    BY DEF QueueInv
  <1>3. \A n : QueuedHeights(n)' = QueuedHeights(n)
    BY DEF QueuedHeights
  <1> QED
    BY <1>1, <1>2, <1>3 DEF QueueInv

LEMMA SyncerQueue ==
  ASSUME QueueInv, workQueue \in Seq(Block), synced \in Seq(Block), Syncer
  PROVE  QueueInv'
  <1>1. PICK b \in Block : BlockAdded(b) \/ BlockRemoved(b)
    BY DEF Syncer
  <1>0. workQueue \in Seq(Block) /\ Len(workQueue) \in Nat
    OBVIOUS
  <1> PICK n \in Nat : n = Len(workQueue)
    BY <1>0
  <1> DEFINE covered == Heights \cup TakenHeight \cup QueuedHeights(n)
  <1>2. /\ workQueue' = Append(workQueue, b) /\ pc # "exited"
        /\ UNCHANGED <<db, flush, dbBatches, pc, job>>
    BY <1>1 DEF BlockAdded, BlockRemoved, HandleBlock, index, database, worker
  <1>3. Heights' = Heights /\ TakenHeight' = TakenHeight
    BY <1>2 DEF Heights, View, Written, TakenHeight
  <1>4. /\ workQueue \in Seq(Block) /\ synced \in Seq(Block) /\ n \in Nat /\ Len(synced) \in Nat
        /\ Height[b] \in Nat
    BY LedgerFacts
  <1>5. /\ Len(workQueue') = n + 1 /\ workQueue'[n + 1] = b
        /\ \A i \in 1 .. n : workQueue'[i] = workQueue[i]
    BY <1>2, <1>4, AppendProperties
  <1>6. \A i \in 0 .. n : QueuedHeights(i)' = QueuedHeights(i)
    BY <1>4, <1>5 DEF QueuedHeights
  <1>7. QueuedHeights(n + 1)' = QueuedHeights(n) \cup {Height[b]}
    <2>1. 1 .. n + 1 = (1 .. n) \cup {n + 1}
      BY <1>4
    <2> QED
      BY <1>5, <2>1 DEF QueuedHeights
  <1>8. 0 .. Len(synced) - 1 \subseteq covered
    BY <1>2 DEF QueueInv
  <1>9. /\ 0 .. Height[b] - 1 \subseteq covered
        /\ 0 .. Len(synced') - 1 \subseteq covered \cup {Height[b]}
        /\ \A i \in DOMAIN synced' : Height[synced'[i]] = i - 1
    <2>1. CASE BlockAdded(b)
      <3>1. Height[b] = Len(synced) /\ synced' = Append(synced, b)
        BY <2>1 DEF BlockAdded
      <3>2. /\ Len(synced') = Len(synced) + 1 /\ synced'[Len(synced) + 1] = b
            /\ \A i \in 1 .. Len(synced) : synced'[i] = synced[i]
            /\ DOMAIN synced' = 1 .. Len(synced) + 1
        BY <1>4, <3>1, AppendProperties
      <3>3. \A h \in 0 .. Len(synced') - 1 : h \in 0 .. Len(synced) - 1 \/ h = Height[b]
        BY <1>4, <3>1, <3>2
      <3>4. \A i \in 1 .. Len(synced) : Height[synced[i]] = i - 1
        BY <1>2, <1>4 DEF QueueInv
      <3>5. \A i \in DOMAIN synced' : Height[synced'[i]] = i - 1
        BY <1>4, <3>1, <3>2, <3>4
      <3> QED
        BY <1>8, <3>1, <3>3, <3>5
    <2>2. CASE BlockRemoved(b)
      <3>1. /\ b = synced[Len(synced)] /\ Len(synced) > 1
            /\ synced' = SubSeq(synced, 1, Len(synced) - 1)
        BY <2>2 DEF BlockRemoved
      <3>2. \A i \in 1 .. Len(synced) : Height[synced[i]] = i - 1
        BY <1>2, <1>4 DEF QueueInv
      <3>3. Height[b] = Len(synced) - 1
        BY <1>4, <3>1, <3>2
      <3>4. /\ Len(synced') = Len(synced) - 1
            /\ \A i \in 1 .. Len(synced) - 1 : synced'[i] = synced[i]
            /\ DOMAIN synced' = 1 .. Len(synced) - 1
        <4>1. \A i \in 1 .. Len(synced) - 1 : synced[i] \in Block
          BY <1>4
        <4> QED
          BY <1>4, <3>1, <4>1, SubSeqProperties
      <3>5. \A h \in 0 .. Height[b] - 1 : h \in 0 .. Len(synced) - 1
        BY <1>4, <3>3
      <3>6. \A h \in 0 .. Len(synced') - 1 : h \in 0 .. Len(synced) - 1
        BY <1>4, <3>4
      <3>7. \A i \in DOMAIN synced' : Height[synced'[i]] = i - 1
        BY <1>4, <3>2, <3>4
      <3> QED
        BY <1>8, <3>5, <3>6, <3>7
    <2> QED
      BY <1>1, <2>1, <2>2
  <1>10. \A i \in DOMAIN workQueue' :
           0 .. Height[workQueue'[i]] - 1
             \subseteq Heights' \cup TakenHeight' \cup QueuedHeights(i - 1)'
    <2> SUFFICES ASSUME NEW i \in DOMAIN workQueue'
                 PROVE  0 .. Height[workQueue'[i]] - 1
                          \subseteq Heights' \cup TakenHeight' \cup QueuedHeights(i - 1)'
      OBVIOUS
    <2>1. i \in 1 .. n + 1
      BY <1>2, <1>4, <1>5, AppendProperties
    <2>2. i - 1 \in 0 .. n
      BY <1>4, <2>1
    <2>3. QueuedHeights(i - 1)' = QueuedHeights(i - 1)
      BY <1>6, <2>2
    <2>4. CASE i = n + 1
      BY <1>3, <1>4, <1>5, <1>9, <2>3, <2>4
    <2>5. CASE i # n + 1
      <3>1. i \in DOMAIN workQueue /\ workQueue'[i] = workQueue[i]
        BY <1>4, <1>5, <2>1, <2>5
      <3>2. 0 .. Height[workQueue[i]] - 1 \subseteq Heights \cup TakenHeight \cup QueuedHeights(i - 1)
        BY <1>2, <3>1 DEF QueueInv
      <3> QED
        BY <1>3, <2>3, <3>1, <3>2
    <2> QED
      BY <2>4, <2>5
  <1>11. 0 .. Len(synced') - 1
           \subseteq Heights' \cup TakenHeight' \cup QueuedHeights(Len(workQueue))'
    <2>1. QueuedHeights(Len(workQueue))' = QueuedHeights(n + 1)'
      BY <1>5
    <2> QED
      BY <1>3, <1>7, <1>9, <2>1
  <1>12. pc' = "taken" => 0 .. Height[job'.block] - 1 \subseteq Heights'
    BY <1>2, <1>3 DEF QueueInv
  <1> QED
    BY <1>9, <1>10, <1>11, <1>12 DEF QueueInv

LEMMA TakeQueue ==
  ASSUME QueueInv, workQueue \in Seq(Block), Take
  PROVE  QueueInv'
  <1>1. /\ pc = "idle" /\ pc' = "taken" /\ workQueue # <<>> /\ workQueue' = Tail(workQueue)
        /\ UNCHANGED <<db, flush, dbBatches, synced>>
    BY DEF Take, database, syncer
  <1>2. job'.block = Head(workQueue)
    BY DEF Take, NoJob
  <1>3. /\ workQueue \in Seq(Block) /\ Len(workQueue) \in Nat /\ Len(workQueue) > 0
        /\ Head(workQueue) = workQueue[1]
    BY <1>1
  <1>4. /\ Len(workQueue') = Len(workQueue) - 1 /\ workQueue' \in Seq(Block)
        /\ \A i \in 1 .. Len(workQueue') : workQueue'[i] = workQueue[i + 1]
    BY <1>1, <1>3, HeadTailProperties
  <1>5. Heights' = Heights /\ TakenHeight = {} /\ TakenHeight' = {Height[workQueue[1]]}
    BY <1>1, <1>2, <1>3 DEF Heights, View, Written, TakenHeight
  <1>6. ASSUME NEW n \in 0 .. Len(workQueue')
        PROVE  QueuedHeights(n + 1) = TakenHeight' \cup QueuedHeights(n)'
    <2>1. QueuedHeights(n + 1) \subseteq TakenHeight' \cup QueuedHeights(n)'
      <3> SUFFICES ASSUME NEW j \in 1 .. n + 1
                   PROVE  Height[workQueue[j]] \in TakenHeight' \cup QueuedHeights(n)'
        BY DEF QueuedHeights
      <3>1. CASE j = 1
        BY <1>5, <3>1
      <3>2. CASE j # 1
        <4>1. /\ j - 1 \in 1 .. n /\ j - 1 \in 1 .. Len(workQueue')
              /\ j - 1 + 1 = j
          BY <1>3, <1>4, <3>2
        <4>2. workQueue'[j - 1] = workQueue[j]
          BY <1>4, <4>1
        <4> QED
          BY <4>1, <4>2 DEF QueuedHeights
      <3> QED
        BY <3>1, <3>2
    <2>2. TakenHeight' \cup QueuedHeights(n)' \subseteq QueuedHeights(n + 1)
      <3>1. 1 \in 1 .. n + 1
        BY <1>3, <1>4
      <3>2. \A j \in 1 .. n : j + 1 \in 1 .. n + 1 /\ workQueue'[j] = workQueue[j + 1]
        BY <1>3, <1>4
      <3> QED
        BY <1>5, <3>1, <3>2 DEF QueuedHeights
    <2> QED
      BY <2>1, <2>2
  <1>7. 0 .. Height[job'.block] - 1 \subseteq Heights'
    <2>1. QueuedHeights(0) = {} /\ 1 \in DOMAIN workQueue /\ 1 - 1 = 0
      BY <1>3 DEF QueuedHeights
    <2>2. 0 .. Height[workQueue[1]] - 1 \subseteq Heights \cup TakenHeight \cup QueuedHeights(0)
      BY <1>1, <2>1 DEF QueueInv
    <2> QED
      BY <1>2, <1>3, <1>5, <2>1, <2>2
  <1>8. ASSUME NEW i \in DOMAIN workQueue'
        PROVE  0 .. Height[workQueue'[i]] - 1
                 \subseteq Heights' \cup TakenHeight' \cup QueuedHeights(i - 1)'
    <2>1. /\ i \in 1 .. Len(workQueue') /\ i + 1 \in DOMAIN workQueue
          /\ i - 1 \in 0 .. Len(workQueue') /\ (i + 1) - 1 = (i - 1) + 1
      BY <1>3, <1>4
    <2>2. 0 .. Height[workQueue[i + 1]] - 1
            \subseteq Heights \cup TakenHeight \cup QueuedHeights((i - 1) + 1)
      BY <1>1, <2>1 DEF QueueInv
    <2> QED
      BY <1>4, <1>5, <1>6, <2>1, <2>2
  <1>9. 0 .. Len(synced') - 1
          \subseteq Heights' \cup TakenHeight' \cup QueuedHeights(Len(workQueue))'
    <2> PICK n \in Nat : n = Len(workQueue')
      BY <1>4
    <2>1. n \in 0 .. Len(workQueue') /\ n + 1 = Len(workQueue)
      BY <1>3, <1>4
    <2>2. 0 .. Len(synced) - 1 \subseteq Heights \cup TakenHeight \cup QueuedHeights(n + 1)
      BY <1>1, <2>1 DEF QueueInv
    <2>3. QueuedHeights(Len(workQueue))' = QueuedHeights(n)'
      OBVIOUS
    <2> QED
      BY <1>1, <1>5, <1>6, <2>1, <2>2, <2>3
  <1>10. \A i \in DOMAIN synced' : Height[synced'[i]] = i - 1
    BY <1>1 DEF QueueInv
  <1> QED
    BY <1>7, <1>8, <1>9, <1>10 DEF QueueInv

LEMMA RebootQueue ==
  ASSUME IInv, Reboot
  PROVE  QueueInv'
  <1>1. workQueue' = <<>> /\ pc' = "idle" /\ synced' = DbChain /\ db' = db
    BY DEF Reboot
  <1>2. Heights' = DbHeights
    BY RebootedHeights
  <1>3. /\ DbHeight \in Nat \cup {-1} /\ Len(synced') - 1 = DbHeight
        /\ DOMAIN synced' = 1 .. DbHeight + 1
        /\ \A i \in 1 .. DbHeight + 1 : synced'[i] = db["sym-block"][i - 1] /\ i - 1 \in 0 .. DbHeight
    BY <1>1, DbChainType DEF IInv
  <1>4. \A i \in DOMAIN synced' : Height[synced'[i]] = i - 1
    BY <1>3 DEF IInv, HeightInv, Gapless, DbHeights
  <1>5. 0 .. Len(synced') - 1 \subseteq Heights'
    BY <1>2, <1>3 DEF IInv, HeightInv
  <1> QED
    BY <1>1, <1>4, <1>5 DEF QueueInv

(* What a step has to know for that: a block that is worked off has its     *)
(* height then.                                                            *)
LEMMA QueueMoves ==
  ASSUME QueueInv, workQueue \in Seq(Block), synced \in Seq(Block),
         [Next]_vars, ~Reboot, Heights \subseteq Heights',
         pc = "taken" /\ BlockSymbol(job.block) # None => Height[job.block] \in Heights,
         AddBlock => Height[job.block] \in Heights'
  PROVE  QueueInv'
  <1>1. CASE UNCHANGED vars \/ Requests \/ \E a \in flush.todo : FlushList(a)
    <2>1. UNCHANGED <<workQueue, synced, pc, job>>
      BY <1>1 DEF vars, worker, outside, events, syncer, Requests, LookupMiss, LookupName,
                  AllocateAddress, FlushList
    <2>2. TakenHeight' = TakenHeight
      BY <2>1 DEF TakenHeight
    <2> QED
      BY <2>1, <2>2, QueueFrame
  <1>2. CASE SkipBlock \/ BeginRemove
    <2>1. /\ UNCHANGED <<workQueue, synced>> /\ pc = "taken" /\ pc' \in {"idle", "firstFlush"}
          /\ BlockSymbol(job.block) # None
      BY <1>2 DEF SkipBlock, BeginRemove, outside, events, syncer
    <2>2. TakenHeight \subseteq Heights
      BY <2>1 DEF TakenHeight
    <2> QED
      BY <2>1, <2>2, QueueFrame
  <1>3. CASE AddBlock
    <2>1. UNCHANGED <<workQueue, synced>> /\ pc = "taken" /\ pc' = "tx"
      BY <1>3 DEF AddBlock, outside, events, syncer
    <2>2. TakenHeight \subseteq Heights'
      BY <1>3 DEF TakenHeight
    <2> QED
      BY <2>1, <2>2, QueueFrame
  <1>5. CASE SkipTx \/ AddTx \/ SpendInput \/ ResolveAddress \/ MissAddress \/ NameAddress
    <2>1. /\ UNCHANGED <<workQueue, synced>>
          /\ pc \notin {"taken", "exited"} /\ pc' # "taken"
      BY <1>5 DEF SkipTx, AddTx, SpendInput, ResolveAddress, MissAddress, NameAddress, Resolving,
                  AllocateAddress, outside, events, syncer
    <2> QED
      BY <2>1, QueueFrame
  <1>6. CASE BeginOutputs \/ CreateOutput \/ FinishTx \/ FinishBlock \/ FinishBlockAndFlush
    <2>1. /\ UNCHANGED <<workQueue, synced>>
          /\ pc \notin {"taken", "exited"} /\ pc' # "taken"
      BY <1>6 DEF BeginOutputs, CreateOutput, FinishTx, FinishBlock, FinishBlockAndFlush,
                  outside, events, syncer
    <2> QED
      BY <2>1, QueueFrame
  <1>7. CASE SaveState \/ WriteBatches \/ (Removing /\ ~BeginRemove)
    <2>1. /\ UNCHANGED <<workQueue, synced>>
          /\ pc \notin {"taken", "exited"} /\ pc' # "taken"
      BY <1>7 DEF SaveState, WriteBatches, Removing, RemoveTx, RevalidateInput, EndRevalidation,
                  RemoveOutput, RemoveTxSymbol, CommitRemove, FlushPc, outside, events, syncer
    <2> QED
      BY <2>1, QueueFrame
  <1>8. CASE Exit
    BY <1>8 DEF Exit, QueueInv
  <1> QED
    BY <1>1, <1>2, <1>3, <1>5, <1>6, <1>7, <1>8, TakeQueue, SyncerQueue
       DEF Next, Worker, Adding, Removing, Flushing, Crash, Restart

LEMMA QueueStep ==
  ASSUME IInv, [Next]_vars
  PROVE  QueueInv'
  <1> USE DEF IInv
  <1>1. workQueue \in Seq(Block) /\ synced \in Seq(Block)
    BY DEF TypeOK, WorkerTypeOK
  <1>2. Heights \subseteq Heights' \/ Reboot
    BY HeightStep
  <1>3. ASSUME pc = "taken", BlockSymbol(job.block) # None
        PROVE  Height[job.block] \in Heights
    <2>1. job.block \in Block /\ Height[job.block] \in Nat
      BY JobTypes
    <2>2. 0 .. Height[job.block] \subseteq Heights
      BY <1>3, <2>1, KnownBlock
    <2> QED
      BY <2>1, <2>2
  <1>4. AddBlock => Height[job.block] \in Heights'
    BY AddBlockHeights
  <1> QED
    BY <1>1, <1>2, <1>3, <1>4, QueueMoves, RebootQueue

-----------------------------------------------------------------------------
(* The inductive invariant.                                                *)

LEMMA InitIInv == Init => IInv
  <1> SUFFICES ASSUME Init PROVE IInv
    OBVIOUS
  <1>1. DOMAIN EmptyMap = {}
    BY DEF EmptyMap
  <1>2. TypeOK
    <2>1. DbTypeOK /\ BatchesType(dbBatches) /\ CacheTypeOK
      BY EmptyMapType DEF Init, DbTypeOK, BatchesType, CacheTypeOK, NoBatches, Tables
    <2>2. NoMetadata \in MetadataType
      BY DEF NoMetadata, MetadataType, OrNone
    <2>3. MetaTypeOK
      BY <2>2 DEF Init, MetaTypeOK
    <2>4. FlushTypeOK
      BY <2>1, <2>2 DEF Init, NoFlush, FlushTypeOK
    <2>5. FieldTypeOK
      BY DEF Init, FieldTypeOK, OrNone
    <2>6. job \in JobType
      <3>1. Genesis \in Block /\ 1 \in Nat \ {0}
        BY LedgerTypes
      <3> QED
        BY <3>1 DEF Init, NoJob, JobType, OrNone
    <2>7. WorkerTypeOK
      BY <2>6, BoundsAreNatural DEF Init, WorkerTypeOK
    <2> QED
      BY <2>1, <2>3, <2>4, <2>5, <2>7 DEF TypeOK
  <1>3. WorkerInv
    BY DEF Init, WorkerInv, AddTxPc, RemovalPc
  <1>4. FlushInv
    BY DEF Init, FlushInv, FlushPc
  <1>5. \A t \in Tables : /\ DOMAIN db[t] = {}
                          /\ DOMAIN Written(t) = {} /\ DOMAIN View(t) = {}
    <2>1. \A t \in Tables : db[t] = EmptyMap /\ flush.ops[t] = EmptyMap /\ dbBatches[t] = EmptyMap
      BY DEF Init, NoFlush, NoBatches
    <2>2. \A t \in Tables : DOMAIN Written(t) = {}
      BY <1>1, <2>1, OverlayEmpty DEF Written
    <2> QED
      BY <1>1, <2>1, <2>2, OverlayEmpty DEF View
  <1>6. CacheInv
    <2>1. /\ \A b \in Block : BlockSymbol(b) = Get(View("block-sym"), b)
          /\ \A t \in Tx : TxSymbol(t) = Get(View("tx-sym"), t)
      BY <1>1, <1>5 DEF Init, BlockSymbol, TxSymbol, Get, Tables
    <2> QED
      BY <1>1, <2>1 DEF Init, CacheInv, ReadsSeePendingWrites, RemovalPc
  <1>7. NamedInv
    BY <1>1, <1>5 DEF Init, NamedInv, NoBatches, Tables, AddTxPc
  <1>8. DbHeight = -1 /\ 0 .. -1 = {}
    BY DEF Init, NoMetadata, DbHeight, OrElse
  <1>9. HeightInv
    BY <1>5, <1>8 DEF Init, HeightInv, Gapless, Tables
  <1>10. QueueInv
    BY DEF Init, QueueInv
  <1>11. NamesInv
    BY <1>5 DEF Init, NamesInv, AddressSymbolsUnique, OneToOne, Tables, FlushPc
  <1> QED
    BY <1>2, <1>3, <1>4, <1>6, <1>7, <1>9, <1>10, <1>11 DEF IInv

LEMMA NextIInv == IInv /\ [Next]_vars => IInv'
  <1> SUFFICES ASSUME IInv, [Next]_vars PROVE IInv'
    OBVIOUS
  <1>1. TypeOK'
    BY TypeStep
  <1> QED
    BY <1>1, WorkerStep, FlushStep, CacheStep, NamedStep, NamesStep, HeightStep, QueueStep
       DEF IInv

(* In every reachable state of the indexer the strengthened invariant holds: *)
(* the ground all the theorems below stand on.                             *)
THEOREM InductiveInvariant == Spec => []IInv
  BY InitIInv, NextIInv, PTL DEF Spec

(* Every variable keeps its shape, whatever the ledger, the batch sizes,    *)
(* the order of events, requests, crashes and exits: processBatches always *)
(* has symbols to write, and no table ever holds a null.                   *)
THEOREM TypeCorrect == Spec => []TypeOK
  <1>1. IInv => TypeOK
    BY DEF IInv
  <1> QED
    BY <1>1, InductiveInvariant, PTL

(* getAddressSymbol never gives two addresses one symbol, though requests   *)
(* and the worker both call it and await the database in between, a flush  *)
(* may be anywhere between the batches and the database, and a restart     *)
(* resumes from a counter above every symbol that survived.                *)
THEOREM AddressSymbolsAreUnique == Spec => []AddressSymbolsUnique
  <1>1. IInv => AddressSymbolsUnique
    BY DEF IInv, NamesInv
  <1> QED
    BY <1>1, InductiveInvariant, PTL

(* safeLastBlockSymbol is the stored height, and each height up to it has a *)
(* block of that height: no flush, removal or crash leaves a gap.          *)
THEOREM SafeHeightDurable == Spec => []SafeHeightIsDurable
  <1>1. ASSUME IInv
        PROVE  SafeHeightIsDurable
    <2>1. 0 .. safeLastBlockSymbol \subseteq DbHeights
      BY <1>1 DEF IInv, HeightInv
    <2>2. \A h \in DbHeights : Height[db["sym-block"][h]] = h
      BY <1>1 DEF IInv, HeightInv, Gapless, DbHeights
    <2>3. pc # "secondFlush" => safeLastBlockSymbol = DbHeight
      BY <1>1 DEF IInv, HeightInv
    <2> QED
      BY <2>1, <2>2, <2>3 DEF SafeHeightIsDurable, DbHeights
  <1> QED
    BY <1>1, InductiveInvariant, PTL

(* Block and transaction lookups see the writes that wait in dbBatches or   *)
(* in a flush, and a cached address symbol is the one that will be stored: *)
(* what a lookup finds is what the next flush makes durable.               *)
THEOREM ReadsSeeWrites == Spec => []ReadsSeePendingWrites
  <1>1. IInv => ReadsSeePendingWrites
    BY DEF IInv, CacheInv
  <1> QED
    BY <1>1, InductiveInvariant, PTL

=============================================================================
