------------------------- MODULE UtxoRequestsProofs -------------------------
(***************************************************************************)
(* Proofs about UtxoRequests: what holds when requests for single outputs  *)
(* write to the index, too.                                                *)
(*                                                                         *)
(* IInv of IndexerProofs is no invariant here: recoverMissingUtxo gives    *)
(* blocks symbols in the middle of a flush.  Address symbols stay unique   *)
(* all the same (the first part), and the heights up to the safe one on    *)
(* disk (the second part), in every setting.                               *)
(*                                                                         *)
(* The address a symbol leads back to stays the same, too (the third part), *)
(* as long as no name is given in the middle of a flush: getAddressBySymbol *)
(* reads it from the list under the symbol, which outlives the name when a  *)
(* crash loses it.  Some reading of the symbols, which address each stands  *)
(* for, is true of the names and lists on disk, in a flush and in memory    *)
(* (Told), and a step changes it only for symbols nothing on disk has.      *)
(***************************************************************************)
EXTENDS UtxoRequests, ChainProofs

-----------------------------------------------------------------------------
(* First part.  Address symbols.                                           *)

(* Names are distinct in every layer (NamesInv), and what that takes of the *)
(* shapes.                                                                 *)
NaturalNames(tables) ==
  \A a \in DOMAIN tables["address-sym"] : tables["address-sym"][a] \in Nat

UniqueInv ==
  /\ Shaped
  /\ pc \notin FlushPc => flush = NoFlush
  /\ lastAddressSymbol \in Nat /\ meta.latestAddressSymbol \in OrNone(Nat)
  /\ pc \in FlushPc => flush.meta.latestAddressSymbol \in Nat
  /\ NaturalNames(db) /\ NaturalNames(flush.ops) /\ NaturalNames(dbBatches)
  /\ NamesInv

LEMMA EmptyShaped ==
  /\ DOMAIN NoBatches = Tables /\ DOMAIN NoFlush.ops = Tables
  /\ NoFlush = [ops |-> NoFlush.ops, meta |-> NoFlush.meta, todo |-> NoFlush.todo]
  /\ \A t \in Tables : NoBatches[t] = EmptyMap /\ NoFlush.ops[t] = EmptyMap
  BY DEF NoBatches, NoFlush

LEMMA ShapedNext ==
  ASSUME Shaped, [Next]_vars
  PROVE  Shaped'
  <1> USE DEF Shaped
  <1>1. CASE UNCHANGED <<dbBatches, flush>>
    BY <1>1
  <1>2. CASE \E best, h, s : TakeBatches(dbBatches, best, h, s)
    BY <1>2, EmptyShaped DEF TakeBatches
  <1>3. CASE CommitRemove
    BY <1>3, EmptyShaped DEF CommitRemove, TakeBatches
  <1>4. CASE WriteBatches \/ Reboot
    BY <1>4, EmptyShaped DEF WriteBatches, Reboot
  <1>5. CASE \E a \in flush.todo : FlushList(a)
    BY <1>5 DEF FlushList
  <1>6. CASE AddBlock \/ AddTx \/ SpendInput \/ NameAddress \/ CreateOutput
    BY <1>6 DEF AddBlock, AddTx, SpendInput, NameAddress, AllocateAddress, CreateOutput, database
  <1>7. CASE RevalidateInput \/ RemoveOutput \/ RemoveTxSymbol
    BY <1>7 DEF RevalidateInput, RemoveOutput, RemoveTxSymbol, database
  <1>8. CASE Requests
    BY <1>8 DEF Requests, LookupMiss, LookupName, AllocateAddress, index, database
  <1>9. CASE Syncer \/ Exit \/ UNCHANGED vars
    BY <1>9 DEF Syncer, BlockAdded, BlockRemoved, HandleBlock, Exit, vars, index, database
  <1>10. CASE Take \/ SkipBlock \/ SkipTx \/ ResolveAddress \/ MissAddress \/ BeginOutputs
                \/ FinishTx \/ FinishBlock \/ RemoveTx \/ EndRevalidation
    BY <1>10 DEF Take, SkipBlock, SkipTx, ResolveAddress, MissAddress, BeginOutputs, FinishTx,
                 FinishBlock, RemoveTx, EndRevalidation, index, database
  <1>11. CASE FinishBlockAndFlush \/ BeginRemove \/ SaveState
    BY <1>2, <1>11 DEF FinishBlockAndFlush, BeginRemove, SaveState
  <1> QED
    BY <1>3, <1>4, <1>5, <1>6, <1>7, <1>8, <1>9, <1>10, <1>11
       DEF Next, Worker, Adding, Removing, Flushing, Crash, Restart

(* A request leaves the flush alone, and names an address as NameAddress    *)
(* does or leaves the names alone.                                         *)
LEMMA UtxoRequestSteps ==
  ASSUME Shaped, NEW o \in QueryUtxo, UtxoRequest(o)
  PROVE  /\ Shaped' /\ UNCHANGED <<db, meta, flush, safeLastBlockSymbol, worker, outside>>
         /\ \/ NamesUnchanged
            \/ /\ lastAddressSymbol' = lastAddressSymbol + 1
               /\ dbBatches'["address-sym"]
                    = Put(dbBatches["address-sym"], AddressOf(o), lastAddressSymbol + 1)
  <1> USE DEF Shaped, NamesUnchanged
  <1>1. CASE \/ AskUtxo(o) \/ ReadTxSymbol(o) \/ ReadUtxo(o) \/ FetchTx(o)
             \/ ReadBlockSymbol(o) \/ MissBlock(o) \/ Answer(o)
    BY <1>1 DEF AskUtxo, ReadTxSymbol, ReadUtxo, FetchTx, ReadBlockSymbol, MissBlock, Answer,
                index, database, caches, heights, symbols
  <1>2. CASE NameBlock(o)
    BY <1>2 DEF NameBlock, database, heights, symbols, Tables
  <1>3. CASE RememberUtxo(o)
    BY <1>3 DEF RememberUtxo, database, heights, symbols
  <1>4. CASE NameAndRememberUtxo(o)
    BY <1>4 DEF NameAndRememberUtxo, NewAddressSymbol, database, heights, Tables
  <1> QED
    BY <1>1, <1>2, <1>3, <1>4 DEF UtxoRequest

LEMMA UniqueViews ==
  ASSUME UniqueInv
  PROVE  /\ NaturalNames([t \in Tables |-> Written(t)])
         /\ NaturalNames([t \in Tables |-> View(t)])
  BY OverlayKeys DEF UniqueInv, NaturalNames, Written, View, Tables

(* The next name is above every name there is.                              *)
LEMMA NextName ==
  ASSUME UniqueInv, Quiet, NEW a, lastAddressSymbol' = lastAddressSymbol + 1,
         dbBatches'["address-sym"] = Put(dbBatches["address-sym"], a, lastAddressSymbol + 1)
  PROVE  NamesInv'
  <1> DEFINE old == View("address-sym")
             new == View("address-sym")'
             n   == lastAddressSymbol + 1
  <1>2. lastAddressSymbol \in Nat /\ n # Deleted
    BY SentinelsAreNoValues DEF UniqueInv
  <1>3. /\ \A x : x \in DOMAIN new <=> x = a \/ x \in DOMAIN old
        /\ new[a] = n
        /\ \A x \in DOMAIN old : x # a => new[x] = old[x]
    <2> HIDE DEF n
    <2> QED
      BY <1>2, ViewPut DEF BlockTables, n
  <1>4. \A x \in DOMAIN old : old[x] \in Nat /\ old[x] <= lastAddressSymbol
    BY UniqueViews DEF UniqueInv, NaturalNames, NamesInv, AddressSymbolsUnique, Tables
  <1>5. \A x, y \in DOMAIN old : old[y] = old[x] => x = y
    BY DEF UniqueInv, NamesInv, AddressSymbolsUnique
  <1> HIDE DEF old, new
  <1>6. \A x \in DOMAIN new : new[x] <= n
    BY <1>2, <1>3, <1>4
  <1>7. \A x, y \in DOMAIN new : new[y] = new[x] => x = y
    BY <1>2, <1>3, <1>4, <1>5
  <1>8. Written("address-sym")' = Written("address-sym")
    BY LayersKept
  <1> QED
    BY <1>6, <1>7, <1>8 DEF new, Quiet, UniqueInv, NamesInv, AddressSymbolsUnique, OneToOne

(* A step that leaves the disk and the flush alone.                         *)
LEMMA QuietUnique ==
  ASSUME UniqueInv, Quiet, Shaped',
         \/ NamesUnchanged
         \/ \E a : /\ lastAddressSymbol' = lastAddressSymbol + 1
                   /\ dbBatches'["address-sym"]
                        = Put(dbBatches["address-sym"], a, lastAddressSymbol + 1)
  PROVE  UniqueInv'
  <1>1. /\ UNCHANGED <<db, meta>> /\ flush'.meta = flush.meta
        /\ flush'.ops["address-sym"] = flush.ops["address-sym"]
        /\ pc' \notin FlushPc => pc \notin FlushPc /\ flush' = flush
        /\ pc' \in FlushPc <=> pc \in FlushPc
    BY DEF Quiet, FlushPc
  <1>2. lastAddressSymbol' \in Nat /\ NaturalNames(dbBatches)'
    <2>1. CASE NamesUnchanged
      BY <2>1 DEF UniqueInv, NamesUnchanged, NaturalNames
    <2>2. ASSUME NEW a, lastAddressSymbol' = lastAddressSymbol + 1,
                 dbBatches'["address-sym"]
                   = Put(dbBatches["address-sym"], a, lastAddressSymbol + 1)
          PROVE  lastAddressSymbol' \in Nat /\ NaturalNames(dbBatches)'
      <3> DEFINE f == dbBatches["address-sym"]
                 n == lastAddressSymbol + 1
      <3>1. n \in Nat /\ \A x \in DOMAIN f : f[x] \in Nat
        BY DEF UniqueInv, NaturalNames
      <3> HIDE DEF f, n
      <3>2. \A x \in DOMAIN Put(f, a, n) : Put(f, a, n)[x] \in Nat
        BY <3>1 DEF Put, Merge
      <3> QED
        BY <2>2, <3>1, <3>2 DEF NaturalNames, f, n
    <2> QED
      BY <2>1, <2>2
  <1>3. CASE NamesUnchanged
    <2>1. /\ Written("address-sym")' = Written("address-sym")
          /\ View("address-sym")' = View("address-sym")
      BY <1>3, LayersKept DEF NamesUnchanged
    <2>2. NamesInv'
      BY <1>1, <1>3, <2>1 DEF UniqueInv, NamesInv, AddressSymbolsUnique, OneToOne, NamesUnchanged
    <2> QED
      BY <1>1, <1>2, <2>2 DEF UniqueInv, NaturalNames
  <1>4. CASE ~NamesUnchanged
    <2>1. NamesInv'
      BY <1>4, NextName
    <2> QED
      BY <1>1, <1>2, <2>1 DEF UniqueInv, NaturalNames
  <1> QED
    BY <1>3, <1>4

LEMMA UniqueNext ==
  ASSUME UniqueInv, [Next]_vars
  PROVE  UniqueInv'
  <1> USE DEF UniqueInv
  <1>0. Shaped'
    BY ShapedNext
  <1>1. CASE FlushBegins
    <2>1. /\ UNCHANGED <<db, meta, lastAddressSymbol>> /\ dbBatches' = NoBatches
          /\ pc \notin FlushPc /\ pc' \in FlushPc
          /\ flush'.ops["address-sym"] = dbBatches["address-sym"]
          /\ flush'.meta.latestAddressSymbol = lastAddressSymbol
      BY <1>1, ShapedTaken
    <2>2. flush = NoFlush /\ NoFlush.ops["address-sym"] = EmptyMap
          /\ NoBatches["address-sym"] = EmptyMap
      BY <2>1, EmptyShaped DEF Tables
    <2>3. View("address-sym") = Overlay(db["address-sym"], dbBatches["address-sym"])
      BY <2>2, OverlayTwice DEF View, Written
    <2>4. /\ Written("address-sym")' = View("address-sym")
          /\ View("address-sym")' = View("address-sym")
      BY <2>1, <2>2, <2>3, OverlayTwice DEF View, Written
    <2>5. lastAddressSymbol # None
      BY SentinelsAreNoValues
    <2>6. NamesInv'
      BY <2>1, <2>4, <2>5 DEF NamesInv, AddressSymbolsUnique, OneToOne
    <2>7. NaturalNames(db)' /\ NaturalNames(flush.ops)' /\ NaturalNames(dbBatches)'
      BY <2>1, <2>2 DEF NaturalNames, EmptyMap
    <2> QED
      BY <1>0, <2>1, <2>6, <2>7
  <1>2. CASE WriteBatches
    <2>1. /\ db'["address-sym"] = Written("address-sym")
          /\ flush' = NoFlush /\ dbBatches' = dbBatches
          /\ pc \in FlushPc /\ pc' \notin FlushPc /\ meta' = flush.meta
          /\ lastAddressSymbol' = lastAddressSymbol
          /\ NoFlush.ops["address-sym"] = EmptyMap
      BY <1>2, EmptyShaped DEF WriteBatches, FlushPc, symbols, Written, Tables
    <2>2. Written("address-sym")' = Written("address-sym")
      BY <2>1, OverlayTwice DEF Written
    <2>3. View("address-sym")' = View("address-sym")
      BY <2>1, <2>2 DEF View
    <2>4. NamesInv'
      BY <2>1, <2>2, <2>3 DEF NamesInv, AddressSymbolsUnique
    <2>5. \A a \in DOMAIN Written("address-sym") : Written("address-sym")[a] \in Nat
      BY UniqueViews DEF NaturalNames, Tables
    <2>6. NaturalNames(db)' /\ NaturalNames(flush.ops)' /\ NaturalNames(dbBatches)'
      BY <2>1, <2>5 DEF NaturalNames, EmptyMap
    <2> QED
      BY <1>0, <2>1, <2>4, <2>6 DEF OrNone
  <1>3. CASE Reboot
    <2>1. /\ DOMAIN Written("address-sym")' = DOMAIN db["address-sym"]
          /\ DOMAIN View("address-sym")' = DOMAIN db["address-sym"]
          /\ \A a \in DOMAIN db["address-sym"] :
               /\ Written("address-sym")'[a] = db["address-sym"][a]
               /\ View("address-sym")'[a] = db["address-sym"][a]
      BY <1>3, RebootedLayers DEF Tables
    <2>2. /\ db' = db /\ meta' = meta /\ pc' \notin FlushPc /\ flush' = NoFlush
          /\ dbBatches' = NoBatches
          /\ lastAddressSymbol' = OrElse(meta.latestAddressSymbol, 0)
      BY <1>3 DEF Reboot, FlushPc
    <2>3. /\ meta.latestAddressSymbol # None => lastAddressSymbol' = meta.latestAddressSymbol
          /\ lastAddressSymbol' \in Nat
      BY <2>2 DEF OrElse, OrNone
    <2>4. NamesInv'
      BY <2>1, <2>2, <2>3 DEF NamesInv, AddressSymbolsUnique, OneToOne
    <2>5. NaturalNames(db)' /\ NaturalNames(flush.ops)' /\ NaturalNames(dbBatches)'
      BY <2>2, EmptyShaped DEF NaturalNames, EmptyMap, Tables
    <2> QED
      BY <1>0, <2>2, <2>3, <2>4, <2>5
  <1>4. ASSUME ~FlushBegins, ~WriteBatches, ~Reboot
        PROVE  UniqueInv'
    <2>1. Quiet
      BY <1>4, ShapedStillSteps, QuietSteps DEF Still
    <2>2. NamesUnchanged \/ \E a : AllocateAddress(a)
      BY <1>4, ShapedNamesSteps DEF NameAddress, LookupName
    <2>3. ASSUME NEW a, AllocateAddress(a)
          PROVE  /\ lastAddressSymbol' = lastAddressSymbol + 1
                 /\ dbBatches'["address-sym"]
                      = Put(dbBatches["address-sym"], a, lastAddressSymbol + 1)
      BY <2>3 DEF AllocateAddress, NewAddressSymbol, Shaped, Tables
    <2> QED
      BY <1>0, <2>1, <2>2, <2>3, QuietUnique
  <1> QED
    BY <1>1, <1>2, <1>3, <1>4

LEMMA UniqueStep ==
  ASSUME UniqueInv, [AskingNext]_<<vars, asks>>
  PROVE  UniqueInv'
  <1>1. CASE [Next]_vars
    BY <1>1, UniqueNext
  <1>2. ASSUME NEW o \in QueryUtxo, UtxoRequest(o)
        PROVE  UniqueInv'
    <2>1. /\ Shaped' /\ UNCHANGED <<db, meta, flush, safeLastBlockSymbol, worker>>
          /\ \/ NamesUnchanged
             \/ /\ lastAddressSymbol' = lastAddressSymbol + 1
                /\ dbBatches'["address-sym"]
                     = Put(dbBatches["address-sym"], AddressOf(o), lastAddressSymbol + 1)
      BY <1>2, UtxoRequestSteps DEF UniqueInv
    <2>2. Quiet
      BY <2>1 DEF Quiet, worker
    <2> QED
      BY <2>1, <2>2, QuietUnique
  <1> QED
    BY <1>1, <1>2 DEF AskingNext, Next

LEMMA UniqueInit == AskingInit => UniqueInv
  <1> SUFFICES ASSUME AskingInit PROVE UniqueInv
    OBVIOUS
  <1>1. /\ \A t \in Tables : db[t] = EmptyMap
        /\ meta = NoMetadata /\ flush = NoFlush /\ dbBatches = NoBatches
        /\ lastAddressSymbol = 0 /\ pc = "idle"
    BY DEF AskingInit, Init
  <1>2. /\ DOMAIN Overlay(EmptyMap, EmptyMap) = {} /\ DOMAIN EmptyMap = {}
        /\ Overlay(Overlay(EmptyMap, EmptyMap), EmptyMap) = Overlay(EmptyMap, EmptyMap)
    BY OverlayEmpty, OverlayTwice DEF EmptyMap
  <1>3. DOMAIN Written("address-sym") = {} /\ DOMAIN View("address-sym") = {}
    BY <1>1, <1>2, EmptyShaped DEF Written, View, Tables
  <1>4. NamesInv
    BY <1>1, <1>2, <1>3 DEF NamesInv, AddressSymbolsUnique, OneToOne, FlushPc, Tables
  <1> QED
    BY <1>1, <1>2, <1>4, EmptyShaped
       DEF UniqueInv, Shaped, NaturalNames, FlushPc, NoMetadata, OrNone, Tables

(* No two addresses share a symbol when requests for single outputs name    *)
(* addresses, too, after a wait of their own, whatever the ledger, the     *)
(* batch sizes, flushes, reorgs, crashes and exits: recoverMissingUtxo     *)
(* looks an address up and names it in two steps, as batchAddressSymbol is *)
(* called everywhere, and may do so in the middle of a flush.              *)
THEOREM AskingKeepsAddressSymbolsUnique == AskingSpec => []AddressSymbolsUnique
  <1>1. UniqueInv => AddressSymbolsUnique
    BY DEF UniqueInv, NamesInv
  <1> QED
    BY <1>1, UniqueInit, UniqueStep, PTL DEF AskingSpec

-----------------------------------------------------------------------------
(* Second part.  Heights.                                                  *)

(* Heights are no longer without a gap below every known block, and a       *)
(* request may give a block its symbol while a flush or a removal is under *)
(* way.  What remains: a known block has its height, ...                    *)
Tidy(blocks, known) ==
  /\ \A h \in DOMAIN blocks : blocks[h] \in Block /\ Height[blocks[h]] = h
  /\ \A b \in DOMAIN known : known[b] = Height[b] /\ Height[b] \in DOMAIN blocks

FlushedHeights == DOMAIN Written("sym-block")

(* ... each layer has the heights of those below, ...                       *)
LayersInv ==
  /\ Tidy(db["sym-block"], db["block-sym"])
  /\ Tidy(Written("sym-block"), Written("block-sym"))
  /\ Tidy(View("sym-block"), View("block-sym"))
  /\ DbHeights \subseteq FlushedHeights /\ FlushedHeights \subseteq Heights
  /\ DOMAIN Written("block-sym") \subseteq DOMAIN View("block-sym")
  /\ pc # "secondFlush" => DOMAIN db["block-sym"] \subseteq DOMAIN Written("block-sym")
  /\ \A b \in DOMAIN lastSeenBlockHashes :
       /\ lastSeenBlockHashes[b] = Height[b] /\ Height[b] \in Heights
       /\ pc # "secondFlush" => b \in DOMAIN View("block-sym")

(* ... and those up to the height stored, written and in memory, which is   *)
(* what a removal gets from below the removed block.                       *)
LevelsInv ==
  /\ DbHeight \in Nat \cup {-1} /\ lastBlockSymbol \in Nat \cup {-1}
  /\ 0 .. DbHeight \subseteq DbHeights /\ 0 .. lastBlockSymbol \subseteq Heights
  /\ IF pc = "secondFlush"
     THEN safeLastBlockSymbol = lastBlockSymbol /\ 0 .. lastBlockSymbol \subseteq DbHeights
     ELSE safeLastBlockSymbol = DbHeight
  /\ pc \in FlushPc =>
       flush.meta.latestBlockSymbol = lastBlockSymbol /\ 0 .. lastBlockSymbol \subseteq FlushedHeights
  /\ pc \in RemovalPc \cup {"firstFlush"} =>
       /\ Height[job.block] # 0 /\ Parent[job.block] \in DOMAIN Written("block-sym")
       /\ 0 .. Height[job.block] - 1 \subseteq FlushedHeights

PathInv ==
  /\ workQueue \in Seq(Block) /\ synced \in Seq(Block)
  /\ "block" \in DOMAIN job /\ job.block \in Block

(* A request that asks for a block's symbol has the block.                  *)
AskedInv ==
  /\ DOMAIN asks = QueryUtxo
  /\ \A o \in QueryUtxo :
       /\ DOMAIN asks[o] = DOMAIN NotAsked
       /\ asks[o].at \in {"block", "getblock"} => asks[o].block \in Block

DurableInv == UniqueInv /\ LayersInv /\ LevelsInv /\ PathInv /\ QueueInv

(* The job keeps its block until the worker is done with it.                *)
LEMMA PathStep ==
  ASSUME PathInv, LayersInv, LevelsInv, [Next]_vars
  PROVE  /\ PathInv'
         /\ pc' \in {"taken", "firstFlush"} \cup RemovalPc => job'.block = job.block \/ Take
  <1>1. DOMAIN NoJob = {"block", "tx", "pos", "resolved", "minTxSymbol"}
        /\ NoJob.block = Genesis /\ Genesis \in Block
    BY LedgerTypes DEF NoJob
  <1> USE DEF PathInv, RemovalPc
  <1>2. CASE Take
    <2>1. Head(workQueue) \in Block /\ Tail(workQueue) \in Seq(Block)
      BY <1>2 DEF Take
    <2>2. "block" \in DOMAIN job' /\ job'.block = Head(workQueue)
      BY <1>1, <1>2 DEF Take
    <2> QED
      BY <1>2, <2>1, <2>2 DEF Take, syncer
  <1>3. CASE Syncer
    <2>1. PICK b \in Block : BlockAdded(b) \/ BlockRemoved(b)
      BY <1>3 DEF Syncer
    <2>2. /\ workQueue' = Append(workQueue, b) /\ job' = job
          /\ synced' = Append(synced, b) \/ synced' = SubSeq(synced, 1, Len(synced) - 1)
      BY <2>1 DEF BlockAdded, BlockRemoved, HandleBlock, worker
    <2>3. Append(workQueue, b) \in Seq(Block) /\ Append(synced, b) \in Seq(Block)
      OBVIOUS
    <2>4. SubSeq(synced, 1, Len(synced) - 1) \in Seq(Block)
      <3>1. \A i \in 1 .. Len(synced) - 1 : synced[i] \in Block
        OBVIOUS
      <3> QED
        BY <3>1, SubSeqProperties
    <2> QED
      BY <2>2, <2>3, <2>4
  <1>4. CASE Reboot
    <2>1. DbChain \in Seq(Block)
      <3>1. DbHeight + 1 \in Nat /\ \A i \in 1 .. DbHeight + 1 : i - 1 \in DbHeights
        BY DEF LevelsInv
      <3>2. \A h \in DbHeights : db["sym-block"][h] \in Block
        BY DEF LayersInv, Tidy, DbHeights
      <3> QED
        BY <3>1, <3>2 DEF DbChain
    <2> QED
      BY <1>1, <1>4, <2>1 DEF Reboot
  <1>5. CASE UNCHANGED vars \/ Requests \/ SaveState \/ Exit \/ WriteBatches
             \/ \E a \in flush.todo : FlushList(a)
    BY <1>5 DEF vars, worker, outside, events, syncer, Requests, LookupMiss, LookupName,
                AllocateAddress, FlushList, SaveState, Exit, WriteBatches
  <1>6. CASE SkipBlock \/ FinishBlock \/ FinishBlockAndFlush \/ CommitRemove
    BY <1>1, <1>6 DEF SkipBlock, FinishBlock, FinishBlockAndFlush, CommitRemove, outside, events,
                      syncer
  <1>7. CASE AddBlock \/ SkipTx \/ AddTx \/ SpendInput \/ ResolveAddress \/ MissAddress
    BY <1>7 DEF AddBlock, SkipTx, AddTx, SpendInput, ResolveAddress, MissAddress, NextTx, outside,
                events, syncer
  <1>8. CASE NameAddress \/ BeginOutputs \/ CreateOutput \/ FinishTx
    BY <1>8 DEF NameAddress, AllocateAddress, BeginOutputs, CreateOutput, FinishTx, NextTx, outside,
                events, syncer
  <1>9. CASE BeginRemove \/ RemoveTx \/ RevalidateInput
    BY <1>9 DEF BeginRemove, RemoveTx, RevalidateInput, NextTx, outside, events, syncer
  <1>10. CASE EndRevalidation \/ RemoveOutput \/ RemoveTxSymbol
    BY <1>10 DEF EndRevalidation, RemoveOutput, RemoveTxSymbol, NextTx, outside, events, syncer
  <1> QED
    BY <1>2, <1>3, <1>4, <1>5, <1>6, <1>7, <1>8, <1>9, <1>10
       DEF Next, Worker, Adding, Removing, Flushing, Crash, Restart

(* A block that has a symbol has its height, and is known in memory.        *)
LEMMA HasSymbol ==
  ASSUME LayersInv, NEW b, BlockSymbol(b) # None
  PROVE  /\ BlockSymbol(b) = Height[b] /\ Height[b] \in Heights
         /\ pc # "secondFlush" => b \in DOMAIN View("block-sym")
  <1>1. CASE b \in DOMAIN lastSeenBlockHashes
    BY <1>1 DEF LayersInv, BlockSymbol
  <1>2. CASE b \notin DOMAIN lastSeenBlockHashes
    <2>1. b \in DOMAIN db["block-sym"] /\ BlockSymbol(b) = db["block-sym"][b]
      BY <1>2 DEF BlockSymbol, Get
    <2> QED
      BY <2>1 DEF LayersInv, Tidy, DbHeights
  <1> QED
    BY <1>1, <1>2

(* A block gets its symbol, from the worker or from a request.              *)
LEMMA BlockGetsSymbol ==
  ASSUME LayersInv, Quiet, NEW b \in Block,
         dbBatches'["block-sym"] = Put(dbBatches["block-sym"], b, Height[b]),
         dbBatches'["sym-block"] = Put(dbBatches["sym-block"], Height[b], b),
         lastSeenBlockHashes' = Put(lastSeenBlockHashes, b, Height[b])
  PROVE  LayersInv' /\ Heights' = Heights \cup {Height[b]}
  <1> PICK h \in Nat : h = Height[b]
    BY LedgerFacts
  <1>1. h # Deleted /\ b # Deleted
    BY SentinelsAreNoValues
  <1>2. /\ \A x : x \in DOMAIN View("sym-block")' <=> x = h \/ x \in DOMAIN View("sym-block")
        /\ View("sym-block")'[h] = b
        /\ \A x \in DOMAIN View("sym-block") : x # h =>
             View("sym-block")'[x] = View("sym-block")[x]
    BY <1>1, ViewPut DEF BlockTables
  <1>3. /\ \A x : x \in DOMAIN View("block-sym")' <=> x = b \/ x \in DOMAIN View("block-sym")
        /\ View("block-sym")'[b] = h
        /\ \A x \in DOMAIN View("block-sym") : x # b =>
             View("block-sym")'[x] = View("block-sym")[x]
    BY <1>1, ViewPut DEF BlockTables
  <1>4. Heights' = Heights \cup {h}
    BY <1>2 DEF Heights
  <1>5. Tidy(View("sym-block"), View("block-sym"))'
    BY <1>2, <1>3 DEF LayersInv, Tidy
  <1>6. /\ db' = db /\ Written("sym-block")' = Written("sym-block")
        /\ Written("block-sym")' = Written("block-sym")
        /\ pc' = "secondFlush" <=> pc = "secondFlush"
    BY LayersKept DEF Quiet, BlockTables, FlushPc
  <1>7. /\ DOMAIN lastSeenBlockHashes' = DOMAIN lastSeenBlockHashes \cup {b}
        /\ lastSeenBlockHashes'[b] = h
        /\ \A x \in DOMAIN lastSeenBlockHashes : x # b =>
             lastSeenBlockHashes'[x] = lastSeenBlockHashes[x]
    BY DEF Put, Merge
  <1>8. \A x \in DOMAIN lastSeenBlockHashes' :
          /\ lastSeenBlockHashes'[x] = Height[x] /\ Height[x] \in Heights'
          /\ pc' # "secondFlush" => x \in DOMAIN View("block-sym")'
    BY <1>3, <1>4, <1>6, <1>7 DEF LayersInv
  <1>9. DbHeights' = DbHeights /\ FlushedHeights' = FlushedHeights
    BY <1>6 DEF DbHeights, FlushedHeights
  <1>10. /\ Tidy(db["sym-block"], db["block-sym"])'
         /\ Tidy(Written("sym-block"), Written("block-sym"))'
    BY <1>6 DEF LayersInv, Tidy
  <1>11. DOMAIN Written("block-sym")' \subseteq DOMAIN View("block-sym")'
    BY <1>3, <1>6 DEF LayersInv
  <1> QED
    BY <1>4, <1>5, <1>6, <1>8, <1>9, <1>10, <1>11 DEF LayersInv

(* A step that gives no block a symbol and leaves the disk and the flush    *)
(* alone.                                                                  *)
LEMMA LayersFrame ==
  ASSUME LayersInv, Quiet, UNCHANGED lastSeenBlockHashes,
         \A t \in {"block-sym", "sym-block"} : dbBatches'[t] = dbBatches[t]
  PROVE  LayersInv' /\ Heights' = Heights
  <1>1. /\ db' = db
        /\ pc' = "secondFlush" <=> pc = "secondFlush"
        /\ \A t \in {"block-sym", "sym-block"} :
             Written(t)' = Written(t) /\ View(t)' = View(t)
    BY LayersKept DEF Quiet, BlockTables, FlushPc
  <1>2. /\ DbHeights' = DbHeights /\ FlushedHeights' = FlushedHeights /\ Heights' = Heights
    BY <1>1 DEF DbHeights, FlushedHeights, Heights
  <1> QED
    BY <1>1, <1>2 DEF LayersInv, Tidy

LEMMA LevelsFrame ==
  ASSUME LevelsInv, Quiet, Heights \subseteq Heights', UNCHANGED lastBlockSymbol,
         pc' \in RemovalPc => pc \in RemovalPc,
         pc' \in RemovalPc \cup {"firstFlush"} => job'.block = job.block
  PROVE  LevelsInv'
  <1>1. /\ db' = db /\ meta' = meta /\ safeLastBlockSymbol' = safeLastBlockSymbol
        /\ flush'.meta = flush.meta
        /\ Written("sym-block")' = Written("sym-block")
        /\ Written("block-sym")' = Written("block-sym")
    BY LayersKept DEF Quiet, BlockTables
  <1>2. /\ DbHeights' = DbHeights /\ DbHeight' = DbHeight /\ FlushedHeights' = FlushedHeights
    BY <1>1 DEF DbHeights, DbHeight, FlushedHeights
  <1>3. /\ pc' = "secondFlush" <=> pc = "secondFlush"
        /\ pc' \in FlushPc <=> pc \in FlushPc
        /\ pc' \in RemovalPc \cup {"firstFlush"} => pc \in RemovalPc \cup {"firstFlush"}
    BY DEF Quiet, FlushPc
  <1>4. /\ 0 .. lastBlockSymbol' \subseteq Heights' /\ 0 .. DbHeight' \subseteq DbHeights'
    BY <1>2 DEF LevelsInv
  <1>5. pc' \in RemovalPc \cup {"firstFlush"} =>
       /\ Height[job'.block] # 0 /\ Parent[job'.block] \in DOMAIN Written("block-sym")'
       /\ 0 .. Height[job'.block] - 1 \subseteq FlushedHeights'
    BY <1>1, <1>2, <1>3 DEF LevelsInv
  <1>6. /\ IF pc' = "secondFlush"
           THEN safeLastBlockSymbol' = lastBlockSymbol' /\ 0 .. lastBlockSymbol' \subseteq DbHeights'
           ELSE safeLastBlockSymbol' = DbHeight'
        /\ pc' \in FlushPc => /\ flush'.meta.latestBlockSymbol = lastBlockSymbol'
                              /\ 0 .. lastBlockSymbol' \subseteq FlushedHeights'
    BY <1>1, <1>2, <1>3 DEF LevelsInv
  <1> QED
    BY <1>2, <1>4, <1>5, <1>6 DEF LevelsInv

LEMMA LevelsAddBlock ==
  ASSUME LevelsInv, QueueInv, PathInv, AddBlock, Quiet,
         Heights' = Heights \cup {Height[job.block]}
  PROVE  LevelsInv'
  <1>1. /\ pc = "taken" /\ pc' = "tx" /\ lastBlockSymbol' = Height[job.block]
        /\ Height[job.block] \in Nat
    BY LedgerFacts DEF AddBlock, PathInv
  <1>2. /\ DbHeights' = DbHeights /\ DbHeight' = DbHeight
        /\ safeLastBlockSymbol' = safeLastBlockSymbol
    BY DEF DbHeights, DbHeight, Quiet
  <1>3. 0 .. Height[job.block] \subseteq Heights'
    <2>1. 0 .. Height[job.block] - 1 \subseteq Heights
      BY <1>1 DEF QueueInv
    <2>2. \A x \in 0 .. Height[job.block] : x \in 0 .. Height[job.block] - 1 \/ x = Height[job.block]
      BY <1>1
    <2> QED
      BY <2>1, <2>2
  <1> QED
    BY <1>1, <1>2, <1>3 DEF LevelsInv, FlushPc, RemovalPc

(* A flush takes the batches with the height they have.                     *)
LEMMA LayersTaken ==
  ASSUME UniqueInv, LayersInv, FlushBegins
  PROVE  LayersInv' /\ Heights' = Heights /\ FlushedHeights' = Heights
  <1>1. /\ db' = db /\ lastSeenBlockHashes' = lastSeenBlockHashes
        /\ pc \notin FlushPc /\ (pc' = "secondFlush" <=> pc = "untx")
    BY ShapedTaken DEF UniqueInv, caches
  <1>2. flush = NoFlush
    BY <1>1 DEF UniqueInv
  <1>3. /\ Written("sym-block")' = View("sym-block") /\ View("sym-block")' = View("sym-block")
        /\ Written("block-sym")' = View("block-sym")'
        /\ \A b \in DOMAIN View("block-sym")' :
             b \in DOMAIN View("block-sym") /\ View("block-sym")'[b] = View("block-sym")[b]
        /\ pc # "untx" => View("block-sym")' = View("block-sym")
    BY <1>2, ShapedTakenLayers DEF UniqueInv
  <1>4. DbHeights' = DbHeights /\ Heights' = Heights /\ FlushedHeights' = Heights
    BY <1>1, <1>3 DEF DbHeights, Heights, FlushedHeights
  <1>5. /\ Tidy(db["sym-block"], db["block-sym"])'
        /\ Tidy(View("sym-block"), View("block-sym"))'
        /\ Tidy(Written("sym-block"), Written("block-sym"))'
    BY <1>1, <1>3 DEF LayersInv, Tidy
  <1>6. \A b \in DOMAIN lastSeenBlockHashes' :
       /\ lastSeenBlockHashes'[b] = Height[b] /\ Height[b] \in Heights'
       /\ pc' # "secondFlush" => b \in DOMAIN View("block-sym")'
    BY <1>1, <1>3, <1>4 DEF LayersInv, FlushPc
  <1>7. pc' # "secondFlush" => DOMAIN db'["block-sym"] \subseteq DOMAIN Written("block-sym")'
    BY <1>1, <1>3 DEF LayersInv, FlushPc
  <1> QED
    BY <1>3, <1>4, <1>5, <1>6, <1>7 DEF LayersInv

LEMMA LevelsTaken ==
  ASSUME DurableInv, FlushBegins
  PROVE  LevelsInv'
  <1> USE DEF DurableInv
  <1>1. /\ db' = db /\ meta' = meta /\ pc \notin FlushPc /\ pc' \in FlushPc
        /\ (pc' = "secondFlush" <=> pc = "untx") /\ (pc' = "firstFlush" <=> pc = "taken")
        /\ flush'.meta.latestBlockSymbol = lastBlockSymbol'
        /\ pc # "untx" => UNCHANGED heights
    BY ShapedTaken DEF UniqueInv
  <1>2. Heights' = Heights /\ FlushedHeights' = Heights
    BY LayersTaken
  <1>3. DbHeights' = DbHeights /\ DbHeight' = DbHeight
    BY <1>1 DEF DbHeights, DbHeight
  <1>4. CASE pc = "untx"
    <2>1. /\ lastBlockSymbol' = ParentSymbol(job.block) /\ safeLastBlockSymbol' = lastBlockSymbol'
      BY <1>4 DEF FlushBegins, FinishBlockAndFlush, BeginRemove, CommitRemove, SaveState
    <2> DEFINE b == job.block
               q == Parent[job.block]
    <2>2. /\ b \in Block /\ q \in Block /\ Height[b] \in Nat /\ Height[q] \in Nat
          /\ Height[b] # 0 /\ q \in DOMAIN Written("block-sym")
          /\ 0 .. Height[b] - 1 \subseteq FlushedHeights
      BY <1>4, LedgerFacts DEF PathInv, LevelsInv, RemovalPc
    <2>3. Height[b] = Height[q] + 1
      BY <2>2, LedgerTree
    <2>4. /\ DOMAIN Written("block-sym") = DOMAIN db["block-sym"]
          /\ FlushedHeights = DbHeights
      <3>1. flush.ops["block-sym"] = EmptyMap /\ flush.ops["sym-block"] = EmptyMap
        BY <1>1, EmptyShaped DEF UniqueInv, Tables
      <3> QED
        BY <3>1, OverlayEmpty DEF Written, FlushedHeights, DbHeights
    <2>5. BlockSymbol(q) # None
      BY <2>2, <2>4, SentinelsAreNoValues DEF BlockSymbol, Get, LayersInv, Tidy
    <2>6. ParentSymbol(b) = Height[q]
      BY <2>2, <2>5, HasSymbol DEF ParentSymbol
    <2>7. lastBlockSymbol' = Height[b] - 1 /\ lastBlockSymbol' \in Nat
      BY <2>1, <2>2, <2>3, <2>6
    <2>8. 0 .. lastBlockSymbol' \subseteq DbHeights /\ 0 .. lastBlockSymbol' \subseteq Heights
      BY <2>2, <2>4, <2>7 DEF LayersInv
    <2>9. pc' = "secondFlush"
      BY <1>1, <1>4
    <2> HIDE DEF b, q
    <2> QED
      BY <1>1, <1>2, <1>3, <2>1, <2>7, <2>8, <2>9 DEF LevelsInv, FlushPc, RemovalPc
  <1>5. CASE pc # "untx"
    <2>1. /\ lastBlockSymbol' = lastBlockSymbol /\ safeLastBlockSymbol' = safeLastBlockSymbol
          /\ pc' # "secondFlush" /\ pc # "secondFlush" /\ pc' \notin RemovalPc
      BY <1>1, <1>5 DEF heights, FlushPc, RemovalPc
    <2>2. ASSUME pc' = "firstFlush"
          PROVE  /\ Height[job'.block] # 0 /\ Parent[job'.block] \in DOMAIN Written("block-sym")'
                 /\ 0 .. Height[job'.block] - 1 \subseteq FlushedHeights'
      <3>1. /\ job' = job /\ pc = "taken" /\ ParentSymbol(job.block) # None
        BY <2>2 DEF FlushBegins, FinishBlockAndFlush, BeginRemove, CommitRemove, SaveState
      <3>2. Height[job.block] # 0 /\ BlockSymbol(Parent[job.block]) # None
        BY <3>1 DEF ParentSymbol
      <3>3. Parent[job.block] \in DOMAIN View("block-sym")
        BY <3>1, <3>2, HasSymbol
      <3>4. Written("block-sym")' = View("block-sym")
        BY <1>1, <1>5, ShapedTakenLayers DEF UniqueInv
      <3>5. 0 .. Height[job.block] - 1 \subseteq Heights
        BY <3>1 DEF QueueInv
      <3> QED
        BY <1>2, <3>1, <3>2, <3>3, <3>4, <3>5
    <2> QED
      BY <1>1, <1>2, <1>3, <2>1, <2>2 DEF LevelsInv
  <1> QED
    BY <1>4, <1>5

(* The write makes the disk what the flush had of it.                       *)
LEMMA DurableWritten ==
  ASSUME DurableInv, WriteBatches
  PROVE  LayersInv' /\ LevelsInv' /\ Heights' = Heights
  <1> USE DEF DurableInv
  <1>1. /\ \A t \in Tables : db'[t] = Written(t)
        /\ flush' = NoFlush /\ dbBatches' = dbBatches /\ pc \in FlushPc
        /\ meta' = flush.meta /\ lastBlockSymbol' = lastBlockSymbol /\ job' = job
        /\ safeLastBlockSymbol' = lastBlockSymbol /\ DOMAIN lastSeenBlockHashes' = {}
        /\ pc' = IF pc = "firstFlush" THEN "untx" ELSE "idle"
    BY DEF WriteBatches, Written, EmptyMap
  <1>2. \A t \in Tables : Written(t)' = Written(t) /\ View(t)' = View(t)
    <2>1. \A t \in Tables : flush'.ops[t] = EmptyMap
      BY <1>1, EmptyShaped
    <2>2. \A t \in Tables : Written(t)' = Written(t)
      BY <1>1, <2>1, OverlayTwice DEF Written
    <2> QED
      BY <1>1, <2>2 DEF View
  <1>3. /\ DbHeights' = FlushedHeights /\ FlushedHeights' = FlushedHeights /\ Heights' = Heights
    BY <1>1, <1>2 DEF DbHeights, FlushedHeights, Heights, Tables
  <1>4. LayersInv'
    BY <1>1, <1>2, <1>3 DEF LayersInv, Tidy, Tables
  <1>5. DbHeight' = lastBlockSymbol
    BY <1>1, SentinelsAreNoValues DEF DbHeight, OrElse, LevelsInv
  <1>6. pc' \notin FlushPc /\ (pc' \in RemovalPc => pc = "firstFlush") /\ pc' # "firstFlush"
    BY <1>1 DEF FlushPc, RemovalPc
  <1>7. Written("block-sym")' = Written("block-sym")
    BY <1>2 DEF Tables
  <1>8. pc' # "secondFlush"
    BY <1>6 DEF FlushPc
  <1>9. LevelsInv'
    BY <1>1, <1>3, <1>5, <1>6, <1>7, <1>8 DEF LevelsInv
  <1> QED
    BY <1>3, <1>4, <1>9

LEMMA DurableReboot ==
  ASSUME DurableInv, Reboot
  PROVE  LayersInv' /\ LevelsInv' /\ QueueInv'
  <1> USE DEF DurableInv
  <1>1. /\ db' = db /\ meta' = meta /\ pc' = "idle" /\ DOMAIN lastSeenBlockHashes' = {}
        /\ lastBlockSymbol' = DbHeight /\ safeLastBlockSymbol' = DbHeight
        /\ workQueue' = <<>> /\ synced' = DbChain
    BY DEF Reboot, EmptyMap
  <1>2. \A t \in Tables :
          /\ DOMAIN Written(t)' = DOMAIN db[t] /\ DOMAIN View(t)' = DOMAIN db[t]
          /\ \A k \in DOMAIN db[t] : Written(t)'[k] = db[t][k] /\ View(t)'[k] = db[t][k]
    BY RebootedLayers
  <1>3. /\ DbHeights' = DbHeights /\ FlushedHeights' = DbHeights /\ Heights' = DbHeights
        /\ DbHeight' = DbHeight
    BY <1>1, <1>2 DEF DbHeights, FlushedHeights, Heights, DbHeight, Tables
  <1>4. LayersInv'
    BY <1>1, <1>2, <1>3 DEF LayersInv, Tidy, Tables
  <1>5. LevelsInv'
    BY <1>1, <1>3 DEF LevelsInv, FlushPc, RemovalPc
  <1>6. QueueInv'
    <2>1. DbHeight + 1 \in Nat
      BY DEF LevelsInv
    <2>2. Len(DbChain) = DbHeight + 1 /\ \A i \in 1 .. DbHeight + 1 : DbChain[i] = db["sym-block"][i - 1]
      BY <2>1 DEF DbChain
    <2>3. DOMAIN DbChain = 1 .. DbHeight + 1
      BY DEF DbChain
    <2>4. \A i \in 1 .. DbHeight + 1 : i - 1 \in DbHeights
      BY <2>1 DEF LevelsInv
    <2>5. \A h \in DbHeights : Height[db["sym-block"][h]] = h
      BY DEF LayersInv, Tidy, DbHeights
    <2>6. \A i \in DOMAIN synced' : Height[synced'[i]] = i - 1
      BY <1>1, <2>2, <2>3, <2>4, <2>5
    <2>7. 0 .. Len(synced') - 1 \subseteq Heights'
      <3>1. DbHeight \in Int
        BY DEF LevelsInv
      <3>2. Len(synced') = Len(DbChain)
        BY <1>1
      <3>3. Len(synced') - 1 = DbHeight
        BY <2>2, <3>1, <3>2
      <3> QED
        BY <1>3, <3>3 DEF LevelsInv
    <2> QED
      BY <1>1, <2>6, <2>7 DEF QueueInv
  <1> QED
    BY <1>4, <1>5, <1>6

LEMMA DurableNext ==
  ASSUME DurableInv, [Next]_vars
  PROVE  DurableInv'
  <1> USE DEF DurableInv
  <1>1. UniqueInv'
    BY UniqueNext
  <1>2. PathInv' /\ (pc' \in {"taken", "firstFlush"} \cup RemovalPc => job'.block = job.block \/ Take)
    BY PathStep
  <1>3. /\ Quiet \/ FlushBegins \/ WriteBatches \/ Reboot
        /\ \/ /\ UNCHANGED <<lastSeenBlockHashes, lastBlockSymbol>>
              /\ \A t \in {"block-sym", "sym-block"} : dbBatches'[t] = dbBatches[t]
              /\ pc' \in RemovalPc => pc \in RemovalPc
           \/ AddBlock \/ FlushBegins \/ WriteBatches \/ Reboot
    <2>1. AddTx \/ RemoveTxSymbol =>
            /\ UNCHANGED <<lastSeenBlockHashes, lastBlockSymbol>>
            /\ \A t \in {"block-sym", "sym-block"} : dbBatches'[t] = dbBatches[t]
            /\ pc' \in RemovalPc => pc \in RemovalPc
      BY DEF AddTx, RemoveTxSymbol, heights, caches, UniqueInv, Shaped, Tables, RemovalPc
    <2> QED
      BY <2>1, ShapedStillSteps, QuietSteps DEF UniqueInv, Still, BlockTables
  <1>4. CASE Reboot
    BY <1>1, <1>2, <1>4, DurableReboot
  <1>5. ASSUME ~Reboot
        PROVE  LayersInv' /\ LevelsInv' /\ Heights \subseteq Heights'
               /\ (AddBlock => Height[job.block] \in Heights')
    <2>1. CASE FlushBegins
      <3>1. ~AddBlock
        BY <2>1, ShapedTaken DEF UniqueInv, AddBlock, FlushPc
      <3> QED
        BY <2>1, <3>1, LayersTaken, LevelsTaken
    <2>2. CASE WriteBatches
      <3>1. ~AddBlock
        BY <2>2 DEF WriteBatches, AddBlock, FlushPc
      <3> QED
        BY <2>2, <3>1, DurableWritten
    <2>3. CASE AddBlock
      <3>1. Quiet
        BY <2>3, QuietSteps
      <3>2. /\ dbBatches'["block-sym"] = Put(dbBatches["block-sym"], job.block, Height[job.block])
            /\ dbBatches'["sym-block"] = Put(dbBatches["sym-block"], Height[job.block], job.block)
            /\ lastSeenBlockHashes' = Put(lastSeenBlockHashes, job.block, Height[job.block])
        BY <2>3 DEF AddBlock, UniqueInv, Shaped, Tables
      <3>3. LayersInv' /\ Heights' = Heights \cup {Height[job.block]}
        BY <3>1, <3>2, BlockGetsSymbol DEF PathInv
      <3>4. LevelsInv'
        BY <2>3, <3>1, <3>3, LevelsAddBlock
      <3> QED
        BY <3>3, <3>4
    <2>4. ASSUME ~FlushBegins, ~WriteBatches, ~AddBlock
          PROVE  LayersInv' /\ LevelsInv' /\ Heights' = Heights
      <3>1. /\ Quiet /\ UNCHANGED <<lastSeenBlockHashes, lastBlockSymbol>>
            /\ \A t \in {"block-sym", "sym-block"} : dbBatches'[t] = dbBatches[t]
            /\ pc' \in RemovalPc => pc \in RemovalPc
        BY <1>3, <1>5, <2>4
      <3>2. LayersInv' /\ Heights' = Heights
        BY <3>1, LayersFrame
      <3>3. pc' \in RemovalPc \cup {"firstFlush"} => job'.block = job.block
        BY <1>2 DEF Take, RemovalPc
      <3>4. LevelsInv'
        BY <3>1, <3>2, <3>3, LevelsFrame
      <3> QED
        BY <3>2, <3>4
    <2> QED
      BY <2>1, <2>2, <2>3, <2>4
  <1>6. ASSUME ~Reboot
        PROVE  QueueInv'
    <2>1. pc = "taken" /\ BlockSymbol(job.block) # None => Height[job.block] \in Heights
      BY HasSymbol
    <2> QED
      BY <1>5, <1>6, <2>1, QueueMoves DEF PathInv
  <1> QED
    BY <1>1, <1>2, <1>4, <1>5, <1>6

LEMMA DurableAsked ==
  ASSUME DurableInv, AskedInv, NEW o \in QueryUtxo, UtxoRequest(o)
  PROVE  DurableInv'
  <1> USE DEF DurableInv
  <1>1. UniqueInv'
    BY UniqueStep DEF AskingNext
  <1>2. /\ UNCHANGED <<db, meta, flush, safeLastBlockSymbol, worker, outside>>
    BY UtxoRequestSteps DEF UniqueInv
  <1>3. Quiet /\ UNCHANGED <<pc, job, workQueue, synced>>
    BY <1>2 DEF Quiet, worker, outside, events, syncer
  <1>4. PathInv'
    BY <1>3 DEF PathInv
  <1>5. LayersInv' /\ Heights \subseteq Heights' /\ lastBlockSymbol' = lastBlockSymbol
    <2>1. CASE NameBlock(o)
      <3>1. asks[o].block \in Block
        BY <2>1 DEF AskedInv, NameBlock
      <3> QED
        BY <1>3, <2>1, <3>1, BlockGetsSymbol DEF NameBlock, UniqueInv, Shaped, Tables, heights
    <2>2. ASSUME ~NameBlock(o)
          PROVE  /\ UNCHANGED <<lastSeenBlockHashes, lastBlockSymbol>>
                 /\ \A t \in {"block-sym", "sym-block"} : dbBatches'[t] = dbBatches[t]
      BY <2>2 DEF UtxoRequest, AskUtxo, ReadTxSymbol, ReadUtxo, FetchTx, ReadBlockSymbol, MissBlock,
                  RememberUtxo, NameAndRememberUtxo, Answer, index, caches, heights, UniqueInv,
                  Shaped, Tables
    <2> QED
      BY <1>3, <2>1, <2>2, LayersFrame
  <1>6. LevelsInv'
    BY <1>3, <1>5, LevelsFrame
  <1>7. QueueInv'
    <2>1. TakenHeight' = TakenHeight
      BY <1>3 DEF TakenHeight
    <2> QED
      BY <1>3, <1>5, <2>1, QueueFrame
  <1> QED
    BY <1>1, <1>4, <1>5, <1>6, <1>7

LEMMA AskedStep ==
  ASSUME AskedInv, [AskingNext]_<<vars, asks>>
  PROVE  AskedInv'
  <1> DEFINE Good(r) == /\ DOMAIN r = DOMAIN NotAsked
                        /\ r.at \in {"block", "getblock"} => r.block \in Block
  <1>1. Good(NotAsked)
    BY DEF NotAsked
  <1>2. CASE asks' = asks
    BY <1>2 DEF AskedInv
  <1>3. CASE asks' = NoAsks
    BY <1>1, <1>3 DEF AskedInv, NoAsks
  <1>4. ASSUME NEW o \in QueryUtxo, UtxoRequest(o)
        PROVE  AskedInv'
    <2>1. PICK r : Proceeds(o, r) /\ Good(r)
      <3>1. Good(asks[o])
        BY DEF AskedInv
      <3>2. ASSUME NEW r, Good(r), NEW at, at \notin {"block", "getblock"}, NEW x
            PROVE  /\ Good([r EXCEPT !.at = at])
                   /\ Good([r EXCEPT !.at = at, !.tx = x])
                   /\ Good([r EXCEPT !.at = at, !.address = x])
                   /\ Good([r EXCEPT !.at = at, !.created = x])
        BY <3>2 DEF NotAsked
      <3>3. \A b \in Block : Good([asks[o] EXCEPT !.at = "block", !.block = b])
        BY <3>1 DEF NotAsked
      <3>4. asks[o].at = "block" => Good([asks[o] EXCEPT !.at = "getblock"])
        BY <3>1 DEF NotAsked
      <3> HIDE DEF Good
      <3>5. CASE AskUtxo(o)
        BY <1>1, <3>2, <3>5 DEF AskUtxo
      <3>6. CASE ReadTxSymbol(o) \/ ReadUtxo(o)
        BY <1>1, <3>1, <3>2, <3>6 DEF ReadTxSymbol, ReadUtxo, Ends
      <3>7. CASE FetchTx(o)
        BY <1>1, <3>1, <3>2, <3>3, <3>7 DEF FetchTx, BlocksOf, Ends
      <3>8. CASE ReadBlockSymbol(o)
        BY <3>1, <3>2, <3>4, <3>8 DEF ReadBlockSymbol
      <3>9. CASE NameBlock(o) \/ MissBlock(o)
        BY <3>1, <3>2, <3>9 DEF NameBlock, MissBlock
      <3>10. CASE RememberUtxo(o) \/ NameAndRememberUtxo(o)
        BY <3>1, <3>2, <3>10 DEF RememberUtxo, NameAndRememberUtxo
      <3>11. CASE Answer(o)
        BY <1>1, <3>11 DEF Answer, Ends
      <3> QED
        BY <1>4, <3>5, <3>6, <3>7, <3>8, <3>9, <3>10, <3>11 DEF UtxoRequest
    <2>2. DOMAIN asks' = QueryUtxo /\ \A q \in QueryUtxo : asks'[q] = IF q = o THEN r ELSE asks[q]
      BY <2>1 DEF Proceeds, AskedInv
    <2> QED
      BY <2>1, <2>2 DEF AskedInv
  <1> QED
    BY <1>2, <1>3, <1>4 DEF AskingNext

LEMMA DurableInit == AskingInit => DurableInv /\ AskedInv
  <1> SUFFICES ASSUME AskingInit PROVE DurableInv /\ AskedInv
    OBVIOUS
  <1>1. UniqueInv
    BY UniqueInit
  <1>2. /\ \A t \in Tables : db[t] = EmptyMap
        /\ meta = NoMetadata /\ flush = NoFlush /\ dbBatches = NoBatches
        /\ pc = "idle" /\ job = NoJob /\ workQueue = <<>> /\ synced = <<>>
        /\ lastBlockSymbol = -1 /\ safeLastBlockSymbol = -1
        /\ DOMAIN lastSeenBlockHashes = {} /\ asks = NoAsks
    BY DEF AskingInit, Init, EmptyMap
  <1>3. DOMAIN Overlay(EmptyMap, EmptyMap) = {} /\ DOMAIN EmptyMap = {}
        /\ Overlay(Overlay(EmptyMap, EmptyMap), EmptyMap) = Overlay(EmptyMap, EmptyMap)
    BY OverlayEmpty, OverlayTwice DEF EmptyMap
  <1>4. \A t \in Tables : DOMAIN db[t] = {} /\ DOMAIN Written(t) = {} /\ DOMAIN View(t) = {}
    BY <1>2, <1>3, EmptyShaped DEF Written, View
  <1>5. DbHeights = {} /\ FlushedHeights = {} /\ Heights = {}
    BY <1>4 DEF DbHeights, FlushedHeights, Heights, Tables
  <1>6. LayersInv
    BY <1>2, <1>4, <1>5 DEF LayersInv, Tidy, Tables
  <1>7. DbHeight = -1 /\ 0 .. -1 = {}
    BY <1>2 DEF NoMetadata, DbHeight, OrElse
  <1>8. LevelsInv
    BY <1>2, <1>5, <1>7 DEF LevelsInv, FlushPc, RemovalPc
  <1>9. PathInv
    BY <1>2, LedgerTypes DEF PathInv, NoJob
  <1>10. QueueInv
    BY <1>2 DEF QueueInv
  <1>11. AskedInv
    BY <1>2 DEF AskedInv, NoAsks, NotAsked
  <1> QED
    BY <1>1, <1>6, <1>8, <1>9, <1>10, <1>11 DEF DurableInv

LEMMA DurableStep ==
  ASSUME DurableInv, AskedInv, [AskingNext]_<<vars, asks>>
  PROVE  DurableInv' /\ AskedInv'
  <1>1. AskedInv'
    BY AskedStep
  <1>2. CASE [Next]_vars
    BY <1>1, <1>2, DurableNext
  <1>3. ASSUME NEW o \in QueryUtxo, UtxoRequest(o)
        PROVE  DurableInv'
    BY <1>3, DurableAsked
  <1> QED
    BY <1>1, <1>2, <1>3 DEF AskingNext, Next

(* The safe height stays the one on disk, and every height up to it stays   *)
(* on disk, in every setting, when requests for single outputs give blocks *)
(* symbols, too: recoverMissingUtxo calls batchBlockSymbol for a block the *)
(* worker has not reached, or has just taken back, in the middle of a      *)
(* flush or a removal.                                                     *)
THEOREM AskingKeepsSafeHeightsDurable == AskingSpec => []SafeHeightIsDurable
  <1>1. DurableInv => SafeHeightIsDurable
    BY DEF DurableInv, LayersInv, LevelsInv, Tidy, SafeHeightIsDurable, DbHeights
  <1> QED
    BY <1>1, DurableInit, DurableStep, PTL DEF AskingSpec

-----------------------------------------------------------------------------
(* Third part.  Owners.  A reading f gives a symbol the address it stands   *)
(* for.                                                                    *)
NamesTell(f, names, max) ==
  \A a \in DOMAIN names : names[a] \in 0 .. max /\ f[names[a]] = a

ListsTell(f, lists, max) ==
  \A s \in DOMAIN lists :
    /\ "address" \in DOMAIN lists[s]
    /\ s # None /\ lists[s].address # None => s \in 0 .. max /\ f[s] = lists[s].address

(* A list that is to be written has an owner if the stored one has: a       *)
(* removal writes the stored list back, and takes one it does not find for *)
(* an empty list of nobody.                                                *)
KeepsOwners(lists) ==
  \A s \in DOMAIN lists \cap DOMAIN db["address-utxos"] :
    s # None /\ db["address-utxos"][s].address # None => lists[s].address # None

(* The names and lists on disk need no symbol above the counter stored      *)
(* beside them: after a crash the index hands the others out again.        *)
StoredAddressSymbol == OrElse(meta.latestAddressSymbol, 0)

Told(f) ==
  /\ DOMAIN db = Tables /\ StoredAddressSymbol \in 0 .. lastAddressSymbol
  /\ pc \in FlushPc => flush.meta.latestAddressSymbol = lastAddressSymbol
  /\ NamesTell(f, db["address-sym"], StoredAddressSymbol)
  /\ NamesTell(f, flush.ops["address-sym"], lastAddressSymbol)
  /\ NamesTell(f, dbBatches["address-sym"], lastAddressSymbol)
  /\ NamesTell(f, lastSeenAddresses, lastAddressSymbol)
  /\ ListsTell(f, db["address-utxos"], StoredAddressSymbol)
  /\ ListsTell(f, flush.ops["address-utxos"], lastAddressSymbol)
  /\ ListsTell(f, dbBatches["address-utxos"], lastAddressSymbol)
  /\ KeepsOwners(flush.ops["address-utxos"]) /\ KeepsOwners(dbBatches["address-utxos"])
  /\ pc \notin RemovalPc \cup {"exited"} => DOMAIN dbBatches["address-utxos"] = {}

ToldInv == \E f : DOMAIN f = Nat /\ Told(f)

OwnersKept ==
  \A s \in (DOMAIN db["address-utxos"] \cap DOMAIN db'["address-utxos"]) \ {None} :
    db["address-utxos"][s].address # None =>
      db'["address-utxos"][s].address = db["address-utxos"][s].address

LEMMA NamesPut ==
  ASSUME NEW f, NEW max, NEW names, NamesTell(f, names, max), NEW a, NEW s \in 0 .. max, f[s] = a
  PROVE  NamesTell(f, Put(names, a, s), max)
  BY DEF NamesTell, Put, Merge

LEMMA ListsPut ==
  ASSUME NEW f, NEW max, NEW lists, ListsTell(f, lists, max), NEW list, NEW s,
         "address" \in DOMAIN list,
         s # None /\ list.address # None => s \in 0 .. max /\ f[s] = list.address
  PROVE  ListsTell(f, Put(lists, s, list), max)
  BY DEF ListsTell, Put, Merge

(* A reading holds on below a greater counter, and where another one that   *)
(* agrees with it up to the counter takes its place.                       *)
LEMMA TellsStill ==
  ASSUME NEW f, NEW g, NEW max \in Nat, NEW new \in Nat, max <= new,
         \A s \in 0 .. max : g[s] = f[s]
  PROVE  /\ \A names : NamesTell(f, names, max) => NamesTell(g, names, new)
         /\ \A lists : ListsTell(f, lists, max) => ListsTell(g, lists, new)
  BY DEF NamesTell, ListsTell

LEMMA SymbolTold ==
  ASSUME UniqueInv, NEW f, Told(f), NEW a, AddressSymbol(a) # None
  PROVE  AddressSymbol(a) \in 0 .. lastAddressSymbol /\ f[AddressSymbol(a)] = a
  <1>1. /\ NamesTell(f, lastSeenAddresses, lastAddressSymbol)
        /\ NamesTell(f, db["address-sym"], StoredAddressSymbol)
        /\ StoredAddressSymbol \in 0 .. lastAddressSymbol /\ lastAddressSymbol \in Nat
    BY DEF Told, UniqueInv
  <1> HIDE DEF StoredAddressSymbol
  <1>2. CASE a \in DOMAIN lastSeenAddresses
    BY <1>1, <1>2 DEF NamesTell, AddressSymbol
  <1>3. CASE a \notin DOMAIN lastSeenAddresses
    BY <1>1, <1>3 DEF NamesTell, AddressSymbol, Get
  <1> QED
    BY <1>2, <1>3

-----------------------------------------------------------------------------
(* Steps that leave the lists alone, and name an address or none.           *)

ListsUnchanged ==
  /\ UNCHANGED <<db, meta, flush>>
  /\ dbBatches'["address-utxos"] = dbBatches["address-utxos"]
  /\ pc \in RemovalPc \cup {"exited"} => pc' \in RemovalPc \cup {"exited"}
  /\ pc' \in FlushPc <=> pc \in FlushPc

LEMMA ToldQuiet ==
  ASSUME NEW f, Told(f), ListsUnchanged, NamesUnchanged
  PROVE  Told(f)' /\ OwnersKept
  BY DEF Told, ListsUnchanged, NamesUnchanged, StoredAddressSymbol, KeepsOwners, OwnersKept

Naming(a) ==
  /\ lastAddressSymbol' = lastAddressSymbol + 1
  /\ dbBatches'["address-sym"] = Put(dbBatches["address-sym"], a, lastAddressSymbol + 1)
  /\ lastSeenAddresses' = Put(lastSeenAddresses, a, lastAddressSymbol + 1)

LEMMA ToldNamed ==
  ASSUME UniqueInv, NEW f, DOMAIN f = Nat, Told(f), ListsUnchanged, pc \notin FlushPc,
         NEW a, Naming(a), NEW n, n = lastAddressSymbol + 1, NEW g, g = [f EXCEPT ![n] = a]
  PROVE  DOMAIN g = Nat /\ Told(g)' /\ OwnersKept
  <1>1. /\ lastAddressSymbol \in Nat /\ n \in Nat /\ n \in 0 .. n /\ lastAddressSymbol <= n
        /\ DOMAIN g = Nat /\ g[n] = a /\ \A s \in 0 .. lastAddressSymbol : g[s] = f[s]
    BY DEF UniqueInv
  <1>2. StoredAddressSymbol \in 0 .. lastAddressSymbol /\ StoredAddressSymbol' = StoredAddressSymbol
    BY DEF Told, ListsUnchanged, StoredAddressSymbol
  <1> HIDE DEF StoredAddressSymbol
  <1>3. StoredAddressSymbol \in Nat /\ \A s \in 0 .. StoredAddressSymbol : g[s] = f[s]
    BY <1>1, <1>2
  <1>4. /\ NamesTell(f, db["address-sym"], StoredAddressSymbol)
        /\ ListsTell(f, db["address-utxos"], StoredAddressSymbol)
        /\ NamesTell(f, flush.ops["address-sym"], lastAddressSymbol)
        /\ NamesTell(f, dbBatches["address-sym"], lastAddressSymbol)
        /\ NamesTell(f, lastSeenAddresses, lastAddressSymbol)
        /\ ListsTell(f, flush.ops["address-utxos"], lastAddressSymbol)
        /\ ListsTell(f, dbBatches["address-utxos"], lastAddressSymbol)
    BY DEF Told
  <1>5. /\ NamesTell(g, db["address-sym"], StoredAddressSymbol)
        /\ ListsTell(g, db["address-utxos"], StoredAddressSymbol)
    <2>1. \A names : NamesTell(f, names, StoredAddressSymbol) => NamesTell(g, names, StoredAddressSymbol)
      BY <1>3 DEF NamesTell
    <2>2. \A lists : ListsTell(f, lists, StoredAddressSymbol) => ListsTell(g, lists, StoredAddressSymbol)
      BY <1>3 DEF ListsTell
    <2> QED
      BY <1>4, <2>1, <2>2
  <1>6. /\ NamesTell(g, flush.ops["address-sym"], n)
        /\ NamesTell(g, dbBatches["address-sym"], n) /\ NamesTell(g, lastSeenAddresses, n)
        /\ ListsTell(g, flush.ops["address-utxos"], n)
        /\ ListsTell(g, dbBatches["address-utxos"], n)
    <2>1. \A names : NamesTell(f, names, lastAddressSymbol) => NamesTell(g, names, n)
      BY <1>1 DEF NamesTell
    <2>2. \A lists : ListsTell(f, lists, lastAddressSymbol) => ListsTell(g, lists, n)
      BY <1>1 DEF ListsTell
    <2> QED
      BY <1>4, <2>1, <2>2
  <1>7. /\ dbBatches'["address-sym"] = Put(dbBatches["address-sym"], a, n)
        /\ lastSeenAddresses' = Put(lastSeenAddresses, a, n) /\ lastAddressSymbol' = n
    BY DEF Naming
  <1>8. NamesTell(g, dbBatches'["address-sym"], n) /\ NamesTell(g, lastSeenAddresses', n)
    <2>1. NamesTell(g, Put(dbBatches["address-sym"], a, n), n)
      BY <1>1, <1>6, NamesPut
    <2>2. NamesTell(g, Put(lastSeenAddresses, a, n), n)
      BY <1>1, <1>6, NamesPut
    <2> QED
      BY <1>7, <2>1, <2>2
  <1>9. StoredAddressSymbol' \in 0 .. n
    BY <1>1, <1>2
  <1> QED
    BY <1>1, <1>2, <1>5, <1>6, <1>7, <1>8, <1>9
       DEF Told, ListsUnchanged, KeepsOwners, OwnersKept

-----------------------------------------------------------------------------
(* Steps that write a list.                                                 *)

LEMMA ToldRemoveOutput ==
  ASSUME UniqueInv, NEW f, Told(f), RemoveOutput
  PROVE  Told(f)' /\ OwnersKept
  <1> DEFINE a    == Vout[CurrentTx][job.pos]
             s    == AddressSymbol(a)
             list == [UtxoList(s) EXCEPT
                        !.coins = Unlisted(@, <<TxSymbol(CurrentTx), job.pos>>)]
             old  == dbBatches["address-utxos"]
  <1>1. /\ UNCHANGED <<db, meta, flush, lastSeenAddresses, lastAddressSymbol>>
        /\ pc = "unlist" /\ pc' = pc
        /\ dbBatches'["address-sym"] = dbBatches["address-sym"]
        /\ dbBatches'["address-utxos"] = IF a = NoAddr THEN old ELSE Put(old, s, list)
    BY DEF RemoveOutput, WithoutOutput, database, caches, symbols, UniqueInv, Shaped, Tables
  <1>2. /\ ListsTell(f, db["address-utxos"], StoredAddressSymbol)
        /\ ListsTell(f, old, lastAddressSymbol) /\ KeepsOwners(old)
        /\ StoredAddressSymbol \in 0 .. lastAddressSymbol /\ lastAddressSymbol \in Nat
    BY DEF Told, UniqueInv
  <1>3. /\ "address" \in DOMAIN UtxoList(s)
        /\ s \in DOMAIN db["address-utxos"] => UtxoList(s) = db["address-utxos"][s]
        /\ UtxoList(s).address # None => s \in DOMAIN db["address-utxos"]
    BY <1>2 DEF UtxoList, EmptyUtxoList, ListsTell
  <1>4. "address" \in DOMAIN list /\ list.address = UtxoList(s).address
    BY <1>3
  <1> HIDE DEF StoredAddressSymbol, list, old, s
  <1>5. s # None /\ list.address # None => s \in 0 .. lastAddressSymbol /\ f[s] = list.address
    BY <1>2, <1>3, <1>4 DEF ListsTell
  <1>6. ListsTell(f, dbBatches'["address-utxos"], lastAddressSymbol)
    BY <1>1, <1>2, <1>4, <1>5, ListsPut
  <1>7. KeepsOwners(dbBatches["address-utxos"])'
    <2>1. CASE a = NoAddr
      BY <1>1, <1>2, <2>1 DEF KeepsOwners
    <2>2. CASE a # NoAddr
      <3>1. dbBatches'["address-utxos"] = Put(old, s, list)
        BY <1>1, <2>2
      <3>2. \A k \in DOMAIN Put(old, s, list) :
              \/ k = s /\ Put(old, s, list)[k] = list
              \/ k \in DOMAIN old /\ Put(old, s, list)[k] = old[k]
        BY DEF Put, Merge
      <3> QED
        BY <1>1, <1>2, <1>3, <1>4, <3>1, <3>2 DEF KeepsOwners
    <2> QED
      BY <2>1, <2>2
  <1> QED
    BY <1>1, <1>6, <1>7
       DEF Told, KeepsOwners, OwnersKept, StoredAddressSymbol, FlushPc, RemovalPc

LEMMA ToldFlushList ==
  ASSUME UniqueInv, NEW f, Told(f), NEW a, FlushList(a)
  PROVE  Told(f)' /\ OwnersKept
  <1> DEFINE s    == AddressSymbol(a)
             list == [coins |-> UtxoList(s).coins \o lastAddressUtxos[a], address |-> a]
             old  == flush.ops["address-utxos"]
  <1>1. /\ UNCHANGED <<db, meta, dbBatches, lastSeenAddresses, lastAddressSymbol, pc>>
        /\ flush' = [flush EXCEPT !.ops["address-utxos"] = Put(@, s, list), !.todo = @ \ {a}]
    BY DEF FlushList, caches, symbols, worker
  <1>2. /\ flush'.ops["address-utxos"] = Put(old, s, list)
        /\ flush'.ops["address-sym"] = flush.ops["address-sym"] /\ flush'.meta = flush.meta
    <2> HIDE DEF s, list
    <2>1. flush = [ops |-> flush.ops, meta |-> flush.meta, todo |-> flush.todo]
          /\ DOMAIN flush.ops = Tables /\ "address-utxos" \in Tables /\ "address-sym" \in Tables
      BY DEF UniqueInv, Shaped, Tables
    <2>2. flush' = [ops  |-> [flush.ops EXCEPT !["address-utxos"] = Put(old, s, list)],
                    meta |-> flush.meta, todo |-> flush.todo \ {a}]
      BY <1>1, <2>1
    <2> QED
      BY <2>1, <2>2
  <1>3. "address" \in DOMAIN list /\ list.address = a
    OBVIOUS
  <1>4. s # None => s \in 0 .. lastAddressSymbol /\ f[s] = a
    BY SymbolTold
  <1>5. /\ ListsTell(f, db["address-utxos"], StoredAddressSymbol)
        /\ ListsTell(f, old, lastAddressSymbol) /\ KeepsOwners(old)
    BY DEF Told
  <1> HIDE DEF StoredAddressSymbol, list, old, s
  <1>6. ListsTell(f, flush'.ops["address-utxos"], lastAddressSymbol)
    BY <1>2, <1>3, <1>4, <1>5, ListsPut
  <1>7. KeepsOwners(flush.ops["address-utxos"])'
    <2>1. \A k \in DOMAIN Put(old, s, list) :
            \/ k = s /\ Put(old, s, list)[k] = list
            \/ k \in DOMAIN old /\ Put(old, s, list)[k] = old[k]
      BY DEF Put, Merge
    <2>2. ASSUME s \in DOMAIN db["address-utxos"], s # None, db["address-utxos"][s].address # None
          PROVE  a # None
      BY <1>4, <1>5, <2>2 DEF ListsTell
    <2> QED
      BY <1>1, <1>2, <1>3, <1>5, <2>1, <2>2 DEF KeepsOwners
  <1> QED
    BY <1>1, <1>2, <1>6, <1>7 DEF Told, KeepsOwners, OwnersKept, StoredAddressSymbol

(* A flush takes the names and lists of the batches.                        *)
LEMMA ToldTaken ==
  ASSUME UniqueInv, NEW f, Told(f), FlushBegins
  PROVE  Told(f)' /\ OwnersKept
  <1>1. /\ UNCHANGED <<db, meta, lastSeenAddresses, lastAddressSymbol>> /\ dbBatches' = NoBatches
        /\ flush'.ops["address-sym"] = dbBatches["address-sym"]
        /\ flush'.meta.latestAddressSymbol = lastAddressSymbol
    BY ShapedTaken DEF UniqueInv, caches
  <1>2. flush'.ops["address-utxos"] = dbBatches["address-utxos"]
    BY DEF FlushBegins, FinishBlockAndFlush, BeginRemove, SaveState, CommitRemove, TakeBatches,
           UniqueInv, Shaped, Tables
  <1>3. NoBatches["address-sym"] = EmptyMap /\ NoBatches["address-utxos"] = EmptyMap
        /\ DOMAIN EmptyMap = {}
    BY EmptyShaped DEF Tables, EmptyMap
  <1> QED
    BY <1>1, <1>2, <1>3 DEF Told, NamesTell, ListsTell, KeepsOwners, OwnersKept, StoredAddressSymbol

(* What it wrote is on disk: every list it wrote over had the same owner.   *)
LEMMA ToldWritten ==
  ASSUME UniqueInv, NEW f, Told(f), WriteBatches
  PROVE  Told(f)' /\ OwnersKept
  <1>1. /\ pc \in FlushPc /\ DOMAIN db' = Tables /\ meta' = flush.meta
        /\ db'["address-sym"] = Overlay(db["address-sym"], flush.ops["address-sym"])
        /\ db'["address-utxos"] = Overlay(db["address-utxos"], flush.ops["address-utxos"])
        /\ flush' = NoFlush /\ lastSeenAddresses' = EmptyMap
        /\ UNCHANGED <<dbBatches, lastAddressSymbol>> /\ pc' \notin FlushPc
    BY DEF WriteBatches, symbols, Tables, FlushPc
  <1>2. lastAddressSymbol \in Nat /\ StoredAddressSymbol' = lastAddressSymbol
    BY <1>1, SentinelsAreNoValues DEF UniqueInv, Told, StoredAddressSymbol, OrElse
  <1>3. NoFlush.ops["address-sym"] = EmptyMap /\ NoFlush.ops["address-utxos"] = EmptyMap
        /\ DOMAIN EmptyMap = {}
    BY EmptyShaped DEF Tables, EmptyMap
  <1>4. DOMAIN dbBatches["address-utxos"] = {}
    BY <1>1 DEF Told, FlushPc, RemovalPc
  <1>5. StoredAddressSymbol \in Nat /\ StoredAddressSymbol <= lastAddressSymbol
    <2>1. StoredAddressSymbol \in 0 .. lastAddressSymbol
      BY DEF Told
    <2> HIDE DEF StoredAddressSymbol
    <2> QED
      BY <1>2, <2>1
  <1>6. /\ NamesTell(f, db["address-sym"], lastAddressSymbol)
        /\ ListsTell(f, db["address-utxos"], lastAddressSymbol)
    <2> HIDE DEF StoredAddressSymbol
    <2> QED
      BY <1>2, <1>5, TellsStill DEF Told
  <1>7. /\ NamesTell(f, db'["address-sym"], lastAddressSymbol)
        /\ ListsTell(f, db'["address-utxos"], lastAddressSymbol)
    <2>1. /\ NamesTell(f, flush.ops["address-sym"], lastAddressSymbol)
          /\ ListsTell(f, flush.ops["address-utxos"], lastAddressSymbol)
      BY DEF Told
    <2> QED
      BY <1>1, <1>6, <2>1 DEF NamesTell, ListsTell, Overlay
  <1>8. OwnersKept
    <2> SUFFICES ASSUME NEW s \in DOMAIN db["address-utxos"], s \in DOMAIN db'["address-utxos"],
                        s # None, db["address-utxos"][s].address # None
                 PROVE  db'["address-utxos"][s].address = db["address-utxos"][s].address
      BY DEF OwnersKept
    <2>1. db["address-utxos"][s].address = f[s]
      BY <1>6 DEF ListsTell
    <2>2. db'["address-utxos"][s].address # None
      <3>1. KeepsOwners(flush.ops["address-utxos"])
        BY DEF Told
      <3> QED
        BY <1>1, <3>1 DEF KeepsOwners, Overlay
    <2> QED
      BY <1>7, <2>1, <2>2 DEF ListsTell
  <1> QED
    BY <1>1, <1>2, <1>3, <1>4, <1>7, <1>8 DEF Told, NamesTell, ListsTell, KeepsOwners

(* After a crash the symbols above the stored counter stand for nothing.    *)
LEMMA ToldReboot ==
  ASSUME UniqueInv, NEW f, Told(f), Reboot
  PROVE  Told(f)' /\ OwnersKept
  <1>1. /\ UNCHANGED <<db, meta>> /\ dbBatches' = NoBatches /\ flush' = NoFlush
        /\ lastSeenAddresses' = EmptyMap /\ pc' = "idle"
        /\ lastAddressSymbol' = StoredAddressSymbol /\ StoredAddressSymbol' = StoredAddressSymbol
    BY DEF Reboot, StoredAddressSymbol
  <1>2. /\ \A t \in {"address-sym", "address-utxos"} :
             NoFlush.ops[t] = EmptyMap /\ NoBatches[t] = EmptyMap
        /\ DOMAIN EmptyMap = {}
    BY EmptyShaped DEF Tables, EmptyMap
  <1>3. StoredAddressSymbol \in 0 .. StoredAddressSymbol
    <2>1. StoredAddressSymbol \in 0 .. lastAddressSymbol /\ lastAddressSymbol \in Nat
      BY DEF Told, UniqueInv
    <2> HIDE DEF StoredAddressSymbol
    <2> QED
      BY <2>1
  <1> HIDE DEF StoredAddressSymbol
  <1> QED
    BY <1>1, <1>2, <1>3 DEF Told, NamesTell, ListsTell, KeepsOwners, OwnersKept, FlushPc

-----------------------------------------------------------------------------
(* All of it.                                                               *)

LEMMA ListsSteps ==
  ASSUME UniqueInv, [AskingNext]_<<vars, asks>>
  PROVE  \/ ListsUnchanged /\ (NamesUnchanged \/ \E a : Naming(a))
         \/ RemoveOutput \/ (\E a \in flush.todo : FlushList(a))
         \/ FlushBegins \/ WriteBatches \/ Reboot
  <1>0. Shaped /\ DOMAIN dbBatches = Tables
    BY DEF UniqueInv, Shaped
  <1> USE DEF ListsUnchanged, FlushPc, RemovalPc
  <1>1. ASSUME NEW o \in QueryUtxo, UtxoRequest(o)
        PROVE  ListsUnchanged /\ (NamesUnchanged \/ \E a : Naming(a))
    <2> USE DEF NamesUnchanged, index, database, caches, heights, symbols, worker
    <2>1. CASE \/ AskUtxo(o) \/ ReadTxSymbol(o) \/ ReadUtxo(o) \/ FetchTx(o)
               \/ ReadBlockSymbol(o) \/ MissBlock(o) \/ Answer(o)
      BY <2>1 DEF AskUtxo, ReadTxSymbol, ReadUtxo, FetchTx, ReadBlockSymbol, MissBlock, Answer
    <2>2. CASE NameBlock(o)
      BY <1>0, <2>2 DEF NameBlock, Tables
    <2>3. CASE RememberUtxo(o)
      BY <2>3 DEF RememberUtxo
    <2>4. CASE NameAndRememberUtxo(o)
      <3>1. ListsUnchanged /\ Naming(AddressOf(o))
        BY <1>0, <2>4 DEF NameAndRememberUtxo, NewAddressSymbol, Naming, Tables
      <3> QED
        BY <3>1
    <2> QED
      BY <1>1, <2>1, <2>2, <2>3, <2>4 DEF UtxoRequest
  <1>2. ASSUME [Next]_vars, ~RemoveOutput, ~ \E a \in flush.todo : FlushList(a),
               ~FlushBegins, ~WriteBatches, ~Reboot
        PROVE  ListsUnchanged /\ (NamesUnchanged \/ \E a : Naming(a))
    <2>1. NamesUnchanged \/ \E a : Naming(a)
      <3>1. NamesUnchanged \/ \E a : AllocateAddress(a)
        BY <1>0, <1>2, ShapedNamesSteps DEF NameAddress, LookupName
      <3>2. ASSUME NEW a, AllocateAddress(a)
            PROVE  Naming(a)
        BY <1>0, <3>2 DEF AllocateAddress, NewAddressSymbol, Naming, Tables
      <3> QED
        BY <3>1, <3>2
    <2>2. ListsUnchanged
      <3> USE DEF index, database, worker
      <3>1. CASE UNCHANGED vars \/ Syncer \/ Exit
        BY <3>1 DEF vars, Syncer, BlockAdded, BlockRemoved, HandleBlock, Exit, RefusesFirst,
                    RefusesRemoval, MissesUtxo, SeenBefore
      <3>2. CASE Requests
        BY <1>0, <3>2 DEF Requests, LookupMiss, LookupName, AllocateAddress, Tables
      <3>3. CASE Take \/ SkipBlock \/ SkipTx \/ ResolveAddress \/ MissAddress
        BY <3>3 DEF Take, SkipBlock, SkipTx, ResolveAddress, MissAddress, Resolving
      <3>4. CASE AddBlock \/ AddTx \/ SpendInput \/ CreateOutput \/ NameAddress
        BY <1>0, <3>4 DEF AddBlock, AddTx, SpendInput, CreateOutput, NameAddress, AllocateAddress,
                          Tables
      <3>5. CASE BeginOutputs \/ FinishTx \/ FinishBlock
        BY <3>5 DEF BeginOutputs, FinishTx, FinishBlock
      <3>6. CASE RemoveTx \/ EndRevalidation \/ RevalidateInput \/ RemoveTxSymbol
        BY <1>0, <3>6 DEF RemoveTx, EndRevalidation, RevalidateInput, RemoveTxSymbol, Tables
      <3> QED
          BY <1>2, <3>1, <3>2, <3>3, <3>4, <3>5, <3>6
             DEF Next, Worker, Adding, Removing, Flushing, Crash, Restart, FlushBegins
    <2> QED
      BY <2>1, <2>2
  <1> QED
    BY <1>1, <1>2 DEF AskingNext, Next

LEMMA ToldStep ==
  ASSUME UniqueInv, ToldInv, [AskingNext]_<<vars, asks>>, [NamesKeepClear]_<<vars, asks>>
  PROVE  ToldInv' /\ OwnersKept
  <1>1. PICK f : DOMAIN f = Nat /\ Told(f)
    BY DEF ToldInv
  <1>2. ASSUME Told(f)' /\ OwnersKept
        PROVE  ToldInv' /\ OwnersKept
    BY <1>1, <1>2 DEF ToldInv
  <1>3. CASE ListsUnchanged /\ NamesUnchanged
    BY <1>1, <1>2, <1>3, ToldQuiet
  <1>4. ASSUME ListsUnchanged, NEW a, Naming(a)
        PROVE  ToldInv' /\ OwnersKept
    <2>1. lastAddressSymbol' # lastAddressSymbol
      BY <1>4 DEF Naming, UniqueInv
    <2>2. pc \notin FlushPc
      <3>1. NamesKeepClear
        <4>1. UNCHANGED <<vars, asks>> => UNCHANGED lastAddressSymbol
          BY DEF vars, index, symbols
        <4> QED
          BY <2>1, <4>1
      <3>2. SUFFICES ASSUME pc \in FlushPc
                     PROVE  FALSE
        OBVIOUS
      <3>3. pc' \in FlushPc
        BY <1>4, <3>2 DEF ListsUnchanged
      <3> QED
        BY <2>1, <3>1, <3>2, <3>3 DEF NamesKeepClear
    <2>3. PICK n : n = lastAddressSymbol + 1
      OBVIOUS
    <2>4. PICK g : g = [f EXCEPT ![n] = a]
      OBVIOUS
    <2>5. DOMAIN g = Nat /\ Told(g)' /\ OwnersKept
      BY <1>1, <1>4, <2>2, <2>3, <2>4, ToldNamed
    <2> QED
      BY <2>5 DEF ToldInv
  <1>5. CASE RemoveOutput
    BY <1>1, <1>2, <1>5, ToldRemoveOutput
  <1>6. CASE \E a \in flush.todo : FlushList(a)
    BY <1>1, <1>2, <1>6, ToldFlushList
  <1>7. CASE FlushBegins
    BY <1>1, <1>2, <1>7, ToldTaken
  <1>8. CASE WriteBatches
    BY <1>1, <1>2, <1>8, ToldWritten
  <1>9. CASE Reboot
    BY <1>1, <1>2, <1>9, ToldReboot
  <1> QED
    BY <1>3, <1>4, <1>5, <1>6, <1>7, <1>8, <1>9, ListsSteps

LEMMA ToldInit == AskingInit => ToldInv
  <1> SUFFICES ASSUME AskingInit PROVE ToldInv
    OBVIOUS
  <1>1. /\ db = NoBatches /\ meta = NoMetadata /\ flush = NoFlush /\ dbBatches = NoBatches
        /\ lastSeenAddresses = EmptyMap /\ lastAddressSymbol = 0 /\ pc = "idle"
    BY DEF AskingInit, Init, NoBatches
  <1>2. /\ \A t \in {"address-sym", "address-utxos"} :
             NoFlush.ops[t] = EmptyMap /\ NoBatches[t] = EmptyMap
        /\ DOMAIN EmptyMap = {} /\ DOMAIN NoBatches = Tables
    BY EmptyShaped DEF Tables, EmptyMap
  <1>3. StoredAddressSymbol = 0
    BY <1>1 DEF StoredAddressSymbol, NoMetadata, OrElse
  <1> HIDE DEF StoredAddressSymbol
  <1>4. PICK f : f = [s \in Nat |-> None]
    OBVIOUS
  <1>5. Told(f)
    BY <1>1, <1>2, <1>3 DEF Told, NamesTell, ListsTell, KeepsOwners, FlushPc
  <1> QED
    BY <1>4, <1>5 DEF ToldInv

(* The address that getAddressBySymbol finds under a symbol never becomes   *)
(* another one, so that what a request has read of an output still means   *)
(* the same after its next await: whichever blocks a reorg removes and     *)
(* whichever transaction symbols it hands out again, in whatever order the *)
(* events arrive, wherever crashes come, when no address is named while a  *)
(* flush is under way.                                                     *)
THEOREM OwnersOfSymbolsStay ==
  AskingSpec /\ [][NamesKeepClear]_<<vars, asks>> => OwnersStay
  <1>1. ToldInv /\ UniqueInv /\ [AskingNext]_<<vars, asks>> /\ [NamesKeepClear]_<<vars, asks>>
          => ToldInv' /\ OwnersKept
    BY ToldStep
  <1>2. UniqueInv /\ [AskingNext]_<<vars, asks>> => UniqueInv'
    BY UniqueStep
  <1>3. AskingInit => ToldInv /\ UniqueInv
    BY ToldInit, UniqueInit
  <1>4. OwnersKept =>
          [\A s \in (DOMAIN db["address-utxos"] \cap DOMAIN db'["address-utxos"]) \ {None} :
             LET owner == db["address-utxos"][s].address IN
             owner # None => db'["address-utxos"][s].address = owner]_vars
    BY DEF OwnersKept
  <1> QED
    BY <1>1, <1>2, <1>3, <1>4, PTL DEF AskingSpec, OwnersStay

=============================================================================
