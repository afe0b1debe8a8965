----------------------------- MODULE UtxoProofs -----------------------------
(***************************************************************************)
(* The outputs of the indexed chain: each has its record, which names the  *)
(* block that created it and the one that spends it; the worker finds the  *)
(* record of every output it spends or gives back, though the cache files  *)
(* a spent output under its spender; and no record is left of an output    *)
(* that is gone.                                                           *)
(*                                                                         *)
(* The invariants speak of the outputs created and the spends made so far, *)
(* in the middle of a transaction too (Created, Spends), and every step    *)
(* adds or takes back one of them.                                         *)
(***************************************************************************)
EXTENDS ChainProofs

-----------------------------------------------------------------------------
(* The ledger: what a valid block spends.                                   *)

LEMMA RootedHeights ==
  ASSUME NEW blocks \in SUBSET Block, Rooted(blocks)
  PROVE  \A y \in blocks : \A h \in 0 .. Height[y] : \E x \in blocks : Height[x] = h
  <1> DEFINE Fine(y) == \A h \in 0 .. Height[y] : \E x \in blocks : Height[x] = h
             S == {y \in blocks : ~ Fine(y)}
  <1> SUFFICES ASSUME S # {}
               PROVE  FALSE
    OBVIOUS
  <1>1. PICK y \in S : \A x \in Block : Height[x] < Height[y] => x \notin S
    BY LowestBlock
  <1>2. y \in blocks /\ y \in Block /\ Height[y] \in Nat /\ ~ Fine(y)
    BY <1>1, LedgerFacts
  <1>3. PICK h \in 0 .. Height[y] : ~ \E x \in blocks : Height[x] = h
    BY <1>2
  <1>4. h < Height[y]
    BY <1>2, <1>3
  <1>5. y # Genesis
    <2>1. y = Genesis => Height[y] = 0
      BY <1>2, LedgerTree
    <2> QED
      BY <1>2, <1>4, <2>1
  <1> DEFINE p == Parent[y]
  <1>6. p \in blocks /\ p \in Block /\ Height[p] \in Nat /\ Height[y] = Height[p] + 1
    BY <1>2, <1>5, ParentBelow DEF Rooted
  <1>7. Fine(p)
    <2>1. p \notin S
      BY <1>1, <1>6
    <2> QED
      BY <1>6, <2>1
  <1>8. h \in 0 .. Height[p]
    BY <1>2, <1>3, <1>4, <1>6
  <1> QED
    BY <1>3, <1>7, <1>8

(* The blocks below a block of a chain are its branch without itself.       *)
LEMMA BlocksBefore ==
  ASSUME NEW blocks \in SUBSET Block, Rooted(blocks), OnePerHeight(blocks), NEW b \in blocks
  PROVE  BlocksIn(SubSeq(Branch[b], 1, Height[b])) = {x \in blocks : Height[x] < Height[b]}
  <1> DEFINE before == SubSeq(Branch[b], 1, Height[b])
  <1>1. b \in Block /\ Height[b] \in Nat /\ \A x \in blocks : Height[x] \in Nat
    BY LedgerFacts
  <1>2. Branch[b] \in Seq(Block) /\ Len(Branch[b]) = Height[b] + 1
    BY <1>1, BranchIsBranch DEF IsBranch
  <1>3. \A i \in 1 .. Height[b] : Branch[b][i] \in Block
    BY <1>1, <1>2
  <1>4. /\ before \in Seq(Block) /\ Len(before) = Height[b]
        /\ \A i \in 1 .. Height[b] : before[i] = Branch[b][i]
    BY <1>1, <1>3, SubSeqProperties
  <1>5. \A x \in blocks : Height[x] <= Height[b] => Branch[b][Height[x] + 1] = x
    BY Ancestors
  <1> HIDE DEF before
  <1>6. DOMAIN before = 1 .. Height[b]
    BY <1>4
  <1>7. ASSUME NEW x \in blocks, Height[x] < Height[b]
        PROVE  x \in BlocksIn(before)
    <2>1. Height[x] + 1 \in 1 .. Height[b] /\ Height[x] <= Height[b]
      BY <1>1, <1>7
    <2> QED
      BY <1>4, <1>5, <1>6, <2>1 DEF BlocksIn
  <1>8. ASSUME NEW x \in BlocksIn(before)
        PROVE  x \in blocks /\ Height[x] < Height[b]
    <2>1. PICK i \in 1 .. Height[b] : x = Branch[b][i]
      BY <1>4, <1>6 DEF BlocksIn
    <2>2. i - 1 \in 0 .. Height[b] /\ i - 1 < Height[b] /\ (i - 1) + 1 = i
      BY <1>1
    <2>3. PICK z \in blocks : Height[z] = i - 1
      BY <2>2, RootedHeights
    <2>4. Branch[b][i] = z
      BY <1>1, <1>5, <2>2, <2>3
    <2> QED
      BY <2>1, <2>2, <2>3, <2>4
  <1> QED
    BY <1>7, <1>8 DEF before

(* An input spends an output of a transaction mined before.                 *)
LEMMA InputCreated ==
  ASSUME NEW blocks \in SUBSET Block, Rooted(blocks), OnePerHeight(blocks),
         NEW p \in Places(blocks), NEW k \in DOMAIN Vin[At(p)]
  PROVE  /\ Vin[At(p)][k] \in Outpoint
         /\ Vin[At(p)][k][2] \in DOMAIN Vout[Vin[At(p)][k][1]]
         /\ \E q \in Places(blocks) : Before(q, p) /\ At(q) = Vin[At(p)][k][1]
  <1> DEFINE o == Vin[At(p)][k]
             b == p[1]
             before == SubSeq(Branch[b], 1, Height[b])
  <1>1. /\ b \in blocks /\ b \in Block /\ p[2] \in DOMAIN Txs[b] /\ At(p) \in Tx
        /\ p[2] \in Nat \ {0}
    BY PlaceTypes
  <1>2. o \in Outpoint
    BY <1>1, LedgerFacts
  <1>3. /\ o[2] \in DOMAIN Vout[o[1]]
        /\ o[1] \in TxsIn(before) \cup {Txs[b][j] : j \in 1 .. p[2] - 1}
    BY <1>1, LedgerIsValid DEF ValidBlock, At
  <1>4. CASE o[1] \in TxsIn(before)
    <2>1. PICK x \in BlocksIn(before) : \E i \in DOMAIN Txs[x] : o[1] = Txs[x][i]
      BY <1>4 DEF TxsIn
    <2>2. PICK i \in DOMAIN Txs[x] : o[1] = Txs[x][i]
      BY <2>1
    <2>3. x \in blocks /\ Height[x] < Height[b]
      BY <1>1, <2>1, BlocksBefore
    <2>4. <<x, i>> \in Places(blocks)
      BY <2>2, <2>3 DEF Places
    <2> QED
      BY <1>2, <1>3, <2>2, <2>3, <2>4 DEF Before, At
  <1>5. CASE o[1] \in {Txs[b][j] : j \in 1 .. p[2] - 1}
    <2>1. PICK j \in 1 .. p[2] - 1 : o[1] = Txs[b][j]
      BY <1>5
    <2>2. j \in DOMAIN Txs[b] /\ j < p[2]
      <3>1. DOMAIN Txs[b] = 1 .. Len(Txs[b]) /\ Len(Txs[b]) \in Nat
        BY <1>1, LedgerFacts
      <3> QED
        BY <1>1, <3>1
    <2>3. <<b, j>> \in Places(blocks)
      BY <1>1, <2>2 DEF Places
    <2> QED
      BY <1>2, <1>3, <2>1, <2>2, <2>3 DEF Before, At
  <1> QED
    BY <1>3, <1>4, <1>5

LEMMA ValidInputs ==
  ASSUME NEW b \in Block, NEW i \in DOMAIN Txs[b], NEW k \in DOMAIN Vin[Txs[b][i]]
  PROVE  LET o == Vin[Txs[b][i]][k] IN
         /\ o \notin SpentIn(SubSeq(Branch[b], 1, Height[b]))
         /\ \A l \in 1 .. i - 1 : \A n \in DOMAIN Vin[Txs[b][l]] : Vin[Txs[b][l]][n] # o
         /\ \A m \in 1 .. k - 1 : Vin[Txs[b][i]][m] # o
  <1> DEFINE o == Vin[Txs[b][i]][k]
             Earlier == {Txs[b][l] : l \in 1 .. i - 1}
  <1>1. ValidBlock(b)
    BY LedgerIsValid
  <1>2. /\ o \notin SpentIn(SubSeq(Branch[b], 1, Height[b]))
        /\ \A m \in 1 .. k - 1 : Vin[Txs[b][i]][m] # o
    BY <1>1 DEF ValidBlock
  <1>3. \A t \in Earlier : \A n \in DOMAIN Vin[t] : Vin[t][n] # o
    BY <1>1, Zenon DEF ValidBlock
  <1>4. \A l \in 1 .. i - 1 : Txs[b][l] \in Earlier
    OBVIOUS
  <1> HIDE DEF Earlier
  <1> QED
    BY <1>2, <1>3, <1>4

(* No output is spent twice.                                                *)
LEMMA SpentOnce ==
  ASSUME NEW blocks \in SUBSET Block, Rooted(blocks), OnePerHeight(blocks),
         NEW p \in Places(blocks), NEW k \in DOMAIN Vin[At(p)],
         NEW q \in Places(blocks), NEW m \in DOMAIN Vin[At(q)],
         Vin[At(p)][k] = Vin[At(q)][m]
  PROVE  p = q /\ k = m
  <1>1. ASSUME NEW x \in Places(blocks), NEW y \in Places(blocks), Before(x, y),
               NEW i \in DOMAIN Vin[At(x)], NEW j \in DOMAIN Vin[At(y)]
        PROVE  Vin[At(x)][i] # Vin[At(y)][j]
    <2> DEFINE b == y[1]
               before == SubSeq(Branch[b], 1, Height[b])
    <2>1. /\ x[1] \in blocks /\ x[2] \in DOMAIN Txs[x[1]] /\ x[2] \in Nat \ {0}
          /\ b \in blocks /\ b \in Block /\ y[2] \in DOMAIN Txs[b] /\ y[2] \in Nat \ {0}
      BY PlaceTypes
    <2>2. /\ Vin[At(y)][j] \notin SpentIn(before)
          /\ \A l \in 1 .. y[2] - 1 : \A n \in DOMAIN Vin[Txs[b][l]] :
               Vin[Txs[b][l]][n] # Vin[At(y)][j]
      BY <2>1, ValidInputs DEF At
    <2>3. CASE x[1] = b /\ x[2] < y[2]
      <3>1. x[2] \in 1 .. y[2] - 1
        BY <2>1, <2>3
      <3> QED
        BY <2>2, <2>3, <3>1 DEF At
    <2>4. CASE Height[x[1]] < Height[b]
      <3>1. x[1] \in BlocksIn(before)
        BY <2>1, <2>4, BlocksBefore
      <3>2. At(x) \in TxsIn(before)
        BY <2>1, <3>1 DEF TxsIn, At
      <3>3. Vin[At(x)][i] \in SpentIn(before)
        BY <3>2 DEF SpentIn
      <3> QED
        BY <2>2, <3>3
    <2> QED
      BY <1>1, <2>3, <2>4 DEF Before
  <1>2. p = q
    BY <1>1, PlacesAreOrdered
  <1>3. ASSUME NEW i \in DOMAIN Vin[At(p)], NEW j \in DOMAIN Vin[At(p)], i < j
        PROVE  Vin[At(p)][i] # Vin[At(p)][j]
    <2>1. p[1] \in Block /\ p[2] \in DOMAIN Txs[p[1]] /\ At(p) \in Tx
      BY PlaceTypes
    <2>2. \A n \in 1 .. j - 1 : Vin[At(p)][n] # Vin[At(p)][j]
      BY <2>1, ValidInputs DEF At
    <2>3. i \in 1 .. j - 1
      <3>1. DOMAIN Vin[At(p)] = 1 .. Len(Vin[At(p)]) /\ Len(Vin[At(p)]) \in Nat
        BY <2>1, LedgerFacts
      <3> QED
        BY <1>3, <3>1
    <2> QED
      BY <2>2, <2>3
  <1>4. k = m
    <2>1. At(p) \in Tx
      BY PlaceTypes
    <2>2. k \in Nat /\ m \in Nat
      BY <1>2, <2>1, LedgerFacts
    <2> QED
      BY <1>2, <1>3, <2>2
  <1> QED
    BY <1>2, <1>4

-----------------------------------------------------------------------------
(* The outputs and spends the index has worked through so far.              *)

(* Outputs of the transaction at hand that are not stored yet, or no longer. *)
Awaited(o) ==
  /\ pc \in AddTxPc \cup {"unlist"} /\ o[1] = CurrentTx
  /\ pc = "outputs" => o[2] >= job.pos
  /\ pc = "unlist" => o[2] < job.pos

Outputs(txs) == {o \in Outpoint : o[1] \in txs /\ o[2] \in DOMAIN Vout[o[1]]}
Created == {o \in Outputs(DOMAIN View("tx-sym")) : ~ Awaited(o)}
KeyIn(symbol, o) == <<symbol[o[1]], o[2]>>

(* A spend: the place of the spending transaction and the input's position. *)
SpendsOf(places) == {s \in places \X (Nat \ {0}) : s[2] \in DOMAIN Vin[At(s[1])]}
Input(s)   == Vin[At(s[1])][s[2]]
SpentAt(s) == Height[s[1][1]]

(* Inputs of the transaction at hand that are not spent yet, or no longer.   *)
Counts(s) ==
  s[1] = <<job.block, job.tx>> =>
    /\ pc \in {"inputs", "allocate"} => s[2] < job.pos
    /\ pc = "revalidate" => s[2] >= job.pos
    /\ pc # "unlist"
Spends == {s \in SpendsOf(Mined) : Counts(s)}

(* A utxo record tells where its output was created and where it is spent.  *)
Dated(u, o, places) == \E p \in places : At(p) = o[1] /\ u.created = Height[p[1]]
Dues(u, o, spends) ==
  /\ \A s \in spends : Input(s) = o => u.spentOn = SpentAt(s)
  /\ u.spentOn # None => \E s \in spends : Input(s) = o

Recorded(symbol, utxos, outputs, places, spends) ==
  \A o \in outputs :
    /\ KeyIn(symbol, o) \in DOMAIN utxos
    /\ Dated(utxos[KeyIn(symbol, o)], o, places)
    /\ Dues(utxos[KeyIn(symbol, o)], o, spends)

PosInv == pc \in {"tx", "taken", "firstFlush", "untx"} => job.pos = 1

StoredInv ==
  /\ Recorded(db["tx-sym"], db["utxo"], Outputs(DOMAIN db["tx-sym"]), StoredPlaces,
              SpendsOf(StoredPlaces))
  /\ pc # "exited" => Recorded(View("tx-sym"), View("utxo"), Created, Mined, Spends)
  /\ pc \in FlushPc => dbBatches["utxo"] = EmptyMap

(* What the cache of outputs remembers of them.  It stores an output it     *)
(* spends under the SPENDER's symbol, so that entry is good for nothing,   *)
(* but on a valid chain nobody asks for a spent output again.              *)
CachedInv ==
  /\ pc # "exited" => \A o \in DOMAIN lastSeenUtxos :
       /\ o \in Created /\ Dated(lastSeenUtxos[o].utxo, o, Mined)
       /\ \/ \E s \in Spends : Input(s) = o
          \/ lastSeenUtxos[o].txSymbol = View("tx-sym")[o[1]]
  /\ pc \in RemovalPc \cup {"secondFlush"} => lastSeenUtxos = EmptyMap

(* Outside a removal, every output it does not hold is in the database.     *)
UncachedInv ==
  pc \notin RemovalPc \cup {"secondFlush", "exited"} =>
    \A o \in Created : o \notin DOMAIN lastSeenUtxos =>
      /\ KeyIn(View("tx-sym"), o) \in DOMAIN db["utxo"]
      /\ Dated(db["utxo"][KeyIn(View("tx-sym"), o)], o, Mined)

UtxoInv == PosInv /\ StoredInv /\ CachedInv /\ UncachedInv

-----------------------------------------------------------------------------
(* The table of outputs, step by step.                                      *)

TouchesUtxo ==
  \/ SpendInput \/ CreateOutput \/ RevalidateInput \/ RemoveOutput
  \/ FlushBegins \/ WriteBatches \/ Reboot

UtxoStill ==
  /\ UNCHANGED <<db, lastSeenUtxos>> /\ dbBatches'["utxo"] = dbBatches["utxo"]
  /\ flush'.ops["utxo"] = flush.ops["utxo"]
  /\ pc \in FlushPc => pc' \in FlushPc
  /\ pc' \in FlushPc => pc \in FlushPc
  /\ pc = "exited" => pc' = "exited"

LEMMA UtxoStillSteps ==
  ASSUME TypeOK, [Next]_vars, ~TouchesUtxo
  PROVE  UtxoStill
  <1>1. DOMAIN dbBatches = Tables /\ DOMAIN flush.ops = Tables
    BY DEF TypeOK, BatchesType, FlushTypeOK
  <1> USE DEF UtxoStill, FlushPc, TouchesUtxo
  <1>2. CASE UNCHANGED vars \/ Syncer \/ Exit
    BY <1>2 DEF vars, index, database, caches, worker, Syncer, BlockAdded, BlockRemoved,
                HandleBlock, Exit, RefusesFirst, RefusesRemoval, MissesUtxo, SeenBefore
  <1>3. CASE Requests
    BY <1>1, <1>3 DEF Requests, LookupMiss, LookupName, AllocateAddress, index, database, caches,
                      worker, Tables
  <1>4. CASE Take \/ SkipBlock \/ SkipTx \/ ResolveAddress \/ MissAddress
    BY <1>4 DEF Take, SkipBlock, SkipTx, ResolveAddress, MissAddress, Resolving, index, database,
                caches
  <1>5. CASE AddBlock \/ AddTx \/ NameAddress
    BY <1>1, <1>5 DEF AddBlock, AddTx, NameAddress, AllocateAddress, database, Tables
  <1>6. CASE BeginOutputs \/ FinishTx \/ FinishBlock
    BY <1>6 DEF BeginOutputs, FinishTx, FinishBlock, index, database, caches
  <1>7. CASE RemoveTx \/ EndRevalidation
    BY <1>7 DEF RemoveTx, EndRevalidation, index, database, caches
  <1>8. CASE RemoveTxSymbol
    BY <1>1, <1>8 DEF RemoveTxSymbol, database, caches, Tables
  <1>9. ASSUME NEW a, FlushList(a)
        PROVE  UtxoStill
    <2>1. /\ UNCHANGED <<db, dbBatches, caches, worker>> /\ pc \in FlushPc
          /\ \E list : flush' = [flush EXCEPT !.ops["address-utxos"] = list, !.todo = @ \ {a}]
      BY <1>9 DEF FlushList
    <2>2. flush'.ops["utxo"] = flush.ops["utxo"]
      BY <1>1, <2>1 DEF TypeOK, FlushTypeOK, Tables
    <2> QED
      BY <2>1, <2>2 DEF caches, worker
  <1> QED
    BY <1>2, <1>3, <1>4, <1>5, <1>6, <1>7, <1>8, <1>9
       DEF Next, Worker, Adding, Removing, Flushing, Crash, Restart, FlushBegins

LEMMA UtxoLayersKept ==
  ASSUME UtxoStill
  PROVE  Written("utxo")' = Written("utxo") /\ View("utxo")' = View("utxo")
  BY DEF UtxoStill, Written, View

(* Steps that put into the batch, or delete from it.                        *)
UtxoPuts(k, u) ==
  /\ db' = db /\ flush' = flush
  /\ dbBatches'["utxo"] = Put(dbBatches["utxo"], k, u)

LEMMA UtxoPut ==
  ASSUME NEW k, NEW u, u # Deleted, UtxoPuts(k, u)
  PROVE  /\ \A x : x \in DOMAIN View("utxo")' <=> x = k \/ x \in DOMAIN View("utxo")
         /\ View("utxo")'[k] = u
         /\ \A x \in DOMAIN View("utxo") : x # k => View("utxo")'[x] = View("utxo")[x]
  <1>1. Written("utxo")' = Written("utxo")
    BY DEF UtxoPuts, Written
  <1>2. View("utxo")' = Overlay(Written("utxo"), Put(dbBatches["utxo"], k, u))
    BY <1>1 DEF UtxoPuts, View
  <1> QED
    BY <1>2, OverlayPut DEF View

LEMMA UtxoDelete ==
  ASSUME NEW k, UtxoPuts(k, Deleted)
  PROVE  /\ \A x : x \in DOMAIN View("utxo")' <=> x # k /\ x \in DOMAIN View("utxo")
         /\ \A x \in DOMAIN View("utxo")' : View("utxo")'[x] = View("utxo")[x]
  <1> DEFINE f == Written("utxo")
             ops == dbBatches["utxo"]
             new == Put(ops, k, Deleted)
  <1>1. View("utxo")' = Overlay(f, new) /\ View("utxo") = Overlay(f, ops)
    BY DEF UtxoPuts, View, Written
  <1>2. /\ DOMAIN new = DOMAIN ops \cup {k} /\ new[k] = Deleted
        /\ \A x \in DOMAIN ops : x # k => new[x] = ops[x]
    BY DEF Put, Merge
  <1> HIDE DEF f, ops, new
  <1>3. \A x : x \in DOMAIN Overlay(f, new) <=> x # k /\ x \in DOMAIN Overlay(f, ops)
    BY <1>2 DEF Overlay
  <1>4. \A x \in DOMAIN Overlay(f, new) : Overlay(f, new)[x] = Overlay(f, ops)[x]
    BY <1>2, <1>3 DEF Overlay
  <1> QED
    BY <1>1, <1>3, <1>4

(* A flush takes every other table as it is.                                *)
LEMMA OutputsTaken ==
  ASSUME TypeOK, FlushInv, FlushBegins, NEW t \in {"utxo", "address-utxos"}
  PROVE  /\ flush'.ops[t] = dbBatches[t] /\ dbBatches'[t] = EmptyMap
         /\ Written(t)' = View(t) /\ View(t)' = View(t)
  <1>1. flush'.ops[t] = dbBatches[t]
    <2>1. CASE FinishBlockAndFlush \/ BeginRemove \/ SaveState
      BY <2>1 DEF FinishBlockAndFlush, BeginRemove, SaveState, TakeBatches
    <2>2. CASE CommitRemove
      <3> DEFINE batches == [dbBatches EXCEPT !["block-sym"] = Put(@, job.block, Deleted)]
      <3>1. TakeBatches(batches, bestBlockHash', lastBlockSymbol', lastTxSymbol')
        BY <2>2 DEF CommitRemove
      <3>2. batches[t] = dbBatches[t]
        BY DEF TypeOK, BatchesType, Tables
      <3> HIDE DEF batches
      <3> QED
        BY <3>1, <3>2 DEF TakeBatches
    <2> QED
      BY <2>1, <2>2 DEF FlushBegins
  <1>2. flush.ops[t] = EmptyMap /\ dbBatches'[t] = EmptyMap /\ db' = db
    BY Taken DEF FlushInv, NoFlush, NoBatches, Tables
  <1>3. View(t) = Overlay(db[t], dbBatches[t])
    BY <1>2, OverlayTwice DEF View, Written
  <1>4. Written(t)' = Overlay(db[t], dbBatches[t])
    BY <1>1, <1>2 DEF Written
  <1>5. View(t)' = Overlay(db[t], dbBatches[t])
    BY <1>2, <1>4, OverlayTwice DEF View
  <1> QED
    BY <1>1, <1>2, <1>3, <1>4, <1>5

-----------------------------------------------------------------------------
(* How the outputs and spends worked through change.                        *)

Passes ==
  /\ pc \notin AddTxPc \cup {"revalidate", "unlist"}
  /\ pc' \notin AddTxPc \cup {"revalidate", "unlist"}
Resolves ==
  /\ pc \in {"inputs", "allocate"} /\ pc' \in {"inputs", "allocate"}
  /\ job'.block = job.block /\ job'.tx = job.tx /\ job'.pos = job.pos

LEMMA PosKept ==
  ASSUME TypeOK, NEW r
  PROVE  [job EXCEPT !.resolved = r].pos = job.pos
  <1>1. job \in JobType
    BY DEF TypeOK, WorkerTypeOK
  <1> QED
    BY <1>1 DEF JobType

LEMMA Moves ==
  ASSUME ChainInv, SymbolInv, [Next]_vars, pc' # "exited", ~TouchesUtxo, ~TxStep
  PROVE  \/ Stands \/ Passes \/ Resolves \/ BeginOutputs \/ FinishTx \/ RemoveTx
         \/ EndRevalidation
  <1> USE DEF ChainInv, IInv, TouchesUtxo
  <1>1. ~SkipTx /\ ~Exit
    BY UnknownTx DEF SkipTx, Exit
  <1>2. CASE Take \/ SkipBlock \/ AddBlock \/ FinishBlock
    BY <1>2 DEF Take, SkipBlock, AddBlock, FinishBlock, Passes, AddTxPc
  <1>3. CASE ResolveAddress \/ MissAddress \/ NameAddress
    <2> USE JobFields, PosKept DEF Resolves
    <2>1. CASE ResolveAddress
      BY <2>1 DEF ResolveAddress, Resolving
    <2>2. CASE MissAddress
      BY <2>2 DEF MissAddress, Resolving
    <2>3. CASE NameAddress
      BY <2>3 DEF NameAddress
    <2> QED
      BY <1>3, <2>1, <2>2, <2>3
  <1>4. CASE UNCHANGED vars \/ Syncer \/ Requests \/ \E a \in flush.todo : FlushList(a)
    BY <1>4, StandingSteps
  <1> QED
    BY <1>1, <1>2, <1>3, <1>4
       DEF TxStep, Next, Worker, Adding, Removing, Flushing, Crash, Restart, FlushBegins

LEMMA PosStep ==
  ASSUME ChainInv, SymbolInv, PosInv, [Next]_vars
  PROVE  PosInv'
  <1> USE JobFields DEF ChainInv, IInv
  <1> SUFFICES ASSUME pc' \in {"tx", "taken", "firstFlush", "untx"}
               PROVE  job'.pos = 1
    BY DEF PosInv
  <1>1. CASE TouchesUtxo
    <2>1. ~SpendInput /\ ~CreateOutput /\ ~RevalidateInput /\ ~RemoveOutput /\ ~Reboot
      BY DEF SpendInput, CreateOutput, RevalidateInput, RemoveOutput, Reboot
    <2>2. CASE WriteBatches
      BY <2>2 DEF WriteBatches, PosInv
    <2>3. CASE FlushBegins
      <3>1. pc' = "firstFlush" /\ pc = "taken"
        BY <2>3, Taken DEF FlushPc
      <3>2. job' = job
        BY <2>3, <3>1 DEF FlushBegins, FinishBlockAndFlush, BeginRemove, CommitRemove, SaveState
      <3> QED
        BY <3>1, <3>2 DEF PosInv
    <2> QED
      BY <1>1, <2>1, <2>2, <2>3 DEF TouchesUtxo
  <1>2. CASE TxStep /\ ~TouchesUtxo
    BY <1>2 DEF TxStep, TouchesUtxo, AddTx, RemoveTxSymbol
  <1>3. CASE ~TxStep /\ ~TouchesUtxo
    <2>1. ~Resolves /\ ~BeginOutputs /\ ~EndRevalidation
      BY DEF Resolves, BeginOutputs, EndRevalidation
    <2>2. ~RemoveTx
      BY RemovingSteps DEF Inside
    <2>3. CASE Stands
      BY <2>3 DEF Stands, PosInv
    <2>4. CASE FinishTx
      BY <2>4 DEF FinishTx
    <2>5. CASE Passes
      <3>1. CASE UNCHANGED vars \/ Syncer \/ Requests \/ \E a \in flush.todo : FlushList(a)
        BY <3>1, StandingSteps DEF Stands, PosInv
      <3>2. CASE Take \/ AddBlock
        BY <3>2 DEF Take, AddBlock, NoJob, PosInv
      <3>3. ~SkipTx /\ ~Exit /\ ~SkipBlock /\ ~FinishBlock
        BY UnknownTx DEF SkipTx, Exit, SkipBlock, FinishBlock
      <3>4. ~ResolveAddress /\ ~MissAddress /\ ~NameAddress /\ ~FinishTx
        BY <2>5 DEF ResolveAddress, MissAddress, NameAddress, FinishTx, Resolving, Passes, AddTxPc
      <3> QED
        BY <1>3, <2>1, <2>2, <3>1, <3>2, <3>3, <3>4
           DEF TxStep, TouchesUtxo, Next, Worker, Adding, Removing, Flushing, Crash, Restart,
               FlushBegins
    <2> QED
      BY <1>3, <2>1, <2>2, <2>3, <2>4, <2>5, Moves
  <1> QED
    BY <1>1, <1>2, <1>3

LEMMA OutputFacts ==
  ASSUME NEW txs \in SUBSET Tx, NEW o \in Outputs(txs)
  PROVE  /\ o \in Outpoint /\ o = <<o[1], o[2]>> /\ o[1] \in txs /\ o[2] \in Nat \ {0}
         /\ o[2] \in DOMAIN Vout[o[1]] /\ o[2] <= Len(Vout[o[1]])
  <1>1. o \in Outpoint /\ o[1] \in txs /\ o[1] \in Tx /\ o[2] \in DOMAIN Vout[o[1]]
    BY DEF Outputs
  <1>2. o = <<o[1], o[2]>> /\ o[2] \in Nat \ {0}
    BY <1>1 DEF Outpoint
  <1>3. o[2] <= Len(Vout[o[1]])
    BY <1>1, LedgerFacts
  <1> QED
    BY <1>1, <1>2, <1>3

LEMMA SpendFacts ==
  ASSUME NEW blocks \in SUBSET Block, NEW places \in SUBSET Places(blocks),
         NEW s \in SpendsOf(places)
  PROVE  /\ s = <<s[1], s[2]>> /\ s[1] \in places /\ s[2] \in Nat \ {0}
         /\ s[2] \in DOMAIN Vin[At(s[1])] /\ At(s[1]) \in Tx /\ s[2] <= Len(Vin[At(s[1])])
         /\ s[1] = <<s[1][1], s[1][2]>> /\ SpentAt(s) \in Nat /\ Input(s) \in Outpoint
  <1>1. s = <<s[1], s[2]>> /\ s[1] \in places /\ s[2] \in Nat \ {0} /\ s[2] \in DOMAIN Vin[At(s[1])]
    BY DEF SpendsOf
  <1>2. At(s[1]) \in Tx /\ s[1] = <<s[1][1], s[1][2]>> /\ SpentAt(s) \in Nat
    BY <1>1, PlaceTypes DEF SpentAt
  <1>3. s[2] <= Len(Vin[At(s[1])]) /\ Input(s) \in Outpoint
    BY <1>1, <1>2, LedgerFacts DEF Input
  <1> QED
    BY <1>1, <1>2, <1>3

LEMMA CreatedFacts ==
  ASSUME TypeOK, NEW o \in Created
  PROVE  /\ o \in Outpoint /\ o = <<o[1], o[2]>> /\ o[1] \in DOMAIN View("tx-sym") /\ o[2] \in Nat \ {0}
         /\ o[2] \in DOMAIN Vout[o[1]] /\ o[2] <= Len(Vout[o[1]]) /\ ~ Awaited(o)
  <1>1. DOMAIN View("tx-sym") \in SUBSET Tx
    BY SymbolsView DEF IsMap
  <1>2. o \in Outputs(DOMAIN View("tx-sym")) /\ ~ Awaited(o)
    BY DEF Created
  <1> QED
    BY <1>1, <1>2, OutputFacts

LEMMA CreatedKept ==
  ASSUME ChainInv, SymbolInv, [Next]_vars, pc' # "exited",
         ~CreateOutput, ~RemoveOutput, ~Reboot
  PROVE  /\ Created' = Created
         /\ \A o \in Created : KeyIn(View("tx-sym"), o)' = KeyIn(View("tx-sym"), o)
  <1> USE JobFields DEF ChainInv, IInv
  <1>1. DOMAIN View("tx-sym") \in SUBSET Tx
    BY SymbolsView DEF IsMap
  <1>2. \A o \in Created : o[1] \in DOMAIN View("tx-sym")
    BY CreatedFacts
  <1>3. CASE AddTx
    <2>1. /\ CurrentTx \notin DOMAIN View("tx-sym")
          /\ \A t : t \in DOMAIN View("tx-sym")' <=> t = CurrentTx \/ t \in DOMAIN View("tx-sym")
          /\ \A t \in DOMAIN View("tx-sym") : View("tx-sym")'[t] = View("tx-sym")[t]
          /\ pc = "tx" /\ pc' = "inputs" /\ job' = job
      BY <1>3, AddTxMined
    <2>2. \A o : Awaited(o)' <=> o[1] = CurrentTx
      BY <2>1 DEF Awaited, AddTxPc, CurrentTx
    <2>3. \A o : ~ Awaited(o)
      BY <2>1 DEF Awaited, AddTxPc
    <2>4. Created' = Created
      BY <2>1, <2>2, <2>3 DEF Created, Outputs
    <2> QED
      BY <1>2, <2>1, <2>4 DEF KeyIn
  <1>4. CASE RemoveTxSymbol
    <2>1. /\ \A t : t \in DOMAIN View("tx-sym")' <=> t # CurrentTx /\ t \in DOMAIN View("tx-sym")
          /\ \A t \in DOMAIN View("tx-sym")' : View("tx-sym")'[t] = View("tx-sym")[t]
          /\ pc = "unlist" /\ pc' = "untx" /\ ~HasOutput
      BY <1>4, RemoveTxMined DEF RemoveTxSymbol
    <2>2. \A o : ~ Awaited(o)'
      BY <2>1 DEF Awaited, AddTxPc
    <2>3. \A o \in Outputs(DOMAIN View("tx-sym")) : o[1] = CurrentTx => Awaited(o)
      <3> SUFFICES ASSUME NEW o \in Outputs(DOMAIN View("tx-sym")), o[1] = CurrentTx
                   PROVE  o[2] < job.pos
        BY <2>1 DEF Awaited
      <3>1. o[2] <= Len(Vout[CurrentTx]) /\ o[2] \in Nat /\ CurrentTx \in Tx
        BY <1>1, OutputFacts
      <3>2. Len(Vout[CurrentTx]) \in Nat /\ job.pos \in Nat
        BY <3>1, LedgerFacts, JobTypes
      <3> QED
        BY <2>1, <3>1, <3>2 DEF HasOutput
    <2>4. \A o : o[1] # CurrentTx => ~ Awaited(o)
      BY DEF Awaited
    <2>5. Created' = Created
      BY <2>1, <2>2, <2>3, <2>4 DEF Created, Outputs
    <2>6. \A o \in Created : o[1] \in DOMAIN View("tx-sym")'
      BY <2>5 DEF Created, Outputs
    <2> QED
      BY <2>1, <2>5, <2>6 DEF KeyIn
  <1>5. CASE FlushBegins
    <2>1. View("tx-sym")' = View("tx-sym") /\ pc' \in FlushPc /\ pc \in {"idle", "taken", "tx", "untx"}
      BY <1>5, Taken, TakenLayers
         DEF FlushBegins, FinishBlockAndFlush, BeginRemove, CommitRemove, SaveState
    <2>2. \A o : ~ Awaited(o)' /\ ~ Awaited(o)
      BY <2>1 DEF Awaited, AddTxPc, FlushPc
    <2> QED
      BY <2>1, <2>2 DEF Created, KeyIn
  <1>6. CASE WriteBatches
    <2>1. View("tx-sym")' = View("tx-sym") /\ pc \in FlushPc /\ pc' \in {"idle", "untx"}
      BY <1>6, WrittenLayers, WrittenPlaces DEF Tables
    <2>2. \A o : ~ Awaited(o)' /\ ~ Awaited(o)
      BY <2>1 DEF Awaited, AddTxPc, FlushPc
    <2> QED
      BY <2>1, <2>2 DEF Created, KeyIn
  <1>7. CASE ~TxStep
    <2>1. View("tx-sym")' = View("tx-sym")
      BY <1>7, TxTablesKept
    <2>2. ASSUME \A o \in Outputs(DOMAIN View("tx-sym")) : Awaited(o)' <=> Awaited(o)
          PROVE  /\ Created' = Created
                 /\ \A o \in Created : KeyIn(View("tx-sym"), o)' = KeyIn(View("tx-sym"), o)
      BY <2>1, <2>2 DEF Created, KeyIn
    <2>3. CASE Stands
      BY <2>2, <2>3 DEF Stands, Awaited, CurrentTx
    <2>4. CASE Passes
      BY <2>2, <2>4 DEF Passes, Awaited
    <2>5. CASE Resolves
      BY <2>2, <2>5 DEF Resolves, Awaited, CurrentTx, AddTxPc
    <2>6. CASE SpendInput
      <3>1. pc = "inputs" /\ pc' = "inputs" /\ job'.block = job.block /\ job'.tx = job.tx
        BY <2>6 DEF SpendInput
      <3> QED
        BY <2>2, <3>1 DEF Awaited, CurrentTx, AddTxPc
    <2>7. CASE BeginOutputs
      <3>1. pc = "inputs" /\ pc' = "outputs" /\ job'.block = job.block /\ job'.tx = job.tx
            /\ job'.pos = 1
        BY <2>7 DEF BeginOutputs
      <3>2. \A o \in Outputs(DOMAIN View("tx-sym")) : o[2] >= 1
        BY <1>1, OutputFacts
      <3> QED
        BY <2>2, <3>1, <3>2 DEF Awaited, CurrentTx, AddTxPc
    <2>8. CASE FinishTx
      <3>1. pc = "outputs" /\ pc' = "tx" /\ ~HasOutput
        BY <2>8 DEF FinishTx
      <3>2. ASSUME NEW o \in Outputs(DOMAIN View("tx-sym")), o[1] = CurrentTx
            PROVE  ~ (o[2] >= job.pos)
        <4>1. o[2] <= Len(Vout[CurrentTx]) /\ o[2] \in Nat /\ CurrentTx \in Tx
          BY <1>1, <3>2, OutputFacts
        <4>2. Len(Vout[CurrentTx]) \in Nat /\ job.pos \in Nat
          BY <4>1, LedgerFacts, JobTypes
        <4> QED
          BY <3>1, <4>1, <4>2 DEF HasOutput
      <3> QED
        BY <2>2, <3>1, <3>2 DEF Awaited, AddTxPc
    <2>9. CASE RemoveTx \/ RevalidateInput
      <3>1. pc \in {"untx", "revalidate"} /\ pc' \in {"untx", "revalidate"}
        BY <2>9 DEF RemoveTx, RevalidateInput
      <3> QED
        BY <2>2, <3>1 DEF Awaited, AddTxPc
    <2>10. CASE EndRevalidation
      <3>1. pc = "revalidate" /\ pc' = "unlist" /\ job'.pos = 1
        BY <2>10 DEF EndRevalidation
      <3>2. \A o \in Outputs(DOMAIN View("tx-sym")) : ~ (o[2] < 1)
        BY <1>1, OutputFacts
      <3> QED
        BY <2>2, <3>1, <3>2 DEF Awaited, AddTxPc
    <2> QED
      BY <1>7, <2>3, <2>4, <2>5, <2>6, <2>7, <2>8, <2>9, <2>10, Moves
         DEF TouchesUtxo, TxStep
  <1> QED
    BY <1>3, <1>4, <1>5, <1>6, <1>7 DEF TxStep

LEMMA SpendsKept ==
  ASSUME ChainInv, SymbolInv, PosInv, [Next]_vars, pc' # "exited",
         ~SpendInput, ~RevalidateInput, ~Reboot
  PROVE  Spends' = Spends
  <1> USE JobFields DEF ChainInv, IInv
  <1> DEFINE q == <<job.block, job.tx>>
  <1>1. \A s \in SpendsOf(Mined) :
          /\ s[1] \in Mined /\ s[2] \in Nat \ {0}
          /\ s[2] <= Len(Vin[At(s[1])]) /\ Len(Vin[At(s[1])]) \in Nat
    <2> SUFFICES ASSUME NEW s \in SpendsOf(Mined)
                 PROVE  /\ s[1] \in Mined /\ s[2] \in Nat \ {0}
                        /\ s[2] <= Len(Vin[At(s[1])]) /\ Len(Vin[At(s[1])]) \in Nat
      OBVIOUS
    <2>1. Mined \in SUBSET Places(Known) /\ Known \in SUBSET Block
      BY KnownFacts DEF Mined
    <2>2. s[1] \in Mined /\ s[2] \in Nat \ {0} /\ s[2] <= Len(Vin[At(s[1])]) /\ At(s[1]) \in Tx
      BY <2>1, SpendFacts
    <2> QED
      BY <2>2, LedgerFacts
  <1>2. At(q) = CurrentTx
    BY DEF At, CurrentTx
  <1>3. job.pos \in Nat \ {0}
    BY JobTypes
  <1>4. CASE AddTx
    <2>1. /\ Mined' = Mined \cup {q} /\ q \notin Mined
          /\ pc = "tx" /\ pc' = "inputs" /\ job' = job /\ job.pos = 1
      BY <1>4, AddTxMined DEF PosInv
    <2>2. \A s \in SpendsOf(Mined') : Counts(s)' <=> s[1] # q
      <3> SUFFICES ASSUME NEW s \in SpendsOf(Mined')
                   PROVE  Counts(s)' <=> s[1] # q
        OBVIOUS
      <3>1. s[2] \in Nat \ {0}
        BY DEF SpendsOf
      <3> QED
        BY <2>1, <3>1 DEF Counts
    <2>3. \A s : s \in SpendsOf(Mined') /\ s[1] # q <=> s \in SpendsOf(Mined)
      BY <2>1 DEF SpendsOf
    <2>4. \A s : Counts(s)
      BY <2>1 DEF Counts
    <2> HIDE DEF q
    <2> QED
      BY <2>2, <2>3, <2>4 DEF Spends
  <1>5. CASE RemoveTxSymbol
    <2>1. /\ Mined' = Mined \ {q} /\ q \in Mined /\ pc = "unlist" /\ pc' = "untx"
      BY <1>5, RemoveTxMined
    <2>2. \A s : Counts(s)'
      BY <2>1 DEF Counts
    <2>3. \A s : Counts(s) <=> s[1] # q
      BY <2>1 DEF Counts
    <2>4. \A s : s \in SpendsOf(Mined') <=> s \in SpendsOf(Mined) /\ s[1] # q
      BY <2>1 DEF SpendsOf
    <2> HIDE DEF q
    <2> QED
      BY <2>2, <2>3, <2>4 DEF Spends
  <1>6. CASE FlushBegins
    <2>1. Mined' = Mined /\ pc' \in FlushPc /\ pc \in {"idle", "taken", "tx", "untx"}
      BY <1>6, Taken, TakenPlaces
         DEF FlushBegins, FinishBlockAndFlush, BeginRemove, CommitRemove, SaveState
    <2>2. \A s : Counts(s)' /\ Counts(s)
      BY <2>1 DEF Counts, FlushPc
    <2> QED
      BY <2>1, <2>2 DEF Spends
  <1>7. CASE WriteBatches
    <2>1. Mined' = Mined /\ pc \in FlushPc /\ pc' \in {"idle", "untx"}
      BY <1>7, WrittenPlaces
    <2>2. \A s : Counts(s)' /\ Counts(s)
      BY <2>1 DEF Counts, FlushPc
    <2> QED
      BY <2>1, <2>2 DEF Spends
  <1>8. CASE ~TxStep
    <2>1. Mined' = Mined
      BY <1>8, MinedKept
    <2>2. ASSUME \A s \in SpendsOf(Mined) : Counts(s)' <=> Counts(s)
          PROVE  Spends' = Spends
      BY <2>1, <2>2 DEF Spends
    <2>3. CASE Stands
      BY <2>2, <2>3 DEF Stands, Counts
    <2>4. CASE Passes
      BY <2>2, <2>4 DEF Passes, Counts, AddTxPc
    <2>5. CASE Resolves
      BY <2>2, <2>5 DEF Resolves, Counts
    <2>6. CASE CreateOutput \/ FinishTx
      <3>1. pc = "outputs" /\ pc' \in {"outputs", "tx"}
        BY <2>6 DEF CreateOutput, FinishTx
      <3> QED
        BY <2>2, <3>1 DEF Counts
    <2>7. CASE BeginOutputs
      <3>1. pc = "inputs" /\ pc' = "outputs" /\ ~HasInput
        BY <2>7 DEF BeginOutputs
      <3>2. \A s \in SpendsOf(Mined) : Counts(s)
        BY <1>1, <1>2, <1>3, <3>1 DEF Counts, HasInput
      <3>3. \A s : Counts(s)'
        BY <3>1 DEF Counts
      <3> QED
        BY <2>2, <3>2, <3>3
    <2>8. CASE RemoveTx
      <3>1. pc = "untx" /\ pc' = "revalidate" /\ job'.pos = 1
        <4>1. TxSymbol(CurrentTx) # None
          BY <2>8, RemovedTx, SentinelsAreNoValues DEF RemoveTx, RemovalPc
        <4> QED
          BY <2>8, <4>1 DEF RemoveTx, PosInv
      <3>2. \A s \in SpendsOf(Mined) : Counts(s)'
        BY <1>1, <3>1 DEF Counts
      <3>3. \A s : Counts(s)
        BY <3>1 DEF Counts
      <3> QED
        BY <2>2, <3>2, <3>3
    <2>9. CASE EndRevalidation
      <3>1. pc = "revalidate" /\ pc' = "unlist" /\ ~HasInput
            /\ job'.block = job.block /\ job'.tx = job.tx
        BY <2>9 DEF EndRevalidation
      <3>2. \A s \in SpendsOf(Mined) : Counts(s) <=> s[1] # q
        BY <1>1, <1>2, <1>3, <3>1 DEF Counts, HasInput
      <3>3. \A s : Counts(s)' <=> s[1] # q
        BY <3>1 DEF Counts
      <3> QED
        BY <2>2, <3>2, <3>3
    <2>10. CASE RemoveOutput
      <3>1. pc = "unlist" /\ pc' = "unlist" /\ job'.block = job.block /\ job'.tx = job.tx
        BY <2>10 DEF RemoveOutput
      <3> QED
        BY <2>2, <3>1 DEF Counts
    <2> QED
      BY <1>8, <2>3, <2>4, <2>5, <2>6, <2>7, <2>8, <2>9, <2>10, Moves
         DEF TouchesUtxo, TxStep
  <1> QED
    BY <1>4, <1>5, <1>6, <1>7, <1>8 DEF TxStep

-----------------------------------------------------------------------------
(* What is recorded stays recorded while nothing of it changes.             *)

LEMMA KeysApart ==
  ASSUME ChainInv, SymbolInv, pc # "exited", NEW o \in Outputs(DOMAIN View("tx-sym")),
         NEW e \in Outputs(DOMAIN View("tx-sym")),
         KeyIn(View("tx-sym"), o) = KeyIn(View("tx-sym"), e)
  PROVE  o = e
  <1> DEFINE live == View("tx-sym")
  <1>1. \A t \in DOMAIN live : \A u \in DOMAIN live : live[u] = live[t] => u = t
    BY DEF SymbolInv, TxSymbolsUnique
  <1>2. /\ o = <<o[1], o[2]>> /\ o[1] \in DOMAIN live
        /\ e = <<e[1], e[2]>> /\ e[1] \in DOMAIN live
    BY DEF Outputs, Outpoint
  <1>3. live[o[1]] = live[e[1]] /\ o[2] = e[2]
    BY DEF KeyIn
  <1> HIDE DEF live
  <1>4. o[1] = e[1]
    BY <1>1, <1>2, <1>3
  <1> QED
    BY <1>2, <1>3, <1>4

LEMMA RecordedFrame ==
  ASSUME NEW symbol, NEW utxos, NEW outputs, NEW places, NEW spends,
         Recorded(symbol, utxos, outputs, places, spends),
         NEW symbol2, NEW utxos2, NEW outputs2, NEW places2, NEW spends2,
         \A o \in outputs2 : o \in outputs /\ KeyIn(symbol2, o) = KeyIn(symbol, o),
         \A k \in DOMAIN utxos : k \in DOMAIN utxos2 /\ utxos2[k] = utxos[k],
         \A o \in outputs2 : \A p \in places : At(p) = o[1] => p \in places2,
         \A s : s \in spends <=> s \in spends2
  PROVE  Recorded(symbol2, utxos2, outputs2, places2, spends2)
  <1> SUFFICES ASSUME NEW o \in outputs2
               PROVE  /\ KeyIn(symbol2, o) \in DOMAIN utxos2
                      /\ Dated(utxos2[KeyIn(symbol2, o)], o, places2)
                      /\ Dues(utxos2[KeyIn(symbol2, o)], o, spends2)
    BY DEF Recorded
  <1> DEFINE k == KeyIn(symbol, o)
  <1>1. o \in outputs /\ KeyIn(symbol2, o) = k
    OBVIOUS
  <1>2. k \in DOMAIN utxos /\ Dated(utxos[k], o, places) /\ Dues(utxos[k], o, spends)
    BY <1>1 DEF Recorded
  <1>3. k \in DOMAIN utxos2 /\ utxos2[k] = utxos[k]
    BY <1>2
  <1>4. Dated(utxos[k], o, places2)
    BY <1>2 DEF Dated
  <1>5. Dues(utxos[k], o, spends2)
    BY <1>2 DEF Dues
  <1> HIDE DEF k
  <1> QED
    BY <1>1, <1>3, <1>4, <1>5

LEMMA Running ==
  ASSUME [Next]_vars, pc' # "exited", ~Reboot
  PROVE  pc # "exited"
  <1> SUFFICES ASSUME pc = "exited"
               PROVE  FALSE
    OBVIOUS
  <1>1. ~FlushBegins /\ ~AddTx /\ ~RemoveTxSymbol /\ ~WriteBatches
    BY DEF FlushBegins, FinishBlockAndFlush, BeginRemove, CommitRemove, SaveState, AddTx,
           RemoveTxSymbol, WriteBatches, FlushPc
  <1>2. ~(Requests \/ Syncer \/ \E a \in flush.todo : FlushList(a))
    BY DEF Requests, LookupMiss, LookupName, Syncer, BlockAdded, BlockRemoved, HandleBlock,
           FlushList, FlushPc
  <1>3. ~Adding
    BY DEF Adding, Take, SkipBlock, AddBlock, SkipTx, AddTx, SpendInput, ResolveAddress,
           MissAddress, Resolving, NameAddress, BeginOutputs, CreateOutput, FinishTx, FinishBlock,
           FinishBlockAndFlush
  <1>4. ~Removing
    BY DEF Removing, BeginRemove, RemoveTx, RevalidateInput, EndRevalidation, RemoveOutput,
           RemoveTxSymbol, CommitRemove
  <1>5. ~UNCHANGED vars /\ ~Exit
    BY DEF vars, worker, Exit
  <1> QED
    BY <1>1, <1>2, <1>3, <1>4, <1>5 DEF Next, Worker, Flushing, Crash, Restart, FlushBegins

LEMMA PlacesKept ==
  ASSUME ChainInv, SymbolInv, [Next]_vars, pc' # "exited", ~Reboot, NEW p \in Mined
  PROVE  p \in Mined' \/ (RemoveTxSymbol /\ At(p) = CurrentTx)
  <1>1. CASE AddTx
    BY <1>1, AddTxMined
  <1>2. CASE RemoveTxSymbol
    BY <1>2, RemoveTxMined
  <1>3. CASE FlushBegins
    BY <1>3, TakenPlaces
  <1>4. CASE WriteBatches
    BY <1>4, WrittenPlaces
  <1>5. CASE ~TxStep
    BY <1>5, MinedKept
  <1> QED
    BY <1>1, <1>2, <1>3, <1>4, <1>5 DEF TxStep

(* An output keeps the place of the transaction that created it.            *)
LEMMA OriginKept ==
  ASSUME ChainInv, SymbolInv, [Next]_vars, pc' # "exited", ~Reboot,
         NEW o, o[1] \in DOMAIN View("tx-sym")', NEW p \in Mined, At(p) = o[1]
  PROVE  p \in Mined'
  <1>1. RemoveTxSymbol => CurrentTx \notin DOMAIN View("tx-sym")'
    BY RemoveTxMined
  <1> QED
    BY <1>1, PlacesKept

LEMMA UtxosKept ==
  ASSUME ChainInv, [Next]_vars,
         ~SpendInput, ~CreateOutput, ~RevalidateInput, ~RemoveOutput, ~Reboot
  PROVE  View("utxo")' = View("utxo")
  <1> USE DEF ChainInv, IInv
  <1>1. CASE FlushBegins
    BY <1>1, OutputsTaken
  <1>2. CASE WriteBatches
    BY <1>2, WrittenLayers DEF Tables
  <1>3. CASE ~TouchesUtxo
    BY <1>3, UtxoStillSteps, UtxoLayersKept
  <1> QED
    BY <1>1, <1>2, <1>3 DEF TouchesUtxo

LEMMA RecordedStays ==
  ASSUME ChainInv, SymbolInv, UtxoInv, [Next]_vars, pc' # "exited",
         ~SpendInput, ~CreateOutput, ~RevalidateInput, ~RemoveOutput, ~Reboot
  PROVE  Recorded(View("tx-sym"), View("utxo"), Created, Mined, Spends)'
  <1>1. /\ Created' = Created
        /\ \A o \in Created : KeyIn(View("tx-sym"), o)' = KeyIn(View("tx-sym"), o)
    BY CreatedKept
  <1>2. Spends' = Spends
    BY SpendsKept DEF UtxoInv
  <1>3. View("utxo")' = View("utxo")
    BY UtxosKept
  <1>4. Recorded(View("tx-sym"), View("utxo"), Created, Mined, Spends)
    BY Running DEF UtxoInv, StoredInv
  <1>5. \A o \in Created' : \A p \in Mined : At(p) = o[1] => p \in Mined'
    <2>1. \A o \in Created' : o[1] \in DOMAIN View("tx-sym")'
      BY DEF Created, Outputs
    <2> QED
      BY <2>1, OriginKept
  <1> QED
    BY <1>1, <1>2, <1>3, <1>4, <1>5, RecordedFrame

-----------------------------------------------------------------------------
(* The worker finds what it spends.                                         *)

LEMMA BeforeIrreflexive ==
  ASSUME NEW blocks \in SUBSET Block, NEW p \in Places(blocks)
  PROVE  ~ Before(p, p)
  BY PlaceTypes DEF Before

(* A transaction being added is the last one so far.                        *)
LEMMA LastPlace ==
  ASSUME ChainInv, SymbolInv, pc \in AddTxPc
  PROVE  /\ <<job.block, job.tx>> \in Mined /\ At(<<job.block, job.tx>>) = CurrentTx
         /\ \A p \in Mined : ~ Before(<<job.block, job.tx>>, p)
  <1> USE DEF ChainInv, IInv, SymbolInv
  <1> DEFINE q == <<job.block, job.tx>>
  <1>1. HasTx /\ AddingBlock /\ pc \notin RemovalPc /\ pc # "tx"
    BY DEF WorkerInv, AddTxPc, AddingBlock, RemovalPc
  <1>2. job.block \in Known /\ Height[job.block] = lastBlockSymbol
    BY <1>1 DEF JobInv
  <1>3. q \in Places(Known) /\ At(q) = CurrentTx
    BY <1>1, <1>2, CurrentPlace
  <1>4. q \in Mined
    BY <1>1, <1>3 DEF Mined, Indexed
  <1>5. ASSUME NEW p \in Mined
        PROVE  ~ Before(q, p)
    <2>1. /\ p[1] \in Known /\ p[1] \in Block /\ p[2] \in Nat /\ Height[p[1]] \in Nat
      BY KnownFacts, PlaceTypes DEF Mined
    <2>2. Height[p[1]] <= lastBlockSymbol /\ lastBlockSymbol \in Int
      BY <2>1, KnownFacts
    <2>3. p[1] = job.block => p[2] <= job.tx
      BY <1>1, <2>1, JobTypes DEF Mined, Indexed
    <2> QED
      BY <1>2, <2>1, <2>2, <2>3, JobTypes DEF Before
  <1> QED
    BY <1>3, <1>4, <1>5

LEMMA InputKnown ==
  ASSUME ChainInv, SymbolInv, pc = "inputs", HasInput
  PROVE  /\ CurrentInput \in Created /\ CurrentInput[1] # CurrentTx
         /\ \A s \in Spends : Input(s) # CurrentInput
         /\ \E p \in Mined : At(p) = CurrentInput[1]
         /\ job.pos \in DOMAIN Vin[CurrentTx]
  <1> USE DEF ChainInv, IInv, SymbolInv
  <1> DEFINE q == <<job.block, job.tx>>
             o == CurrentInput
  <1>1. q \in Mined /\ At(q) = CurrentTx /\ \A p \in Mined : ~ Before(q, p)
    BY LastPlace DEF AddTxPc
  <1>2. /\ Known \in SUBSET Block /\ OnePerHeight(Known) /\ Rooted(Known) /\ q \in Places(Known)
    BY <1>1, KnownFacts DEF RootedInv, Mined
  <1>3. HasTx /\ AddingBlock /\ CurrentTx \in Tx /\ pc \notin RemovalPc /\ pc # "tx"
    BY JobTypes DEF WorkerInv, AddTxPc, AddingBlock, RemovalPc
  <1>4. job.pos \in DOMAIN Vin[CurrentTx]
    BY <1>3, JobTypes, LedgerFacts DEF HasInput
  <1>5. PICK p \in Places(Known) : Before(p, q) /\ At(p) = o[1]
    BY <1>1, <1>2, <1>4, InputCreated DEF CurrentInput
  <1>6. o \in Outpoint /\ o[2] \in DOMAIN Vout[o[1]]
    BY <1>1, <1>2, <1>4, InputCreated DEF CurrentInput
  <1>7. p \in Mined
    <2>1. p[1] = job.block => p[2] < job.tx
      <3>1. Height[job.block] \in Nat
        BY JobTypes
      <3> QED
        BY <1>5, <3>1 DEF Before
    <2> QED
      BY <1>3, <2>1 DEF Mined, Indexed
  <1>8. o[1] \in DOMAIN View("tx-sym")
    BY <1>5, <1>7 DEF OrderedInv, Numbered
  <1>9. o[1] # CurrentTx
    <2> SUFFICES ASSUME o[1] = CurrentTx
                 PROVE  FALSE
      OBVIOUS
    <2>1. p = q
      BY <1>1, <1>2, <1>5, MinedOnce
    <2> QED
      BY <1>2, <1>5, <2>1, BeforeIrreflexive
  <1>10. o \in Created
    BY <1>6, <1>8, <1>9 DEF Created, Outputs, Awaited
  <1>11. ASSUME NEW s \in Spends
         PROVE  Input(s) # o
    <2>1. s[1] \in Places(Known) /\ s[2] \in DOMAIN Vin[At(s[1])]
      BY DEF Spends, SpendsOf, Mined
    <2>2. Input(s) = o => s[1] = q /\ s[2] = job.pos
      BY <1>1, <1>2, <1>4, <2>1, SpentOnce DEF Input, CurrentInput
    <2>3. s[1] = q => s[2] < job.pos
      BY DEF Spends, Counts
    <2> QED
      BY <2>2, <2>3, JobTypes
  <1> QED
    BY <1>4, <1>5, <1>7, <1>9, <1>10, <1>11

LEMMA FoundInput ==
  ASSUME ChainInv, SymbolInv, UtxoInv, pc = "inputs", HasInput
  PROVE  /\ UtxoExists(CurrentInput) # None
         /\ UtxoExists(CurrentInput).key = KeyIn(View("tx-sym"), CurrentInput)
         /\ Dated(UtxoExists(CurrentInput).utxo, CurrentInput, Mined)
  <1> USE DEF ChainInv, IInv, SymbolInv, UtxoInv
  <1> DEFINE o == CurrentInput
             live == View("tx-sym")
  <1>1. o \in Created /\ \A s \in Spends : Input(s) # o
    BY InputKnown
  <1>2. o \in Outpoint /\ o[1] \in Tx /\ o[1] \in DOMAIN live /\ o[2] \in Nat \ {0}
    BY <1>1, CreatedFacts DEF Outpoint
  <1>3. live[o[1]] \in Nat
    BY <1>2, SymbolsView DEF IsMap, Symbol
  <1>4. CASE o \in DOMAIN lastSeenUtxos
    <2> DEFINE seen == lastSeenUtxos[o]
    <2>1. seen \in SeenUtxo
      BY <1>4 DEF TypeOK, CacheTypeOK, IsMap
    <2>2. UtxoExists(o) = [key |-> <<seen.txSymbol, o[2]>>, utxo |-> seen.utxo]
      BY <1>4 DEF UtxoExists
    <2>3. <<seen.txSymbol, o[2]>> \in UtxoKey /\ seen.utxo \in UtxoRecord
      BY <1>2, <2>1 DEF SeenUtxo, UtxoKey
    <2>4. UtxoExists(o) # None
      BY <2>2, <2>3, SentinelsAreNoRecords
    <2>5. seen.txSymbol = live[o[1]] /\ Dated(seen.utxo, o, Mined)
      BY <1>1, <1>4 DEF CachedInv
    <2> HIDE DEF seen
    <2> QED
      BY <2>2, <2>4, <2>5 DEF KeyIn
  <1>5. CASE o \notin DOMAIN lastSeenUtxos
    <2> DEFINE key == <<TxSymbol(o[1]), o[2]>>
    <2>1. TxSymbol(o[1]) = live[o[1]]
      BY <1>2 DEF CacheInv, ReadsSeePendingWrites, Get
    <2>2. TxSymbol(o[1]) # None /\ key = KeyIn(live, o)
      BY <1>3, <2>1, SentinelsAreNoValues DEF KeyIn
    <2>3. key \in DOMAIN db["utxo"] /\ Dated(db["utxo"][key], o, Mined)
      BY <1>1, <1>5, <2>2 DEF UncachedInv, RemovalPc
    <2>4. UtxoExists(o) = [key |-> key, utxo |-> db["utxo"][key]]
      BY <1>5, <2>2, <2>3 DEF UtxoExists, UtxoExistsInDb
    <2>5. key \in UtxoKey /\ db["utxo"][key] \in UtxoRecord
      BY <2>3 DEF TypeOK, DbTypeOK, IsMap
    <2>6. UtxoExists(o) # None
      BY <2>4, <2>5, SentinelsAreNoRecords
    <2> HIDE DEF key
    <2> QED
      BY <2>2, <2>3, <2>4, <2>6
  <1> QED
    BY <1>4, <1>5

(* No output is stored a second time.                                       *)
LEMMA NotSeenBefore ==
  ASSUME ChainInv, UtxoInv, pc = "outputs", HasOutput
  PROVE  CurrentOutput \notin DOMAIN lastSeenUtxos
  <1>1. Awaited(CurrentOutput)
    BY JobTypes DEF Awaited, AddTxPc, CurrentOutput, ChainInv, IInv
  <1> QED
    BY <1>1 DEF UtxoInv, CachedInv, Created

(* A removal finds what its transactions spent, for all reads come from the *)
(* database, whose outputs are all there until the removal is committed.   *)
LEMMA DbKeysApart ==
  ASSUME ChainInv, SymbolInv
  PROVE  \A t, u \in DOMAIN db["tx-sym"] : db["tx-sym"][t] = db["tx-sym"][u] => t = u
  <1> USE DEF ChainInv, IInv, SymbolInv
  <1>1. DOMAIN db["block-sym"] \in SUBSET Block /\ OnePerHeight(DOMAIN db["block-sym"])
    BY KnownFacts
  <1>2. Numbered(db["tx-sym"], StoredPlaces, StoredTop)
    BY DEF OrderedInv
  <1>3. \A t \in DOMAIN db["tx-sym"] : db["tx-sym"][t] \in Int
    BY DEF TypeOK, DbTypeOK, IsMap, Symbol
  <1> QED
    BY <1>1, <1>2, <1>3, NumberedApart DEF StoredPlaces

LEMMA RevalidatedKnown ==
  ASSUME ChainInv, SymbolInv, pc = "revalidate", HasInput
  PROVE  /\ CurrentInput \in Outputs(DOMAIN db["tx-sym"]) /\ CurrentInput[1] # CurrentTx
         /\ job.pos \in DOMAIN Vin[CurrentTx]
         /\ StoredPlaces = Places(Known)
         /\ <<job.block, job.tx>> \in Mined /\ At(<<job.block, job.tx>>) = CurrentTx
  <1> USE DEF ChainInv, IInv, SymbolInv
  <1> DEFINE q == <<job.block, job.tx>>
             o == CurrentInput
  <1>1. HasTx /\ CurrentTx \in Tx
    BY JobTypes DEF WorkerInv
  <1>2. q \in Mined /\ q \in Places(Known) /\ At(q) = CurrentTx
    BY <1>1, RemovedTx, CurrentPlace DEF RemovalPc, Mined
  <1>3. Known \in SUBSET Block /\ OnePerHeight(Known) /\ Rooted(Known)
    BY KnownFacts DEF RootedInv
  <1>4. job.pos \in DOMAIN Vin[CurrentTx]
    BY <1>1, JobTypes, LedgerFacts DEF HasInput
  <1>5. PICK p \in Places(Known) : Before(p, q) /\ At(p) = o[1]
    BY <1>2, <1>3, <1>4, InputCreated DEF CurrentInput
  <1>6. o \in Outpoint /\ o[2] \in DOMAIN Vout[o[1]]
    BY <1>2, <1>3, <1>4, InputCreated DEF CurrentInput
  <1>7. StoredPlaces = Places(Known)
    BY DEF JobInv, RemovalPc, StoredPlaces
  <1>8. o[1] \in DOMAIN db["tx-sym"]
    BY <1>5, <1>7 DEF OrderedInv, Numbered
  <1>9. o[1] # CurrentTx
    <2> SUFFICES ASSUME o[1] = CurrentTx
                 PROVE  FALSE
      OBVIOUS
    <2>1. p = q
      BY <1>2, <1>3, <1>5, MinedOnce
    <2> QED
      BY <1>2, <1>3, <1>5, <2>1, BeforeIrreflexive
  <1> QED
    BY <1>2, <1>4, <1>6, <1>7, <1>8, <1>9 DEF Outputs

LEMMA FoundRemoved ==
  ASSUME ChainInv, SymbolInv, UtxoInv, pc = "revalidate", HasInput
  PROVE  /\ UtxoExists(CurrentInput) # None
         /\ UtxoExists(CurrentInput).key = KeyIn(db["tx-sym"], CurrentInput)
         /\ UtxoExists(CurrentInput).utxo = db["utxo"][KeyIn(db["tx-sym"], CurrentInput)]
         /\ Dated(UtxoExists(CurrentInput).utxo, CurrentInput, StoredPlaces)
  <1> USE DEF ChainInv, IInv, SymbolInv, UtxoInv
  <1> DEFINE o == CurrentInput
             key == KeyIn(db["tx-sym"], o)
  <1>1. o \in Outputs(DOMAIN db["tx-sym"]) /\ o[1] \in DOMAIN db["tx-sym"]
    BY RevalidatedKnown DEF Outputs
  <1>2. key \in DOMAIN db["utxo"] /\ Dated(db["utxo"][key], o, StoredPlaces)
    BY <1>1 DEF StoredInv, Recorded
  <1>3. lastSeenUtxos = EmptyMap /\ lastSeenTxHashes = EmptyMap
    BY DEF CachedInv, CacheInv, RemovalPc
  <1>4. TxSymbol(o[1]) = db["tx-sym"][o[1]]
    BY <1>1, <1>3 DEF TxSymbol, Get, EmptyMap
  <1>5. TxSymbol(o[1]) # None
    BY <1>1, <1>4, SentinelsAreNoValues DEF TypeOK, DbTypeOK, IsMap, Symbol
  <1>6. <<TxSymbol(o[1]), o[2]>> = key
    BY <1>4 DEF KeyIn
  <1>7. key \in UtxoKey /\ db["utxo"][key] \in UtxoRecord
    BY <1>2 DEF TypeOK, DbTypeOK, IsMap
  <1> HIDE DEF key
  <1>8. UtxoExists(o) = [key |-> key, utxo |-> db["utxo"][key]]
    BY <1>2, <1>3, <1>5, <1>6 DEF UtxoExists, UtxoExistsInDb, EmptyMap
  <1>9. UtxoExists(o) # None
    BY <1>7, <1>8, SentinelsAreNoRecords
  <1> QED
    BY <1>2, <1>8, <1>9 DEF key

(* The symbols a removal reads are those of the outputs it has left.        *)
LEMMA RemovalKeys ==
  ASSUME ChainInv, SymbolInv, pc \in RemovalPc, NEW e \in Created,
         NEW o \in Outputs(DOMAIN db["tx-sym"])
  PROVE  /\ KeyIn(View("tx-sym"), e) = KeyIn(db["tx-sym"], e)
         /\ KeyIn(View("tx-sym"), e) = KeyIn(db["tx-sym"], o) => e = o
  <1> USE DEF ChainInv, IInv, SymbolInv
  <1>1. e[1] \in DOMAIN View("tx-sym") /\ e = <<e[1], e[2]>>
    BY CreatedFacts
  <1>2. e[1] \in DOMAIN db["tx-sym"] /\ View("tx-sym")[e[1]] = db["tx-sym"][e[1]]
    BY <1>1 DEF RemovalInv
  <1>3. o = <<o[1], o[2]>> /\ o[1] \in DOMAIN db["tx-sym"]
    BY DEF Outputs, Outpoint
  <1>4. KeyIn(View("tx-sym"), e) = KeyIn(db["tx-sym"], o) => e[1] = o[1] /\ e[2] = o[2]
    BY <1>2, <1>3, DbKeysApart DEF KeyIn
  <1> QED
    BY <1>1, <1>2, <1>3, <1>4 DEF KeyIn

-----------------------------------------------------------------------------
(* One record is written: that of the output o, under its key k.            *)

OthersKept(symbol, outputs, outputs2, o, k) ==
  \A e \in outputs2 : e # o => e \in outputs /\ KeyIn(symbol, e) # k
RecordsKept(utxos, utxos2, k) ==
  \A x \in DOMAIN utxos : x # k => x \in DOMAIN utxos2 /\ utxos2[x] = utxos[x]
SpendsKeptOff(spends, spends2, o) == \A s : Input(s) # o => (s \in spends <=> s \in spends2)

LEMMA RecordedPut ==
  ASSUME NEW symbol, NEW utxos, NEW outputs, NEW places, NEW spends,
         Recorded(symbol, utxos, outputs, places, spends),
         NEW utxos2, NEW outputs2, NEW spends2, NEW o, NEW k,
         OthersKept(symbol, outputs, outputs2, o, k), RecordsKept(utxos, utxos2, k),
         SpendsKeptOff(spends, spends2, o),
         o \in outputs2 => /\ KeyIn(symbol, o) = k /\ k \in DOMAIN utxos2
                           /\ Dated(utxos2[k], o, places) /\ Dues(utxos2[k], o, spends2)
  PROVE  Recorded(symbol, utxos2, outputs2, places, spends2)
  <1> SUFFICES ASSUME NEW e \in outputs2
               PROVE  /\ KeyIn(symbol, e) \in DOMAIN utxos2
                      /\ Dated(utxos2[KeyIn(symbol, e)], e, places)
                      /\ Dues(utxos2[KeyIn(symbol, e)], e, spends2)
    BY DEF Recorded
  <1>1. CASE e = o
    BY <1>1
  <1>2. CASE e # o
    <2> DEFINE x == KeyIn(symbol, e)
    <2>1. e \in outputs /\ x # k
      BY <1>2 DEF OthersKept
    <2>2. x \in DOMAIN utxos /\ Dated(utxos[x], e, places) /\ Dues(utxos[x], e, spends)
      BY <2>1 DEF Recorded
    <2>3. x \in DOMAIN utxos2 /\ utxos2[x] = utxos[x]
      BY <2>1, <2>2 DEF RecordsKept
    <2>4. Dues(utxos[x], e, spends2)
      BY <1>2, <2>2 DEF Dues, SpendsKeptOff
    <2> HIDE DEF x
    <2> QED
      BY <2>2, <2>3, <2>4 DEF x
  <1> QED
    BY <1>1, <1>2

LEMMA SpentFields ==
  ASSUME NEW u \in UtxoRecord, NEW s \in OrNone(Nat), NEW h \in OrNone(Nat)
  PROVE  /\ SpentBy(u, s, h) \in UtxoRecord /\ Revalidated(u) \in UtxoRecord
         /\ SpentBy(u, s, h).created = u.created /\ SpentBy(u, s, h).spentOn = h
         /\ Revalidated(u).created = u.created /\ Revalidated(u).spentOn = None
  BY DEF UtxoRecord, SpentBy, Revalidated, OrNone

LEMMA SpendStep ==
  ASSUME ChainInv, SymbolInv, UtxoInv, [Next]_vars, SpendInput
  PROVE  /\ Recorded(View("tx-sym"), View("utxo"), Created, Mined, Spends)'
         /\ Created' = Created /\ View("tx-sym")' = View("tx-sym") /\ Mined' = Mined
         /\ \A s : s \in Spends' <=> s \in Spends \/ s = <<<<job.block, job.tx>>, job.pos>>
  <1> USE DEF ChainInv, IInv
  <1> DEFINE q == <<job.block, job.tx>>
             o == CurrentInput
             found == UtxoExists(o)
             spent == SpentBy(found.utxo, lastTxSymbol, Height[job.block])
             here  == <<q, job.pos>>
  <1>1. /\ pc = "inputs" /\ pc' = "inputs" /\ HasInput /\ UNCHANGED <<db, flush>>
        /\ dbBatches' = [dbBatches EXCEPT !["utxo"] = Put(@, found.key, spent)]
        /\ job' = [job EXCEPT !.pos = @ + 1]
    BY DEF SpendInput, database
  <1>2. ~CreateOutput /\ ~RemoveOutput /\ ~Reboot /\ ~TxStep
    BY <1>1, Taken DEF CreateOutput, RemoveOutput, Reboot, TxStep, AddTx, RemoveTxSymbol, WriteBatches,
                       FlushPc
  <1>3. /\ Created' = Created /\ View("tx-sym")' = View("tx-sym") /\ Mined' = Mined
    BY <1>1, <1>2, CreatedKept, TxTablesKept, MinedKept
  <1>4. /\ o \in Created /\ \A s \in Spends : Input(s) # o
        /\ job.pos \in DOMAIN Vin[CurrentTx]
    BY <1>1, InputKnown
  <1>5. /\ found # None /\ found.key = KeyIn(View("tx-sym"), o) /\ Dated(found.utxo, o, Mined)
    BY <1>1, FoundInput
  <1>6. q \in Mined /\ At(q) = CurrentTx /\ HasTx
    BY <1>1, LastPlace DEF AddTxPc, WorkerInv
  <1>7. Input(here) = o /\ SpentAt(here) = Height[job.block] /\ here \in SpendsOf(Mined)
    BY <1>4, <1>6, JobTypes DEF Input, SpentAt, SpendsOf, CurrentInput
  <1>8. found.utxo \in UtxoRecord
    BY <1>4, <1>5, CreatedFacts, UtxoExistsType
  <1>9. lastTxSymbol \in OrNone(Nat) /\ Height[job.block] \in OrNone(Nat)
    BY <1>1, JobTypes DEF WorkerInv, AddTxPc, OrNone
  <1>10. /\ spent # Deleted /\ spent.created = found.utxo.created
         /\ spent.spentOn = Height[job.block]
    BY <1>8, <1>9, SpentFields, SentinelsAreNoRecords
  <1>11. job'.block = job.block /\ job'.tx = job.tx /\ job'.pos = job.pos + 1
    BY <1>1, JobFields
  <1>12. \A s : s \in Spends' <=> s \in Spends \/ s = here
    <2>1. \A s \in SpendsOf(Mined) : s = <<s[1], s[2]>> /\ s[2] \in Nat
      BY DEF SpendsOf
    <2>2. \A s \in SpendsOf(Mined) : Counts(s) <=> (s[1] = q => s[2] < job.pos)
      BY <1>1 DEF Counts
    <2>3. \A s \in SpendsOf(Mined) : Counts(s)' <=> (s[1] = q => s[2] < job.pos + 1)
      BY <1>1, <1>11 DEF Counts
    <2>4. job.pos \in Nat
      BY JobTypes
    <2>5. ASSUME NEW s \in SpendsOf(Mined)
          PROVE  Counts(s)' <=> Counts(s) \/ s = here
      <3>1. s[2] < job.pos + 1 <=> s[2] < job.pos \/ s[2] = job.pos
        BY <2>1, <2>4
      <3> QED
        BY <2>1, <2>2, <2>3, <3>1
    <2> HIDE DEF here
    <2>6. Spends' = {s \in SpendsOf(Mined) : Counts(s)'}
      BY <1>3 DEF Spends
    <2> QED
      BY <1>7, <2>5, <2>6 DEF Spends
  <1> HIDE DEF spent, found, here, o
  <1>13. UtxoPuts(found.key, spent)
    BY <1>1 DEF UtxoPuts, TypeOK, BatchesType, Tables
  <1>14. /\ found.key \in DOMAIN View("utxo")' /\ View("utxo")'[found.key] = spent
         /\ RecordsKept(View("utxo"), View("utxo")', found.key)
    BY <1>10, <1>13, UtxoPut DEF RecordsKept
  <1>15. Dated(View("utxo")'[found.key], o, Mined)
    BY <1>5, <1>10, <1>14 DEF Dated
  <1>16. Dues(View("utxo")'[found.key], o, Spends')
    BY <1>4, <1>7, <1>10, <1>12, <1>14 DEF Dues
  <1>17. OthersKept(View("tx-sym"), Created, Created, o, found.key)
    BY <1>1, <1>4, <1>5, KeysApart DEF OthersKept, Created
  <1>18. Recorded(View("tx-sym"), View("utxo"), Created, Mined, Spends)
    BY <1>1 DEF UtxoInv, StoredInv
  <1>19. SpendsKeptOff(Spends, Spends', o)
    BY <1>7, <1>12 DEF SpendsKeptOff
  <1>20. Recorded(View("tx-sym"), View("utxo")', Created, Mined, Spends')
    BY <1>5, <1>14, <1>15, <1>16, <1>17, <1>18, <1>19, RecordedPut
  <1> QED
    BY <1>3, <1>12, <1>20 DEF here

(* A spend of an output comes after the output.                              *)
LEMMA NotSpentYet ==
  ASSUME ChainInv, SymbolInv, pc \in AddTxPc, NEW s \in Spends
  PROVE  Input(s)[1] # CurrentTx
  <1> USE DEF ChainInv, IInv, SymbolInv
  <1> DEFINE q == <<job.block, job.tx>>
  <1>1. q \in Mined /\ At(q) = CurrentTx /\ \A p \in Mined : ~ Before(q, p)
    BY LastPlace
  <1>2. s[1] \in Mined /\ s[2] \in DOMAIN Vin[At(s[1])]
    BY DEF Spends, SpendsOf
  <1>3. /\ Known \in SUBSET Block /\ OnePerHeight(Known) /\ Rooted(Known)
        /\ q \in Places(Known) /\ s[1] \in Places(Known)
    BY <1>1, <1>2, KnownFacts DEF RootedInv, Mined
  <1>4. PICK p \in Places(Known) : Before(p, s[1]) /\ At(p) = Input(s)[1]
    BY <1>2, <1>3, InputCreated DEF Input
  <1>5. At(p) = CurrentTx => p = q
    BY <1>1, <1>3, MinedOnce
  <1> QED
    BY <1>1, <1>2, <1>4, <1>5

LEMMA CreateStep ==
  ASSUME ChainInv, SymbolInv, UtxoInv, [Next]_vars, CreateOutput
  PROVE  /\ Recorded(View("tx-sym"), View("utxo"), Created, Mined, Spends)'
         /\ \A o : o \in Created' <=> o \in Created \/ o = CurrentOutput
         /\ CurrentOutput \notin Created /\ \E p \in Mined : At(p) = CurrentTx /\ p[1] = job.block
         /\ View("tx-sym")' = View("tx-sym") /\ Mined' = Mined /\ Spends' = Spends
         /\ KeyIn(View("tx-sym"), CurrentOutput) = <<lastTxSymbol, job.pos>>
  <1> USE DEF ChainInv, IInv
  <1> DEFINE q == <<job.block, job.tx>>
             o == CurrentOutput
             k == <<lastTxSymbol, job.pos>>
             live == View("tx-sym")
             new == Utxo(job.resolved[job.pos], Height[job.block])
  <1>1. /\ pc = "outputs" /\ pc' = "outputs" /\ HasOutput /\ UNCHANGED <<db, flush>>
        /\ dbBatches' = [dbBatches EXCEPT !["utxo"] = Put(@, k, new)]
        /\ job' = [job EXCEPT !.pos = @ + 1]
    BY DEF CreateOutput, Stored, database
  <1>2. ~SpendInput /\ ~RevalidateInput /\ ~Reboot /\ ~TxStep
    BY <1>1, Taken DEF SpendInput, RevalidateInput, Reboot, TxStep, AddTx, RemoveTxSymbol,
                       WriteBatches, FlushPc
  <1>3. Spends' = Spends /\ View("tx-sym")' = View("tx-sym") /\ Mined' = Mined
    BY <1>1, <1>2, SpendsKept, TxTablesKept, MinedKept DEF UtxoInv
  <1>4. q \in Mined /\ At(q) = CurrentTx /\ HasTx /\ CurrentTx \in Tx
    BY <1>1, LastPlace, JobTypes DEF AddTxPc, WorkerInv
  <1>5. CurrentTx \in DOMAIN live /\ live[CurrentTx] = lastTxSymbol
    BY <1>1 DEF SymbolInv, CurrentInv, AddTxPc
  <1>6. job.pos \in DOMAIN Vout[CurrentTx] /\ job.pos \in Nat \ {0}
    BY <1>1, <1>4, JobTypes
  <1>7. o \in Outputs(DOMAIN live) /\ o[1] = CurrentTx /\ o[2] = job.pos
    BY <1>4, <1>5, <1>6 DEF Outputs, Outpoint, CurrentOutput
  <1>8. KeyIn(live, o) = k
    BY <1>5, <1>7 DEF KeyIn
  <1>9. job.resolved[job.pos] \in OrNone(Nat)
    <2>1. Len(job.resolved) = Len(Vout[CurrentTx])
      BY <1>1 DEF WorkerInv
    <2>2. DOMAIN Vout[CurrentTx] = 1 .. Len(Vout[CurrentTx])
      BY <1>4, LedgerFacts
    <2>3. job.resolved \in Seq(OrNone(Nat)) /\ job.pos \in 1 .. Len(job.resolved)
      BY <1>6, <2>1, <2>2, JobTypes
    <2> HIDE DEF IInv
    <2> QED
      BY <2>3
  <1>10. new \in UtxoRecord /\ new.spentOn = None /\ new.created = Height[job.block]
    BY <1>9, JobTypes DEF Utxo, UtxoRecord, OrNone
  <1>11. job'.block = job.block /\ job'.tx = job.tx /\ job'.pos = job.pos + 1
    BY <1>1, JobFields
  <1>12. \A e \in Outputs(DOMAIN live) : e = <<e[1], e[2]>> /\ e[2] \in Nat
    BY DEF Outputs, Outpoint
  <1>13. \A e : e \in Created' <=> e \in Created \/ e = o
    <2>1. ASSUME NEW e \in Outputs(DOMAIN live)
          PROVE  ~ Awaited(e)' <=> ~ Awaited(e) \/ e = o
      <3>1. Awaited(e) <=> e[1] = CurrentTx /\ e[2] >= job.pos
        BY <1>1 DEF Awaited, AddTxPc
      <3>2. Awaited(e)' <=> e[1] = CurrentTx /\ e[2] >= job.pos + 1
        BY <1>1, <1>11 DEF Awaited, AddTxPc, CurrentTx
      <3>3. e[2] >= job.pos <=> e[2] >= job.pos + 1 \/ e[2] = job.pos
        BY <1>6, <1>12
      <3>4. e[2] >= job.pos + 1 => e[2] # job.pos
        BY <1>6, <1>12
      <3>5. e = o <=> e[1] = CurrentTx /\ e[2] = job.pos
        BY <1>7, <1>12
      <3> QED
        BY <3>1, <3>2, <3>3, <3>4, <3>5
    <2>2. Created' = {e \in Outputs(DOMAIN live) : ~ Awaited(e)'}
      BY <1>3 DEF Created
    <2> QED
      BY <1>7, <2>1, <2>2 DEF Created
  <1>14. Awaited(o)
    BY <1>1, <1>6, <1>7 DEF Awaited, AddTxPc
  <1>15. o \notin Created
    BY <1>14 DEF Created
  <1>16. \A s \in Spends : Input(s) # o
    BY <1>1, <1>7, NotSpentYet DEF AddTxPc
  <1> HIDE DEF new, k, o
  <1>17. UtxoPuts(k, new)
    BY <1>1 DEF UtxoPuts, TypeOK, BatchesType, Tables
  <1>18. new # Deleted
    BY <1>10, SentinelsAreNoRecords
  <1>19. /\ k \in DOMAIN View("utxo")' /\ View("utxo")'[k] = new
         /\ RecordsKept(View("utxo"), View("utxo")', k)
    BY <1>17, <1>18, UtxoPut DEF RecordsKept
  <1>20. Dated(View("utxo")'[k], o, Mined)
    BY <1>4, <1>7, <1>10, <1>19 DEF Dated
  <1>21. Dues(View("utxo")'[k], o, Spends)
    BY <1>10, <1>16, <1>19 DEF Dues
  <1>22. OthersKept(live, Created, Created', o, k)
    BY <1>1, <1>7, <1>8, <1>13, KeysApart DEF OthersKept, Created
  <1>23. Recorded(live, View("utxo"), Created, Mined, Spends)
    BY <1>1 DEF UtxoInv, StoredInv
  <1>24. SpendsKeptOff(Spends, Spends, o)
    BY DEF SpendsKeptOff
  <1> HIDE DEF live
  <1>25. Recorded(live, View("utxo")', Created', Mined, Spends)
    BY <1>8, <1>19, <1>20, <1>21, <1>22, <1>23, <1>24, RecordedPut
  <1> USE DEF live
  <1>26. Recorded(View("tx-sym"), View("utxo"), Created, Mined, Spends)'
    BY <1>3, <1>25
  <1>27. \E p \in Mined : At(p) = CurrentTx /\ p[1] = job.block
    BY <1>4
  <1> QED
    BY <1>3, <1>8, <1>13, <1>15, <1>26, <1>27 DEF o, k

LEMMA RevalidateStep ==
  ASSUME ChainInv, SymbolInv, UtxoInv, [Next]_vars, RevalidateInput
  PROVE  Recorded(View("tx-sym"), View("utxo"), Created, Mined, Spends)'
  <1> USE DEF ChainInv, IInv
  <1> DEFINE q == <<job.block, job.tx>>
             o == CurrentInput
             found == UtxoExists(o)
             k     == KeyIn(db["tx-sym"], o)
             new   == Revalidated(found.utxo)
             here  == <<q, job.pos>>
  <1>1. /\ pc = "revalidate" /\ pc' = "revalidate" /\ HasInput /\ UNCHANGED <<db, flush>>
        /\ dbBatches' = [dbBatches EXCEPT !["utxo"] = Put(@, found.key, new)]
        /\ job' = [job EXCEPT !.pos = @ + 1]
    BY DEF RevalidateInput, database
  <1>2. ~CreateOutput /\ ~RemoveOutput /\ ~Reboot /\ ~TxStep
    BY <1>1, Taken DEF CreateOutput, RemoveOutput, Reboot, TxStep, AddTx, RemoveTxSymbol, WriteBatches,
                       FlushPc
  <1>3. /\ Created' = Created /\ View("tx-sym")' = View("tx-sym") /\ Mined' = Mined
    BY <1>1, <1>2, CreatedKept, TxTablesKept, MinedKept
  <1>4. /\ o \in Outputs(DOMAIN db["tx-sym"]) /\ job.pos \in DOMAIN Vin[CurrentTx]
        /\ StoredPlaces = Places(Known) /\ q \in Mined /\ At(q) = CurrentTx
    BY <1>1, RevalidatedKnown
  <1>5. /\ found # None /\ found.key = k /\ Dated(found.utxo, o, StoredPlaces)
    BY <1>1, FoundRemoved
  <1>6. o \in Outpoint
    BY <1>4 DEF Outputs
  <1>7. Input(here) = o /\ here \in SpendsOf(Mined)
    BY <1>4, JobTypes DEF Input, SpendsOf, CurrentInput
  <1>8. found.utxo \in UtxoRecord
    BY <1>5, <1>6, UtxoExistsType
  <1>9. None \in OrNone(Nat)
    BY DEF OrNone
  <1>10. new # Deleted /\ new.created = found.utxo.created /\ new.spentOn = None
    BY <1>8, <1>9, SpentFields, SentinelsAreNoRecords
  <1>11. job'.block = job.block /\ job'.tx = job.tx /\ job'.pos = job.pos + 1
    BY <1>1, JobFields
  <1>12. \A s : s \in Spends' <=> s \in Spends /\ s # here
    <2>1. \A s \in SpendsOf(Mined) : s = <<s[1], s[2]>> /\ s[2] \in Nat
      BY DEF SpendsOf
    <2>2. \A s \in SpendsOf(Mined) : Counts(s) <=> (s[1] = q => s[2] >= job.pos)
      BY <1>1 DEF Counts
    <2>3. \A s \in SpendsOf(Mined) : Counts(s)' <=> (s[1] = q => s[2] >= job.pos + 1)
      BY <1>1, <1>11 DEF Counts
    <2>4. job.pos \in Nat
      BY JobTypes
    <2>5. ASSUME NEW s \in SpendsOf(Mined)
          PROVE  Counts(s)' <=> Counts(s) /\ s # here
      <3>1. s[2] >= job.pos + 1 <=> s[2] >= job.pos /\ s[2] # job.pos
        BY <2>1, <2>4
      <3> QED
        BY <2>1, <2>2, <2>3, <3>1
    <2> HIDE DEF here
    <2>6. Spends' = {s \in SpendsOf(Mined) : Counts(s)'}
      BY <1>3 DEF Spends
    <2> QED
      BY <1>7, <2>5, <2>6 DEF Spends
  <1>13. /\ Known \in SUBSET Block /\ OnePerHeight(Known) /\ Rooted(Known)
         /\ \A p \in Mined : p \in Places(Known)
    BY KnownFacts DEF RootedInv, Mined
  <1>14. \A s \in Spends : Input(s) = o => s = here
    <2> SUFFICES ASSUME NEW s \in Spends, Input(s) = o
                 PROVE  s = here
      OBVIOUS
    <2>1. s = <<s[1], s[2]>> /\ s[1] \in Mined /\ s[2] \in DOMAIN Vin[At(s[1])]
      BY DEF Spends, SpendsOf
    <2>2. s[1] = q /\ s[2] = job.pos
      BY <1>4, <1>13, <2>1, SpentOnce DEF Input, CurrentInput
    <2> QED
      BY <2>1, <2>2
  <1>15. o \in Created => Dated(found.utxo, o, Mined)
    <2> SUFFICES ASSUME o \in Created
                 PROVE  Dated(found.utxo, o, Mined)
      OBVIOUS
    <2>1. PICK p \in Places(Known) : At(p) = o[1] /\ found.utxo.created = Height[p[1]]
      BY <1>4, <1>5 DEF Dated
    <2>2. o[1] \in DOMAIN View("tx-sym")
      BY DEF Created, Outputs
    <2>3. PICK r \in Mined : At(r) = o[1]
      BY <1>1, <2>2 DEF SymbolInv, OrderedInv, Numbered
    <2>4. p = r
      BY <1>13, <2>1, <2>3, MinedOnce
    <2> QED
      BY <2>1, <2>3, <2>4 DEF Dated
  <1> HIDE DEF new, found, here, k, o
  <1>16. UtxoPuts(k, new)
    BY <1>1, <1>5 DEF UtxoPuts, TypeOK, BatchesType, Tables
  <1>17. /\ k \in DOMAIN View("utxo")' /\ View("utxo")'[k] = new
         /\ RecordsKept(View("utxo"), View("utxo")', k)
    BY <1>10, <1>16, UtxoPut DEF RecordsKept
  <1>18. o \in Created => Dated(View("utxo")'[k], o, Mined)
    BY <1>10, <1>15, <1>17 DEF Dated
  <1>19. Dues(View("utxo")'[k], o, Spends')
    BY <1>10, <1>12, <1>14, <1>17 DEF Dues
  <1>20. OthersKept(View("tx-sym"), Created, Created, o, k)
    BY <1>1, <1>4, RemovalKeys DEF OthersKept, RemovalPc, k
  <1>21. o \in Created => KeyIn(View("tx-sym"), o) = k
    BY <1>1, <1>4, RemovalKeys DEF RemovalPc, k
  <1>22. Recorded(View("tx-sym"), View("utxo"), Created, Mined, Spends)
    BY <1>1 DEF UtxoInv, StoredInv
  <1>23. SpendsKeptOff(Spends, Spends', o)
    BY <1>7, <1>12 DEF SpendsKeptOff
  <1>24. Recorded(View("tx-sym"), View("utxo")', Created, Mined, Spends')
    BY <1>17, <1>18, <1>19, <1>20, <1>21, <1>22, <1>23, RecordedPut
  <1> QED
    BY <1>3, <1>24

LEMMA RemoveOutputStep ==
  ASSUME ChainInv, SymbolInv, UtxoInv, [Next]_vars, RemoveOutput
  PROVE  /\ Recorded(View("tx-sym"), View("utxo"), Created, Mined, Spends)'
         /\ \A o : o \in Created' <=> o \in Created /\ o # CurrentOutput
         /\ CurrentOutput \in Created /\ View("tx-sym")' = View("tx-sym") /\ Mined' = Mined
         /\ UtxoPuts(KeyIn(View("tx-sym"), CurrentOutput), Deleted)
  <1> USE DEF ChainInv, IInv
  <1> DEFINE o == CurrentOutput
             k == KeyIn(View("tx-sym"), o)
             live == View("tx-sym")
  <1>1. /\ pc = "unlist" /\ pc' = "unlist" /\ HasOutput /\ UNCHANGED <<db, flush>>
        /\ dbBatches'["utxo"] = Put(dbBatches["utxo"], <<TxSymbol(CurrentTx), job.pos>>, Deleted)
        /\ job' = [job EXCEPT !.pos = @ + 1]
    BY DEF RemoveOutput, database, TypeOK, BatchesType, Tables
  <1>2. ~SpendInput /\ ~RevalidateInput /\ ~Reboot /\ ~TxStep
    BY <1>1, Taken DEF SpendInput, RevalidateInput, Reboot, TxStep, AddTx, RemoveTxSymbol,
                       WriteBatches, FlushPc
  <1>3. Spends' = Spends /\ View("tx-sym")' = View("tx-sym") /\ Mined' = Mined
    BY <1>1, <1>2, SpendsKept, TxTablesKept, MinedKept DEF UtxoInv
  <1>4. HasTx /\ CurrentTx \in Tx
    BY <1>1, JobTypes DEF WorkerInv
  <1>5. CurrentTx \in DOMAIN live /\ TxSymbol(CurrentTx) = live[CurrentTx]
    BY <1>1, <1>4, RemovedTx DEF RemovalPc
  <1>6. job.pos \in DOMAIN Vout[CurrentTx] /\ job.pos \in Nat \ {0}
    BY <1>1, <1>4, JobTypes
  <1>7. o \in Outputs(DOMAIN live) /\ o[1] = CurrentTx /\ o[2] = job.pos
    BY <1>4, <1>5, <1>6 DEF Outputs, Outpoint, CurrentOutput
  <1>8. <<TxSymbol(CurrentTx), job.pos>> = k
    BY <1>5, <1>7 DEF KeyIn
  <1>9. job'.block = job.block /\ job'.tx = job.tx /\ job'.pos = job.pos + 1
    BY <1>1, JobFields
  <1>10. \A e \in Outputs(DOMAIN live) : e = <<e[1], e[2]>> /\ e[2] \in Nat
    BY DEF Outputs, Outpoint
  <1>11. \A e : e \in Created' <=> e \in Created /\ e # o
    <2>1. ASSUME NEW e \in Outputs(DOMAIN live)
          PROVE  Awaited(e)' <=> Awaited(e) \/ e = o
      <3>1. Awaited(e) <=> e[1] = CurrentTx /\ e[2] < job.pos
        BY <1>1 DEF Awaited, AddTxPc
      <3>2. Awaited(e)' <=> e[1] = CurrentTx /\ e[2] < job.pos + 1
        BY <1>1, <1>9 DEF Awaited, AddTxPc, CurrentTx
      <3>3. e[2] < job.pos + 1 <=> e[2] < job.pos \/ e[2] = job.pos
        BY <1>6, <1>10
      <3>4. e = o <=> e[1] = CurrentTx /\ e[2] = job.pos
        BY <1>7, <1>10
      <3> QED
        BY <3>1, <3>2, <3>3, <3>4
    <2>2. Created' = {e \in Outputs(DOMAIN live) : ~ Awaited(e)'}
      BY <1>3 DEF Created
    <2> QED
      BY <1>7, <2>1, <2>2 DEF Created
  <1>12. ~ Awaited(o)
    BY <1>1, <1>6, <1>7 DEF Awaited, AddTxPc
  <1>13. o \in Created
    BY <1>7, <1>12 DEF Created
  <1> HIDE DEF k, o
  <1>14. UtxoPuts(k, Deleted)
    BY <1>1, <1>8 DEF UtxoPuts
  <1>15. RecordsKept(View("utxo"), View("utxo")', k)
    BY <1>14, UtxoDelete DEF RecordsKept
  <1>16. OthersKept(live, Created, Created', o, k)
    BY <1>1, <1>7, <1>11, KeysApart DEF OthersKept, Created, k
  <1>17. Recorded(live, View("utxo"), Created, Mined, Spends)
    BY <1>1 DEF UtxoInv, StoredInv
  <1>18. SpendsKeptOff(Spends, Spends, o) /\ o \notin Created'
    BY <1>11 DEF SpendsKeptOff
  <1> HIDE DEF live
  <1>19. Recorded(live, View("utxo")', Created', Mined, Spends)
    BY <1>15, <1>16, <1>17, <1>18, RecordedPut
  <1> USE DEF live
  <1>20. Recorded(View("tx-sym"), View("utxo"), Created, Mined, Spends)'
    BY <1>3, <1>19
  <1> QED
    BY <1>3, <1>11, <1>13, <1>14, <1>20 DEF o, k

-----------------------------------------------------------------------------
(* The invariant: what is stored.                                           *)

LEMMA RecordedStep ==
  ASSUME ChainInv, SymbolInv, UtxoInv, [Next]_vars, pc' # "exited", ~Reboot
  PROVE  Recorded(View("tx-sym"), View("utxo"), Created, Mined, Spends)'
  <1>1. CASE SpendInput
    BY <1>1, SpendStep
  <1>2. CASE CreateOutput
    BY <1>2, CreateStep
  <1>3. CASE RevalidateInput
    BY <1>3, RevalidateStep
  <1>4. CASE RemoveOutput
    BY <1>4, RemoveOutputStep
  <1>5. CASE ~SpendInput /\ ~CreateOutput /\ ~RevalidateInput /\ ~RemoveOutput
    BY <1>5, RecordedStays
  <1> QED
    BY <1>1, <1>2, <1>3, <1>4, <1>5

(* Between two blocks nothing is awaited and every spend counts.            *)
LEMMA BetweenBlocks ==
  ASSUME pc \notin AddTxPc \cup {"revalidate", "unlist"}
  PROVE  Created = Outputs(DOMAIN View("tx-sym")) /\ Spends = SpendsOf(Mined)
  <1>1. \A o : ~ Awaited(o)
    BY DEF Awaited
  <1>2. \A s : Counts(s)
    BY DEF Counts, AddTxPc
  <1> QED
    BY <1>1, <1>2 DEF Created, Spends

Between == pc \notin AddTxPc \cup {"revalidate", "unlist"}
Complete == Created = Outputs(DOMAIN View("tx-sym")) /\ Spends = SpendsOf(Mined)
LEMMA BetweenAfter == Between' => Complete'
  <1>1. Between => Complete
    BY BetweenBlocks DEF Between, Complete
  <1> QED
    BY <1>1, PTL

LEMMA WrittenOutputs ==
  ASSUME ChainInv, SymbolInv, UtxoInv, [Next]_vars, WriteBatches, ~Reboot
  PROVE  /\ Recorded(db["tx-sym"], db["utxo"], Outputs(DOMAIN db["tx-sym"]), StoredPlaces,
                     SpendsOf(StoredPlaces))'
         /\ DOMAIN View("tx-sym")' = DOMAIN db'["tx-sym"]
         /\ \A t \in DOMAIN db'["tx-sym"] : View("tx-sym")'[t] = db'["tx-sym"][t]
         /\ Mined' = StoredPlaces' /\ lastSeenUtxos' = EmptyMap
  <1> USE DEF ChainInv, IInv
  <1>1. /\ Mined' = Places(Known) /\ StoredPlaces' = Places(Known)
        /\ pc \in FlushPc /\ pc' \in {"idle", "untx"}
    BY WrittenPlaces
  <1>2. Between' /\ pc' # "exited"
    BY <1>1 DEF Between, AddTxPc
  <1>3. Recorded(View("tx-sym")', View("utxo")', Created', Mined', Spends')
    BY <1>2, RecordedStep
  <1>4. Created' = Outputs(DOMAIN View("tx-sym")') /\ Spends' = SpendsOf(Mined')
    BY <1>2, BetweenAfter DEF Complete
  <1>5. /\ View("tx-sym")' = View("tx-sym") /\ View("utxo")' = View("utxo")
        /\ db'["utxo"] = Written("utxo") /\ DOMAIN View("tx-sym") = DOMAIN db'["tx-sym"]
        /\ \A k \in DOMAIN db'["tx-sym"] : View("tx-sym")[k] = db'["tx-sym"][k]
    BY WrittenLayers DEF Tables, BlockTables
  <1>6. dbBatches["utxo"] = EmptyMap
    BY <1>1 DEF UtxoInv, StoredInv
  <1>7. /\ DOMAIN View("utxo") = DOMAIN db'["utxo"]
        /\ \A k \in DOMAIN db'["utxo"] : View("utxo")[k] = db'["utxo"][k]
    BY <1>5, <1>6, OverlayEmpty DEF View
  <1>8. \A o \in Outputs(DOMAIN db'["tx-sym"]) :
          KeyIn(db'["tx-sym"], o) = KeyIn(View("tx-sym")', o)
    BY <1>5 DEF Outputs, KeyIn
  <1>9. Recorded(db'["tx-sym"], db'["utxo"], Outputs(DOMAIN db'["tx-sym"]), Places(Known),
                 SpendsOf(Places(Known)))
    BY <1>1, <1>3, <1>4, <1>5, <1>7, <1>8, RecordedFrame
  <1>10. lastSeenUtxos' = EmptyMap
    BY DEF WriteBatches
  <1> QED
    BY <1>1, <1>5, <1>9, <1>10

LEMMA RebootedOutputs ==
  ASSUME ChainInv, SymbolInv, UtxoInv, Reboot
  PROVE  /\ Recorded(View("tx-sym"), View("utxo"), Created, Mined, Spends)'
         /\ Recorded(db["tx-sym"], db["utxo"], Outputs(DOMAIN db["tx-sym"]), StoredPlaces,
                     SpendsOf(StoredPlaces))'
         /\ DOMAIN View("tx-sym")' = DOMAIN db'["tx-sym"]
         /\ \A t \in DOMAIN db'["tx-sym"] : View("tx-sym")'[t] = db'["tx-sym"][t]
         /\ Mined' = StoredPlaces' /\ lastSeenUtxos' = EmptyMap /\ pc' = "idle"
  <1>1. pc' = "idle" /\ db' = db /\ lastSeenUtxos' = EmptyMap
    BY DEF Reboot
  <1>2. \A t \in {"tx-sym", "utxo", "block-sym"} :
          /\ DOMAIN View(t)' = DOMAIN db[t]
          /\ \A k \in DOMAIN db[t] : View(t)'[k] = db[t][k]
    BY RebootedLayers DEF Tables
  <1>3. Mined' = StoredPlaces'
    <2>1. ~AddingBlock' /\ pc' \notin RemovalPc
      BY <1>1 DEF AddingBlock, RemovalPc
    <2>2. Known' = DOMAIN db["block-sym"]
      BY <1>2 DEF Known
    <2> QED
      BY <1>1, <2>1, <2>2 DEF Mined, Indexed, StoredPlaces
  <1>4. Created' = Outputs(DOMAIN View("tx-sym")') /\ Spends' = SpendsOf(Mined')
    BY <1>1, BetweenAfter DEF Between, Complete, AddTxPc
  <1>5. Recorded(db["tx-sym"], db["utxo"], Outputs(DOMAIN db["tx-sym"]), StoredPlaces,
                 SpendsOf(StoredPlaces)) /\ StoredPlaces' = StoredPlaces
    BY <1>1 DEF UtxoInv, StoredInv, StoredPlaces
  <1>6. \A o \in Outputs(DOMAIN db["tx-sym"]) : KeyIn(View("tx-sym")', o) = KeyIn(db["tx-sym"], o)
    BY <1>2 DEF Outputs, KeyIn
  <1>7. DOMAIN View("tx-sym")' = DOMAIN db["tx-sym"]
    BY <1>2
  <1>8. \A k \in DOMAIN db["utxo"] : k \in DOMAIN View("utxo")' /\ View("utxo")'[k] = db["utxo"][k]
    BY <1>2
  <1>9. Recorded(View("tx-sym")', View("utxo")', Created', Mined', Spends')
    BY <1>3, <1>4, <1>5, <1>6, <1>7, <1>8, RecordedFrame
  <1> QED
    BY <1>1, <1>2, <1>3, <1>5, <1>9

LEMMA StoredStep ==
  ASSUME ChainInv, SymbolInv, UtxoInv, [Next]_vars
  PROVE  StoredInv'
  <1> USE DEF ChainInv, IInv
  <1>1. Recorded(db["tx-sym"], db["utxo"], Outputs(DOMAIN db["tx-sym"]), StoredPlaces,
                 SpendsOf(StoredPlaces))'
    <2>1. CASE WriteBatches /\ ~Reboot
      BY <2>1, WrittenOutputs
    <2>2. CASE Reboot
      BY <2>2, RebootedOutputs
    <2>3. CASE ~WriteBatches /\ ~Reboot
      <3>1. db' = db
        <4>1. CASE FlushBegins
          BY <4>1, Taken
        <4>2. CASE SpendInput \/ CreateOutput \/ RevalidateInput \/ RemoveOutput
          BY <4>2 DEF SpendInput, CreateOutput, RevalidateInput, RemoveOutput, database
        <4>3. CASE ~TouchesUtxo
          BY <4>3, UtxoStillSteps DEF UtxoStill
        <4> QED
          BY <2>3, <4>1, <4>2, <4>3 DEF TouchesUtxo
      <3> QED
        BY <3>1 DEF UtxoInv, StoredInv, StoredPlaces
    <2> QED
      BY <2>1, <2>2, <2>3
  <1>2. pc' # "exited" => Recorded(View("tx-sym"), View("utxo"), Created, Mined, Spends)'
    BY RecordedStep, RebootedOutputs
  <1>3. pc' \in FlushPc => dbBatches'["utxo"] = EmptyMap
    <2>1. CASE FlushBegins
      BY <2>1, OutputsTaken
    <2>2. CASE SpendInput \/ CreateOutput \/ RevalidateInput \/ RemoveOutput \/ Reboot \/ WriteBatches
      BY <2>2 DEF SpendInput, CreateOutput, RevalidateInput, RemoveOutput, Reboot, WriteBatches,
                  FlushPc
    <2>3. CASE ~TouchesUtxo
      BY <2>3, UtxoStillSteps DEF UtxoStill, UtxoInv, StoredInv
    <2> QED
      BY <2>1, <2>2, <2>3 DEF TouchesUtxo
  <1> QED
    BY <1>1, <1>2, <1>3 DEF StoredInv

-----------------------------------------------------------------------------
(* The invariant: what the cache of outputs holds.                          *)

LEMMA CacheKept ==
  ASSUME TypeOK, [Next]_vars, ~SpendInput, ~CreateOutput, ~WriteBatches, ~Reboot
  PROVE  lastSeenUtxos' = lastSeenUtxos /\ db' = db
  <1>1. CASE FlushBegins
    BY <1>1, Taken DEF caches
  <1>2. CASE RevalidateInput \/ RemoveOutput
    BY <1>2 DEF RevalidateInput, RemoveOutput, caches, database
  <1>3. CASE ~TouchesUtxo
    BY <1>3, UtxoStillSteps DEF UtxoStill
  <1> QED
    BY <1>1, <1>2, <1>3 DEF TouchesUtxo

(* A removal ends with the write that commits it, or with a restart.        *)
LEMMA RemovalStays ==
  ASSUME ChainInv, SymbolInv, [Next]_vars, pc' # "exited", ~WriteBatches, ~Reboot
  PROVE  pc \in RemovalPc \cup {"secondFlush"} <=> pc' \in RemovalPc \cup {"secondFlush"}
  <1> USE DEF ChainInv, IInv
  <1>1. CASE FlushBegins
    <2>1. pc \in {"idle", "taken", "tx", "untx"}
      BY <1>1 DEF FlushBegins, FinishBlockAndFlush, BeginRemove, CommitRemove, SaveState
    <2> QED
      BY <1>1, <2>1, Taken DEF RemovalPc, FlushPc
  <1>2. CASE AddTx \/ RemoveTxSymbol
    BY <1>2 DEF AddTx, RemoveTxSymbol, RemovalPc
  <1>3. CASE ~TxStep
    <2>1. CASE Stands \/ Inside(RemovalPc)
      BY <2>1 DEF Stands, Inside, RemovalPc
    <2>2. CASE AddBlock \/ Inside(AddTxPc) \/ FinishTx \/ Take \/ SkipBlock \/ FinishBlock
      BY <2>2 DEF AddBlock, Inside, AddTxPc, FinishTx, Take, SkipBlock, FinishBlock, RemovalPc
    <2> QED
      BY <1>3, <2>1, <2>2, WorkerMoves
  <1> QED
    BY <1>1, <1>2, <1>3 DEF TxStep

LEMMA SeenTypes ==
  ASSUME TypeOK, NEW o \in DOMAIN lastSeenUtxos
  PROVE  lastSeenUtxos[o].utxo \in UtxoRecord
  BY DEF TypeOK, CacheTypeOK, IsMap, SeenUtxo

(* An entry of the cache stays true.                                        *)
SeenRight(seen, o) ==
  /\ o \in Created /\ Dated(seen[o].utxo, o, Mined)
  /\ \/ \E s \in Spends : Input(s) = o
     \/ seen[o].txSymbol = View("tx-sym")[o[1]]

LEMMA SeenStays ==
  ASSUME ChainInv, SymbolInv, UtxoInv, [Next]_vars, pc' # "exited", ~WriteBatches, ~Reboot,
         NEW o \in DOMAIN lastSeenUtxos
  PROVE  /\ o \in Created' /\ Dated(lastSeenUtxos[o].utxo, o, Mined')
         /\ \/ \E s \in Spends' : Input(s) = o
            \/ lastSeenUtxos[o].txSymbol = View("tx-sym")'[o[1]]
  <1>1. ~RemoveOutput /\ ~RevalidateInput
    BY DEF UtxoInv, CachedInv, RemovalPc, RemoveOutput, RevalidateInput, EmptyMap
  <1>2. SeenRight(lastSeenUtxos, o)
    BY Running DEF UtxoInv, CachedInv, SeenRight
  <1>3. o \in Created' /\ View("tx-sym")'[o[1]] = View("tx-sym")[o[1]]
    <2>1. CASE CreateOutput
      BY <1>2, <2>1, CreateStep DEF SeenRight
    <2>2. CASE ~CreateOutput
      <3>1. o \in Created' /\ KeyIn(View("tx-sym"), o)' = KeyIn(View("tx-sym"), o)
        BY <1>1, <1>2, <2>2, CreatedKept DEF SeenRight
      <3> QED
        BY <3>1 DEF KeyIn
    <2> QED
      BY <2>1, <2>2
  <1>4. Dated(lastSeenUtxos[o].utxo, o, Mined')
    <2>1. o[1] \in DOMAIN View("tx-sym")'
      BY <1>3 DEF Created, Outputs
    <2> QED
      BY <1>2, <2>1, OriginKept DEF SeenRight, Dated
  <1>5. \A s \in Spends : s \in Spends'
    <2>1. CASE SpendInput
      BY <2>1, SpendStep
    <2>2. CASE ~SpendInput
      BY <1>1, <2>2, SpendsKept DEF UtxoInv
    <2> QED
      BY <2>1, <2>2
  <1> QED
    BY <1>2, <1>3, <1>4, <1>5 DEF SeenRight

LEMMA CachedStep ==
  ASSUME ChainInv, SymbolInv, UtxoInv, [Next]_vars
  PROVE  CachedInv'
  <1> USE DEF ChainInv, IInv
  <1>1. CASE WriteBatches \/ Reboot
    <2>1. lastSeenUtxos' = EmptyMap
      BY <1>1 DEF WriteBatches, Reboot
    <2> QED
      BY <2>1 DEF CachedInv, EmptyMap
  <1>2. CASE pc' = "exited"
    BY <1>2 DEF CachedInv, RemovalPc
  <1>3. CASE ~WriteBatches /\ ~Reboot /\ pc' # "exited"
    <2> DEFINE Right(o) == /\ o \in Created' /\ Dated(lastSeenUtxos'[o].utxo, o, Mined')
                           /\ \/ \E s \in Spends' : Input(s) = o
                              \/ lastSeenUtxos'[o].txSymbol = View("tx-sym")'[o[1]]
    <2>1. pc' \in RemovalPc \cup {"secondFlush"} => lastSeenUtxos' = EmptyMap
      <3>1. pc' \in RemovalPc \cup {"secondFlush"} => lastSeenUtxos = EmptyMap
        BY <1>3, RemovalStays DEF UtxoInv, CachedInv
      <3>2. pc' \in RemovalPc \cup {"secondFlush"} => ~SpendInput /\ ~CreateOutput
        BY DEF SpendInput, CreateOutput, RemovalPc
      <3> QED
        BY <1>3, <3>1, <3>2, CacheKept
    <2>2. \A o \in DOMAIN lastSeenUtxos : lastSeenUtxos'[o] = lastSeenUtxos[o] => Right(o)
      BY <1>3, SeenStays
    <2>3. CASE SpendInput
      <3> DEFINE o == CurrentInput
                 spent == SpentBy(UtxoExists(o).utxo, lastTxSymbol, Height[job.block])
                 here == <<<<job.block, job.tx>>, job.pos>>
      <3>1. /\ lastSeenUtxos' = Put(lastSeenUtxos, o, [txSymbol |-> lastTxSymbol, utxo |-> spent])
            /\ pc = "inputs" /\ HasInput
        BY <2>3 DEF SpendInput
      <3>2. /\ DOMAIN lastSeenUtxos' = DOMAIN lastSeenUtxos \cup {o}
            /\ lastSeenUtxos'[o].utxo = spent
            /\ \A e \in DOMAIN lastSeenUtxos : e # o => lastSeenUtxos'[e] = lastSeenUtxos[e]
        BY <3>1 DEF Put, Merge
      <3>3. /\ UtxoExists(o) # None /\ Dated(UtxoExists(o).utxo, o, Mined) /\ o \in Created
        BY <3>1, FoundInput, InputKnown
      <3>4. lastTxSymbol \in OrNone(Nat) /\ Height[job.block] \in OrNone(Nat)
        BY <3>1, JobTypes DEF WorkerInv, AddTxPc, OrNone
      <3>5. UtxoExists(o).utxo \in UtxoRecord
        BY <3>3, CreatedFacts, UtxoExistsType
      <3>6. spent.created = UtxoExists(o).utxo.created
        BY <3>4, <3>5, SpentFields
      <3>7. Created' = Created /\ Mined' = Mined /\ here \in Spends'
        BY <2>3, SpendStep
      <3>8. Input(here) = o
        BY <3>1, LastPlace DEF AddTxPc, Input, CurrentInput
      <3>9. Dated(lastSeenUtxos'[o].utxo, o, Mined')
        BY <3>2, <3>3, <3>6, <3>7 DEF Dated
      <3> HIDE DEF o, spent, here
      <3>10. Right(o)
        BY <3>3, <3>7, <3>8, <3>9
      <3> HIDE DEF Right
      <3>11. \A e \in DOMAIN lastSeenUtxos' : Right(e)
        BY <2>2, <3>2, <3>10
      <3> QED
        BY <2>1, <3>11 DEF CachedInv, Right
    <2>4. CASE CreateOutput
      <3> DEFINE o == CurrentOutput
                 new == Utxo(job.resolved[job.pos], Height[job.block])
      <3>1. lastSeenUtxos' = Put(lastSeenUtxos, o, Remembered(lastTxSymbol, new))
        BY <2>4 DEF CreateOutput
      <3>2. /\ DOMAIN lastSeenUtxos' = DOMAIN lastSeenUtxos \cup {o}
            /\ lastSeenUtxos'[o] = Remembered(lastTxSymbol, new)
            /\ \A e \in DOMAIN lastSeenUtxos : e # o => lastSeenUtxos'[e] = lastSeenUtxos[e]
        BY <3>1 DEF Put, Merge
      <3>3. /\ o \in Created' /\ View("tx-sym")' = View("tx-sym") /\ Mined' = Mined
            /\ \E p \in Mined : At(p) = CurrentTx /\ p[1] = job.block
            /\ KeyIn(View("tx-sym"), o) = <<lastTxSymbol, job.pos>>
        BY <2>4, CreateStep
      <3>4. Remembered(lastTxSymbol, new).txSymbol = lastTxSymbol
            /\ Remembered(lastTxSymbol, new).utxo.created = Height[job.block]
        BY DEF Remembered, Utxo
      <3>5. Dated(lastSeenUtxos'[o].utxo, o, Mined')
        BY <3>2, <3>3, <3>4 DEF Dated, CurrentOutput
      <3>6. lastSeenUtxos'[o].txSymbol = View("tx-sym")'[o[1]]
        BY <3>2, <3>3, <3>4 DEF KeyIn
      <3>7. Right(o)
        BY <3>3, <3>5, <3>6
      <3> HIDE DEF Right, o, new
      <3>8. \A e \in DOMAIN lastSeenUtxos' : Right(e)
        BY <2>2, <3>2, <3>7
      <3> QED
        BY <2>1, <3>8 DEF CachedInv, Right
    <2>5. CASE ~SpendInput /\ ~CreateOutput
      <3>1. lastSeenUtxos' = lastSeenUtxos
        BY <1>3, <2>5, CacheKept
      <3> QED
        BY <2>1, <2>2, <3>1 DEF CachedInv
    <2> QED
      BY <2>3, <2>4, <2>5
  <1> QED
    BY <1>1, <1>2, <1>3

LEMMA UncachedStep ==
  ASSUME ChainInv, SymbolInv, UtxoInv, [Next]_vars
  PROVE  UncachedInv'
  <1> USE DEF ChainInv, IInv
  <1> SUFFICES ASSUME pc' \notin RemovalPc \cup {"secondFlush", "exited"},
                      NEW o \in Created', o \notin DOMAIN lastSeenUtxos'
               PROVE  /\ KeyIn(View("tx-sym")', o) \in DOMAIN db'["utxo"]
                      /\ Dated(db'["utxo"][KeyIn(View("tx-sym")', o)], o, Mined')
    BY DEF UncachedInv
  <1>1. o \in Outputs(DOMAIN View("tx-sym")')
    BY DEF Created
  <1>2. CASE WriteBatches \/ Reboot
    <2>1. /\ Recorded(db'["tx-sym"], db'["utxo"], Outputs(DOMAIN db'["tx-sym"]), StoredPlaces',
                      SpendsOf(StoredPlaces'))
          /\ DOMAIN View("tx-sym")' = DOMAIN db'["tx-sym"]
          /\ \A t \in DOMAIN db'["tx-sym"] : View("tx-sym")'[t] = db'["tx-sym"][t]
          /\ Mined' = StoredPlaces'
      BY <1>2, WrittenOutputs, RebootedOutputs
    <2>2. KeyIn(View("tx-sym")', o) = KeyIn(db'["tx-sym"], o)
      BY <1>1, <2>1 DEF Outputs, KeyIn
    <2> QED
      BY <1>1, <2>1, <2>2 DEF Recorded
  <1>3. CASE ~WriteBatches /\ ~Reboot
    <2>1. pc \notin RemovalPc \cup {"secondFlush", "exited"}
      BY <1>3, RemovalStays, Running
    <2>2. db' = db
      <3>1. CASE SpendInput \/ CreateOutput
        BY <3>1 DEF SpendInput, CreateOutput, database
      <3> QED
        BY <1>3, <3>1, CacheKept
    <2>3. o \in Created /\ o \notin DOMAIN lastSeenUtxos
          /\ KeyIn(View("tx-sym")', o) = KeyIn(View("tx-sym"), o)
      <3>1. CASE SpendInput
        <4>1. DOMAIN lastSeenUtxos \subseteq DOMAIN lastSeenUtxos'
          BY <3>1 DEF SpendInput, Put, Merge
        <4>2. Created' = Created /\ View("tx-sym")' = View("tx-sym")
          BY <3>1, SpendStep
        <4> QED
          BY <4>1, <4>2
      <3>2. CASE CreateOutput
        <4>1. DOMAIN lastSeenUtxos \cup {CurrentOutput} = DOMAIN lastSeenUtxos'
          BY <3>2 DEF CreateOutput, Put, Merge
        <4>2. /\ \A e : e \in Created' <=> e \in Created \/ e = CurrentOutput
              /\ View("tx-sym")' = View("tx-sym")
          BY <3>2, CreateStep
        <4> QED
          BY <4>1, <4>2
      <3>3. CASE ~SpendInput /\ ~CreateOutput
        <4>1. ~RemoveOutput
          BY <2>1 DEF RemoveOutput, RemovalPc
        <4> QED
          BY <1>3, <3>3, <4>1, CacheKept, CreatedKept
      <3> QED
        BY <3>1, <3>2, <3>3
    <2>4. /\ KeyIn(View("tx-sym"), o) \in DOMAIN db["utxo"]
          /\ Dated(db["utxo"][KeyIn(View("tx-sym"), o)], o, Mined)
      BY <2>1, <2>3 DEF UtxoInv, UncachedInv
    <2>5. o[1] \in DOMAIN View("tx-sym")'
      BY <1>1 DEF Outputs
    <2>6. Dated(db["utxo"][KeyIn(View("tx-sym"), o)], o, Mined')
      BY <1>3, <2>4, <2>5, OriginKept DEF Dated
    <2> QED
      BY <2>2, <2>3, <2>4, <2>6
  <1> QED
    BY <1>2, <1>3

-----------------------------------------------------------------------------
(* The worker finds every output it needs, and the table of outputs misses  *)
(* none.                                                                   *)

LEMMA InitUtxos == Init => UtxoInv
  <1> SUFFICES ASSUME Init
               PROVE  UtxoInv
    OBVIOUS
  <1>1. pc = "idle" /\ lastSeenUtxos = EmptyMap
    BY DEF Init
  <1>2. db["tx-sym"] = EmptyMap /\ View("tx-sym") = Overlay(Overlay(EmptyMap, EmptyMap), EmptyMap)
    BY DEF Init, View, Written, NoFlush, NoBatches, Tables
  <1>3. DOMAIN db["tx-sym"] = {} /\ DOMAIN View("tx-sym") = {}
    BY <1>2, OverlayEmpty DEF EmptyMap
  <1>4. Outputs(DOMAIN db["tx-sym"]) = {} /\ Created = {}
    BY <1>3 DEF Outputs, Created
  <1>5. StoredInv
    BY <1>1, <1>4 DEF StoredInv, Recorded, FlushPc
  <1>6. DOMAIN lastSeenUtxos = {}
    BY <1>1 DEF EmptyMap
  <1> QED
    BY <1>1, <1>4, <1>5, <1>6 DEF UtxoInv, PosInv, CachedInv, UncachedInv

LEMMA UtxoStep == ChainInv /\ SymbolInv /\ UtxoInv /\ [Next]_vars => UtxoInv'
  <1> SUFFICES ASSUME ChainInv, SymbolInv, UtxoInv, [Next]_vars
               PROVE  UtxoInv'
    OBVIOUS
  <1>1. PosInv'
    BY PosStep DEF UtxoInv
  <1> QED
    BY <1>1, StoredStep, CachedStep, UncachedStep DEF UtxoInv

(* The inductive invariant: what the database and the batches record of the *)
(* outputs of the indexed chain, who spends them, and what the cache of    *)
(* outputs may be trusted with (saveOutput, invalidateUtxo, utxoExists).    *)
THEOREM OutputsFollowTheChain ==
  Spec /\ [][EventsInOrder]_vars => [](ChainInv /\ SymbolInv /\ UtxoInv)
  <1>1. ChainInv /\ SymbolInv /\ [Next]_vars /\ [EventsInOrder]_vars => (ChainInv /\ SymbolInv)'
    BY SymbolsStep
  <1> QED
    BY <1>1, InitSymbols, InitUtxos, UtxoStep, PTL DEF Spec

(* Between two blocks each output of an indexed transaction has its record: *)
(* recoverMissingUtxo is never needed.                                     *)
THEOREM NoUtxoIsMissing == Spec /\ [][EventsInOrder]_vars => []NoMissingUtxo
  <1>1. ASSUME ChainInv, SymbolInv, UtxoInv
        PROVE  NoMissingUtxo
    <2> USE <1>1
    <2> SUFFICES ASSUME pc \in {"idle", "taken"}, NEW k \in KnownUtxos
                 PROVE  k \in DOMAIN View("utxo")
      BY DEF NoMissingUtxo
    <2> DEFINE live == View("tx-sym")
    <2>1. PICK t \in DOMAIN live : \E n \in DOMAIN Vout[t] : k = <<live[t], n>>
      BY DEF KnownUtxos
    <2>2. PICK n \in DOMAIN Vout[t] : k = <<live[t], n>>
      BY <2>1
    <2>3. t \in Tx
      BY SymbolsView DEF IsMap, ChainInv, IInv
    <2>4. <<t, n>> \in Outputs(DOMAIN live) /\ k = KeyIn(live, <<t, n>>)
      BY <2>2, <2>3, LedgerFacts DEF Outputs, Outpoint, KeyIn
    <2>5. Created = Outputs(DOMAIN live)
      BY BetweenBlocks DEF AddTxPc
    <2>6. Recorded(live, View("utxo"), Created, Mined, Spends)
      BY DEF UtxoInv, StoredInv
    <2> HIDE DEF live
    <2> QED
      BY <2>4, <2>5, <2>6 DEF Recorded
  <1> QED
    BY <1>1, OutputsFollowTheChain, PTL

(* While it indexes or removes a block, the worker finds the record of each *)
(* output it spends or gives back, and never meets a new output in its     *)
(* cache: of the errors that end the process, none is about a utxo.        *)
THEOREM OutputsAreFound == Spec /\ [][EventsInOrder]_vars => []WorkerFindsOutputs
  <1>1. ASSUME ChainInv, SymbolInv, UtxoInv
        PROVE  WorkerFindsOutputs
    BY <1>1, FoundInput, FoundRemoved, NotSeenBefore
       DEF WorkerFindsOutputs, MissesUtxo, SeenBefore
  <1> QED
    BY <1>1, OutputsFollowTheChain, PTL

-----------------------------------------------------------------------------
(* What removals leave behind.  A removal gives an input back after it has  *)
(* deleted the outputs of the transactions before, so one of the block's   *)
(* own outputs comes back; the blocks a behaviour takes back are a         *)
(* parameter, any set, of what is said of it.                              *)
CONSTANT TakenBack

TakesBack == \A b \in Block : BlockRemoved(b) => b \in TakenBack

(* The syncer never takes the genesis block back.                           *)
Removable(b) == b \in TakenBack /\ b # Genesis

SpendsOwn(b) ==
  \E i, j \in DOMAIN Txs[b] : \E n \in DOMAIN Vin[Txs[b][i]] : Vin[Txs[b][i]][n][1] = Txs[b][j]

RemovableInv ==
  /\ \A b \in Block : remove[b] => Removable(b)
  /\ pc \in Undoing => Removable(job.block)

(* A record that a removal may have left behind: it dates from a block that *)
(* spends its own outputs and was taken back.                              *)
Stray(u) == \E b \in Block : Removable(b) /\ SpendsOwn(b) /\ u.created = Height[b]

(* Each record is that of an output, or was left behind.                    *)
Keyed(symbol, utxos, outputs) ==
  \A k \in DOMAIN utxos : (\E o \in outputs : k = KeyIn(symbol, o)) \/ Stray(utxos[k])

OrphanInv ==
  /\ Keyed(db["tx-sym"], db["utxo"], Outputs(DOMAIN db["tx-sym"]))
  /\ pc # "exited" => Keyed(View("tx-sym"), View("utxo"), Created)

LEMMA RemovableStep ==
  ASSUME ChainInv, SymbolInv, RemovableInv, [Next]_vars, [TakesBack]_vars
  PROVE  RemovableInv'
  <1> USE DEF ChainInv, IInv
  <1>1. ASSUME NEW b \in Block, remove'[b]
        PROVE  Removable(b)
    <2>1. remove \in [Block -> BOOLEAN]
      BY DEF TypeOK, WorkerTypeOK
    <2>2. CASE remove' = remove
      BY <1>1, <2>2 DEF RemovableInv
    <2>3. CASE Reboot
      BY <1>1, <2>3 DEF Reboot
    <2>4. ASSUME NEW x \in Block, BlockAdded(x)
          PROVE  Removable(b)
      <3>1. remove' = [remove EXCEPT ![x] = FALSE]
        BY <2>4 DEF BlockAdded, HandleBlock
      <3> QED
        BY <1>1, <2>1, <3>1 DEF RemovableInv
    <2>5. ASSUME NEW x \in Block, BlockRemoved(x)
          PROVE  Removable(b)
      <3>1. /\ remove' = [remove EXCEPT ![x] = TRUE] /\ x = synced[Len(synced)]
            /\ Len(synced) > 1 /\ pc # "exited"
        BY <2>5 DEF BlockRemoved, HandleBlock
      <3>2. Len(synced) \in Nat /\ Len(synced) \in DOMAIN synced
        BY <3>1 DEF TypeOK, WorkerTypeOK
      <3>3. Height[x] = Len(synced) - 1
        <4>1. \A i \in DOMAIN synced : Height[synced[i]] = i - 1
          BY <3>1 DEF QueueInv
        <4> QED
          BY <3>1, <3>2, <4>1
      <3>4. CASE x \in TakenBack
        <4>1. Height[x] # 0
          <5>1. PICK n \in Nat : n = Len(synced)
            BY <3>2
          <5>2. n > 1 /\ Height[x] = n - 1
            BY <3>1, <3>3, <5>1
          <5> QED
            BY <5>2
        <4>2. x # Genesis
          BY <4>1, LedgerTypes, LedgerTree
        <4> QED
          BY <1>1, <2>1, <3>1, <3>4, <4>2 DEF RemovableInv, Removable
      <3>5. x \in TakenBack \/ UNCHANGED vars
        BY <2>5 DEF TakesBack
      <3> QED
        BY <2>2, <3>4, <3>5 DEF vars, outside, events
    <2>6. ~Syncer /\ ~Reboot => remove' = remove
      <3> SUFFICES ASSUME ~Syncer, ~Reboot
                   PROVE  remove' = remove
        OBVIOUS
      <3>1. CASE UNCHANGED vars \/ Requests \/ Flushing \/ Exit \/ SaveState
        BY <3>1 DEF vars, outside, events, Requests, LookupMiss, LookupName, AllocateAddress,
                    Flushing, WriteBatches, FlushList, Exit, SaveState
      <3>2. CASE Adding
        BY <3>2 DEF Adding, Take, SkipBlock, AddBlock, SkipTx, AddTx, SpendInput, ResolveAddress,
                    MissAddress, NameAddress, AllocateAddress, BeginOutputs, CreateOutput, FinishTx,
                    FinishBlock, FinishBlockAndFlush, outside, events
      <3>3. CASE Removing
        BY <3>3 DEF Removing, BeginRemove, RemoveTx, RevalidateInput, EndRevalidation, RemoveOutput,
                    RemoveTxSymbol, CommitRemove, outside, events
      <3> QED
        BY <3>1, <3>2, <3>3 DEF Next, Worker, Crash, Restart
    <2> QED
      BY <2>2, <2>3, <2>4, <2>5, <2>6 DEF Syncer
  <1>2. ASSUME pc' \in Undoing
        PROVE  Removable(job'.block)
    <2>1. ~Reboot /\ pc' # "exited"
      BY <1>2 DEF Reboot, Undoing
    <2>2. CASE FlushBegins
      <3>1. pc = "taken" /\ remove[job.block] /\ job' = job
        BY <1>2, <2>2 DEF FlushBegins, FinishBlockAndFlush, BeginRemove, CommitRemove, SaveState, Undoing
      <3> QED
        BY <3>1, JobTypes DEF RemovableInv
    <2>3. CASE WriteBatches
      <3>1. pc = "firstFlush" /\ job' = job
        BY <1>2, <2>3 DEF WriteBatches, Undoing
      <3> QED
        BY <3>1 DEF RemovableInv, Undoing
    <2>4. CASE AddTx \/ RemoveTxSymbol
      <3>1. pc = "unlist" /\ job'.block = job.block
        BY <1>2, <2>4, JobFields DEF AddTx, RemoveTxSymbol, Undoing
      <3> QED
        BY <3>1 DEF RemovableInv, Undoing
    <2>5. CASE ~TxStep
      <3>1. CASE Stands \/ Inside(RemovalPc)
        BY <1>2, <3>1 DEF Stands, Inside, RemovalPc, RemovableInv, Undoing
      <3>2. ~(AddBlock \/ Inside(AddTxPc) \/ FinishTx \/ Take \/ SkipBlock \/ FinishBlock)
        BY <1>2 DEF AddBlock, Inside, AddTxPc, FinishTx, Take, SkipBlock, FinishBlock, Undoing
      <3> QED
        BY <2>1, <2>5, <3>1, <3>2, WorkerMoves
    <2> QED
      BY <2>1, <2>2, <2>3, <2>4, <2>5 DEF TxStep
  <1> QED
    BY <1>1, <1>2 DEF RemovableInv, Removable

LEMMA KeyedFrame ==
  ASSUME NEW symbol, NEW utxos, NEW outputs, Keyed(symbol, utxos, outputs),
         NEW symbol2, NEW utxos2, NEW outputs2,
         \A o \in outputs : o \in outputs2 /\ KeyIn(symbol2, o) = KeyIn(symbol, o),
         \A k \in DOMAIN utxos2 : k \in DOMAIN utxos /\ utxos2[k] = utxos[k]
  PROVE  Keyed(symbol2, utxos2, outputs2)
  <1> SUFFICES ASSUME NEW k \in DOMAIN utxos2, ~Stray(utxos2[k])
               PROVE  \E o \in outputs2 : k = KeyIn(symbol2, o)
    BY DEF Keyed
  <1>1. PICK o \in outputs : k = KeyIn(symbol, o)
    BY DEF Keyed
  <1> QED
    BY <1>1

(* An output a removal gives back is still there, unless it is the block's. *)
LEMMA GivenBackIsCreated ==
  ASSUME ChainInv, SymbolInv, RemovableInv, pc = "revalidate", HasInput
  PROVE  \/ CurrentInput \in Created
         \/ /\ SpendsOwn(job.block)
            /\ \E p \in StoredPlaces : At(p) = CurrentInput[1] /\ p[1] = job.block
  <1> USE DEF ChainInv, IInv, SymbolInv
  <1> DEFINE q == <<job.block, job.tx>>
             o == CurrentInput
  <1>1. /\ o \in Outputs(DOMAIN db["tx-sym"]) /\ job.pos \in DOMAIN Vin[CurrentTx]
        /\ q \in Mined /\ At(q) = CurrentTx /\ StoredPlaces = Places(Known)
    BY RevalidatedKnown
  <1>2. /\ Known \in SUBSET Block /\ OnePerHeight(Known) /\ Rooted(Known) /\ q \in Places(Known)
        /\ \A p \in Places(Known) : p[2] \in DOMAIN Txs[p[1]]
    BY <1>1, KnownFacts, PlaceTypes DEF RootedInv, Mined
  <1>3. PICK p \in Places(Known) : Before(p, q) /\ At(p) = o[1]
    BY <1>1, <1>2, InputCreated DEF CurrentInput
  <1>4. CASE p[1] = job.block
    <2>1. /\ p[2] \in DOMAIN Txs[job.block] /\ job.tx \in DOMAIN Txs[job.block]
          /\ Txs[job.block][p[2]] = o[1]
      BY <1>1, <1>2, <1>3, <1>4, PlaceTypes DEF At
    <2>2. job.pos \in DOMAIN Vin[Txs[job.block][job.tx]]
          /\ Vin[Txs[job.block][job.tx]][job.pos][1] = o[1]
      BY <1>1 DEF At, CurrentInput, CurrentTx
    <2> HIDE DEF o
    <2>3. SpendsOwn(job.block)
      BY <2>1, <2>2 DEF SpendsOwn
    <2> QED
      BY <1>1, <1>3, <1>4, <2>3 DEF o
  <1>5. CASE p[1] # job.block
    <2>1. p \in Mined
      BY <1>3, <1>5 DEF Mined, Indexed
    <2>2. o[1] \in DOMAIN View("tx-sym")
      BY <1>3, <2>1 DEF OrderedInv, Numbered
    <2>3. ~ Awaited(o)
      BY DEF Awaited, AddTxPc
    <2> QED
      BY <1>1, <2>2, <2>3 DEF Created, Outputs
  <1> QED
    BY <1>4, <1>5

LEMMA KeyedStep ==
  ASSUME ChainInv, SymbolInv, UtxoInv, RemovableInv, OrphanInv,
         [Next]_vars, pc' # "exited", ~Reboot
  PROVE  Keyed(View("tx-sym"), View("utxo"), Created)'
  <1> USE DEF ChainInv, IInv
  <1> DEFINE live == View("tx-sym")
  <1>1. Keyed(live, View("utxo"), Created)
    BY Running DEF OrphanInv
  <1>2. ASSUME NEW k, NEW u, UtxoPuts(k, u), live' = live, Created \subseteq Created',
               (\E o \in Created' : k = KeyIn(live, o)) \/ Stray(u)
        PROVE  Keyed(live', View("utxo")', Created')
    <2>1. \A x \in DOMAIN View("utxo")' :
            IF x = k THEN View("utxo")'[x] = u
                     ELSE x \in DOMAIN View("utxo") /\ View("utxo")'[x] = View("utxo")[x]
      <3>1. CASE u = Deleted
        BY <1>2, <3>1, UtxoDelete
      <3>2. CASE u # Deleted
        BY <1>2, <3>2, UtxoPut
      <3> QED
        BY <3>1, <3>2
    <2> HIDE DEF live
    <2> SUFFICES ASSUME NEW x \in DOMAIN View("utxo")', ~Stray(View("utxo")'[x])
                 PROVE  \E o \in Created' : x = KeyIn(live', o)
      BY DEF Keyed
    <2>2. CASE x = k
      BY <1>2, <2>1, <2>2
    <2>3. CASE x # k
      <3>1. x \in DOMAIN View("utxo") /\ ~Stray(View("utxo")[x])
        BY <2>1, <2>3
      <3> QED
        BY <1>1, <1>2, <3>1 DEF Keyed
    <2> QED
      BY <2>2, <2>3
  <1>3. CASE SpendInput
    <2>1. pc = "inputs" /\ HasInput
          /\ UtxoPuts(UtxoExists(CurrentInput).key,
                      SpentBy(UtxoExists(CurrentInput).utxo, lastTxSymbol, Height[job.block]))
      BY <1>3 DEF SpendInput, UtxoPuts, database, TypeOK, BatchesType, Tables
    <2>2. UtxoExists(CurrentInput).key = KeyIn(live, CurrentInput) /\ CurrentInput \in Created
      BY <2>1, FoundInput, InputKnown
    <2>3. Created' = Created /\ live' = live
      BY <1>3, SpendStep
    <2> QED
      BY <1>2, <2>1, <2>2, <2>3
  <1>4. CASE CreateOutput
    <2>1. UtxoPuts(<<lastTxSymbol, job.pos>>, Utxo(job.resolved[job.pos], Height[job.block]))
      BY <1>4 DEF CreateOutput, UtxoPuts, Stored, database, TypeOK, BatchesType, Tables
    <2>2. /\ \A o : o \in Created' <=> o \in Created \/ o = CurrentOutput
          /\ live' = live /\ KeyIn(live, CurrentOutput) = <<lastTxSymbol, job.pos>>
      BY <1>4, CreateStep
    <2> QED
      BY <1>2, <2>1, <2>2
  <1>5. CASE RevalidateInput
    <2>1. pc = "revalidate" /\ HasInput
          /\ UtxoPuts(UtxoExists(CurrentInput).key, Revalidated(UtxoExists(CurrentInput).utxo))
      BY <1>5 DEF RevalidateInput, UtxoPuts, database, TypeOK, BatchesType, Tables
    <2>2. /\ CurrentInput \in Outputs(DOMAIN db["tx-sym"])
          /\ UtxoExists(CurrentInput).key = KeyIn(db["tx-sym"], CurrentInput)
          /\ UtxoExists(CurrentInput).utxo \in UtxoRecord
          /\ Dated(UtxoExists(CurrentInput).utxo, CurrentInput, StoredPlaces)
      <3>1. CurrentInput \in Outpoint
        BY <2>1, RevalidatedKnown DEF Outputs
      <3> QED
        BY <2>1, <3>1, FoundRemoved, RevalidatedKnown, UtxoExistsType
    <2>3. CurrentInput \in Created => UtxoExists(CurrentInput).key = KeyIn(live, CurrentInput)
      BY <2>1, <2>2, RemovalKeys DEF RemovalPc
    <2>4. CurrentInput \notin Created => Stray(Revalidated(UtxoExists(CurrentInput).utxo))
      <3> SUFFICES ASSUME CurrentInput \notin Created
                   PROVE  Stray(Revalidated(UtxoExists(CurrentInput).utxo))
        OBVIOUS
      <3> DEFINE found == UtxoExists(CurrentInput).utxo
      <3>1. /\ SpendsOwn(job.block)
            /\ \E p \in StoredPlaces : At(p) = CurrentInput[1] /\ p[1] = job.block
        BY <2>1, GivenBackIsCreated
      <3>2. PICK p \in StoredPlaces : At(p) = CurrentInput[1] /\ p[1] = job.block
        BY <3>1
      <3>3. PICK q \in StoredPlaces : At(q) = CurrentInput[1] /\ found.created = Height[q[1]]
        BY <2>2 DEF Dated
      <3>4. p = q
        BY <3>2, <3>3, KnownFacts, MinedOnce DEF RootedInv, StoredPlaces
      <3>5. Removable(job.block) /\ job.block \in Block
        BY <2>1, JobTypes DEF RemovableInv, Undoing
      <3> HIDE DEF found
      <3>6. Revalidated(found).created = found.created
        BY <2>2 DEF Revalidated, UtxoRecord, found
      <3> QED
        BY <3>1, <3>2, <3>3, <3>4, <3>5, <3>6 DEF Stray, found
    <2>5. Created' = Created /\ live' = live
      <3>1. ~CreateOutput /\ ~RemoveOutput /\ ~TxStep
        BY <1>5, <2>1, Taken DEF RevalidateInput, CreateOutput, RemoveOutput, TxStep, AddTx,
                                 RemoveTxSymbol, WriteBatches, FlushPc
      <3> QED
        BY <3>1, CreatedKept, TxTablesKept
    <2> QED
      BY <1>2, <2>1, <2>3, <2>4, <2>5
  <1>6. CASE RemoveOutput
    <2>1. /\ \A o : o \in Created' <=> o \in Created /\ o # CurrentOutput
          /\ live' = live /\ UtxoPuts(KeyIn(live, CurrentOutput), Deleted)
      BY <1>6, RemoveOutputStep
    <2>2. /\ \A x : x \in DOMAIN View("utxo")' <=>
                      x # KeyIn(live, CurrentOutput) /\ x \in DOMAIN View("utxo")
          /\ \A x \in DOMAIN View("utxo")' : View("utxo")'[x] = View("utxo")[x]
      BY <2>1, UtxoDelete
    <2> HIDE DEF live
    <2>3. Keyed(live, View("utxo")', Created')
      BY <1>1, <2>1, <2>2 DEF Keyed
    <2> QED
      BY <2>1, <2>3 DEF live
  <1>7. CASE ~SpendInput /\ ~CreateOutput /\ ~RevalidateInput /\ ~RemoveOutput
    <2>1. Created' = Created /\ \A o \in Created : KeyIn(live, o)' = KeyIn(live, o)
      BY <1>7, CreatedKept
    <2>2. View("utxo")' = View("utxo")
      BY <1>7, UtxosKept
    <2> QED
      BY <1>1, <2>1, <2>2, KeyedFrame
  <1> QED
    BY <1>2, <1>3, <1>4, <1>5, <1>6, <1>7

LEMMA OrphanStep ==
  ASSUME ChainInv, SymbolInv, UtxoInv, RemovableInv, OrphanInv, [Next]_vars
  PROVE  OrphanInv'
  <1> USE DEF ChainInv, IInv
  <1>1. CASE Reboot
    <2>1. pc' = "idle" /\ db' = db
      BY <1>1 DEF Reboot
    <2>2. \A t \in {"tx-sym", "utxo"} :
            DOMAIN View(t)' = DOMAIN db[t] /\ \A k \in DOMAIN db[t] : View(t)'[k] = db[t][k]
      BY <1>1, RebootedLayers DEF Tables
    <2>3. Created' = Outputs(DOMAIN View("tx-sym")')
      BY <2>1, BetweenAfter DEF Between, Complete, AddTxPc
    <2>4. \A o \in Outputs(DOMAIN db["tx-sym"]) :
            o \in Created' /\ KeyIn(View("tx-sym")', o) = KeyIn(db["tx-sym"], o)
      BY <2>2, <2>3 DEF Outputs, KeyIn
    <2>5. \A k \in DOMAIN View("utxo")' : k \in DOMAIN db["utxo"] /\ View("utxo")'[k] = db["utxo"][k]
      BY <2>2
    <2>6. Keyed(db["tx-sym"], db["utxo"], Outputs(DOMAIN db["tx-sym"]))
      BY DEF OrphanInv
    <2>7. Keyed(View("tx-sym")', View("utxo")', Created')
      BY <2>4, <2>5, <2>6, KeyedFrame
    <2> QED
      BY <2>1, <2>6, <2>7 DEF OrphanInv
  <1>2. CASE ~Reboot /\ WriteBatches
    <2>1. /\ pc' # "exited" /\ Between'
      BY <1>2, WrittenPlaces DEF Between, AddTxPc
    <2>2. Keyed(View("tx-sym")', View("utxo")', Created') /\ Created' = Outputs(DOMAIN View("tx-sym")')
      BY <1>2, <2>1, KeyedStep, BetweenAfter DEF Complete
    <2>3. /\ View("tx-sym")' = View("tx-sym") /\ View("utxo")' = View("utxo")
          /\ db'["utxo"] = Written("utxo") /\ DOMAIN View("tx-sym") = DOMAIN db'["tx-sym"]
          /\ \A k \in DOMAIN db'["tx-sym"] : View("tx-sym")[k] = db'["tx-sym"][k]
      BY <1>2, WrittenLayers DEF Tables, BlockTables
    <2>4. dbBatches["utxo"] = EmptyMap
      BY <1>2 DEF UtxoInv, StoredInv, WriteBatches
    <2>5. \A k \in DOMAIN db'["utxo"] :
            k \in DOMAIN View("utxo")' /\ db'["utxo"][k] = View("utxo")'[k]
      BY <2>3, <2>4, OverlayEmpty DEF View
    <2>6. \A o \in Created' : o \in Outputs(DOMAIN db'["tx-sym"])
                              /\ KeyIn(db'["tx-sym"], o) = KeyIn(View("tx-sym")', o)
      BY <2>2, <2>3 DEF Outputs, KeyIn
    <2>7. Keyed(db'["tx-sym"], db'["utxo"], Outputs(DOMAIN db'["tx-sym"]))
      BY <2>2, <2>5, <2>6, KeyedFrame
    <2> QED
      BY <2>2, <2>7 DEF OrphanInv
  <1>3. CASE ~Reboot /\ ~WriteBatches
    <2>1. db' = db
      <3>1. CASE FlushBegins
        BY <3>1, Taken
      <3>2. CASE SpendInput \/ CreateOutput \/ RevalidateInput \/ RemoveOutput
        BY <3>2 DEF SpendInput, CreateOutput, RevalidateInput, RemoveOutput, database
      <3>3. CASE ~TouchesUtxo
        BY <3>3, UtxoStillSteps DEF UtxoStill
      <3> QED
        BY <1>3, <3>1, <3>2, <3>3 DEF TouchesUtxo
    <2> QED
      BY <1>3, <2>1, KeyedStep DEF OrphanInv
  <1> QED
    BY <1>1, <1>2, <1>3

LEMMA InitOrphans == Init => RemovableInv /\ OrphanInv
  <1> SUFFICES ASSUME Init
               PROVE  RemovableInv /\ OrphanInv
    OBVIOUS
  <1>1. pc = "idle" /\ \A b \in Block : ~ remove[b]
    BY DEF Init
  <1>2. db["utxo"] = EmptyMap /\ View("utxo") = Overlay(Overlay(EmptyMap, EmptyMap), EmptyMap)
    BY DEF Init, View, Written, NoFlush, NoBatches, Tables
  <1>3. DOMAIN db["utxo"] = {} /\ DOMAIN View("utxo") = {}
    BY <1>2, OverlayEmpty DEF EmptyMap
  <1> QED
    BY <1>1, <1>3 DEF RemovableInv, OrphanInv, Keyed, Undoing

LEMMA OrphansInductive ==
  Spec /\ [][EventsInOrder]_vars /\ [][TakesBack]_vars => [](RemovableInv /\ OrphanInv)
  <1>1. ChainInv /\ SymbolInv /\ UtxoInv /\ RemovableInv /\ OrphanInv /\ [Next]_vars
          /\ [TakesBack]_vars => (RemovableInv /\ OrphanInv)'
    BY RemovableStep, OrphanStep
  <1>2. Spec /\ [][EventsInOrder]_vars => [](ChainInv /\ SymbolInv /\ UtxoInv)
    BY OutputsFollowTheChain
  <1> QED
    BY <1>1, <1>2, InitOrphans, PTL DEF Spec

(* Between two blocks each record of the table of outputs is that of an     *)
(* output of an indexed transaction, or it was left behind when a block was *)
(* taken back that spends its own outputs, and dates from that block's     *)
(* height (saveOutput, removeBlock).                                       *)
THEOREM OrphansAreOfBlocksThatSpendTheirOwn ==
  Spec /\ [][EventsInOrder]_vars /\ [][TakesBack]_vars
    => [](pc \in {"idle", "taken"} =>
            \A k \in DOMAIN View("utxo") : k \in KnownUtxos \/ Stray(View("utxo")[k]))
  <1> DEFINE Kept == pc \in {"idle", "taken"} =>
                       \A k \in DOMAIN View("utxo") : k \in KnownUtxos \/ Stray(View("utxo")[k])
  <1>1. ASSUME ChainInv, SymbolInv, UtxoInv, RemovableInv, OrphanInv
        PROVE  Kept
    <2> USE <1>1
    <2> SUFFICES ASSUME pc \in {"idle", "taken"}, NEW k \in DOMAIN View("utxo"),
                        ~Stray(View("utxo")[k])
                 PROVE  k \in KnownUtxos
      OBVIOUS
    <2> DEFINE live == View("tx-sym")
    <2>1. PICK o \in Outputs(DOMAIN live) : k = KeyIn(live, o)
      <3>1. Created = Outputs(DOMAIN live)
        BY BetweenBlocks DEF AddTxPc
      <3> QED
        BY <3>1 DEF OrphanInv, Keyed
    <2>2. o[1] \in DOMAIN live /\ o[2] \in DOMAIN Vout[o[1]] /\ k = <<live[o[1]], o[2]>>
      BY <2>1 DEF Outputs, KeyIn
    <2> QED
      BY <2>2 DEF KnownUtxos
  <1> HIDE DEF Kept
  <1>2. Spec /\ [][EventsInOrder]_vars /\ [][TakesBack]_vars => []Kept
    BY <1>1, OrphansInductive, OutputsFollowTheChain, PTL
  <1> QED
    BY <1>2 DEF Kept

(* Between two blocks the table of outputs holds a record for each output   *)
(* of an indexed transaction and none besides, in a behaviour that takes   *)
(* no block back that spends its own outputs (saveOutput, removeBlock).    *)
THEOREM UtxosOfTheChain ==
  ASSUME \A b \in TakenBack : ~ SpendsOwn(b)
  PROVE  Spec /\ [][EventsInOrder]_vars /\ [][TakesBack]_vars => []UtxosAreExact
  <1> DEFINE Kept == pc \in {"idle", "taken"} =>
                       \A k \in DOMAIN View("utxo") : k \in KnownUtxos \/ Stray(View("utxo")[k])
  <1>1. Kept => NoOrphanUtxo
    BY DEF NoOrphanUtxo, Stray, Removable
  <1>2. Spec /\ [][EventsInOrder]_vars /\ [][TakesBack]_vars => []Kept
    BY OrphansAreOfBlocksThatSpendTheirOwn
  <1> HIDE DEF Kept
  <1>3. NoMissingUtxo /\ NoOrphanUtxo => UtxosAreExact
    BY DEF UtxosAreExact
  <1> QED
    BY <1>1, <1>2, <1>3, NoUtxoIsMissing, PTL
=============================================================================
