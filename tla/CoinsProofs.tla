---------------------------- MODULE CoinsProofs -----------------------------
(***************************************************************************)
(* The lists of outputs per address, in the database and in what waits to  *)
(* be appended to them: each names the outputs of the indexed chain that   *)
(* pay its address, every one once.  With the records of these outputs,    *)
(* the answers to requests for an address are the ledger's own, and the    *)
(* indexer implements UtxoIndex.                                           *)
(***************************************************************************)
EXTENDS UtxoProofs

-----------------------------------------------------------------------------
(* An address that has a symbol on disk keeps it, provided that requests    *)
(* name none during a flush, or one that a flush has taken since they asked *)
(* (NamesKeepClear).  Two actors may miss and name the same address;       *)
(* FreshInv says that both do so between the same two flushes, so that only *)
(* one of the two names ever reaches the disk.                             *)

OnDisk == DOMAIN db["address-sym"]
Batched == DOMAIN dbBatches["address-sym"]
InFlush == DOMAIN flush.ops["address-sym"]

(* Whoever is about to be named, waits in the batch or is being flushed is *)
(* not on disk; and nobody asks for a name that is on its way there.       *)
FreshInv ==
  /\ lookups \cap OnDisk = {}
  /\ pc = "allocate" => NextOutputAddress \notin OnDisk
  /\ Batched \subseteq DOMAIN lastSeenAddresses /\ Batched \cap OnDisk = {}
  /\ pc \in FlushPc =>
       /\ Batched = {} /\ InFlush \subseteq DOMAIN lastSeenAddresses
       /\ InFlush \cap (lookups \cup OnDisk) = {}

LEMMA MissedName ==
  ASSUME TypeOK, NEW a, AddressSymbol(a) = None
  PROVE  a \notin OnDisk /\ a \notin DOMAIN lastSeenAddresses
  BY SentinelsAreNoValues
     DEF TypeOK, DbTypeOK, CacheTypeOK, IsMap, AddressSymbol, Get, OnDisk

(* Only a miss makes somebody about to name an address.                    *)
LEMMA AboutToName ==
  ASSUME [Next]_vars
  PROVE  /\ pc' = "allocate" => MissAddress \/ (pc = "allocate" /\ job' = job)
         /\ lookups' \subseteq lookups \/ \E a \in QueryAddr : LookupMiss(a)
  <1> USE DEF outside, worker
  <1>1. CASE UNCHANGED vars
    BY <1>1 DEF vars
  <1>2. CASE Take \/ SkipBlock \/ AddBlock \/ SkipTx \/ AddTx \/ SpendInput
    BY <1>2 DEF Take, SkipBlock, AddBlock, SkipTx, AddTx, SpendInput
  <1>3. CASE ResolveAddress \/ MissAddress \/ NameAddress \/ BeginOutputs \/ CreateOutput
    BY <1>3 DEF ResolveAddress, Resolving, MissAddress, NameAddress, BeginOutputs, CreateOutput
  <1>4. CASE FinishTx \/ FinishBlock \/ FinishBlockAndFlush \/ SaveState
    BY <1>4 DEF FinishTx, FinishBlock, FinishBlockAndFlush, SaveState, TakeBatches
  <1>5. CASE Removing
    BY <1>5 DEF Removing, BeginRemove, RemoveTx, RevalidateInput, EndRevalidation, RemoveOutput,
                RemoveTxSymbol, CommitRemove, TakeBatches
  <1>6. CASE Flushing
    BY <1>6 DEF Flushing, WriteBatches, FlushList, FlushPc
  <1>7. CASE Exit \/ Syncer
    BY <1>7 DEF Exit, Syncer, BlockAdded, BlockRemoved, HandleBlock
  <1>8. CASE Requests
    BY <1>8 DEF Requests, LookupMiss, LookupName
  <1>9. CASE Crash \/ Restart
    BY <1>9 DEF Crash, Restart, Reboot
  <1> QED
    BY <1>1, <1>2, <1>3, <1>4, <1>5, <1>6, <1>7, <1>8, <1>9 DEF Next, Worker, Adding

(* What a step does to the three layers of names.                          *)
LEMMA AllocatedKeys ==
  ASSUME TypeOK, NEW a, AllocateAddress(a)
  PROVE  /\ UNCHANGED <<db, flush>>
         /\ Batched' = Batched \cup {a}
         /\ DOMAIN lastSeenAddresses' = DOMAIN lastSeenAddresses \cup {a}
  BY DEF AllocateAddress, TypeOK, BatchesType, Tables, Put, Merge, database, Batched

LEMMA FreshStep ==
  ASSUME TypeOK, FreshInv, [Next]_vars, [NamesKeepClear]_vars
  PROVE  FreshInv'
  <1> USE DEF FreshInv
  <1>1. CASE FlushBegins
    <2>1. lookups \cap Batched = {} /\ lookups' = lookups
      <3>1. pc \notin FlushPc /\ lookups' = lookups
        BY <1>1 DEF FlushBegins, FinishBlockAndFlush, BeginRemove, CommitRemove, SaveState,
                    TakeBatches, FlushPc
      <3>2. pc' \in FlushPc
        BY <1>1, Taken
      <3>3. ~ UNCHANGED vars
        BY <3>1, <3>2 DEF vars, worker
      <3> QED
        BY <3>1, <3>2, <3>3 DEF NamesKeepClear, Batched
    <2>2. /\ UNCHANGED <<db, lastSeenAddresses>> /\ dbBatches' = NoBatches /\ pc' \in FlushPc
          /\ flush'.ops["address-sym"] = dbBatches["address-sym"]
      BY <1>1, Taken DEF caches
    <2>3. Batched' = {} /\ InFlush' = Batched /\ OnDisk' = OnDisk
      BY <2>2 DEF Batched, InFlush, OnDisk, NoBatches, Tables, EmptyMap
    <2> QED
      BY <2>1, <2>2, <2>3 DEF FlushPc
  <1>2. CASE WriteBatches
    <2>1. /\ pc \in FlushPc /\ pc' \notin FlushPc \cup {"allocate"} /\ lookups' = lookups
          /\ Batched' = Batched /\ db'["address-sym"] = Overlay(db["address-sym"], flush.ops["address-sym"])
      BY <1>2 DEF WriteBatches, FlushPc, outside, Batched, Tables
    <2>2. OnDisk' \subseteq OnDisk \cup InFlush
      BY <2>1 DEF Overlay, OnDisk, InFlush
    <2> QED
      BY <2>1, <2>2
  <1>3. CASE Reboot
    <2>1. pc' = "idle" /\ lookups' = {} /\ Batched' = {}
      BY <1>3 DEF Reboot, Batched, NoBatches, Tables, EmptyMap
    <2> QED
      BY <2>1 DEF FlushPc
  <1>4. ASSUME ~FlushBegins, ~WriteBatches, ~Reboot
        PROVE  FreshInv'
    <2>1. Quiet
      BY <1>4, StillSteps, QuietSteps DEF Still
    <2>2. OnDisk' = OnDisk /\ InFlush' = InFlush
      BY <2>1 DEF Quiet, OnDisk, InFlush
    <2>3. pc' \in FlushPc => pc \in FlushPc
      BY <2>1 DEF Quiet
    <2>4. CASE NamesUnchanged
      <3>1. Batched' = Batched /\ lastSeenAddresses' = lastSeenAddresses
        BY <2>4 DEF NamesUnchanged, Batched
      <3>2. pc' = "allocate" => NextOutputAddress' \notin OnDisk
        <4>1. CASE MissAddress
          BY <4>1, MissedName DEF MissAddress, NextOutputAddress, CurrentTx
        <4>2. CASE pc = "allocate" /\ job' = job
          BY <4>2 DEF NextOutputAddress, CurrentTx
        <4> QED
          BY <4>1, <4>2, AboutToName
      <3>3. \A a \in lookups' : a \in lookups \/ a \notin OnDisk \cup DOMAIN lastSeenAddresses
        BY AboutToName, MissedName DEF LookupMiss
      <3> QED
        BY <2>2, <2>3, <3>1, <3>2, <3>3
    <2>5. CASE NameAddress
      <3>1. /\ AllocateAddress(NextOutputAddress) /\ pc = "allocate" /\ pc' = "inputs"
            /\ lookups' = lookups
        BY <2>5 DEF NameAddress, NextOutputAddress
      <3>2. /\ Batched' = Batched \cup {NextOutputAddress}
            /\ DOMAIN lastSeenAddresses' = DOMAIN lastSeenAddresses \cup {NextOutputAddress}
        BY <3>1, AllocatedKeys
      <3> QED
        BY <2>2, <3>1, <3>2 DEF FlushPc
    <2>6. CASE \E a \in QueryAddr : LookupName(a)
      <3>1. PICK a \in QueryAddr : LookupName(a)
        BY <2>6
      <3>2. /\ AllocateAddress(a) /\ a \in lookups /\ lookups' \subseteq lookups
            /\ pc' = pc /\ job' = job
        BY <3>1 DEF LookupName, worker
      <3>3. NextOutputAddress' = NextOutputAddress
        BY <3>2 DEF NextOutputAddress, CurrentTx
      <3>4. lastAddressSymbol' # lastAddressSymbol
        BY <3>2 DEF AllocateAddress, NewAddressSymbol, TypeOK, FieldTypeOK
      <3>5. pc \notin FlushPc
        BY <3>2, <3>4 DEF NamesKeepClear, vars, index, symbols
      <3> QED
        BY <2>2, <3>2, <3>3, <3>5, AllocatedKeys
    <2> QED
      BY <1>4, <2>4, <2>5, <2>6, NamesSteps
  <1> QED
    BY <1>1, <1>2, <1>3, <1>4

(* Only a write changes what is on disk, and it writes new names alone.    *)
LEMMA StoredNamesStay ==
  ASSUME TypeOK, FreshInv, [Next]_vars, NEW a \in OnDisk
  PROVE  db'["address-sym"][a] = db["address-sym"][a]
  <1>1. CASE FlushBegins \/ Reboot
    BY <1>1, Taken DEF Reboot
  <1>2. CASE WriteBatches
    <2>1. /\ pc \in FlushPc
          /\ db'["address-sym"] = Overlay(db["address-sym"], flush.ops["address-sym"])
      BY <1>2 DEF WriteBatches, Tables
    <2> QED
      BY <2>1 DEF FreshInv, Overlay, OnDisk, InFlush
  <1>3. ASSUME ~FlushBegins, ~WriteBatches, ~Reboot
        PROVE  db' = db
    BY <1>3, StillSteps, QuietSteps DEF Still, Quiet
  <1> QED
    BY <1>1, <1>2, <1>3

LEMMA FreshInductive == Spec /\ [][NamesKeepClear]_vars => []FreshInv
  <1>1. Init => FreshInv
    BY DEF Init, FreshInv, Batched, OnDisk, NoBatches, Tables, EmptyMap, FlushPc
  <1>2. TypeOK /\ FreshInv /\ [Next]_vars /\ [NamesKeepClear]_vars => FreshInv'
    BY FreshStep
  <1> QED
    BY <1>1, <1>2, TypeCorrect, PTL DEF Spec

(* A name on disk is never replaced, by whatever worker, requests, flushes, *)
(* removals, crashes and restarts do, as long as no address is named while *)
(* a flush is under way.  (MCIndexer_renamed.cfg shows that the condition  *)
(* is needed.)                                                             *)
THEOREM KnownNamesStay == Spec /\ [][NamesKeepClear]_vars => SymbolsAreKept
  <1>1. TypeOK /\ FreshInv /\ [Next]_vars =>
          \A a \in DOMAIN db["address-sym"] : db'["address-sym"][a] = db["address-sym"][a]
    BY StoredNamesStay DEF OnDisk
  <1> QED
    BY <1>1, TypeCorrect, FreshInductive, PTL DEF Spec, SymbolsAreKept

-----------------------------------------------------------------------------
(* What the lists hold.                                                     *)

CoinsUnder(names, lists, a) ==
  IF a \in DOMAIN names /\ names[a] \in DOMAIN lists THEN lists[names[a]].coins ELSE <<>>
PaidTo(symbol, outputs, a) == {KeyIn(symbol, o) : o \in {e \in outputs : AddressOf(e) = a}}

Entries(s) == {s[i] : i \in DOMAIN s}
Once(s)    == \A i, j \in DOMAIN s : s[i] = s[j] => i = j

(* A list and what waits to be appended to it.                             *)
Lists(list, waiting, S) ==
  /\ Once(list) /\ Once(waiting) /\ Entries(list) \cap Entries(waiting) = {}
  /\ Entries(list) \cup Entries(waiting) = S

(* During a flush, what it has appended waits no longer.                    *)
Waiting(a) ==
  IF a \in DOMAIN lastAddressUtxos /\ (pc \in FlushPc => a \in flush.todo)
  THEN lastAddressUtxos[a] ELSE <<>>

Listing(a)  == CoinsUnder(Written("address-sym"), View("address-utxos"), a)
DbListing(a) == CoinsUnder(db["address-sym"], db["address-utxos"], a)
Paid(a)     == PaidTo(View("tx-sym"), Created, a)
DbPaid(a)   == PaidTo(db["tx-sym"], Outputs(DOMAIN db["tx-sym"]), a)

(* A removal rewrites a list from the database for each output it takes out *)
(* of it: of two outputs of one block, the first comes back.  The lists are *)
(* those of the addresses no block that is taken back pays twice.          *)
PaysTwice(b, a) ==
  \E o, e \in Outputs({Txs[b][i] : i \in DOMAIN Txs[b]}) :
    o # e /\ AddressOf(o) = a /\ AddressOf(e) = a

PaidOnce == {a \in Addr : \A b \in TakenBack : ~ PaysTwice(b, a)}

ListsInv ==
  /\ \A a \in PaidOnce : Lists(DbListing(a), <<>>, DbPaid(a))
  /\ pc # "exited" => \A a \in PaidOnce : Lists(Listing(a), Waiting(a), Paid(a))

(* Each list is that of an address whose name is written, or on its way.    *)
Owned(names, lists) == \A s \in DOMAIN lists : \E a \in DOMAIN names : names[a] = s

OwnedInv ==
  /\ Owned(db["address-sym"], db["address-utxos"])
  /\ Owned(Written("address-sym"), View("address-utxos"))

(* Lists are rewritten by a removal, and extended by a flush that has no    *)
(* rewritten ones to write.                                                *)
LayerInv ==
  /\ pc \notin RemovalPc \cup {"exited"} => dbBatches["address-utxos"] = EmptyMap
  /\ pc \in RemovalPc \cup {"secondFlush"} => lastAddressUtxos = EmptyMap
  /\ pc \in FlushPc =>
       /\ dbBatches["sym-tx"] = EmptyMap
       /\ \A a \in flush.todo :
            /\ a \in DOMAIN Written("address-sym")
            /\ Written("address-sym")[a] \notin DOMAIN flush.ops["address-utxos"]

(* The lists a removal has rewritten are those its removed outputs were in. *)
RemovedOutputs ==
  {o \in Outputs({Txs[job.block][i] : i \in DOMAIN Txs[job.block]}) : o \notin Created}

UnlistedInv ==
  pc \in RemovalPc =>
    \A s \in DOMAIN dbBatches["address-utxos"] : \E o \in RemovedOutputs :
      /\ AddressOf(o) \in DOMAIN Written("address-sym")
      /\ Written("address-sym")[AddressOf(o)] = s

(* A symbol leads back to its transaction.                                  *)
Back(there, back) == \A t \in DOMAIN there : there[t] \in DOMAIN back /\ back[there[t]] = t

BackInv ==
  /\ Back(db["tx-sym"], db["sym-tx"])
  /\ pc # "exited" => Back(View("tx-sym"), View("sym-tx"))

CoinsInv == FreshInv /\ ListsInv /\ OwnedInv /\ LayerInv /\ UnlistedInv /\ BackInv

-----------------------------------------------------------------------------
(* Lists.                                                                   *)

LEMMA NothingWaits ==
  ASSUME NEW list, NEW S
  PROVE  Lists(list, <<>>, S) <=> Once(list) /\ Entries(list) = S
  <1>1. Entries(<<>>) = {} /\ Once(<<>>)
    BY DEF Entries, Once
  <1> QED
    BY <1>1 DEF Lists

LEMMA AnotherWaits ==
  ASSUME NEW T, NEW list, NEW s \in Seq(T), NEW S, Lists(list, s, S), NEW e \in T, e \notin S
  PROVE  Lists(list, Append(s, e), S \cup {e})
  <1> DEFINE t == Append(s, e)
             n == Len(s)
  <1>1. /\ t \in Seq(T) /\ Len(t) = n + 1 /\ t[n + 1] = e /\ \A i \in 1 .. n : t[i] = s[i]
        /\ DOMAIN s = 1 .. n /\ DOMAIN t = 1 .. n + 1 /\ n \in Nat
    BY AppendProperties
  <1> HIDE DEF t, n
  <1>2. Entries(t) = Entries(s) \cup {e}
    BY <1>1 DEF Entries
  <1>3. e \notin Entries(s) /\ e \notin Entries(list) /\ Once(s)
    BY DEF Lists
  <1>4. Once(t)
    BY <1>1, <1>3 DEF Once, Entries
  <1> QED
    BY <1>2, <1>3, <1>4 DEF Lists, t

LEMMA Appended ==
  ASSUME NEW T, NEW list \in Seq(T), NEW s \in Seq(T), NEW S, Lists(list, s, S)
  PROVE  Lists(list \o s, <<>>, S)
  <1> DEFINE t == list \o s
             n == Len(list)
             m == Len(s)
  <1>1. /\ DOMAIN t = 1 .. n + m /\ DOMAIN s = 1 .. m /\ DOMAIN list = 1 .. n
        /\ n \in Nat /\ m \in Nat
        /\ \A i \in 1 .. n : t[i] = list[i]
        /\ \A i \in 1 .. n + m : i > n => t[i] = s[i - n]
    BY ConcatProperties
  <1> HIDE DEF t, n, m
  <1>2. /\ Once(list) /\ Once(s) /\ \A i \in 1 .. n, j \in 1 .. m : list[i] # s[j]
    BY <1>1 DEF Lists, Entries
  <1>3. Once(t)
    <2> SUFFICES ASSUME NEW i \in 1 .. n + m, NEW j \in 1 .. n + m, t[i] = t[j]
                 PROVE  i = j
      BY <1>1 DEF Once
    <2>1. CASE i <= n /\ j <= n
      BY <1>1, <1>2, <2>1 DEF Once
    <2>2. CASE i > n /\ j > n
      <3>1. i - n \in 1 .. m /\ j - n \in 1 .. m /\ s[i - n] = s[j - n]
        BY <1>1, <2>2
      <3>2. i - n = j - n
        BY <1>1, <1>2, <3>1 DEF Once
      <3> QED
        BY <1>1, <3>2
    <2>3. CASE i <= n /\ j > n
      <3>1. i \in 1 .. n /\ j - n \in 1 .. m /\ list[i] = s[j - n]
        BY <1>1, <2>3
      <3> QED
        BY <1>2, <3>1
    <2>4. CASE i > n /\ j <= n
      <3>1. j \in 1 .. n /\ i - n \in 1 .. m /\ list[j] = s[i - n]
        BY <1>1, <2>4
      <3> QED
        BY <1>2, <3>1
    <2> QED
      BY <1>1, <2>1, <2>2, <2>3, <2>4
  <1>4. Entries(t) = Entries(list) \cup Entries(s)
    <2>1. ASSUME NEW j \in 1 .. m
          PROVE  s[j] \in Entries(t)
      <3>1. j + n \in 1 .. n + m /\ j + n > n /\ j + n - n = j
        BY <1>1
      <3>2. t[j + n] = s[j]
        BY <1>1, <3>1
      <3> QED
        BY <1>1, <3>1, <3>2 DEF Entries
    <2>2. ASSUME NEW i \in 1 .. n + m
          PROVE  t[i] \in Entries(list) \cup Entries(s)
      <3>1. CASE i <= n
        BY <1>1, <3>1 DEF Entries
      <3>2. CASE i > n
        <4>1. i - n \in 1 .. m /\ t[i] = s[i - n]
          BY <1>1, <3>2
        <4> QED
          BY <1>1, <4>1 DEF Entries
      <3> QED
        BY <1>1, <3>1, <3>2
    <2>3. \A i \in 1 .. n : list[i] \in Entries(t)
      BY <1>1 DEF Entries
    <2>4. Entries(list) \cup Entries(s) \subseteq Entries(t)
      BY <1>1, <2>1, <2>3 DEF Entries
    <2>5. Entries(t) \subseteq Entries(list) \cup Entries(s)
      BY <1>1, <2>2 DEF Entries
    <2> QED
      BY <2>4, <2>5
  <1> QED
    BY <1>3, <1>4, NothingWaits DEF Lists, t

LEMMA WithoutEntry ==
  ASSUME NEW T, NEW list \in Seq(T), NEW ref, Once(list), ref \in Entries(list)
  PROVE  LET new == Unlisted(list, ref) IN
         new \in Seq(T) /\ Once(new) /\ Entries(new) = Entries(list) \ {ref}
  <1> DEFINE i == CHOOSE k \in DOMAIN list : IsLastIndexOf(list, ref, k)
             n == Len(list)
             s == SubSeq(list, 1, i - 1)
             t == SubSeq(list, i + 1, n)
             new == s \o t
  <1>1. /\ n \in Nat /\ DOMAIN list = 1 .. n
    BY DEF n
  <1>2. PICK p \in DOMAIN list : list[p] = ref
    BY DEF Entries
  <1>3. IsLastIndexOf(list, ref, p)
    <2>1. \A j \in DOMAIN list : list[j] = ref => j = p
      BY <1>2 DEF Once
    <2> QED
      BY <1>1, <1>2, <2>1 DEF IsLastIndexOf
  <1>4. i \in 1 .. n /\ list[i] = ref
    BY <1>1, <1>2, <1>3 DEF IsLastIndexOf
  <1>5. Unlisted(list, ref) = new
    BY <1>3 DEF Unlisted
  <1> HIDE DEF i, n
  <1>6. \A j \in 1 .. n : list[j] \in T
    BY <1>1
  <1>7. s \in Seq(T) /\ Len(s) = i - 1 /\ \A j \in 1 .. i - 1 : s[j] = list[j]
    BY <1>1, <1>4, <1>6, SubSeqProperties
  <1>8. t \in Seq(T) /\ Len(t) = n - i /\ \A j \in 1 .. n - i : t[j] = list[i + j]
    <2>1. \A j \in i + 1 .. n : list[j] \in T
      BY <1>1, <1>4, <1>6
    <2>2. t \in Seq(T)
      BY <1>1, <1>4, <2>1, SubSeqProperties
    <2>3. Len(t) = IF i + 1 <= n THEN n - i ELSE 0
      BY <1>1, <1>4, SubSeqProperties
    <2>4. Len(t) = n - i
      BY <1>1, <1>4, <2>3
    <2>5. \A j \in 1 .. n - i : t[j] = list[i + j]
      BY <1>1, <1>4, <2>4, SubSeqProperties
    <2> QED
      BY <2>2, <2>4, <2>5
  <1> HIDE DEF s, t
  <1>9. /\ new \in Seq(T) /\ DOMAIN new = 1 .. n - 1
        /\ \A j \in 1 .. i - 1 : new[j] = list[j]
        /\ \A j \in i .. n - 1 : new[j] = list[j + 1]
    <2> DEFINE p1 == Len(s)
               p2 == Len(t)
    <2>1. s \in Seq(T) /\ t \in Seq(T)
      BY <1>7, <1>8
    <2>2. /\ new \in Seq(T) /\ Len(new) = p1 + p2
          /\ \A j \in 1 .. p1 + p2 : new[j] = IF j <= p1 THEN s[j] ELSE t[j - p1]
      BY <2>1, ConcatProperties
    <2>3. /\ new \in Seq(T) /\ DOMAIN new = 1 .. p1 + p2
          /\ \A j \in 1 .. p1 + p2 : new[j] = IF j <= p1 THEN s[j] ELSE t[j - p1]
      <3> HIDE DEF new, p1, p2
      <3>1. DOMAIN new = 1 .. Len(new)
        BY <2>2
      <3> QED
        BY <2>2, <3>1
    <2>4. p1 = i - 1 /\ p2 = n - i
      BY <1>7, <1>8
    <2> HIDE DEF p1, p2, new
    <2>5. p1 + p2 = n - 1
      BY <1>1, <1>4, <2>4
    <2>6. new \in Seq(T) /\ DOMAIN new = 1 .. n - 1
      BY <2>3, <2>5
    <2>7. /\ \A j \in 1 .. i - 1 : new[j] = s[j]
          /\ \A j \in 1 .. n - 1 : j > i - 1 => new[j] = t[j - (i - 1)]
      BY <1>1, <1>4, <2>3, <2>4, <2>5
    <2>8. ASSUME NEW j \in i .. n - 1
          PROVE  new[j] = list[j + 1]
      <3>1. j \in 1 .. n - 1 /\ j > i - 1 /\ j - (i - 1) \in 1 .. n - i /\ i + (j - (i - 1)) = j + 1
        BY <1>1, <1>4
      <3> QED
        BY <1>8, <2>7, <3>1
    <2> QED
      BY <1>7, <2>6, <2>7, <2>8
  <1> HIDE DEF new
  <1>10. Once(new)
    <2> DEFINE at(j) == IF j < i THEN j ELSE j + 1
    <2>1. \A j \in 1 .. n - 1 : at(j) \in 1 .. n /\ new[j] = list[at(j)]
      BY <1>1, <1>4, <1>9
    <2>2. \A j, k \in 1 .. n - 1 : at(j) = at(k) => j = k
      BY <1>1, <1>4
    <2> HIDE DEF at
    <2> QED
      BY <1>1, <1>9, <2>1, <2>2 DEF Once
  <1>11. Entries(new) \subseteq Entries(list) \ {ref}
    <2>1. ASSUME NEW j \in 1 .. n - 1
          PROVE  new[j] \in Entries(list) /\ new[j] # ref
      <3>1. CASE j < i
        <4>1. j \in 1 .. n /\ j # i /\ new[j] = list[j] /\ j \in 1 .. i - 1
          BY <1>1, <1>4, <1>9, <3>1
        <4> QED
          BY <1>1, <1>4, <4>1 DEF Once, Entries
      <3>2. CASE j >= i
        <4>1. j + 1 \in 1 .. n /\ j + 1 # i /\ j \in i .. n - 1
          BY <1>1, <1>4, <3>2
        <4>2. new[j] = list[j + 1]
          BY <1>9, <4>1
        <4> QED
          BY <1>1, <1>4, <4>1, <4>2 DEF Once, Entries
      <3> QED
        BY <1>1, <1>4, <3>1, <3>2
    <2> QED
      BY <1>9, <2>1 DEF Entries
  <1>12. Entries(list) \ {ref} \subseteq Entries(new)
    <2> SUFFICES ASSUME NEW k \in 1 .. n, list[k] # ref
                 PROVE  list[k] \in Entries(new)
      BY <1>1 DEF Entries
    <2>1. CASE k < i
      BY <1>1, <1>4, <1>9, <2>1 DEF Entries
    <2>2. CASE k > i
      <3>1. k - 1 \in i .. n - 1 /\ k - 1 \in 1 .. n - 1 /\ (k - 1) + 1 = k
        BY <1>1, <1>4, <2>2
      <3>2. new[k - 1] = list[k]
        BY <1>9, <3>1
      <3> QED
        BY <1>9, <3>1, <3>2 DEF Entries
    <2> QED
      BY <1>1, <1>4, <2>1, <2>2
  <1> QED
    BY <1>5, <1>9, <1>10, <1>11, <1>12

-----------------------------------------------------------------------------
(* A name that is written, or on its way, is the one a look-up finds.       *)
LEMMA WrittenName ==
  ASSUME IInv, FreshInv, NEW a \in DOMAIN Written("address-sym")
  PROVE  AddressSymbol(a) = Written("address-sym")[a]
  <1> USE DEF IInv
  <1>1. a \notin Batched
    <2>1. CASE pc \in FlushPc
      BY <2>1 DEF FreshInv
    <2>2. CASE pc \notin FlushPc
      <3>1. flush.ops["address-sym"] = EmptyMap
        BY <2>2 DEF FlushInv, NoFlush, NoBatches, Tables
      <3> QED
        BY <3>1, OverlayEmpty DEF Written, FreshInv, OnDisk
    <2> QED
      BY <2>1, <2>2
  <1>2. View("address-sym")[a] = Written("address-sym")[a]
    BY <1>1, OverlayKeys, NamesStay DEF View, Batched
  <1>3. CASE a \in DOMAIN lastSeenAddresses
    BY <1>2, <1>3 DEF CacheInv, AddressSymbol
  <1>4. CASE a \notin DOMAIN lastSeenAddresses
    <2>1. a \notin InFlush
      <3>1. CASE pc \in FlushPc
        BY <1>4, <3>1 DEF FreshInv
      <3>2. CASE pc \notin FlushPc
        BY <3>2 DEF FlushInv, NoFlush, NoBatches, Tables, EmptyMap, InFlush
      <3> QED
        BY <3>1, <3>2
    <2>2. a \in DOMAIN db["address-sym"] /\ Written("address-sym")[a] = db["address-sym"][a]
      BY <2>1, OverlayKeys DEF Written, InFlush
    <2> QED
      BY <1>4, <2>2 DEF AddressSymbol, Get
  <1> QED
    BY <1>3, <1>4

LEMMA StoredName ==
  ASSUME IInv, FreshInv, NEW a \in OnDisk
  PROVE  /\ a \in DOMAIN Written("address-sym") /\ AddressSymbol(a) = db["address-sym"][a]
         /\ Written("address-sym")[a] = db["address-sym"][a]
  <1>1. a \in DOMAIN Written("address-sym")
    BY NamesStay DEF OnDisk, IInv
  <1>2. a \notin InFlush
    <2>1. CASE pc \in FlushPc
      BY <2>1 DEF FreshInv
    <2>2. CASE pc \notin FlushPc
      BY <2>2 DEF IInv, FlushInv, NoFlush, NoBatches, Tables, EmptyMap, InFlush
    <2> QED
      BY <2>1, <2>2
  <1>3. Written("address-sym")[a] = db["address-sym"][a]
    BY <1>1, <1>2, OverlayKeys DEF Written, InFlush
  <1> QED
    BY <1>1, <1>3, WrittenName

-----------------------------------------------------------------------------
(* Most steps leave the lists alone.                                        *)
ListStep ==
  \/ CreateOutput \/ RemoveOutput \/ \E a \in flush.todo : FlushList(a)
  \/ FlushBegins \/ WriteBatches \/ Reboot

ListsStill ==
  /\ UNCHANGED <<db, flush, lastAddressUtxos>>
  /\ dbBatches'["address-utxos"] = dbBatches["address-utxos"]
  /\ dbBatches'["sym-tx"] = dbBatches["sym-tx"] \/ AddTx
  /\ pc' # "exited" => (pc' \in FlushPc <=> pc \in FlushPc)
  /\ pc = "exited" => pc' = "exited"
  /\ pc' \in RemovalPc <=> pc \in RemovalPc /\ pc' # "exited"
  /\ pc' = "secondFlush" <=> pc = "secondFlush"
  /\ pc' \in FlushPc => pc \in FlushPc

LEMMA ListsKept ==
  ASSUME TypeOK, [Next]_vars, ~ListStep
  PROVE  ListsStill
  <1>1. DOMAIN dbBatches = Tables
    BY DEF TypeOK, BatchesType
  <1> USE DEF ListsStill, FlushPc, RemovalPc, ListStep
  <1>2. CASE UNCHANGED vars \/ Syncer
    BY <1>2 DEF vars, index, database, caches, worker, Syncer, BlockAdded, BlockRemoved,
                HandleBlock
  <1>3. CASE Exit
    BY <1>3 DEF index, database, caches, Exit, RefusesFirst, RefusesRemoval, MissesUtxo,
                SeenBefore
  <1>4. CASE Requests
    BY <1>1, <1>4 DEF Requests, LookupMiss, LookupName, AllocateAddress, index, database, caches,
                      worker, Tables
  <1>5. CASE Take \/ SkipBlock \/ SkipTx \/ ResolveAddress \/ MissAddress
    BY <1>5 DEF Take, SkipBlock, SkipTx, ResolveAddress, MissAddress, Resolving, index, database,
                caches
  <1>6. CASE AddBlock \/ NameAddress
    BY <1>1, <1>6 DEF AddBlock, NameAddress, AllocateAddress, database, Tables
  <1>7. CASE AddTx
    BY <1>1, <1>7 DEF AddTx, database, Tables
  <1>8. CASE SpendInput
    BY <1>1, <1>8 DEF SpendInput, database, Tables
  <1>9. CASE BeginOutputs \/ FinishTx \/ FinishBlock
    BY <1>9 DEF BeginOutputs, FinishTx, FinishBlock, index, database, caches
  <1>10. CASE RemoveTx \/ EndRevalidation
    BY <1>10 DEF RemoveTx, EndRevalidation, index, database, caches
  <1>11. CASE RevalidateInput \/ RemoveTxSymbol
    BY <1>1, <1>11 DEF RevalidateInput, RemoveTxSymbol, database, caches, Tables
  <1> QED
    BY <1>2, <1>3, <1>4, <1>5, <1>6, <1>7, <1>8, <1>9, <1>10, <1>11
       DEF Next, Worker, Adding, Removing, Flushing, Crash, Restart, FlushBegins

LEMMA SamePaid ==
  ASSUME NEW symbol, NEW symbol2, NEW outputs, NEW a,
         \A o \in outputs : KeyIn(symbol2, o) = KeyIn(symbol, o)
  PROVE  PaidTo(symbol2, outputs, a) = PaidTo(symbol, outputs, a)
  BY DEF PaidTo

LEMMA PaidKept ==
  ASSUME ChainInv, SymbolInv, [Next]_vars, pc' # "exited",
         ~CreateOutput, ~RemoveOutput, ~Reboot, NEW a
  PROVE  Paid(a)' = Paid(a)
  <1>1. Created' = Created /\ \A o \in Created : KeyIn(View("tx-sym"), o)' = KeyIn(View("tx-sym"), o)
    BY CreatedKept
  <1>2. \A o \in Created : KeyIn(View("tx-sym")', o) = KeyIn(View("tx-sym"), o)
    BY <1>1 DEF KeyIn
  <1>3. PaidTo(View("tx-sym")', Created, a) = PaidTo(View("tx-sym"), Created, a)
    BY <1>2, SamePaid
  <1> QED
    BY <1>1, <1>3 DEF Paid

-----------------------------------------------------------------------------
(* The lists after each step that is about them.                            *)

AllListed == \A a \in PaidOnce : Lists(Listing(a), Waiting(a), Paid(a))

LEMMA StillListed ==
  ASSUME ChainInv, SymbolInv, AllListed, [Next]_vars, pc' # "exited", ~ListStep
  PROVE  AllListed'
  <1>1. ListsStill
    BY ListsKept DEF ChainInv, IInv
  <1>2. \A a \in PaidOnce : Listing(a)' = Listing(a)
    BY <1>1 DEF ListsStill, Listing, Written, View
  <1>3. \A a \in PaidOnce : Waiting(a)' = Waiting(a)
    BY <1>1 DEF ListsStill, Waiting
  <1>4. \A a \in PaidOnce : Paid(a)' = Paid(a)
    BY PaidKept DEF ListStep
  <1> QED
    BY <1>2, <1>3, <1>4 DEF AllListed

LEMMA CreatedListed ==
  ASSUME ChainInv, SymbolInv, UtxoInv, AllListed, [Next]_vars, CreateOutput
  PROVE  AllListed'
  <1> USE DEF ChainInv, IInv
  <1> DEFINE o  == CurrentOutput
             k  == KeyIn(View("tx-sym"), o)
             to == AddressOf(o)
  <1>1. /\ \A e : e \in Created' <=> e \in Created \/ e = o
        /\ o \notin Created /\ View("tx-sym")' = View("tx-sym") /\ k = <<lastTxSymbol, job.pos>>
    BY CreateStep
  <1>2. /\ UNCHANGED <<db, flush>> /\ dbBatches'["address-utxos"] = dbBatches["address-utxos"]
        /\ pc = "outputs" /\ pc' = "outputs" /\ HasOutput
        /\ lastAddressUtxos' = IF to = NoAddr THEN lastAddressUtxos
                                              ELSE Listed(to, <<lastTxSymbol, job.pos>>)
    BY DEF CreateOutput, database, TypeOK, BatchesType, Tables
  <1>3. \A a \in PaidOnce : Listing(a)' = Listing(a)
    BY <1>2 DEF Listing, Written, View
  <1>4. HasTx /\ CurrentTx \in Tx /\ lastTxSymbol \in Nat /\ job.pos \in Nat \ {0}
    BY <1>2, JobTypes DEF WorkerInv, AddTxPc
  <1>5. to \in Addr \cup {NoAddr} /\ job.pos \in DOMAIN Vout[CurrentTx]
    BY <1>2, <1>4, JobTypes DEF CurrentOutput, AddressOf
  <1>6. o \in Outputs(DOMAIN View("tx-sym"))
    <2>1. CurrentTx \in DOMAIN View("tx-sym")
      BY <1>2 DEF SymbolInv, CurrentInv, AddTxPc
    <2> QED
      BY <1>4, <1>5, <2>1 DEF Outputs, Outpoint, CurrentOutput
  <1>7. \A e \in Created : KeyIn(View("tx-sym"), e) # k
    BY <1>1, <1>2, <1>6, KeysApart DEF Created
  <1> HIDE DEF o, k, to
  <1> SUFFICES ASSUME NEW a \in PaidOnce
               PROVE  Lists(Listing(a), Waiting(a)', Paid(a)')
    BY <1>3 DEF AllListed
  <1>8. Paid(a)' = PaidTo(View("tx-sym"), Created', a)
    BY <1>1 DEF Paid
  <1>9. Lists(Listing(a), Waiting(a), Paid(a))
    BY DEF AllListed
  <1>10. CASE to # a
    <2>1. Paid(a)' = Paid(a)
      BY <1>1, <1>8, <1>10 DEF Paid, PaidTo, to
    <2>2. Waiting(a)' = Waiting(a)
      BY <1>2, <1>10 DEF Waiting, Listed, Put, Merge, FlushPc
    <2> QED
      BY <1>9, <2>1, <2>2
  <1>11. CASE to = a
    <2>1. Paid(a)' = Paid(a) \cup {k}
      BY <1>1, <1>8, <1>11 DEF Paid, PaidTo, to, k
    <2>2. k \notin Paid(a)
      BY <1>7 DEF Paid, PaidTo
    <2>3. Waiting(a)' = Append(Waiting(a), k)
      <3>1. a # NoAddr
        BY LedgerTypes DEF PaidOnce
      <3>2. lastAddressUtxos' = Listed(a, k)
        BY <1>1, <1>2, <1>11, <3>1
      <3> QED
        BY <1>2, <3>2 DEF Waiting, Listed, Put, Merge, FlushPc
    <2>4. k \in UtxoKey
      BY <1>1, <1>4 DEF UtxoKey, Symbol
    <2>5. Waiting(a) \in Seq(UtxoKey)
      BY DEF Waiting, TypeOK, CacheTypeOK, IsMap
    <2> QED
      BY <1>9, <2>1, <2>2, <2>3, <2>4, <2>5, AnotherWaits
  <1> QED
    BY <1>10, <1>11

(* A flush appends to the list that the view holds.                         *)
LEMMA ViewedList ==
  ASSUME IInv, LayerInv, pc \in FlushPc, NEW a \in flush.todo
  PROVE  LET s == Written("address-sym")[a] IN
         /\ s \notin DOMAIN flush.ops["address-utxos"]
         /\ s \in DOMAIN View("address-utxos") <=> s \in DOMAIN db["address-utxos"]
         /\ s \in DOMAIN db["address-utxos"] =>
              View("address-utxos")[s] = db["address-utxos"][s]
  <1> DEFINE s == Written("address-sym")[a]
  <1>1. s \notin DOMAIN flush.ops["address-utxos"] /\ dbBatches["address-utxos"] = EmptyMap
    BY DEF LayerInv, RemovalPc, FlushPc
  <1> HIDE DEF s
  <1>2. View("address-utxos") = Overlay(db["address-utxos"], flush.ops["address-utxos"])
    BY <1>1, OverlayTwice DEF View, Written
  <1>3. /\ s \in DOMAIN View("address-utxos") <=> s \in DOMAIN db["address-utxos"]
        /\ s \in DOMAIN db["address-utxos"] => View("address-utxos")[s] = db["address-utxos"][s]
    BY <1>1, <1>2, OverlayKeys
  <1> QED
    BY <1>1, <1>3 DEF s

(* The step of a flush, as the lists see it.                                *)
LEMMA FlushedList ==
  ASSUME IInv, FreshInv, LayerInv, NEW to \in flush.todo, FlushList(to)
  PROVE  LET s    == Written("address-sym")[to]
             list == [coins |-> UtxoList(s).coins \o lastAddressUtxos[to], address |-> to]
         IN
         /\ UNCHANGED <<db, dbBatches, lastAddressUtxos, pc, lookups>> /\ pc \in FlushPc
         /\ flush'.todo = flush.todo \ {to}
         /\ flush'.ops["address-utxos"] = Put(flush.ops["address-utxos"], s, list)
         /\ \A t \in Tables \ {"address-utxos"} : flush'.ops[t] = flush.ops[t]
         /\ list.coins = UtxoList(s).coins \o lastAddressUtxos[to] /\ list # Deleted
         /\ to \in Addr /\ to \in DOMAIN Written("address-sym")
         /\ to \in DOMAIN lastAddressUtxos
         /\ s \in Nat /\ lastAddressUtxos[to] \in Seq(UtxoKey)
  <1> USE DEF IInv
  <1> DEFINE s    == Written("address-sym")[to]
             list == [coins |-> UtxoList(s).coins \o lastAddressUtxos[to], address |-> to]
  <1>1. pc \in FlushPc
    BY DEF FlushList
  <1>2. to \in DOMAIN Written("address-sym")
    BY <1>1 DEF LayerInv
  <1>3. AddressSymbol(to) = s
    BY <1>2, WrittenName
  <1>4. /\ to \in DOMAIN lastAddressUtxos /\ to \in Addr /\ s \in Nat
        /\ lastAddressUtxos[to] \in Seq(UtxoKey)
    <2>1. to \in DOMAIN lastAddressUtxos
      BY DEF TypeOK, FlushTypeOK
    <2>2. to \in Addr /\ AddressSymbol(to) \in Nat /\ lastAddressUtxos[to] \in Seq(UtxoKey)
      BY <2>1, ListedAddress DEF NamedInv
    <2> QED
      BY <1>3, <2>1, <2>2
  <1>5. list \in UtxoListRecord
    <2>1. UtxoList(s).coins \in Seq(UtxoKey)
      BY UtxoListType DEF UtxoListRecord
    <2>2. UtxoList(s).coins \o lastAddressUtxos[to] \in Seq(UtxoKey)
      BY <1>4, <2>1, ConcatProperties
    <2> QED
      BY <1>4, <2>2 DEF UtxoListRecord, OrNone
  <1>6. list # Deleted
    BY <1>5, SentinelsAreNoRecords
  <1>7. /\ UNCHANGED <<db, dbBatches, caches, worker, outside>>
        /\ flush' = [flush EXCEPT !.ops["address-utxos"] = Put(@, s, list), !.todo = @ \ {to}]
    BY <1>3 DEF FlushList
  <1> HIDE DEF list, s
  <1>8. /\ flush'.todo = flush.todo \ {to}
        /\ flush'.ops["address-utxos"] = Put(flush.ops["address-utxos"], s, list)
        /\ \A t \in Tables \ {"address-utxos"} : flush'.ops[t] = flush.ops[t]
    <2>1. flush = [ops |-> flush.ops, meta |-> flush.meta, todo |-> flush.todo]
          /\ DOMAIN flush.ops = Tables /\ "address-utxos" \in Tables
      BY DEF TypeOK, FlushTypeOK, BatchesType, Tables
    <2> QED
      BY <1>7, <2>1
  <1>9. UNCHANGED <<db, dbBatches, lastAddressUtxos, pc, lookups>>
    BY <1>7 DEF caches, worker, outside
  <1>10. list.coins = UtxoList(s).coins \o lastAddressUtxos[to]
    BY DEF list
  <1> QED
    BY <1>1, <1>2, <1>4, <1>6, <1>8, <1>9, <1>10 DEF list, s

LEMMA FlushedListed ==
  ASSUME ChainInv, SymbolInv, FreshInv, LayerInv, AllListed, [Next]_vars, pc' # "exited",
         NEW to \in flush.todo, FlushList(to)
  PROVE  AllListed'
  <1> USE DEF ChainInv, IInv
  <1> DEFINE s     == Written("address-sym")[to]
             new   == UtxoList(s).coins \o lastAddressUtxos[to]
             list  == [coins |-> new, address |-> to]
             names == Written("address-sym")
             lists == View("address-utxos")
  <1>1. /\ UNCHANGED <<db, dbBatches, lastAddressUtxos, pc>> /\ pc \in FlushPc
        /\ flush'.todo = flush.todo \ {to}
        /\ flush'.ops["address-utxos"] = Put(flush.ops["address-utxos"], s, list)
        /\ flush'.ops["address-sym"] = flush.ops["address-sym"]
        /\ list.coins = new /\ list # Deleted
        /\ to \in Addr /\ to \in DOMAIN names /\ to \in DOMAIN lastAddressUtxos
        /\ lastAddressUtxos[to] \in Seq(UtxoKey)
    BY FlushedList DEF Tables
  <1>2. /\ s \in DOMAIN lists <=> s \in DOMAIN db["address-utxos"]
        /\ s \in DOMAIN db["address-utxos"] => lists[s] = db["address-utxos"][s]
    BY <1>1, ViewedList
  <1>3. OneToOne(names)
    BY DEF NamesInv
  <1>4. Written("address-sym")' = names
    BY <1>1 DEF Written
  <1>5. dbBatches["address-utxos"] = EmptyMap
    BY <1>1 DEF LayerInv, RemovalPc, FlushPc
  <1>6. UtxoList(s).coins \in Seq(UtxoKey)
    BY UtxoListType DEF UtxoListRecord
  <1> HIDE DEF new, list
  <1>7. /\ \A x : x \in DOMAIN lists' <=> x = s \/ x \in DOMAIN lists
        /\ lists'[s] = list
        /\ \A x \in DOMAIN lists : x # s => lists'[x] = lists[x]
    <2>1. lists = Overlay(db["address-utxos"], flush.ops["address-utxos"])
      BY <1>5, OverlayTwice DEF View, Written
    <2>2. lists' = Overlay(db["address-utxos"], Put(flush.ops["address-utxos"], s, list))
      BY <1>1, <1>5, OverlayTwice DEF View, Written
    <2> HIDE DEF lists, s
    <2> QED
      BY <1>1, <2>1, <2>2, OverlayPut
  <1>8. CoinsUnder(names, lists, to) = UtxoList(s).coins
    BY <1>1, <1>2 DEF CoinsUnder, UtxoList, EmptyUtxoList
  <1>9. CoinsUnder(names, lists', to) = new
    BY <1>1, <1>7 DEF CoinsUnder
  <1>10. ASSUME NEW a \in PaidOnce, a # to
         PROVE  CoinsUnder(names, lists', a) = CoinsUnder(names, lists, a)
    <2>1. a \in DOMAIN names => names[a] # s
      BY <1>1, <1>3, <1>10 DEF OneToOne
    <2> QED
      BY <1>7, <2>1 DEF CoinsUnder
  <1> SUFFICES ASSUME NEW a \in PaidOnce
               PROVE  Lists(CoinsUnder(names, lists', a), Waiting(a)', Paid(a)')
    BY <1>4 DEF AllListed, Listing
  <1>11. Paid(a)' = Paid(a)
    <2>1. ~CreateOutput /\ ~RemoveOutput /\ ~Reboot
      BY <1>1 DEF CreateOutput, RemoveOutput, Reboot, FlushPc
    <2> QED
      BY <2>1, PaidKept
  <1>12. Lists(CoinsUnder(names, lists, a), Waiting(a), Paid(a))
    BY DEF AllListed, Listing
  <1>13. CASE a = to
    <2>1. Waiting(a) = lastAddressUtxos[to] /\ Waiting(a)' = <<>>
      BY <1>1, <1>13 DEF Waiting
    <2>2. Lists(new, <<>>, Paid(a))
      BY <1>1, <1>6, <1>8, <1>12, <1>13, <2>1, Appended DEF new
    <2> QED
      BY <1>9, <1>11, <1>13, <2>1, <2>2
  <1>14. CASE a # to
    <2>1. Waiting(a)' = Waiting(a)
      BY <1>1, <1>14 DEF Waiting
    <2> QED
      BY <1>10, <1>11, <1>12, <1>14, <2>1
  <1> QED
    BY <1>13, <1>14

LEMMA TakenListed ==
  ASSUME ChainInv, SymbolInv, FreshInv, OwnedInv, AllListed, [Next]_vars, FlushBegins
  PROVE  AllListed'
  <1> USE DEF ChainInv, IInv
  <1> DEFINE names == Written("address-sym")
             all   == View("address-sym")
             lists == View("address-utxos")
  <1>1. /\ names' = all /\ lists' = lists /\ pc \notin FlushPc /\ pc' \in FlushPc
        /\ lastAddressUtxos' = lastAddressUtxos
    BY Taken, TakenLayers, OutputsTaken DEF caches
  <1>2. flush'.todo = DOMAIN lastAddressUtxos
    BY DEF FlushBegins, FinishBlockAndFlush, BeginRemove, CommitRemove, SaveState, TakeBatches
  <1>3. pc' # "exited" /\ ~CreateOutput /\ ~RemoveOutput /\ ~Reboot
    BY <1>1 DEF CreateOutput, RemoveOutput, Reboot, FlushPc
  <1>4. \A a \in Batched : a \notin DOMAIN names
    <2>1. flush.ops["address-sym"] = EmptyMap
      BY <1>1 DEF FlushInv, NoFlush, NoBatches, Tables
    <2> QED
      BY <2>1, OverlayEmpty DEF Written, FreshInv, OnDisk
  <1>5. \A a \in DOMAIN names : a \in DOMAIN all /\ all[a] = names[a]
    BY <1>4, OverlayKeys, NamesStay DEF View, Batched
  <1>6. \A a, b \in DOMAIN all : all[a] = all[b] => a = b
    BY DEF NamesInv, AddressSymbolsUnique
  <1>7. \A s \in DOMAIN lists : \E a \in DOMAIN names : names[a] = s
    BY DEF OwnedInv, Owned
  <1>8. \A a \in DOMAIN all : a \notin DOMAIN names => all[a] \notin DOMAIN lists
    BY <1>5, <1>6, <1>7
  <1> SUFFICES ASSUME NEW a \in PaidOnce
               PROVE  Lists(CoinsUnder(all, lists, a), Waiting(a)', Paid(a)')
    BY <1>1 DEF AllListed, Listing
  <1>9. CoinsUnder(all, lists, a) = CoinsUnder(names, lists, a)
    BY <1>5, <1>8 DEF CoinsUnder
  <1>10. Waiting(a)' = Waiting(a)
    BY <1>1, <1>2 DEF Waiting
  <1>11. Paid(a)' = Paid(a)
    BY <1>3, PaidKept
  <1> QED
    BY <1>9, <1>10, <1>11 DEF AllListed, Listing

LEMMA WrittenListed ==
  ASSUME ChainInv, SymbolInv, AllListed, [Next]_vars, WriteBatches, ~Reboot
  PROVE  AllListed'
  <1> USE DEF ChainInv, IInv
  <1>1. /\ pc \in FlushPc /\ pc' \in {"idle", "untx"} /\ flush.todo = {}
        /\ lastAddressUtxos' = EmptyMap
    BY WrittenPlaces DEF WriteBatches
  <1>2. /\ Written("address-sym")' = Written("address-sym")
        /\ View("address-utxos")' = View("address-utxos")
    BY WrittenLayers DEF Tables
  <1>3. ~CreateOutput /\ ~RemoveOutput /\ pc' # "exited"
    BY <1>1 DEF CreateOutput, RemoveOutput, FlushPc
  <1>4. \A a \in PaidOnce : Listing(a)' = Listing(a)
    BY <1>2 DEF Listing
  <1>5. \A a \in PaidOnce : Waiting(a)' = Waiting(a)
    BY <1>1 DEF Waiting, EmptyMap
  <1>6. \A a \in PaidOnce : Paid(a)' = Paid(a)
    BY <1>3, PaidKept
  <1> QED
    BY <1>4, <1>5, <1>6 DEF AllListed

DbAllListed == \A a \in PaidOnce : Lists(DbListing(a), <<>>, DbPaid(a))

LEMMA RebootedListed ==
  ASSUME ChainInv, SymbolInv, UtxoInv, DbAllListed, Reboot
  PROVE  AllListed' /\ DbAllListed'
  <1>1. db' = db /\ pc' = "idle" /\ lastAddressUtxos' = EmptyMap
    BY DEF Reboot
  <1>2. DbAllListed'
    BY <1>1 DEF DbAllListed, DbListing, DbPaid
  <1>3. \A a \in PaidOnce : Waiting(a)' = <<>>
    BY <1>1 DEF Waiting, EmptyMap
  <1>4. \A a \in PaidOnce : Listing(a)' = DbListing(a)
    <2>1. /\ DOMAIN Written("address-sym")' = DOMAIN db["address-sym"]
          /\ \A k \in DOMAIN db["address-sym"] :
               Written("address-sym")'[k] = db["address-sym"][k]
          /\ DOMAIN View("address-utxos")' = DOMAIN db["address-utxos"]
          /\ \A k \in DOMAIN db["address-utxos"] :
               View("address-utxos")'[k] = db["address-utxos"][k]
      BY RebootedLayers DEF Tables
    <2> QED
      BY <2>1 DEF Listing, DbListing, CoinsUnder
  <1>5. \A a \in PaidOnce : Paid(a)' = DbPaid(a)
    <2>1. Created' = Outputs(DOMAIN View("tx-sym")')
      BY <1>1, BetweenAfter DEF Between, Complete, AddTxPc
    <2>2. /\ DOMAIN View("tx-sym")' = DOMAIN db["tx-sym"]
          /\ \A t \in DOMAIN db["tx-sym"] : View("tx-sym")'[t] = db["tx-sym"][t]
      BY <1>1, RebootedOutputs
    <2>3. \A o \in Outputs(DOMAIN db["tx-sym"]) :
            KeyIn(View("tx-sym")', o) = KeyIn(db["tx-sym"], o)
      BY <2>2 DEF Outputs, KeyIn
    <2> QED
      BY <2>1, <2>2, <2>3, SamePaid DEF Paid, DbPaid
  <1> QED
    BY <1>2, <1>3, <1>4, <1>5 DEF AllListed, DbAllListed

LEMMA StoredListed ==
  ASSUME ChainInv, SymbolInv, UtxoInv, LayerInv, AllListed, [Next]_vars, WriteBatches, ~Reboot
  PROVE  DbAllListed'
  <1> USE DEF ChainInv, IInv
  <1>1. /\ pc \in FlushPc /\ pc' \in {"idle", "untx"} /\ lastAddressUtxos' = EmptyMap
    BY WrittenPlaces DEF WriteBatches
  <1>2. AllListed'
    BY WrittenListed
  <1>3. /\ db'["address-sym"] = Written("address-sym")
        /\ Written("address-sym")' = Written("address-sym")
        /\ db'["address-utxos"] = Written("address-utxos")
        /\ View("address-utxos")' = View("address-utxos")
    BY WrittenLayers DEF Tables
  <1>4. dbBatches["address-utxos"] = EmptyMap
    BY <1>1 DEF LayerInv, RemovalPc, FlushPc
  <1>5. /\ DOMAIN View("address-utxos") = DOMAIN Written("address-utxos")
        /\ \A s \in DOMAIN Written("address-utxos") :
             View("address-utxos")[s] = Written("address-utxos")[s]
    BY <1>4, OverlayEmpty DEF View
  <1>6. \A a \in PaidOnce : Listing(a)' = DbListing(a)'
    BY <1>3, <1>5 DEF Listing, DbListing, CoinsUnder
  <1>7. \A a \in PaidOnce : Waiting(a)' = <<>>
    BY <1>1 DEF Waiting, EmptyMap
  <1>8. \A a \in PaidOnce : Paid(a)' = DbPaid(a)'
    <2>1. Created' = Outputs(DOMAIN View("tx-sym")')
      BY <1>1, BetweenAfter DEF Between, Complete, AddTxPc
    <2>2. /\ DOMAIN View("tx-sym")' = DOMAIN db'["tx-sym"]
          /\ \A t \in DOMAIN db'["tx-sym"] : View("tx-sym")'[t] = db'["tx-sym"][t]
      BY WrittenOutputs
    <2>3. \A o \in Outputs(DOMAIN db'["tx-sym"]) :
            KeyIn(View("tx-sym")', o) = KeyIn(db'["tx-sym"], o)
      BY <2>2 DEF Outputs, KeyIn
    <2> QED
      BY <2>1, <2>2, <2>3, SamePaid DEF Paid, DbPaid
  <1> QED
    BY <1>2, <1>6, <1>7, <1>8 DEF AllListed, DbAllListed

(* The address of a removed output has a written name: its list is         *)
(* rewritten from the one in the database.                                 *)
LEMMA RemovedFrom ==
  ASSUME ChainInv, SymbolInv, UtxoInv, FreshInv, UnlistedInv,
         [Next]_vars, RemoveOutput, AddressOf(CurrentOutput) # NoAddr
  PROVE  LET to == AddressOf(CurrentOutput)
             s  == Written("address-sym")[to]
         IN
         /\ to \in Addr /\ to \in DOMAIN Written("address-sym") /\ s \in Nat
         /\ dbBatches'["address-utxos"] =
              Put(dbBatches["address-utxos"], s,
                  [UtxoList(s) EXCEPT !.coins = Unlisted(@, KeyIn(View("tx-sym"), CurrentOutput))])
         /\ CurrentOutput \in
              Outputs({Txs[job.block][i] : i \in DOMAIN Txs[job.block]})
  <1> USE DEF ChainInv, IInv
  <1> DEFINE o     == CurrentOutput
             to    == AddressOf(o)
             names == Written("address-sym")
             s     == names[to]
             txs   == {Txs[job.block][i] : i \in DOMAIN Txs[job.block]}
  <1>1. /\ pc = "unlist" /\ HasOutput /\ UNCHANGED <<db, flush>>
    BY DEF RemoveOutput, database
  <1>2. HasTx /\ CurrentTx \in Tx /\ job.pos \in Nat \ {0}
    BY <1>1, JobTypes DEF WorkerInv
  <1>3. /\ to \in Addr \cup {NoAddr} /\ job.pos \in DOMAIN Vout[CurrentTx]
        /\ to = Vout[CurrentTx][job.pos]
    BY <1>1, <1>2, JobTypes DEF CurrentOutput, AddressOf
  <1>4. o \in Created /\ o \in Outputs(DOMAIN View("tx-sym"))
    BY RemoveOutputStep DEF Created
  <1>5. o \in Outputs(txs)
    <2>1. CurrentTx \in txs
      BY <1>2, CurrentPlace DEF CurrentTx
    <2> QED
      BY <1>2, <1>3, <2>1 DEF Outputs, Outpoint, CurrentOutput
  <1>6. /\ CurrentTx \in DOMAIN View("tx-sym") /\ CurrentTx \in DOMAIN db["tx-sym"]
        /\ TxSymbol(CurrentTx) = View("tx-sym")[CurrentTx]
    BY <1>1, <1>2, RemovedTx DEF SymbolInv, RemovalInv, RemovalPc
  <1>7. to \in OnDisk
    BY <1>3, <1>6 DEF NamedInv, Pays, OnDisk
  <1>8. to \in DOMAIN names /\ AddressSymbol(to) = s /\ to \in Addr
    BY <1>3, <1>7, StoredName, WrittenName
  <1>9. s \in Nat
    <2>1. AddressSymbol(to) \in OrNone(Nat) /\ AddressSymbol(to) # None
      BY <1>7, <1>8, SymbolTypes DEF Named, OnDisk
    <2> HIDE DEF s, to
    <2> QED
      BY <1>8, <2>1 DEF OrNone
  <1>10. KeyIn(View("tx-sym"), o) = <<TxSymbol(CurrentTx), job.pos>>
    BY <1>6 DEF KeyIn, CurrentOutput
  <1>11. dbBatches'["address-utxos"] =
           Put(dbBatches["address-utxos"], s,
               [UtxoList(s) EXCEPT !.coins = Unlisted(@, KeyIn(View("tx-sym"), o))])
    BY <1>3, <1>8, <1>10 DEF RemoveOutput, WithoutOutput, TypeOK, BatchesType, Tables
  <1> QED
    BY <1>5, <1>8, <1>9, <1>11

(* Of an address the block pays once, it has not been rewritten before.     *)
LEMMA RemovedFirst ==
  ASSUME ChainInv, SymbolInv, UtxoInv, FreshInv, UnlistedInv, RemovableInv,
         [Next]_vars, RemoveOutput, AddressOf(CurrentOutput) \in PaidOnce
  PROVE  LET s == Written("address-sym")[AddressOf(CurrentOutput)]
         IN
         /\ s \in DOMAIN View("address-utxos") <=> s \in DOMAIN db["address-utxos"]
         /\ s \in DOMAIN db["address-utxos"] =>
              View("address-utxos")[s] = db["address-utxos"][s]
  <1> USE DEF ChainInv, IInv
  <1> DEFINE o     == CurrentOutput
             to    == AddressOf(o)
             names == Written("address-sym")
             s     == names[to]
             txs   == {Txs[job.block][i] : i \in DOMAIN Txs[job.block]}
  <1>1. /\ pc = "unlist" /\ HasOutput /\ UNCHANGED <<db, flush>>
    BY DEF RemoveOutput, database
  <1>2. to \in Addr /\ to # NoAddr
    BY LedgerTypes DEF PaidOnce
  <1>3. o \in Created
    BY RemoveOutputStep
  <1>4. to \in DOMAIN names /\ o \in Outputs(txs)
    BY <1>2, RemovedFrom
  <1>5. s \notin DOMAIN dbBatches["address-utxos"]
    <2> SUFFICES ASSUME s \in DOMAIN dbBatches["address-utxos"]
                 PROVE  FALSE
      OBVIOUS
    <2>1. PICK e \in RemovedOutputs : AddressOf(e) \in DOMAIN names /\ names[AddressOf(e)] = s
      BY <1>1 DEF UnlistedInv, RemovalPc
    <2>2. AddressOf(e) = to
      BY <1>4, <2>1 DEF NamesInv, OneToOne
    <2>3. e \in Outputs(txs) /\ e # o
      BY <1>3 DEF RemovedOutputs
    <2>4. PaysTwice(job.block, to)
      BY <1>4, <2>2, <2>3 DEF PaysTwice
    <2>5. Removable(job.block) /\ job.block \in Block
      BY <1>1, JobTypes DEF RemovableInv, Undoing
    <2> QED
      BY <2>4, <2>5 DEF PaidOnce, Removable
  <1>6. /\ s \in DOMAIN View("address-utxos") <=> s \in DOMAIN db["address-utxos"]
        /\ s \in DOMAIN db["address-utxos"] => View("address-utxos")[s] = db["address-utxos"][s]
    <2>1. flush.ops["address-utxos"] = EmptyMap
      BY <1>1 DEF FlushInv, FlushPc, NoFlush, NoBatches, Tables
    <2>2. View("address-utxos") = Overlay(db["address-utxos"], dbBatches["address-utxos"])
      BY <2>1, OverlayTwice DEF View, Written
    <2> HIDE DEF s
    <2> QED
      BY <1>5, <2>2, OverlayKeys
  <1> QED
    BY <1>6

LEMMA RemovedListed ==
  ASSUME ChainInv, SymbolInv, UtxoInv, FreshInv, LayerInv, UnlistedInv, RemovableInv,
         AllListed, [Next]_vars, RemoveOutput
  PROVE  AllListed'
  <1> USE DEF ChainInv, IInv
  <1> DEFINE o     == CurrentOutput
             k     == KeyIn(View("tx-sym"), o)
             to    == AddressOf(o)
             names == Written("address-sym")
             lists == View("address-utxos")
             s     == names[to]
             list  == UtxoList(s).coins
             new   == Unlisted(list, k)
             row   == [UtxoList(s) EXCEPT !.coins = new]
  <1>1. /\ \A e : e \in Created' <=> e \in Created /\ e # o
        /\ o \in Created /\ View("tx-sym")' = View("tx-sym")
    BY RemoveOutputStep
  <1>2. /\ pc = "unlist" /\ pc' = "unlist" /\ HasOutput
        /\ UNCHANGED <<db, flush, lastAddressUtxos>>
        /\ to = NoAddr => dbBatches'["address-utxos"] = dbBatches["address-utxos"]
    BY DEF RemoveOutput, database, caches, TypeOK, BatchesType, Tables, AddressOf, CurrentOutput
  <1>3. names' = names
    BY <1>2 DEF Written
  <1>4. lastAddressUtxos = EmptyMap
    BY <1>2 DEF LayerInv, RemovalPc
  <1>5. \A a \in PaidOnce : Waiting(a) = <<>> /\ Waiting(a)' = <<>>
    BY <1>2, <1>4 DEF Waiting, EmptyMap
  <1>6. \A e \in Created : KeyIn(View("tx-sym"), e) = k => e = o
    BY <1>1, <1>2, KeysApart DEF Created
  <1>7. \A a : Paid(a)' = PaidTo(View("tx-sym"), Created', a)
    BY <1>1 DEF Paid
  <1>8. \A a : a # to => Paid(a)' = Paid(a)
    BY <1>1, <1>7 DEF Paid, PaidTo
  <1>9. CASE to = NoAddr
    <2>1. lists' = lists
      BY <1>2, <1>9 DEF View, Written
    <2>2. \A a \in PaidOnce : a # to
      BY <1>9, LedgerTypes DEF PaidOnce
    <2> QED
      BY <1>3, <1>5, <1>8, <2>1, <2>2 DEF AllListed, Listing
  <1>10. CASE to # NoAddr
    <2>1. /\ to \in Addr /\ to \in DOMAIN names
          /\ dbBatches'["address-utxos"] = Put(dbBatches["address-utxos"], s, row)
      BY <1>10, RemovedFrom
    <2>2. list \in Seq(UtxoKey) /\ UtxoList(s) \in UtxoListRecord
      BY UtxoListType DEF UtxoListRecord
    <2>3. new \in Seq(UtxoKey)
      BY <2>2, UnlistedType
    <2>4. row.coins = new /\ row # Deleted
      <3>1. row \in UtxoListRecord /\ row.coins = new
        BY <2>2, <2>3 DEF UtxoListRecord
      <3> QED
        BY <3>1, SentinelsAreNoRecords
    <2> HIDE DEF row, new, list
    <2>5. /\ \A x : x \in DOMAIN lists' <=> x = s \/ x \in DOMAIN lists
          /\ lists'[s] = row
          /\ \A x \in DOMAIN lists : x # s => lists'[x] = lists[x]
      <3>1. lists' = Overlay(Written("address-utxos"), Put(dbBatches["address-utxos"], s, row))
        BY <1>2, <2>1 DEF View, Written
      <3>2. lists = Overlay(Written("address-utxos"), dbBatches["address-utxos"])
        BY DEF View
      <3> HIDE DEF lists, s
      <3> QED
        BY <2>4, <3>1, <3>2, OverlayPut
    <2> SUFFICES ASSUME NEW a \in PaidOnce
                 PROVE  Lists(CoinsUnder(names, lists', a), Waiting(a)', Paid(a)')
      BY <1>3 DEF AllListed, Listing
    <2>6. CASE a = to
      <3>1. /\ s \in DOMAIN lists <=> s \in DOMAIN db["address-utxos"]
            /\ s \in DOMAIN db["address-utxos"] => lists[s] = db["address-utxos"][s]
        BY <2>6, RemovedFirst
      <3>2. CoinsUnder(names, lists, to) = list
        BY <2>1, <3>1 DEF CoinsUnder, UtxoList, EmptyUtxoList, list
      <3>3. Once(list) /\ Entries(list) = Paid(to)
        BY <1>5, <2>6, <3>2, NothingWaits DEF AllListed, Listing
      <3>4. k \in Paid(to)
        BY <1>1 DEF Paid, PaidTo
      <3>5. Once(new) /\ Entries(new) = Entries(list) \ {k}
        BY <2>2, <3>3, <3>4, WithoutEntry DEF new
      <3> DEFINE left == PaidTo(View("tx-sym"), Created', to)
      <3>6. left = Paid(to) \ {k}
        <4>1. ASSUME NEW e \in Created', AddressOf(e) = to
              PROVE  KeyIn(View("tx-sym"), e) \in Paid(to) \ {k}
          BY <1>1, <1>6, <4>1 DEF Paid, PaidTo
        <4>2. ASSUME NEW e \in Created, AddressOf(e) = to, KeyIn(View("tx-sym"), e) # k
              PROVE  KeyIn(View("tx-sym"), e) \in left
          BY <1>1, <4>2 DEF PaidTo
        <4> HIDE DEF k
        <4> QED
          BY <4>1, <4>2 DEF Paid, PaidTo
      <3> HIDE DEF left
      <3>7. Lists(new, <<>>, left)
        BY <3>3, <3>5, <3>6, NothingWaits
      <3>8. CoinsUnder(names, lists', to) = new
        BY <2>1, <2>4, <2>5 DEF CoinsUnder
      <3>9. Paid(a)' = left /\ Waiting(a)' = <<>>
        BY <1>5, <1>7, <2>6 DEF left
      <3> QED
        BY <2>6, <3>7, <3>8, <3>9
    <2>7. CASE a # to
      <3>1. a \in DOMAIN names => names[a] # s
        BY <2>1, <2>7 DEF NamesInv, OneToOne
      <3>2. CoinsUnder(names, lists', a) = CoinsUnder(names, lists, a)
        BY <2>5, <3>1 DEF CoinsUnder
      <3> QED
        BY <1>5, <1>8, <2>7, <3>2 DEF AllListed, Listing
    <2> QED
      BY <2>6, <2>7
  <1> QED
    BY <1>9, <1>10

LEMMA ListsStep ==
  ASSUME ChainInv, SymbolInv, UtxoInv, RemovableInv, CoinsInv, [Next]_vars
  PROVE  ListsInv'
  <1> USE DEF CoinsInv
  <1>1. DbAllListed /\ (pc # "exited" => AllListed)
    BY DEF ListsInv, DbAllListed, AllListed
  <1>2. CASE Reboot
    BY <1>1, <1>2, RebootedListed DEF ListsInv, DbAllListed, AllListed
  <1>3. CASE ~Reboot
    <2>1. DbAllListed'
      <3>1. CASE WriteBatches
        <4>1. pc # "exited"
          BY <3>1 DEF WriteBatches, FlushPc
        <4> QED
          BY <1>1, <1>3, <3>1, <4>1, StoredListed
      <3>2. CASE ~WriteBatches
        <4>1. db' = db
          BY <1>3, <3>2, StillSteps, QuietSteps, Taken DEF Still, Quiet, ChainInv, IInv
        <4> QED
          BY <1>1, <4>1 DEF DbAllListed, DbListing, DbPaid
      <3> QED
        BY <3>1, <3>2
    <2>2. ASSUME pc' # "exited"
          PROVE  AllListed'
      <3>1. AllListed
        BY <1>1, <1>3, <2>2, Running
      <3>2. CASE CreateOutput
        BY <3>1, <3>2, CreatedListed
      <3>3. CASE RemoveOutput
        BY <3>1, <3>3, RemovedListed
      <3>4. CASE \E a \in flush.todo : FlushList(a)
        BY <2>2, <3>1, <3>4, FlushedListed
      <3>5. CASE FlushBegins
        BY <3>1, <3>5, TakenListed
      <3>6. CASE WriteBatches
        BY <1>3, <3>1, <3>6, WrittenListed
      <3> QED
        BY <1>3, <2>2, <3>1, <3>2, <3>3, <3>4, <3>5, <3>6, StillListed DEF ListStep
    <2> QED
      BY <2>1, <2>2 DEF ListsInv, DbAllListed, AllListed
  <1> QED
    BY <1>2, <1>3

-----------------------------------------------------------------------------
(* The other parts of CoinsInv.                                             *)

LEMMA OwnedStep ==
  ASSUME ChainInv, SymbolInv, UtxoInv, RemovableInv, CoinsInv, [Next]_vars
  PROVE  OwnedInv'
  <1> USE DEF CoinsInv, ChainInv, IInv
  <1> DEFINE names == Written("address-sym")
             lists == View("address-utxos")
  <1>1. /\ \A s \in DOMAIN lists : \E a \in DOMAIN names : names[a] = s
        /\ Owned(db["address-sym"], db["address-utxos"])
    BY DEF OwnedInv, Owned
  <1>2. CASE Reboot
    <2>1. /\ DOMAIN names' = DOMAIN db["address-sym"] /\ db' = db
          /\ \A a \in DOMAIN db["address-sym"] : names'[a] = db["address-sym"][a]
          /\ DOMAIN lists' = DOMAIN db["address-utxos"]
      BY <1>2, RebootedLayers DEF Reboot, Tables
    <2> QED
      BY <1>1, <2>1 DEF OwnedInv, Owned
  <1>3. ASSUME ~Reboot, ~WriteBatches,
               DOMAIN names \subseteq DOMAIN names', \A a \in DOMAIN names : names'[a] = names[a],
               \A s \in DOMAIN lists' : s \in DOMAIN lists \/ \E a \in DOMAIN names : names[a] = s
        PROVE  OwnedInv'
    <2>1. db' = db
      BY <1>3, StillSteps, QuietSteps, Taken DEF Still, Quiet
    <2>2. Owned(names', lists')
      BY <1>1, <1>3 DEF Owned
    <2> QED
      BY <1>1, <2>1, <2>2 DEF OwnedInv
  <1>4. CASE WriteBatches
    <2>1. /\ db'["address-sym"] = names /\ names' = names /\ lists' = lists
          /\ db'["address-utxos"] = Written("address-utxos")
      BY <1>4, WrittenLayers DEF Tables
    <2>2. dbBatches["address-utxos"] = EmptyMap
      BY <1>4 DEF LayerInv, RemovalPc, FlushPc, WriteBatches
    <2>3. DOMAIN lists = DOMAIN Written("address-utxos")
      BY <2>2, OverlayEmpty DEF View
    <2> QED
      BY <1>1, <2>1, <2>3 DEF OwnedInv, Owned
  <1>5. CASE FlushBegins
    <2>1. names' = View("address-sym") /\ lists' = lists /\ pc \notin FlushPc /\ pc' \in FlushPc
      BY <1>5, Taken, TakenLayers, OutputsTaken
    <2>2. flush.ops["address-sym"] = EmptyMap
      BY <2>1 DEF FlushInv, NoFlush, NoBatches, Tables
    <2>3. \A a \in DOMAIN names : a \notin Batched
      BY <2>2, OverlayEmpty DEF Written, FreshInv, OnDisk
    <2>4. \A a \in DOMAIN names : a \in DOMAIN names' /\ names'[a] = names[a]
      BY <2>1, <2>3, OverlayKeys, NamesStay DEF View, Batched
    <2>5. ~Reboot /\ ~WriteBatches
      BY <2>1 DEF Reboot, WriteBatches, FlushPc
    <2> QED
      BY <1>3, <2>1, <2>4, <2>5
  <1>6. ASSUME NEW a \in flush.todo, FlushList(a)
        PROVE  OwnedInv'
    <2> DEFINE s    == names[a]
               list == [coins |-> UtxoList(s).coins \o lastAddressUtxos[a], address |-> a]
    <2>1. /\ UNCHANGED <<db, dbBatches, pc>> /\ pc \in FlushPc
          /\ flush'.ops["address-utxos"] = Put(flush.ops["address-utxos"], s, list)
          /\ flush'.ops["address-sym"] = flush.ops["address-sym"] /\ list # Deleted
          /\ a \in DOMAIN names
      BY <1>6, FlushedList DEF Tables
    <2>2. names' = names
      BY <2>1 DEF Written
    <2>3. dbBatches["address-utxos"] = EmptyMap
      BY <2>1 DEF LayerInv, RemovalPc, FlushPc
    <2>4. lists' = Overlay(db["address-utxos"], Put(flush.ops["address-utxos"], s, list))
      BY <2>1, <2>3, OverlayTwice DEF View, Written
    <2>5. lists = Overlay(db["address-utxos"], flush.ops["address-utxos"])
      BY <2>3, OverlayTwice DEF View, Written
    <2> HIDE DEF list
    <2>6. \A x \in DOMAIN lists' : x = s \/ x \in DOMAIN lists
      BY <2>1, <2>4, <2>5, OverlayPut
    <2>7. ~Reboot /\ ~WriteBatches
      BY <1>6, <2>1 DEF Reboot, WriteBatches, FlushPc
    <2> QED
      BY <1>3, <2>1, <2>2, <2>6, <2>7
  <1>7. CASE RemoveOutput
    <2>1. /\ UNCHANGED <<db, flush>> /\ pc = "unlist" /\ pc' = "unlist"
          /\ AddressOf(CurrentOutput) = NoAddr =>
               dbBatches'["address-utxos"] = dbBatches["address-utxos"]
      BY <1>7 DEF RemoveOutput, database, TypeOK, BatchesType, Tables, AddressOf, CurrentOutput
    <2>2. names' = names
      BY <2>1 DEF Written
    <2>3. ~Reboot /\ ~WriteBatches
      BY <2>1 DEF Reboot, WriteBatches, FlushPc
    <2>4. CASE AddressOf(CurrentOutput) = NoAddr
      <3>1. lists' = lists
        BY <2>1, <2>4 DEF View, Written
      <3> QED
        BY <1>3, <2>2, <2>3, <3>1
    <2>5. CASE AddressOf(CurrentOutput) # NoAddr
      <3> DEFINE s == names[AddressOf(CurrentOutput)]
      <3>1. /\ AddressOf(CurrentOutput) \in DOMAIN names
            /\ \E list : dbBatches'["address-utxos"] = Put(dbBatches["address-utxos"], s, list)
        BY <1>7, <2>5, RemovedFrom
      <3>2. PICK list : dbBatches'["address-utxos"] = Put(dbBatches["address-utxos"], s, list)
        BY <3>1
      <3>3. \A x \in DOMAIN dbBatches'["address-utxos"] : x = s \/ x \in DOMAIN dbBatches["address-utxos"]
        BY <3>2 DEF Put, Merge
      <3>5. \A x \in DOMAIN lists' : x = s \/ x \in DOMAIN lists
        <4>1. \A x \in DOMAIN dbBatches["address-utxos"] :
                dbBatches["address-utxos"][x] # Deleted
          BY SentinelsAreNoRecords DEF TypeOK, BatchesType, IsMap
        <4>2. lists' = Overlay(Written("address-utxos"), dbBatches'["address-utxos"])
          BY <2>1 DEF View, Written
        <4>3. lists = Overlay(Written("address-utxos"), dbBatches["address-utxos"])
          BY DEF View
        <4> HIDE DEF s
        <4> QED
          BY <3>3, <4>1, <4>2, <4>3, OverlayKeys
      <3> QED
        BY <1>3, <2>2, <2>3, <3>1, <3>5
    <2> QED
      BY <2>4, <2>5
  <1>8. CASE CreateOutput
    <2>1. /\ UNCHANGED <<db, flush>> /\ dbBatches'["address-utxos"] = dbBatches["address-utxos"]
          /\ pc = "outputs" /\ pc' = "outputs"
      BY <1>8 DEF CreateOutput, database, TypeOK, BatchesType, Tables
    <2>2. names' = names /\ lists' = lists
      BY <2>1 DEF View, Written
    <2>3. ~Reboot /\ ~WriteBatches
      BY <2>1 DEF Reboot, WriteBatches, FlushPc
    <2> QED
      BY <1>3, <2>2, <2>3
  <1>9. CASE ~ListStep
    <2>1. names' = names /\ lists' = lists
      BY <1>9, ListsKept DEF ListsStill, View, Written
    <2> QED
      BY <1>3, <1>9, <2>1 DEF ListStep
  <1> QED
    BY <1>2, <1>4, <1>5, <1>6, <1>7, <1>8, <1>9 DEF ListStep

LEMMA LayerStep ==
  ASSUME ChainInv, SymbolInv, FreshInv, LayerInv, [Next]_vars
  PROVE  LayerInv'
  <1> USE DEF ChainInv, IInv
  <1>1. CASE Reboot
    <2>1. /\ pc' = "idle" /\ dbBatches'["address-utxos"] = EmptyMap
      BY <1>1 DEF Reboot, NoBatches, Tables
    <2> QED
      BY <2>1 DEF LayerInv, RemovalPc, FlushPc
  <1>2. CASE WriteBatches
    <2>1. /\ pc \in FlushPc /\ pc' \notin FlushPc /\ dbBatches' = dbBatches
          /\ lastAddressUtxos' = EmptyMap
      BY <1>2 DEF WriteBatches, FlushPc
    <2>2. dbBatches["address-utxos"] = EmptyMap
      BY <2>1 DEF LayerInv, RemovalPc, FlushPc
    <2> QED
      BY <2>1, <2>2 DEF LayerInv, FlushPc
  <1>3. CASE FlushBegins
    <2>1. /\ dbBatches' = NoBatches /\ pc' \in FlushPc /\ pc \notin FlushPc
          /\ lastAddressUtxos' = lastAddressUtxos /\ pc # "exited"
          /\ pc' = "secondFlush" <=> pc = "untx"
      BY <1>3, Taken DEF caches
    <2>2. /\ flush'.todo = DOMAIN lastAddressUtxos
      BY <1>3
         DEF FlushBegins, FinishBlockAndFlush, BeginRemove, CommitRemove, SaveState, TakeBatches
    <2>3. /\ Written("address-sym")' = View("address-sym")
          /\ flush'.ops["address-utxos"] = dbBatches["address-utxos"]
      BY <1>3, TakenLayers, OutputsTaken
    <2>4. ASSUME NEW a \in DOMAIN lastAddressUtxos
          PROVE  a \in DOMAIN View("address-sym")
      <3>1. a \in Named
        BY <2>4 DEF NamedInv
      <3> QED
        BY <3>1, NamesStay DEF Named, CacheInv
    <2>5. ASSUME lastAddressUtxos # EmptyMap
          PROVE  dbBatches["address-utxos"] = EmptyMap
      BY <2>1, <2>5 DEF LayerInv
    <2>6. pc = "untx" => lastAddressUtxos = EmptyMap
      BY DEF LayerInv, RemovalPc
    <2>7. \A a \in DOMAIN lastAddressUtxos : dbBatches["address-utxos"] = EmptyMap
      BY <2>5 DEF EmptyMap
    <2>8. dbBatches'["sym-tx"] = EmptyMap /\ dbBatches'["address-utxos"] = EmptyMap
      BY <2>1 DEF NoBatches, Tables
    <2>9. \A a \in flush'.todo :
            /\ a \in DOMAIN Written("address-sym")'
            /\ Written("address-sym")'[a] \notin DOMAIN flush'.ops["address-utxos"]
      BY <2>2, <2>3, <2>4, <2>7 DEF EmptyMap
    <2>10. pc' \in RemovalPc \cup {"secondFlush"} => lastAddressUtxos' = EmptyMap
      BY <2>1, <2>6 DEF RemovalPc, FlushPc
    <2> QED
      BY <2>8, <2>9, <2>10 DEF LayerInv
  <1>4. ASSUME NEW to \in flush.todo, FlushList(to)
        PROVE  LayerInv'
    <2> DEFINE s    == Written("address-sym")[to]
               list == [coins |-> UtxoList(s).coins \o lastAddressUtxos[to], address |-> to]
    <2>1. /\ UNCHANGED <<db, dbBatches, lastAddressUtxos, pc>> /\ pc \in FlushPc
          /\ flush'.todo = flush.todo \ {to} /\ to \in DOMAIN Written("address-sym")
          /\ flush'.ops["address-utxos"] = Put(flush.ops["address-utxos"], s, list)
          /\ flush'.ops["address-sym"] = flush.ops["address-sym"]
      BY <1>4, FlushedList DEF Tables
    <2> HIDE DEF list
    <2>2. Written("address-sym")' = Written("address-sym")
      BY <2>1 DEF Written
    <2>3. \A x \in DOMAIN flush'.ops["address-utxos"] : x = s \/ x \in DOMAIN flush.ops["address-utxos"]
      BY <2>1 DEF Put, Merge
    <2>4. ASSUME NEW a \in flush'.todo
          PROVE  /\ a \in DOMAIN Written("address-sym")
                 /\ Written("address-sym")[a] \notin DOMAIN flush'.ops["address-utxos"]
      <3>1. /\ a # to /\ a \in DOMAIN Written("address-sym")
            /\ Written("address-sym")[a] \notin DOMAIN flush.ops["address-utxos"]
        BY <2>1, <2>4 DEF LayerInv
      <3>2. Written("address-sym")[a] # s
        BY <2>1, <3>1 DEF NamesInv, OneToOne
      <3> QED
        BY <2>3, <3>1, <3>2
    <2>5. dbBatches["sym-tx"] = EmptyMap
      BY <2>1 DEF LayerInv
    <2> QED
      BY <2>1, <2>2, <2>4, <2>5 DEF LayerInv
  <1>5. CASE RemoveOutput
    <2>1. pc = "unlist" /\ pc' = "unlist" /\ lastAddressUtxos' = lastAddressUtxos
      BY <1>5 DEF RemoveOutput, caches
    <2> QED
      BY <2>1 DEF LayerInv, RemovalPc, FlushPc
  <1>6. CASE CreateOutput
    <2>1. /\ pc = "outputs" /\ pc' = "outputs"
          /\ dbBatches'["address-utxos"] = dbBatches["address-utxos"]
      BY <1>6 DEF CreateOutput, TypeOK, BatchesType, Tables
    <2> QED
      BY <2>1 DEF LayerInv, RemovalPc, FlushPc
  <1>7. CASE ~ListStep
    <2>1. ListsStill
      BY <1>7, ListsKept
    <2>2. AddTx => pc = "tx" /\ pc' = "inputs"
      BY DEF AddTx
    <2>3. Written("address-sym")' = Written("address-sym")
      BY <2>1 DEF ListsStill, Written
    <2>4. pc' \notin RemovalPc \cup {"exited"} => dbBatches'["address-utxos"] = EmptyMap
      BY <2>1 DEF ListsStill, LayerInv
    <2>5. pc' \in RemovalPc \cup {"secondFlush"} => lastAddressUtxos' = EmptyMap
      BY <2>1 DEF ListsStill, LayerInv
    <2>6. ASSUME pc' \in FlushPc
          PROVE  /\ dbBatches'["sym-tx"] = EmptyMap
                 /\ \A a \in flush'.todo :
                      /\ a \in DOMAIN Written("address-sym")'
                      /\ Written("address-sym")'[a] \notin DOMAIN flush'.ops["address-utxos"]
      BY <2>1, <2>2, <2>3, <2>6 DEF ListsStill, LayerInv, FlushPc
    <2> QED
      BY <2>4, <2>5, <2>6 DEF LayerInv
  <1> QED
    BY <1>1, <1>2, <1>3, <1>4, <1>5, <1>6, <1>7 DEF ListStep

LEMMA UnlistedStep ==
  ASSUME ChainInv, SymbolInv, UtxoInv, RemovableInv, CoinsInv, [Next]_vars
  PROVE  UnlistedInv'
  <1> USE DEF CoinsInv
  <1> SUFFICES ASSUME pc' \in RemovalPc
               PROVE  \A s \in DOMAIN dbBatches'["address-utxos"] : \E o \in RemovedOutputs' :
                        /\ AddressOf(o) \in DOMAIN Written("address-sym")'
                        /\ Written("address-sym")'[AddressOf(o)] = s
    BY DEF UnlistedInv
  <1>1. CASE WriteBatches
    <2>1. dbBatches' = dbBatches /\ pc \in FlushPc
      BY <1>1 DEF WriteBatches
    <2>2. dbBatches'["address-utxos"] = EmptyMap
      BY <2>1 DEF LayerInv, RemovalPc, FlushPc
    <2> QED
      BY <2>2 DEF EmptyMap
  <1>2. CASE ~WriteBatches
    <2>1. pc \in RemovalPc /\ job'.block = job.block /\ db' = db
      BY <1>2, RemovalKeeps
    <2>2. pc' \notin FlushPc \cup {"exited", "idle"}
      BY DEF RemovalPc, FlushPc
    <2>3. ~Reboot /\ ~FlushBegins /\ ~CreateOutput /\ \A a \in flush.todo : ~FlushList(a)
      <3>1. ~FlushBegins
        BY <2>2, Taken DEF ChainInv, IInv
      <3> QED
        BY <2>1, <2>2, <3>1 DEF Reboot, CreateOutput, FlushList, RemovalPc, FlushPc
    <2>4. flush' = flush
      <3>1. CASE RemoveOutput
        BY <3>1 DEF RemoveOutput, database
      <3>2. CASE ~RemoveOutput
        BY <1>2, <2>3, <3>2, ListsKept DEF ListStep, ListsStill, ChainInv, IInv
      <3> QED
        BY <3>1, <3>2
    <2>5. Written("address-sym")' = Written("address-sym")
      BY <2>1, <2>4 DEF Written
    <2>6. \A s \in DOMAIN dbBatches["address-utxos"] : \E o \in RemovedOutputs :
            /\ AddressOf(o) \in DOMAIN Written("address-sym")
            /\ Written("address-sym")[AddressOf(o)] = s
      BY <2>1 DEF UnlistedInv
    <2>7. CASE RemoveOutput
      <3>1. \A o : o \in Created' <=> o \in Created /\ o # CurrentOutput
        BY <2>7, RemoveOutputStep
      <3>2. \A o \in RemovedOutputs : o \in RemovedOutputs'
        BY <2>1, <3>1 DEF RemovedOutputs
      <3>3. CASE AddressOf(CurrentOutput) = NoAddr
        <4>1. dbBatches'["address-utxos"] = dbBatches["address-utxos"]
          BY <2>7, <3>3 DEF RemoveOutput, ChainInv, IInv, TypeOK, BatchesType, Tables, AddressOf,
                            CurrentOutput
        <4> QED
          BY <2>5, <2>6, <3>2, <4>1
      <3>4. CASE AddressOf(CurrentOutput) # NoAddr
        <4> DEFINE s == Written("address-sym")[AddressOf(CurrentOutput)]
        <4>1. /\ AddressOf(CurrentOutput) \in DOMAIN Written("address-sym")
              /\ \E list : dbBatches'["address-utxos"] = Put(dbBatches["address-utxos"], s, list)
              /\ CurrentOutput \in Outputs({Txs[job.block][i] : i \in DOMAIN Txs[job.block]})
          BY <2>7, <3>4, RemovedFrom
        <4>2. CurrentOutput \in RemovedOutputs'
          BY <2>1, <3>1, <4>1 DEF RemovedOutputs
        <4>3. \A x \in DOMAIN dbBatches'["address-utxos"] :
                x = s \/ x \in DOMAIN dbBatches["address-utxos"]
          BY <4>1 DEF Put, Merge
        <4> QED
          BY <2>5, <2>6, <3>2, <4>1, <4>2, <4>3
      <3> QED
        BY <3>3, <3>4
    <2>8. CASE ~RemoveOutput
      <3>1. dbBatches'["address-utxos"] = dbBatches["address-utxos"]
        BY <1>2, <2>3, <2>8, ListsKept DEF ListStep, ListsStill, ChainInv, IInv
      <3>2. Created' = Created
        BY <2>2, <2>3, <2>8, CreatedKept
      <3>3. RemovedOutputs' = RemovedOutputs
        BY <2>1, <3>2 DEF RemovedOutputs
      <3> QED
        BY <2>5, <2>6, <3>1, <3>3
    <2> QED
      BY <2>7, <2>8
  <1> QED
    BY <1>1, <1>2

LEMMA BackStep ==
  ASSUME ChainInv, SymbolInv, LayerInv, BackInv, [Next]_vars
  PROVE  BackInv'
  <1> USE DEF ChainInv, IInv
  <1> DEFINE there == View("tx-sym")
             back  == View("sym-tx")
  <1>1. CASE Reboot
    <2>1. /\ DOMAIN there' = DOMAIN db["tx-sym"] /\ db' = db
          /\ \A t \in DOMAIN db["tx-sym"] : there'[t] = db["tx-sym"][t]
          /\ DOMAIN back' = DOMAIN db["sym-tx"]
          /\ \A s \in DOMAIN db["sym-tx"] : back'[s] = db["sym-tx"][s]
      BY <1>1, RebootedLayers DEF Reboot, Tables
    <2> QED
      BY <2>1 DEF BackInv, Back
  <1>2. CASE WriteBatches
    <2>1. /\ there' = there /\ back' = back /\ db'["sym-tx"] = Written("sym-tx")
          /\ DOMAIN there = DOMAIN db'["tx-sym"]
          /\ \A k \in DOMAIN db'["tx-sym"] : there[k] = db'["tx-sym"][k]
      BY <1>2, WrittenLayers DEF Tables, BlockTables
    <2>2. pc \in FlushPc /\ pc # "exited"
      BY <1>2 DEF WriteBatches, FlushPc
    <2>3. dbBatches["sym-tx"] = EmptyMap
      BY <2>2 DEF LayerInv
    <2>4. /\ DOMAIN back = DOMAIN db'["sym-tx"]
          /\ \A k \in DOMAIN db'["sym-tx"] : back[k] = db'["sym-tx"][k]
      BY <2>1, <2>3, OverlayEmpty DEF View
    <2> QED
      BY <2>1, <2>2, <2>4 DEF BackInv, Back
  <1>3. ASSUME ~Reboot, ~WriteBatches, pc' # "exited" => Back(there', back')
        PROVE  BackInv'
    <2>1. db' = db
      BY <1>3, StillSteps, QuietSteps, Taken DEF Still, Quiet
    <2> QED
      BY <1>3, <2>1 DEF BackInv
  <1>4. CASE FlushBegins
    <2>1. /\ db' = db /\ dbBatches' = NoBatches /\ pc \notin FlushPc /\ pc # "exited"
          /\ there' = there /\ pc' \in FlushPc
      BY <1>4, Taken, TakenLayers
    <2>2. flush'.ops["sym-tx"] = dbBatches["sym-tx"]
      <3>1. CASE FinishBlockAndFlush \/ BeginRemove \/ SaveState
        BY <3>1 DEF FinishBlockAndFlush, BeginRemove, SaveState, TakeBatches
      <3>2. CASE CommitRemove
        <4> DEFINE batches == [dbBatches EXCEPT !["block-sym"] = Put(@, job.block, Deleted)]
        <4>1. TakeBatches(batches, bestBlockHash', lastBlockSymbol', lastTxSymbol')
          BY <3>2 DEF CommitRemove
        <4>2. batches["sym-tx"] = dbBatches["sym-tx"]
          BY DEF TypeOK, BatchesType, Tables
        <4> HIDE DEF batches
        <4> QED
          BY <4>1, <4>2 DEF TakeBatches
      <3> QED
        BY <1>4, <3>1, <3>2 DEF FlushBegins
    <2>3. flush.ops["sym-tx"] = EmptyMap /\ dbBatches'["sym-tx"] = EmptyMap
      BY <2>1 DEF FlushInv, NoFlush, NoBatches, Tables
    <2>4. back = Overlay(db["sym-tx"], dbBatches["sym-tx"])
      BY <2>3, OverlayTwice DEF View, Written
    <2>5. Written("sym-tx")' = Overlay(db["sym-tx"], dbBatches["sym-tx"])
      BY <2>1, <2>2 DEF Written
    <2>6. back' = back
      BY <2>3, <2>4, <2>5, OverlayTwice DEF View
    <2>7. ~Reboot /\ ~WriteBatches
      BY <2>1 DEF Reboot, WriteBatches, FlushPc
    <2> QED
      BY <1>3, <2>1, <2>6, <2>7 DEF BackInv
  <1>5. CASE AddTx
    <2>1. /\ pc = "tx" /\ pc' = "inputs" /\ UNCHANGED <<db, flush>>
          /\ dbBatches'["sym-tx"] = Put(dbBatches["sym-tx"], lastTxSymbol + 1, CurrentTx)
          /\ HasTx
      BY <1>5 DEF AddTx, database, TypeOK, BatchesType, Tables
    <2>2. /\ \A t : t \in DOMAIN there' <=> t = CurrentTx \/ t \in DOMAIN there
          /\ there'[CurrentTx] = lastTxSymbol + 1 /\ CurrentTx \notin DOMAIN there
          /\ \A t \in DOMAIN there : there'[t] = there[t]
      BY <1>5, AddTxMined
    <2>3. \A t \in DOMAIN there : there[t] # lastTxSymbol + 1
      <3>1. \A t \in DOMAIN there : there[t] \in Int /\ there[t] <= lastTxSymbol
        BY SymbolsView DEF SymbolInv, TxSymbolsUnique, IsMap, Symbol
      <3>2. lastTxSymbol \in Int
        BY DEF TypeOK, FieldTypeOK
      <3> HIDE DEF there
      <3> QED
        BY <3>1, <3>2
    <2>4. CurrentTx \in Tx /\ CurrentTx # Deleted
      BY <2>1, JobTypes, SentinelsAreNoValues
    <2>5. /\ back'[lastTxSymbol + 1] = CurrentTx /\ lastTxSymbol + 1 \in DOMAIN back'
          /\ \A s \in DOMAIN back : s \in DOMAIN back'
          /\ \A s \in DOMAIN back : s # lastTxSymbol + 1 => back'[s] = back[s]
      <3>1. back' = Overlay(Written("sym-tx"), Put(dbBatches["sym-tx"], lastTxSymbol + 1, CurrentTx))
        BY <2>1 DEF View, Written
      <3>2. back = Overlay(Written("sym-tx"), dbBatches["sym-tx"])
        BY DEF View
      <3> HIDE DEF back
      <3> QED
        BY <2>4, <3>1, <3>2, OverlayPut
    <2>6. \A t \in DOMAIN there : there[t] \in DOMAIN back /\ back[there[t]] = t
      BY <2>1 DEF BackInv, Back
    <2> HIDE DEF there, back
    <2>7. Back(there', back')
      BY <2>2, <2>3, <2>5, <2>6 DEF Back
    <2>8. ~Reboot /\ ~WriteBatches
      BY <2>1 DEF Reboot, WriteBatches, FlushPc
    <2> QED
      BY <1>3, <2>7, <2>8
  <1>6. ASSUME ~Reboot, ~WriteBatches, ~FlushBegins, ~AddTx, pc' # "exited"
        PROVE  Back(there', back')
    <2>1. pc # "exited"
      BY <1>6, Running
    <2>2. back' = back
      <3>1. CASE ~ListStep
        BY <1>6, <3>1, ListsKept DEF ListsStill, View, Written
      <3>2. CASE CreateOutput \/ RemoveOutput
        <4>1. UNCHANGED <<db, flush>> /\ dbBatches'["sym-tx"] = dbBatches["sym-tx"]
          BY <3>2 DEF CreateOutput, RemoveOutput, database, TypeOK, BatchesType, Tables
        <4> QED
          BY <4>1 DEF View, Written
      <3>3. ASSUME NEW a \in flush.todo, FlushList(a)
            PROVE  back' = back
        <4>1. /\ UNCHANGED <<db, dbBatches>>
              /\ \E list : flush' = [flush EXCEPT !.ops["address-utxos"] = list, !.todo = @ \ {a}]
          BY <3>3 DEF FlushList
        <4>2. flush'.ops["sym-tx"] = flush.ops["sym-tx"]
          BY <4>1 DEF TypeOK, FlushTypeOK, BatchesType, Tables
        <4> QED
          BY <4>1, <4>2 DEF View, Written
      <3> QED
        BY <1>6, <3>1, <3>2, <3>3 DEF ListStep
    <2>3. \A t \in DOMAIN there' : t \in DOMAIN there /\ there'[t] = there[t]
      <3>1. CASE RemoveTxSymbol
        BY <3>1, RemoveTxMined
      <3>2. CASE ~RemoveTxSymbol
        BY <1>6, <3>2, TxTablesKept DEF TxStep
      <3> QED
        BY <3>1, <3>2
    <2> QED
      BY <2>1, <2>2, <2>3 DEF BackInv, Back
  <1> QED
    BY <1>1, <1>2, <1>3, <1>4, <1>5, <1>6

LEMMA InitCoins == Init => RemovableInv /\ CoinsInv
  <1> SUFFICES ASSUME Init
               PROVE  RemovableInv /\ CoinsInv
    OBVIOUS
  <1>1. /\ pc = "idle" /\ lastAddressUtxos = EmptyMap /\ lookups = {}
        /\ \A t \in Tables : db[t] = EmptyMap /\ dbBatches[t] = EmptyMap
    BY DEF Init, NoBatches
  <1>2. \A t \in Tables : Written(t) = Overlay(EmptyMap, EmptyMap)
                          /\ View(t) = Overlay(Overlay(EmptyMap, EmptyMap), EmptyMap)
    BY <1>1 DEF Init, View, Written, NoFlush, NoBatches
  <1>3. \A t \in Tables : DOMAIN db[t] = {} /\ DOMAIN Written(t) = {} /\ DOMAIN View(t) = {}
    BY <1>1, <1>2, OverlayEmpty DEF EmptyMap
  <1>4. RemovableInv
    BY InitOrphans
  <1>5. FreshInv
    BY <1>1 DEF FreshInv, Batched, OnDisk, Tables, EmptyMap, FlushPc
  <1>6. ListsInv
    <2>1. Outputs({}) = {} /\ Created = {}
      BY <1>3 DEF Outputs, Created, Tables
    <2>2. \A a : DbPaid(a) = {} /\ Paid(a) = {}
      BY <1>3, <2>1 DEF DbPaid, Paid, PaidTo, Tables
    <2>3. \A a : DbListing(a) = <<>> /\ Listing(a) = <<>> /\ Waiting(a) = <<>>
      BY <1>1, <1>3 DEF DbListing, Listing, Waiting, CoinsUnder, Tables, EmptyMap
    <2>4. Lists(<<>>, <<>>, {})
      BY DEF Lists, Once, Entries
    <2> QED
      BY <2>2, <2>3, <2>4 DEF ListsInv
  <1>7. OwnedInv
    BY <1>3 DEF OwnedInv, Owned, Tables
  <1>8. LayerInv
    BY <1>1 DEF LayerInv, RemovalPc, FlushPc, Tables
  <1>9. UnlistedInv
    BY <1>1 DEF UnlistedInv, RemovalPc
  <1>10. BackInv
    BY <1>3 DEF BackInv, Back, Tables
  <1> QED
    BY <1>4, <1>5, <1>6, <1>7, <1>8, <1>9, <1>10 DEF CoinsInv

LEMMA CoinsStep ==
  ASSUME ChainInv, SymbolInv, UtxoInv, RemovableInv, CoinsInv,
         [Next]_vars, [NamesKeepClear]_vars, [TakesBack]_vars
  PROVE  (RemovableInv /\ CoinsInv)'
  <1>1. RemovableInv'
    BY RemovableStep
  <1>2. FreshInv'
    BY FreshStep DEF CoinsInv, ChainInv, IInv
  <1>3. LayerInv' /\ BackInv'
    BY LayerStep, BackStep DEF CoinsInv
  <1> QED
    BY <1>1, <1>2, <1>3, ListsStep, OwnedStep, UnlistedStep DEF CoinsInv

(* The inductive invariant: the lists of the database, and those that       *)
(* memory and a flush under way will make of them, hold the outputs of the *)
(* chain they stand for, each once and each under its address's own name.  *)
THEOREM ListsFollowTheChain ==
  Spec /\ [][Orderly]_vars /\ [][TakesBack]_vars => [](RemovableInv /\ CoinsInv)
  <1>1. ChainInv /\ SymbolInv /\ UtxoInv /\ RemovableInv /\ CoinsInv /\ [Next]_vars
          /\ [NamesKeepClear]_vars /\ [TakesBack]_vars => (RemovableInv /\ CoinsInv)'
    BY CoinsStep
  <1>2. Spec /\ [][EventsInOrder]_vars => [](ChainInv /\ SymbolInv /\ UtxoInv)
    BY OutputsFollowTheChain
  <1>3. [Orderly]_vars => [EventsInOrder]_vars /\ [NamesKeepClear]_vars
    BY DEF Orderly
  <1> QED
    BY <1>1, <1>2, <1>3, InitCoins, PTL DEF Spec

-----------------------------------------------------------------------------
(* The stored chain up to a height, as the ledger reads it.                 *)

LEMMA BlocksUpTo ==
  ASSUME ChainInv, NEW h \in Nat \cup {-1}, h <= DbHeight
  PROVE  BlocksIn(Prefix(DbChain, h)) = {b \in DOMAIN db["block-sym"] : Height[b] <= h}
  <1> USE DEF ChainInv, IInv
  <1> DEFINE blocks == db["sym-block"]
             known  == DOMAIN db["block-sym"]
             chain  == DbChain
             prefix == Prefix(chain, h)
  <1>1. /\ DbHeight \in Nat \cup {-1} /\ chain \in Seq(Block) /\ Len(chain) = DbHeight + 1
        /\ \A i \in 1 .. DbHeight + 1 : chain[i] = blocks[i - 1]
    BY DbChainType
  <1>2. /\ \A b \in known : Height[b] \in 0 .. DbHeight /\ blocks[Height[b]] = b
        /\ \A n \in 0 .. DbHeight : n \in DOMAIN blocks /\ blocks[n] \in known
    BY DEF ChainedInv, Chained
  <1>3. \A n \in DOMAIN blocks : Height[blocks[n]] = n
    BY DEF HeightInv, Gapless
  <1> HIDE DEF chain, blocks, known
  <1>4. DOMAIN prefix = 1 .. h + 1 /\ \A i \in 1 .. h + 1 : prefix[i] = blocks[i - 1]
    <2> DEFINE n == DbHeight + 1
               m == h + 1
    <2>1. n \in Nat /\ m \in 0 .. n /\ chain \in Seq(Block) /\ Len(chain) = n
      BY <1>1
    <2>2. SubSeq(chain, 1, m) = [i \in 1 .. m |-> chain[i]]
      BY <2>1
    <2>3. prefix = SubSeq(chain, 1, m)
      BY DEF Prefix
    <2>4. \A i \in 1 .. m : i \in 1 .. n
      BY <2>1
    <2> QED
      BY <1>1, <2>2, <2>3, <2>4
  <1> HIDE DEF prefix
  <1>5. \A b : b \in BlocksIn(prefix) <=> \E i \in 1 .. h + 1 : b = blocks[i - 1]
    BY <1>4 DEF BlocksIn
  <1>6. ASSUME NEW i \in 1 .. h + 1
        PROVE  blocks[i - 1] \in known /\ Height[blocks[i - 1]] <= h
    <2>1. i - 1 \in 0 .. DbHeight /\ i - 1 <= h
      BY <1>1
    <2> QED
      BY <1>2, <1>3, <2>1
  <1>7. ASSUME NEW b \in known, Height[b] <= h
        PROVE  \E i \in 1 .. h + 1 : b = blocks[i - 1]
    <2>1. Height[b] + 1 \in 1 .. h + 1 /\ Height[b] + 1 - 1 = Height[b]
      BY <1>2, <1>7
    <2> QED
      BY <1>2, <1>7, <2>1
  <1> QED
    BY <1>5, <1>6, <1>7 DEF prefix, chain, known

LEMMA TxsUpTo ==
  ASSUME ChainInv, NEW h \in Nat \cup {-1}, h <= DbHeight, NEW t
  PROVE  t \in TxsIn(Prefix(DbChain, h)) <=>
           \E p \in StoredPlaces : Height[p[1]] <= h /\ At(p) = t
  <1> DEFINE known == DOMAIN db["block-sym"]
             below == {b \in known : Height[b] <= h}
  <1>1. BlocksIn(Prefix(DbChain, h)) = below
    BY BlocksUpTo
  <1>2. known \in SUBSET Block
    BY KnownFacts DEF ChainInv
  <1>3. t \in TxsIn(Prefix(DbChain, h)) <=> \E b \in below : \E i \in DOMAIN Txs[b] : t = Txs[b][i]
    BY <1>1 DEF TxsIn
  <1> HIDE DEF known
  <1>4. \A p : p \in Places(known) <=> \E b \in known : \E i \in DOMAIN Txs[b] : p = <<b, i>>
    BY <1>2, PlaceFacts
  <1>5. (\E b \in below : \E i \in DOMAIN Txs[b] : t = Txs[b][i]) <=>
          \E p \in Places(known) : Height[p[1]] <= h /\ At(p) = t
    <2>1. ASSUME NEW b \in below, NEW i \in DOMAIN Txs[b], t = Txs[b][i]
          PROVE  \E p \in Places(known) : Height[p[1]] <= h /\ At(p) = t
      <3>1. <<b, i>> \in Places(known) /\ Height[<<b, i>>[1]] <= h /\ At(<<b, i>>) = t
        BY <1>4, <2>1 DEF At
      <3> QED
        BY <3>1
    <2>2. ASSUME NEW p \in Places(known), Height[p[1]] <= h, At(p) = t
          PROVE  \E b \in below : \E i \in DOMAIN Txs[b] : t = Txs[b][i]
      <3>1. PICK b \in known : \E i \in DOMAIN Txs[b] : p = <<b, i>>
        BY <1>4
      <3> QED
        BY <2>2, <3>1 DEF At
    <2> QED
      BY <2>1, <2>2
  <1> QED
    BY <1>3, <1>5 DEF known, StoredPlaces

LEMMA CreatedUpTo ==
  ASSUME ChainInv, NEW h \in Nat \cup {-1}, h <= DbHeight
  PROVE  CreatedIn(Prefix(DbChain, h)) = Outputs(TxsIn(Prefix(DbChain, h)))
         /\ TxsIn(Prefix(DbChain, h)) \in SUBSET Tx
  <1> DEFINE txs == TxsIn(Prefix(DbChain, h))
  <1>1. DOMAIN db["block-sym"] \in SUBSET Block
    BY KnownFacts DEF ChainInv
  <1>2. txs \in SUBSET Tx
    BY <1>1, TxsUpTo, PlaceTypes DEF StoredPlaces
  <1>3. \A t \in txs : \A n \in DOMAIN Vout[t] : n \in Nat \ {0}
    BY <1>2, LedgerFacts
  <1>4. CreatedIn(Prefix(DbChain, h)) = UNION {{<<t, n>> : n \in DOMAIN Vout[t]} : t \in txs}
    BY DEF CreatedIn
  <1> HIDE DEF txs
  <1>5. UNION {{<<t, n>> : n \in DOMAIN Vout[t]} : t \in txs} = Outputs(txs)
    BY <1>2, <1>3 DEF Outputs, Outpoint
  <1> QED
    BY <1>2, <1>4, <1>5 DEF txs

LEMMA SpentUpTo ==
  ASSUME ChainInv, NEW h \in Nat \cup {-1}, h <= DbHeight, NEW o
  PROVE  o \in SpentIn(Prefix(DbChain, h)) <=>
           \E s \in SpendsOf(StoredPlaces) : SpentAt(s) <= h /\ Input(s) = o
  <1> DEFINE txs == TxsIn(Prefix(DbChain, h))
  <1>1. DOMAIN db["block-sym"] \in SUBSET Block
    BY KnownFacts DEF ChainInv
  <1>2. o \in SpentIn(Prefix(DbChain, h)) <=> \E t \in txs : \E n \in DOMAIN Vin[t] : o = Vin[t][n]
    BY DEF SpentIn
  <1>3. \A t : t \in txs <=> \E p \in StoredPlaces : Height[p[1]] <= h /\ At(p) = t
    BY TxsUpTo
  <1>4. \A p \in StoredPlaces : At(p) \in Tx
    BY <1>1, PlaceTypes DEF StoredPlaces
  <1> HIDE DEF txs
  <1>5. ASSUME NEW t \in txs, NEW n \in DOMAIN Vin[t], o = Vin[t][n]
        PROVE  \E s \in SpendsOf(StoredPlaces) : SpentAt(s) <= h /\ Input(s) = o
    <2>1. PICK p \in StoredPlaces : Height[p[1]] <= h /\ At(p) = t
      BY <1>3
    <2>2. n \in Nat \ {0}
      BY <1>4, <2>1, LedgerFacts
    <2>3. /\ <<p, n>> \in SpendsOf(StoredPlaces) /\ SpentAt(<<p, n>>) <= h
          /\ Input(<<p, n>>) = o
      BY <1>5, <2>1, <2>2 DEF SpendsOf, SpentAt, Input
    <2> QED
      BY <2>3
  <1>6. ASSUME NEW s \in SpendsOf(StoredPlaces), SpentAt(s) <= h, Input(s) = o
        PROVE  \E t \in txs : \E n \in DOMAIN Vin[t] : o = Vin[t][n]
    <2>1. s[1] \in StoredPlaces /\ s[2] \in DOMAIN Vin[At(s[1])]
      BY DEF SpendsOf
    <2>2. At(s[1]) \in txs
      BY <1>3, <1>6, <2>1 DEF SpentAt
    <2> QED
      BY <1>6, <2>1, <2>2 DEF Input
  <1> QED
    BY <1>2, <1>5, <1>6

LEMMA WholePrefix ==
  ASSUME ChainInv
  PROVE  Prefix(DbChain, DbHeight) = DbChain
  <1> DEFINE chain == DbChain
             n     == DbHeight + 1
  <1>1. chain \in Seq(Block) /\ Len(chain) = n /\ n \in Nat
    BY DbChainType DEF ChainInv, IInv
  <1> HIDE DEF chain, n
  <1>2. SubSeq(chain, 1, n) = [i \in 1 .. n |-> chain[i]]
    BY <1>1
  <1>3. chain = [i \in 1 .. n |-> chain[i]]
    BY <1>1
  <1> QED
    BY <1>2, <1>3 DEF Prefix, chain, n

LEMMA StoredOutputs ==
  ASSUME ChainInv, SymbolInv
  PROVE  /\ CreatedIn(DbChain) = Outputs(DOMAIN db["tx-sym"])
         /\ \A h \in Nat \cup {-1} : h <= DbHeight =>
              CreatedIn(Prefix(DbChain, h)) \subseteq Outputs(DOMAIN db["tx-sym"])
  <1>1. DOMAIN db["tx-sym"] = {At(p) : p \in StoredPlaces}
    BY DEF SymbolInv, OrderedInv, Numbered
  <1>2. DbHeight \in Nat \cup {-1}
    BY DbChainType DEF ChainInv, IInv
  <1>3. ASSUME NEW h \in Nat \cup {-1}, h <= DbHeight
        PROVE  CreatedIn(Prefix(DbChain, h)) \subseteq Outputs(DOMAIN db["tx-sym"])
    <2>1. CreatedIn(Prefix(DbChain, h)) = Outputs(TxsIn(Prefix(DbChain, h)))
      BY <1>3, CreatedUpTo
    <2>2. TxsIn(Prefix(DbChain, h)) \subseteq DOMAIN db["tx-sym"]
      BY <1>1, <1>3, TxsUpTo
    <2> QED
      BY <2>1, <2>2 DEF Outputs
  <1>4. CreatedIn(DbChain) = Outputs(TxsIn(DbChain))
    BY <1>2, CreatedUpTo, WholePrefix
  <1>5. \A t : t \in TxsIn(DbChain) <=> \E p \in StoredPlaces : Height[p[1]] <= DbHeight /\ At(p) = t
    BY <1>2, TxsUpTo, WholePrefix
  <1>6. \A p \in StoredPlaces : Height[p[1]] <= DbHeight
    <2>1. \A b \in DOMAIN db["block-sym"] : Height[b] <= DbHeight
      BY <1>2 DEF ChainInv, ChainedInv, Chained
    <2>2. \A p \in StoredPlaces : p[1] \in DOMAIN db["block-sym"]
      BY KnownFacts, PlaceTypes DEF StoredPlaces, ChainInv
    <2> QED
      BY <2>1, <2>2
  <1>7. TxsIn(DbChain) = DOMAIN db["tx-sym"]
    BY <1>1, <1>5, <1>6
  <1> QED
    BY <1>3, <1>4, <1>7

(* The record of an output says when the chain created and spent it.        *)
LEMMA RecordTells ==
  ASSUME ChainInv, SymbolInv, UtxoInv, BackInv, NEW o \in Outputs(DOMAIN db["tx-sym"]),
         NEW h \in Nat \cup {-1}, h <= DbHeight
  PROVE  LET k == KeyIn(db["tx-sym"], o) IN
         /\ k \in DOMAIN db["utxo"]
         /\ Unspent(db["utxo"][k], h) <=>
              o \in CreatedIn(Prefix(DbChain, h)) \ SpentIn(Prefix(DbChain, h))
         /\ <<db["sym-tx"][k[1]], k[2]>> = o
  <1> USE DEF ChainInv, IInv
  <1> DEFINE k == KeyIn(db["tx-sym"], o)
             u == db["utxo"][k]
             places == StoredPlaces
             spends == SpendsOf(StoredPlaces)
  <1>1. k \in DOMAIN db["utxo"] /\ Dated(u, o, places) /\ Dues(u, o, spends)
    BY DEF UtxoInv, StoredInv, Recorded
  <1>2. u.created \in Nat /\ u.spentOn \in OrNone(Nat)
    BY <1>1 DEF TypeOK, DbTypeOK, IsMap, UtxoRecord
  <1>3. /\ o = <<o[1], o[2]>> /\ o[1] \in DOMAIN db["tx-sym"] /\ o[2] \in DOMAIN Vout[o[1]]
        /\ o \in Outpoint
    BY DEF Outputs, Outpoint
  <1>4. <<db["sym-tx"][k[1]], k[2]>> = o
    BY <1>3 DEF BackInv, Back, KeyIn
  <1>5. /\ DOMAIN db["block-sym"] \in SUBSET Block /\ OnePerHeight(DOMAIN db["block-sym"])
        /\ Rooted(DOMAIN db["block-sym"])
    BY KnownFacts DEF RootedInv
  <1> HIDE DEF u, k
  <1>6. PICK p \in places : At(p) = o[1] /\ u.created = Height[p[1]]
    BY <1>1 DEF Dated
  <1>7. \A q \in places : At(q) = o[1] => q = p
    BY <1>5, <1>6, MinedOnce DEF StoredPlaces
  <1>8. o \in CreatedIn(Prefix(DbChain, h)) <=> u.created <= h
    <2>1. o \in CreatedIn(Prefix(DbChain, h)) <=> o[1] \in TxsIn(Prefix(DbChain, h))
      BY <1>3, CreatedUpTo DEF Outputs
    <2>2. o[1] \in TxsIn(Prefix(DbChain, h)) <=> \E q \in places : Height[q[1]] <= h /\ At(q) = o[1]
      BY TxsUpTo
    <2> HIDE DEF places
    <2> QED
      BY <1>6, <1>7, <2>1, <2>2
  <1>9. o \in SpentIn(Prefix(DbChain, h)) <=> \E s \in spends : SpentAt(s) <= h /\ Input(s) = o
    BY SpentUpTo
  <1>10. (\E s \in spends : SpentAt(s) <= h /\ Input(s) = o) <=> u.spentOn # None /\ u.spentOn <= h
    <2>1. \A s \in spends : SpentAt(s) \in Nat
      BY <1>5, SpendFacts DEF StoredPlaces
    <2>2. None \notin Nat
      BY SentinelsAreNoValues
    <2> HIDE DEF spends
    <2> QED
      BY <1>1, <2>1, <2>2 DEF Dues
  <1>11. Unspent(u, h) <=> u.created <= h /\ ~ (u.spentOn # None /\ u.spentOn <= h)
    <2>1. CASE u.spentOn = None
      BY <2>1 DEF Unspent
    <2>2. CASE u.spentOn # None
      <3>1. u.spentOn \in Nat /\ (h < u.spentOn <=> ~ (u.spentOn <= h))
        BY <1>2, <2>2 DEF OrNone
      <3> QED
        BY <2>2, <3>1 DEF Unspent
    <2> QED
      BY <2>1, <2>2
  <1> QED
    BY <1>1, <1>4, <1>8, <1>9, <1>10, <1>11 DEF k, u

(* What a stored address is answered, whatever it was paid.                 *)
LEMMA AnswerAt ==
  ASSUME ChainInv, SymbolInv, UtxoInv, CoinsInv, NEW a \in PaidOnce,
         NEW h \in Nat \cup {-1}, h <= DbHeight
  PROVE  IF Used(DbChain, a)
         THEN Answerable(a) /\ IsSetOf(AccountCoins(a, h), CoinsOf(Prefix(DbChain, h), a))
         ELSE Answerable(a) => DOMAIN AccountCoins(a, h) = {}
  <1> USE DEF ChainInv, IInv, CoinsInv
  <1> DEFINE s    == AddressSymbol(a)
             list == UtxoList(s).coins
             names == db["address-sym"]
             lists == db["address-utxos"]
             outputs == {o \in Outputs(DOMAIN db["tx-sym"]) : AddressOf(o) = a}
             Key(o)  == KeyIn(db["tx-sym"], o)
  <1>1. a \in Addr
    BY DEF PaidOnce
  <1>2. Once(DbListing(a)) /\ Entries(DbListing(a)) = {Key(o) : o \in outputs}
    BY NothingWaits DEF ListsInv, DbPaid, PaidTo
  <1>3. Used(DbChain, a) <=> outputs # {}
    BY StoredOutputs DEF Used
  <1>4. a \in OnDisk /\ names[a] \in DOMAIN lists =>
          s = names[a] /\ list = DbListing(a) /\ s # None /\ s \in DOMAIN lists
    <2> SUFFICES ASSUME a \in OnDisk, names[a] \in DOMAIN lists
                 PROVE  s = names[a] /\ list = DbListing(a) /\ s # None
      OBVIOUS
    <2>1. s = names[a]
      BY <1>1, StoredName
    <2>2. s # None
      BY <1>1, SymbolTypes DEF Named, OnDisk
    <2> QED
      BY <2>1, <2>2 DEF DbListing, CoinsUnder, UtxoList, OnDisk
  <1>5. ~ (a \in OnDisk /\ names[a] \in DOMAIN lists) => DbListing(a) = <<>>
    BY DEF DbListing, CoinsUnder, OnDisk
  <1>6. ASSUME s # None, s \in DOMAIN lists
        PROVE  a \in OnDisk /\ names[a] \in DOMAIN lists
    <2>1. PICK b \in DOMAIN names : names[b] = s
      BY <1>6 DEF OwnedInv, Owned
    <2>2. /\ b \in DOMAIN View("address-sym") /\ View("address-sym")[b] = s
      <3>1. b \in DOMAIN Written("address-sym") /\ Written("address-sym")[b] = s
        BY <2>1, StoredName DEF OnDisk
      <3>2. b \notin Batched
        BY <2>1 DEF FreshInv, OnDisk
      <3> QED
        BY <3>1, <3>2, NamesStay, OverlayKeys DEF View, Batched
    <2>3. CASE a \in DOMAIN lastSeenAddresses
      <3>1. a \in DOMAIN View("address-sym") /\ View("address-sym")[a] = s
        BY <2>3 DEF CacheInv, AddressSymbol
      <3>2. a = b
        BY <2>2, <3>1 DEF NamesInv, AddressSymbolsUnique
      <3> QED
        BY <1>6, <2>1, <3>2 DEF OnDisk
    <2>4. CASE a \notin DOMAIN lastSeenAddresses
      <3>1. s = Get(names, a)
        BY <2>4 DEF AddressSymbol
      <3> QED
        BY <1>6, <3>1 DEF Get, OnDisk
    <2> QED
      BY <2>3, <2>4
  <1> HIDE DEF s, list, names, lists, Key
  <1>7. ASSUME outputs = {}, Answerable(a)
        PROVE  DOMAIN AccountCoins(a, h) = {}
    <2>1. list = DbListing(a)
      BY <1>4, <1>6, <1>7 DEF Answerable, s, lists
    <2>2. DOMAIN list = {}
      BY <1>2, <1>7, <2>1 DEF Entries
    <2> QED
      BY <2>2 DEF AccountCoins, list, s
  <1>8. ASSUME outputs # {}
        PROVE  Answerable(a) /\ IsSetOf(AccountCoins(a, h), CoinsOf(Prefix(DbChain, h), a))
    <2>1. DbListing(a) # <<>>
      BY <1>2, <1>8 DEF Entries
    <2>2. s # None /\ s \in DOMAIN lists /\ list = DbListing(a)
      BY <1>4, <1>5, <2>1
    <2>3. \A i \in DOMAIN list : \E o \in outputs : list[i] = Key(o)
      BY <1>2, <2>2 DEF Entries
    <2>4. \A o \in outputs : \E i \in DOMAIN list : list[i] = Key(o)
      BY <1>2, <2>2 DEF Entries
    <2>5. \A i, j \in DOMAIN list : list[i] = list[j] => i = j
      BY <1>2, <2>2 DEF Once
    <2> DEFINE live    == CreatedIn(Prefix(DbChain, h)) \ SpentIn(Prefix(DbChain, h))
               coins   == AccountCoins(a, h)
               Coin(k) == <<db["sym-tx"][k[1]], k[2]>>
    <2>6. \A o \in outputs : /\ Key(o) \in DOMAIN db["utxo"] /\ Coin(Key(o)) = o
                             /\ Unspent(db["utxo"][Key(o)], h) <=> o \in live
      BY RecordTells DEF Key
    <2>7. Answerable(a)
      BY <2>2, <2>3, <2>6 DEF Answerable, s, lists, list
    <2>8. /\ DOMAIN coins = {i \in DOMAIN list : Unspent(db["utxo"][list[i]], h)}
          /\ \A i \in DOMAIN coins : coins[i] = Coin(list[i])
      BY DEF AccountCoins, list, s
    <2>9. \A o : o \in CoinsOf(Prefix(DbChain, h), a) <=> o \in outputs /\ o \in live
      <3>1. \A o \in live : o \in Outputs(DOMAIN db["tx-sym"])
        BY StoredOutputs
      <3> QED
        BY <3>1 DEF CoinsOf
    <2> HIDE DEF live, coins, Coin, outputs
    <2>10. ASSUME NEW i \in DOMAIN coins
           PROVE  coins[i] \in CoinsOf(Prefix(DbChain, h), a) /\ Key(coins[i]) = list[i]
      <3>1. i \in DOMAIN list /\ Unspent(db["utxo"][list[i]], h) /\ coins[i] = Coin(list[i])
        BY <2>8
      <3>2. PICK o \in outputs : list[i] = Key(o)
        BY <2>3, <3>1
      <3> QED
        BY <2>6, <2>9, <3>1, <3>2
    <2>11. ASSUME NEW o \in CoinsOf(Prefix(DbChain, h), a)
           PROVE  \E i \in DOMAIN coins : coins[i] = o
      <3>1. o \in outputs /\ o \in live
        BY <2>9
      <3>2. PICK i \in DOMAIN list : list[i] = Key(o)
        BY <2>4, <3>1
      <3>3. i \in DOMAIN coins /\ coins[i] = o
        BY <2>6, <2>8, <3>1, <3>2
      <3> QED
        BY <3>3
    <2>12. \A i, j \in DOMAIN coins : coins[i] = coins[j] => i = j
      <3> SUFFICES ASSUME NEW i \in DOMAIN coins, NEW j \in DOMAIN coins, coins[i] = coins[j]
                   PROVE  i = j
        OBVIOUS
      <3>1. list[i] = list[j] /\ i \in DOMAIN list /\ j \in DOMAIN list
        BY <2>8, <2>10
      <3> QED
        BY <2>5, <3>1
    <2>13. {coins[i] : i \in DOMAIN coins} = CoinsOf(Prefix(DbChain, h), a)
      BY <2>10, <2>11
    <2> QED
      BY <2>7, <2>12, <2>13 DEF IsSetOf, coins
  <1> HIDE DEF outputs
  <1>9. CASE Used(DbChain, a)
    BY <1>3, <1>8, <1>9
  <1>10. CASE ~ Used(DbChain, a)
    BY <1>3, <1>7, <1>10
  <1> QED
    BY <1>9, <1>10

(* Every request for an address that no block taken back pays twice is      *)
(* answered, at every height the database holds, with the coins the ledger *)
(* gives the address on the stored chain up to there, each once            *)
(* (getAccountCoins, getAccountBalance).                                   *)
THEOREM AnswersForAddressesPaidOnce ==
  Spec /\ [][Orderly]_vars /\ [][TakesBack]_vars
    => [](\A a \in PaidOnce, h \in 0 .. DbHeight :
             IF Used(DbChain, a)
             THEN Answerable(a) /\ IsSetOf(AccountCoins(a, h), CoinsOf(Prefix(DbChain, h), a))
             ELSE Answerable(a) => DOMAIN AccountCoins(a, h) = {})
  <1> DEFINE Answered ==
               \A a \in PaidOnce, h \in 0 .. DbHeight :
                 IF Used(DbChain, a)
                 THEN Answerable(a) /\ IsSetOf(AccountCoins(a, h), CoinsOf(Prefix(DbChain, h), a))
                 ELSE Answerable(a) => DOMAIN AccountCoins(a, h) = {}
  <1>1. ChainInv /\ SymbolInv /\ UtxoInv /\ CoinsInv => Answered
    <2> SUFFICES ASSUME ChainInv, SymbolInv, UtxoInv, CoinsInv,
                        NEW a \in PaidOnce, NEW h \in 0 .. DbHeight
                 PROVE  IF Used(DbChain, a)
                        THEN /\ Answerable(a)
                             /\ IsSetOf(AccountCoins(a, h), CoinsOf(Prefix(DbChain, h), a))
                        ELSE Answerable(a) => DOMAIN AccountCoins(a, h) = {}
      OBVIOUS
    <2>1. DbHeight \in Nat \cup {-1}
      BY DbChainType DEF ChainInv, IInv
    <2>2. h \in Nat \cup {-1} /\ h <= DbHeight
      BY <2>1
    <2> QED
      BY <2>2, AnswerAt
  <1> HIDE DEF Answered
  <1>2. [Orderly]_vars => [EventsInOrder]_vars
    BY DEF Orderly
  <1>3. Spec /\ [][Orderly]_vars /\ [][TakesBack]_vars => []Answered
    BY <1>1, <1>2, OutputsFollowTheChain, ListsFollowTheChain, PTL
  <1> QED
    BY <1>3 DEF Answered

(* Where no block taken back pays any address twice, that is every request. *)
TakenBackPayOnce == Addr = PaidOnce

THEOREM AnswersAreTheLedgers ==
  ASSUME TakenBackPayOnce
  PROVE  Spec /\ [][Orderly]_vars /\ [][TakesBack]_vars => []AccountCoinsMatchLedger
  BY AnswersForAddressesPaidOnce DEF AccountCoinsMatchLedger, TakenBackPayOnce

-----------------------------------------------------------------------------
(* The indexer implements UtxoIndex.                                        *)

Coins == [a \in Addr |-> DbCoins(a)]

LEMMA CoinsAreAnswers ==
  ASSUME TakenBackPayOnce
  PROVE  ChainInv /\ SymbolInv /\ UtxoInv /\ CoinsInv => Coins = Abstract!Answers(DbChain)
  <1> SUFFICES ASSUME ChainInv, SymbolInv, UtxoInv, CoinsInv, NEW a \in Addr
               PROVE  DbCoins(a) = Abstract!CoinsOf(DbChain, a)
    BY DEF Coins, Abstract!Answers
  <1>1. Abstract!CoinsOf(DbChain, a) = CoinsOf(DbChain, a)
    BY DEF Abstract!CoinsOf, CoinsOf, Abstract!CreatedIn, CreatedIn, Abstract!SpentIn, SpentIn,
           Abstract!TxsIn, TxsIn, Abstract!BlocksIn, BlocksIn, Abstract!AddressOf, AddressOf
  <1>2. DbHeight \in Nat \cup {-1} /\ DbHeight <= DbHeight
    BY DbChainType DEF ChainInv, IInv
  <1>3. IF Used(DbChain, a)
        THEN /\ Answerable(a)
             /\ IsSetOf(AccountCoins(a, DbHeight), CoinsOf(DbChain, a))
        ELSE Answerable(a) => DOMAIN AccountCoins(a, DbHeight) = {}
    BY <1>2, AnswerAt, WholePrefix DEF TakenBackPayOnce
  <1>4. ~Used(DbChain, a) => CoinsOf(DbChain, a) = {}
    BY DEF Used, CoinsOf
  <1>5. CASE Used(DbChain, a)
    BY <1>1, <1>3, <1>5 DEF DbCoins, IsSetOf
  <1>6. CASE ~Used(DbChain, a)
    BY <1>1, <1>3, <1>4, <1>6 DEF DbCoins
  <1> QED
    BY <1>5, <1>6

(* The chain a table of heights holds up to one of them.                    *)
IsChainOf(chain, blocks, top) ==
  /\ top \in Nat \cup {-1}
  /\ chain \in Seq(Block) /\ Len(chain) = top + 1
  /\ \A i \in 1 .. top + 1 : chain[i] = blocks[i - 1]

LEMMA StoredIsChain ==
  ChainInv => IsChainOf(DbChain, db["sym-block"], DbHeight)
  BY DbChainType DEF ChainInv, IInv, IsChainOf

LEMMA IndexedIsChain ==
  ChainInv /\ pc # "exited" => IsChainOf(IndexedChain, View("sym-block"), IndexedHeight)
  <1> SUFFICES ASSUME ChainInv, pc # "exited"
               PROVE  IsChainOf(IndexedChain, View("sym-block"), IndexedHeight)
    OBVIOUS
  <1> DEFINE blocks == View("sym-block")
             top    == IndexedHeight
  <1>1. top \in Nat \cup {-1} /\ top <= lastBlockSymbol /\ lastBlockSymbol \in Int
    BY DEF ChainInv, IInv, TypeOK, FieldTypeOK, WorkerInv, IndexedHeight, AddingBlock, AddTxPc
  <1>2. \A h \in 0 .. lastBlockSymbol : blocks[h] \in Block
    BY KnownFacts DEF ChainInv, ChainedInv, Chained, Known
  <1>3. IndexedChain = [i \in 1 .. top + 1 |-> blocks[i - 1]]
    BY DEF IndexedChain
  <1> HIDE DEF blocks, top
  <1>4. top + 1 \in Nat /\ \A i \in 1 .. top + 1 : i - 1 \in 0 .. lastBlockSymbol
    BY <1>1
  <1>5. \A i \in 1 .. top + 1 : blocks[i - 1] \in Block
    BY <1>2, <1>4
  <1>6. IsChainOf(IndexedChain, blocks, top)
    BY <1>1, <1>3, <1>4, <1>5 DEF IsChainOf
  <1> QED
    BY <1>6 DEF blocks, top

LEMMA SameEntries ==
  ASSUME NEW s \in Seq(Block), NEW t \in Seq(Block), NEW n \in Nat, Len(s) = n, Len(t) = n,
         \A i \in 1 .. n : s[i] = t[i]
  PROVE  s = t
  <1>1. s = [i \in 1 .. n |-> s[i]] /\ t = [i \in 1 .. n |-> t[i]]
    OBVIOUS
  <1> QED
    BY <1>1

LEMMA SameChains ==
  ASSUME NEW s, NEW t, NEW f, NEW g, NEW n, IsChainOf(s, f, n), IsChainOf(t, g, n),
         \A h \in 0 .. n : f[h] = g[h]
  PROVE  s = t
  <1>1. /\ n + 1 \in Nat /\ s \in Seq(Block) /\ t \in Seq(Block)
        /\ Len(s) = n + 1 /\ Len(t) = n + 1
        /\ \A i \in 1 .. n + 1 : s[i] = f[i - 1] /\ t[i] = g[i - 1]
    BY DEF IsChainOf
  <1>2. \A i \in 1 .. n + 1 : i - 1 \in 0 .. n
    BY DEF IsChainOf
  <1>3. \A i \in 1 .. n + 1 : s[i] = t[i]
    BY <1>1, <1>2
  <1> QED
    BY <1>1, <1>3, SameEntries

LEMMA LongerChain ==
  ASSUME NEW s, NEW t, NEW f, NEW n, NEW b \in Block,
         IsChainOf(s, f, n), IsChainOf(t, f, n + 1), f[n + 1] = b
  PROVE  t = Append(s, b)
  <1> DEFINE m == n + 1
             u == Append(s, b)
  <1>1. /\ m \in Nat /\ n = m - 1 /\ s \in Seq(Block) /\ t \in Seq(Block)
        /\ Len(s) = m /\ Len(t) = m + 1
        /\ \A i \in 1 .. m : s[i] = f[i - 1]
        /\ \A i \in 1 .. m + 1 : t[i] = f[i - 1]
    BY DEF IsChainOf
  <1>2. /\ u \in Seq(Block) /\ Len(u) = m + 1 /\ u[m + 1] = b
        /\ \A i \in 1 .. m : u[i] = s[i]
    BY <1>1, AppendProperties
  <1>3. f[m] = b
    OBVIOUS
  <1> HIDE DEF m, u
  <1>4. \A i \in 1 .. m + 1 : i \in 1 .. m \/ i = m + 1
    BY <1>1
  <1>5. (m + 1) - 1 = m /\ m + 1 \in 1 .. m + 1 /\ m + 1 \in Nat /\ \A i \in 1 .. m : i \in 1 .. m + 1
    BY <1>1
  <1>6. \A i \in 1 .. m + 1 : t[i] = u[i]
    BY <1>1, <1>2, <1>3, <1>4, <1>5
  <1>7. t = u
    BY <1>1, <1>2, <1>5, <1>6, SameEntries
  <1> QED
    BY <1>7 DEF u

LEMMA ShorterChain ==
  ASSUME NEW s, NEW t, NEW f, NEW n, IsChainOf(s, f, n), IsChainOf(t, f, n - 1)
  PROVE  t = SubSeq(s, 1, Len(s) - 1)
  <1> DEFINE u == SubSeq(s, 1, n)
  <1>1. /\ n \in Nat /\ s \in Seq(Block) /\ t \in Seq(Block) /\ Len(s) = n + 1 /\ Len(t) = n
        /\ \A i \in 1 .. n + 1 : s[i] = f[i - 1]
        /\ \A i \in 1 .. n : t[i] = f[i - 1]
    BY DEF IsChainOf
  <1>2. u = [i \in 1 .. n |-> s[i]]
    BY <1>1
  <1>3. t = [i \in 1 .. n |-> t[i]]
    BY <1>1
  <1>4. \A i \in 1 .. n : t[i] = s[i]
    <2>1. \A i \in 1 .. n : i \in 1 .. n + 1
      BY <1>1
    <2> QED
      BY <1>1, <2>1
  <1>5. Len(s) - 1 = n
    BY <1>1
  <1> QED
    BY <1>2, <1>3, <1>4, <1>5

-----------------------------------------------------------------------------
(* What each step does to the chain in memory and to the one on disk.       *)

Falls  == IndexedChain' = DbChain' /\ DbChain' = DbChain
Stays  == IndexedChain' = IndexedChain /\ DbChain' = DbChain
Saves  == IndexedChain # <<>> /\ IndexedChain' = IndexedChain /\ DbChain' = IndexedChain
Shrinks ==
  /\ Len(IndexedChain) > 1 /\ DbChain = IndexedChain /\ DbChain' = DbChain
  /\ IndexedChain' = SubSeq(IndexedChain, 1, Len(IndexedChain) - 1)
Grows(b) ==
  /\ IF IndexedChain = <<>> THEN b = Genesis ELSE Parent[b] = IndexedChain[Len(IndexedChain)]
  /\ IndexedChain' = Append(IndexedChain, b) /\ DbChain' = DbChain

LEMMA StoredChainKept == UNCHANGED <<db, meta>> => DbChain' = DbChain
  BY DEF DbChain, DbHeight

LEMMA NextIsChain ==
  ASSUME ChainInv', pc' # "exited"
  PROVE  IsChainOf(IndexedChain', View("sym-block")', IndexedHeight')
  <1>1. ChainInv' /\ (pc # "exited")' => IsChainOf(IndexedChain, View("sym-block"), IndexedHeight)'
    BY IndexedIsChain, PTL
  <1> QED
    BY <1>1 DEF IsChainOf

LEMMA RebootFalls ==
  ASSUME ChainInv, ChainInv', Reboot
  PROVE  Falls
  <1>1. UNCHANGED <<db, meta>> /\ pc' = "idle" /\ lastBlockSymbol' = DbHeight
    BY DEF Reboot
  <1>2. DbChain' = DbChain /\ DbHeight' = DbHeight /\ IndexedHeight' = DbHeight
    BY <1>1, StoredChainKept DEF DbHeight, IndexedHeight, AddingBlock
  <1>3. \A h \in 0 .. DbHeight : View("sym-block")'[h] = db["sym-block"][h]
    BY RebootedLayers DEF ChainInv, IInv, HeightInv, DbHeights, Tables
  <1>4. IsChainOf(IndexedChain', View("sym-block")', DbHeight)
    BY <1>1, <1>2, NextIsChain
  <1>5. IsChainOf(DbChain, db["sym-block"], DbHeight)
    BY StoredIsChain
  <1>6. IndexedChain' = DbChain
    BY <1>3, <1>4, <1>5, SameChains
  <1> QED
    BY <1>2, <1>6 DEF Falls

LEMMA WriteSaves ==
  ASSUME ChainInv, ChainInv', WriteBatches
  PROVE  Saves
  <1> USE DEF ChainInv, IInv
  <1>1. /\ pc \in FlushPc /\ pc' \in {"untx", "idle"} /\ lastBlockSymbol' = lastBlockSymbol
        /\ meta' = flush.meta
    BY DEF WriteBatches
  <1>2. lastBlockSymbol \in Nat /\ DbHeight' = lastBlockSymbol
    BY <1>1, SentinelsAreNoValues DEF FlushInv, DbHeight, OrElse
  <1>3. IndexedHeight = lastBlockSymbol /\ IndexedHeight' = lastBlockSymbol
    BY <1>1 DEF IndexedHeight, AddingBlock, FlushPc
  <1>4. /\ View("sym-block")' = View("sym-block")
        /\ DOMAIN View("sym-block") = DOMAIN db'["sym-block"]
        /\ \A h \in DOMAIN db'["sym-block"] : View("sym-block")[h] = db'["sym-block"][h]
    BY WrittenLayers DEF Tables, BlockTables
  <1>5. \A h \in 0 .. lastBlockSymbol : h \in DOMAIN View("sym-block")
    BY DEF HeightInv, Heights
  <1>6. \A h \in 0 .. lastBlockSymbol : db'["sym-block"][h] = View("sym-block")[h]
    BY <1>4, <1>5
  <1>7. /\ IsChainOf(IndexedChain, View("sym-block"), lastBlockSymbol)
        /\ IsChainOf(IndexedChain', View("sym-block"), lastBlockSymbol)
    BY <1>1, <1>3, <1>4, IndexedIsChain, NextIsChain DEF FlushPc
  <1>8. IsChainOf(DbChain', db'["sym-block"], lastBlockSymbol)
    <2>1. ChainInv' => IsChainOf(DbChain, db["sym-block"], DbHeight)'
      BY StoredIsChain, PTL
    <2> QED
      BY <1>2, <2>1 DEF IsChainOf
  <1>9. IndexedChain' = IndexedChain /\ DbChain' = IndexedChain
    BY <1>6, <1>7, <1>8, SameChains
  <1>10. IndexedChain # <<>>
    <2>1. Len(IndexedChain) = lastBlockSymbol + 1
      BY <1>7 DEF IsChainOf
    <2> QED
      BY <1>2, <2>1
  <1> QED
    BY <1>9, <1>10 DEF Saves

LEMMA AddStays ==
  ASSUME ChainInv, ChainInv', AddBlock
  PROVE  Stays
  <1> USE DEF ChainInv, IInv
  <1> DEFINE b == job.block
  <1>1. /\ pc = "taken" /\ pc' = "tx" /\ BlockSymbol(b) = None
    BY DEF AddBlock
  <1>2. /\ UNCHANGED <<db, meta>> /\ lastBlockSymbol' = Height[b]
        /\ \A h \in Heights : h # Height[b] => View("sym-block")'[h] = View("sym-block")[h]
    BY AddedBlock
  <1>3. Height[b] = lastBlockSymbol + 1
    <2>1. workQueue \in Seq(Block) /\ b \in Block /\ b \notin Known
      BY <1>1, ChainTypes, UnknownBlock
    <2>2. Leads(remove, Base, <<b>> \o workQueue, Announced)
      BY <1>1 DEF OrderInv, Pending
    <2>3. Fits(Base, b)
      BY <2>1, <2>2, Pop
    <2>4. Base = [blocks |-> Known, top |-> lastBlockSymbol]
      BY <1>1 DEF Base, Undoing
    <2> QED
      BY <2>1, <2>3, <2>4 DEF Fits
  <1> HIDE DEF b
  <1>4. lastBlockSymbol \in Nat \cup {-1}
    BY DEF TypeOK, FieldTypeOK
  <1>5. IndexedHeight = lastBlockSymbol /\ IndexedHeight' = lastBlockSymbol
    BY <1>1, <1>2, <1>3, <1>4 DEF IndexedHeight, AddingBlock
  <1>6. \A h \in 0 .. lastBlockSymbol : View("sym-block")'[h] = View("sym-block")[h]
    <2>1. \A h \in 0 .. lastBlockSymbol : h \in Heights /\ h # Height[b]
      BY <1>3, <1>4 DEF HeightInv
    <2> QED
      BY <1>2, <2>1
  <1>7. /\ IsChainOf(IndexedChain, View("sym-block"), lastBlockSymbol)
        /\ IsChainOf(IndexedChain', View("sym-block")', lastBlockSymbol)
    BY <1>1, <1>5, IndexedIsChain, NextIsChain
  <1>8. IndexedChain' = IndexedChain
    BY <1>6, <1>7, SameChains
  <1> QED
    BY <1>2, <1>8, StoredChainKept DEF Stays

LEMMA CommitShrinks ==
  ASSUME ChainInv, SymbolInv, ChainInv', CommitRemove
  PROVE  Shrinks
  <1> USE DEF ChainInv, IInv
  <1> DEFINE b == job.block
  <1>1. pc = "untx" /\ pc' = "secondFlush"
    BY DEF CommitRemove
  <1>2. /\ UNCHANGED <<db, meta>> /\ lastBlockSymbol' = lastBlockSymbol - 1
        /\ View("sym-block")' = View("sym-block") /\ lastBlockSymbol \in Nat
    BY RemovedBlock
  <1>3. lastBlockSymbol' \in Nat
    BY <1>1 DEF FlushInv, FlushPc
  <1>4. IndexedHeight = lastBlockSymbol /\ IndexedHeight' = lastBlockSymbol - 1
    BY <1>1, <1>2 DEF IndexedHeight, AddingBlock
  <1>5. /\ IsChainOf(IndexedChain, View("sym-block"), lastBlockSymbol)
        /\ IsChainOf(IndexedChain', View("sym-block"), lastBlockSymbol - 1)
    BY <1>1, <1>2, <1>4, IndexedIsChain, NextIsChain
  <1>6. IndexedChain' = SubSeq(IndexedChain, 1, Len(IndexedChain) - 1)
    BY <1>5, ShorterChain
  <1>7. Len(IndexedChain) > 1
    <2>1. Len(IndexedChain) = lastBlockSymbol + 1 /\ lastBlockSymbol >= 1
      BY <1>2, <1>3, <1>5 DEF IsChainOf
    <2> QED
      BY <1>2, <2>1
  <1>8. Known = DOMAIN db["block-sym"]
    BY <1>1 DEF SymbolInv, JobInv, RemovalPc
  <1>9. /\ \A h \in 0 .. lastBlockSymbol :
             View("sym-block")[h] \in Known /\ Height[View("sym-block")[h]] = h
        /\ \A x \in Known : Height[x] \in 0 .. lastBlockSymbol
    BY DEF ChainedInv, Chained, Known, HeightInv, Gapless
  <1>10. /\ \A h \in 0 .. DbHeight :
              db["sym-block"][h] \in Known /\ Height[db["sym-block"][h]] = h
         /\ \A x \in Known : Height[x] \in 0 .. DbHeight /\ db["sym-block"][Height[x]] = x
    BY <1>8 DEF ChainedInv, Chained, HeightInv, Gapless
  <1>11. DbHeight = lastBlockSymbol
    <2>1. DbHeight \in Nat \cup {-1}
      BY DbChainType
    <2>2. lastBlockSymbol \in 0 .. DbHeight
      <3>1. lastBlockSymbol \in 0 .. lastBlockSymbol
        BY <1>2
      <3> QED
        BY <1>9, <1>10, <3>1
    <2>3. DbHeight \in 0 .. lastBlockSymbol
      <3>1. DbHeight \in 0 .. DbHeight
        BY <2>1, <2>2
      <3> QED
        BY <1>9, <1>10, <3>1
    <2> QED
      BY <2>1, <2>2, <2>3
  <1>12. \A h \in 0 .. lastBlockSymbol : db["sym-block"][h] = View("sym-block")[h]
    BY <1>9, <1>10
  <1>13. DbChain = IndexedChain
    BY <1>5, <1>11, <1>12, StoredIsChain, SameChains
  <1> QED
    BY <1>2, <1>6, <1>7, <1>13, StoredChainKept DEF Shrinks

LEMMA FinishGrows ==
  ASSUME ChainInv, SymbolInv, ChainInv', [Next]_vars, FinishBlock \/ FinishBlockAndFlush, ~Reboot
  PROVE  Grows(job.block)
  <1> USE DEF ChainInv, IInv
  <1> DEFINE b == job.block
  <1>1. pc = "tx" /\ pc' \in {"idle", "blockFlush"}
    BY DEF FinishBlock, FinishBlockAndFlush
  <1>2. /\ lastBlockSymbol' = lastBlockSymbol /\ View("sym-block")' = View("sym-block")
        /\ UNCHANGED <<db, meta>>
    BY <1>1, ViewsKept DEF AddBlock, CommitRemove, WriteBatches, FlushPc
  <1>3. /\ b \in Known /\ Height[b] = lastBlockSymbol /\ b \in Block
        /\ lastBlockSymbol \in Nat
    BY <1>1, JobTypes DEF SymbolInv, JobInv, AddingBlock, WorkerInv
  <1>4. \A x \in Known : View("sym-block")[Height[x]] = x
    BY DEF ChainedInv, Chained, Known
  <1>5. IndexedHeight = lastBlockSymbol - 1 /\ IndexedHeight' = (lastBlockSymbol - 1) + 1
    BY <1>1, <1>2, <1>3 DEF IndexedHeight, AddingBlock
  <1>6. /\ IsChainOf(IndexedChain, View("sym-block"), lastBlockSymbol - 1)
        /\ IsChainOf(IndexedChain', View("sym-block"), (lastBlockSymbol - 1) + 1)
    BY <1>1, <1>2, <1>5, IndexedIsChain, NextIsChain
  <1>7. View("sym-block")[(lastBlockSymbol - 1) + 1] = b
    <2>1. (lastBlockSymbol - 1) + 1 = lastBlockSymbol
      BY <1>3
    <2> QED
      BY <1>3, <1>4, <2>1
  <1>8. IndexedChain' = Append(IndexedChain, b)
    BY <1>3, <1>6, <1>7, LongerChain
  <1>9. IF IndexedChain = <<>> THEN b = Genesis
                               ELSE Parent[b] = IndexedChain[Len(IndexedChain)]
    <2> HIDE DEF b
    <2> DEFINE n == lastBlockSymbol
    <2>1. /\ Len(IndexedChain) = n /\ n \in Nat /\ IndexedChain \in Seq(Block)
          /\ \A i \in 1 .. n : IndexedChain[i] = View("sym-block")[i - 1]
      <3>1. (n - 1) + 1 = n
        BY <1>3
      <3> QED
        BY <1>3, <1>6, <3>1 DEF IsChainOf
    <2>2. b # Genesis => Height[b] = Height[Parent[b]] + 1 /\ Height[Parent[b]] \in Nat
      BY <1>3, LedgerTree, LedgerFacts
    <2>3. b = Genesis => Height[b] = 0
      BY <1>3, LedgerTree
    <2>4. b # Genesis => Parent[b] \in Known
      BY <1>3 DEF RootedInv, Rooted
    <2>5. CASE IndexedChain = <<>>
      <3>1. n = 0
        BY <2>1, <2>5
      <3> QED
        BY <1>3, <2>2, <2>5, <3>1
    <2>6. CASE IndexedChain # <<>>
      <3>1. n # 0
        BY <2>1, <2>6
      <3>2. b # Genesis
        BY <1>3, <2>3, <3>1
      <3>3. Height[Parent[b]] = n - 1 /\ n \in 1 .. n
        BY <1>3, <2>2, <3>1, <3>2
      <3>4. View("sym-block")[n - 1] = Parent[b]
        BY <1>4, <2>4, <3>2, <3>3
      <3>5. IndexedChain[n] = Parent[b]
        BY <2>1, <3>3, <3>4
      <3> QED
        BY <2>1, <2>6, <3>5
    <2> QED
      BY <2>5, <2>6
  <1> QED
    BY <1>2, <1>8, <1>9, StoredChainKept DEF Grows

LEMMA OthersStay ==
  ASSUME ChainInv, SymbolInv, ChainInv', [Next]_vars, pc' # "exited", ~AddBlock, ~CommitRemove,
         ~Reboot, ~WriteBatches, ~FinishBlock, ~FinishBlockAndFlush
  PROVE  Stays
  <1> USE DEF ChainInv, IInv
  <1>1. /\ lastBlockSymbol' = lastBlockSymbol /\ View("sym-block")' = View("sym-block")
        /\ UNCHANGED <<db, meta>>
    BY ViewsKept
  <1>2. pc # "exited"
    <2>1. CASE Syncer
      BY <2>1 DEF Syncer, BlockAdded, BlockRemoved, HandleBlock
    <2>2. CASE ~Syncer
      BY <2>2, SyncedKept
    <2> QED
      BY <2>1, <2>2
  <1>3. AddingBlock' => AddingBlock
    BY AddingKeeps
  <1>4. ASSUME AddingBlock
        PROVE  AddingBlock'
    <2>1. CASE AddTx
      BY <2>1 DEF AddTx, AddingBlock
    <2>2. CASE RemoveTxSymbol
      BY <1>4, <2>2 DEF RemoveTxSymbol, AddingBlock
    <2>3. CASE FlushBegins
      BY <1>4, <2>3 DEF FlushBegins, BeginRemove, SaveState, AddingBlock
    <2>4. CASE ~TxStep
      <3>1. Stands \/ Inside(AddTxPc) \/ FinishTx \/ Inside(RemovalPc) \/ Take \/ SkipBlock
        BY <2>4, WorkerMoves
      <3> QED
        BY <1>4, <3>1
           DEF Stands, Inside, AddTxPc, FinishTx, RemovalPc, Take, SkipBlock, AddingBlock
    <2> QED
      BY <2>1, <2>2, <2>3, <2>4 DEF TxStep
  <1>5. IndexedHeight' = IndexedHeight
    BY <1>1, <1>3, <1>4 DEF IndexedHeight
  <1>6. IndexedChain' = IndexedChain
    BY <1>1, <1>2, <1>5 DEF IndexedChain
  <1> QED
    BY <1>1, <1>6, StoredChainKept DEF Stays

LEMMA ChainMoves ==
  ASSUME ChainInv, SymbolInv, ChainInv', [Next]_vars
  PROVE  Falls \/ Stays \/ Saves \/ Shrinks \/ \E b \in Block : Grows(b)
  <1> USE DEF ChainInv, IInv
  <1>1. CASE Reboot
    BY <1>1, RebootFalls
  <1>2. CASE WriteBatches
    BY <1>2, WriteSaves
  <1>3. CASE AddBlock
    BY <1>3, AddStays
  <1>4. CASE CommitRemove
    BY <1>4, CommitShrinks
  <1>5. CASE (FinishBlock \/ FinishBlockAndFlush) /\ ~Reboot
    BY <1>5, FinishGrows, JobTypes
  <1>6. CASE /\ ~AddBlock /\ ~CommitRemove /\ ~Reboot /\ ~WriteBatches
             /\ ~FinishBlock /\ ~FinishBlockAndFlush
    <2>1. CASE pc' # "exited"
      BY <1>6, <2>1, OthersStay
    <2>2. CASE pc' = "exited"
      <3>1. UNCHANGED <<db, meta>>
        BY <1>6, ViewsKept
      <3>2. DbChain' = DbChain /\ IndexedChain' = DbChain'
        BY <2>2, <3>1, StoredChainKept DEF IndexedChain
      <3> QED
        BY <3>2 DEF Falls
    <2> QED
      BY <2>1, <2>2
  <1> QED
    BY <1>1, <1>2, <1>3, <1>4, <1>5, <1>6

(* The indexer implements UtxoIndex: whatever its symbols, batches and      *)
(* caches do, its memory stands for a chain that grows and shrinks by one  *)
(* block at a time, each flush makes that chain durable as a whole, a     *)
(* crash or an exit falls back to the durable chain, and the coins the     *)
(* database answers with are the durable chain's.                          *)
THEOREM IndexerImplementsUtxoIndex ==
  ASSUME TakenBackPayOnce
  PROVE  Spec /\ [][Orderly]_vars /\ [][TakesBack]_vars => ImplementsUtxoIndex
  <1> DEFINE Inv == ChainInv /\ SymbolInv /\ UtxoInv /\ CoinsInv
  <1>1. Spec /\ [][Orderly]_vars /\ [][TakesBack]_vars => []Inv
    <2>1. [Orderly]_vars => [EventsInOrder]_vars
      BY DEF Orderly
    <2> QED
      BY <2>1, OutputsFollowTheChain, ListsFollowTheChain, PTL
  <1>2. Inv => Coins = Abstract!Answers(DbChain)
    BY CoinsAreAnswers
  <1>3. Init /\ Inv => Abstract!Init
    <2> SUFFICES ASSUME Init, Inv
                 PROVE  Abstract!Init
      OBVIOUS
    <2>1. DbHeight = -1 /\ IndexedHeight = -1 /\ pc = "idle"
      BY DEF Init, NoMetadata, DbHeight, OrElse, IndexedHeight, AddingBlock
    <2>2. IsChainOf(DbChain, db["sym-block"], -1) /\ IsChainOf(IndexedChain, View("sym-block"), -1)
      BY <2>1, StoredIsChain, IndexedIsChain
    <2>3. DbChain = <<>> /\ IndexedChain = <<>>
      BY <2>2 DEF IsChainOf
    <2> QED
      BY <1>2, <2>3 DEF Abstract!Init, Coins
  <1>4. Inv /\ Inv' /\ [Next]_vars => [Abstract!Next]_(Abstract!abstractVars)
    <2> SUFFICES ASSUME Inv, Inv', [Next]_vars
                 PROVE  [Abstract!Next]_(Abstract!abstractVars)
      OBVIOUS
    <2>1. Coins = Abstract!Answers(DbChain) /\ Coins' = Abstract!Answers(DbChain')
      <3>1. Inv' => (Coins = Abstract!Answers(DbChain))'
        BY <1>2, PTL
      <3> QED
        BY <1>2, <3>1 DEF Abstract!Answers, Abstract!CoinsOf, Abstract!CreatedIn,
           Abstract!SpentIn, Abstract!TxsIn, Abstract!BlocksIn, Abstract!AddressOf
    <2>2. Falls \/ Stays \/ Saves \/ Shrinks \/ \E b \in Block : Grows(b)
      BY ChainMoves
    <2> HIDE DEF Inv
    <2>3. CASE Falls
      BY <2>1, <2>3 DEF Falls, Coins, Abstract!Next, Abstract!Crash
    <2>4. CASE Stays
      BY <2>1, <2>4 DEF Stays, Coins, Abstract!abstractVars
    <2>5. CASE Saves
      BY <2>1, <2>5 DEF Saves, Coins, Abstract!Next, Abstract!SaveIndexed, Abstract!Save
    <2>6. CASE Shrinks
      BY <2>1, <2>6 DEF Shrinks, Coins, Abstract!Next, Abstract!UnindexBlock
    <2>7. CASE \E b \in Block : Grows(b)
      BY <2>1, <2>7 DEF Grows, Coins, Abstract!Next, Abstract!IndexBlock
    <2> QED
      BY <2>2, <2>3, <2>4, <2>5, <2>6, <2>7
  <1> HIDE DEF Inv
  <1> QED
    BY <1>1, <1>3, <1>4, PTL DEF Spec, ImplementsUtxoIndex, Abstract!Spec
=============================================================================
