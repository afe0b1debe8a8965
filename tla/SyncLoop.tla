------------------------------ MODULE SyncLoop ------------------------------
(***************************************************************************)
(* The sync loop (src/index.js), the clients' /block requests              *)
(* (src/services/BlockService.js), the SDK's one syncer they share, the    *)
(* block cache between them (src/BlockCache.js) and the indexer's worker   *)
(* and flushes (src/Indexer.js), a whole block at a time, on a node whose  *)
(* chain only grows.  Blocks are their heights; what a block writes is a   *)
(* symbol when the worker begins it, and a body when it is done with it:   *)
(* records, which wait in dbBatches, and list entries, which wait in       *)
(* lastAddressUtxos.                                                       *)
(***************************************************************************)
EXTENDS Integers, Sequences, FiniteSets

CONSTANTS
  MaxHeight,   \* bound: the node's chain ends here
  MaxSync,     \* blocks the syncer fetches beyond the next one (Syncer.js: 200)
  SyncLimit,   \* blocks a round of the loop asks for beyond the first (1000)
  Space,       \* of the block cache (syncBlockCache.js: 250)
  BatchSize,   \* blocks that fill a batch (BLOCK_BATCH_SIZE)
  MaxRequests  \* bound: /block requests for blocks that may not be indexed

ASSUME BoundsAreNatural ==
  /\ {MaxHeight, MaxSync, SyncLimit, MaxRequests} \subseteq Nat
  /\ {Space, BatchSize} \subseteq Nat \ {0}

Blocks == 0 .. MaxHeight
Owner  == {"loop", "client"}   \* of sync rounds, and of the saves after them
Flusher == Owner \cup {"worker", "nobody"}

VARIABLES
  tip,       \* the node's chain is 0 .. tip
  cache,     \* the block cache: held, and the order of eviction
  sdk,       \* the syncer: nextIndex and pastBlocks
  rounds,    \* calls of sync under way, by owner
  loop,      \* continueSyncIfNeeded: where it awaits, and the height it read
  client,    \* a /block request: where it awaits, its block, how many there were
  queue,     \* workQueue
  worker,    \* where the worker awaits, and its block
  height,    \* lastBlockSymbol and safeLastBlockSymbol
  batch,     \* what waits to be written, and lastSeenBlockHashes
  flushes,   \* calls of processBatches under way
  db         \* the database

vars == <<tip, cache, sdk, rounds, loop, client, queue, worker, height, batch, flushes, db>>

-----------------------------------------------------------------------------
NoRound   == [end |-> -1, asking |-> {}, fetched |-> {}]
Idle      == [at |-> "idle", block |-> 0, remove |-> FALSE, shared |-> FALSE]
NoRequest == [client EXCEPT !.at = "nothing", !.block = 0]
NoBatch   == [named |-> {}, bodies |-> {}, entries |-> {}, seen |-> {}]

Keep(order) == Len(order) <= Space

(* FAULTY: a block that is put again is evicted, and stays.                 *)
FaultyPut(c, b) ==
  LET order == Append(c.order, b) IN
    IF Keep(order) \/ b \in c.held
    THEN [held |-> c.held \cup {b}, order |-> IF Keep(order) THEN order ELSE Tail(order)]
    ELSE [held |-> (c.held \cup {b}) \ {Head(order)}, order |-> Tail(order)]

(* BlockCache.put: a block put twice is queued twice, and leaves the cache *)
(* when its first place in the queue is up.                                *)
Put(c, b) ==
  LET order == Append(c.order, b) IN
    IF Keep(order)
    THEN [held |-> c.held \cup {b}, order |-> order]
    ELSE [held |-> (c.held \cup {b}) \ {Head(order)}, order |-> Tail(order)]

(* Events of a block share the object the cache held when they arrived;    *)
(* once another object is put, earlier events keep the one they have.      *)
Parted(event, b)          == IF event.block = b THEN [event EXCEPT !.shared = FALSE] ELSE event
Flagged(event, b, remove) ==
  IF event.block = b /\ event.shared THEN [event EXCEPT !.remove = remove] ELSE event

Cached(b) ==
  /\ cache' = Put(cache, b)
  /\ queue' = [i \in DOMAIN queue |-> Parted(queue[i], b)]
  /\ worker' = Parted(worker, b)

Running == loop.at # "down"

-----------------------------------------------------------------------------
(* The process ends, by its own hand or because a promise's rejection is   *)
(* handled by nobody, and everything in memory is gone; it is started      *)
(* again, and reads what the database has.                                 *)
Exit ==
  /\ cache' = [held |-> {}, order |-> <<>>]
  /\ sdk' = [next |-> 0, past |-> <<>>]
  /\ rounds' = [o \in Owner |-> NoRound]
  /\ loop' = [at |-> "down", from |-> -1]
  /\ client' = NoRequest
  /\ queue' = <<>> /\ worker' = Idle
  /\ height' = [last |-> -1, safe |-> -1]
  /\ batch' = NoBatch /\ flushes' = {}
  /\ UNCHANGED <<tip, db>>

Restart ==
  /\ ~Running
  /\ loop' = [loop EXCEPT !.at = "look"]
  /\ height' = [last |-> db.height, safe |-> db.height]
  /\ UNCHANGED <<tip, cache, sdk, rounds, client, queue, worker, batch, flushes, db>>

NodeGrows ==
  /\ tip < MaxHeight
  /\ tip' = tip + 1
  /\ UNCHANGED <<cache, sdk, rounds, loop, client, queue, worker, height, batch, flushes, db>>

-----------------------------------------------------------------------------
(* continueSyncIfNeeded.                                                   *)
Lesser(m, n) == IF m <= n THEN m ELSE n

LoopLooks ==
  /\ loop.at \in {"look", "asleep"}
  /\ loop' = [at |-> "count", from |-> height.last]
  /\ UNCHANGED <<tip, cache, sdk, rounds, client, queue, worker, height, batch, flushes, db>>

(* FAULTY: the last block is left to the next round.                        *)
FaultyUpToDate == loop.from + 1 >= tip

UpToDate == loop.from >= tip

LoopSleeps ==
  /\ loop.at = "count" /\ UpToDate
  /\ loop' = [at |-> "asleep", from |-> -1]
  /\ UNCHANGED <<tip, cache, sdk, rounds, client, queue, worker, height, batch, flushes, db>>

(* The node does not answer, and nobody handles the rejection.             *)
CountFails == loop.at = "count" /\ Exit

(* sync(start, end) sets the next block of the one syncer, also of a round *)
(* that is under way.                                                      *)
Sync(o, start, end) ==
  /\ sdk' = [sdk EXCEPT !.next = start]
  /\ rounds' = [rounds EXCEPT ![o] = [NoRound EXCEPT !.end = end]]

LoopSyncs ==
  LET next == loop.from + 1 IN
    /\ loop.at = "count" /\ ~UpToDate
    /\ Sync("loop", next, next + Lesser(tip - next, SyncLimit))
    /\ loop' = [at |-> "sync", from |-> -1]
    /\ UNCHANGED <<tip, cache, client, queue, worker, height, batch, flushes, db>>

-----------------------------------------------------------------------------
(* A /block request by height, not the syncer's.  Once its block is there, *)
(* a safe one is answered, and any other is synced for the client, and     *)
(* saved.                                                                  *)
Serves(b, asked) ==
  \/ /\ height.safe >= b
     /\ client' = [at |-> "nothing", block |-> 0, asked |-> asked]
     /\ UNCHANGED <<sdk, rounds>>
  \/ /\ height.safe < b
     /\ Sync("client", b, b)
     /\ client' = [at |-> "sync", block |-> b, asked |-> asked]

Ask(b) ==
  /\ Running /\ client.at = "nothing" /\ client.asked < MaxRequests
  /\ b <= tip
  /\ IF b \in cache.held
     THEN Serves(b, client.asked + 1)
     ELSE /\ client' = [at |-> "fetch", block |-> b, asked |-> client.asked + 1]
          /\ UNCHANGED <<sdk, rounds>>
  /\ UNCHANGED <<tip, cache, loop, queue, worker, height, batch, flushes, db>>

ClientFetches ==
  /\ client.at = "fetch"
  /\ Cached(client.block)
  /\ Serves(client.block, client.asked)
  /\ UNCHANGED <<tip, loop, height, batch, flushes, db>>

-----------------------------------------------------------------------------
(* The SDK's syncer (external).  A round fetches a range of blocks through *)
(* the server's own /block route, which looks in the cache, asks the node  *)
(* for what it lacks and puts the answer into the cache; then it emits one *)
(* block after the other.                                                  *)
Open(o) == rounds[o].end >= 0 /\ sdk.next <= rounds[o].end
Ready(o) == Open(o) /\ rounds[o].asking = {} /\ sdk.next \in rounds[o].fetched

Fetch(o) ==
  LET range == sdk.next .. Lesser(sdk.next + MaxSync, rounds[o].end) IN
    /\ Open(o) /\ rounds[o].asking = {} /\ sdk.next \notin rounds[o].fetched
    /\ rounds' = [rounds EXCEPT ![o].asking = range \ cache.held,
                                ![o].fetched = range \cap cache.held]
    /\ UNCHANGED <<tip, cache, sdk, loop, client, queue, worker, height, batch, flushes, db>>

(* The answers come in any order, and perhaps after somebody else's.       *)
Fetched(o, b) ==
  /\ b \in rounds[o].asking
  /\ Cached(b)
  /\ rounds' = [rounds EXCEPT ![o].asking = @ \ {b}, ![o].fetched = @ \cup {b}]
  /\ UNCHANGED <<tip, sdk, loop, client, height, batch, flushes, db>>

LastPast == IF sdk.past = <<>> THEN -1 ELSE sdk.past[Len(sdk.past)]

(* The next block continues the last one emitted, or that one is taken     *)
(* back.                                                                   *)
Continues == sdk.past = <<>> \/ sdk.next = LastPast + 1
EventBlock == IF Continues THEN sdk.next ELSE LastPast
TakesBackGenesis == ~Continues /\ LastPast = 0

(* handleBlock; an idle worker takes the block within the same call.       *)
NewEvent == [at |-> "queued", block |-> EventBlock, remove |-> ~Continues, shared |-> TRUE]

Delivered ==
  IF worker.at = "idle"
  THEN worker' = [NewEvent EXCEPT !.at = "taken"] /\ UNCHANGED queue
  ELSE /\ worker' = Flagged(worker, EventBlock, ~Continues)
       /\ queue' = Append([i \in DOMAIN queue |-> Flagged(queue[i], EventBlock, ~Continues)],
                          NewEvent)

(* The first block the index ever sees has to be the genesis block.        *)
RefusesFirst == worker.at = "idle" /\ height.last = -1 /\ EventBlock # 0

Emit(o) ==
  /\ Ready(o) /\ EventBlock \in cache.held /\ ~TakesBackGenesis /\ ~RefusesFirst
  /\ Delivered
  /\ sdk' = IF Continues
            THEN [next |-> sdk.next + 1, past |-> Append(sdk.past, sdk.next)]
            ELSE [next |-> LastPast, past |-> SubSeq(sdk.past, 1, Len(sdk.past) - 1)]
  /\ rounds' = [rounds EXCEPT ![o].fetched = @ \ {sdk.next}]
  /\ UNCHANGED <<tip, cache, loop, client, height, batch, flushes, db>>

EmitRefused(o) ==
  /\ Ready(o) /\ EventBlock \in cache.held /\ ~TakesBackGenesis /\ RefusesFirst
  /\ Exit

(* A round ends with an error when handleBlock finds no data for its       *)
(* block, or when the genesis block would have to be taken back: a client  *)
(* gets an error, but nobody handles the loop's rejection.                 *)
RoundFails(o) ==
  /\ Ready(o) /\ (EventBlock \notin cache.held \/ TakesBackGenesis)
  /\ IF o = "loop"
     THEN Exit
     ELSE /\ rounds' = [rounds EXCEPT ![o] = NoRound] /\ client' = NoRequest
          /\ UNCHANGED <<tip, cache, sdk, loop, queue, worker, height, batch, flushes, db>>

(* A round is over when the next block is past its end, whoever got there. *)
RoundOver(o) == rounds[o].end >= 0 /\ ~Open(o) /\ rounds[o].asking = {}
Closed(o)    == [rounds EXCEPT ![o] = NoRound]

-----------------------------------------------------------------------------
(* processBatches: what waits in dbBatches is taken; the lists are read,   *)
(* one await after the other; all is written at once and the caches are    *)
(* cleared, also of what came in between; what the indexer has reached by  *)
(* then counts as safe.                                                    *)
Flush(of, b, removed) ==
  [of |-> of, at |-> IF b.entries = {} THEN "write" ELSE "lists", named |-> b.named, bodies |-> b.bodies,
   entries |-> b.entries, removed |-> removed, height |-> height.last]

Taken(b) == [b EXCEPT !.named = {}, !.bodies = {}]

At(o) == IF o = "loop" THEN loop.at ELSE client.at

(* The worker, the loop and the client go on once their flush is done;     *)
(* flushes still under way in their name are nobody's from then on.        *)
GoesOn(of) ==
  /\ worker' = CASE of # "worker"         -> worker
                 [] worker.at = "clear"  -> [worker EXCEPT !.at = "remove"]
                 [] OTHER                -> [Idle EXCEPT !.at = "next"]
  /\ loop' = IF of = "loop" THEN [loop EXCEPT !.at = "look"] ELSE loop
  /\ client' = IF of = "client" THEN NoRequest ELSE client

Disowned(of, fs) == {IF f.of = of THEN [f EXCEPT !.of = "nobody"] ELSE f : f \in fs}

(* Another flush may have cleared lastAddressUtxos before its lists were   *)
(* read.                                                                   *)
ReadLists(f) ==
  /\ f \in flushes /\ f.at = "lists" /\ f.entries \subseteq batch.entries
  /\ flushes' = (flushes \ {f}) \cup {[f EXCEPT !.at = "write"]}
  /\ UNCHANGED <<tip, cache, sdk, rounds, loop, client, queue, worker, height, batch, db>>

(* Only a save that waited for no worker reports the failure to a client;  *)
(* what it had taken is lost.                                              *)
MissLists(f) ==
  /\ f \in flushes /\ f.at = "lists" /\ ~(f.entries \subseteq batch.entries)
  /\ IF f.of = "client" /\ client.at = "flush"
     THEN /\ flushes' = flushes \ {f}
          /\ client' = NoRequest
          /\ UNCHANGED <<tip, cache, sdk, rounds, loop, queue, worker, height, batch, db>>
     ELSE Exit

(* FAULTY: the records of the block indexed last stay behind.                *)
FaultyWritten(f) ==
  [named   |-> (db.named \cup f.named) \ f.removed,
   bodies  |-> (db.bodies \cup {b \in f.bodies : b < f.height}) \ f.removed,
   entries |-> (db.entries \cup f.entries) \ f.removed,
   height  |-> f.height]

Written(f) ==
  [named   |-> (db.named \cup f.named) \ f.removed,
   bodies  |-> (db.bodies \cup f.bodies) \ f.removed,
   entries |-> (db.entries \cup f.entries) \ f.removed,
   height  |-> f.height]

Write(f) ==
  /\ f \in flushes /\ f.at = "write"
  /\ db' = Written(f)
  /\ batch' = [batch EXCEPT !.entries = {}, !.seen = {}]
  /\ height' = [height EXCEPT !.safe = height.last]
  /\ flushes' = Disowned(f.of, flushes \ {f})
  /\ GoesOn(f.of)
  /\ UNCHANGED <<tip, cache, sdk, rounds, queue>>

-----------------------------------------------------------------------------
(* When a round is over its owner calls saveState: the batches are flushed *)
(* at once, or when the worker quits.                                      *)
Busy == worker.at # "idle"

Moves(o, at) ==
  /\ loop' = IF o = "loop" THEN [loop EXCEPT !.at = at] ELSE loop
  /\ client' = IF o = "client" THEN [client EXCEPT !.at = at] ELSE client

SaveWaits(o) ==
  /\ RoundOver(o) /\ Busy
  /\ rounds' = Closed(o) /\ Moves(o, "wait")
  /\ UNCHANGED <<tip, cache, sdk, queue, worker, height, batch, flushes, db>>

SaveNow(o) ==
  /\ RoundOver(o) /\ ~Busy /\ height.last >= 0
  /\ rounds' = Closed(o) /\ Moves(o, "flush")
  /\ flushes' = flushes \cup {Flush(o, batch, {})}
  /\ batch' = Taken(batch)
  /\ UNCHANGED <<tip, cache, sdk, queue, worker, height, db>>

(* There is no symbol for the height of an empty index: the save fails.    *)
SaveNothing(o) ==
  /\ RoundOver(o) /\ ~Busy /\ height.last < 0
  /\ IF o = "loop" THEN Exit
     ELSE /\ rounds' = Closed(o) /\ client' = NoRequest
          /\ UNCHANGED <<tip, cache, sdk, loop, queue, worker, height, batch, flushes, db>>

-----------------------------------------------------------------------------
(* The worker, a block at a time.                                          *)
Known(b) == b \in batch.seen \cup db.named

Take ==
  /\ worker.at = "next" /\ queue # <<>>
  /\ worker' = [Head(queue) EXCEPT !.at = "taken"]
  /\ queue' = Tail(queue)
  /\ UNCHANGED <<tip, cache, sdk, rounds, loop, client, height, batch, flushes, db>>

SkipBlock ==
  /\ worker.at = "taken" /\ ~worker.remove /\ Known(worker.block)
  /\ worker' = [Idle EXCEPT !.at = "next"]
  /\ UNCHANGED <<tip, cache, sdk, rounds, loop, client, queue, height, batch, flushes, db>>

(* Its symbol and its height count from the start.                         *)
BeginBlock ==
  /\ worker.at = "taken" /\ ~worker.remove /\ ~Known(worker.block)
  /\ worker' = [Idle EXCEPT !.at = "index", !.block = worker.block]
  /\ height' = [height EXCEPT !.last = worker.block]
  /\ batch' = [batch EXCEPT !.named = @ \cup {worker.block}, !.seen = @ \cup {worker.block}]
  /\ UNCHANGED <<tip, cache, sdk, rounds, loop, client, queue, flushes, db>>

(* The body; a full batch is flushed.                                      *)
IndexBlock ==
  LET b == [batch EXCEPT !.bodies = @ \cup {worker.block},
                         !.entries = @ \cup {worker.block}]
      full == Cardinality(b.named) >= BatchSize
  IN
    /\ worker.at = "index"
    /\ worker' = [worker EXCEPT !.at = IF full THEN "flush" ELSE "next"]
    /\ batch' = IF full THEN Taken(b) ELSE b
    /\ flushes' = IF full THEN flushes \cup {Flush("worker", b, {})} ELSE flushes
    /\ UNCHANGED <<tip, cache, sdk, rounds, loop, client, queue, height, db>>

(* A block is removed between two flushes, if it and its parent are known. *)
BeginRemoval ==
  /\ worker.at = "taken" /\ worker.remove
  /\ IF Known(worker.block) /\ (worker.block > 0 => Known(worker.block - 1))
     THEN /\ worker' = [Idle EXCEPT !.at = "clear", !.block = worker.block]
          /\ batch' = Taken(batch)
          /\ flushes' = flushes \cup {Flush("worker", batch, {})}
          /\ UNCHANGED <<tip, cache, sdk, rounds, loop, client, queue, height, db>>
     ELSE Exit

RemoveBlock ==
  LET last == worker.block - 1 IN
    /\ worker.at = "remove"
    /\ worker' = [worker EXCEPT !.at = "flush"]
    /\ height' = [last |-> last, safe |-> last]
    /\ batch' = Taken(batch)
    /\ flushes' = flushes \cup {[Flush("worker", batch, {worker.block}) EXCEPT !.height = last]}
    /\ UNCHANGED <<tip, cache, sdk, rounds, loop, client, queue, db>>

Waiting == {o \in Owner : At(o) = "wait"}

(* FAULTY: only the loop's save hears of it.                                *)
FaultyHears == {o \in Waiting : o = "loop"}

Hears == Waiting

(* The queue is empty: whoever waits for that flushes, one of them first.  *)
Quit ==
  /\ worker.at = "next" /\ queue = <<>>
  /\ worker' = Idle
  /\ \/ Hears = {} /\ UNCHANGED <<batch, flushes>>
     \/ \E first \in Hears :
          /\ batch' = Taken(batch)
          /\ flushes' = flushes \cup {Flush(first, batch, {})}
                                \cup {Flush(o, Taken(batch), {}) : o \in Hears \ {first}}
  /\ UNCHANGED <<tip, cache, sdk, rounds, loop, client, queue, height, db>>

-----------------------------------------------------------------------------
Init ==
  /\ tip \in Blocks
  /\ cache = [held |-> {}, order |-> <<>>]
  /\ sdk = [next |-> 0, past |-> <<>>]
  /\ rounds = [o \in Owner |-> NoRound]
  /\ loop = [at |-> "look", from |-> -1]
  /\ client = [at |-> "nothing", block |-> 0, asked |-> 0]
  /\ queue = <<>> /\ worker = Idle
  /\ height = [last |-> -1, safe |-> -1]
  /\ batch = NoBatch /\ flushes = {}
  /\ db = [named |-> {}, bodies |-> {}, entries |-> {}, height |-> -1]

Loop == LoopLooks \/ LoopSleeps \/ LoopSyncs
Round(o) ==
  \/ Fetch(o) \/ (\E b \in Blocks : Fetched(o, b))
  \/ Emit(o) \/ EmitRefused(o) \/ RoundFails(o)
Save(o) == SaveWaits(o) \/ SaveNow(o) \/ SaveNothing(o)
Flushing(of) == \E f \in flushes : f.of = of /\ (ReadLists(f) \/ MissLists(f) \/ Write(f))
Worker ==
  \/ Take \/ SkipBlock \/ BeginBlock \/ IndexBlock \/ BeginRemoval \/ RemoveBlock
  \/ Quit

Next ==
  \/ NodeGrows \/ Restart \/ CountFails \/ Loop \/ ClientFetches \/ Worker
  \/ \E of \in Flusher : Flushing(of)
  \/ \E b \in Blocks : Ask(b)
  \/ \E o \in Owner : Round(o) \/ Save(o)

(* Everything that runs on the event loop gets its turn, calls return, and *)
(* a process that ended is started again.  Nothing is assumed of the node's *)
(* growth, of clients, or of how often the node fails.                     *)
Fairness ==
  /\ WF_vars(Restart) /\ WF_vars(Loop) /\ WF_vars(ClientFetches) /\ WF_vars(Worker)
  /\ \A o \in Owner : WF_vars(Round(o) \/ Save(o))
  /\ \A of \in Flusher : WF_vars(Flushing(of))

Spec == Init /\ [][Next]_vars
FairSpec == Spec /\ Fairness

-----------------------------------------------------------------------------
Event(at) == [at : at, block : Blocks, remove : BOOLEAN, shared : BOOLEAN]
Height == Blocks \cup {-1}
Queued(q) == {q[i] : i \in DOMAIN q}

(* Every variable keeps its shape; the block cache holds only what is also *)
(* queued for eviction, and no more than its space.                        *)
TypeOK ==
  /\ tip \in Blocks
  /\ cache.held \subseteq Queued(cache.order)
  /\ cache.order \in Seq(Blocks) /\ Len(cache.order) <= Space
  /\ sdk.next \in 0 .. MaxHeight + 1 /\ sdk.past \in Seq(Blocks)
  /\ rounds \in [Owner -> [end : Height, asking : SUBSET Blocks, fetched : SUBSET Blocks]]
  /\ loop \in [at : {"look", "count", "asleep", "sync", "wait", "flush", "down"},
               from : Height]
  /\ client \in [at : {"nothing", "fetch", "sync", "wait", "flush"},
                 block : Blocks, asked : 0 .. MaxRequests]
  /\ queue \in Seq(Event({"queued"}))
  /\ worker \in Event({"idle", "taken", "index", "flush", "clear", "remove", "next"})
  /\ worker.at = "idle" => queue = <<>>
  /\ height \in [last : Height, safe : Height]
  /\ batch \in [named : SUBSET Blocks, bodies : SUBSET Blocks, entries : SUBSET Blocks,
                seen : SUBSET Blocks]
  /\ db \in [named : SUBSET Blocks, bodies : SUBSET Blocks, entries : SUBSET Blocks,
             height : Height]

(* An event finds the data of its block in the cache.                      *)
EventsFindTheirBlock == \A o \in Owner : Ready(o) => EventBlock \in cache.held

(* processBatches' promise: what is announced as safe is in the database,  *)
(* every block of it with all it wrote.                                    *)
SafeBlocksAreStored == 0 .. height.safe \subseteq db.bodies \cap db.entries

Undisturbed == client.at # "sync"

(* As long as no block is synced for a client on the side, the loop keeps  *)
(* that promise, through restarts and while the chain grows.               *)
AloneTheLoopIsSafe == []Undisturbed => []SafeBlocksAreStored

(* Unless the node fails for ever, the index announces all of its chain,   *)
(* again and again as the chain grows.                                     *)
NodeRecovers == <>[][~CountFails]_vars
CatchesUp == NodeRecovers => []<>(height.safe = tip)

(* Alone, the loop sees to that, whatever evictions and failures of the    *)
(* node have ended the process on the way.                                 *)
AloneTheLoopCatchesUp == []Undisturbed => CatchesUp

(* Whoever waits for a save, for the worker to quit or for its flush, gets *)
(* on with it, or the process ends.                                        *)
Saving(o) == At(o) \in {"wait", "flush"}
SavesEnd == \A o \in Owner : Saving(o) ~> ~Saving(o)
=============================================================================
