--------------------------- MODULE SyncLoopProofs ---------------------------
(***************************************************************************)
(* Proofs about SyncLoop, for every length of the node's chain, every      *)
(* range and batch size and any space of the block cache.                  *)
(***************************************************************************)
EXTENDS SyncLoop, SequenceTheorems, TLAPS

FlushType ==
  [of : Flusher, at : {"lists", "write"}, named : SUBSET Blocks, bodies : SUBSET Blocks,
   entries : SUBSET Blocks, removed : SUBSET Blocks, height : Height]

TypeInv == TypeOK /\ flushes \subseteq FlushType

WorkerAt == {"idle", "taken", "index", "flush", "clear", "remove", "next"}

-----------------------------------------------------------------------------
(* Types.                                                                  *)

LEMMA Zero == 0 \in Blocks /\ -1 \in Height /\ Blocks \subseteq Int /\ Height \subseteq Int
  BY BoundsAreNatural DEF Blocks, Height

LEMMA Bounds ==
  /\ MaxHeight \in Nat /\ MaxSync \in Nat /\ SyncLimit \in Nat /\ MaxRequests \in Nat
  /\ Space \in Nat \ {0} /\ BatchSize \in Nat \ {0}
  BY BoundsAreNatural

LEMMA WorkersBlock ==
  ASSUME TypeOK
  PROVE  /\ worker.block \in Blocks /\ worker.block \in Height /\ worker.block \in Int
         /\ worker.block - 1 \in Height
  <1>1. worker.block \in Blocks
    BY DEF TypeOK, Event
  <1> QED
    BY <1>1, Bounds DEF Blocks, Height

LEMMA FlushIsTyped ==
  ASSUME TypeInv, NEW of \in Flusher,
         NEW b \in [named : SUBSET Blocks, bodies : SUBSET Blocks, entries : SUBSET Blocks,
                    seen : SUBSET Blocks],
         NEW removed \in SUBSET Blocks
  PROVE  Flush(of, b, removed) \in FlushType
  BY DEF Flush, FlushType, TypeInv, TypeOK

LEMMA PutIsTyped ==
  ASSUME TypeInv, NEW b \in Blocks
  PROVE  /\ Put(cache, b).held \subseteq Queued(Put(cache, b).order)
         /\ Put(cache, b).order \in Seq(Blocks) /\ Len(Put(cache, b).order) <= Space
  <1> DEFINE order == Append(cache.order, b)
  <1>1. /\ cache.order \in Seq(Blocks) /\ Len(cache.order) <= Space
        /\ cache.held \subseteq Queued(cache.order)
    BY DEF TypeInv, TypeOK
  <1>2. /\ order \in Seq(Blocks) /\ Len(order) = Len(cache.order) + 1 /\ order # <<>>
        /\ \A i \in DOMAIN cache.order : i \in DOMAIN order /\ order[i] = cache.order[i]
        /\ order[Len(order)] = b
    BY <1>1, AppendProperties
  <1>3. cache.held \cup {b} \subseteq Queued(order)
    BY <1>1, <1>2 DEF Queued
  <1>4. CASE Keep(order)
    BY <1>2, <1>3, <1>4 DEF Put, Keep
  <1>5. CASE ~Keep(order)
    <2>1. /\ Tail(order) \in Seq(Blocks) /\ Len(Tail(order)) = Len(order) - 1
          /\ \A i \in 1 .. Len(Tail(order)) : Tail(order)[i] = order[i + 1]
          /\ Head(order) = order[1]
      BY <1>2, HeadTailProperties
    <2>2. \A x \in Queued(order) : x # Head(order) => x \in Queued(Tail(order))
      <3> SUFFICES ASSUME NEW i \in DOMAIN order, order[i] # Head(order)
                   PROVE  order[i] \in Queued(Tail(order))
        BY DEF Queued
      <3>1. i - 1 \in DOMAIN Tail(order) /\ Tail(order)[i - 1] = order[i]
        <4> HIDE DEF order
        <4>1. i \in 1 .. Len(order) /\ i # 1 /\ Len(order) \in Nat
          BY <1>2, <2>1
        <4>2. i - 1 \in 1 .. Len(Tail(order)) /\ Len(Tail(order)) \in Nat
          BY <2>1, <4>1
        <4> QED
          BY <2>1, <4>1, <4>2
      <3> QED
        BY <3>1 DEF Queued
    <2>3. Len(Tail(order)) <= Space
      BY <1>1, <1>2, <2>1
    <2> HIDE DEF order
    <2>4. Put(cache, b) = [held |-> (cache.held \cup {b}) \ {Head(order)}, order |-> Tail(order)]
      BY <1>5 DEF Put, order
    <2> QED
      BY <1>3, <2>1, <2>2, <2>3, <2>4
  <1> QED
    BY <1>4, <1>5

(* What a put does to the events: only their sharing.                      *)
LEMMA PartedEvents ==
  ASSUME TypeInv, NEW b \in Blocks, Cached(b)
  PROVE  /\ cache'.held \subseteq Queued(cache'.order)
         /\ cache'.order \in Seq(Blocks) /\ Len(cache'.order) <= Space
         /\ queue' \in Seq(Event({"queued"})) /\ DOMAIN queue' = DOMAIN queue
         /\ \A i \in DOMAIN queue :
              queue'[i].block = queue[i].block /\ queue'[i].remove = queue[i].remove
         /\ worker' \in Event(WorkerAt) /\ worker'.at = worker.at
         /\ worker'.block = worker.block /\ worker'.remove = worker.remove
         /\ queue = <<>> => queue' = <<>>
  <1>1. \A e, at : e \in Event(at) =>
          /\ Parted(e, b) \in Event(at) /\ Parted(e, b).block = e.block
          /\ Parted(e, b).remove = e.remove /\ Parted(e, b).at = e.at
    BY DEF Parted, Event
  <1>2. queue \in Seq(Event({"queued"})) /\ worker \in Event(WorkerAt)
    BY DEF TypeInv, TypeOK, WorkerAt
  <1>3. queue' = [i \in DOMAIN queue |-> Parted(queue[i], b)] /\ worker' = Parted(worker, b)
    BY DEF Cached
  <1>4. /\ queue' \in Seq(Event({"queued"})) /\ DOMAIN queue' = DOMAIN queue
        /\ queue = <<>> => queue' = <<>>
    BY <1>1, <1>2, <1>3
  <1>5. cache' = Put(cache, b)
    BY DEF Cached
  <1> QED
    BY <1>1, <1>2, <1>3, <1>4, <1>5, PutIsTyped

-----------------------------------------------------------------------------
LEMMA LoopTypes ==
  ASSUME TypeInv, LoopLooks \/ LoopSleeps \/ LoopSyncs
  PROVE  TypeInv'
  <1> USE DEF TypeInv, TypeOK
  <1>1. CASE LoopLooks \/ LoopSleeps
    BY <1>1, Zero DEF LoopLooks, LoopSleeps
  <1>2. CASE LoopSyncs
    <2> DEFINE next == loop.from + 1
               end == next + Lesser(tip - next, SyncLimit)
    <2>1. next \in Blocks /\ end \in Height /\ SyncLimit \in Nat
      <3>1. loop.from \in Int /\ loop.from >= -1 /\ tip \in Int /\ tip <= MaxHeight /\ loop.from < tip
        BY <1>2, Bounds DEF LoopSyncs, UpToDate, Blocks, Height
      <3> HIDE DEF TypeInv, TypeOK
      <3>2. Lesser(tip - next, SyncLimit) \in Nat /\ Lesser(tip - next, SyncLimit) <= tip - next
        BY <3>1, Bounds DEF Lesser
      <3> QED
        BY <3>1, <3>2, Bounds DEF Blocks, Height
    <2>2. /\ sdk' = [sdk EXCEPT !.next = next] /\ loop' = [at |-> "sync", from |-> -1]
          /\ rounds' = [rounds EXCEPT !["loop"] = [NoRound EXCEPT !.end = end]]
          /\ UNCHANGED <<tip, cache, client, queue, worker, height, batch, flushes, db>>
      BY <1>2 DEF LoopSyncs, Sync
    <2> HIDE DEF next, end
    <2>3. [NoRound EXCEPT !.end = end]
            \in [end : Height, asking : SUBSET Blocks, fetched : SUBSET Blocks]
      BY <2>1 DEF NoRound
    <2>4. sdk'.next \in 0 .. MaxHeight + 1 /\ sdk'.past = sdk.past
      BY <2>1, <2>2, BoundsAreNatural DEF Blocks
    <2> QED
      BY <2>2, <2>3, <2>4, Zero DEF Owner
  <1> QED
    BY <1>1, <1>2

LEMMA NoRequestIsTyped ==
  ASSUME TypeOK
  PROVE  NoRequest \in [at : {"nothing", "fetch", "sync", "wait", "flush"},
                        block : Blocks, asked : 0 .. MaxRequests]
  BY Zero DEF TypeOK, NoRequest

LEMMA ExitTypes ==
  ASSUME TypeInv, Exit
  PROVE  TypeInv'
  BY Zero, NoRequestIsTyped, BoundsAreNatural
     DEF TypeInv, TypeOK, Exit, Idle, NoBatch, NoRound, Event, Queued

LEMMA ServesTypes ==
  ASSUME TypeInv, NEW b \in Blocks, NEW asked \in 0 .. MaxRequests, Serves(b, asked)
  PROVE  /\ client' \in [at : {"nothing", "fetch", "sync", "wait", "flush"},
                          block : Blocks, asked : 0 .. MaxRequests]
         /\ sdk'.next \in 0 .. MaxHeight + 1 /\ sdk'.past \in Seq(Blocks)
         /\ rounds' \in [Owner -> [end : Height, asking : SUBSET Blocks, fetched : SUBSET Blocks]]
  <1> USE DEF TypeInv, TypeOK
  <1>1. b \in Height /\ b \in 0 .. MaxHeight + 1
    BY BoundsAreNatural DEF Blocks, Height
  <1>2. CASE UNCHANGED <<sdk, rounds>> /\ client' = [at |-> "nothing", block |-> 0, asked |-> asked]
    BY <1>2, Zero
  <1>3. CASE Sync("client", b, b) /\ client' = [at |-> "sync", block |-> b, asked |-> asked]
    <2>1. [NoRound EXCEPT !.end = b]
            \in [end : Height, asking : SUBSET Blocks, fetched : SUBSET Blocks]
      BY <1>1 DEF NoRound
    <2>2. /\ sdk' = [sdk EXCEPT !.next = b]
          /\ rounds' = [rounds EXCEPT !["client"] = [NoRound EXCEPT !.end = b]]
      BY <1>3 DEF Sync
    <2>3. sdk'.next \in 0 .. MaxHeight + 1 /\ sdk'.past = sdk.past
      BY <1>1, <2>2
    <2> QED
      BY <1>3, <2>1, <2>2, <2>3 DEF Owner
  <1> QED
    BY <1>2, <1>3 DEF Serves

LEMMA ClientTypes ==
  ASSUME TypeInv, ClientFetches \/ \E b \in Blocks : Ask(b)
  PROVE  TypeInv'
  <1> USE DEF TypeInv, TypeOK
  <1>1. ASSUME NEW b \in Blocks, Ask(b)
        PROVE  TypeInv'
    <2>1. client.asked + 1 \in 0 .. MaxRequests
      BY <1>1, BoundsAreNatural DEF Ask
    <2>2. UNCHANGED <<tip, cache, loop, queue, worker, height, batch, flushes, db>>
      BY <1>1 DEF Ask
    <2>3. CASE b \in cache.held
      BY <1>1, <2>1, <2>2, <2>3, ServesTypes DEF Ask
    <2>4. CASE b \notin cache.held
      BY <1>1, <2>1, <2>2, <2>4 DEF Ask
    <2> QED
      BY <2>3, <2>4
  <1>2. CASE ClientFetches
    <2>1. client.block \in Blocks /\ client.asked \in 0 .. MaxRequests
      OBVIOUS
    <2>2. /\ Cached(client.block) /\ Serves(client.block, client.asked)
          /\ UNCHANGED <<tip, loop, height, batch, flushes, db>>
      BY <1>2 DEF ClientFetches
    <2> QED
      BY <2>1, <2>2, PartedEvents, ServesTypes DEF WorkerAt
  <1> QED
    BY <1>1, <1>2

LEMMA LastPastIsTyped ==
  ASSUME TypeOK, sdk.past # <<>>
  PROVE  LastPast \in Blocks
  BY DEF TypeOK, LastPast

LEMMA EventIsTyped ==
  ASSUME TypeOK, NEW o \in Owner, Ready(o)
  PROVE  /\ sdk.next \in Blocks /\ EventBlock \in Blocks
         /\ NewEvent \in Event({"queued"})
         /\ [NewEvent EXCEPT !.at = "taken"] \in Event({"taken"})
  <1>1. sdk.next \in Blocks
    BY DEF TypeOK, Ready
  <1>2. EventBlock \in Blocks
    BY <1>1, LastPastIsTyped DEF EventBlock, Continues
  <1> QED
    BY <1>1, <1>2 DEF NewEvent, Event, Continues

LEMMA RoundTypes ==
  ASSUME TypeInv, NEW o \in Owner, Round(o)
  PROVE  TypeInv'
  <1> USE DEF TypeInv, TypeOK
  <1>1. CASE Fetch(o)
    <2> DEFINE range == sdk.next .. Lesser(sdk.next + MaxSync, rounds[o].end)
    <2>1. range \subseteq Blocks
      <3>1. sdk.next \in Nat /\ rounds[o].end \in Int /\ rounds[o].end <= MaxHeight
        BY Bounds DEF Blocks, Height
      <3> HIDE DEF TypeInv, TypeOK
      <3>2. Lesser(sdk.next + MaxSync, rounds[o].end) \in Int
            /\ Lesser(sdk.next + MaxSync, rounds[o].end) <= MaxHeight
        BY <3>1, Bounds DEF Lesser
      <3> QED
        BY <3>1, <3>2, Bounds DEF Blocks
    <2> HIDE DEF range
    <2>2. /\ rounds' = [rounds EXCEPT ![o].asking = range \ cache.held,
                                      ![o].fetched = range \cap cache.held]
          /\ UNCHANGED <<tip, cache, sdk, loop, client, queue, worker, height, batch, flushes, db>>
      BY <1>1 DEF Fetch, range
    <2> QED
      BY <2>1, <2>2
  <1>2. ASSUME NEW b \in Blocks, Fetched(o, b)
        PROVE  TypeInv'
    BY <1>2, PartedEvents DEF Fetched, WorkerAt
  <1>3. CASE Emit(o)
    <2>1. Ready(o) /\ ~TakesBackGenesis
      BY <1>3 DEF Emit
    <2>2. sdk'.next \in 0 .. MaxHeight + 1 /\ sdk'.past \in Seq(Blocks)
      <3>1. CASE Continues
        <4>1. sdk.next \in Blocks /\ Append(sdk.past, sdk.next) \in Seq(Blocks)
          BY <2>1, EventIsTyped, AppendProperties
        <4>2. sdk' = [next |-> sdk.next + 1, past |-> Append(sdk.past, sdk.next)]
          BY <1>3, <3>1 DEF Emit
        <4> HIDE DEF TypeInv, TypeOK
        <4> QED
          BY <4>1, <4>2, Bounds DEF Blocks
      <3>2. CASE ~Continues
        <4>1. sdk.past # <<>> /\ LastPast \in Blocks
          BY <3>2, LastPastIsTyped DEF Continues
        <4>2. SubSeq(sdk.past, 1, Len(sdk.past) - 1) \in Seq(Blocks)
          BY <4>1, SubSeqProperties
        <4> QED
          BY <1>3, <3>2, <4>1, <4>2, BoundsAreNatural DEF Emit, Blocks
      <3> QED
        BY <3>1, <3>2
    <2>3. rounds' \in [Owner -> [end : Height, asking : SUBSET Blocks, fetched : SUBSET Blocks]]
      BY <1>3 DEF Emit
    <2>4. /\ queue' \in Seq(Event({"queued"})) /\ worker' \in Event(WorkerAt)
          /\ worker'.at = "idle" => queue' = <<>>
      <3>1. CASE worker.at = "idle"
        BY <1>3, <2>1, <3>1, EventIsTyped DEF Emit, Delivered, Event, WorkerAt
      <3>2. CASE worker.at # "idle"
        <4> DEFINE flagged == [i \in DOMAIN queue |-> Flagged(queue[i], EventBlock, ~Continues)]
        <4>1. \A e, at : e \in Event(at) =>
                /\ Flagged(e, EventBlock, ~Continues) \in Event(at)
                /\ Flagged(e, EventBlock, ~Continues).at = e.at
          BY DEF Flagged, Event, Continues
        <4>2. flagged \in Seq(Event({"queued"}))
          BY <4>1
        <4>3. queue' = Append(flagged, NewEvent) /\ worker' = Flagged(worker, EventBlock, ~Continues)
          BY <1>3, <3>2 DEF Emit, Delivered
        <4> HIDE DEF flagged
        <4>4. queue' \in Seq(Event({"queued"}))
          BY <2>1, <4>2, <4>3, EventIsTyped, AppendProperties
        <4>5. worker' \in Event(WorkerAt) /\ worker'.at = worker.at
          BY <4>1, <4>3 DEF WorkerAt
        <4> QED
          BY <3>2, <4>4, <4>5
      <3> QED
        BY <3>1, <3>2
    <2> QED
      BY <1>3, <2>2, <2>3, <2>4 DEF Emit, WorkerAt
  <1>4. CASE EmitRefused(o)
    BY <1>4, ExitTypes DEF EmitRefused
  <1>5. CASE RoundFails(o)
    <2>1. CASE o = "loop"
      BY <1>5, <2>1, ExitTypes DEF RoundFails
    <2>2. CASE o # "loop"
      BY <1>5, <2>2, NoRequestIsTyped, Zero DEF RoundFails, NoRound
    <2> QED
      BY <2>1, <2>2
  <1> QED
    BY <1>1, <1>2, <1>3, <1>4, <1>5 DEF Round

LEMMA ClosedIsTyped ==
  ASSUME TypeOK, NEW o \in Owner
  PROVE  Closed(o) \in [Owner -> [end : Height, asking : SUBSET Blocks, fetched : SUBSET Blocks]]
  BY Zero DEF TypeOK, Closed, NoRound

LEMMA MovesTypes ==
  ASSUME TypeOK, NEW o \in Owner, NEW at \in {"wait", "flush"}, Moves(o, at)
  PROVE  /\ loop' \in [at : {"look", "count", "asleep", "sync", "wait", "flush", "down"},
                        from : Height]
         /\ client' \in [at : {"nothing", "fetch", "sync", "wait", "flush"},
                          block : Blocks, asked : 0 .. MaxRequests]
  BY DEF TypeOK, Moves

LEMMA TakenIsTyped ==
  ASSUME NEW b \in [named : SUBSET Blocks, bodies : SUBSET Blocks, entries : SUBSET Blocks,
                    seen : SUBSET Blocks]
  PROVE  Taken(b) \in [named : SUBSET Blocks, bodies : SUBSET Blocks, entries : SUBSET Blocks,
                       seen : SUBSET Blocks]
  BY DEF Taken

LEMMA SaveTypes ==
  ASSUME TypeInv, NEW o \in Owner, Save(o)
  PROVE  TypeInv'
  <1> USE DEF TypeInv, TypeOK
  <1>1. CASE SaveWaits(o)
    BY <1>1, ClosedIsTyped, MovesTypes DEF SaveWaits
  <1>2. CASE SaveNow(o)
    <2>1. Flush(o, batch, {}) \in FlushType
      BY FlushIsTyped DEF Flusher
    <2> QED
      BY <1>2, <2>1, ClosedIsTyped, MovesTypes, TakenIsTyped DEF SaveNow
  <1>3. CASE SaveNothing(o)
    BY <1>3, ExitTypes, ClosedIsTyped, NoRequestIsTyped DEF SaveNothing
  <1> QED
    BY <1>1, <1>2, <1>3 DEF Save

LEMMA FlushTypes ==
  ASSUME TypeInv, NEW f \in flushes, ReadLists(f) \/ MissLists(f) \/ Write(f)
  PROVE  TypeInv'
  <1> USE DEF TypeInv, TypeOK
  <1>1. f \in FlushType
    OBVIOUS
  <1>2. CASE ReadLists(f)
    <2>1. [f EXCEPT !.at = "write"] \in FlushType
      BY <1>1 DEF FlushType
    <2> QED
      BY <1>2, <2>1 DEF ReadLists
  <1>3. CASE MissLists(f)
    BY <1>3, ExitTypes, NoRequestIsTyped DEF MissLists
  <1>4. CASE Write(f)
    <2>1. db' \in [named : SUBSET Blocks, bodies : SUBSET Blocks, entries : SUBSET Blocks,
                   height : Height]
      BY <1>1, <1>4 DEF Write, Written, FlushType
    <2>2. flushes' \subseteq FlushType
      <3>1. \A e \in FlushType : [e EXCEPT !.of = "nobody"] \in FlushType
        BY DEF FlushType, Flusher
      <3> QED
        BY <1>4, <3>1 DEF Write, Disowned
    <2>3. batch' \in [named : SUBSET Blocks, bodies : SUBSET Blocks, entries : SUBSET Blocks,
                      seen : SUBSET Blocks]
      BY <1>4 DEF Write
    <2>4. height' \in [last : Height, safe : Height]
      BY <1>4 DEF Write
    <2>5. worker' \in Event(WorkerAt) /\ (worker'.at = "idle" => queue = <<>>)
      BY <1>4, Zero DEF Write, GoesOn, Event, Idle, WorkerAt
    <2>6. /\ loop' \in [at : {"look", "count", "asleep", "sync", "wait", "flush", "down"},
                        from : Height]
          /\ client' \in [at : {"nothing", "fetch", "sync", "wait", "flush"},
                          block : Blocks, asked : 0 .. MaxRequests]
      BY <1>4, NoRequestIsTyped DEF Write, GoesOn
    <2> QED
      BY <1>4, <2>1, <2>2, <2>3, <2>4, <2>5, <2>6 DEF Write, WorkerAt
  <1> QED
    BY <1>2, <1>3, <1>4

LEMMA WorkerTypes ==
  ASSUME TypeInv, Worker
  PROVE  TypeInv'
  <1> USE DEF TypeInv, TypeOK
  <1> DEFINE Batches == [named : SUBSET Blocks, bodies : SUBSET Blocks, entries : SUBSET Blocks,
                         seen : SUBSET Blocks]
  <1>1. CASE Take
    <2>1. queue # <<>> /\ Head(queue) \in Event({"queued"}) /\ Tail(queue) \in Seq(Event({"queued"}))
      BY <1>1, HeadTailProperties DEF Take
    <2> QED
      BY <1>1, <2>1 DEF Take, Event
  <1>2. CASE SkipBlock
    BY <1>2, Zero DEF SkipBlock, Idle, Event
  <1>3. CASE BeginBlock
    BY <1>3 DEF BeginBlock, Idle, Event, Height
  <1>4. CASE IndexBlock
    <2> DEFINE b == [batch EXCEPT !.bodies = @ \cup {worker.block},
                                 !.entries = @ \cup {worker.block}]
    <2>1. b \in Batches /\ Taken(b) \in Batches
      <3>1. /\ batch.bodies \cup {worker.block} \in SUBSET Blocks
            /\ batch.entries \cup {worker.block} \in SUBSET Blocks
        BY WorkersBlock
      <3>2. b \in Batches
        BY <3>1
      <3> QED
        BY <3>2, TakenIsTyped
    <2>2. Flush("worker", b, {}) \in FlushType
      BY <2>1, FlushIsTyped DEF Flusher
    <2>3. /\ batch' = b \/ batch' = Taken(b)
          /\ flushes' = flushes \/ flushes' = flushes \cup {Flush("worker", b, {})}
          /\ worker' = [worker EXCEPT !.at = "flush"] \/ worker' = [worker EXCEPT !.at = "next"]
          /\ UNCHANGED <<tip, cache, sdk, rounds, loop, client, queue, height, db>>
      BY <1>4 DEF IndexBlock
    <2> HIDE DEF b
    <2> QED
      BY <2>1, <2>2, <2>3 DEF Event
  <1>5. CASE BeginRemoval
    <2>1. CASE Exit
      BY <2>1, ExitTypes
    <2>2. CASE ~Exit
      <3>1. Flush("worker", batch, {}) \in FlushType /\ Taken(batch) \in Batches
        BY FlushIsTyped, TakenIsTyped DEF Flusher
      <3> QED
        BY <1>5, <2>2, <3>1 DEF BeginRemoval, Idle, Event
    <2> QED
      BY <2>1, <2>2
  <1>6. CASE RemoveBlock
    <2>1. {worker.block} \in SUBSET Blocks
      BY WorkersBlock
    <2>2. Flush("worker", batch, {worker.block}) \in FlushType /\ Taken(batch) \in Batches
      BY <2>1, FlushIsTyped, TakenIsTyped DEF Flusher
    <2>3. [Flush("worker", batch, {worker.block}) EXCEPT !.height = worker.block - 1] \in FlushType
      BY <2>2, WorkersBlock DEF FlushType
    <2> QED
      <3>1. /\ worker' = [worker EXCEPT !.at = "flush"] /\ batch' = Taken(batch)
            /\ height' = [last |-> worker.block - 1, safe |-> worker.block - 1]
            /\ flushes' = flushes \cup
                 {[Flush("worker", batch, {worker.block}) EXCEPT !.height = worker.block - 1]}
            /\ UNCHANGED <<tip, cache, sdk, rounds, loop, client, queue, db>>
        BY <1>6 DEF RemoveBlock
      <3>2. worker' \in Event(WorkerAt) /\ worker'.at # "idle"
        BY <3>1 DEF Event, WorkerAt
      <3>3. flushes' \subseteq FlushType
        BY <2>3, <3>1
      <3>4. height' \in [last : Height, safe : Height]
        BY <3>1, WorkersBlock
      <3> QED
        BY <2>2, <3>1, <3>2, <3>3, <3>4 DEF WorkerAt
  <1>7. CASE Quit
    <2>1. \A of \in Owner : /\ Flush(of, batch, {}) \in FlushType
                            /\ Flush(of, Taken(batch), {}) \in FlushType
      BY FlushIsTyped, TakenIsTyped DEF Flusher
    <2>2. batch' \in Batches /\ flushes' \subseteq FlushType
      BY <1>7, <2>1, TakenIsTyped DEF Quit, Hears, Waiting
    <2> QED
      BY <1>7, <2>2, Zero DEF Quit, Idle, Event
  <1> QED
    BY <1>1, <1>2, <1>3, <1>4, <1>5, <1>6, <1>7 DEF Worker

LEMMA TypeStep ==
  ASSUME TypeInv, [Next]_vars
  PROVE  TypeInv'
  <1>1. CASE NodeGrows
    BY <1>1, BoundsAreNatural DEF NodeGrows, TypeInv, TypeOK, Blocks
  <1>2. CASE Restart
    BY <1>2 DEF Restart, TypeInv, TypeOK
  <1>3. CASE UNCHANGED vars
    BY <1>3 DEF vars, TypeInv, TypeOK
  <1>4. CASE CountFails
    BY <1>4, ExitTypes DEF CountFails
  <1> QED
    BY <1>1, <1>2, <1>3, <1>4, LoopTypes, ClientTypes, RoundTypes, SaveTypes, FlushTypes, WorkerTypes
       DEF Next, Loop, Flushing

LEMMA InitTypes == Init => TypeInv
  BY Zero, BoundsAreNatural
     DEF Init, TypeInv, TypeOK, Idle, NoBatch, NoRound, Event, Queued, Blocks, Height

(* Every variable keeps its shape; the block cache never holds a block that *)
(* is not queued for eviction, nor more blocks than its space, however      *)
(* often a block is put again.                                             *)
THEOREM TypeCorrect == Spec => []TypeOK
  <1>1. TypeInv => TypeOK
    BY DEF TypeInv
  <1> QED
    BY <1>1, InitTypes, TypeStep, PTL DEF Spec

-----------------------------------------------------------------------------
(* The sync loop alone.  As long as no block is synced for a client, events *)
(* come one height after the other, there is one flush at a time, and it   *)
(* writes all that is not stored yet.                                      *)

Inside  == IF worker.at = "taken" THEN 1 ELSE 0
Ahead   == height.last + Inside + Len(queue)
Indexed == IF worker.at = "index" THEN height.last - 1 ELSE height.last

Stored(bodies, entries, last) == 0 .. last \subseteq bodies \cap entries

ClientApart ==
  client.at \in {"nothing", "fetch"} /\ rounds["client"] = NoRound

EventsInOrder ==
  /\ rounds["loop"].end >= 0 => loop.at = "sync" /\ sdk.next = Ahead + 1
  /\ sdk.past # <<>> => LastPast = Ahead
  /\ \A i \in DOMAIN queue : ~queue[i].remove /\ queue[i].block = height.last + Inside + i
  /\ worker.at \notin {"clear", "remove"}
  /\ worker.at = "taken" => ~worker.remove /\ worker.block = height.last + 1
  /\ worker.at = "index" => worker.block = height.last
  /\ loop.at \notin {"sync", "wait"} => worker.at = "idle"
  /\ loop.at = "count" => loop.from = height.last

OneFlush ==
  /\ \A e, f \in flushes : e = f
  /\ \A f \in flushes :
       /\ f.removed = {} /\ f.height = height.last /\ f.named \subseteq 0 .. height.last
       /\ Stored(db.bodies \cup f.bodies, db.entries \cup f.entries, height.last)
       /\ \/ f.of = "worker" /\ worker.at = "flush"
          \/ f.of = "loop" /\ loop.at \in {"wait", "flush"} /\ worker.at = "idle"

NothingLost ==
  /\ flushes = {} => Stored(db.bodies \cup batch.bodies, db.entries \cup batch.entries, Indexed)
  /\ Stored(db.bodies, db.entries, db.height)
  /\ Stored(db.bodies, db.entries, height.safe)
  /\ db.named \subseteq 0 .. db.height
  /\ batch.named \cup batch.seen \subseteq 0 .. height.last
  /\ Running => db.height <= height.last
  /\ ~Running => height.last = -1 /\ sdk.past = <<>> /\ flushes = {} /\ batch = NoBatch

AloneInv == TypeInv /\ ClientApart /\ EventsInOrder /\ OneFlush /\ NothingLost

-----------------------------------------------------------------------------
(* What the parts of AloneInv read: steps that leave it alone keep them.   *)

LEMMA Numbers ==
  ASSUME TypeInv
  PROVE  /\ height.last \in Int /\ height.safe \in Int /\ db.height \in Int
         /\ height.last >= -1 /\ db.height >= -1
         /\ Len(queue) \in Nat /\ DOMAIN queue = 1 .. Len(queue)
         /\ Inside \in {0, 1} /\ Ahead \in Int /\ Indexed \in Int
         /\ sdk.next \in Int /\ tip \in Int
  <1>1. height.last \in Height /\ height.safe \in Height /\ db.height \in Height
    BY DEF TypeInv, TypeOK
  <1>2. Len(queue) \in Nat /\ DOMAIN queue = 1 .. Len(queue)
    BY DEF TypeInv, TypeOK
  <1>3. sdk.next \in Int /\ tip \in Int
    BY Bounds DEF TypeInv, TypeOK, Blocks
  <1> QED
    BY <1>1, <1>2, <1>3, Bounds DEF Blocks, Height, Inside, Ahead, Indexed

LEMMA ExitAlone ==
  ASSUME AloneInv, Exit
  PROVE  AloneInv'
  <1>1. TypeInv'
    BY ExitTypes DEF AloneInv
  <1>2. 0 .. -1 = {}
    OBVIOUS
  <1>3. ClientApart' /\ EventsInOrder' /\ OneFlush'
    BY DEF Exit, ClientApart, EventsInOrder, OneFlush, Idle, NoRequest, NoRound, Owner
  <1>4. NothingLost'
    BY <1>2 DEF Exit, AloneInv, NothingLost, Running, Stored, NoBatch, Idle, Indexed
  <1> QED
    BY <1>1, <1>3, <1>4 DEF AloneInv

LEMMA LoopAlone ==
  ASSUME AloneInv, TypeInv', NodeGrows \/ Restart \/ Loop
  PROVE  AloneInv'
  <1> USE DEF AloneInv
  <1>1. CASE NodeGrows
    BY <1>1 DEF NodeGrows, ClientApart, EventsInOrder, OneFlush, NothingLost, Stored, Running,
                Inside, Ahead, Indexed, LastPast
  <1>2. CASE Restart
    <2>1. ClientApart' /\ OneFlush'
      BY <1>2 DEF Restart, ClientApart, OneFlush, NothingLost
    <2>2. /\ worker.at = "idle" /\ queue = <<>> /\ ~(rounds["loop"].end >= 0) /\ sdk.past = <<>>
          /\ flushes = {} /\ batch = NoBatch
      BY <1>2 DEF Restart, Running, EventsInOrder, NothingLost, TypeInv, TypeOK
    <2>3. EventsInOrder'
      BY <1>2, <2>2 DEF Restart, EventsInOrder
    <2>4. NothingLost'
      BY <1>2, <2>2, Numbers DEF Restart, NothingLost, Stored, Indexed, NoBatch, Running,
                                 TypeInv, TypeOK
    <2> QED
      BY <2>1, <2>3, <2>4
  <1>3. CASE LoopLooks \/ LoopSleeps
    <2>1. /\ loop' \in [at : {"count", "asleep"}, from : Height]
          /\ loop'.at = "count" => loop'.from = height.last
          /\ loop.at \in {"look", "asleep", "count"}
          /\ UNCHANGED <<tip, cache, sdk, rounds, client, queue, worker, height, batch, flushes, db>>
      BY <1>3, Zero DEF LoopLooks, LoopSleeps, TypeInv, TypeOK
    <2> QED
      BY <2>1 DEF ClientApart, EventsInOrder, OneFlush, NothingLost, Stored, Running, Inside,
                  Ahead, Indexed, LastPast
  <1>4. CASE LoopSyncs
    <2>1. /\ loop.at = "count" /\ loop'.at = "sync" /\ sdk'.next = loop.from + 1
          /\ sdk'.past = sdk.past /\ rounds'["client"] = rounds["client"]
          /\ UNCHANGED <<tip, cache, client, queue, worker, height, batch, flushes, db>>
      BY <1>4 DEF LoopSyncs, Sync, TypeInv, TypeOK, Owner
    <2>2. loop.from = height.last /\ worker.at = "idle" /\ queue = <<>>
      BY <2>1 DEF EventsInOrder, TypeInv, TypeOK
    <2>3. Ahead = height.last /\ Ahead' = Ahead
      BY <2>1, <2>2, Numbers DEF Ahead, Inside
    <2>4. EventsInOrder'
      BY <2>1, <2>2, <2>3 DEF EventsInOrder, LastPast, Inside
    <2> QED
      BY <2>1, <2>2, <2>4 DEF ClientApart, OneFlush, NothingLost, Stored, Running, Indexed
  <1> QED
    BY <1>1, <1>2, <1>3, <1>4 DEF Loop

(* A put only changes what events share.                                   *)
LEMMA PutAlone ==
  ASSUME AloneInv, NEW b \in Blocks, Cached(b), ClientApart', TypeInv',
         rounds'["loop"].end = rounds["loop"].end,
         UNCHANGED <<tip, sdk, loop, height, batch, flushes, db>>
  PROVE  AloneInv'
  <1> USE DEF AloneInv
  <1>1. /\ DOMAIN queue' = DOMAIN queue
        /\ \A i \in DOMAIN queue :
             queue'[i].block = queue[i].block /\ queue'[i].remove = queue[i].remove
        /\ worker'.at = worker.at /\ worker'.block = worker.block /\ worker'.remove = worker.remove
    BY PartedEvents
  <1>2. Len(queue') = Len(queue)
    BY <1>1, Numbers DEF TypeInv, TypeOK
  <1>3. Inside' = Inside /\ Ahead' = Ahead /\ Indexed' = Indexed
    BY <1>1, <1>2 DEF Inside, Ahead, Indexed
  <1>4. EventsInOrder'
    BY <1>1, <1>3 DEF EventsInOrder, LastPast
  <1>5. OneFlush' /\ NothingLost'
    BY <1>1, <1>3 DEF OneFlush, NothingLost, Stored, Running
  <1> QED
    BY <1>4, <1>5

LEMMA ServesAlone ==
  ASSUME AloneInv, Undisturbed', NEW b \in Blocks, NEW asked \in Nat, Serves(b, asked)
  PROVE  ClientApart' /\ UNCHANGED <<sdk, rounds>>
  BY DEF AloneInv, Serves, Undisturbed, ClientApart

LEMMA ClientAlone ==
  ASSUME AloneInv, TypeInv', Undisturbed', ClientFetches \/ \E b \in Blocks : Ask(b)
  PROVE  AloneInv'
  <1> USE DEF AloneInv
  <1>1. CASE ClientFetches
    <2>1. client.block \in Blocks /\ client.asked \in Nat
      BY Bounds DEF TypeInv, TypeOK
    <2>2. ClientApart' /\ UNCHANGED <<sdk, rounds>>
      BY <1>1, <2>1, ServesAlone DEF ClientFetches
    <2> QED
      BY <1>1, <2>1, <2>2, PutAlone DEF ClientFetches
  <1>2. ASSUME NEW b \in Blocks, Ask(b)
        PROVE  AloneInv'
    <2>1. UNCHANGED <<tip, cache, loop, queue, worker, height, batch, flushes, db>>
      BY <1>2 DEF Ask
    <2>2. ClientApart' /\ UNCHANGED <<sdk, rounds>>
      <3>1. CASE b \in cache.held
        <4>1. client.asked + 1 \in Nat
          BY Bounds DEF TypeInv, TypeOK
        <4> QED
          BY <1>2, <3>1, <4>1, ServesAlone DEF Ask
      <3>2. CASE b \notin cache.held
        BY <1>2, <3>2 DEF Ask, ClientApart
      <3> QED
        BY <3>1, <3>2
    <2> QED
      BY <2>1, <2>2 DEF EventsInOrder, OneFlush, NothingLost, Stored, Running, Inside, Ahead,
                        Indexed, LastPast
  <1> QED
    BY <1>1, <1>2

LEMMA NoClientRound ==
  ASSUME AloneInv
  PROVE  ~Open("client") /\ ~Ready("client") /\ ~RoundOver("client")
         /\ rounds["client"].asking = {}
  BY DEF AloneInv, ClientApart, NoRound, Open, Ready, RoundOver

LEMMA EmitAlone ==
  ASSUME AloneInv, TypeInv', Emit("loop")
  PROVE  AloneInv'
  <1> USE DEF AloneInv
  <1>1. rounds["loop"].end >= 0 /\ sdk.next = Ahead + 1 /\ loop.at = "sync"
    BY DEF Emit, Ready, Open, EventsInOrder
  <1>2. Continues /\ EventBlock = Ahead + 1
    BY <1>1 DEF EventsInOrder, Continues, EventBlock
  <1>3. /\ sdk'.next = Ahead + 2 /\ sdk'.past = Append(sdk.past, Ahead + 1)
        /\ rounds'["loop"].end = rounds["loop"].end /\ rounds'["client"] = rounds["client"]
        /\ UNCHANGED <<tip, cache, loop, client, height, batch, flushes, db>>
    <2>1. /\ sdk' = [next |-> sdk.next + 1, past |-> Append(sdk.past, sdk.next)]
          /\ rounds' = [rounds EXCEPT !["loop"].fetched = @ \ {sdk.next}]
          /\ UNCHANGED <<tip, cache, loop, client, height, batch, flushes, db>>
      BY <1>2 DEF Emit
    <2>2. rounds'["loop"].end = rounds["loop"].end /\ rounds'["client"] = rounds["client"]
      BY <2>1 DEF TypeInv, TypeOK, Owner
    <2>3. sdk'.next = Ahead + 2 /\ sdk'.past = Append(sdk.past, Ahead + 1)
      <3>1. sdk'.next = sdk.next + 1 /\ Ahead \in Int
        BY <2>1, Numbers
      <3>2. sdk'.past = Append(sdk.past, sdk.next)
        BY <2>1
      <3> QED
        BY <1>1, <3>1, <3>2
    <2> QED
      BY <2>1, <2>2, <2>3
  <1>4. sdk'.past # <<>> /\ LastPast' = Ahead + 1
    <2>1. sdk.past \in Seq(Blocks) /\ Ahead + 1 \in Blocks
      BY <1>1, EventIsTyped DEF Emit, Owner, TypeInv, TypeOK
    <2>2. /\ Len(sdk'.past) = Len(sdk.past) + 1 /\ sdk'.past[Len(sdk.past) + 1] = Ahead + 1
          /\ sdk'.past # <<>>
      BY <1>3, <2>1, AppendProperties
    <2> QED
      BY <2>2 DEF LastPast
  <1>5. /\ Ahead' = Ahead + 1 /\ Indexed' = Indexed
        /\ \A i \in DOMAIN queue' :
             ~queue'[i].remove /\ queue'[i].block = height.last + Inside' + i
        /\ worker'.at \notin {"clear", "remove"}
        /\ worker'.at = "taken" => ~worker'.remove /\ worker'.block = height.last + 1
        /\ worker'.at = "index" => worker'.block = height.last
        /\ worker.at # "idle" => worker'.at = worker.at
    <2>1. CASE worker.at = "idle"
      <3>1. queue' = <<>> /\ queue = <<>> /\ worker' = [NewEvent EXCEPT !.at = "taken"]
        BY <2>1 DEF Emit, Delivered, TypeInv, TypeOK
      <3>2. worker'.at = "taken" /\ worker'.block = Ahead + 1 /\ ~worker'.remove
        BY <1>2, <3>1 DEF NewEvent
      <3>3. Inside = 0 /\ Inside' = 1 /\ Ahead = height.last /\ height.last \in Int
        BY <2>1, <3>1, <3>2, Numbers DEF Inside, Ahead
      <3>4. Ahead' = Ahead + 1 /\ Indexed' = Indexed
        BY <1>3, <2>1, <3>1, <3>2, <3>3 DEF Ahead, Indexed
      <3> QED
        BY <2>1, <3>1, <3>2, <3>3, <3>4
    <2>2. CASE worker.at # "idle"
      <3> DEFINE flagged == [i \in DOMAIN queue |-> Flagged(queue[i], EventBlock, ~Continues)]
      <3>1. queue' = Append(flagged, NewEvent) /\ worker' = Flagged(worker, EventBlock, ~Continues)
        BY <2>2 DEF Emit, Delivered
      <3>2. \A e, at : e \in Event(at) /\ ~e.remove =>
              /\ Flagged(e, EventBlock, ~Continues).at = e.at
              /\ Flagged(e, EventBlock, ~Continues).block = e.block
              /\ ~Flagged(e, EventBlock, ~Continues).remove
        BY <1>2 DEF Flagged, Event
      <3>3. \A e, at : e \in Event(at) =>
              /\ Flagged(e, EventBlock, ~Continues) \in Event(at)
              /\ Flagged(e, EventBlock, ~Continues).at = e.at
              /\ Flagged(e, EventBlock, ~Continues).block = e.block
        BY DEF Flagged, Event, Continues
      <3>4. /\ worker'.at = worker.at /\ worker'.block = worker.block
            /\ ~worker.remove => ~worker'.remove
        BY <3>1, <3>2, <3>3 DEF TypeInv, TypeOK
      <3>5. /\ flagged \in Seq(Event({"queued"})) /\ Len(flagged) = Len(queue)
            /\ \A i \in 1 .. Len(queue) :
                 ~flagged[i].remove /\ flagged[i].block = queue[i].block
        <4>1. queue \in Seq(Event({"queued"})) /\ DOMAIN queue = 1 .. Len(queue)
          BY Numbers DEF TypeInv, TypeOK
        <4>2. flagged \in Seq(Event({"queued"})) /\ Len(flagged) = Len(queue)
          BY <3>3, <4>1
        <4>3. ASSUME NEW i \in 1 .. Len(queue)
              PROVE  ~flagged[i].remove /\ flagged[i].block = queue[i].block
          <5>1. queue[i] \in Event({"queued"}) /\ ~queue[i].remove
            BY <4>1 DEF EventsInOrder
          <5>2. flagged[i] = Flagged(queue[i], EventBlock, ~Continues)
            BY <4>1
          <5> HIDE DEF flagged
          <5> QED
            BY <3>2, <5>1, <5>2
        <4> QED
          BY <4>2, <4>3
      <3>6. NewEvent \in Event({"queued"}) /\ NewEvent.block = Ahead + 1 /\ ~NewEvent.remove
        BY <1>2, EventIsTyped DEF NewEvent, Emit, TypeInv, Owner
      <3> HIDE DEF flagged
      <3>7. /\ Len(queue') = Len(queue) + 1 /\ DOMAIN queue' = 1 .. Len(queue) + 1
            /\ \A i \in 1 .. Len(queue) : queue'[i] = flagged[i]
            /\ queue'[Len(queue) + 1] = NewEvent
        <4>1. Len(flagged) = Len(queue) /\ Len(queue) \in Nat
          BY <3>5, Numbers
        <4>2. /\ queue' \in Seq(Event({"queued"})) /\ Len(queue') = Len(flagged) + 1
              /\ \A i \in 1 .. Len(flagged) : queue'[i] = flagged[i]
              /\ queue'[Len(flagged) + 1] = NewEvent
          BY <3>1, <3>5, <3>6, AppendProperties
        <4> QED
          BY <4>1, <4>2
      <3>8. Inside' = Inside /\ Indexed' = Indexed /\ Ahead' = Ahead + 1
        <4>1. Inside' = Inside /\ Indexed' = Indexed
          BY <1>3, <3>4 DEF Inside, Indexed
        <4>2. Inside \in Int /\ height.last \in Int /\ Len(queue) \in Int
          BY Numbers
        <4>3. Len(queue') = Len(queue) + 1 /\ height' = height
          BY <1>3, <3>7
        <4> QED
          BY <4>1, <4>2, <4>3 DEF Ahead
      <3>9. \A i \in DOMAIN queue' :
              ~queue'[i].remove /\ queue'[i].block = height.last + Inside' + i
        <4> SUFFICES ASSUME NEW i \in DOMAIN queue'
                     PROVE  ~queue'[i].remove /\ queue'[i].block = height.last + Inside' + i
          OBVIOUS
        <4>1. CASE i = Len(queue) + 1
          <5>1. Inside \in Int /\ height.last \in Int /\ Len(queue) \in Int
            BY Numbers
          <5>2. queue'[i] = NewEvent /\ NewEvent.block = height.last + Inside + Len(queue) + 1
            BY <3>6, <3>7, <4>1 DEF Ahead
          <5> QED
            BY <3>6, <3>8, <4>1, <5>1, <5>2
        <4>2. CASE i # Len(queue) + 1
          <5>1. i \in 1 .. Len(queue)
            BY <3>7, <4>2, Numbers
          <5> QED
            BY <3>5, <3>7, <3>8, <5>1, Numbers DEF EventsInOrder
        <4> QED
          BY <4>1, <4>2
      <3> QED
        BY <2>2, <3>4, <3>8, <3>9 DEF EventsInOrder
    <2> QED
      BY <2>1, <2>2
  <1>6. EventsInOrder'
    BY <1>1, <1>3, <1>4, <1>5, Numbers DEF EventsInOrder
  <1>7. OneFlush'
    BY <1>1, <1>3, <1>5 DEF OneFlush, Stored
  <1>8. NothingLost' /\ ClientApart'
    BY <1>1, <1>3, <1>5 DEF NothingLost, Stored, Running, ClientApart
  <1> QED
    BY <1>6, <1>7, <1>8

LEMMA RoundAlone ==
  ASSUME AloneInv, TypeInv', NEW o \in Owner, Round(o)
  PROVE  AloneInv'
  <1>1. CASE o = "client"
    BY <1>1, NoClientRound DEF Round, Fetch, Fetched, Emit, EmitRefused, RoundFails
  <1>2. CASE o = "loop" /\ Fetch(o)
    <2>1. /\ rounds'["loop"].end = rounds["loop"].end /\ rounds'["client"] = rounds["client"]
          /\ UNCHANGED <<tip, cache, sdk, loop, client, queue, worker, height, batch, flushes, db>>
      BY <1>2 DEF Fetch, AloneInv, TypeInv, TypeOK, Owner
    <2> QED
      BY <2>1 DEF AloneInv, ClientApart, EventsInOrder, OneFlush, NothingLost, Stored, Running,
                  Inside, Ahead, Indexed, LastPast
  <1>3. ASSUME o = "loop", NEW b \in Blocks, Fetched(o, b)
        PROVE  AloneInv'
    <2>1. rounds'["loop"].end = rounds["loop"].end /\ rounds'["client"] = rounds["client"]
      BY <1>3 DEF Fetched, AloneInv, TypeInv, TypeOK, Owner
    <2>2. ClientApart'
      BY <1>3, <2>1 DEF Fetched, AloneInv, ClientApart
    <2> QED
      BY <1>3, <2>1, <2>2, PutAlone DEF Fetched
  <1>4. CASE o = "loop" /\ (EmitRefused(o) \/ RoundFails(o))
    BY <1>4, ExitAlone DEF EmitRefused, RoundFails
  <1> QED
    BY <1>1, <1>2, <1>3, <1>4, EmitAlone DEF Round, Owner

LEMMA SaveAlone ==
  ASSUME AloneInv, TypeInv', NEW o \in Owner, Save(o)
  PROVE  AloneInv'
  <1> USE DEF AloneInv
  <1>1. o = "loop" /\ RoundOver("loop") /\ loop.at = "sync"
    BY NoClientRound DEF Save, SaveWaits, SaveNow, SaveNothing, Owner, RoundOver, EventsInOrder
  <1>2. CASE SaveNothing(o)
    BY <1>1, <1>2, ExitAlone DEF SaveNothing
  <1>3. ASSUME NEW at \in {"wait", "flush"}, rounds' = Closed("loop"), Moves("loop", at)
        PROVE  /\ ~(rounds'["loop"].end >= 0) /\ rounds'["client"] = rounds["client"]
               /\ loop'.at = at /\ client' = client
    BY <1>3 DEF Closed, Moves, NoRound, TypeInv, TypeOK, Owner
  <1>4. CASE SaveWaits(o)
    <2>1. /\ ~(rounds'["loop"].end >= 0) /\ rounds'["client"] = rounds["client"]
          /\ loop'.at = "wait" /\ client' = client
          /\ UNCHANGED <<tip, cache, sdk, queue, worker, height, batch, flushes, db>>
      BY <1>1, <1>3, <1>4 DEF SaveWaits
    <2> QED
      BY <1>1, <2>1 DEF ClientApart, EventsInOrder, OneFlush, NothingLost, Stored, Running, Inside,
                        Ahead, Indexed, LastPast
  <1>5. CASE SaveNow(o)
    <2>1. /\ ~(rounds'["loop"].end >= 0) /\ rounds'["client"] = rounds["client"]
          /\ loop'.at = "flush" /\ client' = client /\ worker.at = "idle"
          /\ flushes' = flushes \cup {Flush("loop", batch, {})} /\ batch' = Taken(batch)
          /\ UNCHANGED <<tip, cache, sdk, queue, worker, height, db>>
      BY <1>1, <1>3, <1>5 DEF SaveNow, Busy
    <2>2. flushes = {} /\ Indexed = height.last /\ Running
      BY <1>1, <2>1 DEF OneFlush, Indexed, Running
    <2>3. /\ Flush("loop", batch, {}).of = "loop" /\ Flush("loop", batch, {}).removed = {}
          /\ Flush("loop", batch, {}).height = height.last
          /\ Flush("loop", batch, {}).named = batch.named
          /\ Flush("loop", batch, {}).bodies = batch.bodies
          /\ Flush("loop", batch, {}).entries = batch.entries
      BY DEF Flush
    <2>4. OneFlush'
      BY <2>1, <2>2, <2>3 DEF OneFlush, NothingLost, Stored
    <2>5. NothingLost'
      BY <2>1, <2>2 DEF NothingLost, Stored, Running, Taken, TypeInv, TypeOK
    <2> QED
      BY <2>1, <2>4, <2>5 DEF ClientApart, EventsInOrder, Inside, Ahead, LastPast
  <1> QED
    BY <1>2, <1>4, <1>5 DEF Save

LEMMA FlushAlone ==
  ASSUME AloneInv, TypeInv', NEW f \in flushes, ReadLists(f) \/ MissLists(f) \/ Write(f)
  PROVE  AloneInv'
  <1> USE DEF AloneInv
  <1>1. /\ flushes = {f} /\ f.removed = {} /\ f.height = height.last
        /\ f.named \subseteq 0 .. height.last
        /\ Stored(db.bodies \cup f.bodies, db.entries \cup f.entries, height.last)
        /\ \/ f.of = "worker" /\ worker.at = "flush"
           \/ f.of = "loop" /\ loop.at \in {"wait", "flush"} /\ worker.at = "idle"
    BY DEF OneFlush
  <1>2. CASE MissLists(f)
    BY <1>1, <1>2, ExitAlone DEF MissLists
  <1>3. CASE ReadLists(f)
    <2> DEFINE e == [f EXCEPT !.at = "write"]
    <2>1. /\ flushes' = {e}
          /\ UNCHANGED <<tip, cache, sdk, rounds, loop, client, queue, worker, height, batch, db>>
      BY <1>1, <1>3 DEF ReadLists
    <2>2. /\ e.removed = f.removed /\ e.height = f.height /\ e.named = f.named /\ e.of = f.of
          /\ e.bodies = f.bodies /\ e.entries = f.entries
      BY DEF TypeInv, FlushType
    <2> HIDE DEF e
    <2>3. OneFlush'
      BY <1>1, <2>1, <2>2 DEF OneFlush, Stored
    <2>4. flushes' # {} /\ Running
      BY <1>1, <2>1 DEF NothingLost
    <2> QED
      BY <2>1, <2>3, <2>4 DEF ClientApart, EventsInOrder, NothingLost, Stored, Running, Inside,
                              Ahead, Indexed, LastPast
  <1>4. CASE Write(f)
    <2>1. /\ db'.named = db.named \cup f.named /\ db'.bodies = db.bodies \cup f.bodies
          /\ db'.entries = db.entries \cup f.entries /\ db'.height = height.last
      BY <1>1, <1>4 DEF Write, Written
    <2>2. /\ flushes' = {} /\ batch'.seen = {} /\ batch'.named = batch.named
          /\ height'.last = height.last /\ height'.safe = height.last /\ client' = client
          /\ UNCHANGED <<tip, cache, sdk, rounds, queue>>
      BY <1>1, <1>4 DEF Write, Disowned, GoesOn, TypeInv, TypeOK
    <2>3. /\ worker.at \notin {"taken", "index"} /\ worker'.at \in {"idle", "next"}
          /\ f.of = "worker" => worker'.at = "next" /\ loop' = loop
          /\ f.of = "loop" => worker' = worker /\ loop'.at = "look"
      BY <1>1, <1>4 DEF Write, GoesOn, Idle, TypeInv, TypeOK
    <2>4. Inside' = Inside /\ Ahead' = Ahead
      BY <2>2, <2>3 DEF Inside, Ahead
    <2>5. EventsInOrder'
      <3>1. f.of = "loop" => ~(rounds["loop"].end >= 0)
        BY <1>1 DEF EventsInOrder
      <3>2. f.of = "worker" => loop.at \in {"sync", "wait"}
        BY <1>1 DEF EventsInOrder
      <3> QED
        BY <1>1, <2>2, <2>3, <2>4, <3>1, <3>2 DEF EventsInOrder, LastPast
    <2>6. NothingLost'
      <3>1. Running /\ Running'
        BY <1>1, <1>4, <2>3 DEF NothingLost, Running
      <3>2. Indexed' = height.last /\ db.height <= height.last
        BY <2>2, <2>3, <3>1 DEF Indexed, NothingLost
      <3>3. 0 .. db.height \subseteq 0 .. height.last
        BY <3>2, Numbers
      <3> QED
        BY <1>1, <2>1, <2>2, <3>1, <3>2, <3>3, Numbers DEF NothingLost, Stored
    <2> QED
      BY <2>2, <2>5, <2>6 DEF ClientApart, OneFlush
  <1> QED
    BY <1>2, <1>3, <1>4

LEMMA WorkerAlone ==
  ASSUME AloneInv, TypeInv', Worker
  PROVE  AloneInv'
  <1> USE DEF AloneInv
  <1>1. worker.at # "idle" => loop.at \in {"sync", "wait"} /\ Running
    BY DEF EventsInOrder, Running
  <1>2. CASE Take
    <2>1. /\ worker.at = "next" /\ queue # <<>> /\ queue' = Tail(queue)
          /\ worker' = [Head(queue) EXCEPT !.at = "taken"]
          /\ UNCHANGED <<tip, cache, sdk, rounds, loop, client, height, batch, flushes, db>>
      BY <1>2 DEF Take
    <2>2. /\ queue \in Seq(Event({"queued"})) /\ Head(queue) = queue[1]
          /\ Len(queue') = Len(queue) - 1 /\ DOMAIN queue' = 1 .. Len(queue) - 1
          /\ \A i \in 1 .. Len(queue) - 1 : queue'[i] = queue[i + 1]
          /\ 1 \in DOMAIN queue /\ Len(queue) \in Nat /\ DOMAIN queue = 1 .. Len(queue)
      BY <2>1, HeadTailProperties DEF TypeInv, TypeOK
    <2>3. queue[1] \in Event({"queued"})
      BY <2>2
    <2>4. Inside = 0 /\ height.last \in Int
      BY <2>1, Numbers DEF Inside
    <2>5. worker'.at = "taken" /\ ~worker'.remove /\ worker'.block = height.last + 1
      BY <2>1, <2>2, <2>3, <2>4 DEF EventsInOrder, Event
    <2>6. Inside' = 1 /\ Ahead' = Ahead /\ Indexed' = Indexed
      BY <2>1, <2>2, <2>4, <2>5 DEF Inside, Ahead, Indexed
    <2>7. ASSUME NEW i \in DOMAIN queue'
          PROVE  ~queue'[i].remove /\ queue'[i].block = height.last + Inside' + i
      <3>1. i + 1 \in DOMAIN queue /\ queue'[i] = queue[i + 1] /\ i \in Int
        BY <2>2
      <3>2. ~queue[i + 1].remove /\ queue[i + 1].block = height.last + Inside + (i + 1)
        BY <3>1 DEF EventsInOrder
      <3> QED
        BY <2>4, <2>6, <3>1, <3>2
    <2>8. EventsInOrder'
      BY <1>1, <2>1, <2>5, <2>6, <2>7 DEF EventsInOrder, LastPast
    <2> QED
      BY <2>1, <2>6, <2>8 DEF ClientApart, OneFlush, NothingLost, Stored, Running
  <1>3. worker.at = "taken" => flushes = {} /\ ~Known(worker.block)
    <2>1. worker.at = "taken" => Running /\ worker.block = height.last + 1
      BY <1>1 DEF EventsInOrder
    <2>2. Running => batch.seen \cup db.named \subseteq 0 .. height.last
      BY Numbers DEF NothingLost
    <2> QED
      BY <2>1, <2>2, Numbers DEF Known, OneFlush
  <1>4. CASE SkipBlock
    BY <1>3, <1>4 DEF SkipBlock
  <1>5. CASE BeginBlock
    <2>1. /\ worker.at = "taken" /\ worker'.at = "index" /\ worker'.block = worker.block
          /\ height'.last = worker.block /\ height'.safe = height.safe
          /\ batch'.named = batch.named \cup {worker.block} /\ batch'.bodies = batch.bodies
          /\ batch'.seen = batch.seen \cup {worker.block} /\ batch'.entries = batch.entries
          /\ UNCHANGED <<tip, cache, sdk, rounds, loop, client, queue, flushes, db>>
      BY <1>5 DEF BeginBlock, Idle, TypeInv, TypeOK
    <2>2. worker.block = height.last + 1 /\ height.last \in Int /\ Len(queue) \in Nat
      BY <2>1, Numbers DEF EventsInOrder
    <2>3. /\ Inside = 1 /\ Inside' = 0 /\ Ahead' = Ahead
          /\ Indexed = height.last /\ Indexed' = height.last
      BY <2>1, <2>2 DEF Inside, Ahead, Indexed
    <2>4. EventsInOrder'
      <3>1. ASSUME NEW i \in DOMAIN queue
            PROVE  ~queue[i].remove /\ queue[i].block = height'.last + Inside' + i
        <4>1. ~queue[i].remove /\ queue[i].block = height.last + Inside + i /\ i \in Int
          BY Numbers DEF EventsInOrder
        <4> QED
          BY <2>1, <2>2, <2>3, <4>1
      <3> QED
        BY <1>1, <2>1, <2>2, <2>3, <3>1 DEF EventsInOrder, LastPast
    <2>5. NothingLost'
      <3>1. 0 .. height.last \subseteq 0 .. height'.last /\ worker.block \in 0 .. height'.last
        BY <2>1, <2>2, Numbers
      <3>2. flushes = {} /\ Running /\ Running'
        BY <1>1, <1>3, <2>1 DEF Running
      <3>3. db.height <= height'.last
        BY <2>1, <2>2, <3>2, Numbers DEF NothingLost
      <3> QED
        BY <2>1, <2>3, <3>1, <3>2, <3>3 DEF NothingLost, Stored
    <2> QED
      BY <1>3, <2>1, <2>4, <2>5 DEF ClientApart, OneFlush
  <1>6. CASE IndexBlock
    <2> DEFINE b == [batch EXCEPT !.bodies = @ \cup {worker.block},
                                 !.entries = @ \cup {worker.block}]
    <2>1. /\ b.named = batch.named /\ b.bodies = batch.bodies \cup {worker.block}
          /\ b.seen = batch.seen /\ b.entries = batch.entries \cup {worker.block}
      BY DEF TypeInv, TypeOK
    <2>2. /\ worker.at = "index" /\ worker'.at \in {"flush", "next"}
          /\ UNCHANGED <<tip, cache, sdk, rounds, loop, client, queue, height, db>>
          /\ \/ worker'.at = "flush" /\ batch' = Taken(b)
                /\ flushes' = flushes \cup {Flush("worker", b, {})}
             \/ worker'.at = "next" /\ batch' = b /\ flushes' = flushes
      BY <1>6 DEF IndexBlock, TypeInv, TypeOK, Event
    <2> HIDE DEF b
    <2>3. flushes = {} /\ Running /\ worker.block = height.last
      BY <1>1, <2>2 DEF OneFlush, EventsInOrder
    <2>4. Inside' = Inside /\ Ahead' = Ahead /\ Inside = 0
      BY <2>2 DEF Inside, Ahead
    <2>5. EventsInOrder'
      BY <1>1, <2>2, <2>4 DEF EventsInOrder, LastPast
    <2>6. Stored(db.bodies \cup b.bodies, db.entries \cup b.entries, height.last)
      <3>1. Indexed = height.last - 1
        BY <2>2 DEF Indexed
      <3>2. Stored(db.bodies \cup batch.bodies, db.entries \cup batch.entries, height.last - 1)
        BY <2>3, <3>1 DEF NothingLost
      <3>3. \A x \in 0 .. height.last : x \in 0 .. height.last - 1 \/ x = worker.block
        BY <2>3, Numbers
      <3> QED
        BY <2>1, <3>2, <3>3 DEF Stored
    <2>7. CASE worker'.at = "next"
      BY <2>1, <2>2, <2>3, <2>5, <2>6, <2>7
         DEF ClientApart, OneFlush, NothingLost, Running, Indexed, Stored
    <2>8. CASE worker'.at = "flush"
      <3> DEFINE f == Flush("worker", b, {})
      <3>1. /\ f.of = "worker" /\ f.removed = {} /\ f.height = height.last /\ f.named = b.named
            /\ f.bodies = b.bodies /\ f.entries = b.entries
        BY DEF Flush
      <3>2. flushes' = {f} /\ batch'.named = {} /\ batch'.seen = b.seen
        BY <2>2, <2>3, <2>8 DEF Taken, b, TypeInv, TypeOK
      <3> HIDE DEF f
      <3>3. OneFlush'
        BY <2>1, <2>2, <2>6, <2>8, <3>1, <3>2 DEF OneFlush, NothingLost, Stored
      <3>4. NothingLost'
        BY <2>1, <2>2, <2>3, <3>2 DEF NothingLost, Stored, Running
      <3> QED
        BY <2>2, <2>5, <3>3, <3>4 DEF ClientApart
    <2> QED
      BY <2>2, <2>7, <2>8
  <1>7. CASE BeginRemoval \/ RemoveBlock
    BY <1>7 DEF BeginRemoval, RemoveBlock, EventsInOrder
  <1>8. CASE Quit
    <2>1. /\ worker.at = "next" /\ queue = <<>> /\ worker'.at = "idle"
          /\ UNCHANGED <<tip, cache, sdk, rounds, loop, client, queue, height, db>>
      BY <1>8 DEF Quit, Idle
    <2>2. flushes = {} /\ Running /\ Inside' = Inside /\ Ahead' = Ahead
          /\ Indexed = height.last /\ Indexed' = height.last
      BY <1>1, <2>1 DEF OneFlush, Inside, Ahead, Indexed
    <2>3. EventsInOrder'
      BY <1>1, <2>1, <2>2 DEF EventsInOrder, LastPast
    <2>4. CASE UNCHANGED <<batch, flushes>>
      BY <2>1, <2>2, <2>3, <2>4 DEF ClientApart, OneFlush, NothingLost, Stored, Running
    <2>5. CASE ~UNCHANGED <<batch, flushes>>
      <3> DEFINE f == Flush("loop", batch, {})
      <3>1. Waiting \subseteq {"loop"}
        BY DEF Waiting, ClientApart, At, Owner
      <3>2. loop.at = "wait" /\ batch' = Taken(batch) /\ flushes' = {f}
        BY <1>8, <2>2, <2>5, <3>1 DEF Quit, Hears, Waiting, At
      <3>3. /\ f.of = "loop" /\ f.removed = {} /\ f.height = height.last /\ f.named = batch.named
            /\ f.bodies = batch.bodies /\ f.entries = batch.entries
        BY DEF Flush
      <3>4. batch'.named = {} /\ batch'.seen = batch.seen
        BY <3>2 DEF Taken, TypeInv, TypeOK
      <3> HIDE DEF f
      <3>5. OneFlush'
        BY <2>1, <2>2, <3>2, <3>3 DEF OneFlush, NothingLost, Stored
      <3>6. NothingLost'
        BY <2>1, <2>2, <3>2, <3>4 DEF NothingLost, Stored, Running
      <3> QED
        BY <2>1, <2>3, <3>5, <3>6 DEF ClientApart
    <2> QED
      BY <2>4, <2>5
  <1> QED
    BY <1>2, <1>4, <1>5, <1>6, <1>7, <1>8 DEF Worker

LEMMA InitAlone == Init => AloneInv
  <1> SUFFICES ASSUME Init PROVE AloneInv
    OBVIOUS
  <1>1. 0 .. -1 = {}
    OBVIOUS
  <1>2. Owner = {"loop", "client"} /\ ~(NoRound.end >= 0)
    BY DEF Owner, NoRound
  <1>3. ClientApart /\ EventsInOrder /\ OneFlush
    BY <1>2 DEF Init, ClientApart, EventsInOrder, OneFlush, Idle
  <1>4. NothingLost
    BY <1>1 DEF Init, NothingLost, Stored, Running, NoBatch, Idle, Indexed
  <1> QED
    BY <1>3, <1>4, InitTypes DEF AloneInv

LEMMA NextAlone == AloneInv /\ Undisturbed' /\ [Next]_vars => AloneInv'
  <1> SUFFICES ASSUME AloneInv, Undisturbed', [Next]_vars PROVE AloneInv'
    OBVIOUS
  <1>1. TypeInv'
    BY TypeStep DEF AloneInv
  <1>2. CASE UNCHANGED vars
    BY <1>2 DEF vars, AloneInv, TypeInv, TypeOK, ClientApart, EventsInOrder, OneFlush, NothingLost,
                Stored, Running, Inside, Ahead, Indexed, LastPast
  <1>3. CASE \E of \in Flusher : Flushing(of)
    BY <1>1, <1>3, FlushAlone DEF Flushing
  <1>4. CASE CountFails
    BY <1>4, ExitAlone DEF CountFails
  <1> QED
    BY <1>1, <1>2, <1>3, <1>4, LoopAlone, ClientAlone, RoundAlone, SaveAlone, WorkerAlone DEF Next

(* As long as no block is synced for a client, whatever the index announces *)
(* as safe is in the database with all it wrote: through batches, saves,    *)
(* restarts and the evictions of the block cache, for a chain of any       *)
(* length.                                                                 *)
THEOREM LoopAloneIsSafe == Spec => AloneTheLoopIsSafe
  <1>1. AloneInv => SafeBlocksAreStored
    BY DEF AloneInv, NothingLost, Stored, SafeBlocksAreStored
  <1> QED
    BY <1>1, InitAlone, NextAlone, PTL DEF Spec, AloneTheLoopIsSafe
=============================================================================
