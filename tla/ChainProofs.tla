---------------------------- MODULE ChainProofs -----------------------------
(***************************************************************************)
(* As long as events are InTurn, the index follows the syncer: what it     *)
(* holds is a chain, the two block tables agree, and when the queue is     *)
(* worked off the chain is the announced one.  For every ledger, every     *)
(* batch size and queue, crashes, requests and branches the syncer does    *)
(* not see.  When events are OnItsParent, too, each block of the chain     *)
(* lies on its parent.                                                     *)
(*                                                                         *)
(* Both events of a block share one object, so the worker takes the later  *)
(* event for the earlier one: the argument is that what the worker makes   *)
(* of the events that wait is the announced chain all the same (OrderInv), *)
(* unless another block's event has come between the two.                  *)
(***************************************************************************)
EXTENDS IndexerProofs, WellFoundedInduction

(* What an event does to a chain when the worker gets to it: which of the   *)
(* two it is the flag says, and the flag is the block's.                    *)
Chain == [blocks : SUBSET Block, top : Int]

After(flags, c, b) ==
  IF flags[b] /\ b \in c.blocks
  THEN [blocks |-> c.blocks \ {b}, top |-> c.top - 1]
  ELSE IF ~flags[b] /\ b \notin c.blocks
  THEN [blocks |-> c.blocks \cup {b}, top |-> c.top + 1]
  ELSE c

(* The event is about the chain's last block or one on top of it.           *)
Fits(c, b) == Height[b] = IF b \in c.blocks THEN c.top ELSE c.top + 1

(* The events q lead from the chain c to the chain s.                       *)
Leads(flags, c, q, s) ==
  \E path \in [1 .. Len(q) + 1 -> Chain] :
    /\ path[1] = c /\ path[Len(q) + 1] = s
    /\ \A i \in 1 .. Len(q) :
         Fits(path[i], q[i]) /\ path[i + 1] = After(flags, path[i], q[i])

(* The chain the worker starts from, the one the syncer announced, and the *)
(* events between them.                                                    *)
Known   == DOMAIN View("block-sym")
Undoing == {"firstFlush", "untx", "revalidate", "unlist"}

Base ==
  IF pc \in Undoing THEN [blocks |-> Known \ {job.block}, top |-> lastBlockSymbol - 1]
                    ELSE [blocks |-> Known, top |-> lastBlockSymbol]
Announced == [blocks |-> {synced[i] : i \in DOMAIN synced}, top |-> Len(synced) - 1]

OrderInv ==
  pc # "exited" =>
    /\ Leads(remove, Base, Pending, Announced)
    /\ pc \in Undoing => job.block \in Known /\ Height[job.block] = lastBlockSymbol

(* The tables hold one block for each height up to the top, and no other.   *)
Chained(blocks, known, top) ==
  /\ \A b \in DOMAIN known : Height[b] \in 0 .. top /\ blocks[Height[b]] = b
  /\ \A h \in 0 .. top : h \in DOMAIN blocks /\ blocks[h] \in DOMAIN known

ChainedInv ==
  /\ Chained(db["sym-block"], db["block-sym"], DbHeight)
  /\ Chained(View("sym-block"), View("block-sym"), lastBlockSymbol)

-----------------------------------------------------------------------------
(* Events and chains.                                                      *)

LEMMA AfterChain ==
  ASSUME NEW flags \in [Block -> BOOLEAN], NEW c \in Chain, NEW b \in Block
  PROVE  LET d == After(flags, c, b) IN
         /\ d \in Chain
         /\ flags[b] => d.blocks = c.blocks \ {b}
         /\ ~flags[b] => d.blocks = c.blocks \cup {b}
         /\ flags[b] /\ b \in c.blocks => d.top = c.top - 1
         /\ ~flags[b] /\ b \notin c.blocks => d.top = c.top + 1
         /\ (flags[b] <=> b \notin c.blocks) => d.top = c.top
  <1>1. c.blocks \in SUBSET Block /\ c.top \in Int /\ flags[b] \in BOOLEAN
    BY DEF Chain
  <1>2. CASE flags[b] /\ b \in c.blocks
    BY <1>1, <1>2 DEF After, Chain
  <1>3. CASE ~flags[b] /\ b \notin c.blocks
    BY <1>1, <1>3 DEF After, Chain
  <1>4. CASE ~(flags[b] /\ b \in c.blocks) /\ ~(~flags[b] /\ b \notin c.blocks)
    <2>1. After(flags, c, b) = c
      BY <1>4 DEF After
    <2>2. flags[b] => c.blocks \ {b} = c.blocks
      BY <1>4
    <2>3. ~flags[b] => c.blocks \cup {b} = c.blocks
      BY <1>4
    <2>4. flags[b] <=> b \notin c.blocks
      BY <1>4
    <2> QED
      BY <2>1, <2>2, <2>3, <2>4
  <1> QED
    BY <1>2, <1>3, <1>4

LEMMA SameChain ==
  ASSUME NEW c \in Chain, NEW d \in Chain, c.blocks = d.blocks, c.top = d.top
  PROVE  c = d
  BY DEF Chain

(* A block's later event makes up for what its earlier one did, ...         *)
LEMMA Overwrites ==
  ASSUME NEW flags \in [Block -> BOOLEAN], NEW new \in [Block -> BOOLEAN],
         NEW c \in Chain, NEW e \in Block
  PROVE  After(new, After(flags, c, e), e) = After(new, c, e)
  <1> DEFINE once  == After(flags, c, e)
             twice == After(new, once, e)
             d     == After(new, c, e)
  <1>1. /\ once \in Chain /\ c.top \in Int /\ flags[e] \in BOOLEAN /\ new[e] \in BOOLEAN
        /\ flags[e] => once.blocks = c.blocks \ {e}
        /\ ~flags[e] => once.blocks = c.blocks \cup {e}
        /\ flags[e] /\ e \in c.blocks => once.top = c.top - 1
        /\ ~flags[e] /\ e \notin c.blocks => once.top = c.top + 1
        /\ (flags[e] <=> e \notin c.blocks) => once.top = c.top
    BY AfterChain DEF Chain
  <1>2. /\ d \in Chain
        /\ new[e] => d.blocks = c.blocks \ {e}
        /\ ~new[e] => d.blocks = c.blocks \cup {e}
        /\ new[e] /\ e \in c.blocks => d.top = c.top - 1
        /\ ~new[e] /\ e \notin c.blocks => d.top = c.top + 1
        /\ (new[e] <=> e \notin c.blocks) => d.top = c.top
    BY AfterChain
  <1> HIDE DEF once
  <1>3. /\ twice \in Chain
        /\ new[e] => twice.blocks = once.blocks \ {e}
        /\ ~new[e] => twice.blocks = once.blocks \cup {e}
        /\ new[e] /\ e \in once.blocks => twice.top = once.top - 1
        /\ ~new[e] /\ e \notin once.blocks => twice.top = once.top + 1
        /\ (new[e] <=> e \notin once.blocks) => twice.top = once.top
    BY <1>1, AfterChain
  <1> HIDE DEF twice, d
  <1>4. twice.blocks = d.blocks
    BY <1>1, <1>2, <1>3
  <1>5. twice.top = d.top
    BY <1>1, <1>2, <1>3
  <1>6. twice = d
    BY <1>2, <1>3, <1>4, <1>5, SameChain
  <1> QED
    BY <1>6 DEF twice, d, once

(* ... and still fits.                                                      *)
LEMMA FitsStill ==
  ASSUME NEW flags \in [Block -> BOOLEAN], NEW c \in Chain, NEW e \in Block, Fits(c, e)
  PROVE  Fits(After(flags, c, e), e)
  BY DEF Fits, After, Chain

(* An event the syncer announces: it adds a block to the announced chain or *)
(* takes its last one back.                                                *)
Announces(s, e, gone) ==
  /\ gone <=> e \in s.blocks
  /\ Height[e] = IF gone THEN s.top ELSE s.top + 1

LEMMA LeastNatural ==
  ASSUME NEW T \in SUBSET Nat, T # {}
  PROVE  \E m \in T : \A n \in T : m <= n
  <1> DEFINE R == OpToRel(<, Nat)
  <1>1. IsWellFoundedOn(R, Nat)
    BY NatLessThanWellFounded
  <1>2. PICK m \in T : \A n \in T : ~ (<<n, m>> \in R)
    BY <1>1, WFMin
  <1>3. \A n \in T : ~ (n < m)
    BY <1>2 DEF OpToRel
  <1> QED
    BY <1>3

LEMMA NoEvents ==
  ASSUME NEW flags, NEW c, NEW s
  PROVE  Leads(flags, c, <<>>, s) <=> c = s /\ c \in Chain
  <1>1. Len(<<>>) + 1 = 1
    OBVIOUS
  <1>2. Leads(flags, c, <<>>, s) => c = s /\ c \in Chain
    BY <1>1 DEF Leads
  <1>3. ASSUME c = s, c \in Chain
        PROVE  Leads(flags, c, <<>>, s)
    <2> DEFINE path == [i \in 1 .. 1 |-> c]
    <2>1. path \in [1 .. 1 -> Chain] /\ path[1] = c
      BY <1>3
    <2> HIDE DEF path
    <2>2. Len(<<>>) = 0 /\ 1 .. 0 = {}
      OBVIOUS
    <2>3. \A i \in 1 .. Len(<<>>) : Fits(path[i], <<>>[i])
                                   /\ path[i + 1] = After(flags, path[i], <<>>[i])
      BY <2>2
    <2>4. path \in [1 .. Len(<<>>) + 1 -> Chain] /\ path[1] = c /\ path[Len(<<>>) + 1] = s
      BY <1>1, <1>3, <2>1
    <2> QED
      BY <2>3, <2>4 DEF Leads
  <1> QED
    BY <1>2, <1>3

LEMMA AnnouncedFits ==
  ASSUME NEW s \in Chain, NEW e \in Block, NEW gone \in BOOLEAN, Announces(s, e, gone)
  PROVE  Fits(s, e)
  BY DEF Announces, Fits

(* Events of one block in a row amount to any one of them under a new flag. *)
LEMMA InARow ==
  ASSUME NEW flags \in [Block -> BOOLEAN], NEW new \in [Block -> BOOLEAN], NEW e \in Block,
         NEW n \in Nat, NEW i \in 1 .. n + 1, NEW path \in [1 .. n + 1 -> Chain],
         \A k \in i .. n : path[k + 1] = After(flags, path[k], e)
  PROVE  After(new, path[n + 1], e) = After(new, path[i], e)
  <1> DEFINE T == {k \in i .. n + 1 : After(new, path[k], e) # After(new, path[i], e)}
  <1> SUFFICES ASSUME n + 1 \in T
               PROVE  FALSE
    BY DEF T
  <1>1. T \in SUBSET Nat /\ T # {}
    OBVIOUS
  <1>2. PICK m \in T : \A k \in T : m <= k
    BY <1>1, LeastNatural
  <1>3. m \in i .. n + 1 /\ m # i
    BY <1>2
  <1>4. m - 1 \in i .. n /\ m - 1 \in 1 .. n + 1 /\ (m - 1) + 1 = m /\ m - 1 \in i .. n + 1
        /\ ~ (m <= m - 1)
    BY <1>3
  <1>5. After(new, path[m - 1], e) = After(new, path[i], e)
    BY <1>2, <1>4
  <1>6. path[m] = After(flags, path[m - 1], e) /\ path[m - 1] \in Chain
    BY <1>4
  <1>7. After(new, path[m], e) = After(new, path[m - 1], e)
    BY <1>6, Overwrites
  <1> QED
    BY <1>2, <1>5, <1>7

(* The syncer announces one more event.  An event of the same block that    *)
(* waits has nothing but such events behind it, so what was announced after *)
(* it is overwritten.                                                      *)
LEMMA Push ==
  ASSUME NEW flags \in [Block -> BOOLEAN], NEW c \in Chain, NEW s \in Chain,
         NEW q \in Seq(Block), Leads(flags, c, q, s),
         NEW e \in Block, NEW gone \in BOOLEAN, Announces(s, e, gone),
         \A i, j \in 1 .. Len(q) : i < j /\ q[i] = e => q[j] = e
  PROVE  LET new == [flags EXCEPT ![e] = gone]
         IN  Leads(new, c, Append(q, e), After(new, s, e))
  <1> PICK n \in Nat : n = Len(q)
    OBVIOUS
  <1>1. PICK path \in [1 .. n + 1 -> Chain] :
               /\ path[1] = c /\ path[n + 1] = s
               /\ \A i \in 1 .. n : Fits(path[i], q[i]) /\ path[i + 1] = After(flags, path[i], q[i])
    BY DEF Leads
  <1> DEFINE new  == [flags EXCEPT ![e] = gone]
             t    == After(new, s, e)
             r    == Append(q, e)
             past(i) == \E j \in 1 .. n : j < i /\ q[j] = e
             next == [i \in 1 .. n + 2 |-> IF i = n + 2 \/ past(i) THEN t ELSE path[i]]
  <1>2. new \in [Block -> BOOLEAN] /\ t \in Chain
    BY AfterChain
  <1>3. /\ Len(r) = n + 1 /\ r[n + 1] = e
        /\ \A i \in 1 .. n : r[i] = q[i] /\ q[i] \in Block
    BY AppendProperties
  <1>4. Fits(s, e)
    BY AnnouncedFits
  <1>5. Fits(t, e) /\ After(new, t, e) = t
    BY <1>2, <1>4, FitsStill, Overwrites
  <1> HIDE DEF t, r
  <1>6. next \in [1 .. n + 2 -> Chain]
    BY <1>1, <1>2
  <1>7. next[1] = c /\ next[n + 2] = t
    BY <1>1
  <1>8. ASSUME NEW i \in 1 .. n + 1
        PROVE  Fits(next[i], r[i]) /\ next[i + 1] = After(new, next[i], r[i])
    <2>1. i \in 1 .. n + 2 /\ i + 1 \in 1 .. n + 2 /\ i # n + 2 /\ (i + 1 = n + 2 <=> i = n + 1)
          /\ (i = n + 1 \/ i \in 1 .. n)
      OBVIOUS
    <2>2. CASE past(i)
      <3>1. r[i] = e
        BY <1>3, <2>1, <2>2
      <3>2. past(i + 1)
        BY <2>2
      <3> QED
        BY <1>5, <2>1, <2>2, <3>1, <3>2
    <2>3. CASE ~past(i) /\ r[i] # e
      <3>1. i \in 1 .. n /\ r[i] = q[i] /\ q[i] # e
        BY <1>3, <2>1, <2>3
      <3>2. \A j \in 1 .. n : j < i + 1 => j = i \/ j < i
        OBVIOUS
      <3>3. ~past(i + 1)
        BY <2>3, <3>1, <3>2
      <3>4. next[i] = path[i] /\ next[i + 1] = path[i + 1] /\ path[i] \in Chain
        BY <2>1, <2>3, <3>1, <3>3
      <3>5. new[q[i]] = flags[q[i]]
        BY <1>3, <3>1
      <3> HIDE DEF past, next, new
      <3>6. After(new, path[i], q[i]) = After(flags, path[i], q[i])
        BY <3>5 DEF After
      <3> QED
        BY <1>1, <3>1, <3>4, <3>6
    <2>4. CASE ~past(i) /\ r[i] = e
      <3>1. next[i] = path[i] /\ path[i] \in Chain
        BY <2>1, <2>4
      <3>2. next[i + 1] = t
        <4>1. CASE i = n + 1
          BY <2>1, <4>1
        <4>2. CASE i \in 1 .. n
          <5>1. q[i] = e /\ i < i + 1
            BY <1>3, <2>4, <4>2
          <5>2. past(i + 1)
            BY <4>2, <5>1
          <5> QED
            BY <2>1, <5>2
        <4> QED
          BY <2>1, <4>1, <4>2
      <3>3. \A k \in i .. n : q[k] = e /\ k \in 1 .. n
        BY <1>3, <2>1, <2>4
      <3> HIDE DEF past, next, new
      <3>4. \A k \in i .. n : path[k + 1] = After(flags, path[k], e)
        BY <1>1, <3>3
      <3>5. After(new, path[n + 1], e) = After(new, path[i], e)
        BY <1>2, <3>4, InARow
      <3>6. t = After(new, path[i], e)
        BY <1>1, <3>5 DEF t
      <3>7. Fits(path[i], e)
        BY <1>1, <1>4, <2>1, <2>4, <3>3
      <3> QED
        BY <2>4, <3>1, <3>2, <3>6, <3>7
    <2> QED
      BY <2>2, <2>3, <2>4
  <1> HIDE DEF past, next, new
  <1>9. n + 1 + 1 = n + 2
    OBVIOUS
  <1>10. Leads(new, c, r, t)
    BY <1>3, <1>6, <1>7, <1>8, <1>9 DEF Leads
  <1> QED
    BY <1>10 DEF new, r, t

(* The worker takes the first event: what is left leads on from there.      *)
LEMMA Pop ==
  ASSUME NEW flags, NEW c, NEW s, NEW b \in Block, NEW q \in Seq(Block),
         Leads(flags, c, <<b>> \o q, s)
  PROVE  /\ Fits(c, b)
         /\ Leads(flags, After(flags, c, b), q, s)
  <1> DEFINE r == <<b>> \o q
  <1> PICK n \in Nat : n = Len(q)
    OBVIOUS
  <1>1. /\ Len(r) = n + 1 /\ r[1] = b
        /\ \A i \in 1 .. n : r[i + 1] = q[i]
    <2>1. <<b>> \in Seq(Block) /\ Len(<<b>>) = 1 /\ <<b>>[1] = b
      OBVIOUS
    <2>2. r[1] = b
      BY <2>1, ConcatProperties
    <2>3. Len(r) = n + 1
      BY <2>1, ConcatProperties
    <2> QED
      BY <2>1, <2>2, <2>3, ConcatProperties
  <1>2. Leads(flags, c, r, s)
    OBVIOUS
  <1> HIDE DEF r
  <1>3. PICK path \in [1 .. (n + 1) + 1 -> Chain] :
               /\ path[1] = c /\ path[(n + 1) + 1] = s
               /\ \A i \in 1 .. n + 1 : Fits(path[i], r[i]) /\ path[i + 1] = After(flags, path[i], r[i])
    BY <1>1, <1>2 DEF Leads
  <1> DEFINE rest == [i \in 1 .. n + 1 |-> path[i + 1]]
  <1>4. Fits(c, b) /\ path[2] = After(flags, c, b)
    <2>1. 1 \in 1 .. n + 1 /\ 1 + 1 = 2
      OBVIOUS
    <2>2. Fits(path[1], r[1]) /\ path[1 + 1] = After(flags, path[1], r[1])
      BY <1>3, <2>1
    <2> QED
      BY <1>1, <1>3, <2>1, <2>2
  <1>5. rest \in [1 .. n + 1 -> Chain]
    <2>1. \A i \in 1 .. n + 1 : i + 1 \in 1 .. (n + 1) + 1
      OBVIOUS
    <2> QED
      BY <2>1
  <1>6. rest[1] = path[2] /\ rest[n + 1] = s
    <2>1. 1 \in 1 .. n + 1 /\ n + 1 \in 1 .. n + 1 /\ 1 + 1 = 2
      OBVIOUS
    <2> QED
      BY <1>3, <2>1
  <1>7. ASSUME NEW i \in 1 .. n
        PROVE  Fits(rest[i], q[i]) /\ rest[i + 1] = After(flags, rest[i], q[i])
    <2>1. i + 1 \in 1 .. n + 1 /\ i \in 1 .. n + 1
      OBVIOUS
    <2>2. rest[i] = path[i + 1] /\ rest[i + 1] = path[(i + 1) + 1] /\ q[i] = r[i + 1]
      BY <1>1, <2>1
    <2> HIDE DEF rest
    <2> QED
      BY <1>3, <2>1, <2>2
  <1> HIDE DEF rest
  <1>8. Leads(flags, path[2], q, s)
    BY <1>5, <1>6, <1>7 DEF Leads
  <1> QED
    BY <1>4, <1>8

-----------------------------------------------------------------------------
(* What a step does to the tables in memory.                                *)

LEMMA ChainTypes ==
  ASSUME TypeOK
  PROVE  /\ Known \subseteq Block /\ Base \in Chain /\ Announced \in Chain
         /\ workQueue \in Seq(Block) /\ remove \in [Block -> BOOLEAN]
         /\ lastBlockSymbol \in Int /\ job.block \in Block
  <1>1. Known \subseteq Block
    BY OverlayKeys DEF Known, View, Written, TypeOK, DbTypeOK, FlushTypeOK, BatchesType, IsMap
  <1>2. /\ workQueue \in Seq(Block) /\ remove \in [Block -> BOOLEAN] /\ synced \in Seq(Block)
        /\ lastBlockSymbol \in Int
    BY DEF TypeOK, WorkerTypeOK, FieldTypeOK
  <1>3. Base \in Chain
    BY <1>1, <1>2 DEF Base, Chain
  <1>4. \A i \in DOMAIN synced : synced[i] \in Block
    BY <1>2
  <1>5. Len(synced) - 1 \in Int
    BY <1>2
  <1>6. Announced \in Chain
    BY <1>4, <1>5 DEF Announced, Chain
  <1> QED
    BY <1>1, <1>2, <1>3, <1>6, JobTypes

LEMMA UnknownBlock ==
  ASSUME IInv, pc = "taken"
  PROVE  /\ BlockSymbol(job.block) = None <=> job.block \notin Known
         /\ job.block \in Known => Height[job.block] \in Nat
  <1>1. job.block \in Block /\ Height[job.block] \in Nat
    BY JobTypes DEF IInv
  <1>2. BlockSymbol(job.block) = Get(View("block-sym"), job.block)
    BY <1>1 DEF IInv, CacheInv, ReadsSeePendingWrites
  <1>3. job.block \in Known => View("block-sym")[job.block] = Height[job.block]
    BY DEF IInv, HeightInv, Gapless, Known
  <1> QED
    BY <1>1, <1>2, <1>3, SentinelsAreNoValues DEF Get, Known

LEMMA AddedBlock ==
  ASSUME TypeOK, AddBlock
  PROVE  LET b == job.block IN
         /\ UNCHANGED <<db, meta>> /\ lastBlockSymbol' = Height[b]
         /\ Known' = Known \cup {b}
         /\ \A h : h \in Heights' <=> h = Height[b] \/ h \in Heights
         /\ View("sym-block")'[Height[b]] = b
         /\ \A h \in Heights : h # Height[b] => View("sym-block")'[h] = View("sym-block")[h]
  <1> DEFINE b == job.block
             h == Height[job.block]
  <1>1. h # Deleted /\ b # Deleted
    BY JobTypes, SentinelsAreNoValues
  <1>2. /\ dbBatches'["block-sym"] = Put(dbBatches["block-sym"], b, h)
        /\ dbBatches'["sym-block"] = Put(dbBatches["sym-block"], h, b)
        /\ db' = db /\ meta' = meta /\ lastBlockSymbol' = h
    BY DEF AddBlock, Tables, database, TypeOK, BatchesType
  <1>3. Quiet
    BY QuietSteps
  <1> HIDE DEF b, h
  <1>4. /\ \A x : x \in DOMAIN View("sym-block")' <=> x = h \/ x \in DOMAIN View("sym-block")
        /\ View("sym-block")'[h] = b
        /\ \A x \in DOMAIN View("sym-block") : x # h =>
             View("sym-block")'[x] = View("sym-block")[x]
    BY <1>1, <1>2, <1>3, ViewPut DEF BlockTables
  <1>5. \A x : x \in DOMAIN View("block-sym")' <=> x = b \/ x \in DOMAIN View("block-sym")
    BY <1>1, <1>2, <1>3, ViewPut DEF BlockTables
  <1>6. Known' = Known \cup {b}
    BY <1>5 DEF Known
  <1> QED
    BY <1>2, <1>4, <1>6 DEF Heights, b, h

LEMMA RemovedBlock ==
  ASSUME IInv, OrderInv, CommitRemove
  PROVE  LET b == job.block IN
         /\ UNCHANGED <<db, meta>> /\ lastBlockSymbol' = lastBlockSymbol - 1
         /\ Known' = Known \ {b} /\ b \in Known /\ Height[b] = lastBlockSymbol
         /\ lastBlockSymbol \in Nat
         /\ View("sym-block")' = View("sym-block")
  <1> DEFINE b == job.block
  <1> USE DEF IInv
  <1>1. /\ pc = "untx" /\ lastBlockSymbol' = ParentSymbol(b) /\ FlushBegins
        /\ b \in Block /\ Height[b] \in Nat
    BY JobTypes DEF CommitRemove, FlushBegins
  <1>2. b \in Known /\ Height[b] = lastBlockSymbol
    BY <1>1 DEF OrderInv, Undoing
  <1>3. ParentSymbol(b) # None
    BY <1>1 DEF WorkerInv, RemovalPc
  <1>4. /\ ParentSymbol(b) = BlockSymbol(Parent[b]) /\ Parent[b] \in Block
        /\ Height[b] # 0
    BY <1>1, <1>3, LedgerFacts DEF ParentSymbol
  <1>5. Height[b] = Height[Parent[b]] + 1 /\ Height[Parent[b]] \in Nat
    BY <1>1, <1>4, LedgerTree, LedgerFacts
  <1>6. BlockSymbol(Parent[b]) = Height[Parent[b]]
    BY <1>1, <1>3, <1>4, KnownBlock
  <1>7. lastBlockSymbol' = lastBlockSymbol - 1
    BY <1>1, <1>2, <1>4, <1>5, <1>6
  <1>8. /\ View("sym-block")' = View("sym-block") /\ db' = db /\ meta' = meta
        /\ flush'.ops["block-sym"] = Put(dbBatches["block-sym"], b, Deleted)
    BY <1>1, Taken, TakenLayers DEF TakenBlocks
  <1>9. Known' = Known \ {b}
    <2>1. /\ flush.ops["block-sym"] = EmptyMap /\ NoBatches["block-sym"] = EmptyMap
          /\ dbBatches' = NoBatches
      BY <1>1, Taken DEF FlushInv, NoFlush, NoBatches, Tables
    <2>2. View("block-sym") = Overlay(db["block-sym"], dbBatches["block-sym"])
      BY <2>1, OverlayTwice DEF View, Written
    <2>3. View("block-sym")' = Overlay(db["block-sym"], Put(dbBatches["block-sym"], b, Deleted))
      BY <1>8, <2>1, OverlayTwice DEF View, Written
    <2> DEFINE ops == dbBatches["block-sym"]
               new == Put(ops, b, Deleted)
    <2>4. /\ DOMAIN new = DOMAIN ops \cup {b} /\ new[b] = Deleted
          /\ \A x \in DOMAIN ops : x # b => new[x] = ops[x]
      BY DEF Put, Merge
    <2>5. Known' = DOMAIN Overlay(db["block-sym"], new) /\ Known = DOMAIN Overlay(db["block-sym"], ops)
      BY <2>2, <2>3 DEF Known
    <2> HIDE DEF new, ops, b
    <2>6. \A x : x \in Known' <=> x \in Known /\ x # b
      BY <2>4, <2>5 DEF Overlay
    <2> QED
      BY <2>6
  <1> QED
    BY <1>1, <1>2, <1>7, <1>8, <1>9

(* Any other step leaves the tables in memory alone.                        *)
LEMMA ViewsKept ==
  ASSUME IInv, [Next]_vars, ~AddBlock, ~CommitRemove, ~Reboot
  PROVE  /\ View("block-sym")' = View("block-sym") /\ View("sym-block")' = View("sym-block")
         /\ lastBlockSymbol' = lastBlockSymbol
         /\ UNCHANGED <<db, meta>> \/ WriteBatches
  <1> USE DEF IInv
  <1>1. CASE Still \/ AddTx \/ RemoveTxSymbol
    <2>1. /\ Quiet /\ lastBlockSymbol' = lastBlockSymbol
          /\ dbBatches'["block-sym"] = dbBatches["block-sym"]
          /\ dbBatches'["sym-block"] = dbBatches["sym-block"]
      BY <1>1, QuietSteps
         DEF Still, BlockTables, AddTx, RemoveTxSymbol, heights, TypeOK, BatchesType, Tables
    <2> QED
      BY <2>1, LayersKept DEF BlockTables, Quiet
  <1>2. CASE FlushBegins
    <2>1. pc # "untx"
      BY <1>2 DEF FlushBegins, FinishBlockAndFlush, BeginRemove, SaveState
    <2> QED
      BY <1>2, <2>1, Taken, TakenLayers DEF heights
  <1>3. CASE WriteBatches
    BY <1>3, WrittenLayers DEF WriteBatches, Tables
  <1> QED
    BY <1>1, <1>2, <1>3, StillSteps

LEMMA ChainedStep ==
  ASSUME IInv, OrderInv, ChainedInv, [Next]_vars
  PROVE  ChainedInv'
  <1> USE DEF IInv
  <1>0. /\ lastBlockSymbol \in Nat \cup {-1}
        /\ \A h \in Heights : Height[View("sym-block")[h]] = h
    BY DEF TypeOK, FieldTypeOK, HeightInv, Gapless, Heights
  <1>1. CASE AddBlock
    <2> DEFINE b == job.block
    <2>1. /\ UNCHANGED <<db, meta>> /\ lastBlockSymbol' = Height[b]
          /\ Known' = Known \cup {b}
          /\ \A h : h \in Heights' <=> h = Height[b] \/ h \in Heights
          /\ View("sym-block")'[Height[b]] = b
          /\ \A h \in Heights : h # Height[b] => View("sym-block")'[h] = View("sym-block")[h]
      BY <1>1, AddedBlock
    <2>2. pc = "taken" /\ b \notin Known
      BY <1>1, UnknownBlock DEF AddBlock
    <2>3. Height[b] = lastBlockSymbol + 1
      <3>1. workQueue \in Seq(Block) /\ b \in Block
        BY ChainTypes
      <3>2. Leads(remove, Base, <<b>> \o workQueue, Announced)
        BY <2>2 DEF OrderInv, Pending
      <3>3. Fits(Base, b)
        BY <3>1, <3>2, Pop
      <3>4. Base = [blocks |-> Known, top |-> lastBlockSymbol]
        BY <2>2 DEF Base, Undoing
      <3> QED
        BY <2>2, <3>3, <3>4 DEF Fits
    <2> HIDE DEF b
    <2>4. \A x \in Known : Height[x] \in 0 .. lastBlockSymbol /\ View("sym-block")[Height[x]] = x
      BY DEF ChainedInv, Chained, Known
    <2>5. \A h \in 0 .. lastBlockSymbol : h \in Heights /\ View("sym-block")[h] \in Known
      BY DEF ChainedInv, Chained, Known, Heights
    <2>6. \A h \in 0 .. Height[b] : h = Height[b] \/ (h \in 0 .. lastBlockSymbol /\ h # Height[b])
      BY <1>0, <2>3
    <2>7. \A h \in 0 .. lastBlockSymbol : h \in 0 .. Height[b] /\ h # Height[b]
      BY <1>0, <2>3
    <2>8. Height[b] \in 0 .. Height[b]
      BY <1>0, <2>3
    <2>9. \A x \in Known' : Height[x] \in 0 .. Height[b] /\ View("sym-block")'[Height[x]] = x
      BY <2>1, <2>4, <2>5, <2>7, <2>8
    <2>10. \A h \in 0 .. Height[b] : h \in Heights' /\ View("sym-block")'[h] \in Known'
      BY <2>1, <2>5, <2>6
    <2>11. Chained(View("sym-block"), View("block-sym"), lastBlockSymbol)'
      BY <2>1, <2>9, <2>10 DEF Chained, Known, Heights
    <2>12. Chained(db["sym-block"], db["block-sym"], DbHeight)'
      BY <2>1 DEF ChainedInv, Chained, DbHeight
    <2> QED
      BY <2>11, <2>12 DEF ChainedInv
  <1>2. CASE CommitRemove
    <2> DEFINE b == job.block
    <2>1. /\ UNCHANGED <<db, meta>> /\ lastBlockSymbol' = lastBlockSymbol - 1
          /\ Known' = Known \ {b} /\ b \in Known /\ Height[b] = lastBlockSymbol
          /\ lastBlockSymbol \in Nat
          /\ View("sym-block")' = View("sym-block")
      BY <1>2, RemovedBlock
    <2> HIDE DEF b
    <2>2. \A x \in Known : Height[x] \in 0 .. lastBlockSymbol /\ View("sym-block")[Height[x]] = x
      BY DEF ChainedInv, Chained, Known
    <2>3. \A h \in 0 .. lastBlockSymbol : h \in Heights /\ View("sym-block")[h] \in Known
      BY DEF ChainedInv, Chained, Known, Heights
    <2>4. \A h \in 0 .. lastBlockSymbol : h \in 0 .. lastBlockSymbol - 1 <=> h # lastBlockSymbol
      BY <2>1
    <2>5. \A h \in 0 .. lastBlockSymbol - 1 : h \in 0 .. lastBlockSymbol
      BY <2>1
    <2>6. \A x \in Known' : Height[x] # lastBlockSymbol
      BY <2>1, <2>2
    <2>7. \A x \in Known' : Height[x] \in 0 .. lastBlockSymbol - 1
                            /\ View("sym-block")[Height[x]] = x
      BY <2>1, <2>2, <2>4, <2>6
    <2>8. \A h \in 0 .. lastBlockSymbol - 1 : h \in Heights /\ View("sym-block")[h] \in Known'
      BY <1>0, <2>1, <2>3, <2>4, <2>5
    <2>9. Chained(View("sym-block"), View("block-sym"), lastBlockSymbol)'
      BY <2>1, <2>7, <2>8 DEF Chained, Known, Heights
    <2>10. Chained(db["sym-block"], db["block-sym"], DbHeight)'
      BY <2>1 DEF ChainedInv, Chained, DbHeight
    <2> QED
      BY <2>9, <2>10 DEF ChainedInv
  <1>3. CASE WriteBatches
    <2>1. /\ View("block-sym")' = View("block-sym") /\ View("sym-block")' = View("sym-block")
          /\ DOMAIN View("block-sym") = DOMAIN db'["block-sym"]
          /\ DOMAIN View("sym-block") = DOMAIN db'["sym-block"]
          /\ \A h \in DOMAIN db'["sym-block"] : View("sym-block")[h] = db'["sym-block"][h]
      BY <1>3, WrittenLayers DEF BlockTables, Tables
    <2>2. DbHeight' = lastBlockSymbol /\ lastBlockSymbol' = lastBlockSymbol
      BY <1>3, SentinelsAreNoValues DEF FlushInv, WriteBatches, DbHeight, OrElse
    <2>3. Chained(View("sym-block"), View("block-sym"), lastBlockSymbol)'
      BY <2>1, <2>2 DEF ChainedInv, Chained
    <2>4. Chained(db["sym-block"], db["block-sym"], DbHeight)'
      <3>1. \A b \in DOMAIN db'["block-sym"] :
              /\ Height[b] \in 0 .. lastBlockSymbol /\ Height[b] \in Heights
              /\ View("sym-block")[Height[b]] = b
        BY <2>1 DEF ChainedInv, Chained, Heights
      <3>2. \A b \in DOMAIN db'["block-sym"] :
              Height[b] \in 0 .. lastBlockSymbol /\ db'["sym-block"][Height[b]] = b
        BY <2>1, <3>1 DEF Heights
      <3>3. \A h \in 0 .. lastBlockSymbol :
              h \in DOMAIN db'["sym-block"] /\ db'["sym-block"][h] \in DOMAIN db'["block-sym"]
        BY <2>1 DEF ChainedInv, Chained
      <3> QED
        BY <2>2, <3>2, <3>3 DEF Chained
    <2> QED
      BY <2>3, <2>4 DEF ChainedInv
  <1>4. CASE Reboot
    <2>1. db' = db /\ meta' = meta /\ lastBlockSymbol' = DbHeight
      BY <1>4 DEF Reboot
    <2>2. /\ DOMAIN View("sym-block")' = DOMAIN db["sym-block"]
          /\ \A h \in DOMAIN db["sym-block"] : View("sym-block")'[h] = db["sym-block"][h]
          /\ DOMAIN View("block-sym")' = DOMAIN db["block-sym"]
      BY <1>4, RebootedLayers DEF Tables
    <2>3. Chained(db["sym-block"], db["block-sym"], DbHeight)'
      BY <2>1 DEF ChainedInv, Chained, DbHeight
    <2>4. Chained(View("sym-block"), View("block-sym"), lastBlockSymbol)'
      <3>1. \A b \in DOMAIN db["block-sym"] :
              /\ Height[b] \in 0 .. DbHeight /\ Height[b] \in DOMAIN db["sym-block"]
              /\ db["sym-block"][Height[b]] = b
        BY DEF ChainedInv, Chained
      <3>2. \A h \in 0 .. DbHeight :
              h \in DOMAIN db["sym-block"] /\ db["sym-block"][h] \in DOMAIN db["block-sym"]
        BY DEF ChainedInv, Chained
      <3> QED
        BY <2>1, <2>2, <3>1, <3>2 DEF Chained
    <2> QED
      BY <2>3, <2>4 DEF ChainedInv
  <1>5. CASE ~AddBlock /\ ~CommitRemove /\ ~Reboot /\ ~WriteBatches
    <2>1. /\ View("block-sym")' = View("block-sym") /\ View("sym-block")' = View("sym-block")
          /\ lastBlockSymbol' = lastBlockSymbol /\ UNCHANGED <<db, meta>>
      BY <1>5, ViewsKept
    <2>2. Chained(View("sym-block"), View("block-sym"), lastBlockSymbol)'
      BY <2>1 DEF ChainedInv, Chained
    <2>3. Chained(db["sym-block"], db["block-sym"], DbHeight)'
      BY <2>1 DEF ChainedInv, Chained, DbHeight
    <2> QED
      BY <2>2, <2>3 DEF ChainedInv
  <1> QED
    BY <1>1, <1>2, <1>3, <1>4, <1>5

-----------------------------------------------------------------------------
(* What a step does to the events that wait.                                *)

LEMMA PendingTypes ==
  ASSUME TypeOK, OrderInv, pc # "exited"
  PROVE  /\ Pending \in Seq(Block) /\ Leads(remove, Base, Pending, Announced)
         /\ pc # "taken" => Pending = workQueue
  <1>1. <<job.block>> \in Seq(Block) /\ workQueue \in Seq(Block)
    BY ChainTypes
  <1>2. <<job.block>> \o workQueue \in Seq(Block)
    BY <1>1, ConcatProperties
  <1> QED
    BY <1>1, <1>2 DEF Pending, OrderInv

(* A step that does nothing about blocks.                                   *)
LEMMA OrderFrame ==
  ASSUME OrderInv, pc # "exited",
         UNCHANGED <<workQueue, remove, synced, lastBlockSymbol>>, Known' = Known,
         pc \in Undoing <=> pc' \in Undoing, pc \in Undoing => job'.block = job.block,
         pc \notin {"taken", "exited"}, pc' # "taken"
  PROVE  OrderInv'
  <1>1. Base' = Base /\ Announced' = Announced /\ Pending' = Pending
    BY DEF Base, Announced, Pending
  <1> QED
    BY <1>1 DEF OrderInv, Leads

(* Once the worker has decided what to do about a block, the chain it       *)
(* starts from is the one after that event.                                *)
LEMMA Decided ==
  ASSUME IInv, OrderInv, pc = "taken", pc' \notin {"taken", "exited"},
         UNCHANGED <<workQueue, remove, synced>>,
         Base' = After(remove, Base, job.block),
         pc' \in Undoing => /\ job'.block \in Known' /\ Height[job'.block] = lastBlockSymbol'
  PROVE  OrderInv'
  <1>1. workQueue \in Seq(Block) /\ job.block \in Block
    BY ChainTypes DEF IInv
  <1>2. Leads(remove, Base, <<job.block>> \o workQueue, Announced)
    BY DEF OrderInv, Pending
  <1>3. Leads(remove, Base', workQueue, Announced)
    BY <1>1, <1>2, Pop
  <1>4. Pending' = workQueue /\ Announced' = Announced
    BY DEF Pending, Announced
  <1> QED
    BY <1>3, <1>4 DEF OrderInv, Leads

LEMMA SkipOrder ==
  ASSUME IInv, OrderInv, SkipBlock
  PROVE  OrderInv'
  <1>1. /\ pc = "taken" /\ pc' = "idle" /\ ~remove[job.block] /\ BlockSymbol(job.block) # None
        /\ UNCHANGED <<index, workQueue, remove, synced>>
    BY DEF SkipBlock, outside, events, syncer
  <1>2. job.block \in Known
    BY <1>1, UnknownBlock
  <1>3. Known' = Known /\ lastBlockSymbol' = lastBlockSymbol
    BY <1>1 DEF index, database, heights, Known, View, Written
  <1>4. Base' = Base /\ Base.blocks = Known
    BY <1>1, <1>3 DEF Base, Undoing
  <1>5. After(remove, Base, job.block) = Base
    BY <1>1, <1>2, <1>4 DEF After
  <1> QED
    BY <1>1, <1>4, <1>5, Decided DEF Undoing

LEMMA AddOrder ==
  ASSUME IInv, OrderInv, AddBlock
  PROVE  OrderInv'
  <1> DEFINE b == job.block
  <1>1. /\ pc = "taken" /\ pc' = "tx" /\ ~remove[b] /\ BlockSymbol(b) = None
        /\ UNCHANGED <<workQueue, remove, synced>>
    BY DEF AddBlock, outside, events, syncer
  <1>2. b \notin Known
    BY <1>1, UnknownBlock
  <1>3. Known' = Known \cup {b} /\ lastBlockSymbol' = Height[b]
    BY AddedBlock DEF IInv
  <1>4. Base = [blocks |-> Known, top |-> lastBlockSymbol]
    BY <1>1 DEF Base, Undoing
  <1>5. Height[b] = lastBlockSymbol + 1
    <2>1. workQueue \in Seq(Block) /\ b \in Block
      BY ChainTypes DEF IInv
    <2>2. Leads(remove, Base, <<b>> \o workQueue, Announced)
      BY <1>1 DEF OrderInv, Pending
    <2>3. Fits(Base, b)
      BY <2>1, <2>2, Pop
    <2> QED
      BY <1>2, <1>4, <2>3 DEF Fits
  <1>6. Base' = [blocks |-> Known', top |-> lastBlockSymbol']
    BY <1>1 DEF Base, Undoing
  <1>7. After(remove, Base, b) = [blocks |-> Known \cup {b}, top |-> lastBlockSymbol + 1]
    BY <1>1, <1>2, <1>4 DEF After
  <1>8. Base' = After(remove, Base, b)
    BY <1>3, <1>5, <1>6, <1>7
  <1> QED
    BY <1>1, <1>8, Decided DEF Undoing

LEMMA BeginRemoveOrder ==
  ASSUME IInv, OrderInv, BeginRemove
  PROVE  OrderInv'
  <1> DEFINE b == job.block
  <1>1. /\ pc = "taken" /\ pc' = "firstFlush" /\ remove[b] /\ BlockSymbol(b) # None
        /\ UNCHANGED <<workQueue, remove, synced, job, lastBlockSymbol>> /\ FlushBegins
    BY DEF BeginRemove, events, syncer, heights, FlushBegins
  <1>2. b \in Known
    BY <1>1, UnknownBlock
  <1>3. Known' = Known
    BY <1>1, TakenLayers DEF IInv, Known
  <1>4. Base = [blocks |-> Known, top |-> lastBlockSymbol]
    BY <1>1 DEF Base, Undoing
  <1>5. Height[b] = lastBlockSymbol
    <2>1. workQueue \in Seq(Block) /\ b \in Block
      BY ChainTypes DEF IInv
    <2>2. Leads(remove, Base, <<b>> \o workQueue, Announced)
      BY <1>1 DEF OrderInv, Pending
    <2>3. Fits(Base, b)
      BY <2>1, <2>2, Pop
    <2> QED
      BY <1>2, <1>4, <2>3 DEF Fits
  <1>6. Base' = [blocks |-> Known \ {b}, top |-> lastBlockSymbol - 1]
    BY <1>1, <1>3 DEF Base, Undoing
  <1>7. After(remove, Base, b) = [blocks |-> Known \ {b}, top |-> lastBlockSymbol - 1]
    BY <1>1, <1>2, <1>4 DEF After
  <1> QED
    BY <1>1, <1>2, <1>3, <1>5, <1>6, <1>7, Decided

LEMMA CommitOrder ==
  ASSUME IInv, OrderInv, CommitRemove
  PROVE  OrderInv'
  <1>1. /\ pc = "untx" /\ pc' = "secondFlush" /\ UNCHANGED <<workQueue, remove, synced>>
    BY DEF CommitRemove, events, syncer
  <1>2. Known' = Known \ {job.block} /\ lastBlockSymbol' = lastBlockSymbol - 1
    BY RemovedBlock
  <1>3. Base' = Base /\ Announced' = Announced /\ Pending' = Pending
    BY <1>1, <1>2 DEF Base, Announced, Pending, Undoing
  <1> QED
    BY <1>1, <1>3 DEF OrderInv, Undoing

LEMMA TakeOrder ==
  ASSUME IInv, OrderInv, Take
  PROVE  OrderInv'
  <1>1. /\ pc = "idle" /\ pc' = "taken" /\ workQueue # <<>> /\ workQueue' = Tail(workQueue)
        /\ UNCHANGED <<db, flush, dbBatches, synced, remove, lastBlockSymbol>>
    BY DEF Take, database, syncer, heights
  <1>2. job'.block = Head(workQueue)
    BY JobUpdates DEF Take, IInv, JobType
  <1>3. workQueue \in Seq(Block)
    BY ChainTypes DEF IInv
  <1>4. <<Head(workQueue)>> \o Tail(workQueue) = workQueue
    BY <1>1, <1>3
  <1>6. Known' = Known
    BY <1>1 DEF Known, View, Written
  <1>7. Base' = Base /\ Announced' = Announced /\ Pending' = Pending
    BY <1>1, <1>2, <1>4, <1>6 DEF Base, Announced, Pending, Undoing
  <1> QED
    BY <1>1, <1>7 DEF OrderInv, Undoing

LEMMA SyncerMoves ==
  ASSUME TypeOK, Syncer
  PROVE  ~ UNCHANGED vars
  <1> PICK b \in Block : workQueue' = Append(workQueue, b)
    BY DEF Syncer, BlockAdded, BlockRemoved, HandleBlock
  <1> PICK n \in Nat : n = Len(workQueue)
    BY DEF TypeOK, WorkerTypeOK
  <1>1. Len(workQueue') = n + 1
    BY AppendProperties DEF TypeOK, WorkerTypeOK
  <1>2. workQueue' # workQueue
    BY <1>1
  <1> QED
    BY <1>2 DEF vars, outside, events

(* What the syncer announces is one more event that leads there.            *)
LEMMA SyncerOrder ==
  ASSUME InTurn, IInv, OrderInv, Syncer
  PROVE  OrderInv'
  <1> USE DEF IInv
  <1>1. PICK b \in Block : BlockAdded(b) \/ BlockRemoved(b)
    BY DEF Syncer
  <1>0. PICK gone \in BOOLEAN : IF gone THEN BlockRemoved(b) ELSE BlockAdded(b)
    <2>1. CASE BlockRemoved(b)
      <3> WITNESS TRUE \in BOOLEAN
      <3> QED
        BY <2>1
    <2>2. CASE BlockAdded(b)
      <3> WITNESS FALSE \in BOOLEAN
      <3> QED
        BY <2>2
    <2> QED
      BY <1>1, <2>1, <2>2
  <1>2. HandleBlock(b, gone)
    BY <1>0 DEF BlockAdded, BlockRemoved
  <1>3. /\ pc # "exited"
        /\ remove' = [remove EXCEPT ![b] = gone] /\ workQueue' = Append(workQueue, b)
        /\ UNCHANGED <<db, flush, dbBatches, lastBlockSymbol, pc, job>>
    BY <1>2 DEF HandleBlock, index, database, worker, heights
  <1>4. /\ workQueue \in Seq(Block) /\ remove \in [Block -> BOOLEAN] /\ synced \in Seq(Block)
        /\ Base \in Chain /\ Announced \in Chain /\ job.block \in Block
        /\ Len(synced) \in Nat /\ DOMAIN synced = 1 .. Len(synced)
    BY ChainTypes DEF TypeOK, WorkerTypeOK
  <1>5. Base' = Base
    BY <1>3 DEF Base, Known, View, Written
  <1>6. /\ Pending \in Seq(Block)
        /\ \A i, j \in 1 .. Len(Pending) : i < j /\ Pending[i] = b => Pending[j] = b
    <2>1. Pending \in Seq(Block)
      BY <1>3, PendingTypes
    <2>2. ~Overtakes(b)
      BY <1>1 DEF InTurn
    <2> QED
      BY <2>1, <2>2 DEF Overtakes
  <1>7. Pending' = Append(Pending, b)
    <2>1. CASE pc = "taken"
      <3>1. <<job.block>> \in Seq(Block) /\ <<b>> \in Seq(Block)
        BY <1>4
      <3>2. <<job.block>> \o workQueue \in Seq(Block)
        BY <1>4, <3>1, ConcatProperties
      <3>3. Append(workQueue, b) = workQueue \o <<b>>
        BY <1>4
      <3>4. Append(<<job.block>> \o workQueue, b) = (<<job.block>> \o workQueue) \o <<b>>
        BY <3>2
      <3>5. (<<job.block>> \o workQueue) \o <<b>> = <<job.block>> \o (workQueue \o <<b>>)
        BY <1>4, <3>1, ConcatAssociative
      <3> QED
        BY <1>3, <2>1, <3>3, <3>4, <3>5 DEF Pending
    <2>2. CASE pc # "taken"
      BY <1>3, <2>2 DEF Pending
    <2> QED
      BY <2>1, <2>2
  <1>8. Leads(remove, Base, Pending, Announced)
    BY <1>3 DEF OrderInv
  <1>9. \A i \in 1 .. Len(synced) : Height[synced[i]] = i - 1 /\ synced[i] \in Block
    BY <1>3, <1>4 DEF QueueInv
  <1>10. /\ Announces(Announced, b, gone)
         /\ Announced' = IF gone THEN [blocks |-> Announced.blocks \ {b}, top |-> Announced.top - 1]
                                 ELSE [blocks |-> Announced.blocks \cup {b}, top |-> Announced.top + 1]
    <2> PICK n \in Nat : n = Len(synced)
      BY <1>4
    <2>1. Announced = [blocks |-> {synced[i] : i \in 1 .. n}, top |-> n - 1]
      BY <1>4 DEF Announced
    <2>2. CASE gone
      <3>1. /\ b = synced[n] /\ n > 1 /\ synced' = SubSeq(synced, 1, n - 1)
        BY <1>0, <2>2 DEF BlockRemoved
      <3>2. Height[b] = n - 1 /\ b \in Announced.blocks
        BY <1>9, <2>1, <3>1
      <3>3. /\ Len(synced') = n - 1 /\ DOMAIN synced' = 1 .. n - 1
            /\ \A i \in 1 .. n - 1 : synced'[i] = synced[i]
        BY <1>9, <3>1, SubSeqProperties
      <3>4. Announced' = [blocks |-> {synced[i] : i \in 1 .. n - 1}, top |-> (n - 1) - 1]
        BY <3>3 DEF Announced
      <3>5. {synced[i] : i \in 1 .. n - 1} = {synced[i] : i \in 1 .. n} \ {b}
        <4>1. \A i \in 1 .. n : i \in 1 .. n - 1 <=> Height[synced[i]] # n - 1
          BY <1>9, <3>1
        <4>2. \A i \in 1 .. n : synced[i] = b <=> i = n
          BY <1>9, <3>1, <3>2
        <4>3. \A i : i \in 1 .. n - 1 <=> i \in 1 .. n /\ i # n
          BY <3>1
        <4> QED
          BY <4>2, <4>3
      <3> QED
        BY <2>1, <2>2, <3>2, <3>4, <3>5 DEF Announces
    <2>3. CASE ~gone
      <3>1. Height[b] = n /\ synced' = Append(synced, b)
        BY <1>0, <2>3 DEF BlockAdded
      <3>2. b \notin Announced.blocks
        BY <1>9, <2>1, <3>1
      <3>3. /\ Len(synced') = n + 1 /\ DOMAIN synced' = 1 .. n + 1 /\ synced'[n + 1] = b
            /\ \A i \in 1 .. n : synced'[i] = synced[i]
        BY <1>4, <3>1, AppendProperties
      <3>4. Announced' = [blocks |-> {synced'[i] : i \in 1 .. n + 1}, top |-> n + 1 - 1]
        BY <3>3 DEF Announced
      <3>5. {synced'[i] : i \in 1 .. n + 1} = {synced[i] : i \in 1 .. n} \cup {b}
        <4>1. \A i : i \in 1 .. n + 1 <=> i \in 1 .. n \/ i = n + 1
          OBVIOUS
        <4> QED
          BY <3>3, <4>1
      <3>6. n + 1 - 1 = n /\ n - 1 + 1 = n
        OBVIOUS
      <3> QED
        BY <2>1, <2>3, <3>1, <3>2, <3>4, <3>5, <3>6 DEF Announces
    <2> QED
      BY <2>2, <2>3
  <1>11. After(remove', Announced, b) = Announced'
    BY <1>3, <1>4, <1>10 DEF After, Announces
  <1>12. Leads(remove', Base', Pending', Announced')
    <2> DEFINE new == [remove EXCEPT ![b] = gone]
    <2>1. Leads(new, Base, Append(Pending, b), After(new, Announced, b))
      BY <1>4, <1>6, <1>8, <1>10, Push
    <2> HIDE DEF new
    <2>2. remove' = new
      BY <1>3 DEF new
    <2> QED
      BY <1>5, <1>7, <1>11, <2>1, <2>2
  <1>13. pc' \in Undoing => job'.block \in Known' /\ Height[job'.block] = lastBlockSymbol'
    BY <1>3 DEF OrderInv, Known, View, Written
  <1> QED
    BY <1>12, <1>13 DEF OrderInv

(* A restart starts over from what is on disk.                              *)
LEMMA RebootOrder ==
  ASSUME IInv, ChainedInv, Reboot
  PROVE  OrderInv'
  <1> USE DEF IInv
  <1>1. /\ workQueue' = <<>> /\ pc' = "idle" /\ synced' = DbChain /\ lastBlockSymbol' = DbHeight
    BY DEF Reboot
  <1>2. Known' = DOMAIN db["block-sym"]
    BY RebootedLayers DEF Tables, Known
  <1>3. /\ DbHeight \in Nat \cup {-1} /\ Len(synced') - 1 = DbHeight
        /\ DOMAIN synced' = 1 .. DbHeight + 1
        /\ \A i \in 1 .. DbHeight + 1 : synced'[i] = db["sym-block"][i - 1] /\ i - 1 \in 0 .. DbHeight
    BY <1>1, DbChainType
  <1>4. {synced'[i] : i \in 1 .. DbHeight + 1} = DOMAIN db["block-sym"]
    <2>1. \A i \in 1 .. DbHeight + 1 : synced'[i] \in DOMAIN db["block-sym"]
      BY <1>3 DEF ChainedInv, Chained
    <2>2. ASSUME NEW b \in DOMAIN db["block-sym"]
          PROVE  \E i \in 1 .. DbHeight + 1 : synced'[i] = b
      <3>1. Height[b] \in 0 .. DbHeight /\ db["sym-block"][Height[b]] = b
        BY DEF ChainedInv, Chained
      <3>2. Height[b] + 1 \in 1 .. DbHeight + 1 /\ Height[b] + 1 - 1 = Height[b]
        BY <1>3, <3>1
      <3> QED
        BY <1>3, <3>1, <3>2
    <2> QED
      BY <2>1, <2>2
  <1>5. Base' = Announced' /\ Pending' = <<>>
    BY <1>1, <1>2, <1>3, <1>4 DEF Base, Announced, Pending, Undoing
  <1>6. Leads(remove', Base', <<>>, Announced')
    <2>1. Announced' = [blocks |-> DOMAIN db["block-sym"], top |-> DbHeight]
      BY <1>3, <1>4 DEF Announced
    <2>2. DOMAIN db["block-sym"] \subseteq Block /\ DbHeight \in Int
      BY <1>3 DEF TypeOK, DbTypeOK, IsMap
    <2>3. Announced' \in Chain
      BY <2>1, <2>2 DEF Chain
    <2> QED
      BY <1>5, <2>3, NoEvents
  <1> QED
    BY <1>1, <1>5, <1>6 DEF OrderInv, Undoing

LEMMA OrderStep ==
  ASSUME [InTurn]_vars, IInv, OrderInv, ChainedInv, [Next]_vars
  PROVE  OrderInv'
  <1> USE DEF IInv
  <1>1. CASE Take \/ SkipBlock \/ AddBlock \/ BeginRemove \/ CommitRemove \/ Syncer \/ Reboot
    <2>1. Syncer => InTurn
      BY SyncerMoves
    <2> QED
      BY <1>1, <2>1, TakeOrder, SkipOrder, AddOrder, BeginRemoveOrder, CommitOrder, SyncerOrder,
         RebootOrder
  <1>2. CASE Exit
    BY <1>2 DEF Exit, OrderInv
  <1>3. ASSUME ~Take, ~SkipBlock, ~AddBlock, ~BeginRemove, ~CommitRemove, ~Syncer, ~Reboot, ~Exit
        PROVE  OrderInv'
    <2>1. Known' = Known /\ lastBlockSymbol' = lastBlockSymbol
      BY <1>3, ViewsKept DEF Known
    <2>2. CASE UNCHANGED vars \/ Requests \/ \E a \in flush.todo : FlushList(a)
      <3>1. UNCHANGED <<workQueue, synced, remove, pc, job>>
        BY <2>2 DEF vars, worker, outside, events, syncer, Requests, LookupMiss, LookupName,
                    AllocateAddress, FlushList
      <3>2. Base' = Base /\ Announced' = Announced /\ Pending' = Pending
        BY <2>1, <3>1 DEF Base, Announced, Pending
      <3> QED
        BY <2>1, <3>1, <3>2 DEF OrderInv
    <2>3. CASE SkipTx \/ AddTx \/ SpendInput \/ ResolveAddress \/ MissAddress \/ NameAddress
      <3>1. /\ UNCHANGED <<workQueue, remove, synced>>
            /\ pc \notin {"taken", "exited"} \cup Undoing /\ pc' \notin {"taken"} \cup Undoing
        BY <2>3 DEF SkipTx, AddTx, SpendInput, ResolveAddress, MissAddress, NameAddress,
                    Resolving, AllocateAddress, outside, events, syncer, Undoing
      <3> QED
        BY <2>1, <3>1, OrderFrame
    <2>4. CASE \/ BeginOutputs \/ CreateOutput \/ FinishTx \/ FinishBlock \/ FinishBlockAndFlush
               \/ SaveState
      <3>1. /\ UNCHANGED <<workQueue, remove, synced>>
            /\ pc \notin {"taken", "exited"} \cup Undoing /\ pc' \notin {"taken"} \cup Undoing
        BY <2>4 DEF BeginOutputs, CreateOutput, FinishTx, FinishBlock, FinishBlockAndFlush,
                    SaveState, outside, events, syncer, Undoing
      <3> QED
        BY <2>1, <3>1, OrderFrame
    <2>5. CASE \/ RemoveTx \/ RevalidateInput \/ EndRevalidation \/ RemoveOutput
               \/ RemoveTxSymbol
      <3>1. /\ UNCHANGED <<workQueue, remove, synced>> /\ pc \in Undoing /\ pc' \in Undoing
            /\ pc \notin {"taken", "exited"} /\ pc' # "taken"
        BY <2>5 DEF RemoveTx, RevalidateInput, EndRevalidation, RemoveOutput, RemoveTxSymbol,
                    outside, events, syncer, Undoing
      <3>2. job'.block = job.block
        <4>1. job \in JobType /\ NextTx.block = job.block
          BY JobUpdates, NextTxFields
        <4>2. \A n : /\ [job EXCEPT !.pos = n].block = job.block
                     /\ [job EXCEPT !.minTxSymbol = n].block = job.block
          BY <4>1 DEF JobType
        <4>3. \/ job' = NextTx \/ \E n : job' = [job EXCEPT !.pos = n]
              \/ \E n : job' = [job EXCEPT !.minTxSymbol = n]
          <5>1. CASE RemoveTx
            BY <5>1 DEF RemoveTx
          <5>2. CASE RevalidateInput \/ EndRevalidation \/ RemoveOutput
            BY <5>2 DEF RevalidateInput, EndRevalidation, RemoveOutput
          <5>3. CASE RemoveTxSymbol
            BY <5>3 DEF RemoveTxSymbol
          <5> QED
            BY <2>5, <5>1, <5>2, <5>3
        <4> QED
          BY <4>1, <4>2, <4>3
      <3> QED
        BY <2>1, <3>1, <3>2, OrderFrame
    <2>6. CASE WriteBatches
      <3>1. /\ UNCHANGED <<workQueue, remove, synced, job>> /\ pc \in FlushPc
            /\ pc' = IF pc = "firstFlush" THEN "untx" ELSE "idle"
        BY <2>6 DEF WriteBatches, outside, events, syncer
      <3>2. /\ pc \in Undoing <=> pc' \in Undoing
            /\ pc \notin {"taken", "exited"} /\ pc' # "taken"
        BY <3>1 DEF FlushPc, Undoing
      <3> QED
        BY <2>1, <3>1, <3>2, OrderFrame
    <2> QED
      BY <1>3, <2>2, <2>3, <2>4, <2>5, <2>6
         DEF Next, Worker, Adding, Removing, Flushing, Crash, Restart
  <1> QED
    BY <1>1, <1>2, <1>3

-----------------------------------------------------------------------------
(* One linked chain, provided the node switches no branch unnoticed.        *)

Rooted(blocks) == \A b \in blocks : b = Genesis \/ Parent[b] \in blocks

RootedInv ==
  /\ Rooted(DOMAIN db["block-sym"]) /\ Rooted(Known)
  /\ pc # "exited" => Rooted(Announced.blocks)

(* Nothing that waits takes back a block the worker is about to add, or one *)
(* below it: an event that did would not be about the last block.  On a     *)
(* chain whose top is still to be added, events only add.                   *)
Growing(flags, c) ==
  /\ \A b \in c.blocks : Height[b] \in Nat /\ Height[b] <= c.top
  /\ \A b \in c.blocks : Height[b] = c.top => ~flags[b]

LEMMA StillGrowing ==
  ASSUME NEW flags \in [Block -> BOOLEAN], NEW c \in Chain, NEW x \in Block,
         Height[x] \in Nat, Growing(flags, c), Fits(c, x)
  PROVE  /\ c.blocks \subseteq After(flags, c, x).blocks
         /\ Growing(flags, After(flags, c, x))
  <1> DEFINE d == After(flags, c, x)
  <1>1. d \in Chain /\ c.top \in Int /\ flags[x] \in BOOLEAN
    BY AfterChain DEF Chain
  <1>2. CASE x \in c.blocks
    <2>1. Height[x] = c.top
      BY <1>2 DEF Fits
    <2>2. ~flags[x]
      BY <1>2, <2>1 DEF Growing
    <2>3. d = c
      BY <1>2, <2>2 DEF After
    <2> QED
      BY <2>3
  <1>3. CASE x \notin c.blocks /\ flags[x]
    <2>1. d = c
      BY <1>3 DEF After
    <2> QED
      BY <2>1
  <1>4. CASE x \notin c.blocks /\ ~flags[x]
    <2>1. d = [blocks |-> c.blocks \cup {x}, top |-> c.top + 1] /\ Height[x] = c.top + 1
      BY <1>4 DEF After, Fits
    <2> HIDE DEF d
    <2>2. d.blocks = c.blocks \cup {x} /\ d.top = c.top + 1
      BY <2>1
    <2>3. \A b \in c.blocks : Height[b] \in Nat /\ Height[b] <= d.top /\ Height[b] # d.top
      BY <1>1, <2>2 DEF Growing
    <2>4. Growing(flags, d)
      BY <1>1, <1>4, <2>1, <2>2, <2>3 DEF Growing
    <2> QED
      BY <2>2, <2>4 DEF d
  <1> QED
    BY <1>2, <1>3, <1>4

LEMMA WaitingKeeps ==
  ASSUME NEW flags \in [Block -> BOOLEAN], NEW c \in Chain, NEW s \in Chain,
         NEW q \in Seq(Block), Leads(flags, c, q, s), Growing(flags, c)
  PROVE  c.blocks \subseteq s.blocks
  <1> PICK n \in Nat : n = Len(q)
    OBVIOUS
  <1>1. PICK path \in [1 .. n + 1 -> Chain] :
               /\ path[1] = c /\ path[n + 1] = s
               /\ \A i \in 1 .. n : Fits(path[i], q[i]) /\ path[i + 1] = After(flags, path[i], q[i])
    BY DEF Leads
  <1> DEFINE Kept(d) == c.blocks \subseteq d.blocks /\ Growing(flags, d)
             T == {i \in 1 .. n + 1 : ~Kept(path[i])}
  <1> SUFFICES ASSUME n + 1 \in T
               PROVE  FALSE
    BY <1>1
  <1>2. T \in SUBSET Nat /\ T # {}
    OBVIOUS
  <1>3. PICK m \in T : \A k \in T : m <= k
    BY <1>2, LeastNatural
  <1>4. m \in 1 .. n + 1 /\ m # 1
    BY <1>1, <1>3
  <1>5. m - 1 \in 1 .. n /\ m - 1 \in 1 .. n + 1 /\ (m - 1) + 1 = m /\ ~ (m <= m - 1)
    BY <1>4
  <1>6. Kept(path[m - 1])
    BY <1>3, <1>5
  <1>7. /\ path[m - 1] \in Chain /\ q[m - 1] \in Block /\ Height[q[m - 1]] \in Nat
        /\ Fits(path[m - 1], q[m - 1]) /\ path[m] = After(flags, path[m - 1], q[m - 1])
    BY <1>1, <1>5, LedgerFacts
  <1>8. Kept(path[m])
    BY <1>6, <1>7, StillGrowing
  <1> QED
    BY <1>3, <1>8

(* So a block is added onto the last one of the index.                      *)
LEMMA AddedIsRooted ==
  ASSUME IInv, OrderInv, ChainedInv, RootedInv, AddBlock
  PROVE  Rooted(Known \cup {job.block})
  <1> DEFINE b == job.block
             d == After(remove, Base, job.block)
  <1> USE DEF IInv
  <1>1. /\ pc = "taken" /\ ~remove[b] /\ b \notin Known
        /\ workQueue \in Seq(Block) /\ b \in Block /\ remove \in [Block -> BOOLEAN]
        /\ Base \in Chain /\ Announced \in Chain /\ Height[b] \in Nat
        /\ lastBlockSymbol \in Nat \cup {-1} /\ Known \subseteq Block
    BY UnknownBlock, ChainTypes, JobTypes DEF AddBlock, TypeOK, FieldTypeOK
  <1>2. Base = [blocks |-> Known, top |-> lastBlockSymbol]
    BY <1>1 DEF Base, Undoing
  <1>3. Leads(remove, Base, <<b>> \o workQueue, Announced)
    BY <1>1 DEF OrderInv, Pending
  <1>4. Fits(Base, b) /\ Leads(remove, d, workQueue, Announced)
    BY <1>1, <1>3, Pop
  <1>5. Height[b] = lastBlockSymbol + 1
    <2>1. Fits([blocks |-> Known, top |-> lastBlockSymbol], b) /\ b \notin Known
      BY <1>1, <1>2, <1>4
    <2> HIDE DEF b
    <2> QED
      BY <2>1 DEF Fits
  <1>6. d = [blocks |-> Known \cup {b}, top |-> lastBlockSymbol + 1] /\ d \in Chain
    <2> DEFINE c == [blocks |-> Known, top |-> lastBlockSymbol]
    <2>1. d = After(remove, c, b) /\ c.blocks = Known /\ c.top = lastBlockSymbol
      BY <1>2
    <2>2. ~remove[b] /\ b \notin c.blocks
      BY <1>1
    <2> HIDE DEF b, c, d
    <2>3. d = [blocks |-> c.blocks \cup {b}, top |-> c.top + 1]
      BY <2>1, <2>2 DEF After
    <2>4. After(remove, Base, b) \in Chain
      BY <1>1, AfterChain
    <2> QED
      BY <2>1, <2>3, <2>4 DEF b, d
  <1>7. \A x \in Known : Height[x] \in 0 .. lastBlockSymbol /\ View("sym-block")[Height[x]] = x
    BY DEF ChainedInv, Chained, Known
  <1> HIDE DEF b, d
  <1>8. Growing(remove, d)
    <2>1. \A x \in Known : Height[x] \in Nat /\ Height[x] <= lastBlockSymbol + 1
                           /\ Height[x] # lastBlockSymbol + 1
      BY <1>1, <1>7
    <2> QED
      BY <1>1, <1>5, <1>6, <2>1 DEF Growing
  <1>9. Known \cup {b} \subseteq Announced.blocks
    BY <1>1, <1>4, <1>6, <1>8, WaitingKeeps
  <1>10. ASSUME b # Genesis
         PROVE  Parent[b] \in Known
    <2>1. Parent[b] \in Announced.blocks
      BY <1>1, <1>9, <1>10 DEF RootedInv, Rooted
    <2>2. /\ Height[b] = Height[Parent[b]] + 1 /\ Parent[b] \in Block
          /\ Height[Parent[b]] \in Nat
      BY <1>1, <1>10, LedgerTree, LedgerFacts
    <2>3. Height[Parent[b]] = lastBlockSymbol /\ lastBlockSymbol \in 0 .. lastBlockSymbol
      BY <1>1, <1>5, <2>2
    <2>4. PICK y \in Known : Height[y] = lastBlockSymbol
      <3>1. View("sym-block")[lastBlockSymbol] \in Known /\ lastBlockSymbol \in Heights
        BY <2>3 DEF ChainedInv, Chained, Known, Heights
      <3>2. Height[View("sym-block")[lastBlockSymbol]] = lastBlockSymbol
        BY <3>1 DEF HeightInv, Gapless, Heights
      <3> QED
        BY <3>1, <3>2
    <2>5. y \in Announced.blocks
      BY <1>9
    <2>6. \A x, z \in Announced.blocks : Height[x] = Height[z] => x = z
      <3>1. \A i \in DOMAIN synced : Height[synced[i]] = i - 1
        BY <1>1 DEF QueueInv
      <3>2. DOMAIN synced \subseteq Nat
        BY DEF TypeOK, WorkerTypeOK
      <3>3. \A i, j \in DOMAIN synced : Height[synced[i]] = Height[synced[j]] => i = j
        BY <3>1, <3>2
      <3> QED
        BY <3>3 DEF Announced
    <2>7. y = Parent[b]
      BY <2>1, <2>3, <2>4, <2>5, <2>6
    <2> QED
      BY <2>7
  <1>11. Rooted(Known \cup {b})
    BY <1>10 DEF RootedInv, Rooted
  <1> QED
    BY <1>11 DEF b

(* Without its last block a chain is still one.                             *)
LEMMA WithoutLast ==
  ASSUME NEW blocks \in SUBSET Block, Rooted(blocks), NEW b \in blocks,
         \A x \in blocks : Height[x] <= Height[b]
  PROVE  Rooted(blocks \ {b})
  <1> SUFFICES ASSUME NEW x \in blocks \ {b}, x # Genesis
               PROVE  Parent[x] \in blocks \ {b}
    BY DEF Rooted
  <1>1. Parent[x] \in blocks
    BY DEF Rooted
  <1>2. Height[x] = Height[Parent[x]] + 1 /\ Height[Parent[x]] \in Nat /\ Height[b] \in Nat
    BY LedgerTree, LedgerFacts
  <1>3. Parent[x] # b
    BY <1>2
  <1> QED
    BY <1>1, <1>3

LEMMA SyncerRooted ==
  ASSUME OnItsParent, IInv, RootedInv, Syncer
  PROVE  Rooted(Announced.blocks)'
  <1> USE DEF IInv
  <1>1. PICK b \in Block : BlockAdded(b) \/ BlockRemoved(b)
    BY DEF Syncer
  <1>2. pc # "exited"
    BY <1>1 DEF BlockAdded, BlockRemoved, HandleBlock
  <1>3. synced \in Seq(Block) /\ Len(synced) \in Nat /\ DOMAIN synced = 1 .. Len(synced)
    BY DEF TypeOK, WorkerTypeOK
  <1>4. \A i \in 1 .. Len(synced) : Height[synced[i]] = i - 1 /\ synced[i] \in Block
    BY <1>2, <1>3 DEF QueueInv
  <1> PICK n \in Nat : n = Len(synced)
    BY <1>3
  <1>5. Announced.blocks = {synced[i] : i \in 1 .. n}
    BY <1>3 DEF Announced
  <1>6. Rooted({synced[i] : i \in 1 .. n})
    BY <1>2, <1>5 DEF RootedInv
  <1>7. CASE BlockAdded(b)
    <2>1. Continues(b) /\ synced' = Append(synced, b)
      BY <1>7 DEF BlockAdded, OnItsParent
    <2>2. /\ DOMAIN synced' = 1 .. n + 1 /\ synced'[n + 1] = b
          /\ \A i \in 1 .. n : synced'[i] = synced[i]
      BY <1>3, <2>1, AppendProperties
    <2>3. Announced.blocks' = {synced'[i] : i \in 1 .. n + 1}
      BY <2>2 DEF Announced
    <2>4. {synced'[i] : i \in 1 .. n + 1} = {synced[i] : i \in 1 .. n} \cup {b}
      <3>1. \A i : i \in 1 .. n + 1 <=> i \in 1 .. n \/ i = n + 1
        OBVIOUS
      <3> QED
        BY <2>2, <3>1
    <2>5. b = Genesis \/ Parent[b] \in {synced[i] : i \in 1 .. n}
      <3>1. CASE synced = <<>>
        BY <2>1, <3>1 DEF Continues
      <3>2. CASE synced # <<>>
        <4>1. n \in 1 .. n
          BY <1>3, <3>2
        <4> QED
          BY <2>1, <3>2, <4>1 DEF Continues
      <3> QED
        BY <3>1, <3>2
    <2> QED
      BY <1>6, <2>3, <2>4, <2>5 DEF Rooted
  <1>8. CASE BlockRemoved(b)
    <2>1. b = synced[n] /\ n > 1 /\ synced' = SubSeq(synced, 1, n - 1)
      BY <1>8 DEF BlockRemoved
    <2>2. /\ DOMAIN synced' = 1 .. n - 1
          /\ \A i \in 1 .. n - 1 : synced'[i] = synced[i]
      BY <1>4, <2>1, SubSeqProperties
    <2>3. Announced.blocks' = {synced[i] : i \in 1 .. n - 1}
      BY <2>2 DEF Announced
    <2>4. {synced[i] : i \in 1 .. n - 1} = {synced[i] : i \in 1 .. n} \ {b}
      <3>1. \A i \in 1 .. n : synced[i] = b <=> i = n
        BY <1>4, <2>1
      <3>2. \A i : i \in 1 .. n - 1 <=> i \in 1 .. n /\ i # n
        BY <2>1
      <3> QED
        BY <3>1, <3>2
    <2>5. /\ b \in {synced[i] : i \in 1 .. n} /\ {synced[i] : i \in 1 .. n} \in SUBSET Block
          /\ \A x \in {synced[i] : i \in 1 .. n} : Height[x] <= Height[b]
      BY <1>4, <2>1
    <2>6. Rooted({synced[i] : i \in 1 .. n} \ {b})
      BY <1>6, <2>5, WithoutLast
    <2> QED
      BY <2>3, <2>4, <2>6
  <1> QED
    BY <1>1, <1>7, <1>8

LEMMA SyncedKept ==
  ASSUME IInv, [Next]_vars, ~Syncer, ~Reboot
  PROVE  synced' = synced /\ (pc = "exited" => pc' = "exited")
  <1>1. pc = "exited" => pc' = "exited"
    <2>1. CASE Still
      BY <2>1 DEF Still
    <2>2. CASE AddBlock \/ AddTx \/ RemoveTxSymbol \/ WriteBatches
      BY <2>2 DEF AddBlock, AddTx, RemoveTxSymbol, WriteBatches, FlushPc
    <2>3. CASE FlushBegins
      BY <2>3, Taken DEF IInv
    <2> QED
      BY <2>1, <2>2, <2>3, StillSteps DEF IInv
  <1> SUFFICES synced' = synced
    BY <1>1
  <1> USE DEF outside, syncer
  <1>2. CASE UNCHANGED vars \/ Exit \/ SaveState \/ Requests \/ Flushing
    BY <1>2 DEF vars, Exit, SaveState, Requests, LookupMiss, LookupName, AllocateAddress,
                Flushing, WriteBatches, FlushList
  <1>3. CASE Take \/ SkipBlock \/ AddBlock \/ SkipTx \/ AddTx \/ SpendInput
    BY <1>3 DEF Take, SkipBlock, AddBlock, SkipTx, AddTx, SpendInput
  <1>4. CASE ResolveAddress \/ MissAddress \/ NameAddress \/ BeginOutputs \/ CreateOutput
    BY <1>4 DEF ResolveAddress, MissAddress, NameAddress, AllocateAddress, BeginOutputs,
                CreateOutput
  <1>5. CASE FinishTx \/ FinishBlock \/ FinishBlockAndFlush
    BY <1>5 DEF FinishTx, FinishBlock, FinishBlockAndFlush
  <1>6. CASE Removing
    BY <1>6 DEF Removing, BeginRemove, RemoveTx, RevalidateInput, EndRevalidation, RemoveOutput,
                RemoveTxSymbol, CommitRemove
  <1> QED
    BY <1>1, <1>2, <1>3, <1>4, <1>5, <1>6 DEF Next, Worker, Adding, Crash, Restart

LEMMA RootedStep ==
  ASSUME [OnItsParent]_vars, IInv, OrderInv, ChainedInv, RootedInv, [Next]_vars
  PROVE  RootedInv'
  <1> USE DEF IInv
  <1>1. CASE Reboot
    <2>1. db' = db /\ pc' = "idle"
      BY <1>1 DEF Reboot
    <2>2. Known' = DOMAIN db["block-sym"]
      BY <1>1, RebootedLayers DEF Tables, Known
    <2>3. Announced.blocks' = DOMAIN db["block-sym"]
      <3>1. Leads(remove', Base', <<>>, Announced')
        BY <1>1, <2>1, RebootOrder DEF OrderInv, Pending, Reboot
      <3>2. Base' = Announced'
        BY <3>1, NoEvents
      <3>3. Base'.blocks = Known'
        BY <2>1 DEF Base, Undoing
      <3> QED
        BY <2>2, <3>2, <3>3
    <2> QED
      BY <2>1, <2>2, <2>3 DEF RootedInv
  <1>2. ASSUME ~Reboot
        PROVE  pc' # "exited" => pc # "exited" /\ Rooted(Announced.blocks)'
    <2>1. CASE Syncer
      <3>1. OnItsParent
        BY <2>1, SyncerMoves
      <3> QED
        BY <2>1, <3>1, SyncerRooted DEF Syncer, BlockAdded, BlockRemoved, HandleBlock
    <2>2. CASE ~Syncer
      <3>1. synced' = synced /\ (pc = "exited" => pc' = "exited")
        BY <1>2, <2>2, SyncedKept
      <3> QED
        BY <3>1 DEF RootedInv, Announced
    <2> QED
      BY <2>1, <2>2
  <1>3. CASE AddBlock
    <2>1. db' = db /\ Known' = Known \cup {job.block} /\ ~Reboot
      BY <1>3, AddedBlock DEF AddBlock, Reboot
    <2>2. Rooted(Known \cup {job.block})
      BY <1>3, AddedIsRooted
    <2> QED
      BY <1>2, <2>1, <2>2 DEF RootedInv
  <1>4. CASE CommitRemove
    <2>1. /\ db' = db /\ Known' = Known \ {job.block} /\ job.block \in Known
          /\ Height[job.block] = lastBlockSymbol /\ lastBlockSymbol \in Nat
          /\ ~Reboot
      BY <1>4, RemovedBlock DEF CommitRemove, Reboot
    <2>2. \A x \in Known : Height[x] <= lastBlockSymbol
      BY <2>1 DEF ChainedInv, Chained, Known
    <2>3. Known \subseteq Block
      BY ChainTypes
    <2>4. Rooted(Known \ {job.block})
      BY <2>1, <2>2, <2>3, WithoutLast DEF RootedInv
    <2> QED
      BY <1>2, <2>1, <2>4 DEF RootedInv
  <1>5. CASE WriteBatches /\ ~Reboot
    <2>1. /\ View("block-sym")' = View("block-sym")
          /\ DOMAIN View("block-sym") = DOMAIN db'["block-sym"]
      BY <1>5, WrittenLayers DEF BlockTables, Tables
    <2>2. Known' = Known /\ DOMAIN db'["block-sym"] = Known
      BY <2>1 DEF Known
    <2> QED
      BY <1>2, <1>5, <2>2 DEF RootedInv
  <1>6. CASE ~AddBlock /\ ~CommitRemove /\ ~WriteBatches /\ ~Reboot
    <2>1. Known' = Known /\ db' = db
      BY <1>6, ViewsKept DEF Known
    <2> QED
      BY <1>2, <1>6, <2>1 DEF RootedInv
  <1> QED
    BY <1>1, <1>3, <1>4, <1>5, <1>6

-----------------------------------------------------------------------------
(* The theorems.                                                           *)

LEMMA InitChain == Init => OrderInv /\ ChainedInv
  <1> SUFFICES ASSUME Init
               PROVE  OrderInv /\ ChainedInv
    OBVIOUS
  <1>1. DOMAIN EmptyMap = {}
    BY DEF EmptyMap
  <1>2. /\ DOMAIN View("block-sym") = {} /\ DOMAIN View("sym-block") = {}
        /\ DOMAIN db["block-sym"] = {} /\ DOMAIN db["sym-block"] = {}
    BY <1>1, OverlayEmpty DEF Init, NoFlush, NoBatches, Tables, View, Written
  <1>3. DbHeight = -1 /\ lastBlockSymbol = -1
    BY DEF Init, NoMetadata, DbHeight, OrElse
  <1>4. ChainedInv
    BY <1>2, <1>3 DEF ChainedInv, Chained
  <1>5. Base = Announced /\ Pending = <<>> /\ pc = "idle" /\ workQueue = <<>>
    <2>1. pc = "idle" /\ workQueue = <<>> /\ synced = <<>>
      BY DEF Init
    <2>2. Base = [blocks |-> {}, top |-> -1]
      BY <1>2, <1>3, <2>1 DEF Base, Undoing, Known
    <2>3. DOMAIN synced = {} /\ Len(synced) - 1 = -1
      BY <2>1
    <2>4. Announced = [blocks |-> {}, top |-> -1]
      BY <2>3 DEF Announced
    <2> QED
      BY <2>1, <2>2, <2>4 DEF Pending
  <1>6. Leads(remove, Base, <<>>, Announced)
    <2>1. Announced \in Chain
      BY InitIInv, ChainTypes DEF IInv
    <2> QED
      BY <1>5, <2>1, NoEvents
  <1>7. OrderInv
    BY <1>5, <1>6 DEF OrderInv, Undoing
  <1> QED
    BY <1>4, <1>7

LEMMA InitRooted == Init => RootedInv
  <1> SUFFICES ASSUME Init
               PROVE  RootedInv
    OBVIOUS
  <1>1. DOMAIN EmptyMap = {}
    BY DEF EmptyMap
  <1>2. Known = {} /\ DOMAIN db["block-sym"] = {}
    BY <1>1, OverlayEmpty DEF Init, NoFlush, NoBatches, Tables, View, Written, Known
  <1>3. Announced.blocks = {}
    BY DEF Init, Announced
  <1> QED
    BY <1>2, <1>3 DEF RootedInv, Rooted

(* However many events wait, what the worker makes of them is the chain the *)
(* syncer announced, though a block's later event stands in for its earlier *)
(* one (the `remove' field of the cached block): as long as no event is     *)
(* overtaken while another block's waits behind it.                        *)
THEOREM EventsLeadToTheAnnouncedChain ==
  Spec /\ [][InTurn]_vars => [](IInv /\ OrderInv /\ ChainedInv)
  <1>1. IInv /\ OrderInv /\ ChainedInv /\ [Next]_vars /\ [InTurn]_vars
          => (IInv /\ OrderInv /\ ChainedInv)'
    BY NextIInv, OrderStep, ChainedStep
  <1> QED
    BY <1>1, InitIInv, InitChain, PTL DEF Spec

(* blockHashSymbol and symbolBlockHash are inverse up to the stored height  *)
(* whatever was added, removed, flushed or lost in a crash.                *)
THEOREM TablesOfBlocksAgree == Spec /\ [][InTurn]_vars => []BlockTablesAgree
  <1>1. ASSUME IInv, ChainedInv
        PROVE  BlockTablesAgree
    <2>1. /\ \A b \in DOMAIN db["block-sym"] :
               Height[b] \in 0 .. DbHeight /\ db["sym-block"][Height[b]] = b
          /\ \A h \in 0 .. DbHeight :
               h \in DOMAIN db["sym-block"] /\ db["sym-block"][h] \in DOMAIN db["block-sym"]
      BY <1>1 DEF ChainedInv, Chained
    <2>2. /\ \A h \in DOMAIN db["sym-block"] : Height[db["sym-block"][h]] = h
          /\ \A b \in DOMAIN db["block-sym"] : db["block-sym"][b] = Height[b]
      BY <1>1 DEF IInv, HeightInv, Gapless
    <2>3. \A h \in 0 .. DbHeight : Get(db["block-sym"], db["sym-block"][h]) = h
      BY <2>1, <2>2 DEF Get
    <2> QED
      BY <2>1, <2>3 DEF BlockTablesAgree
  <1> QED
    BY <1>1, EventsLeadToTheAnnouncedChain, PTL

(* When the worker has worked off the queue, the index stands for the chain *)
(* the syncer announced, so the sync loop goes on with the block after it. *)
THEOREM IdleIndexFollowsSyncer == Spec /\ [][InTurn]_vars => []IdleIndexIsSynced
  <1>1. ASSUME IInv, OrderInv, ChainedInv
        PROVE  IdleIndexIsSynced
    <2> USE <1>1 DEF IInv
    <2> SUFFICES ASSUME pc = "idle", workQueue = <<>>
                 PROVE  lastBlockSymbol = Len(synced) - 1 /\ IndexedChain = synced
      BY DEF IdleIndexIsSynced
    <2>1. Base = Announced
      BY NoEvents DEF OrderInv, Pending
    <2>2. /\ Known = {synced[i] : i \in DOMAIN synced} /\ lastBlockSymbol = Len(synced) - 1
      BY <2>1 DEF Base, Announced, Undoing
    <2>3. synced \in Seq(Block) /\ DOMAIN synced = 1 .. Len(synced) /\ Len(synced) \in Nat
      BY DEF TypeOK, WorkerTypeOK
    <2>4. \A i \in DOMAIN synced : View("sym-block")[i - 1] = synced[i]
      BY <2>2 DEF ChainedInv, Chained, QueueInv, Known
    <2>5. IndexedChain = [i \in 1 .. lastBlockSymbol + 1 |-> View("sym-block")[i - 1]]
      BY DEF IndexedChain, IndexedHeight, AddingBlock
    <2>6. lastBlockSymbol + 1 = Len(synced)
      BY <2>2, <2>3
    <2>7. synced = [i \in 1 .. Len(synced) |-> synced[i]]
      BY <2>3
    <2> QED
      BY <2>2, <2>3, <2>4, <2>5, <2>6, <2>7
  <1> QED
    BY <1>1, EventsLeadToTheAnnouncedChain, PTL

(* The indexed blocks form one chain, each on top of its parent, though      *)
(* addBlock only logs a missing parent: as long as the node switches no     *)
(* branch while the syncer remembers nothing.                              *)
THEOREM IndexedBlocksAreLinked ==
  Spec /\ [][EventsInOrder]_vars => []IndexedChainIsLinked
  <1> DEFINE Inv == IInv /\ OrderInv /\ ChainedInv /\ RootedInv
  <1>1. Init => Inv
    BY InitIInv, InitChain, InitRooted
  <1>2. Inv /\ [Next]_vars /\ [EventsInOrder]_vars => Inv'
    BY NextIInv, OrderStep, ChainedStep, RootedStep DEF EventsInOrder
  <1>3. ASSUME IInv, ChainedInv, RootedInv
        PROVE  IndexedChainIsLinked
    <2> USE <1>3 DEF IInv
    <2>1. ASSUME NEW blocks, NEW known, NEW top \in Nat \cup {-1}, NEW n \in Nat, n <= top + 1,
                 known \in SUBSET Block, Rooted(known),
                 \A b \in known : Height[b] \in 0 .. top /\ blocks[Height[b]] = b,
                 \A h \in 0 .. top : blocks[h] \in known /\ Height[blocks[h]] = h
          PROVE  Linked([i \in 1 .. n |-> blocks[i - 1]])
      <3> DEFINE chain == [i \in 1 .. n |-> blocks[i - 1]]
      <3>1. Len(chain) = n /\ \A i \in 1 .. n : chain[i] = blocks[i - 1]
        BY <2>1
      <3>2. \A i \in 1 .. n : i - 1 \in 0 .. top
        BY <2>1
      <3>3. chain # <<>> => chain[1] = Genesis
        <4> SUFFICES ASSUME n # 0
                     PROVE  blocks[0] = Genesis
          BY <3>1, <2>1
        <4>1. 0 \in 0 .. top
          BY <2>1
        <4>2. blocks[0] \in known /\ Height[blocks[0]] = 0
          BY <2>1, <4>1
        <4>3. blocks[0] # Genesis => Height[blocks[0]] = Height[Parent[blocks[0]]] + 1
          BY <2>1, <4>2, LedgerTree
        <4>4. Height[Parent[blocks[0]]] \in Nat
          BY <2>1, <4>2, LedgerFacts
        <4> QED
          BY <4>2, <4>3, <4>4
      <3>4. ASSUME NEW i \in 2 .. n
            PROVE  Parent[blocks[i - 1]] = blocks[(i - 1) - 1]
        <4> DEFINE b == blocks[i - 1]
        <4>1. i - 1 \in 0 .. top /\ i - 1 # 0
          BY <3>2
        <4>2. b \in known /\ Height[b] = i - 1 /\ b \in Block
          BY <2>1, <4>1
        <4> HIDE DEF b
        <4>3. b # Genesis
          BY <4>1, <4>2, LedgerTree
        <4>4. Parent[b] \in known /\ Height[b] = Height[Parent[b]] + 1
          BY <2>1, <4>2, <4>3, LedgerTree DEF Rooted
        <4>5. Height[Parent[b]] = (i - 1) - 1 /\ Height[Parent[b]] \in Nat
          BY <4>2, <4>4, LedgerFacts
        <4>6. blocks[Height[Parent[b]]] = Parent[b]
          BY <2>1, <4>4
        <4> QED
          BY <4>5, <4>6 DEF b
      <3> HIDE DEF chain
      <3>5. \A i \in 2 .. Len(chain) : Parent[chain[i]] = chain[i - 1]
        <4>1. \A i \in 2 .. n : i \in 1 .. n /\ i - 1 \in 1 .. n
          OBVIOUS
        <4> QED
          BY <3>1, <3>4, <4>1
      <3> QED
        BY <3>3, <3>5 DEF Linked, chain
    <2>2. CASE pc = "exited"
      <3>1. DbHeight \in Nat \cup {-1} /\ DbHeight + 1 \in Nat /\ DbHeight + 1 <= DbHeight + 1
        BY DbChainType
      <3>2. DOMAIN db["block-sym"] \in SUBSET Block /\ Rooted(DOMAIN db["block-sym"])
        BY DEF TypeOK, DbTypeOK, IsMap, RootedInv
      <3>3. /\ \A b \in DOMAIN db["block-sym"] :
                 Height[b] \in 0 .. DbHeight /\ db["sym-block"][Height[b]] = b
            /\ \A h \in 0 .. DbHeight :
                 db["sym-block"][h] \in DOMAIN db["block-sym"] /\ Height[db["sym-block"][h]] = h
        BY DEF ChainedInv, Chained, HeightInv, Gapless
      <3>4. Linked(DbChain)
        BY <2>1, <3>1, <3>2, <3>3 DEF DbChain
      <3> QED
        BY <2>2, <3>4 DEF IndexedChainIsLinked, IndexedChain
    <2>3. CASE pc # "exited"
      <3>1. /\ lastBlockSymbol \in Nat \cup {-1} /\ IndexedHeight + 1 \in Nat
            /\ IndexedHeight + 1 <= lastBlockSymbol + 1
        BY DEF TypeOK, FieldTypeOK, WorkerInv, IndexedHeight, AddingBlock, AddTxPc
      <3>2. Known \in SUBSET Block /\ Rooted(Known)
        BY ChainTypes DEF RootedInv
      <3>3. /\ \A b \in Known :
                 Height[b] \in 0 .. lastBlockSymbol /\ View("sym-block")[Height[b]] = b
            /\ \A h \in 0 .. lastBlockSymbol :
                 View("sym-block")[h] \in Known /\ Height[View("sym-block")[h]] = h
        BY DEF ChainedInv, Chained, HeightInv, Gapless, Known
      <3> DEFINE blocks == View("sym-block")
      <3> HIDE DEF blocks
      <3>4. Linked([i \in 1 .. IndexedHeight + 1 |-> blocks[i - 1]])
        BY <2>1, <3>1, <3>2, <3>3 DEF blocks
      <3> QED
        BY <2>3, <3>4 DEF IndexedChainIsLinked, IndexedChain, blocks
    <2> QED
      BY <2>2, <2>3
  <1>4. Inv => IndexedChainIsLinked
    BY <1>3
  <1> HIDE DEF Inv
  <1> QED
    BY <1>1, <1>2, <1>4, PTL DEF Spec

-----------------------------------------------------------------------------
(***************************************************************************)
(* The transactions of the indexed chain: which have a symbol, and which.  *)
(* A block of the chain below another one is on the other one's branch, so *)
(* a valid ledger (LedgerIsValid) has each transaction on the chain once,  *)
(* and the symbols count the chain's transactions in their order: a         *)
(* removal, which frees every symbol from the lowest one of its block on,  *)
(* frees none that is still in use.                                        *)
(***************************************************************************)

(* The ledger: a block's branch is the chain of its ancestors.              *)

(* Of the blocks that are not as they should be, one is lowest.             *)
LEMMA LowestBlock ==
  ASSUME NEW S \in SUBSET Block, S # {}
  PROVE  \E b \in S : \A x \in Block : Height[x] < Height[b] => x \notin S
  <1> DEFINE T == {Height[b] : b \in S}
  <1>1. T \in SUBSET Nat /\ T # {}
    BY LedgerFacts
  <1>2. PICK m \in T : \A n \in T : m <= n
    BY <1>1, LeastNatural
  <1>3. PICK b \in S : Height[b] = m
    BY <1>2
  <1>4. \A x \in S : Height[b] <= Height[x]
    BY <1>2, <1>3
  <1>5. ASSUME NEW x \in Block, Height[x] < Height[b]
        PROVE  x \notin S
    BY <1>4, <1>5, LedgerFacts
  <1> QED
    BY <1>5

LEMMA ParentBelow ==
  ASSUME NEW b \in Block, b # Genesis
  PROVE  /\ Parent[b] \in Block /\ Height[Parent[b]] \in Nat
         /\ Height[b] = Height[Parent[b]] + 1 /\ Height[b] \in Nat
  BY LedgerTree, LedgerFacts

IsBranch(b, s) ==
  /\ s \in Seq(Block) /\ Len(s) = Height[b] + 1 /\ s[Height[b] + 1] = b
  /\ Linked(s)

LEMMA GenesisBranch ==
  ASSUME NEW s
  PROVE  IsBranch(Genesis, s) <=> s = <<Genesis>>
  <1>1. Height[Genesis] = 0 /\ Genesis \in Block
    BY LedgerTypes, LedgerTree
  <1>2. ASSUME IsBranch(Genesis, s)
        PROVE  s = <<Genesis>>
    <2>1. s \in Seq(Block) /\ Len(s) = 1 /\ s[1] = Genesis
      BY <1>1, <1>2 DEF IsBranch
    <2> QED
      BY <2>1
  <1>3. IsBranch(Genesis, <<Genesis>>)
    BY <1>1 DEF IsBranch, Linked
  <1> QED
    BY <1>2, <1>3

LEMMA LongerBranch ==
  ASSUME NEW b \in Block, b # Genesis, NEW s, IsBranch(Parent[b], s)
  PROVE  IsBranch(b, Append(s, b))
  <1> DEFINE t == Append(s, b)
             h == Height[Parent[b]]
  <1>1. h \in Nat /\ Height[b] = h + 1
    BY ParentBelow
  <1>2. s \in Seq(Block) /\ Len(s) = h + 1 /\ s[h + 1] = Parent[b] /\ Linked(s)
    BY DEF IsBranch
  <1>3. /\ t \in Seq(Block) /\ Len(t) = h + 2 /\ t[h + 2] = b
        /\ \A i \in 1 .. h + 1 : t[i] = s[i]
    BY <1>1, <1>2, AppendProperties
  <1> HIDE DEF t, h
  <1>4. s # <<>> /\ s[1] = Genesis /\ \A i \in 2 .. h + 1 : Parent[s[i]] = s[i - 1]
    BY <1>1, <1>2 DEF Linked
  <1>5. t[1] = Genesis
    BY <1>1, <1>3, <1>4
  <1>6. \A i \in 2 .. h + 2 : Parent[t[i]] = t[i - 1]
    <2> TAKE i \in 2 .. h + 2
    <2>1. CASE i = h + 2
      <3>1. t[i] = b /\ t[i - 1] = s[h + 1]
        BY <1>1, <1>3, <2>1
      <3> QED
        BY <1>2, <3>1
    <2>2. CASE i # h + 2
      <3>1. i \in 2 .. h + 1 /\ i \in 1 .. h + 1 /\ i - 1 \in 1 .. h + 1
        BY <1>1, <2>2
      <3> QED
        BY <1>3, <1>4, <3>1
    <2> QED
      BY <2>1, <2>2
  <1>7. Linked(t)
    BY <1>3, <1>5, <1>6 DEF Linked
  <1>8. IsBranch(b, t)
    BY <1>1, <1>3, <1>7 DEF IsBranch
  <1> QED
    BY <1>8 DEF t

LEMMA ShorterBranch ==
  ASSUME NEW b \in Block, b # Genesis, NEW t, IsBranch(b, t)
  PROVE  \E s : IsBranch(Parent[b], s) /\ t = Append(s, b)
  <1> DEFINE h == Height[Parent[b]]
             s == SubSeq(t, 1, h + 1)
  <1>1. h \in Nat /\ Height[b] = h + 1
    BY ParentBelow
  <1>2. t \in Seq(Block) /\ Len(t) = h + 2 /\ t[h + 2] = b /\ Linked(t)
    BY <1>1 DEF IsBranch
  <1> HIDE DEF h
  <1>3. s \in Seq(Block) /\ Len(s) = h + 1 /\ \A i \in 1 .. h + 1 : s[i] = t[i]
    <2>1. \A i \in 1 .. h + 1 : t[i] \in Block
      BY <1>1, <1>2
    <2> QED
      BY <1>1, <1>2, <2>1, SubSeqProperties
  <1> HIDE DEF s
  <1>4. t # <<>> /\ t[1] = Genesis /\ \A i \in 2 .. h + 2 : Parent[t[i]] = t[i - 1]
    BY <1>1, <1>2 DEF Linked
  <1>5. s[1] = Genesis /\ \A i \in 2 .. h + 1 : Parent[s[i]] = s[i - 1]
    BY <1>1, <1>3, <1>4
  <1>6. s[h + 1] = Parent[b]
    <2>1. h + 2 \in 2 .. h + 2 /\ h + 2 - 1 = h + 1 /\ h + 1 \in 1 .. h + 1
      BY <1>1
    <2>2. Parent[t[h + 2]] = t[h + 1]
      BY <1>1, <1>4
    <2> QED
      BY <1>2, <1>3, <2>1, <2>2
  <1>7. IsBranch(Parent[b], s)
    BY <1>1, <1>3, <1>5, <1>6 DEF IsBranch, Linked, h
  <1>8. t = Append(s, b)
    <2>1. /\ Append(s, b) \in Seq(Block) /\ Len(Append(s, b)) = h + 2
          /\ Append(s, b)[h + 2] = b
          /\ \A i \in 1 .. h + 1 : Append(s, b)[i] = s[i]
      BY <1>1, <1>3, AppendProperties
    <2>2. \A i \in 1 .. h + 2 : Append(s, b)[i] = t[i]
      BY <1>1, <1>2, <1>3, <2>1
    <2> QED
      BY <1>2, <2>1, <2>2, SeqEqual
  <1> QED
    BY <1>7, <1>8

(* Each block has one branch.                                               *)
LEMMA OneBranch ==
  ASSUME NEW b \in Block
  PROVE  \E s : IsBranch(b, s) /\ \A t : IsBranch(b, t) => t = s
  <1> DEFINE One(x) == \E s : IsBranch(x, s) /\ \A t : IsBranch(x, t) => t = s
             S == {x \in Block : ~ One(x)}
  <1> SUFFICES ASSUME S # {}
               PROVE  FALSE
    OBVIOUS
  <1>1. PICK x \in S : \A y \in Block : Height[y] < Height[x] => y \notin S
    BY LowestBlock
  <1>2. x # Genesis
    <2>1. One(Genesis)
      BY GenesisBranch
    <2> HIDE DEF One
    <2> QED
      BY <1>1, <2>1
  <1>3. Parent[x] \in Block /\ One(Parent[x])
    BY <1>1, <1>2, ParentBelow
  <1>4. PICK s : IsBranch(Parent[x], s) /\ \A t : IsBranch(Parent[x], t) => t = s
    BY <1>3
  <1>5. IsBranch(x, Append(s, x))
    BY <1>1, <1>2, <1>4, LongerBranch
  <1>6. ASSUME NEW t, IsBranch(x, t)
        PROVE  t = Append(s, x)
    BY <1>1, <1>2, <1>4, <1>6, ShorterBranch
  <1> QED
    BY <1>1, <1>5, <1>6

(* So the recursive definition of Branch has a solution.                    *)
LEMMA BranchUnfolds ==
  \A b \in Block : Branch[b] = IF b = Genesis THEN <<b>> ELSE Append(Branch[Parent[b]], b)
  <1> DEFINE g == [b \in Block |-> CHOOSE s : IsBranch(b, s)]
  <1>1. \A b \in Block : IsBranch(b, g[b]) /\ \A t : IsBranch(b, t) => t = g[b]
    BY OneBranch
  <1>2. \A b \in Block : g[b] = IF b = Genesis THEN <<b>> ELSE Append(g[Parent[b]], b)
    <2> TAKE b \in Block
    <2> HIDE DEF g
    <2>1. CASE b = Genesis
      BY <1>1, <2>1, GenesisBranch
    <2>2. CASE b # Genesis
      <3>1. Parent[b] \in Block /\ IsBranch(Parent[b], g[Parent[b]])
        BY <1>1, <2>2, ParentBelow
      <3>2. IsBranch(b, Append(g[Parent[b]], b))
        BY <2>2, <3>1, LongerBranch
      <3> QED
        BY <1>1, <2>2, <3>2
    <2> QED
      BY <2>1, <2>2
  <1>3. g = [b \in Block |-> IF b = Genesis THEN <<b>> ELSE Append(g[Parent[b]], b)]
    <2>1. g = [b \in Block |-> g[b]]
      OBVIOUS
    <2> HIDE DEF g
    <2> QED
      BY <1>2, <2>1
  <1> HIDE DEF g
  <1>4. Branch = [b \in Block |-> IF b = Genesis THEN <<b>> ELSE Append(Branch[Parent[b]], b)]
    BY <1>3, Zenon DEF Branch
  <1> QED
    BY <1>4

LEMMA BranchIsBranch == \A b \in Block : IsBranch(b, Branch[b])
  <1> DEFINE S == {b \in Block : ~ IsBranch(b, Branch[b])}
  <1> SUFFICES ASSUME S # {}
               PROVE  FALSE
    OBVIOUS
  <1>1. PICK b \in S : \A y \in Block : Height[y] < Height[b] => y \notin S
    BY LowestBlock
  <1>2. b # Genesis
    BY <1>1, GenesisBranch, BranchUnfolds
  <1>3. Parent[b] \in Block /\ IsBranch(Parent[b], Branch[Parent[b]])
    BY <1>1, <1>2, ParentBelow
  <1>4. IsBranch(b, Branch[b])
    BY <1>1, <1>2, <1>3, LongerBranch, BranchUnfolds
  <1> QED
    BY <1>1, <1>4

OnePerHeight(blocks) == \A x, y \in blocks : Height[x] = Height[y] => x = y

(* The blocks of a chain below one of them are its ancestors.               *)
LEMMA Ancestors ==
  ASSUME NEW blocks \in SUBSET Block, Rooted(blocks), OnePerHeight(blocks)
  PROVE  \A y, x \in blocks : Height[x] <= Height[y] => Branch[y][Height[x] + 1] = x
  <1> DEFINE Fine(y) == \A x \in blocks : Height[x] <= Height[y] => Branch[y][Height[x] + 1] = x
             S == {y \in blocks : ~ Fine(y)}
  <1> SUFFICES ASSUME S # {}
               PROVE  FALSE
    OBVIOUS
  <1>1. PICK y \in S : \A x \in Block : Height[x] < Height[y] => x \notin S
    BY LowestBlock
  <1>2. y \in blocks /\ y \in Block /\ Height[y] \in Nat /\ ~ Fine(y)
    BY <1>1, LedgerFacts
  <1>3. Branch[y][Height[y] + 1] = y
    BY <1>2, BranchIsBranch DEF IsBranch
  <1>4. PICK x \in blocks : Height[x] <= Height[y] /\ Branch[y][Height[x] + 1] # x
    BY <1>2
  <1>5. Height[x] \in Nat /\ Height[x] < Height[y]
    <2>1. x # y
      BY <1>3, <1>4
    <2>2. Height[x] # Height[y] /\ Height[x] \in Nat
      BY <1>2, <1>4, <2>1, LedgerFacts DEF OnePerHeight
    <2> QED
      BY <1>2, <1>4, <2>2
  <1>6. y # Genesis
    <2>1. y = Genesis => Height[y] = 0
      BY <1>2, LedgerTree
    <2> QED
      BY <1>5, <2>1
  <1> DEFINE p == Parent[y]
  <1>7. /\ p \in blocks /\ p \in Block /\ Height[p] \in Nat /\ Height[y] = Height[p] + 1
        /\ Height[x] <= Height[p]
    BY <1>2, <1>5, <1>6, ParentBelow DEF Rooted
  <1>8. Branch[p][Height[x] + 1] = x
    <2>1. p \notin S
      BY <1>1, <1>7
    <2> QED
      BY <1>7, <2>1
  <1> HIDE DEF p, S, Fine
  <1>9. Branch[y] = Append(Branch[p], y)
    BY <1>2, <1>6, BranchUnfolds DEF p
  <1>10. Branch[p] \in Seq(Block) /\ Len(Branch[p]) = Height[p] + 1
    BY <1>7, BranchIsBranch DEF IsBranch
  <1>11. Height[x] + 1 \in 1 .. Height[p] + 1
    BY <1>5, <1>7
  <1>12. Append(Branch[p], y)[Height[x] + 1] = Branch[p][Height[x] + 1]
    BY <1>10, <1>11, AppendProperties
  <1> QED
    BY <1>4, <1>8, <1>9, <1>12

(* Where a transaction is mined: a block and a position in it.              *)
At(p)          == Txs[p[1]][p[2]]
Places(blocks) == UNION {{<<b, i>> : i \in DOMAIN Txs[b]} : b \in blocks}
Before(p, q)   == Height[p[1]] < Height[q[1]] \/ (p[1] = q[1] /\ p[2] < q[2])

LEMMA PlaceFacts ==
  ASSUME NEW blocks \in SUBSET Block, NEW p
  PROVE  p \in Places(blocks) <=> \E b \in blocks : \E i \in DOMAIN Txs[b] : p = <<b, i>>
  BY DEF Places

LEMMA PlaceTypes ==
  ASSUME NEW blocks \in SUBSET Block, NEW p \in Places(blocks)
  PROVE  /\ p[1] \in blocks /\ p[1] \in Block /\ p[2] \in DOMAIN Txs[p[1]] /\ p = <<p[1], p[2]>>
         /\ p[2] \in Nat \ {0} /\ At(p) \in Tx /\ Height[p[1]] \in Nat
  <1>1. PICK b \in blocks : \E i \in DOMAIN Txs[b] : p = <<b, i>>
    BY PlaceFacts
  <1>2. PICK i \in DOMAIN Txs[b] : p = <<b, i>>
    BY <1>1
  <1>3. b \in Block /\ Txs[b] \in Seq(Tx) /\ Height[b] \in Nat
    BY <1>1, LedgerFacts
  <1>4. i \in Nat \ {0} /\ Txs[b][i] \in Tx
    BY <1>2, <1>3
  <1> QED
    BY <1>1, <1>2, <1>3, <1>4 DEF At

LEMMA PlacesAreOrdered ==
  ASSUME NEW blocks \in SUBSET Block, OnePerHeight(blocks),
         NEW p \in Places(blocks), NEW q \in Places(blocks), p # q
  PROVE  Before(p, q) \/ Before(q, p)
  <1>1. /\ p[1] \in blocks /\ p = <<p[1], p[2]>> /\ p[2] \in Nat /\ Height[p[1]] \in Nat
        /\ q[1] \in blocks /\ q = <<q[1], q[2]>> /\ q[2] \in Nat /\ Height[q[1]] \in Nat
    BY PlaceTypes
  <1>2. CASE p[1] = q[1]
    <2>1. p[2] # q[2]
      BY <1>1, <1>2
    <2> QED
      BY <1>1, <1>2, <2>1 DEF Before
  <1>3. CASE p[1] # q[1]
    <2>1. Height[p[1]] # Height[q[1]]
      BY <1>1, <1>3 DEF OnePerHeight
    <2> QED
      BY <1>1, <2>1 DEF Before
  <1> QED
    BY <1>2, <1>3

(* On one chain no transaction is mined twice.                              *)
LEMMA MinedOnce ==
  ASSUME NEW blocks \in SUBSET Block, Rooted(blocks), OnePerHeight(blocks),
         NEW p \in Places(blocks), NEW q \in Places(blocks), At(p) = At(q)
  PROVE  p = q
  <1>1. ASSUME NEW x \in Places(blocks), NEW y \in Places(blocks), Before(x, y)
        PROVE  At(x) # At(y)
    <2> DEFINE b == y[1]
               before == SubSeq(Branch[b], 1, Height[b])
    <2>1. /\ x[1] \in blocks /\ x[2] \in DOMAIN Txs[x[1]] /\ x[2] \in Nat \ {0}
          /\ Height[x[1]] \in Nat
          /\ b \in blocks /\ b \in Block /\ y[2] \in DOMAIN Txs[b] /\ y[2] \in Nat \ {0}
          /\ Height[b] \in Nat
      BY PlaceTypes
    <2>2. At(y) \notin TxsIn(before) \cup {Txs[b][j] : j \in 1 .. y[2] - 1}
      BY <2>1, LedgerIsValid DEF ValidBlock, At
    <2>3. CASE x[1] = b /\ x[2] < y[2]
      <3>1. x[2] \in 1 .. y[2] - 1
        BY <2>1, <2>3
      <3> QED
        BY <2>2, <2>3, <3>1 DEF At
    <2>4. CASE Height[x[1]] < Height[b]
      <3> DEFINE k == Height[x[1]] + 1
      <3>1. Branch[b][k] = x[1]
        BY <2>1, <2>4, Ancestors
      <3>2. k \in 1 .. Height[b]
        BY <2>1, <2>4
      <3>3. Branch[b] \in Seq(Block) /\ Len(Branch[b]) = Height[b] + 1
        BY <2>1, BranchIsBranch DEF IsBranch
      <3>4. \A i \in 1 .. Height[b] : Branch[b][i] \in Block
        BY <2>1, <3>3
      <3>5. before \in Seq(Block) /\ Len(before) = Height[b] /\ \A i \in 1 .. Height[b] : before[i] = Branch[b][i]
        BY <2>1, <3>4, SubSeqProperties
      <3> HIDE DEF k, before
      <3>6. k \in DOMAIN before /\ before[k] = x[1]
        BY <3>1, <3>2, <3>5
      <3>7. x[1] \in BlocksIn(before)
        BY <3>6 DEF BlocksIn
      <3>8. At(x) \in TxsIn(before)
        BY <2>1, <3>7 DEF TxsIn, At
      <3> QED
        BY <2>2, <3>8
    <2> QED
      BY <1>1, <2>3, <2>4 DEF Before
  <1> QED
    BY <1>1, PlacesAreOrdered

-----------------------------------------------------------------------------
(* Numbering transactions in the order of their places.                     *)

Numbered(symbol, places, top) ==
  /\ DOMAIN symbol = {At(p) : p \in places}
  /\ \A p \in places : symbol[At(p)] <= top
  /\ \A p, q \in places : Before(p, q) => symbol[At(p)] < symbol[At(q)]

LEMMA NumberedApart ==
  ASSUME NEW blocks \in SUBSET Block, OnePerHeight(blocks),
         NEW places \in SUBSET Places(blocks), NEW symbol, NEW top,
         Numbered(symbol, places, top), \A t \in DOMAIN symbol : symbol[t] \in Int
  PROVE  \A t, u \in DOMAIN symbol : symbol[t] = symbol[u] => t = u
  <1> SUFFICES ASSUME NEW t \in DOMAIN symbol, NEW u \in DOMAIN symbol, t # u
               PROVE  symbol[t] # symbol[u]
    OBVIOUS
  <1>1. PICK p \in places : At(p) = t
    BY DEF Numbered
  <1>2. PICK q \in places : At(q) = u
    BY DEF Numbered
  <1>3. Before(p, q) \/ Before(q, p)
    BY <1>1, <1>2, PlacesAreOrdered
  <1>4. symbol[t] < symbol[u] \/ symbol[u] < symbol[t]
    BY <1>1, <1>2, <1>3 DEF Numbered
  <1>5. symbol[t] \in Int /\ symbol[u] \in Int
    OBVIOUS
  <1> QED
    BY <1>4, <1>5

LEMMA SameNumbers ==
  ASSUME NEW symbol, NEW other, NEW places, NEW top, Numbered(symbol, places, top),
         DOMAIN other = DOMAIN symbol, \A t \in DOMAIN symbol : other[t] = symbol[t]
  PROVE  Numbered(other, places, top)
  <1>1. \A p \in places : other[At(p)] = symbol[At(p)]
    BY DEF Numbered
  <1> QED
    BY <1>1 DEF Numbered

(* One more transaction, in the last place, takes the next number.          *)
LEMMA NumberNext ==
  ASSUME NEW symbol, NEW other, NEW places, NEW top \in Int, Numbered(symbol, places, top),
         \A t \in DOMAIN symbol : symbol[t] \in Int,
         NEW q, At(q) \notin DOMAIN symbol, \A p \in places : ~ Before(q, p), ~ Before(q, q),
         \A t : t \in DOMAIN other <=> t = At(q) \/ t \in DOMAIN symbol,
         other[At(q)] = top + 1, \A t \in DOMAIN symbol : other[t] = symbol[t]
  PROVE  Numbered(other, places \cup {q}, top + 1)
  <1>1. \A p \in places : /\ At(p) \in DOMAIN symbol /\ other[At(p)] = symbol[At(p)]
                          /\ symbol[At(p)] \in Int /\ symbol[At(p)] <= top
    BY DEF Numbered
  <1>2. \A t : t \in DOMAIN other <=> t \in {At(p) : p \in places \cup {q}}
    BY DEF Numbered
  <1>2a. DOMAIN other = {At(p) : p \in places \cup {q}}
    BY <1>2
  <1>3. \A p \in places \cup {q} : other[At(p)] <= top + 1
    BY <1>1
  <1>4. ASSUME NEW p \in places \cup {q}, NEW r \in places \cup {q}, Before(p, r)
        PROVE  other[At(p)] < other[At(r)]
    <2>1. p # q
      BY <1>4
    <2>2. p \in places /\ other[At(p)] = symbol[At(p)]
      BY <1>1, <2>1
    <2>3. CASE r = q
      BY <1>1, <2>2, <2>3
    <2>4. CASE r # q
      BY <1>1, <1>4, <2>2, <2>4 DEF Numbered
    <2> QED
      BY <2>3, <2>4
  <1> QED
    BY <1>2a, <1>3, <1>4 DEF Numbered

(* Without one of them.                                                     *)
LEMMA NumberGone ==
  ASSUME NEW symbol, NEW other, NEW places, NEW top, Numbered(symbol, places, top),
         NEW q \in places, \A p \in places : At(p) = At(q) => p = q,
         \A t : t \in DOMAIN other <=> t # At(q) /\ t \in DOMAIN symbol,
         \A t \in DOMAIN other : other[t] = symbol[t]
  PROVE  Numbered(other, places \ {q}, top)
  <1>1. DOMAIN symbol = {At(p) : p \in places}
    BY DEF Numbered
  <1>2. \A t : t \in DOMAIN other <=> t \in {At(p) : p \in places \ {q}}
    BY <1>1
  <1>3. DOMAIN other = {At(p) : p \in places \ {q}}
    BY <1>2
  <1>4. \A p \in places \ {q} : other[At(p)] = symbol[At(p)]
    BY <1>3
  <1> QED
    BY <1>3, <1>4 DEF Numbered

-----------------------------------------------------------------------------
(* The transactions of the indexed blocks, and where the worker is.         *)

(* Of the block it adds, those before the current one, and that one once    *)
(* it has its symbol; of the block it removes, those not removed yet.      *)
Indexed(p) ==
  p[1] = job.block =>
    /\ AddingBlock => p[2] < job.tx \/ (p[2] = job.tx /\ pc # "tx")
    /\ pc \in RemovalPc => p[2] >= job.tx

Mined       == {p \in Places(Known) : Indexed(p)}
StoredPlaces == Places(DOMAIN db["block-sym"])
StoredTop   == OrElse(meta.latestTxSymbol, -1)

JobInv ==
  /\ AddingBlock => job.block \in Known /\ Height[job.block] = lastBlockSymbol
  /\ pc \in {"taken", "firstFlush"} => job.tx = 1 /\ job.minTxSymbol = None
  /\ pc \in RemovalPc => Known = DOMAIN db["block-sym"]

(* Symbols follow the order of the chain, in the database and in memory.    *)
OrderedInv ==
  /\ Numbered(db["tx-sym"], StoredPlaces, StoredTop)
  /\ pc # "exited" => Numbered(View("tx-sym"), Mined, lastTxSymbol)
  /\ pc \in FlushPc => flush.meta.latestTxSymbol = lastTxSymbol

CurrentInv ==
  pc \in AddTxPc =>
    CurrentTx \in DOMAIN View("tx-sym") /\ View("tx-sym")[CurrentTx] = lastTxSymbol

(* A removal reads what it removes from the database, and the lowest symbol *)
(* it has met is above those of all other blocks.                          *)
RemovalInv ==
  pc \in RemovalPc =>
    /\ \A t \in DOMAIN View("tx-sym") :
         t \in DOMAIN db["tx-sym"] /\ View("tx-sym")[t] = db["tx-sym"][t]
    /\ job.minTxSymbol # None =>
         \A p \in Mined : p[1] # job.block => View("tx-sym")[At(p)] < job.minTxSymbol

SymbolInv == JobInv /\ OrderedInv /\ CurrentInv /\ RemovalInv /\ TxSymbolsUnique

ChainInv == IInv /\ OrderInv /\ ChainedInv /\ RootedInv

LEMMA KnownFacts ==
  ASSUME IInv, ChainedInv
  PROVE  /\ Known \in SUBSET Block /\ OnePerHeight(Known)
         /\ DOMAIN db["block-sym"] \in SUBSET Block /\ OnePerHeight(DOMAIN db["block-sym"])
         /\ \A b \in Known : Height[b] \in 0 .. lastBlockSymbol
         /\ lastBlockSymbol \in Int
  <1>1. Known \in SUBSET Block
    BY ChainTypes DEF IInv
  <1>2. DOMAIN db["block-sym"] \in SUBSET Block
    BY DEF IInv, TypeOK, DbTypeOK, IsMap
  <1>3. OnePerHeight(Known) /\ \A b \in Known : Height[b] \in 0 .. lastBlockSymbol
    BY DEF ChainedInv, Chained, Known, OnePerHeight
  <1>4. OnePerHeight(DOMAIN db["block-sym"])
    BY DEF ChainedInv, Chained, OnePerHeight
  <1> QED
    BY <1>1, <1>2, <1>3, <1>4 DEF IInv, TypeOK, FieldTypeOK

LEMMA SymbolsView ==
  ASSUME TypeOK
  PROVE  IsMap(View("tx-sym"), Tx, Symbol) /\ IsMap(Written("tx-sym"), Tx, Symbol)
  <1>1. IsMap(Written("tx-sym"), Tx, Symbol)
    BY OverlayType DEF TypeOK, DbTypeOK, FlushTypeOK, BatchesType, Written
  <1> QED
    BY <1>1, OverlayType DEF TypeOK, BatchesType, View

LEMMA CurrentPlace ==
  ASSUME TypeOK, HasTx
  PROVE  /\ job.tx \in DOMAIN Txs[job.block] /\ At(<<job.block, job.tx>>) = CurrentTx
         /\ \A blocks : job.block \in blocks => <<job.block, job.tx>> \in Places(blocks)
  <1>1. job.tx \in DOMAIN Txs[job.block]
    BY JobTypes, LedgerFacts DEF HasTx
  <1> QED
    BY <1>1 DEF At, CurrentTx, Places

(* An added block has no transaction the index knows: none is skipped.      *)
LEMMA UnknownTx ==
  ASSUME ChainInv, SymbolInv, pc = "tx", HasTx
  PROVE  CurrentTx \notin DOMAIN View("tx-sym") /\ TxSymbol(CurrentTx) = None
  <1> USE DEF ChainInv, IInv, SymbolInv
  <1> DEFINE q == <<job.block, job.tx>>
  <1>1. q \in Places(Known) /\ At(q) = CurrentTx /\ AddingBlock
    BY CurrentPlace DEF JobInv, AddingBlock
  <1>2. CurrentTx \notin DOMAIN View("tx-sym")
    <2> SUFFICES ASSUME CurrentTx \in DOMAIN View("tx-sym")
                 PROVE  FALSE
      OBVIOUS
    <2>1. PICK p \in Mined : At(p) = CurrentTx
      BY DEF OrderedInv, Numbered
    <2>2. p = q
      BY <1>1, <2>1, KnownFacts, MinedOnce DEF RootedInv, Mined
    <2>3. Indexed(q)
      BY <2>1, <2>2 DEF Mined
    <2>4. job.tx < job.tx
      BY <1>1, <2>3 DEF Indexed
    <2> QED
      BY <2>4, JobTypes
  <1>3. TxSymbol(CurrentTx) = Get(View("tx-sym"), CurrentTx)
    BY JobTypes DEF CacheInv, ReadsSeePendingWrites
  <1> QED
    BY <1>2, <1>3 DEF Get

(* A removal finds each transaction of its block.                           *)
LEMMA RemovedTx ==
  ASSUME ChainInv, SymbolInv, pc \in RemovalPc, HasTx
  PROVE  /\ <<job.block, job.tx>> \in Mined /\ job.block \in Known
         /\ CurrentTx \in DOMAIN View("tx-sym")
         /\ TxSymbol(CurrentTx) = View("tx-sym")[CurrentTx] /\ TxSymbol(CurrentTx) \in Nat
  <1> USE DEF ChainInv, IInv, SymbolInv
  <1> DEFINE q == <<job.block, job.tx>>
  <1>1. job.block \in Known
    BY DEF OrderInv, Undoing, RemovalPc
  <1>2. q \in Places(Known) /\ At(q) = CurrentTx /\ pc \notin {"tx", "inputs", "allocate", "outputs"}
    BY <1>1, CurrentPlace DEF RemovalPc
  <1>3. q \in Mined
    BY <1>2, JobTypes DEF Mined, Indexed, AddingBlock
  <1>4. CurrentTx \in DOMAIN View("tx-sym")
    BY <1>2, <1>3 DEF OrderedInv, Numbered, RemovalPc
  <1>5. TxSymbol(CurrentTx) = db["tx-sym"][CurrentTx]
    BY <1>4 DEF RemovalInv, CacheInv, TxSymbol, Get, EmptyMap
  <1>6. View("tx-sym")[CurrentTx] \in Nat
    BY <1>4, SymbolsView DEF IsMap, Symbol
  <1> QED
    BY <1>1, <1>3, <1>4, <1>5, <1>6 DEF RemovalInv

(* The steps that change what is known of transactions, and all others.     *)
TxStep == AddTx \/ RemoveTxSymbol \/ FlushBegins \/ WriteBatches \/ Reboot

LEMMA CounterKept ==
  ASSUME [Next]_vars, ~TxStep
  PROVE  lastTxSymbol' = lastTxSymbol
  <1> USE DEF TxStep, symbols
  <1>1. CASE UNCHANGED vars \/ Syncer \/ Exit
    BY <1>1 DEF vars, index, Syncer, BlockAdded, BlockRemoved, HandleBlock, Exit
  <1>2. CASE Requests
    BY <1>2 DEF Requests, LookupMiss, LookupName, AllocateAddress, index
  <1>3. CASE Take \/ SkipBlock \/ AddBlock \/ SkipTx \/ ResolveAddress \/ MissAddress
    BY <1>3 DEF Take, SkipBlock, AddBlock, SkipTx, ResolveAddress, MissAddress, index
  <1>4. CASE SpendInput \/ CreateOutput \/ NameAddress
    BY <1>4 DEF SpendInput, CreateOutput, NameAddress, AllocateAddress
  <1>5. CASE BeginOutputs \/ FinishTx \/ FinishBlock
    BY <1>5 DEF BeginOutputs, FinishTx, FinishBlock, index
  <1>6. CASE RemoveTx \/ RevalidateInput \/ EndRevalidation \/ RemoveOutput
    BY <1>6 DEF RemoveTx, RevalidateInput, EndRevalidation, RemoveOutput, index
  <1>7. CASE \E a \in flush.todo : FlushList(a)
    BY <1>7 DEF FlushList
  <1> QED
    BY <1>1, <1>2, <1>3, <1>4, <1>5, <1>6, <1>7
       DEF Next, Worker, Adding, Removing, Flushing, Crash, Restart, FlushBegins

LEMMA TxTablesKept ==
  ASSUME TypeOK, [Next]_vars, ~TxStep
  PROVE  /\ UNCHANGED <<db, meta, lastTxSymbol>> /\ flush'.meta = flush.meta
         /\ View("tx-sym")' = View("tx-sym")
         /\ pc \in FlushPc <=> pc' \in FlushPc
         /\ pc = "exited" => pc' = "exited"
  <1>1. Still \/ AddBlock
    BY StillSteps DEF TxStep
  <1>2. CASE Still
    BY <1>2, CounterKept, LayersKept DEF Still, Quiet, BlockTables
  <1>3. CASE AddBlock
    <2>1. Quiet /\ dbBatches'["tx-sym"] = dbBatches["tx-sym"] /\ pc' = "tx" /\ pc = "taken"
      BY <1>3, QuietSteps DEF AddBlock, TypeOK, BatchesType, Tables
    <2> QED
      BY <2>1, CounterKept, LayersKept DEF Quiet, BlockTables, FlushPc
  <1> QED
    BY <1>1, <1>2, <1>3

-----------------------------------------------------------------------------
(* How the worker moves.                                                    *)

Stands == UNCHANGED <<pc, job>>
Inside(places) == pc \in places /\ pc' \in places /\ job'.block = job.block /\ job'.tx = job.tx

LEMMA StandingSteps ==
  ASSUME UNCHANGED vars \/ Syncer \/ Requests \/ \E a \in flush.todo : FlushList(a)
  PROVE  Stands
  BY DEF Stands, vars, worker, Syncer, BlockAdded, BlockRemoved, HandleBlock, Requests, LookupMiss,
         LookupName, AllocateAddress, FlushList

LEMMA JobFields ==
  ASSUME TypeOK
  PROVE  /\ \A n : /\ [job EXCEPT !.pos = n].block = job.block
                   /\ [job EXCEPT !.pos = n].tx = job.tx
                   /\ [job EXCEPT !.pos = n].pos = n
                   /\ [job EXCEPT !.pos = n].minTxSymbol = job.minTxSymbol
                   /\ [job EXCEPT !.minTxSymbol = n].block = job.block
                   /\ [job EXCEPT !.minTxSymbol = n].tx = job.tx
                   /\ [job EXCEPT !.minTxSymbol = n].pos = job.pos
                   /\ [job EXCEPT !.minTxSymbol = n].minTxSymbol = n
                   /\ [job EXCEPT !.resolved = n].block = job.block
                   /\ [job EXCEPT !.resolved = n].tx = job.tx
         /\ NextTx.block = job.block /\ NextTx.tx = job.tx + 1 /\ NextTx.pos = 1
         /\ NextTx.minTxSymbol = job.minTxSymbol
  <1>1. job \in JobType
    BY DEF TypeOK, WorkerTypeOK
  <1>2. \A n : /\ [job EXCEPT !.pos = n].block = job.block
               /\ [job EXCEPT !.pos = n].tx = job.tx
               /\ [job EXCEPT !.pos = n].pos = n
               /\ [job EXCEPT !.pos = n].minTxSymbol = job.minTxSymbol
    BY <1>1 DEF JobType
  <1>3. \A n : /\ [job EXCEPT !.minTxSymbol = n].block = job.block
               /\ [job EXCEPT !.minTxSymbol = n].tx = job.tx
               /\ [job EXCEPT !.minTxSymbol = n].pos = job.pos
               /\ [job EXCEPT !.minTxSymbol = n].minTxSymbol = n
    BY <1>1 DEF JobType
  <1>4. \A n : /\ [job EXCEPT !.resolved = n].block = job.block
               /\ [job EXCEPT !.resolved = n].tx = job.tx
    BY <1>1 DEF JobType
  <1>5. /\ NextTx.block = job.block /\ NextTx.tx = job.tx + 1 /\ NextTx.pos = 1
        /\ NextTx.minTxSymbol = job.minTxSymbol
    BY <1>1 DEF JobType, NextTx
  <1> QED
    BY <1>2, <1>3, <1>4, <1>5

LEMMA AddingSteps ==
  ASSUME TypeOK,
         \/ SpendInput \/ ResolveAddress \/ MissAddress \/ NameAddress \/ BeginOutputs
         \/ CreateOutput
  PROVE  Inside(AddTxPc)
  <1> USE JobFields DEF Inside, AddTxPc
  <1>1. CASE SpendInput
    BY <1>1 DEF SpendInput
  <1>2. CASE ResolveAddress
    BY <1>2 DEF ResolveAddress, Resolving
  <1>3. CASE MissAddress
    BY <1>3 DEF MissAddress, Resolving
  <1>4. CASE NameAddress
    BY <1>4 DEF NameAddress
  <1>5. CASE BeginOutputs
    BY <1>5 DEF BeginOutputs
  <1>6. CASE CreateOutput
    BY <1>6 DEF CreateOutput
  <1> QED
    BY <1>1, <1>2, <1>3, <1>4, <1>5, <1>6

LEMMA RemovingSteps ==
  ASSUME ChainInv, SymbolInv, RemoveTx \/ RevalidateInput \/ EndRevalidation \/ RemoveOutput
  PROVE  /\ Inside(RemovalPc)
         /\ RemoveTx => /\ pc = "untx" /\ pc' = "revalidate" /\ HasTx
                        /\ job'.minTxSymbol = MinSymbol(job.minTxSymbol, TxSymbol(CurrentTx))
         /\ ~RemoveTx => job'.minTxSymbol = job.minTxSymbol
  <1> USE JobFields DEF Inside, RemovalPc, ChainInv, IInv
  <1>1. CASE RemoveTx
    <2>1. TxSymbol(CurrentTx) # None
      BY <1>1, RemovedTx, SentinelsAreNoValues DEF RemoveTx
    <2> QED
      BY <1>1, <2>1 DEF RemoveTx
  <1>2. CASE RevalidateInput
    BY <1>2 DEF RevalidateInput, RemoveTx
  <1>3. CASE EndRevalidation
    BY <1>3 DEF EndRevalidation, RemoveTx
  <1>4. CASE RemoveOutput
    BY <1>4 DEF RemoveOutput, RemoveTx
  <1> QED
    BY <1>1, <1>2, <1>3, <1>4

(* All steps but those of TxStep, sorted by where the worker goes.          *)
LEMMA WorkerMoves ==
  ASSUME ChainInv, SymbolInv, [Next]_vars, ~TxStep, pc' # "exited"
  PROVE  \/ Stands \/ AddBlock \/ Inside(AddTxPc) \/ FinishTx \/ Inside(RemovalPc)
         \/ Take \/ SkipBlock \/ FinishBlock
  <1> USE DEF ChainInv, IInv
  <1>1. ~SkipTx
    BY UnknownTx DEF SkipTx
  <1>2. ~Exit
    BY DEF Exit
  <1>3. CASE RemoveTx \/ RevalidateInput \/ EndRevalidation \/ RemoveOutput
    BY <1>3, RemovingSteps
  <1>4. CASE \/ SpendInput \/ ResolveAddress \/ MissAddress \/ NameAddress \/ BeginOutputs
             \/ CreateOutput
    BY <1>4, AddingSteps
  <1>5. CASE UNCHANGED vars \/ Syncer \/ Requests \/ \E a \in flush.todo : FlushList(a)
    BY <1>5, StandingSteps
  <1> QED
    BY <1>1, <1>2, <1>3, <1>4, <1>5
       DEF TxStep, Next, Worker, Adding, Removing, Flushing, Crash, Restart, FlushBegins

(* Where nothing is being added or removed, every place counts.             *)
LEMMA MinedAll ==
  ASSUME ~AddingBlock, pc \notin RemovalPc
  PROVE  Mined = Places(Known)
  BY DEF Mined, Indexed

LEMMA MinedKept ==
  ASSUME ChainInv, SymbolInv, [Next]_vars, ~TxStep, pc' # "exited"
  PROVE  Mined' = Mined
  <1> USE DEF ChainInv, IInv
  <1>1. \A p \in Places(Known) : p[1] \in Known /\ p[2] \in Nat \ {0} /\ p[2] \in DOMAIN Txs[p[1]]
    BY KnownFacts, PlaceTypes
  <1>2. job.tx \in Nat \ {0} /\ job.block \in Block
    BY JobTypes
  <1>3. CASE AddBlock
    <2>1. pc = "taken" /\ pc' = "tx" /\ job' = job /\ job.tx = 1 /\ Known' = Known \cup {job.block}
          /\ job.block \notin Known
      BY <1>3, AddedBlock, UnknownBlock DEF AddBlock, SymbolInv, JobInv
    <2>2. Mined = Places(Known)
      BY <2>1, MinedAll DEF AddingBlock, RemovalPc
    <2>3. \A p \in Places(Known) : p \in Places(Known') /\ Indexed(p)'
      BY <1>1, <2>1 DEF Places, Indexed
    <2>4. ASSUME NEW p \in Places(Known'), Indexed(p)'
          PROVE  p \in Places(Known)
      <3>1. /\ p[1] \in Known' /\ p[2] \in Nat \ {0} /\ p = <<p[1], p[2]>>
            /\ p[2] \in DOMAIN Txs[p[1]]
        <4>1. Known' \in SUBSET Block
          BY <1>2, <2>1, KnownFacts
        <4> QED
          BY <4>1, PlaceTypes
      <3>2. p[1] # job.block
        <4>1. p[1] = job.block => p[2] < 1
          BY <2>1, <2>4 DEF Indexed, AddingBlock
        <4> QED
          BY <3>1, <4>1
      <3> QED
        BY <2>1, <3>1, <3>2 DEF Places
    <2> QED
      BY <2>2, <2>3, <2>4 DEF Mined
  <1>4. ASSUME ~AddBlock
        PROVE  Known' = Known
    <2>1. ~CommitRemove /\ ~Reboot
      BY DEF TxStep, FlushBegins
    <2> QED
      BY <1>4, <2>1, ViewsKept DEF Known
  <1>5. ASSUME ~AddBlock, \A p \in Places(Known) : Indexed(p)' <=> Indexed(p)
        PROVE  Mined' = Mined
    BY <1>4, <1>5 DEF Mined
  <1>6. CASE Stands
    BY <1>3, <1>5, <1>6 DEF Stands, Indexed, AddingBlock
  <1>7. CASE Inside(AddTxPc)
    <2>1. /\ pc \in {"inputs", "allocate", "outputs"} /\ pc' \in {"inputs", "allocate", "outputs"}
          /\ job'.block = job.block /\ job'.tx = job.tx
      BY <1>7 DEF Inside, AddTxPc
    <2>2. \A p \in Places(Known) : Indexed(p)' <=> Indexed(p)
      BY <2>1 DEF Indexed, AddingBlock, RemovalPc
    <2> QED
      BY <1>3, <1>5, <2>2
  <1>8. CASE Inside(RemovalPc)
    <2>1. /\ pc \in RemovalPc /\ pc' \in RemovalPc /\ ~AddingBlock /\ ~AddingBlock'
          /\ job'.block = job.block /\ job'.tx = job.tx
      BY <1>8 DEF Inside, RemovalPc, AddingBlock
    <2>2. \A p \in Places(Known) : Indexed(p)' <=> Indexed(p)
      BY <2>1 DEF Indexed
    <2> QED
      BY <1>3, <1>5, <2>2
  <1>9. CASE FinishTx
    <2>1. pc = "outputs" /\ pc' = "tx" /\ job'.block = job.block /\ job'.tx = job.tx + 1
      BY <1>9, JobFields DEF FinishTx
    <2>2. \A p \in Places(Known) : Indexed(p)' <=> Indexed(p)
      BY <1>1, <1>2, <2>1 DEF Indexed, AddingBlock, RemovalPc
    <2> QED
      BY <1>3, <1>5, <2>2
  <1>10. CASE Take \/ SkipBlock
    <2>1. ~AddingBlock /\ pc \notin RemovalPc /\ ~AddingBlock' /\ pc' \notin RemovalPc
      BY <1>10 DEF Take, SkipBlock, AddingBlock, RemovalPc
    <2>2. \A p \in Places(Known) : Indexed(p)' <=> Indexed(p)
      BY <2>1 DEF Indexed
    <2> QED
      BY <1>3, <1>5, <2>2
  <1>11. CASE FinishBlock
    <2>1. pc = "tx" /\ ~HasTx /\ pc' = "idle"
      BY <1>11 DEF FinishBlock
    <2>2. \A i \in DOMAIN Txs[job.block] : i < job.tx
      BY <1>2, <2>1, LedgerFacts DEF HasTx
    <2>3. \A p \in Places(Known) : Indexed(p)' /\ Indexed(p)
      BY <1>1, <2>1, <2>2 DEF Indexed, AddingBlock, RemovalPc
    <2> QED
      BY <1>3, <1>5, <2>3
  <1> QED
    BY <1>3, <1>6, <1>7, <1>8, <1>9, <1>10, <1>11, WorkerMoves

-----------------------------------------------------------------------------
(* Every step keeps the order of the symbols.                               *)

LEMMA ViewDelete ==
  ASSUME Quiet, NEW t \in BlockTables, NEW k,
         dbBatches'[t] = Put(dbBatches[t], k, Deleted)
  PROVE  /\ \A x : x \in DOMAIN View(t)' <=> x # k /\ x \in DOMAIN View(t)
         /\ \A x \in DOMAIN View(t)' : View(t)'[x] = View(t)[x]
  <1> DEFINE f == Written(t)
             ops == dbBatches[t]
             new == Put(ops, k, Deleted)
  <1>1. View(t)' = Overlay(f, new) /\ View(t) = Overlay(f, ops)
    BY LayersKept DEF View
  <1>2. /\ DOMAIN new = DOMAIN ops \cup {k} /\ new[k] = Deleted
        /\ \A x \in DOMAIN ops : x # k => new[x] = ops[x]
    BY DEF Put, Merge
  <1> HIDE DEF f, ops, new
  <1>3. \A x : x \in DOMAIN Overlay(f, new) <=> x # k /\ x \in DOMAIN Overlay(f, ops)
    BY <1>2 DEF Overlay
  <1>4. \A x \in DOMAIN Overlay(f, new) : Overlay(f, new)[x] = Overlay(f, ops)[x]
    BY <1>2, <1>3 DEF Overlay
  <1> QED
    BY <1>1, <1>3, <1>4

LEMMA QuietOrdered ==
  ASSUME ChainInv, SymbolInv, [Next]_vars, ~TxStep
  PROVE  OrderedInv'
  <1> USE DEF ChainInv, IInv, SymbolInv
  <1>1. /\ UNCHANGED <<db, meta, lastTxSymbol>> /\ flush'.meta = flush.meta
        /\ View("tx-sym")' = View("tx-sym")
        /\ pc \in FlushPc <=> pc' \in FlushPc
        /\ pc = "exited" => pc' = "exited"
    BY TxTablesKept
  <1>2. pc' # "exited" => Mined' = Mined
    BY MinedKept
  <1>3. StoredPlaces' = StoredPlaces /\ StoredTop' = StoredTop
    BY <1>1 DEF StoredPlaces, StoredTop
  <1> QED
    BY <1>1, <1>2, <1>3 DEF OrderedInv, Numbered

LEMMA AddTxMined ==
  ASSUME ChainInv, SymbolInv, AddTx
  PROVE  /\ <<job.block, job.tx>> \notin Mined
         /\ Mined' = Mined \cup {<<job.block, job.tx>>}
         /\ \A p \in Mined : ~ Before(<<job.block, job.tx>>, p)
         /\ CurrentTx \notin DOMAIN View("tx-sym")
         /\ \A t : t \in DOMAIN View("tx-sym")' <=> t = CurrentTx \/ t \in DOMAIN View("tx-sym")
         /\ View("tx-sym")'[CurrentTx] = lastTxSymbol + 1 /\ lastTxSymbol' = lastTxSymbol + 1
         /\ \A t \in DOMAIN View("tx-sym") : View("tx-sym")'[t] = View("tx-sym")[t]
         /\ UNCHANGED <<db, meta, flush>> /\ pc = "tx" /\ pc' = "inputs" /\ job' = job
  <1> USE DEF ChainInv, IInv, SymbolInv
  <1> DEFINE q == <<job.block, job.tx>>
             s == lastTxSymbol + 1
  <1>1. /\ pc = "tx" /\ pc' = "inputs" /\ job' = job /\ HasTx /\ lastTxSymbol' = s
        /\ dbBatches'["tx-sym"] = Put(dbBatches["tx-sym"], CurrentTx, s)
        /\ dbBatches'["block-sym"] = dbBatches["block-sym"]
        /\ UNCHANGED <<db, meta, flush>>
    BY DEF AddTx, TypeOK, BatchesType, Tables, database
  <1>2. s # Deleted
    BY SentinelsAreNoValues DEF TypeOK, FieldTypeOK
  <1>3. Quiet
    BY QuietSteps
  <1>4. CurrentTx \notin DOMAIN View("tx-sym")
    BY <1>1, UnknownTx
  <1> HIDE DEF s
  <1>5. /\ \A x : x \in DOMAIN View("tx-sym")' <=> x = CurrentTx \/ x \in DOMAIN View("tx-sym")
        /\ View("tx-sym")'[CurrentTx] = s
        /\ \A x \in DOMAIN View("tx-sym") : x # CurrentTx =>
             View("tx-sym")'[x] = View("tx-sym")[x]
    BY <1>1, <1>2, <1>3, ViewPut DEF BlockTables
  <1>6. Known' = Known
    BY <1>1, <1>3, LayersKept DEF Known, BlockTables
  <1>7. job.block \in Known /\ Height[job.block] = lastBlockSymbol
    BY <1>1 DEF JobInv, AddingBlock
  <1>8. q \in Places(Known) /\ q[1] = job.block /\ q[2] = job.tx /\ job.tx \in Nat
    BY <1>1, <1>7, CurrentPlace, JobTypes
  <1>9. \A p \in Places(Known) : /\ p[1] \in Known /\ p[2] \in Nat /\ p = <<p[1], p[2]>>
                                 /\ Height[p[1]] \in 0 .. lastBlockSymbol
    BY KnownFacts, PlaceTypes
  <1>10. \A p \in Places(Known) : Indexed(p) <=> (p[1] = job.block => p[2] < job.tx)
    BY <1>1 DEF Indexed, AddingBlock, RemovalPc
  <1>11. \A p \in Places(Known) :
           Indexed(p)' <=> (p[1] = job.block => p[2] < job.tx \/ p[2] = job.tx)
    BY <1>1 DEF Indexed, AddingBlock, RemovalPc
  <1>12. q \notin Mined
    BY <1>8, <1>10 DEF Mined
  <1>13. \A p \in Places(Known) : Indexed(p)' <=> Indexed(p) \/ p = q
    BY <1>8, <1>9, <1>10, <1>11
  <1>14. Mined' = Mined \cup {q}
    BY <1>6, <1>8, <1>13 DEF Mined
  <1>15. ASSUME NEW p \in Mined
         PROVE  ~ Before(q, p)
    <2>1. /\ p[1] = job.block => p[2] < job.tx
          /\ p[2] \in Nat /\ Height[p[1]] \in 0 .. lastBlockSymbol
      BY <1>9, <1>10 DEF Mined
    <2>2. lastBlockSymbol \in Int
      BY KnownFacts
    <2> QED
      BY <1>7, <1>8, <2>1, <2>2 DEF Before
  <1> QED
    BY <1>1, <1>4, <1>5, <1>12, <1>14, <1>15 DEF s

LEMMA AddTxOrdered ==
  ASSUME ChainInv, SymbolInv, AddTx
  PROVE  OrderedInv'
  <1> USE DEF ChainInv, IInv, SymbolInv
  <1> DEFINE q == <<job.block, job.tx>>
  <1>1. /\ Mined' = Mined \cup {q}
        /\ \A p \in Mined : ~ Before(q, p)
        /\ CurrentTx \notin DOMAIN View("tx-sym")
        /\ \A t : t \in DOMAIN View("tx-sym")' <=> t = CurrentTx \/ t \in DOMAIN View("tx-sym")
        /\ View("tx-sym")'[CurrentTx] = lastTxSymbol + 1 /\ lastTxSymbol' = lastTxSymbol + 1
        /\ \A t \in DOMAIN View("tx-sym") : View("tx-sym")'[t] = View("tx-sym")[t]
        /\ UNCHANGED <<db, meta, flush>> /\ pc = "tx" /\ pc' = "inputs"
    BY AddTxMined
  <1>2. At(q) = CurrentTx /\ Height[q[1]] \in Int /\ q[2] \in Int
    BY CurrentPlace, JobTypes DEF AddTx
  <1>3. ~ Before(q, q)
    BY <1>2 DEF Before
  <1>4. Numbered(View("tx-sym"), Mined, lastTxSymbol)
    BY <1>1 DEF OrderedInv
  <1>5. /\ \A t \in DOMAIN View("tx-sym") : View("tx-sym")[t] \in Int
        /\ lastTxSymbol \in Int
    BY SymbolsView DEF IsMap, Symbol, TypeOK, FieldTypeOK
  <1> HIDE DEF q
  <1>6. Numbered(View("tx-sym")', Mined', lastTxSymbol')
    BY <1>1, <1>2, <1>3, <1>4, <1>5, NumberNext
  <1>7. StoredPlaces' = StoredPlaces /\ StoredTop' = StoredTop
    BY <1>1 DEF StoredPlaces, StoredTop
  <1> QED
    BY <1>1, <1>6, <1>7 DEF OrderedInv, FlushPc, Numbered

LEMMA RemoveTxMined ==
  ASSUME ChainInv, SymbolInv, RemoveTxSymbol
  PROVE  /\ <<job.block, job.tx>> \in Mined /\ At(<<job.block, job.tx>>) = CurrentTx
         /\ Mined' = Mined \ {<<job.block, job.tx>>}
         /\ \A p \in Mined : At(p) = CurrentTx => p = <<job.block, job.tx>>
         /\ \A t : t \in DOMAIN View("tx-sym")' <=> t # CurrentTx /\ t \in DOMAIN View("tx-sym")
         /\ \A t \in DOMAIN View("tx-sym")' : View("tx-sym")'[t] = View("tx-sym")[t]
         /\ UNCHANGED <<db, meta, flush, lastTxSymbol>> /\ pc = "unlist" /\ pc' = "untx"
         /\ job' = NextTx /\ Known' = Known
  <1> USE DEF ChainInv, IInv, SymbolInv
  <1> DEFINE q == <<job.block, job.tx>>
  <1>1. /\ pc = "unlist" /\ pc' = "untx" /\ job' = NextTx /\ HasTx
        /\ dbBatches'["tx-sym"] = Put(dbBatches["tx-sym"], CurrentTx, Deleted)
        /\ dbBatches'["block-sym"] = dbBatches["block-sym"]
        /\ UNCHANGED <<db, meta, flush, lastTxSymbol>>
    BY DEF RemoveTxSymbol, TypeOK, BatchesType, Tables, database, symbols, WorkerInv
  <1>2. Quiet
    BY QuietSteps
  <1>3. /\ \A t : t \in DOMAIN View("tx-sym")' <=> t # CurrentTx /\ t \in DOMAIN View("tx-sym")
        /\ \A t \in DOMAIN View("tx-sym")' : View("tx-sym")'[t] = View("tx-sym")[t]
    BY <1>1, <1>2, ViewDelete DEF BlockTables
  <1>4. Known' = Known
    BY <1>1, <1>2, LayersKept DEF Known, BlockTables
  <1>5. q \in Mined /\ At(q) = CurrentTx
    BY <1>1, RemovedTx, CurrentPlace DEF RemovalPc
  <1>6. \A p \in Mined : At(p) = CurrentTx => p = q
    BY <1>5, KnownFacts, MinedOnce DEF Mined, RootedInv
  <1>7. job'.block = job.block /\ job'.tx = job.tx + 1 /\ job.tx \in Nat
    BY <1>1, JobFields, JobTypes
  <1>8. \A p \in Places(Known) : p[2] \in Nat /\ p = <<p[1], p[2]>>
    BY KnownFacts, PlaceTypes
  <1>9. \A p \in Places(Known) : Indexed(p) <=> (p[1] = job.block => p[2] >= job.tx)
    BY <1>1 DEF Indexed, AddingBlock, RemovalPc
  <1>10. \A p \in Places(Known) : Indexed(p)' <=> (p[1] = job.block => p[2] >= job.tx + 1)
    BY <1>1, <1>7 DEF Indexed, AddingBlock, RemovalPc
  <1>11. \A p \in Places(Known) : Indexed(p)' <=> Indexed(p) /\ p # q
    BY <1>7, <1>8, <1>9, <1>10
  <1>12. Mined' = Mined \ {q}
    BY <1>4, <1>11 DEF Mined
  <1> QED
    BY <1>1, <1>3, <1>4, <1>5, <1>6, <1>12

LEMMA RemoveTxOrdered ==
  ASSUME ChainInv, SymbolInv, RemoveTxSymbol
  PROVE  OrderedInv'
  <1> DEFINE q == <<job.block, job.tx>>
  <1>1. /\ q \in Mined /\ At(q) = CurrentTx
        /\ Mined' = Mined \ {q}
        /\ \A p \in Mined : At(p) = CurrentTx => p = q
        /\ \A t : t \in DOMAIN View("tx-sym")' <=> t # CurrentTx /\ t \in DOMAIN View("tx-sym")
        /\ \A t \in DOMAIN View("tx-sym")' : View("tx-sym")'[t] = View("tx-sym")[t]
        /\ UNCHANGED <<db, meta, flush, lastTxSymbol>> /\ pc = "unlist" /\ pc' = "untx"
    BY RemoveTxMined
  <1>2. Numbered(View("tx-sym"), Mined, lastTxSymbol)
    BY <1>1 DEF SymbolInv, OrderedInv
  <1> HIDE DEF q
  <1>3. Numbered(View("tx-sym")', Mined', lastTxSymbol')
    BY <1>1, <1>2, NumberGone
  <1>4. StoredPlaces' = StoredPlaces /\ StoredTop' = StoredTop
    BY <1>1 DEF StoredPlaces, StoredTop
  <1> QED
    BY <1>1, <1>3, <1>4 DEF SymbolInv, OrderedInv, FlushPc, Numbered

LEMMA CounterTaken ==
  ASSUME TypeOK, FlushBegins
  PROVE  /\ flush'.meta.latestTxSymbol = lastTxSymbol'
         /\ pc # "untx" => lastTxSymbol' = lastTxSymbol
         /\ pc = "untx" => ~HasTx /\ lastTxSymbol' = RecoveredTxSymbol
         /\ pc = "tx" => ~HasTx
  <1> USE DEF TakeBatches, Metadata
  <1>1. CASE FinishBlockAndFlush
    BY <1>1 DEF FinishBlockAndFlush
  <1>2. CASE BeginRemove
    BY <1>2 DEF BeginRemove
  <1>3. CASE CommitRemove
    BY <1>3 DEF CommitRemove
  <1>4. CASE SaveState
    BY <1>4 DEF SaveState
  <1> QED
    BY <1>1, <1>2, <1>3, <1>4 DEF FlushBegins

LEMMA TakenPlaces ==
  ASSUME ChainInv, SymbolInv, FlushBegins
  PROVE  /\ Mined' = Places(Known') /\ Mined' = Mined
         /\ pc # "untx" => Known' = Known
         /\ pc = "untx" => \A p \in Mined : p[1] # job.block
  <1> USE DEF ChainInv, IInv, SymbolInv
  <1>1. pc' \in FlushPc /\ pc \in {"idle", "taken", "tx", "untx"}
    BY Taken DEF FlushBegins, FinishBlockAndFlush, BeginRemove, CommitRemove, SaveState
  <1>2. Mined' = Places(Known')
    BY <1>1 DEF Mined, Indexed, FlushPc, RemovalPc, AddingBlock
  <1>3. \A p \in Places(Known) : /\ p[1] \in Known /\ p[2] \in Nat /\ p[2] \in DOMAIN Txs[p[1]]
                                 /\ p = <<p[1], p[2]>>
    BY KnownFacts, PlaceTypes
  <1>4. (pc = "tx" \/ pc = "untx") => \A i \in DOMAIN Txs[job.block] : i < job.tx
    BY CounterTaken, JobTypes, LedgerFacts DEF HasTx
  <1>5. CASE pc # "untx"
    <2>1. Known' = Known
      BY <1>5, TakenLayers DEF Known
    <2>2. \A p \in Places(Known) : Indexed(p)
      BY <1>1, <1>3, <1>4, <1>5 DEF Indexed, AddingBlock, RemovalPc
    <2> QED
      BY <1>2, <1>5, <2>1, <2>2 DEF Mined
  <1>6. CASE pc = "untx"
    <2>1. Known' = Known \ {job.block}
      BY <1>6, RemovedBlock
         DEF FlushBegins, FinishBlockAndFlush, BeginRemove, CommitRemove, SaveState
    <2>2. \A p \in Places(Known) : Indexed(p) <=> p[1] # job.block
      <3>1. \A p \in Places(Known) : Indexed(p) <=> (p[1] = job.block => p[2] >= job.tx)
        BY <1>6 DEF Indexed, AddingBlock, RemovalPc
      <3>2. job.tx \in Nat
        BY JobTypes
      <3> QED
        BY <1>3, <1>4, <1>6, <3>1, <3>2
    <2>3. \A p \in Mined : p[1] # job.block
      BY <2>2 DEF Mined
    <2>4. Mined = Places(Known')
      BY <1>3, <2>1, <2>2 DEF Mined, Places
    <2> QED
      BY <1>2, <1>6, <2>3, <2>4
  <1> QED
    BY <1>2, <1>5, <1>6

LEMMA TakenOrdered ==
  ASSUME ChainInv, SymbolInv, FlushBegins
  PROVE  OrderedInv'
  <1> USE DEF ChainInv, IInv, SymbolInv
  <1>1. /\ UNCHANGED <<db, meta>> /\ pc \notin FlushPc \cup {"exited"} /\ pc' \in FlushPc
        /\ View("tx-sym")' = View("tx-sym")
    BY Taken, TakenLayers
  <1>2. /\ flush'.meta.latestTxSymbol = lastTxSymbol'
        /\ pc # "untx" => lastTxSymbol' = lastTxSymbol
        /\ pc = "untx" => lastTxSymbol' = RecoveredTxSymbol
    BY CounterTaken
  <1>3. Mined' = Mined /\ (pc = "untx" => \A p \in Mined : p[1] # job.block)
    BY TakenPlaces
  <1>4. Numbered(View("tx-sym"), Mined, lastTxSymbol)
    BY <1>1 DEF OrderedInv
  <1>5. Numbered(View("tx-sym"), Mined, lastTxSymbol')
    <2>1. CASE pc # "untx" \/ job.minTxSymbol = None
      BY <1>2, <1>4, <2>1 DEF RecoveredTxSymbol
    <2>2. CASE pc = "untx" /\ job.minTxSymbol # None
      <3>1. \A p \in Mined : View("tx-sym")[At(p)] < job.minTxSymbol
        BY <1>3, <2>2 DEF RemovalInv, RemovalPc
      <3>2. lastTxSymbol' = job.minTxSymbol - 1 /\ job.minTxSymbol \in Nat
        BY <1>2, <2>2, JobTypes DEF RecoveredTxSymbol, OrNone
      <3>3. \A p \in Mined : View("tx-sym")[At(p)] \in Int
        BY <1>4, SymbolsView DEF Numbered, IsMap, Symbol
      <3>4. \A p \in Mined : View("tx-sym")[At(p)] <= lastTxSymbol'
        BY <3>1, <3>2, <3>3
      <3> QED
        BY <1>4, <3>4 DEF Numbered
    <2> QED
      BY <2>1, <2>2
  <1>6. StoredPlaces' = StoredPlaces /\ StoredTop' = StoredTop
    BY <1>1 DEF StoredPlaces, StoredTop
  <1> QED
    BY <1>1, <1>2, <1>3, <1>5, <1>6 DEF OrderedInv, Numbered

LEMMA WrittenPlaces ==
  ASSUME ChainInv, SymbolInv, WriteBatches
  PROVE  /\ Mined' = Places(Known) /\ Mined = Places(Known) /\ Known' = Known
         /\ StoredPlaces' = Places(Known) /\ DOMAIN db'["block-sym"] = Known
         /\ pc \in FlushPc /\ pc' \in {"idle", "untx"} /\ job' = job
         /\ pc' = "untx" => pc = "firstFlush" /\ job.tx = 1 /\ job.minTxSymbol = None
  <1> USE DEF ChainInv, IInv, SymbolInv
  <1>1. /\ pc \in FlushPc /\ pc' \in {"idle", "untx"} /\ job' = job
        /\ pc' = "untx" => pc = "firstFlush"
    BY DEF WriteBatches
  <1>2. pc' = "untx" => job.tx = 1 /\ job.minTxSymbol = None
    BY <1>1 DEF JobInv
  <1>3. Known' = Known /\ DOMAIN db'["block-sym"] = Known
    BY WrittenLayers DEF Known, Tables, BlockTables
  <1>4. \A p \in Places(Known) : p[2] \in Nat \ {0}
    BY KnownFacts, PlaceTypes
  <1>5. Mined = Places(Known)
    BY <1>1 DEF Mined, Indexed, FlushPc, AddingBlock, RemovalPc
  <1>6. \A p \in Places(Known) : Indexed(p)'
    BY <1>1, <1>2, <1>4 DEF Indexed, AddingBlock, RemovalPc
  <1> QED
    BY <1>1, <1>2, <1>3, <1>5, <1>6 DEF Mined, StoredPlaces

LEMMA WrittenOrdered ==
  ASSUME ChainInv, SymbolInv, WriteBatches
  PROVE  OrderedInv'
  <1> USE DEF ChainInv, IInv, SymbolInv
  <1>1. /\ Mined' = Mined /\ StoredPlaces' = Mined
        /\ pc \in FlushPc /\ pc' \notin FlushPc /\ pc # "exited"
    BY WrittenPlaces DEF FlushPc
  <1>2. /\ View("tx-sym")' = View("tx-sym") /\ DOMAIN View("tx-sym") = DOMAIN db'["tx-sym"]
        /\ \A t \in DOMAIN View("tx-sym") : db'["tx-sym"][t] = View("tx-sym")[t]
    BY WrittenLayers DEF Tables, BlockTables
  <1>3. lastTxSymbol' = lastTxSymbol /\ StoredTop' = lastTxSymbol
    <2>1. meta'.latestTxSymbol = lastTxSymbol /\ lastTxSymbol' = lastTxSymbol
      BY <1>1 DEF WriteBatches, OrderedInv, symbols
    <2>2. lastTxSymbol # None
      BY SentinelsAreNoValues DEF TypeOK, FieldTypeOK
    <2> QED
      BY <2>1, <2>2 DEF StoredTop, OrElse
  <1>4. Numbered(View("tx-sym"), Mined, lastTxSymbol)
    BY <1>1 DEF OrderedInv
  <1>5. Numbered(db'["tx-sym"], Mined, lastTxSymbol)
    BY <1>2, <1>4, SameNumbers
  <1> QED
    BY <1>1, <1>2, <1>3, <1>4, <1>5 DEF OrderedInv, Numbered

LEMMA RebootedOrdered ==
  ASSUME ChainInv, SymbolInv, Reboot
  PROVE  OrderedInv'
  <1> USE DEF ChainInv, IInv, SymbolInv
  <1>1. /\ UNCHANGED <<db, meta>> /\ pc' = "idle" /\ lastTxSymbol' = StoredTop
    BY DEF Reboot, StoredTop
  <1>2. Known' = DOMAIN db["block-sym"]
    BY RebootedLayers DEF Known, Tables
  <1>3. Mined' = StoredPlaces
    BY <1>1, <1>2 DEF Mined, Indexed, AddingBlock, RemovalPc, StoredPlaces
  <1>4. DOMAIN View("tx-sym")' = DOMAIN db["tx-sym"]
        /\ \A t \in DOMAIN db["tx-sym"] : View("tx-sym")'[t] = db["tx-sym"][t]
    BY RebootedLayers DEF Tables
  <1>5. Numbered(db["tx-sym"], StoredPlaces, StoredTop)
    BY DEF OrderedInv
  <1>6. Numbered(View("tx-sym")', StoredPlaces, StoredTop)
    BY <1>4, <1>5, SameNumbers
  <1>7. StoredPlaces' = StoredPlaces /\ StoredTop' = StoredTop
    BY <1>1 DEF StoredPlaces, StoredTop
  <1> QED
    BY <1>1, <1>3, <1>5, <1>6, <1>7 DEF OrderedInv, Numbered, FlushPc

LEMMA OrderedStep ==
  ASSUME ChainInv, SymbolInv, [Next]_vars
  PROVE  OrderedInv'
  <1>1. CASE TxStep
    BY <1>1, AddTxOrdered, RemoveTxOrdered, TakenOrdered, WrittenOrdered, RebootedOrdered
       DEF TxStep
  <1>2. CASE ~TxStep
    BY <1>2, QuietOrdered
  <1> QED
    BY <1>1, <1>2

-----------------------------------------------------------------------------
(* The rest of the invariant: the job, the transaction at hand, a removal.  *)

(* Steps of a removal before its last; they change no table of blocks.      *)
LEMMA RemovalKeeps ==
  ASSUME ChainInv, SymbolInv, [Next]_vars, pc' \in RemovalPc
  PROVE  \/ WriteBatches
         \/ /\ pc \in RemovalPc /\ job'.block = job.block /\ db' = db /\ Known' = Known
            /\ \/ ~TxStep /\ (Stands \/ Inside(RemovalPc))
               \/ RemoveTxSymbol
  <1> USE DEF ChainInv, IInv
  <1>1. ~AddBlock /\ ~FlushBegins /\ ~Reboot /\ ~AddTx
    BY Taken DEF AddBlock, Reboot, AddTx, RemovalPc, FlushPc
  <1>2. ASSUME ~WriteBatches
        PROVE  db' = db /\ Known' = Known
    BY <1>1, <1>2, ViewsKept DEF Known, FlushBegins
  <1>3. CASE RemoveTxSymbol
    BY <1>2, <1>3, JobFields DEF RemoveTxSymbol, RemovalPc, WriteBatches, FlushPc
  <1>4. CASE ~TxStep
    <2>1. pc' # "exited" /\ ~Inside(AddTxPc) /\ ~FinishTx /\ ~Take /\ ~SkipBlock /\ ~FinishBlock
      BY DEF RemovalPc, Inside, AddTxPc, FinishTx, Take, SkipBlock, FinishBlock
    <2>2. Stands \/ Inside(RemovalPc)
      BY <1>1, <1>4, <2>1, WorkerMoves
    <2> QED
      BY <1>2, <1>4, <2>2 DEF Stands, Inside, TxStep
  <1> QED
    BY <1>1, <1>3, <1>4 DEF TxStep

(* Steps while a block is being added.                                      *)
LEMMA AddingKeeps ==
  ASSUME ChainInv, SymbolInv, [Next]_vars, AddingBlock'
  PROVE  \/ AddBlock
         \/ /\ AddingBlock /\ job'.block = job.block /\ Known' = Known
            /\ lastBlockSymbol' = lastBlockSymbol
            /\ \/ ~TxStep /\ (Stands \/ Inside(AddTxPc))
               \/ FinishTx \/ AddTx
  <1> USE DEF ChainInv, IInv
  <1>1. ~FlushBegins /\ ~Reboot /\ ~WriteBatches /\ ~RemoveTxSymbol
    BY Taken DEF AddingBlock, Reboot, WriteBatches, RemoveTxSymbol, FlushPc
  <1>2. ASSUME ~AddBlock
        PROVE  Known' = Known /\ lastBlockSymbol' = lastBlockSymbol
    BY <1>1, <1>2, ViewsKept DEF Known, FlushBegins
  <1>3. CASE AddTx
    BY <1>2, <1>3 DEF AddTx, AddingBlock, AddBlock
  <1>4. CASE ~TxStep
    <2>1. pc' # "exited" /\ ~Inside(RemovalPc) /\ ~Take /\ ~SkipBlock /\ ~FinishBlock
      BY DEF RemovalPc, Inside, AddingBlock, Take, SkipBlock, FinishBlock
    <2>2. AddBlock \/ Stands \/ Inside(AddTxPc) \/ FinishTx
      BY <1>4, <2>1, WorkerMoves
    <2>3. CASE Stands
      BY <1>2, <1>4, <2>3 DEF Stands, AddingBlock
    <2>4. CASE Inside(AddTxPc)
      BY <1>2, <1>4, <2>4 DEF Inside, AddTxPc, AddingBlock
    <2>5. CASE FinishTx
      BY <1>2, <2>5, JobFields DEF FinishTx, AddingBlock
    <2> QED
      BY <2>2, <2>3, <2>4, <2>5
  <1> QED
    BY <1>1, <1>3, <1>4 DEF TxStep

LEMMA JobStep ==
  ASSUME ChainInv, SymbolInv, [Next]_vars
  PROVE  JobInv'
  <1> USE DEF ChainInv, IInv, SymbolInv
  <1>1. AddingBlock' => job'.block \in Known' /\ Height[job'.block] = lastBlockSymbol'
    <2>1. CASE AddBlock
      BY <2>1, AddedBlock DEF AddBlock
    <2>2. CASE ~AddBlock
      BY <2>2, AddingKeeps DEF JobInv
    <2> QED
      BY <2>1, <2>2
  <1>2. pc' \in {"taken", "firstFlush"} => job'.tx = 1 /\ job'.minTxSymbol = None
    <2> SUFFICES ASSUME pc' \in {"taken", "firstFlush"}
                 PROVE  job'.tx = 1 /\ job'.minTxSymbol = None
      OBVIOUS
    <2>1. CASE FlushBegins
      <3>1. pc' = "firstFlush" /\ pc = "taken"
        BY <2>1, Taken DEF FlushPc
      <3>2. job' = job
        BY <2>1, <3>1 DEF FlushBegins, FinishBlockAndFlush, BeginRemove, CommitRemove, SaveState
      <3> QED
        BY <3>1, <3>2 DEF JobInv
    <2>2. ~AddTx /\ ~RemoveTxSymbol /\ ~WriteBatches /\ ~Reboot
      BY DEF AddTx, RemoveTxSymbol, WriteBatches, Reboot
    <2>3. CASE Take
      BY <2>3 DEF Take, NoJob
    <2>4. CASE Stands
      BY <2>4 DEF Stands, JobInv
    <2>5. ~AddBlock /\ ~Inside(AddTxPc) /\ ~FinishTx /\ ~Inside(RemovalPc) /\ ~SkipBlock
          /\ ~FinishBlock
      BY DEF AddBlock, Inside, AddTxPc, RemovalPc, FinishTx, SkipBlock, FinishBlock
    <2> QED
      BY <2>1, <2>2, <2>3, <2>4, <2>5, WorkerMoves DEF TxStep
  <1>3. pc' \in RemovalPc => Known' = DOMAIN db'["block-sym"]
    <2>1. CASE WriteBatches
      BY <2>1, WrittenPlaces
    <2>2. CASE ~WriteBatches
      BY <2>2, RemovalKeeps DEF JobInv
    <2> QED
      BY <2>1, <2>2
  <1> QED
    BY <1>1, <1>2, <1>3 DEF JobInv

LEMMA CurrentStep ==
  ASSUME ChainInv, SymbolInv, [Next]_vars
  PROVE  CurrentInv'
  <1> USE DEF ChainInv, IInv, SymbolInv
  <1> SUFFICES ASSUME pc' \in AddTxPc
               PROVE  /\ CurrentTx' \in DOMAIN View("tx-sym")'
                      /\ View("tx-sym")'[CurrentTx'] = lastTxSymbol'
    BY DEF CurrentInv
  <1>1. ~AddBlock /\ ~FinishTx /\ AddingBlock'
    BY DEF AddBlock, FinishTx, AddTxPc, AddingBlock
  <1>2. CASE AddTx
    BY <1>2, AddTxMined DEF CurrentTx
  <1>3. CASE ~TxStep /\ (Stands \/ Inside(AddTxPc))
    <2>1. View("tx-sym")' = View("tx-sym") /\ lastTxSymbol' = lastTxSymbol
      BY <1>3, TxTablesKept
    <2>2. pc \in AddTxPc /\ CurrentTx' = CurrentTx
      BY <1>3 DEF Stands, Inside, CurrentTx
    <2> QED
      BY <2>1, <2>2 DEF CurrentInv
  <1> QED
    BY <1>1, <1>2, <1>3, AddingKeeps

LEMMA LowestSymbol ==
  ASSUME ChainInv, SymbolInv, RemoveTx, NEW p \in Mined, p[1] # job.block
  PROVE  View("tx-sym")[At(p)] < MinSymbol(job.minTxSymbol, TxSymbol(CurrentTx))
  <1> USE DEF ChainInv, IInv, SymbolInv
  <1> DEFINE q == <<job.block, job.tx>>
             s == TxSymbol(CurrentTx)
             mine == View("tx-sym")[At(p)]
  <1>1. pc \in RemovalPc /\ pc # "exited" /\ HasTx
    BY DEF RemoveTx, RemovalPc
  <1>2. q \in Mined /\ job.block \in Known /\ s = View("tx-sym")[CurrentTx] /\ s \in Nat
    BY <1>1, RemovedTx
  <1>3. At(q) = CurrentTx
    BY <1>1, CurrentPlace
  <1>4. Before(p, q)
    <2>1. p[1] \in Known
      BY KnownFacts, PlaceTypes DEF Mined
    <2>2. Height[job.block] = lastBlockSymbol
      BY <1>1 DEF OrderInv, Undoing, RemovalPc
    <2>3. Height[p[1]] # Height[job.block] /\ Height[p[1]] \in 0 .. lastBlockSymbol
          /\ lastBlockSymbol \in Int
      BY <1>2, <2>1, KnownFacts DEF OnePerHeight
    <2> QED
      BY <2>2, <2>3 DEF Before
  <1>5. mine < s
    BY <1>1, <1>2, <1>3, <1>4 DEF OrderedInv, Numbered
  <1>6. job.minTxSymbol # None => mine < job.minTxSymbol
    BY <1>1 DEF RemovalInv
  <1> HIDE DEF s, mine
  <1>7. MinSymbol(job.minTxSymbol, s) = s
        \/ (MinSymbol(job.minTxSymbol, s) = job.minTxSymbol /\ job.minTxSymbol # None)
    BY DEF MinSymbol
  <1> QED
    BY <1>5, <1>6, <1>7 DEF s, mine

LEMMA RemovalStep ==
  ASSUME ChainInv, SymbolInv, [Next]_vars
  PROVE  RemovalInv'
  <1> USE DEF ChainInv, IInv, SymbolInv
  <1> SUFFICES ASSUME pc' \in RemovalPc
               PROVE  RemovalInv'
    BY DEF RemovalInv
  <1>1. CASE WriteBatches
    <2>1. job'.minTxSymbol = None
      BY <1>1, WrittenPlaces DEF RemovalPc
    <2>2. /\ View("tx-sym")' = View("tx-sym") /\ DOMAIN View("tx-sym") = DOMAIN db'["tx-sym"]
          /\ \A t \in DOMAIN View("tx-sym") : db'["tx-sym"][t] = View("tx-sym")[t]
      BY <1>1, WrittenLayers DEF Tables, BlockTables
    <2> QED
      BY <2>1, <2>2 DEF RemovalInv
  <1>2. CASE RemoveTxSymbol
    <2>1. /\ Mined' = Mined \ {<<job.block, job.tx>>} /\ db' = db /\ pc = "unlist"
          /\ \A t : t \in DOMAIN View("tx-sym")' <=> t # CurrentTx /\ t \in DOMAIN View("tx-sym")
          /\ \A t \in DOMAIN View("tx-sym")' : View("tx-sym")'[t] = View("tx-sym")[t]
      BY <1>2, RemoveTxMined
    <2>2. job'.minTxSymbol = job.minTxSymbol /\ job'.block = job.block
      BY <1>2, JobFields DEF RemoveTxSymbol
    <2>3. /\ \A t \in DOMAIN View("tx-sym") :
               t \in DOMAIN db["tx-sym"] /\ View("tx-sym")[t] = db["tx-sym"][t]
          /\ job.minTxSymbol # None =>
               \A p \in Mined : p[1] # job.block => View("tx-sym")[At(p)] < job.minTxSymbol
      BY <2>1 DEF RemovalInv, RemovalPc
    <2>4. Numbered(View("tx-sym")', Mined', lastTxSymbol')
      BY <1>2, RemoveTxOrdered DEF OrderedInv, RemoveTxSymbol
    <2>5. \A p \in Mined' : At(p) \in DOMAIN View("tx-sym")'
      BY <2>4 DEF Numbered
    <2> QED
      BY <2>1, <2>2, <2>3, <2>5 DEF RemovalInv
  <1>3. CASE ~TxStep
    <2>1. pc \in RemovalPc /\ job'.block = job.block /\ db' = db
          /\ (Stands \/ Inside(RemovalPc))
      BY <1>3, RemovalKeeps DEF TxStep
    <2>2. View("tx-sym")' = View("tx-sym") /\ Mined' = Mined
      BY <1>3, TxTablesKept, MinedKept DEF RemovalPc
    <2>3. /\ \A t \in DOMAIN View("tx-sym") :
               t \in DOMAIN db["tx-sym"] /\ View("tx-sym")[t] = db["tx-sym"][t]
          /\ job.minTxSymbol # None =>
               \A p \in Mined : p[1] # job.block => View("tx-sym")[At(p)] < job.minTxSymbol
      BY <2>1 DEF RemovalInv
    <2>4. CASE job'.minTxSymbol = job.minTxSymbol
      BY <2>1, <2>2, <2>3, <2>4 DEF RemovalInv
    <2>5. CASE RemoveTx
      <3>1. job'.minTxSymbol = MinSymbol(job.minTxSymbol, TxSymbol(CurrentTx))
        BY <2>5, RemovingSteps
      <3>2. \A p \in Mined : p[1] # job.block => View("tx-sym")[At(p)] < job'.minTxSymbol
        BY <2>5, <3>1, LowestSymbol
      <3> QED
        BY <2>1, <2>2, <2>3, <3>2 DEF RemovalInv
    <2>6. job'.minTxSymbol = job.minTxSymbol \/ RemoveTx
      <3>1. CASE RevalidateInput \/ EndRevalidation \/ RemoveOutput
        BY <3>1, RemovingSteps
      <3>2. CASE UNCHANGED vars \/ Syncer \/ Requests \/ \E a \in flush.todo : FlushList(a)
        BY <3>2, StandingSteps DEF Stands
      <3>3. ~SkipTx /\ ~Exit /\ ~Take /\ ~SkipBlock /\ ~AddBlock /\ ~FinishTx /\ ~FinishBlock
        BY <2>1 DEF SkipTx, Exit, Take, SkipBlock, AddBlock, FinishTx, FinishBlock, RemovalPc
      <3>4. ~SpendInput /\ ~ResolveAddress /\ ~MissAddress /\ ~NameAddress /\ ~BeginOutputs
            /\ ~CreateOutput
        BY <2>1 DEF SpendInput, ResolveAddress, MissAddress, NameAddress, BeginOutputs,
                    CreateOutput, Resolving, RemovalPc
      <3> QED
        BY <1>3, <3>1, <3>2, <3>3, <3>4
           DEF TxStep, Next, Worker, Adding, Removing, Flushing, Crash, Restart, FlushBegins
    <2> QED
      BY <2>4, <2>5, <2>6
  <1> QED
    BY <1>1, <1>2, <1>3, RemovalKeeps DEF TxStep

-----------------------------------------------------------------------------
(* The theorem.                                                             *)

(* A restart may begin from an index whose process is gone, so an exited    *)
(* process only keeps what it had.                                          *)
LEMMA OrderMakesUnique ==
  ASSUME ChainInv, OrderedInv, pc # "exited"
  PROVE  TxSymbolsUnique
  <1> USE DEF ChainInv, IInv
  <1> DEFINE live == View("tx-sym")
  <1>1. Numbered(live, Mined, lastTxSymbol)
    BY DEF OrderedInv
  <1>2. \A t \in DOMAIN live : live[t] \in Int
    BY SymbolsView DEF IsMap, Symbol
  <1>3. Mined \in SUBSET Places(Known) /\ Known \in SUBSET Block /\ OnePerHeight(Known)
    BY KnownFacts DEF Mined
  <1> HIDE DEF live
  <1>4. \A t, u \in DOMAIN live : live[t] = live[u] => t = u
    BY <1>1, <1>2, <1>3, NumberedApart
  <1>5. \A t \in DOMAIN live : live[t] <= lastTxSymbol
    BY <1>1 DEF Numbered
  <1> QED
    BY <1>4, <1>5 DEF live, TxSymbolsUnique

Runs == pc # "exited"

LEMMA UniqueAfter == ChainInv' /\ OrderedInv' /\ Runs' => TxSymbolsUnique'
  <1>1. ChainInv /\ OrderedInv /\ Runs => TxSymbolsUnique
    BY OrderMakesUnique DEF Runs
  <1> QED
    BY <1>1, PTL

LEMMA InitSymbols == Init => ChainInv /\ SymbolInv
  <1> SUFFICES ASSUME Init
               PROVE  ChainInv /\ SymbolInv
    OBVIOUS
  <1>1. ChainInv
    BY InitIInv, InitChain, InitRooted DEF ChainInv
  <1>2. DOMAIN EmptyMap = {}
    BY DEF EmptyMap
  <1>3. /\ DOMAIN View("tx-sym") = {} /\ DOMAIN db["tx-sym"] = {}
        /\ Known = {} /\ DOMAIN db["block-sym"] = {}
    BY <1>2, OverlayEmpty DEF Init, NoFlush, NoBatches, Tables, View, Written, Known
  <1>4. StoredPlaces = {} /\ Mined = {}
    BY <1>3 DEF StoredPlaces, Mined, Places
  <1>5. pc = "idle"
    BY DEF Init
  <1>6. OrderedInv
    BY <1>3, <1>4, <1>5 DEF OrderedInv, Numbered, FlushPc
  <1>7. TxSymbolsUnique
    BY <1>3 DEF TxSymbolsUnique
  <1> QED
    BY <1>1, <1>5, <1>6, <1>7
       DEF SymbolInv, JobInv, CurrentInv, RemovalInv, AddingBlock, AddTxPc, RemovalPc

LEMMA SymbolsStep ==
  ChainInv /\ SymbolInv /\ [Next]_vars /\ [EventsInOrder]_vars => (ChainInv /\ SymbolInv)'
  <1> SUFFICES ASSUME ChainInv, SymbolInv, [Next]_vars, [EventsInOrder]_vars
               PROVE  ChainInv' /\ SymbolInv'
    OBVIOUS
  <1>1. ChainInv'
    BY NextIInv, OrderStep, ChainedStep, RootedStep DEF ChainInv, EventsInOrder
  <1>2. JobInv' /\ OrderedInv' /\ CurrentInv' /\ RemovalInv'
    BY JobStep, OrderedStep, CurrentStep, RemovalStep
  <1>3. TxSymbolsUnique'
    <2>1. CASE pc' # "exited"
      BY <1>1, <1>2, <2>1, UniqueAfter DEF Runs
    <2>2. CASE pc' = "exited"
      <3>1. ~TxStep
        BY <2>2, Taken
           DEF TxStep, AddTx, RemoveTxSymbol, WriteBatches, Reboot, FlushPc, ChainInv, IInv
      <3>2. View("tx-sym")' = View("tx-sym") /\ lastTxSymbol' = lastTxSymbol
        BY <3>1, TxTablesKept DEF ChainInv, IInv
      <3> QED
        BY <3>2 DEF SymbolInv, TxSymbolsUnique
    <2> QED
      BY <2>1, <2>2
  <1> QED
    BY <1>1, <1>2, <1>3 DEF SymbolInv

(* Whatever is flushed when, removed by a reorg and lost in a crash, the    *)
(* symbols of the known transactions follow the order of the chain, in     *)
(* the database and in memory alike.                                       *)
THEOREM SymbolsFollowTheChain ==
  Spec /\ [][EventsInOrder]_vars => [](ChainInv /\ SymbolInv)
  <1> QED
    BY InitSymbols, SymbolsStep, PTL DEF Spec

(* No two live transactions share a symbol and none is above the counter:   *)
(* the counter a removal turns back (CommitRemove) never hands out a       *)
(* symbol that an output is still stored under.                            *)
THEOREM TxSymbolsAreUnique ==
  Spec /\ [][EventsInOrder]_vars => []TxSymbolsUnique
  <1>1. ChainInv /\ SymbolInv => TxSymbolsUnique
    BY DEF SymbolInv
  <1> QED
    BY <1>1, SymbolsFollowTheChain, PTL
=============================================================================
