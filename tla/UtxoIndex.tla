----------------------------- MODULE UtxoIndex ------------------------------
(***************************************************************************)
(* What the utxo indexer promises, without symbols, batches or caches.     *)
(* `indexed' is the chain its memory stands for, `durable' the chain its   *)
(* database stands for, and `coins' the coins the database answers with    *)
(* for each address at the height of the durable chain.  Blocks are        *)
(* appended to and taken from the end of a linked chain, one at a time;    *)
(* a save makes memory durable as a whole; a crash falls back to exactly   *)
(* the durable chain; and the answer is always the ledger's own.           *)
(***************************************************************************)
EXTENDS Ledger

VARIABLES indexed, durable, coins

abstractVars == <<indexed, durable, coins>>

Answers(chain) == [a \in Addr |-> CoinsOf(chain, a)]

Init ==
  /\ indexed = <<>>
  /\ durable = <<>>
  /\ coins = Answers(<<>>)

Save(chain) ==
  /\ durable' = chain
  /\ coins' = Answers(chain)

(* A block is indexed on top of the tip it names as its parent.            *)
IndexBlock(b) ==
  /\ IF indexed = <<>> THEN b = Genesis ELSE Parent[b] = indexed[Len(indexed)]
  /\ indexed' = Append(indexed, b)
  /\ UNCHANGED <<durable, coins>>

SaveIndexed ==
  /\ indexed # <<>>
  /\ UNCHANGED indexed
  /\ Save(indexed)

(* A reorg takes back the tip, only once it is durable.                    *)
UnindexBlock ==
  /\ Len(indexed) > 1
  /\ durable = indexed
  /\ indexed' = SubSeq(indexed, 1, Len(indexed) - 1)
  /\ UNCHANGED <<durable, coins>>

Crash ==
  /\ indexed' = durable
  /\ UNCHANGED <<durable, coins>>

Next ==
  \/ \E b \in Block : IndexBlock(b)
  \/ SaveIndexed
  \/ UnindexBlock
  \/ Crash

Spec == Init /\ [][Next]_abstractVars
=============================================================================
