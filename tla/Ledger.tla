------------------------------- MODULE Ledger -------------------------------
(***************************************************************************)
(* The block chain the indexer reads, as data: a tree of blocks, the       *)
(* transactions of a block and the outputs they create and spend.  It also *)
(* holds the REFERENCE every indexed answer is compared with: the coins of *)
(* an address on a chain, computed from the blocks alone.                  *)
(*                                                                         *)
(* Amounts are left out: the indexer copies `sats' unchanged from an       *)
(* output to its utxo record, so a balance is right when its coins are.    *)
(* Output positions count from 1 (the node counts `vout' from 0).          *)
(***************************************************************************)
EXTENDS Integers, Sequences, FiniteSets

CONSTANTS
  Block,    \* block hashes
  Tx,       \* transaction hashes
  Addr,     \* addresses
  NoAddr,   \* an output script without exactly one address
  Genesis,  \* the block of height 0
  Height,   \* [Block -> Nat]
  Parent,   \* [Block -> Block]: previousblockhash (Genesis: itself)
  Txs,      \* [Block -> Seq(Tx)]: block.tx
  Vin,      \* [Tx -> Seq(Tx \X (Nat \ {0}))]: outputs spent; <<>>: coinbase
  Vout      \* [Tx -> Seq(Addr \cup {NoAddr})]: the address of each output

Outpoint == Tx \X (Nat \ {0})

ASSUME LedgerTypes ==
  /\ Genesis \in Block
  /\ NoAddr \notin Addr
  /\ Height \in [Block -> Nat]
  /\ Parent \in [Block -> Block]
  /\ \A b \in Block : Txs[b] \in Seq(Tx)
  /\ \A t \in Tx : Vin[t] \in Seq(Outpoint)
  /\ \A t \in Tx : Vout[t] \in Seq(Addr \cup {NoAddr})
  /\ DOMAIN Txs = Block /\ DOMAIN Vin = Tx /\ DOMAIN Vout = Tx

ASSUME LedgerTree ==
  \A b \in Block : IF b = Genesis THEN Height[b] = 0
                                  ELSE Height[b] = Height[Parent[b]] + 1

(***************************************************************************)
(* The reference: what a chain, a sequence of blocks from Genesis, says of *)
(* an address.  Prefix(chain, h) is the chain up to height h.              *)
(***************************************************************************)
Prefix(chain, h) == SubSeq(chain, 1, h + 1)

Linked(chain) ==
  /\ chain # <<>> => chain[1] = Genesis
  /\ \A i \in 2 .. Len(chain) : Parent[chain[i]] = chain[i - 1]

BlocksIn(chain) == {chain[i] : i \in DOMAIN chain}
TxsIn(chain)    == UNION {{Txs[b][i] : i \in DOMAIN Txs[b]} : b \in BlocksIn(chain)}
CreatedIn(chain) == UNION {{<<t, n>> : n \in DOMAIN Vout[t]} : t \in TxsIn(chain)}
SpentIn(chain)   == UNION {{Vin[t][i] : i \in DOMAIN Vin[t]} : t \in TxsIn(chain)}

AddressOf(o) == Vout[o[1]][o[2]]

CoinsOf(chain, a) ==
  {o \in CreatedIn(chain) \ SpentIn(chain) : AddressOf(o) = a}

(* Whether an address has ever received an output on the chain.            *)
Used(chain, a) == \E o \in CreatedIn(chain) : AddressOf(o) = a

(***************************************************************************)
(* The node only serves blocks it validated: along every branch an input   *)
(* spends an output created before it, each output is spent at most once,  *)
(* and a transaction is mined at most once.                                *)
(***************************************************************************)
Branch[b \in Block] == IF b = Genesis THEN <<b>> ELSE Append(Branch[Parent[b]], b)

ValidBlock(b) ==
  LET before == SubSeq(Branch[b], 1, Height[b])
      txs    == Txs[b]
      Earlier(i) == {txs[j] : j \in 1 .. i - 1}
  IN \A i \in DOMAIN txs :
       /\ txs[i] \notin TxsIn(before) \cup Earlier(i)
       /\ \A k \in DOMAIN Vin[txs[i]] :
            LET o == Vin[txs[i]][k] IN
            /\ o[2] \in DOMAIN Vout[o[1]]
            /\ o[1] \in TxsIn(before) \cup Earlier(i)
            /\ o \notin SpentIn(before)
            /\ \A t \in Earlier(i) : \A m \in DOMAIN Vin[t] : Vin[t][m] # o
            /\ \A m \in 1 .. k - 1 : Vin[txs[i]][m] # o

ASSUME LedgerIsValid == \A b \in Block : ValidBlock(b)
=============================================================================
