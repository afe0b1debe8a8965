---------------------------- MODULE UtxoRequests ----------------------------
(***************************************************************************)
(* The indexer with the requests that ask it for single outputs: every     *)
(* transaction of a /block or /mempool/transaction answer asks for the     *)
(* address of each output it spends (src/utils.js), with getUtxoData.      *)
(*                                                                         *)
(* Such a request is a reader that may write.  When it knows the symbol of *)
(* a transaction and finds no record of the output, recoverMissingUtxo     *)
(* asks the node for the transaction and its block, gives the block and    *)
(* the address symbols they may lack, and remembers the output as if it    *)
(* had just been indexed.  Every await is a step: the worker, flushes and  *)
(* reorgs come in between.                                                 *)
(***************************************************************************)
EXTENDS Indexer

CONSTANT QueryUtxo   \* outputs that requests ask for, one request each at a time

ASSUME QueryUtxoAreOutputs ==
  \A o \in QueryUtxo : o \in Outpoint /\ o[2] \in DOMAIN Vout[o[1]]

VARIABLE asks        \* [QueryUtxo -> how far the request is, and what it read]

(* `at' names what the request waits for.                                  *)
NotAsked == [at |-> "nothing", tx |-> None, block |-> None, created |-> None,
             address |-> None]

NoAsks == [o \in QueryUtxo |-> NotAsked]

Proceeds(o, r) == asks' = [asks EXCEPT ![o] = r]
Ends(o)        == Proceeds(o, NotAsked)

(* utxoExists looks into the caches at once.                               *)
AskUtxo(o) ==
  /\ asks[o].at = "nothing"
  /\ Proceeds(o,
       IF o \in DOMAIN lastSeenUtxos
       THEN [NotAsked EXCEPT !.at = "owner", !.address = lastSeenUtxos[o].utxo.address]
       ELSE IF o[1] \in DOMAIN lastSeenTxHashes
            THEN [NotAsked EXCEPT !.at = "utxo", !.tx = lastSeenTxHashes[o[1]]]
            ELSE [NotAsked EXCEPT !.at = "tx"])
  /\ UNCHANGED <<index, worker, outside>>

(* An output of a transaction without symbol has no data.                  *)
ReadTxSymbol(o) ==
  LET s == Get(db["tx-sym"], o[1]) IN
  /\ asks[o].at = "tx"
  /\ IF s = None THEN Ends(o) ELSE Proceeds(o, [asks[o] EXCEPT !.at = "utxo", !.tx = s])
  /\ UNCHANGED <<index, worker, outside>>

ReadUtxo(o) ==
  LET key == <<asks[o].tx, o[2]>> IN
  /\ asks[o].at = "utxo"
  /\ Proceeds(o,
       IF key \in DOMAIN db["utxo"]
       THEN [asks[o] EXCEPT !.at = "owner", !.address = db["utxo"][key].address]
       ELSE [asks[o] EXCEPT !.at = "rawtransaction"])
  /\ UNCHANGED <<index, worker, outside>>

-----------------------------------------------------------------------------
(* recoverMissingUtxo.                                                     *)

BlocksOf(t) == {b \in Block : \E i \in DOMAIN Txs[b] : Txs[b][i] = t}

(* The node (external) answers with the block of its own chain that holds  *)
(* the transaction, or with none when it is back in the mempool.  It may   *)
(* be on either branch, ahead of the indexer, or fail.                     *)
FetchTx(o) ==
  /\ asks[o].at = "rawtransaction"
  /\ \/ Ends(o)
     \/ \E b \in BlocksOf(o[1]) : Proceeds(o, [asks[o] EXCEPT !.at = "block", !.block = b])
     \/ Proceeds(o, [asks[o] EXCEPT !.at = "address", !.created = lastBlockSymbol])
  /\ UNCHANGED <<index, worker, outside>>

ReadBlockSymbol(o) ==
  LET s == BlockSymbol(asks[o].block) IN
  /\ asks[o].at = "block"
  /\ Proceeds(o, IF s = None THEN [asks[o] EXCEPT !.at = "getblock"]
                             ELSE [asks[o] EXCEPT !.at = "address", !.created = s])
  /\ UNCHANGED <<index, worker, outside>>

(* FAULTY: a block the index does not know is taken for its tip.            *)
FaultyNameBlock(o) ==
  LET b == asks[o].block
      h == IF lastBlockSymbol >= 0 THEN lastBlockSymbol ELSE 0
  IN
  /\ asks[o].at = "getblock"
  /\ lastSeenBlockHashes' = Put(lastSeenBlockHashes, b, h)
  /\ dbBatches' = [dbBatches EXCEPT !["block-sym"] = Put(@, b, h),
                                    !["sym-block"] = Put(@, h, b)]
  /\ Proceeds(o, [asks[o] EXCEPT !.at = "address", !.created = h])
  /\ UNCHANGED <<database, lastSeenTxHashes, lastSeenAddresses, lastSeenUtxos,
                 lastAddressUtxos, genesis, heights, symbols, worker, outside>>

(* The block the index does not know gets its symbol here: batchBlockSymbol *)
(* with no transaction of the block indexed.                               *)
NameBlock(o) ==
  LET b == asks[o].block IN
  /\ asks[o].at = "getblock"
  /\ lastSeenBlockHashes' = Put(lastSeenBlockHashes, b, Height[b])
  /\ dbBatches' = [dbBatches EXCEPT !["block-sym"] = Put(@, b, Height[b]),
                                    !["sym-block"] = Put(@, Height[b], b)]
  /\ Proceeds(o, [asks[o] EXCEPT !.at = "address", !.created = Height[b]])
  /\ UNCHANGED <<database, lastSeenTxHashes, lastSeenAddresses, lastSeenUtxos,
                 lastAddressUtxos, genesis, heights, symbols, worker, outside>>

(* The node does not return the block.                                     *)
MissBlock(o) ==
  /\ asks[o].at = "getblock"
  /\ Proceeds(o, [asks[o] EXCEPT !.at = "address", !.created = lastBlockSymbol])
  /\ UNCHANGED <<index, worker, outside>>

(* The record, with its script, under the symbol the request read first.   *)
Recovered(o, address) ==
  [txSymbol |-> asks[o].tx, utxo |-> Utxo(address, asks[o].created)]

(* The record is kept in the cache only.                                   *)
RememberUtxo(o) ==
  LET a == AddressOf(o)
      s == IF a = NoAddr THEN None ELSE AddressSymbol(a)
  IN
  /\ asks[o].at = "address"
  /\ IF a # NoAddr /\ s = None
     THEN /\ Proceeds(o, [asks[o] EXCEPT !.at = "name"])
          /\ UNCHANGED lastSeenUtxos
     ELSE /\ Proceeds(o, [asks[o] EXCEPT !.at = "owner", !.address = s])
          /\ lastSeenUtxos' = Put(lastSeenUtxos, o, Recovered(o, s))
  /\ UNCHANGED <<database, dbBatches, lastSeenBlockHashes, lastSeenTxHashes,
                 lastSeenAddresses, lastAddressUtxos, genesis, heights, symbols, worker,
                 outside>>

(* FAULTY: the counter is read and not moved.                               *)
FaultyNameAndRememberUtxo(o) ==
  LET a == AddressOf(o) IN
  /\ asks[o].at = "name"
  /\ dbBatches' = [dbBatches EXCEPT !["address-sym"] = Put(@, a, NewAddressSymbol)]
  /\ lastSeenAddresses' = Put(lastSeenAddresses, a, NewAddressSymbol)
  /\ lastSeenUtxos' = Put(lastSeenUtxos, o, Recovered(o, NewAddressSymbol))
  /\ Proceeds(o, [asks[o] EXCEPT !.at = "owner", !.address = NewAddressSymbol])
  /\ UNCHANGED <<database, lastSeenBlockHashes, lastSeenTxHashes, lastAddressUtxos,
                 genesis, heights, symbols, worker, outside>>

(* An address without symbol is named, as for an output of a block.        *)
NameAndRememberUtxo(o) ==
  LET a == AddressOf(o) IN
  /\ asks[o].at = "name"
  /\ lastAddressSymbol' = NewAddressSymbol
  /\ dbBatches' = [dbBatches EXCEPT !["address-sym"] = Put(@, a, NewAddressSymbol)]
  /\ lastSeenAddresses' = Put(lastSeenAddresses, a, NewAddressSymbol)
  /\ lastSeenUtxos' = Put(lastSeenUtxos, o, Recovered(o, NewAddressSymbol))
  /\ Proceeds(o, [asks[o] EXCEPT !.at = "owner", !.address = NewAddressSymbol])
  /\ UNCHANGED <<database, lastSeenBlockHashes, lastSeenTxHashes, lastAddressUtxos,
                 genesis, heights, lastTxSymbol, worker, outside>>

-----------------------------------------------------------------------------
(* getAddressBySymbol: the address stored beside the list of the symbol.   *)
Owner(s) ==
  IF s = None \/ s > lastAddressSymbol \/ s \notin DOMAIN db["address-utxos"]
  THEN None
  ELSE db["address-utxos"][s].address

Answer(o) ==
  /\ asks[o].at = "owner"
  /\ Ends(o)
  /\ UNCHANGED <<index, worker, outside>>

UtxoRequest(o) ==
  /\ pc # "exited"
  /\ \/ AskUtxo(o) \/ ReadTxSymbol(o) \/ ReadUtxo(o)
     \/ FetchTx(o) \/ ReadBlockSymbol(o) \/ NameBlock(o) \/ MissBlock(o)
     \/ RememberUtxo(o) \/ NameAndRememberUtxo(o)
     \/ Answer(o)

-----------------------------------------------------------------------------
AskingInit == Init /\ asks = NoAsks

AskingNext ==
  \/ (Worker \/ SaveState \/ Syncer \/ Requests) /\ UNCHANGED asks
  \/ (Crash \/ Restart) /\ asks' = NoAsks
  \/ \E o \in QueryUtxo : UtxoRequest(o)

AskingSpec == AskingInit /\ [][AskingNext]_<<vars, asks>>

OrderlyAskingSpec == AskingInit /\ [][AskingNext /\ Orderly]_<<vars, asks>>

-----------------------------------------------------------------------------
(* The request answers with the address the output pays, or with nothing:   *)
(* never with another one, although symbols are read one await at a time.  *)
(* So it is as long as nobody is named during a flush, no block is taken   *)
(* back and no branch switch goes unseen; each of the three gives a symbol *)
(* that a request holds another meaning.                                   *)
AnswersAreTrue ==
  \A o \in QueryUtxo :
    asks[o].at = "owner" => Owner(asks[o].address) \in {None, AddressOf(o)}

(* Every output on disk that pays an address leads back to it: an input    *)
(* that spends it is shown with its account.                               *)
UtxosNameTheirOwner ==
  \A t \in DOMAIN db["tx-sym"] : \A n \in DOMAIN Vout[t] :
    LET key == <<db["tx-sym"][t], n>> IN
    Vout[t][n] # NoAddr /\ key \in DOMAIN db["utxo"] =>
      Owner(db["utxo"][key].address) = Vout[t][n]
=============================================================================
