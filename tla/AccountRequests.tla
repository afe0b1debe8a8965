-------------------------- MODULE AccountRequests ---------------------------
(***************************************************************************)
(* The indexer with a request for the coins of an address                  *)
(* (src/services/AccountService.js, getAccountCoins), one await at a time: *)
(* which block the request means, the address's symbol, its list, and one  *)
(* utxo record after the other, while the worker indexes, removes and      *)
(* flushes.  getAccountBalance reads the same records in the same order    *)
(* and adds up what this request lists; it has one await less per coin.    *)
(***************************************************************************)
EXTENDS Indexer

CONSTANT QueryBlocks  \* the block identifiers requests carry

ASSUME QueryBlocksAreIdentifiers ==
  QueryBlocks \subseteq [index : Nat \cup {None}, hash : Block \cup {None}]

VARIABLE request

accountVars == <<vars, request>>

(* `at' names what the request waits for; the rest are its locals.         *)
NoRequest ==
  [at |-> "nothing", address |-> NoAddr, id |-> None, height |-> -1, hash |-> None,
   symbol |-> None, list |-> <<>>, coins |-> <<>>]

Waits(at)  == request.at = at /\ pc # "exited"
Becomes(r) == request' = r /\ UNCHANGED vars

(* An error is an answer without data.                                     *)
Fails == Becomes(NoRequest)

-----------------------------------------------------------------------------
(* The block a request means: its index before its hash.  An index of 0 is *)
(* falsy and counts as none.                                               *)
GivesIndex(id) == id.index \notin {None, 0}
GivesHash(id)  == ~GivesIndex(id) /\ id.hash # None

AskByIndex(a, id) ==
  /\ Waits("nothing") /\ GivesIndex(id) /\ id.index <= lastBlockSymbol
  /\ Becomes([NoRequest EXCEPT !.at = "blockHash", !.address = a, !.id = id,
                               !.height = id.index])

AskByHash(a, id) ==
  /\ Waits("nothing") /\ GivesHash(id)
  /\ Becomes([NoRequest EXCEPT !.at = "blockSymbol", !.address = a, !.id = id,
                               !.hash = id.hash])

(* Without a block it is the last one, as far as the worker has got.       *)
AskLatest(a, id) ==
  /\ Waits("nothing") /\ ~GivesIndex(id) /\ ~GivesHash(id)
  /\ Becomes([NoRequest EXCEPT !.at = "address", !.address = a, !.id = id,
                               !.height = lastBlockSymbol, !.hash = bestBlockHash.hash])

(* FAULTY: the symbol of any block is taken for the one asked for.          *)
FaultyReadBlockHash ==
  /\ Waits("blockHash")
  /\ IF DbHeight >= 0
     THEN Becomes([request EXCEPT !.at = "address", !.hash = db["sym-block"][DbHeight]])
     ELSE Fails

ReadBlockHash ==
  /\ Waits("blockHash")
  /\ IF request.height \in DOMAIN db["sym-block"]
     THEN Becomes([request EXCEPT !.at = "address", !.hash = db["sym-block"][request.height]])
     ELSE Fails

ReadBlockSymbol ==
  /\ Waits("blockSymbol")
  /\ IF BlockSymbol(request.hash) # None
     THEN Becomes([request EXCEPT !.at = "address", !.height = BlockSymbol(request.hash)])
     ELSE Fails

-----------------------------------------------------------------------------
(* The address's symbol: an address nobody has named gets a name.          *)
FindAddress ==
  /\ Waits("address") /\ AddressSymbol(request.address) # None
  /\ Becomes([request EXCEPT !.at = "list", !.symbol = AddressSymbol(request.address)])

MissAccount ==
  /\ Waits("address")
  /\ LookupMiss(request.address)
  /\ request' = [request EXCEPT !.at = "name"]

(* FAULTY: the request names the address and stays where it was.            *)
FaultyNameAccount ==
  /\ Waits("name")
  /\ LookupName(request.address)
  /\ request' = [request EXCEPT !.symbol = NewAddressSymbol]

NameAccount ==
  /\ Waits("name")
  /\ LookupName(request.address)
  /\ request' = [request EXCEPT !.at = "list", !.symbol = NewAddressSymbol]

ReadList ==
  /\ Waits("list")
  /\ IF request.symbol \in DOMAIN db["address-utxos"]
     THEN Becomes([request EXCEPT !.at = "utxos", !.list = UtxoList(request.symbol).coins])
     ELSE Fails

-----------------------------------------------------------------------------
(* The records, one await each; a coin also needs its transaction's hash.  *)
NextCoin == Head(request.list)

MissRecord ==
  /\ Waits("utxos") /\ request.list # <<>>
  /\ NextCoin \notin DOMAIN db["utxo"]
  /\ Fails

SkipRecord ==
  /\ Waits("utxos") /\ request.list # <<>>
  /\ NextCoin \in DOMAIN db["utxo"] /\ ~Unspent(db["utxo"][NextCoin], request.height)
  /\ Becomes([request EXCEPT !.list = Tail(@)])

TakeRecord ==
  /\ Waits("utxos") /\ request.list # <<>>
  /\ NextCoin \in DOMAIN db["utxo"] /\ Unspent(db["utxo"][NextCoin], request.height)
  /\ Becomes([request EXCEPT !.at = "txHash"])

ReadTxHash ==
  /\ Waits("txHash")
  /\ IF NextCoin[1] \in DOMAIN db["sym-tx"]
     THEN Becomes([request EXCEPT !.at = "utxos", !.list = Tail(@),
                    !.coins = Append(@, <<db["sym-tx"][NextCoin[1]], NextCoin[2]>>)])
     ELSE Fails

(* The answer carries its coins and the block they are said to be as of.   *)
AnswerCoins ==
  /\ Waits("utxos") /\ request.list = <<>> /\ request.hash # None
  /\ Becomes([request EXCEPT !.at = "answered"])

(* Asked for before there was any block, it has no hash; the node has none *)
(* for height -1 either.                                                   *)
LackBlockHash ==
  /\ Waits("utxos") /\ request.list = <<>> /\ request.hash = None
  /\ Fails

Served == Waits("answered") /\ Becomes(NoRequest)

-----------------------------------------------------------------------------
AccountInit == Init /\ request = NoRequest

AccountRequest ==
  \/ \E a \in QueryAddr, id \in QueryBlocks :
       AskByIndex(a, id) \/ AskByHash(a, id) \/ AskLatest(a, id)
  \/ ReadBlockHash \/ ReadBlockSymbol
  \/ FindAddress \/ MissAccount \/ NameAccount \/ ReadList
  \/ MissRecord \/ SkipRecord \/ TakeRecord \/ ReadTxHash
  \/ AnswerCoins \/ LackBlockHash \/ Served

AccountNext ==
  \/ AccountRequest
  \/ (Worker \/ SaveState \/ Syncer) /\ UNCHANGED request
  \/ (Crash \/ Restart) /\ request' = NoRequest

AccountSpec == AccountInit /\ [][AccountNext]_accountVars

OrderlyAccountSpec == AccountInit /\ [][AccountNext /\ Orderly]_accountVars

-----------------------------------------------------------------------------
Answered == request.at = "answered"

GivesBlock(id) == GivesIndex(id) \/ GivesHash(id)

NamesItsBlock ==
  /\ request.height = Height[request.hash]
  /\ GivesIndex(request.id) => request.height = request.id.index
  /\ GivesHash(request.id) => request.hash = request.id.hash

MatchesItsBlock ==
  /\ NamesItsBlock
  /\ IsSetOf(request.coins, CoinsOf(Branch[request.hash], request.address))

(* An answer to a request for a block is about that block, and its hash and *)
(* its height belong together, though one was asked for and the other read *)
(* while the block could be removed, replaced or flushed.                  *)
AnswersNameTheirBlock == Answered /\ GivesBlock(request.id) => NamesItsBlock

(* It also lists exactly the coins the ledger gives the address on that     *)
(* block's chain, each once: although label, list and records were read    *)
(* one by one, while blocks above were indexed, flushed, removed and       *)
(* replaced, symbols were handed on to other transactions, and outputs     *)
(* were spent and spent no more.                                           *)
AnswersMatchTheirBlock == Answered /\ GivesBlock(request.id) => MatchesItsBlock

(* So does the answer to a request that names no block, for the block it   *)
(* says it is as of; and a request for block 0 is answered as of block 0.  *)
LatestAnswersMatchTheirBlock ==
  Answered /\ ~GivesBlock(request.id) =>
    MatchesItsBlock /\ (request.id.index # None => request.height = request.id.index)

(* A request's locals keep their shapes, and it is about to name an address *)
(* exactly while the lookup it awaits is open.                             *)
RequestTypeOK ==
  /\ request.at \in {"nothing", "blockHash", "blockSymbol", "address", "name", "list",
                     "utxos", "txHash", "answered"}
  /\ request.address \in Addr \cup {NoAddr}
  /\ request.id \in QueryBlocks \cup {None}
  /\ request.height \in Nat \cup {-1} /\ request.hash \in OrNone(Block)
  /\ request.symbol \in OrNone(Nat)
  /\ request.list \in Seq(UtxoKey)
  /\ request.coins \in Seq(Outpoint)
  /\ request.at = "name" <=> lookups # {}
=============================================================================
