---------------------------- MODULE Construction ----------------------------
(***************************************************************************)
(* The construction service (src/services/ConstructionService.js): a       *)
(* client turns operations into a transaction through one handler after    *)
(* the other, and carries what each of them answers to the next, while     *)
(* outputs are paid and spent by others.  A key is named by the address    *)
(* derived from it; a transaction is what it spends, what it pays and the  *)
(* scripts of its inputs; a hash is what it is taken of.                   *)
(***************************************************************************)
EXTENDS Integers, Sequences, FiniteSets, FiniteSetsExt

(* Of sequences: the last element, what comes before it, and all in reverse. *)
Last(s)  == s[Len(s)]
Front(s) == SubSeq(s, 1, Len(s) - 1)
Reversed(s) == [i \in DOMAIN s |-> s[Len(s) + 1 - i]]

CONSTANTS
  Account,    \* addresses
  Output,     \* transaction outputs that pay one of them
  Owner,      \* [Output -> Account]
  Sats,       \* [Output -> Nat \ {0}]
  Transfers   \* the operations of a transfer: sequences of [account, amount]

ASSUME OutputTypes == Owner \in [Output -> Account] /\ Sats \in [Output -> Nat \ {0}]
ASSUME TransferTypes == Transfers \subseteq Seq([account : Account, amount : Int])

VARIABLES
  listed,     \* what the index lists of every address, the oldest first
  spent,      \* outputs spent on the chain or in the node's pool
  at,         \* the next call the client makes, or how the transfer ended
  operations, \* of the transfer
  required,   \* required_balances of /construction/preprocess
  metadata,   \* relevant_inputs and change of /construction/metadata
  unsigned,   \* unsigned_transaction of /construction/payloads
  payloads,   \* and its payloads
  signatures, \* the client's
  signed      \* signed_transaction of /construction/combine

chain == <<listed, spent>>
vars == <<chain, at, operations, required, metadata, unsigned, payloads, signatures, signed>>

-----------------------------------------------------------------------------
Debits(ops) == {i \in DOMAIN ops : ops[i].amount < 0}
Total(amounts) == MapThenSumSet(LAMBDA i : amounts[i], DOMAIN amounts)

(* /construction/preprocess: what each account has to give, in the order   *)
(* the operations first debit them.                                        *)
FirstDebits(ops) ==
  {i \in Debits(ops) : \A j \in Debits(ops) : ops[j].account = ops[i].account => i <= j}

DebitOf(ops, account) ==
  Total([i \in {j \in Debits(ops) : ops[j].account = account} |-> -ops[i].amount])

(* FAULTY: of two debits the later one counts.                              *)
FaultyNeeds(ops, i) ==
  [account |-> ops[i].account,
   sats    |-> -ops[Max({j \in Debits(ops) : ops[j].account = ops[i].account})].amount]

Needs(ops, i) == [account |-> ops[i].account, sats |-> DebitOf(ops, ops[i].account)]

(* Some of the operations, in their order.                                 *)
InOrder(S) ==
  [n \in 1 .. Cardinality(S) |-> CHOOSE i \in S : Cardinality({j \in S : j <= i}) = n]

RequiredBalances(ops) ==
  LET order == InOrder(FirstDebits(ops))
  IN [n \in DOMAIN order |-> Needs(ops, order[n])]

(* /construction/metadata: the outputs of an account, spent ones too, of    *)
(* which it takes as many as it needs.  getAccountUtxos reads the list and  *)
(* then record after record; the first one it misses ends the reading, and *)
(* the answer is what it has read, the latest first.                       *)
AccountUtxos(account) ==
  {Reversed(SubSeq(listed[account], 1, n)) : n \in 0 .. Len(listed[account])}

Worth(outputs, n) == Total([i \in 1 .. n |-> Sats[outputs[i]]])

(* FAULTY: an output too many when they are worth just enough.              *)
GreedyEnough(outputs, n, sats) == Worth(outputs, n) > sats

(* FAULTY: an output too few when that leaves a single unit missing.        *)
FaultyEnough(outputs, n, sats) == Worth(outputs, n) >= sats - 1

Enough(outputs, n, sats) == Worth(outputs, n) >= sats

RelevantInputs(outputs, n, account) ==
  [i \in 1 .. n |-> [output |-> outputs[i], address |-> account, satoshis |-> Sats[outputs[i]]]]

(* /construction/payloads: every operation that is no debit is an output.  *)
Credits(ops) ==
  LET order == InOrder(DOMAIN ops \ Debits(ops))
  IN [n \in DOMAIN order |-> ops[order[n]]]

Spends(inputs) == [i \in DOMAIN inputs |-> inputs[i].output]

(* The hash a signature is for: of all a transaction spends and pays, seen *)
(* from one of its inputs.                                                 *)
SigHash(i, ins, outs) == [input |-> i, ins |-> ins, outs |-> outs]

(* The payload of an input is hashed as soon as that input is added.       *)
Payloads(inputs, outs) ==
  [i \in DOMAIN inputs |->
     [address |-> inputs[i].address,
      hash    |-> SigHash(i, SubSeq(Spends(inputs), 1, i), outs)]]

(* FAULTY: amounts and addresses of the inputs are put in front.            *)
FaultyUnsignedTransaction(inputs, outs) ==
  [ins             |-> Spends(inputs),
   outs            |-> outs,
   input_amounts   |-> Reversed([i \in DOMAIN inputs |-> inputs[i].satoshis]),
   input_addresses |-> Reversed([i \in DOMAIN inputs |-> inputs[i].address])]

UnsignedTransaction(inputs, outs) ==
  [ins             |-> Spends(inputs),
   outs            |-> outs,
   input_amounts   |-> [i \in DOMAIN inputs |-> inputs[i].satoshis],
   input_addresses |-> [i \in DOMAIN inputs |-> inputs[i].address]]

(* FAULTY: the first signature is put into every input.                     *)
FaultyScripts(sigs) == [i \in DOMAIN sigs |-> sigs[1]]

(* /construction/combine: an input's script is its signature and key.      *)
Scripts(sigs) == [i \in DOMAIN sigs |-> sigs[i]]

(* /construction/parse.                                                    *)
Shown(address, amount) == [account |-> address, amount |-> amount]

ParseUnsigned(tx) ==
  [i \in DOMAIN tx.ins |-> Shown(tx.input_addresses[i], -tx.input_amounts[i])] \o tx.outs

ParseSigned(tx) ==
  [i \in DOMAIN tx.ins |-> Shown(tx.scripts[i].key, -tx.input_amounts[i])] \o tx.outs

-----------------------------------------------------------------------------
(* What happens meanwhile (external): an output is paid, and indexed; a     *)
(* reorg takes it back, with whatever spends it; or somebody spends it.    *)
Paid == UNION {{listed[a][i] : i \in DOMAIN listed[a]} : a \in Account}

OthersPay(o) ==
  /\ o \notin Paid
  /\ listed' = [listed EXCEPT ![Owner[o]] = Append(@, o)]
  /\ UNCHANGED <<spent, at, operations, required, metadata, unsigned, payloads, signatures, signed>>

Unpaid(o) ==
  /\ listed[Owner[o]] # <<>> /\ Last(listed[Owner[o]]) = o
  /\ listed' = [listed EXCEPT ![Owner[o]] = Front(@)]
  /\ spent' = spent \ {o}
  /\ UNCHANGED <<at, operations, required, metadata, unsigned, payloads, signatures, signed>>

OthersSpend(o) ==
  /\ o \in Paid \ spent
  /\ spent' = spent \cup {o}
  /\ UNCHANGED <<listed, at, operations, required, metadata, unsigned, payloads, signatures, signed>>

-----------------------------------------------------------------------------
NoMetadata    == [relevant_inputs |-> <<>>, change |-> 0, collected |-> 0]
NoTransaction == [ins |-> <<>>, outs |-> <<>>, input_amounts |-> <<>>, input_addresses |-> <<>>]
NotSigned     == [ins |-> <<>>, outs |-> <<>>, input_amounts |-> <<>>, scripts |-> <<>>]

Ended == {"error", "accepted", "refused"}

Fails ==
  /\ at' = "error"
  /\ UNCHANGED <<chain, operations, required, metadata, unsigned, payloads, signatures, signed>>

(* A client begins a transfer.                                             *)
Begin(ops) ==
  /\ at \in Ended
  /\ at' = "preprocess" /\ operations' = ops
  /\ required' = <<>> /\ metadata' = NoMetadata
  /\ unsigned' = NoTransaction /\ payloads' = <<>>
  /\ signatures' = <<>> /\ signed' = NotSigned
  /\ UNCHANGED chain

(* With what it needs a client asks for metadata; an offline one may not.  *)
Preprocess ==
  /\ at = "preprocess"
  /\ required' = RequiredBalances(operations)
  /\ at' \in {"metadata", "payloads"}
  /\ UNCHANGED <<chain, operations, metadata, unsigned, payloads, signatures, signed>>

ExpectsAccounts == at = "metadata" /\ required = <<>> /\ Fails

(* Account by account, with an await for each one's outputs.               *)
Need == required[metadata.collected + 1]
Wanted(outputs) == {n \in 0 .. Len(outputs) : Enough(outputs, n, Need.sats)}

Collect(outputs) ==
  LET n == Min(Wanted(outputs)) IN
    /\ Wanted(outputs) # {}
    /\ metadata' = [relevant_inputs |-> metadata.relevant_inputs
                                          \o RelevantInputs(outputs, n, Need.account),
                    change          |-> metadata.change + Worth(outputs, n) - Need.sats,
                    collected       |-> metadata.collected + 1]
    /\ at' = IF metadata'.collected = Len(required) THEN "payloads" ELSE "metadata"
    /\ UNCHANGED <<chain, operations, required, unsigned, payloads, signatures, signed>>

CollectInputs ==
  /\ at = "metadata" /\ required # <<>>
  /\ \E outputs \in AccountUtxos(Need.account) : Collect(outputs)

InsufficientBalance ==
  /\ at = "metadata" /\ required # <<>>
  /\ \E outputs \in AccountUtxos(Need.account) : Wanted(outputs) = {}
  /\ Fails

ExpectsInputs == at = "payloads" /\ metadata.relevant_inputs = <<>> /\ Fails

MakePayloads ==
  LET inputs == metadata.relevant_inputs
      outs   == Credits(operations)
  IN
    /\ at = "payloads" /\ inputs # <<>>
    /\ unsigned' = UnsignedTransaction(inputs, outs)
    /\ payloads' = Payloads(inputs, outs)
    /\ at' = "sign"
    /\ UNCHANGED <<chain, operations, required, metadata, signatures, signed>>

(* The client signs (external), perhaps with other keys than the payloads  *)
(* name, or one payload too few.                                           *)
Sign(n, key) ==
  /\ at = "sign" /\ n \in {Len(payloads), Len(payloads) - 1}
  /\ signatures' = [i \in 1 .. n |-> [hash |-> payloads[i].hash, key |-> key[payloads[i].address]]]
  /\ at' = "combine"
  /\ UNCHANGED <<chain, operations, required, metadata, unsigned, payloads, signed>>

Mismatch == at = "combine" /\ Len(signatures) # Len(unsigned.ins) /\ Fails

(* FAULTY: nobody counts the signatures.                                    *)
FaultyCombine ==
  /\ at = "combine"
  /\ signed' = [ins |-> unsigned.ins, outs |-> unsigned.outs,
                input_amounts |-> unsigned.input_amounts, scripts |-> Scripts(signatures)]
  /\ at' = "submit"
  /\ UNCHANGED <<chain, operations, required, metadata, unsigned, payloads, signatures>>

Combine ==
  /\ at = "combine" /\ Len(signatures) = Len(unsigned.ins)
  /\ signed' = [ins |-> unsigned.ins, outs |-> unsigned.outs,
                input_amounts |-> unsigned.input_amounts, scripts |-> Scripts(signatures)]
  /\ at' = "submit"
  /\ UNCHANGED <<chain, operations, required, metadata, unsigned, payloads, signatures>>

(* The node (external) takes only a transaction that spends outputs there   *)
(* are and nobody has spent, that their owners signed as it stands, and     *)
(* that pays no more than they are worth.  It may refuse any: its rules on *)
(* fees, dust and maturity are its own.                                    *)
Signs(tx, i) ==
  tx.scripts[i] = [hash |-> SigHash(i, tx.ins, tx.outs), key |-> Owner[tx.ins[i]]]

Acceptable(tx) ==
  /\ \A i \in DOMAIN tx.ins : tx.ins[i] \in Paid \ spent /\ Signs(tx, i)
  /\ tx.outs # <<>>
  /\ Total([i \in DOMAIN tx.ins |-> Sats[tx.ins[i]]])
       >= Total([i \in DOMAIN tx.outs |-> tx.outs[i].amount])

Submit ==
  /\ at = "submit"
  /\ \/ /\ Acceptable(signed) /\ at' = "accepted"
        /\ spent' = spent \cup {signed.ins[i] : i \in DOMAIN signed.ins}
     \/ at' = "refused" /\ UNCHANGED spent
  /\ UNCHANGED <<listed, operations, required, metadata, unsigned, payloads, signatures, signed>>

Init ==
  /\ listed = [a \in Account |-> <<>>] /\ spent = {}
  /\ at = "error" /\ operations = <<>>
  /\ required = <<>> /\ metadata = NoMetadata
  /\ unsigned = NoTransaction /\ payloads = <<>>
  /\ signatures = <<>> /\ signed = NotSigned

Next ==
  \/ \E o \in Output : OthersPay(o) \/ Unpaid(o) \/ OthersSpend(o)
  \/ \E ops \in Transfers : Begin(ops)
  \/ Preprocess \/ ExpectsAccounts \/ CollectInputs \/ InsufficientBalance
  \/ ExpectsInputs \/ MakePayloads
  \/ \E n \in 0 .. Len(payloads), key \in [Account -> Account] : Sign(n, key)
  \/ Mismatch \/ Combine \/ Submit

Spec == Init /\ [][Next]_vars
-----------------------------------------------------------------------------
Input  == [output : Output, address : Account, satoshis : Nat \ {0}]
Posted == [account : Account, amount : Int]
Hash   == [input : Nat, ins : Seq(Output), outs : Seq(Posted)]
Signature == [hash : Hash, key : Account]

(* Every variable keeps its shape, and what is said of inputs, one by one, *)
(* is said of all of them.                                                 *)
ConstructionTypeOK ==
  /\ listed \in [Account -> Seq(Output)]
  /\ spent \subseteq Output
  /\ at \in {"preprocess", "metadata", "payloads", "sign", "combine", "submit"} \cup Ended
  /\ operations \in Seq(Posted)
  /\ required \in Seq([account : Account, sats : Int])
  /\ metadata \in [relevant_inputs : Seq(Input), change : Int, collected : 0 .. Len(required)]
  /\ unsigned \in [ins : Seq(Output), outs : Seq(Posted),
                   input_amounts : Seq(Nat \ {0}), input_addresses : Seq(Account)]
  /\ payloads \in Seq([address : Account, hash : Hash])
  /\ signatures \in Seq(Signature)
  /\ signed \in [ins : Seq(Output), outs : Seq(Posted),
                 input_amounts : Seq(Nat \ {0}), scripts : Seq(Signature)]
  /\ Len(unsigned.ins) = Len(unsigned.input_addresses)
  /\ Len(signed.ins) = Len(signed.scripts)

Collected == metadata.collected > 0 /\ metadata.collected = Len(required)
InputsOf(a) ==
  {i \in DOMAIN metadata.relevant_inputs : metadata.relevant_inputs[i].address = a}
Value(inputs) == Total([i \in inputs |-> metadata.relevant_inputs[i].satoshis])

(* Metadata names, for every account the operations debit, outputs of that *)
(* account, each once, worth as much as all its debits and not one more    *)
(* than that takes; change is what they are worth beyond the debits.       *)
InputsCoverTheDebits ==
  Collected =>
    /\ \A i \in DOMAIN metadata.relevant_inputs :
         LET input == metadata.relevant_inputs[i] IN
           /\ Owner[input.output] = input.address
           /\ \A j \in 1 .. i - 1 : metadata.relevant_inputs[j].output # input.output
    /\ \A a \in Account :
         /\ Value(InputsOf(a)) >= DebitOf(operations, a)
         /\ InputsOf(a) # {} =>
              Value(InputsOf(a) \ {Max(InputsOf(a))}) < DebitOf(operations, a)
    /\ metadata.change = Value(DOMAIN metadata.relevant_inputs)
                           - Total([i \in Debits(operations) |-> -operations[i].amount])

(* The unsigned transaction, parsed, shows what it really spends, each     *)
(* output with its owner and its worth, and then what the operations       *)
(* credit, in their order.                                                 *)
UnsignedShowsTheTransfer ==
  payloads # <<>> =>
    ParseUnsigned(unsigned) =
      [i \in DOMAIN unsigned.ins |-> Shown(Owner[unsigned.ins[i]], -Sats[unsigned.ins[i]])]
        \o Credits(operations)

(* Once signed, the transaction parses to the same operations if and only  *)
(* if every payload was signed with the key of its address: the check a    *)
(* client makes before it submits tells a wrong signer.                    *)
SignedShowsTheSigners ==
  signed # NotSigned =>
    (ParseSigned(signed) = ParseUnsigned(unsigned)
       <=> \A i \in DOMAIN payloads : signatures[i].key = payloads[i].address)

(* A transaction is worth submitting: unless the operations credit more     *)
(* than they debit it pays no more than it spends, and with one input,     *)
(* signed with the key its payload names, it holds that owner's signature  *)
(* of this very transaction.  (Of several inputs only the last one's is:    *)
(* PayloadsAreOfTheTransaction.)                                           *)
SubmittedIsValid ==
  at = "submit" =>
    /\ Total([i \in DOMAIN operations |-> operations[i].amount]) <= 0 =>
         Total([i \in DOMAIN signed.ins |-> Sats[signed.ins[i]]])
           >= Total([i \in DOMAIN signed.outs |-> signed.outs[i].amount])
    /\ Len(signed.ins) = 1 /\ signatures[1].key = payloads[1].address => Signs(signed, 1)

(* What is accepted spends outputs of accounts the operations debit, and   *)
(* of no other, pays what they credit, and leaves the miner what they      *)
(* debit beyond that together with the change metadata announced.          *)
AcceptedPaysTheChangeAsFee ==
  at = "accepted" =>
    /\ \A i \in DOMAIN signed.ins : DebitOf(operations, Owner[signed.ins[i]]) > 0
    /\ signed.outs = Credits(operations)
    /\ Total([i \in DOMAIN signed.ins |-> Sats[signed.ins[i]]])
         - Total([i \in DOMAIN signed.outs |-> signed.outs[i].amount])
       = metadata.change - Total([i \in DOMAIN operations |-> operations[i].amount])

(* /construction/payloads: what is signed is the transaction it returns.   *)
PayloadsAreOfTheTransaction ==
  \A i \in DOMAIN payloads : payloads[i].hash = SigHash(i, unsigned.ins, unsigned.outs)

(* A transfer debits what its operations say: the change is not paid to    *)
(* the miner.                                                              *)
FeeIsWhatIsLeft ==
  at = "accepted" =>
    Total([i \in DOMAIN signed.ins |-> Sats[signed.ins[i]]])
      - Total([i \in DOMAIN signed.outs |-> signed.outs[i].amount])
    = -Total([i \in DOMAIN operations |-> operations[i].amount])

(* Metadata names outputs that can still be spent.                         *)
InputsAreUnspent ==
  [][\A i \in DOMAIN metadata'.relevant_inputs \ DOMAIN metadata.relevant_inputs :
       metadata'.relevant_inputs[i].output \notin spent]_vars
=============================================================================
