-------------------------- MODULE MCUtxoRequests ---------------------------
(***************************************************************************)
(* The ledgers of MCIndexer for UtxoRequests.  Requests ask for the output *)
(* of s1, which both branches of the fork ledger hold at different heights *)
(* and the straight ledger spends in the block after.                      *)
(***************************************************************************)
EXTENDS MCIndexer, UtxoRequests

(* Every condition on the environment but one.                              *)
UnseenAskingSpec  == AskingInit /\ [][AskingNext /\ InTurn /\ NamesKeepClear]_<<vars, asks>>
RenamedAskingSpec == AskingInit /\ [][AskingNext /\ InTurn /\ OnItsParent]_<<vars, asks>>

PaymentOutputs == {<<s1, 1>>}

(* The fork ledger with s1 the first to pay y: a request may be the one    *)
(* that names it.                                                          *)
FirstPaymentVout ==
  [ForkVout EXCEPT ![ca1] = <<NoAddr>>, ![cb1] = <<x>>, ![cb2] = <<NoAddr>>, ![s1] = <<y>>]

(* The straight blocks with one payment each, to x and then to y, ...       *)
PaymentTxs  == [b \in StraightBlocks |-> CASE b = g -> <<tg>> [] b = a1 -> <<s1>> [] OTHER -> <<s2>>]
PaymentVin  == [t \in StraightTx |-> IF t = s1 THEN <<<<tg, 1>>>> ELSE <<>>]
PaymentVout == [t \in StraightTx |-> CASE t = s1 -> <<x>> [] t = s2 -> <<y>> [] OTHER -> <<NoAddr>>]
BothPayments == {<<s1, 1>>, <<s2, 1>>}

(* ... and the fork with the genesis output spent on either branch.         *)
RivalTxs == [ForkTxs EXCEPT ![a1] = <<s1>>, ![a2] = <<ca2>>, ![b1] = <<cb2>>, ![b2] = <<s2>>]
RivalVin == [t \in AllTx |-> IF t \in {s1, s2} THEN <<<<tg, 1>>>> ELSE <<>>]
RivalVout == [t \in AllTx |-> CASE t = tg -> <<x>> [] t = s1 -> <<y>> [] OTHER -> <<NoAddr>>]
=============================================================================
