----------------------------- MODULE MCIndexer ------------------------------
(***************************************************************************)
(* Ledgers and bounds for model checking Indexer.  Each ledger is a small  *)
(* block tree, given as functions a cfg assigns to the ledger's constants. *)
(***************************************************************************)
EXTENDS Indexer

CONSTANTS g, p, a1, a2, b1, b2, b3,      \* blocks: two branches on g, or on p
          tg, ca1, ca2, cb1, cb2, cb3,   \* their coinbase transactions
          s1, s2, s3,                    \* payments
          x, y                           \* addresses

(* One condition on the environment, or every one but one.                  *)
InTurnSpec    == Init /\ [][Next /\ InTurn]_vars
OvertakenSpec == Init /\ [][Next /\ OnItsParent /\ NamesKeepClear]_vars
UnseenSpec    == Init /\ [][Next /\ InTurn /\ NamesKeepClear]_vars
RenamedSpec   == Init /\ [][Next /\ InTurn /\ OnItsParent]_vars

Blocks == {g, a1, a2, b1, b2, b3}
Coinbases == {tg, ca1, ca2, cb1, cb2, cb3}
AllTx == Coinbases \cup {s1, s2}
Addresses == {x, y}

ForkHeight == [b \in Blocks |-> CASE b = g -> 0
                                  [] b \in {a1, b1} -> 1
                                  [] b \in {a2, b2} -> 2
                                  [] OTHER -> 3]
ForkParent == [b \in Blocks |-> CASE b \in {g, a1, b1} -> g
                                  [] b = a2 -> a1
                                  [] b = b2 -> b1
                                  [] OTHER -> b2]

(* The fork ledger: branch a1-a2 against the longer b1-b2-b3.  The payment  *)
(* s1 is mined on both branches, at different heights; s2 spends it on the *)
(* a branch only; every removable block pays an address at most once and   *)
(* spends nothing it created itself.                                       *)
ForkTxs == [b \in Blocks |-> CASE b = g  -> <<tg>>
                               [] b = a1 -> <<ca1, s1>>
                               [] b = a2 -> <<ca2, s2>>
                               [] b = b1 -> <<cb1>>
                               [] b = b2 -> <<cb2, s1>>
                               [] OTHER  -> <<cb3>>]
ForkVin == [t \in AllTx |-> CASE t = s1 -> <<<<tg, 1>>>>
                              [] t = s2 -> <<<<s1, 1>>>>
                              [] OTHER  -> <<>>]
ForkVout == [t \in AllTx |-> CASE t = tg  -> <<x>>
                               [] t = ca1 -> <<y>>
                               [] t = ca2 -> <<NoAddr>>
                               [] t = cb1 -> <<y>>
                               [] t = cb2 -> <<y>>
                               [] t = cb3 -> <<NoAddr>>
                               [] t = s1  -> <<x>>
                               [] t = s2  -> <<y>>]

(* Two variants of the fork ledger for what its blocks avoid: a removable  *)
(* block that pays one address twice, and one that spends its own output.  *)
PaysTwiceVout == [ForkVout EXCEPT ![ca1] = <<y, y>>]
SpendsOwnTxs  == [ForkTxs EXCEPT ![a1] = <<ca1, s1, s2>>, ![a2] = <<ca2>>]

(* The straight ledger: one branch, with blocks that pay an address twice, *)
(* spend two outputs in one transaction and spend what they created.       *)
StraightBlocks == {g, a1, a2}
StraightTx == {tg, ca1, ca2, s1, s2, s3}
StraightHeight == [b \in StraightBlocks |-> CASE b = g -> 0 [] b = a1 -> 1 [] OTHER -> 2]
StraightParent == [b \in StraightBlocks |-> IF b = a2 THEN a1 ELSE g]
StraightTxs == [b \in StraightBlocks |-> CASE b = g  -> <<tg>>
                                           [] b = a1 -> <<ca1, s1>>
                                           [] OTHER  -> <<ca2, s2, s3>>]
StraightVin == [t \in StraightTx |-> CASE t = s1 -> <<<<tg, 1>>, <<tg, 2>>>>
                                       [] t = s2 -> <<<<s1, 1>>>>
                                       [] t = s3 -> <<<<s2, 1>>>>
                                       [] OTHER  -> <<>>]
StraightVout == [t \in StraightTx |-> CASE t = tg -> <<x, x>>
                                        [] t = s1 -> <<y, x, NoAddr>>
                                        [] t = s2 -> <<y, y>>
                                        [] t = s3 -> <<x>>
                                        [] OTHER  -> <<NoAddr>>]

(* The trunk ledger: a block p no reorg reaches, which spends two outputs  *)
(* at once, pays an address twice and spends what it created, and on it    *)
(* two branches; s3 spends one of p's outputs on either branch, at         *)
(* different heights.                                                      *)
TrunkBlocks == {g, p, a1, b1, b2}
TrunkTx == {tg, ca1, cb1, cb2, s1, s2, s3}
TrunkHeight == [b \in TrunkBlocks |-> CASE b = g -> 0
                                        [] b = p -> 1
                                        [] b = b2 -> 3
                                        [] OTHER -> 2]
TrunkParent == [b \in TrunkBlocks |-> CASE b \in {g, p} -> g
                                        [] b = b2 -> b1
                                        [] OTHER -> p]
TrunkTxs == [b \in TrunkBlocks |-> CASE b = g  -> <<tg>>
                                     [] b = p  -> <<s1, s2>>
                                     [] b = a1 -> <<ca1, s3>>
                                     [] b = b1 -> <<cb1>>
                                     [] OTHER  -> <<cb2, s3>>]
TrunkVin == [t \in TrunkTx |-> CASE t = s1 -> <<<<tg, 1>>, <<tg, 2>>>>
                                 [] t = s2 -> <<<<s1, 1>>>>
                                 [] t = s3 -> <<<<s2, 1>>>>
                                 [] OTHER  -> <<>>]
TrunkVout == [t \in TrunkTx |-> CASE t = tg -> <<x, x>>
                                  [] t = s1 -> <<x, y, NoAddr>>
                                  [] t = s2 -> <<x, x>>
                                  [] t = s3 -> <<x>>
                                  [] OTHER  -> <<y>>]
=============================================================================
