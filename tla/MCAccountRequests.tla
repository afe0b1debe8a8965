------------------------- MODULE MCAccountRequests --------------------------
(***************************************************************************)
(* The ledgers of MCIndexer for AccountRequests, and the blocks asked for. *)
(***************************************************************************)
EXTENDS MCIndexer, AccountRequests

(* Blocks that no reorg of the trunk ledger reaches, by index and by hash. *)
BuriedBlocks == {[index |-> 1, hash |-> None], [index |-> None, hash |-> g]}

(* No block at all, and the index that counts as none.                     *)
UnnamedBlocks == {[index |-> None, hash |-> None], [index |-> 0, hash |-> None]}

(* A block on the trunk, by its hash, whether it is stored yet or not.       *)
HashedBlocks == {[index |-> None, hash |-> p]}

MixedBlocks == BuriedBlocks \cup {[index |-> 0, hash |-> None]}
=============================================================================
