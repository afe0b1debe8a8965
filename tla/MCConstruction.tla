--------------------------- MODULE MCConstruction ---------------------------
(***************************************************************************)
(* Two accounts with outputs of different worth, and transfers that debit  *)
(* one or both of them, once or twice, in full or with change left, in     *)
(* balance or not, and more than they have.                                *)
(***************************************************************************)
EXTENDS Construction

CONSTANTS x, y, o1, o2, o3, o4

Accounts == {x, y}
Outputs  == {o1, o2, o3, o4}
Owners   == [o \in Outputs |-> IF o = o4 THEN y ELSE x]
Worths   == [o \in Outputs |-> CASE o = o1 -> 2 [] o = o2 -> 1 [] OTHER -> 3]

Op(a, n) == [account |-> a, amount |-> n]

MCTransfers == {
  <<Op(x, -2), Op(y, 2)>>,
  <<Op(y, 0), Op(x, -3), Op(y, 1), Op(x, 2)>>,
  <<Op(y, 2), Op(x, -1), Op(y, -2), Op(x, -2), Op(x, 2)>>,
  <<Op(x, -1), Op(y, 2)>>,
  <<Op(x, -1), Op(y, 2), Op(x, -1)>>,
  <<Op(y, -4), Op(x, 4)>>,
  <<Op(x, -1)>>,
  <<Op(x, 1)>>}
=============================================================================
