------------------------ MODULE MCPayableSettlement ------------------------
(***************************************************************************)
(* Small instances of PayableSettlement for TLC: one swipe or two, and as  *)
(* many requests as it takes to settle, use up and undo them.              *)
(***************************************************************************)
EXTENDS PayableReports, TLC

CONSTANTS p1, bank, drawer, wallet

(* A swipe of 4 of which the shop keeps 1.                                 *)
OneOriginal == [p \in Payables |-> 3]
OneExpected == [p \in Payables |-> 4]

(* A rupee and a half, with four units to the rupee: the payable ends in   *)
(* every fraction of a rupee on its way down to nothing.                   *)
FractionalOriginal == [p \in Payables |-> 6]
FractionalExpected == [p \in Payables |-> 7]

AccountOpening == [a \in Accounts |-> 4]
FullOpening == [a \in Accounts |-> 9]
(* With two swipes, one is due within a week of some day, one later.       *)
DueOf == [p \in Payables |-> IF p = p1 THEN 3 ELSE 12]

NoCharge == [a \in Accounts |-> 0]
WalletCharge == [a \in Accounts |-> IF a = wallet THEN 1 ELSE 0]

Symmetric == Permutations(Requests)
SymmetricSwipes == Permutations(Requests) \cup Permutations(Payables)
=============================================================================
