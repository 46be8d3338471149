--------------------------- MODULE MCCustomerDues ---------------------------
(***************************************************************************)
(* Small instances of CustomerDues: two card dues, the older one with the  *)
(* greater id, and a receivable.                                           *)
(***************************************************************************)
EXTENDS CustomerReports, TLC

CONSTANTS c1, c2, d1

IdsAgainstAges == [c \in Cases |-> IF c = c1 THEN 2 ELSE 1]
DueOf == [c \in Cases |-> 2]
FeeOf == [c \in Cases |-> IF c = c1 THEN 1 ELSE 0]
OwingOf == [d \in Debts |-> 2]
CardsOf == [c \in Cases |-> IF c = c1 THEN "card1" ELSE "card2"]
DueLater == [d \in Debts |-> 1]

(* What occurs together: every call one after the other, with Pay Ins on   *)
(* account and without; the calls on one case; receipts at once; the       *)
(* reversal of a receipt beside recoveries; receivables.                   *)
Undone == {"reverseRecovery", "reverseCommission", "reverseAssessment"}
OneByOne == [beside |-> {}, alone |-> Undone \cup
    {"create", "recover", "combined", "commission", "assess", "recoverAll",
     "reverseReceipt", "reverseCase"}]
OnAccount == [beside |-> {}, alone |->
    {"create", "recover", "payin", "reverseRecovery", "reverseReceipt", "reverseCase"}]
OnOneCase == [alone |-> {"create"}, beside |-> Undone \cup {"recover", "commission", "assess"}]
PayingIn == [alone |-> {"create", "recover"}, beside |-> {"combined", "payin"}]
OnAllCases == [alone |-> {}, beside |-> {"create", "recoverAll", "commission", "assess"}]
OnReceipts == [alone |-> {"create", "combined"},
               beside |-> {"recover", "commission", "reverseReceipt"}]
OnPayIns == [alone |-> {"create", "payin", "combined"}, beside |-> {"recover", "reverseReceipt"}]
Lending == [alone |-> {}, beside |-> {"lend", "collect", "cancel", "reverseCollection"}]
Undoing == [alone |-> {"lend", "collect", "reverseDebt", "reverseCollection"}, beside |-> {}]

AllWorkloads == {OneByOne, OnAccount, OnOneCase, PayingIn, OnReceipts, OnPayIns, Lending, Undoing}
Racing == {OnAllCases}

Symmetric == Permutations(Requests)
=============================================================================
