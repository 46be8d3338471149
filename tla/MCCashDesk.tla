----------------------------- MODULE MCCashDesk -----------------------------
(***************************************************************************)
(* Small instances of CashDesk: a till, the shop's reserve and a bank.     *)
(***************************************************************************)
EXTENDS CashDesk, TLC

CONSTANTS till, reserve

(* The till comes first in the order of ids.                               *)
ByName == [a \in Accounts |-> IF a = till THEN 0 ELSE IF a = reserve THEN 1 ELSE 2]
FullOpening == [a \in Accounts |-> 4]

CONSTANTS asha, ravi

Bounded(alone, beside, users, amounts, counts, until) ==
    [alone |-> alone, beside |-> beside, users |-> users, amounts |-> amounts,
     counts |-> counts, until |-> until]

(* One call at a time with two operators; any two calls, closings at once, *)
(* and spending without closing, with counts above what the ledger holds.  *)
Shifts   == Bounded(Kinds, {}, {asha, ravi}, {1}, {2, 4}, 5)
AnyTwo   == Bounded({}, Kinds, {asha}, {3}, {0, 6}, 4)
Closings == Bounded({"open"}, {"close"}, {asha}, {3}, {0, 6}, 5)
Spending == Bounded({}, {"open", "transfer"}, {asha}, {3}, {0, 6}, 4)
Openings == Bounded({}, {"open"}, {asha, ravi}, {1}, {2}, 3)

Desks == {Shifts, AnyTwo, Closings, Spending}
OpeningsOnly == {Openings}

Symmetric == Permutations(Requests)
=============================================================================
