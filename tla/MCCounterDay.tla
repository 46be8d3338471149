---------------------------- MODULE MCCounterDay -----------------------------
(***************************************************************************)
(* Small instances of CounterDay. Balances are small enough for a payout   *)
(* or a correction to be refused; rates give commissions that round.       *)
(***************************************************************************)
EXTENDS CounterReports

CONSTANTS none, r1, r2

MCOpening == [cash |-> 60, bank |-> 60, wallet |-> 20, card |-> -20]

Nothing == [
    swipes |-> {}, quicks |-> {}, services |-> {}, transfers |-> {}, aeps |-> {}, micros |-> {},
    internals |-> {}, atms |-> {}, cardPayments |-> {}, accountEntries |-> {}, expenses |-> {},
    customerEntries |-> {}, entryEdits |-> {},
    submissions |-> {}, receipts |-> {}, lateFees |-> {}, edits |-> {}, completions |-> {},
    amounts |-> {}, accounts |-> {}, reversing |-> {}, deleting |-> {}, later |-> {},
    entries |-> 2, rows |-> 5, racing |-> FALSE, days |-> FALSE]

Paid(from, amount) == [from |-> from, amount |-> amount, charge |-> 0]
Swipe(mode, into, settledNow, payments) ==
    [amount |-> 50, rate |-> 1, feeRate |-> 3, mode |-> mode, into |-> into,
     settledNow |-> settledNow, payments |-> payments]

SwipeLoad == [Nothing EXCEPT
    !.swipes = {Swipe("DEDUCT", "none", FALSE, << >>),
                Swipe("DEDUCT", "none", TRUE, <<Paid("cash", 30)>>),
                Swipe("DEDUCT", "none", TRUE, << >>),
                Swipe("SEPARATE", "cash", FALSE, <<Paid("wallet", 10), Paid("wallet", 10)>>)},
    !.receipts = {[amount |-> 20, account |-> "bank"]},
    !.later = {"fee", "correct"}, !.accounts = {"cash"}, !.amounts = {30, 90},
    !.reversing = {"CARD_SWIPE", "PROVIDER_SETTLEMENT", "CUSTOMER_PAYOUT",
                   "CARD_SWIPE_COMMISSION_RECEIPT"},
    !.deleting = {"CARD_SWIPE"}, !.rows = 6]

Entry(direction, via, commission, cashPart, successful) ==
    [direction |-> direction, via |-> via, amount |-> 30, commission |-> commission,
     cashPart |-> cashPart, successful |-> successful]
From(account, amount, charge) == [from |-> account, amount |-> amount, charge |-> charge]
Through(sources, into, provider) == [sources |-> sources, into |-> into, provider |-> provider]

InLoad == [Nothing EXCEPT
    !.quicks = {Entry("IN", "BANK", 3, 1, TRUE), Entry("IN", "UPI", 2, 2, TRUE)},
    !.completions = {Through(<<From("bank", 30, NotGiven)>>, "none", NotGiven),
                     Through(<<From("bank", 12, 1), From("wallet", 18, NotGiven)>>, "bank", NotGiven)},
    !.later = {"complete", "correct"}, !.amounts = {19},
    !.reversing = {"QUICK_CASH", "COMPLETION"}, !.entries = 1, !.rows = 8]

OutLoad == [Nothing EXCEPT
    !.quicks = {Entry("OUT", "MICRO_ATM", 2, 0, TRUE), Entry("OUT", "AEPS", 0, 0, TRUE),
                Entry("OUT", "AEPS", 0, 0, FALSE)},
    !.completions = {Through(<<From("wallet", 30, NotGiven)>>, "bank", NotGiven),
                     Through(<<From("wallet", 30, NotGiven)>>, "bank", 4)},
    !.lateFees = {[amount |-> 5, account |-> "cash"]},
    !.later = {"complete", "correct"}, !.amounts = {20},
    !.reversing = {"QUICK_CASH", "COMPLETION", "LATE_FEE"}, !.entries = 1, !.rows = 8]

ServiceLoad == [Nothing EXCEPT
    !.services = {[amount |-> 30, into |-> "cash", partner |-> TRUE, timing |-> timing,
                   from |-> "bank", charge |-> 20] : timing \in {"PAID_NOW", "PAY_LATER"}}
        \cup {[amount |-> 30, into |-> "bank", partner |-> FALSE, timing |-> "none",
               from |-> "none", charge |-> 0]},
    !.later = {"partner", "correct"}, !.amounts = {40}, !.accounts = {"bank", "wallet"},
    !.reversing = {"SERVICE_INCOME"}, !.entries = 1, !.rows = 5, !.days = TRUE]

Transfer(requested, fixed, rate, addOn, receipts, from, charge) ==
    [requested |-> requested, fixed |-> fixed, rate |-> rate, addOn |-> addOn,
     receipts |-> receipts, from |-> from, charge |-> charge]

OwnLoad == [Nothing EXCEPT
    !.transfers = {Transfer(30, TRUE, 3, TRUE, << <<"cash", 20>>, <<"bank", 13>> >>, "bank", 1),
                   Transfer(30, FALSE, 5, FALSE, << <<"cash", 30>> >>, "card", 0),
                   Transfer(15, FALSE, 5, FALSE, << <<"bank", 7>>, <<"cash", 8>> >>, "wallet", 0)},
    !.internals = {[from |-> "wallet", to |-> "bank", amount |-> 15, charge |-> 0],
                   [from |-> "bank", to |-> "cash", amount |-> 50, charge |-> 1]},
    !.atms = {[amount |-> 40, charge |-> 2]},
    !.cardPayments = {[from |-> "wallet", amount |-> 15]},
    !.accountEntries = {[kind |-> "LOAN_REPAYMENT", amount |-> 50]},
    !.later = {"correct"}, !.amounts = {18, 47},
    !.reversing = {"CASH_TRANSFER", "INTERNAL_TRANSFER", "ATM_WITHDRAWAL", "OWNER_CC_PAYMENT",
                   "ACCOUNT_ENTRY"},
    !.rows = 6]

Withdraw(rate, addOn, payNow, settled, successful) ==
    [amount |-> 30, rate |-> rate, addOn |-> addOn, platform |-> 1, reward |-> 1,
     payNow |-> payNow, settled |-> settled, successful |-> successful]

AepsLoad == [Nothing EXCEPT
    !.aeps = {Withdraw(5, TRUE, TRUE, "apart", TRUE), Withdraw(5, FALSE, FALSE, "no", TRUE),
              Withdraw(0, FALSE, TRUE, "one", FALSE)},
    !.micros = {[amount |-> 50, rate |-> 1, settledNow |-> FALSE]},
    !.receipts = {[amount |-> 20, account |-> "wallet"]},
    !.later = {"correct"}, !.amounts = {25},
    !.reversing = {"AEPS_WITHDRAWAL", "MICRO_ATM", "PROVIDER_SETTLEMENT"},
    !.rows = 6]

DateLoad == [Nothing EXCEPT
    !.aeps = {Withdraw(5, FALSE, FALSE, "no", TRUE)},
    !.quicks = {Entry("IN", "BANK", 3, 1, TRUE)},
    !.completions = {Through(<<From("bank", 30, NotGiven)>>, "none", NotGiven)},
    !.later = {"move", "complete"}, !.reversing = {"AEPS_WITHDRAWAL"},
    !.entries = 1, !.rows = 2, !.days = TRUE]

ExpenseLoad == [Nothing EXCEPT
    !.expenses = {[amount |-> 12, account |-> account] : account \in {"none", "wallet"}}
        \cup {[amount |-> 50, account |-> "cash"]},
    !.edits = {[amount |-> amount, account |-> account] :
                  amount \in {12, 19}, account \in {"none", "cash", "wallet", "card"}},
    !.accounts = {"bank", "card"}, !.later = {"payExpense"},
    !.reversing = {"EXPENSE"}, !.deleting = {"EXPENSE"},
    !.entries = 1, !.rows = 2, !.days = TRUE]

PayIn(amount, account) == [direction |-> "PAY_IN", amount |-> amount, account |-> account]
PayOut(amount, account) == [direction |-> "PAY_OUT", amount |-> amount, account |-> account]
Shared(e, receivable) == e @@ [receivable |-> receivable, payable |-> e.amount - receivable]

EditLoad == [Nothing EXCEPT
    !.customerEntries = {PayIn(30, "cash"), PayOut(18, "wallet")},
    !.entryEdits = {Shared(PayIn(30, "bank"), 0), Shared(PayIn(12, "cash"), 12),
                    Shared(PayOut(50, "cash"), 2), Shared(PayOut(18, "wallet"), 0)},
    !.reversing = {"CUSTOMER_LEDGER_ENTRY"}, !.entries = 1, !.rows = 2, !.days = TRUE]

CreditLoad == [Nothing EXCEPT
    !.swipes = {Swipe("DEDUCT", "none", TRUE, <<Paid("cash", 30)>>)},
    !.customerEntries = {PayIn(30, "cash"), PayOut(50, "bank")},
    !.entryEdits = {Shared(PayIn(30, "cash"), 30), Shared(PayOut(50, "bank"), 50),
                    Shared(PayOut(16, "wallet"), 2)},
    !.reversing = {"CUSTOMER_LEDGER_ENTRY"}, !.entries = 3, !.rows = 6]

(* The same entry from one client with a key and from two without.         *)
RetryLoad == [Nothing EXCEPT
    !.submissions = {[id |-> id, keyed |-> id = 1, entry |-> Entry("IN", "BANK", 3, 1, TRUE)] : id \in 1 .. 3},
    !.reversing = {"QUICK_CASH"}, !.rows = 4, !.racing = TRUE]

CounterLoads == {SwipeLoad, InLoad, OutLoad, ServiceLoad, OwnLoad, AepsLoad, DateLoad, ExpenseLoad, EditLoad, CreditLoad, RetryLoad}
Symmetric == Permutations(Requests)

(* Requests that run between the steps of others.                          *)
RaceLoad == [InLoad EXCEPT !.quicks = {Entry("IN", "BANK", 3, 1, TRUE)}, !.later = {"complete"},
                           !.entries = 1, !.rows = 6, !.racing = TRUE]
AddOnLoad == [AepsLoad EXCEPT !.aeps = {Withdraw(5, addOn, TRUE, "no", TRUE) : addOn \in BOOLEAN},
                              !.micros = {}, !.entries = 1]

(* Payouts of up to two parts, and of a part beyond the payout.            *)
MCSplits == [fee : 0 .. 4, payout : 1 .. 5, parts : UNION {[1 .. n -> 0 .. 3] : n \in 1 .. 2}]

Races == {RaceLoad}
AddOns == {AddOnLoad}
=============================================================================
