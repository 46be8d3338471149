------------------------------- MODULE Entries -------------------------------
(***************************************************************************)
(* The entries that are complete when they are made: cash transfers, AePS  *)
(* and micro ATM withdrawals, transfers between own accounts, ATM          *)
(* withdrawals, card payments and manual account entries; and expenses,    *)
(* which may wait for their payment account and are edited in place.       *)
(***************************************************************************)
EXTENDS Counter

-----------------------------------------------------------------------------
(* Cash transfer: t is [requested, fixed, rate, addOn, receipts, from,     *)
(* charge]; a fixed rate is the commission itself, and the receipts are    *)
(* pairs of an account and an amount.                                      *)

Commission(t) == IF t.fixed THEN t.rate ELSE Percent(t.requested, t.rate)
CashReceived(t) == t.requested + (IF t.addOn THEN Commission(t) ELSE 0)
Sent(t) == t.requested - (IF t.addOn THEN 0 ELSE Commission(t))
TransferCharge(t) == PayoutCharge(t.from, Sent(t), t.charge)

(* What the customer pays into the funding account may fund the transfer.  *)
Funded(b, t) ==
    LET outflow == Sent(t) + TransferCharge(t)
        into    == Sum(Only(t.receipts, t.from))
    IN  IF t.from = "card" THEN CreditCapacity(b, outflow)
        ELSE Balance(b, t.from) + into >= outflow

CashTransferOK(b, t) ==
    /\ Sum(t.receipts) = CashReceived(t)
    /\ Sent(t) > 0
    /\ t.from \in {"bank", "wallet", "card"}
    /\ Names(t.receipts) \subseteq Receiving
    /\ OpenDeskFor(t.receipts)
    /\ Funded(b, t)

TransferJournal(t) ==
    t.receipts \o NonZero(<<
        <<t.from, -(Sent(t) + TransferCharge(t))>>,
        <<"commission", -Commission(t)>>,
        <<ChargeLedger(t.from), TransferCharge(t)>> >>)

CashTransfer(b, t) == Append(b, Row([kind |-> "CASH_TRANSFER",
    journal |-> TransferJournal(t),
    income |-> NonZero(<< <<"CASH_TRANSFER", Commission(t)>> >>),
    fees |-> NonZero(<< <<"PAYOUT", TransferCharge(t)>> >>),
    info |-> t @@ [type |-> "transfer"]]))

-----------------------------------------------------------------------------
(* AePS withdrawal: a is [amount, rate, addOn, platform, reward, payNow,   *)
(* settled, successful, when]; reward is the provider's commission, and    *)
(* settled "no", "one" or "apart", with the commission in an account of    *)
(* its own. The row is dated as told, its journal posts now.               *)

AepsCommission(a) == Percent(a.amount, a.rate)
Withdrawal(a) == a.amount + (IF a.addOn THEN AepsCommission(a) ELSE 0)
CashGiven(a) == a.amount - (IF a.addOn THEN 0 ELSE AepsCommission(a))
PlatformCharge(a) == Percent(Withdrawal(a), a.platform)
AepsSettlement(a) == Withdrawal(a) - PlatformCharge(a) + a.reward

Apart(a) == a.settled = "apart" /\ AepsCommission(a) > 0

AepsOK(b, a) ==
    /\ CashGiven(a) > 0 /\ AepsSettlement(a) > 0
    /\ a.successful =>
        /\ a.payNow => desk.open /\ SufficientFunds(b, "cash", CashGiven(a))
        /\ Apart(a) => AepsSettlement(a) >= AepsCommission(a)

AepsJournal(a) == NonZero(<<
    <<"clearing", AepsSettlement(a)>>,
    <<IF a.payNow THEN "cash" ELSE "payable", -CashGiven(a)>>,
    <<"charge", PlatformCharge(a)>>,
    <<"commission", -AepsCommission(a)>>,
    <<"commission", -a.reward>> >>)

AepsRow(a) == Row([kind |-> "AEPS_WITHDRAWAL", at |-> a.when,
    journal |-> AepsJournal(a),
    income |-> NonZero(<< <<"AEPS_CUSTOMER", AepsCommission(a)>>, <<"AEPS_PROVIDER", a.reward>> >>),
    fees |-> NonZero(<< <<"PROVIDER", PlatformCharge(a)>> >>),
    due |-> IF a.payNow THEN NoDue
            ELSE [original |-> CashGiven(a), paid |-> 0, remaining |-> CashGiven(a),
                  status |-> "PENDING", at |-> today + 1],
    claim |-> NewClaim(AepsSettlement(a)),
    info |-> a @@ [type |-> "aeps"]])

FailedAeps(a) == Row([kind |-> "AEPS_WITHDRAWAL", at |-> a.when, status |-> "FAILED",
    posted |-> FALSE, info |-> a @@ [type |-> "aeps"]])

AepsReceived(b, i, a) ==
    LET rest == AepsSettlement(a) - AepsCommission(a)
        main == IF rest = 0 THEN b ELSE Receipt(b, i, rest, "wallet")
    IN  IF Apart(a) THEN Receipt(main, i, AepsCommission(a), "bank")
        ELSE Receipt(b, i, AepsSettlement(a), "wallet")

Aeps(b, a) ==
    LET recorded == Append(b, AepsRow(a))
    IN  IF ~a.successful THEN Append(b, FailedAeps(a))
        ELSE IF a.settled = "no" THEN recorded
        ELSE AepsReceived(recorded, Len(recorded), a)

(* Micro ATM: m is [amount, rate, settledNow, when].                       *)
MicroSettlement(m) == m.amount + Percent(m.amount, m.rate)

MicroAtmOK(b, m) == desk.open /\ m.amount > 0 /\ SufficientFunds(b, "cash", m.amount)

MicroAtm(b, m) ==
    LET recorded == Append(b, Row([kind |-> "MICRO_ATM", at |-> m.when,
            journal |-> NonZero(<< <<"clearing", MicroSettlement(m)>>, <<"cash", -m.amount>>,
                <<"commission", -Percent(m.amount, m.rate)>> >>),
            income |-> NonZero(<< <<"MICRO_ATM_PROVIDER", Percent(m.amount, m.rate)>> >>),
            claim |-> NewClaim(MicroSettlement(m)),
            info |-> m @@ [type |-> "micro"]]))
    IN  IF m.settledNow THEN Receipt(recorded, Len(recorded), MicroSettlement(m), "wallet")
        ELSE recorded

-----------------------------------------------------------------------------
(* Own accounts.                                                           *)

InternalOK(b, from, to, amount, charge) ==
    /\ {from, to} \subseteq Assets /\ from # to
    /\ "cash" \in {from, to} => desk.open
    /\ SufficientFunds(b, from, amount + PayoutCharge(from, amount, charge))

Internal(b, from, to, amount, charge) ==
    LET fee == PayoutCharge(from, amount, charge)
    IN  Append(b, Row([kind |-> "INTERNAL_TRANSFER",
            journal |-> NonZero(<< <<to, amount>>, <<ChargeLedger(from), fee>>,
                                   <<from, -(amount + fee)>> >>),
            fees |-> NonZero(<< <<"PAYOUT", fee>> >>),
            info |-> [type |-> "internal", from |-> from, to |-> to,
                      amount |-> amount, charge |-> fee]]))

AtmOK(b, amount, charge) == desk.open /\ SufficientFunds(b, "bank", amount + charge)

Atm(b, amount, charge) == Append(b, Row([kind |-> "ATM_WITHDRAWAL",
    journal |-> NonZero(<< <<"cash", amount>>, <<"atmCharge", charge>>,
                           <<"bank", -(amount + charge)>> >>),
    fees |-> NonZero(<< <<"ATM", charge>> >>),
    info |-> [type |-> "atm", amount |-> amount, charge |-> charge]]))

CardPaymentOK(b, from, amount) ==
    /\ from = "cash" => desk.open
    /\ SufficientFunds(b, from, amount + PayoutCharge(from, amount, 0))
    /\ amount <= Outstanding(b)

CardPayment(b, from, amount) ==
    LET fee == PayoutCharge(from, amount, 0)
    IN  Append(b, Row([kind |-> "OWNER_CC_PAYMENT",
            journal |-> NonZero(<< <<"card", amount>>, <<"charge", fee>>,
                                   <<from, -(amount + fee)>> >>),
            fees |-> NonZero(<< <<"PAYOUT", fee>> >>),
            info |-> [type |-> "card", from |-> from, amount |-> amount]]))

(* The kind of a manual entry decides its direction and its other side.    *)
CounterLedger == [LOAN_RECEIVED |-> "loan", LOAN_REPAYMENT |-> "loan",
    OWNER_FUNDING |-> "owner", OWNER_WITHDRAWAL |-> "owner",
    OTHER_NON_INCOME |-> "adjustment", OTHER_NON_EXPENSE |-> "adjustment"]
Inbound == {"LOAN_RECEIVED", "OWNER_FUNDING", "OTHER_NON_INCOME"}

AccountEntryOK(b, kind, amount) == kind \in Inbound \/ SufficientFunds(b, "bank", amount)

AccountEntry(b, kind, amount, when) ==
    LET change == IF kind \in Inbound THEN amount ELSE -amount
    IN  Append(b, Row([kind |-> "ACCOUNT_ENTRY", at |-> when, on |-> when,
            journal |-> << <<"bank", change>>, <<CounterLedger[kind], -change>> >>,
            info |-> [type |-> "entry", amount |-> amount]]))

-----------------------------------------------------------------------------
(* Expenses: the payment account is one of Accounts, or "none" for later.  *)

ExpenseFee(account, amount) == PayoutCharge(account, amount, 0)

ExpenseLines(account, amount, fee) ==
    IF account = "none" THEN << >>
    ELSE NonZero(<< <<"expense", amount>>, <<"charge", fee>>, <<account, -(amount + fee)>> >>)

ExpenseFees(fee) == NonZero(<< <<"PAYOUT", fee>> >>)

Affordable(b, account, amount) ==
    IF account = "card" THEN CreditCapacity(b, amount) ELSE SufficientFunds(b, account, amount)

ExpenseOK(b, amount, account) ==
    account # "none" =>
        /\ account = "cash" => desk.open
        /\ Affordable(b, account, amount + ExpenseFee(account, amount))

ExpenseRow(amount, account, when) ==
    LET fee == IF account = "none" THEN 0 ELSE ExpenseFee(account, amount)
    IN  Row([kind |-> "EXPENSE", at |-> when, on |-> when,
             status |-> IF account = "none" THEN "PENDING" ELSE "COMPLETED",
             journal |-> ExpenseLines(account, amount, fee), posted |-> account # "none",
             fees |-> ExpenseFees(fee),
             info |-> [type |-> "expense", amount |-> amount, account |-> account,
                       fee |-> fee]])

Expense(b, amount, account, when) == Append(b, ExpenseRow(amount, account, when))

(* A closed drawer's reconciled balance is not touched: the dates involved *)
(* fall into the session that is open.                                     *)
InOpenSession(moments) == desk.open /\ \A m \in moments : m.shift = desk.number

Posted(row) == IF row.posted THEN row.journal ELSE << >>

(* A changed amount or account is priced and checked again; a change of    *)
(* the date alone keeps the fee.                                           *)
EditedFee(row, amount, account) ==
    IF account = "none" THEN 0
    ELSE IF row.info.amount = amount /\ row.info.account = account THEN row.info.fee
    ELSE ExpenseFee(account, amount)

(* What is charged to the new account, net of what it already paid, and    *)
(* what a card is relieved of.                                             *)
EditedExtra(row, amount, account) ==
    amount + EditedFee(row, amount, account)
        - (IF row.info.account = account THEN row.info.amount + row.info.fee ELSE 0)
EditedRelief(row, amount, account) ==
    row.info.amount + row.info.fee
        - (IF row.info.account = account THEN amount + EditedFee(row, amount, account) ELSE 0)

EditAffordable(b, row, amount, account) ==
    LET extra  == EditedExtra(row, amount, account)
        relief == EditedRelief(row, amount, account)
        money  == amount # row.info.amount \/ account # row.info.account
    IN  money =>
        /\ account # "none" /\ extra > 0 => Affordable(b, account, extra)
        /\ row.info.account = "card" /\ relief > 0 => Outstanding(b) >= relief

UpdateExpenseOK(b, i, amount, account, when) ==
    LET row == b[i]
        touched == Names(Posted(row))
                     \cup Names(ExpenseLines(account, amount, EditedFee(row, amount, account)))
    IN  /\ row.kind = "EXPENSE" /\ row.status \in {"PENDING", "COMPLETED"}
        /\ <<amount, account, when>> # <<row.info.amount, row.info.account, row.at>>
        /\ EditAffordable(b, row, amount, account)
        /\ row.info.account # "none" => row.journal # << >>
        /\ "cash" \in touched =>
              InOpenSession({when}) /\ row.on.shift \in {0, desk.number}

(* Variant of UpdateExpense: the journal of an expense without an account  *)
(* stays posted.                                                           *)
UpdateExpensePosted(b, i, amount, account, when) ==
    LET fee   == EditedFee(b[i], amount, account)
        lines == ExpenseLines(account, amount, fee)
    IN  [b EXCEPT
            ![i].at = when, ![i].on = when,
            ![i].journal = IF lines = << >> THEN @ ELSE lines,
            ![i].posted = @ \/ lines # << >>,
            ![i].fees = ExpenseFees(fee),
            ![i].status = IF account = "none" THEN "PENDING" ELSE "COMPLETED",
            ![i].info = [@ EXCEPT !.amount = amount, !.account = account, !.fee = fee]]

(* The one journal of the expense is rewritten; without an account it is   *)
(* kept, but no longer posted.                                             *)
UpdateExpense(b, i, amount, account, when) ==
    LET fee   == EditedFee(b[i], amount, account)
        lines == ExpenseLines(account, amount, fee)
    IN  [b EXCEPT
            ![i].at = when, ![i].on = when,
            ![i].journal = IF lines = << >> THEN @ ELSE lines,
            ![i].posted = lines # << >>,
            ![i].fees = ExpenseFees(fee),
            ![i].status = IF account = "none" THEN "PENDING" ELSE "COMPLETED",
            ![i].info = [@ EXCEPT !.amount = amount, !.account = account, !.fee = fee]]

DeleteExpenseOK(b, i) ==
    /\ b[i].kind = "EXPENSE" /\ b[i].status \in {"PENDING", "COMPLETED"}
    /\ "cash" \in Names(Posted(b[i])) => InOpenSession({b[i].on})
    /\ ReversalCapacity(b, NetLines(Posted(b[i])))

DeleteExpense(b, i) == [b EXCEPT ![i].status = "REVERSED", ![i].posted = FALSE]

(* completeExpense() decides and posts from the row it read (seen) before  *)
(* it waited for the account; only the journal itself is unique.           *)
CompleteExpenseOK(b, i, seen, account) ==
    /\ seen.kind = "EXPENSE" /\ seen.status = "PENDING"
    /\ seen.journal = << >> /\ b[i].journal = << >>
    /\ account = "cash" => desk.open
    /\ Affordable(b, account, seen.info.amount + ExpenseFee(account, seen.info.amount))

CompleteExpense(b, i, seen, account) ==
    LET fee == ExpenseFee(account, seen.info.amount)
    IN  [b EXCEPT
            ![i].status = "COMPLETED",
            ![i].journal = ExpenseLines(account, seen.info.amount, fee),
            ![i].posted = TRUE, ![i].on = seen.at,
            ![i].fees = @ \o ExpenseFees(fee),
            ![i].info = [@ EXCEPT !.account = account, !.fee = fee]]

-----------------------------------------------------------------------------
(* updateDateTime(): the row, its journal and a completion move together;  *)
(* the due date moves by as much. The old dates and the payable were read  *)
(* before the transaction (seen).                                          *)

MovedDue(due, seen, days) ==
    LET at == seen.at + days
    IN  IF seen.status \in {"PAID", "CANCELLED", "REVERSED"} THEN [due EXCEPT !.at = at]
        ELSE [due EXCEPT !.at = at, !.status =
                  IF at < today THEN "OVERDUE"
                  ELSE IF seen.paid > 0 THEN "PARTIALLY_PAID" ELSE "PENDING"]

MoveDateOK(seen, when) == seen.kind # "EXPENSE" /\ when # seen.at

Moving(i, seen) ==
    {i} \cup (IF seen.kind = "QUICK_CASH" THEN {seen.info.completion} ELSE {})

MoveDate(b, i, seen, when) ==
    LET moved == [k \in DOMAIN b |->
            IF k \in Moving(i, seen) THEN [b[k] EXCEPT !.at = when, !.on = when] ELSE b[k]]
    IN  IF seen.due.status = "NONE" THEN moved
        ELSE [moved EXCEPT ![i].due = MovedDue(@, seen.due, when.day - seen.at.day)]
=============================================================================
