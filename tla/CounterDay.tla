----------------------------- MODULE CounterDay ------------------------------
(***************************************************************************)
(* Days at the counter: entries of every kind, what completes, corrects,   *)
(* moves or undoes them later, and the requests that decide on a row they  *)
(* read before the transaction that changes it, or that take several       *)
(* transactions. A workload says which entries are made and which later    *)
(* operations are used; racing lets requests run between the steps of      *)
(* another, otherwise a request that has read a row runs to its end first. *)
(***************************************************************************)
EXTENDS Corrections, CustomerEntries

CONSTANTS
    Requests,     \* API requests between their first read and their end
    Workloads,    \* what may be done: see Allowed
    None          \* no request running

VARIABLES
    saved,  \* the positions saved at the end of a day
    view,   \* for each request, what it read and what it has yet to do
    load    \* the workload

vars == <<rows, today, desk, saved, view, load>>

Idle == \A r \in Requests : view[r] = None
Free == load.racing \/ Idle

(* The book is bounded: a workload says how many rows it may have, and how *)
(* many of them are entries of their own.                                  *)
Book(next) ==
    /\ Free
    /\ Len(next) <= load.rows
    /\ rows' = next
    /\ UNCHANGED <<today, desk, saved, view, load>>

Entered(next) ==
    /\ Cardinality({k \in DOMAIN rows : rows[k].of = 0}) < load.entries
    /\ Book(next)

(* An entry may be dated now, at the start of the first day, or as another.*)
Moments == {Now, [day |-> 0, shift |-> 1]} \cup {rows[k].at : k \in DOMAIN rows}

Init ==
    /\ rows = << >>
    /\ today = 0
    /\ desk = [number |-> 1, open |-> TRUE, day |-> 0, from |-> 0, count |-> Opening["cash"]]
    /\ view = [r \in Requests |-> None]
    /\ saved = {}
    /\ load \in Workloads

-----------------------------------------------------------------------------
(* Entries.                                                                *)

CreateCardSwipe == \E s \in load.swipes : SwipeOK(rows, s) /\ Entered(Swiped(rows, s))

CreateQuickCash == \E q \in load.quicks, when \in Moments :
    LET entry == q @@ [when |-> when]
    IN  QuickOK(rows, entry) /\ Entered(Quick(rows, entry))

CreateService == \E v \in load.services, when \in Moments :
    LET service == v @@ [when |-> when]
    IN  ServiceOK(rows, service) /\ Entered(Service(rows, service))

CreateCashTransfer == \E t \in load.transfers :
    CashTransferOK(rows, t) /\ Entered(CashTransfer(rows, t))

CreateAeps == \E a \in load.aeps, when \in Moments :
    LET withdrawal == a @@ [when |-> when]
    IN  AepsOK(rows, withdrawal) /\ Entered(Aeps(rows, withdrawal))

CreateMicroAtm == \E m \in load.micros, when \in Moments :
    LET withdrawal == m @@ [when |-> when]
    IN  MicroAtmOK(rows, withdrawal) /\ Entered(MicroAtm(rows, withdrawal))

CreateInternalTransfer == \E x \in load.internals :
    /\ InternalOK(rows, x.from, x.to, x.amount, x.charge)
    /\ Entered(Internal(rows, x.from, x.to, x.amount, x.charge))

CreateAtmWithdrawal == \E x \in load.atms :
    AtmOK(rows, x.amount, x.charge) /\ Entered(Atm(rows, x.amount, x.charge))

CreateCreditCardPayment == \E x \in load.cardPayments :
    CardPaymentOK(rows, x.from, x.amount) /\ Entered(CardPayment(rows, x.from, x.amount))

CreateAccountEntry == \E x \in load.accountEntries, when \in Moments :
    AccountEntryOK(rows, x.kind, x.amount) /\ Entered(AccountEntry(rows, x.kind, x.amount, when))

CreateExpense == \E x \in load.expenses, when \in Moments :
    ExpenseOK(rows, x.amount, x.account) /\ Entered(Expense(rows, x.amount, x.account, when))

CreateCustomerEntry == \E e \in load.customerEntries, when \in Moments :
    CustomerEntryOK(rows, e) /\ Entered(CustomerEntry(rows, e, when))

-----------------------------------------------------------------------------
(* What one transaction does to an entry.                                  *)

ReceiveSettlement == \E i \in DOMAIN rows, x \in load.receipts :
    ReceiptOK(rows, i, x.amount, x.account) /\ Book(Receipt(rows, i, x.amount, x.account))

AddMissingAepsCommission == \E i \in DOMAIN rows, x \in load.lateFees :
    LateFeeOK(rows, i, x.account) /\ Book(LateFee(rows, i, x.amount, x.account))

EditExpense == \E i \in DOMAIN rows, x \in load.edits, when \in Moments :
    /\ UpdateExpenseOK(rows, i, x.amount, x.account, when)
    /\ Book(UpdateExpense(rows, i, x.amount, x.account, when))

EditCustomerEntry == \E i \in DOMAIN rows, e \in load.entryEdits, when \in Moments :
    EditEntryOK(rows, i, e, when) /\ Book(EditEntry(rows, i, e, when))

CorrectSettledSwipe == \E i \in DOMAIN rows, amount \in load.amounts :
    /\ rows[i].kind = "CARD_SWIPE" /\ rows[i].claim.received > 0
    /\ rows[i].info.amount # amount
    /\ CorrectSettledOK(rows, i, amount) /\ Book(CorrectedSettled(rows, i, amount))

ReverseTransaction == \E i \in DOMAIN rows :
    /\ rows[i].kind \in load.reversing
    /\ ReverseOK(rows, i) /\ Book(Reversed(rows, i))

(* An expense is withdrawn, a received swipe goes with its receipt, and    *)
(* anything else is reversed.                                              *)
DeleteTransaction == \E i \in DOMAIN rows :
    /\ rows[i].kind \in load.deleting
    /\ \/ DeleteExpenseOK(rows, i) /\ Book(DeleteExpense(rows, i))
       \/ rows[i].claim.received > 0 /\ DeleteSettledOK(rows, i) /\ Book(WithoutSwipe(rows, i))

-----------------------------------------------------------------------------
(* Requests that read first. Read(r) notes the row; the transaction that   *)
(* follows decides on the note.                                            *)

(* The row as it was read already refuses the request, or lets it go on.   *)
Worth(what, row) ==
    CASE what = "complete" -> row.kind = "QUICK_CASH" /\ row.status = "PENDING"
      [] what = "partner" -> PartnerDue(row)
      [] what = "fee" -> row.kind = "CARD_SWIPE" /\ row.info.mode = "DEDUCT"
      [] what = "payExpense" -> row.kind = "EXPENSE" /\ row.status = "PENDING"
      [] what = "move" -> row.kind # "EXPENSE"
      [] what = "correct" -> Correctable(row)

Read(r) == \E i \in DOMAIN rows, what \in load.later :
    /\ Free /\ view[r] = None
    /\ Worth(what, rows[i])
    /\ view' = [view EXCEPT ![r] =
           [op |-> what, i |-> i, seen |-> rows[i], amount |-> 0, anew |-> 0, stage |-> "start"]]
    /\ UNCHANGED <<rows, today, desk, saved, load>>

Running(r, what, stage) ==
    view[r] # None /\ view[r].op = what /\ view[r].stage = stage

Ends(r, next) ==
    /\ Len(next) <= load.rows
    /\ rows' = next
    /\ view' = [view EXCEPT ![r] = None]
    /\ UNCHANGED <<today, desk, saved, load>>

CompleteQuickCash(r) == \E c \in load.completions :
    /\ Running(r, "complete", "start")
    /\ CompleteOK(rows, view[r].seen, c)
    /\ Ends(r, Complete(rows, view[r].i, view[r].seen, c))

SettleServicePartner(r) == \E account \in load.accounts :
    /\ Running(r, "partner", "start")
    /\ PartnerOK(rows, view[r].seen, account)
    /\ Ends(r, PartnerPaid(rows, view[r].i, view[r].seen, account))

(* The swipe is locked and read again, its payable is not.                 *)
RecordFeeReceipt(r) == \E account \in load.accounts :
    /\ Running(r, "fee", "start")
    /\ FeeReceiptOK(rows, view[r].i, view[r].seen.due, account)
    /\ Ends(r, FeeReceipt(rows, view[r].i, view[r].seen.due, account))

PayExpense(r) == \E account \in load.accounts :
    /\ Running(r, "payExpense", "start")
    /\ CompleteExpenseOK(rows, view[r].i, view[r].seen, account)
    /\ Ends(r, CompleteExpense(rows, view[r].i, view[r].seen, account))

MoveDateTime(r) == \E when \in Moments :
    /\ Running(r, "move", "start")
    /\ MoveDateOK(view[r].seen, when)
    /\ Ends(r, MoveDate(rows, view[r].i, view[r].seen, when))

-----------------------------------------------------------------------------
(* An entry that is submitted over and over, because its answer was lost   *)
(* or the form was sent twice. IdempotencyService.key() looks for its key  *)
(* before the transaction; the column is unique. Without a key from the    *)
(* client it is made of the entry and the half minute it is submitted in.  *)

HalfMinutes == 0 .. 1

(* Time goes on: no submission is made before one that was made already.   *)
Elapsed == {k.at : k \in {rows[j].key : j \in DOMAIN rows} \ {NoKey}}
    \cup {view[r].key.at : r \in {q \in Requests : view[q] # None /\ view[q].op = "submit"}}

(* Variant of KeyOf: what the client sends is ignored.                     *)
KeyOfEntry(s, at) == [of |-> s.entry, at |-> at]

KeyOf(s, at) == IF s.keyed THEN [of |-> s, at |-> 0] ELSE [of |-> s.entry, at |-> at]

Duplicate(b, key) == \E k \in DOMAIN b : b[k].key = key

Submit(r) == \E s \in load.submissions, at \in HalfMinutes :
    /\ Free /\ view[r] = None
    /\ \A earlier \in Elapsed : earlier <= at
    /\ ~Duplicate(rows, KeyOf(s, at))
    /\ view' = [view EXCEPT ![r] =
           [op |-> "submit", by |-> s, key |-> KeyOf(s, at), stage |-> "start"]]
    /\ UNCHANGED <<rows, today, desk, saved, load>>

RecordSubmitted(r) ==
    /\ Running(r, "submit", "start")
    /\ QuickOK(rows, view[r].by.entry @@ [when |-> Now])
    /\ ~Duplicate(rows, view[r].key)
    /\ LET next == Quick(rows, view[r].by.entry @@ [when |-> Now])
       IN  Ends(r, [next EXCEPT ![Len(next)].by = <<view[r].by>>, ![Len(next)].key = view[r].key])

-----------------------------------------------------------------------------
(* A correction, transaction by transaction.                               *)

Continues(r, next, stage) ==
    /\ Len(next) <= load.rows
    /\ rows' = next
    /\ view' = [view EXCEPT ![r].stage = stage]
    /\ UNCHANGED <<today, desk, saved, load>>

StartCorrection(r) == \E amount \in load.amounts :
    /\ Running(r, "correct", "start")
    /\ ReplaceOK(view[r].seen, amount)
    /\ view' = [view EXCEPT ![r].amount = amount, ![r].stage =
           IF CompletedAlready(view[r].seen) THEN "completion" ELSE "original"]
    /\ UNCHANGED <<rows, today, desk, saved, load>>

CorrectInPlace(r) == \E amount \in load.amounts :
    /\ Running(r, "correct", "start")
    /\ InPlaceOK(view[r].seen, amount)
    /\ Ends(r, InPlace(rows, view[r].i, amount))

ReverseCompletion(r) ==
    /\ Running(r, "correct", "completion")
    /\ ReverseOK(rows, view[r].seen.info.completion)
    /\ Continues(r, Reversed(rows, view[r].seen.info.completion), "original")

ReverseOriginal(r) ==
    /\ Running(r, "correct", "original")
    /\ ReverseOK(rows, view[r].i)
    /\ Continues(r, Reversed(rows, view[r].i), "anew")

RecordAnew(r) ==
    /\ Running(r, "correct", "anew")
    /\ RecordOK(rows, view[r].seen, view[r].amount)
    /\ Len(Recorded(rows, view[r].seen, view[r].amount)) <= load.rows
    /\ rows' = Recorded(rows, view[r].seen, view[r].amount)
    /\ view' = [view EXCEPT ![r].anew = Len(rows) + 1, ![r].stage =
           IF CompletedAlready(view[r].seen) THEN "complete" ELSE "link"]
    /\ UNCHANGED <<today, desk, saved, load>>

CompleteAnew(r) ==
    LET anew == rows[view[r].anew]
        c    == CompletionAgain(view[r].seen, view[r].amount)
    IN  /\ Running(r, "correct", "complete")
        /\ CompleteOK(rows, anew, c)
        /\ Continues(r, Complete(rows, view[r].anew, anew, c), "link")

Link(r) ==
    /\ Running(r, "correct", "link")
    /\ Ends(r, Linked(rows, view[r].anew, view[r].i, view[r].seen))

(* A request may be refused, or the process may stop, before any of its    *)
(* transactions; what it has committed stays.                              *)
GiveUp(r) ==
    /\ view[r] # None
    /\ view' = [view EXCEPT ![r] = None]
    /\ UNCHANGED <<rows, today, desk, saved, load>>

-----------------------------------------------------------------------------
NextDay ==
    /\ load.days /\ Free /\ today < MaxDay
    /\ today' = today + 1
    /\ UNCHANGED <<rows, desk, saved, view, load>>

(* The drawer is closed and opened again, with what its ledger says is in  *)
(* it (CashDesk is about counts that differ); MaxDay bounds the sessions.  *)
CloseDesk ==
    /\ load.days /\ Free /\ desk.open
    /\ desk' = [desk EXCEPT !.open = FALSE]
    /\ UNCHANGED <<rows, today, saved, view, load>>

OpenDesk ==
    /\ load.days /\ Free /\ ~desk.open /\ desk.number <= MaxDay
    /\ desk' = [number |-> desk.number + 1, open |-> TRUE, day |-> today,
                 from |-> Len(rows), count |-> Balance(rows, "cash")]
    /\ UNCHANGED <<rows, today, saved, view, load>>

(* Variant of DayRow: the opening counts the day as well.                  *)
DayRowTwice(b, ledger, base, normal, d) ==
    LET opening == base + normal * Net(b, {ledger}, 0 .. d)
        in  == Moved(b, ledger, {d}, normal)
        out == Moved(b, ledger, {d}, -normal)
    IN  [opening |-> opening, in |-> in, out |-> out, closing |-> opening + in - out]

(* What a ledger held before a day, what came and went, and what is left.  *)
DayRow(b, ledger, base, normal, d) ==
    LET opening == base + normal * Net(b, {ledger}, 0 .. d - 1)
        in  == Moved(b, ledger, {d}, normal)
        out == Moved(b, ledger, {d}, -normal)
    IN  [opening |-> opening, in |-> in, out |-> out, closing |-> opening + in - out]

AccountDay(b, account, d) == DayRow(b, account, Base(account), Normal(account), d)
LedgerDay(b, ledger, normal, d) == DayRow(b, ledger, 0, normal, d)

(* The position of a day, from the ledgers as they stood after it.         *)
Position(b, d) ==
    LET funds == Total(LAMBDA a : AccountDay(b, a, d).closing, Liquid)
        operating == funds + LedgerDay(b, "clearing", 1, d).closing
                        + LedgerDay(b, "receivable", 1, d).closing
                        - LedgerDay(b, "payable", -1, d).closing
    IN  [day |-> d, funds |-> funds, operating |-> operating,
         net |-> operating - AccountDay(b, "card", d).closing]

(* The drawer has been closed, in a session of the day.                    *)
CashReconciled == ~desk.open /\ desk.day = today

(* Once a day.                                                             *)
SaveEndOfDay ==
    /\ load.days /\ Free
    /\ \A s \in saved : s.day # today
    /\ CashReconciled
    /\ saved' = saved \cup {Position(rows, today)}
    /\ UNCHANGED <<rows, today, desk, view, load>>

Next ==
    \/ CreateCardSwipe \/ CreateQuickCash \/ CreateService \/ CreateCashTransfer
    \/ CreateAeps \/ CreateMicroAtm \/ CreateInternalTransfer \/ CreateAtmWithdrawal
    \/ CreateCreditCardPayment \/ CreateAccountEntry \/ CreateExpense \/ CreateCustomerEntry
    \/ ReceiveSettlement \/ AddMissingAepsCommission \/ EditExpense \/ EditCustomerEntry
    \/ CorrectSettledSwipe \/ ReverseTransaction \/ DeleteTransaction
    \/ \E r \in Requests :
          \/ Read(r) \/ GiveUp(r)
          \/ Submit(r) \/ RecordSubmitted(r)
          \/ CompleteQuickCash(r) \/ SettleServicePartner(r) \/ RecordFeeReceipt(r)
          \/ PayExpense(r) \/ MoveDateTime(r)
          \/ StartCorrection(r) \/ CorrectInPlace(r)
          \/ ReverseCompletion(r) \/ ReverseOriginal(r) \/ RecordAnew(r)
          \/ CompleteAnew(r) \/ Link(r)
    \/ NextDay \/ CloseDesk \/ OpenDesk \/ SaveEndOfDay

Spec == Init /\ [][Next]_vars

-----------------------------------------------------------------------------
(* Properties.                                                             *)

(* The rows of the book are of the kinds the counter makes, with the parts *)
(* each has, and a running request has read one of them                    *)
(* (transactions.service.ts, every operation).                             *)
TypeOK ==
    /\ \A k \in DOMAIN rows :
        /\ rows[k].status \in {"PENDING", "COMPLETED", "FAILED", "REVERSED"}
        /\ rows[k].of \in 0 .. k - 1
        /\ rows[k].at.day \in 0 .. today /\ rows[k].on.day \in 0 .. today
        /\ rows[k].due.original = rows[k].due.paid + rows[k].due.remaining
              \/ rows[k].due.status = "REVERSED"
        /\ rows[k].claim.received \in 0 .. rows[k].claim.expected
    /\ \A r \in Requests :
        view[r] = None \/ view[r].op = "submit" \/ view[r].i \in DOMAIN rows

(* Whatever is recorded, edited, completed, corrected or undone, every     *)
(* journal balances: LedgerService.post() never has to refuse one, and the *)
(* lines added to a posted journal afterwards balance as well.             *)
Balanced == \A k \in DOMAIN rows : Sum(rows[k].journal) = 0

Standing(k) == rows[k].status \in {"PENDING", "COMPLETED"}

(* A quick cash entry that waits for its transfer; one whose completion    *)
(* was reversed waits again.                                               *)
Waiting(direction) == {k \in DOMAIN rows :
    /\ rows[k].kind = "QUICK_CASH" /\ Standing(k) /\ rows[k].info.direction = direction
    /\ ~LinkedCompletion(rows, k)}

Unpaid == {k \in DOMAIN rows :
    rows[k].kind = "SERVICE_INCOME" /\ Standing(k) /\ rows[k].info.partner /\ ~rows[k].info.paid}

Shares(direction) ==
    LET standing == StandingEntries(rows, direction)
    IN  [payable    |-> Total(LAMBDA k : rows[k].info.payable, standing),
         receivable |-> Total(LAMBDA k : rows[k].info.receivable, standing)]

(* The control accounts hold what their lists say is open: what customers  *)
(* are owed is the rest of the payables and the transfers not sent, what   *)
(* they owe the payments not arrived, each with its part of the unmatched  *)
(* Pay Ins and Pay Outs, and so for digital commissions, partners, and     *)
(* providers. Reversals, corrections, receipts and edits     *)
(* must each keep both sides.                                              *)
ControlsAgree ==
    /\ -Balance(rows, "payable") =
          Total(LAMBDA k : rows[k].due.remaining, DOMAIN rows)
              + AmountOf(rows, Waiting("IN")) + Shares("PAY_IN").payable - Shares("PAY_OUT").payable
    /\ Balance(rows, "receivable") = AmountOf(rows, Waiting("OUT"))
              + Shares("PAY_OUT").receivable - Shares("PAY_IN").receivable
    /\ Balance(rows, "commissionDue") =
          Total(LAMBDA k : Digital(rows[k].info), Waiting("IN") \cup Waiting("OUT"))
    /\ -Balance(rows, "partnerPayable") = Total(LAMBDA k : rows[k].info.charge, Unpaid)
    /\ Balance(rows, "clearing") = Total(LAMBDA k : rows[k].claim.remaining, DOMAIN rows)

(* What the income rows of the standing entries add up to is what the      *)
(* commission ledger earned: a fee received later is not earned again, a   *)
(* supplement is earned once, and a provider's commission goes with the    *)
(* completion that earned it.                                              *)
IncomeAgrees ==
    -Balance(rows, "commission") =
        Total(LAMBDA k : Sum(rows[k].income), {k \in DOMAIN rows : Standing(k)})

Children(i, kind) == {k \in DOMAIN rows : rows[k].of = i /\ rows[k].kind = kind}

(* Nothing is undone twice, and nothing that was undone stands: a row has  *)
(* a reversal exactly when it is REVERSED, apart from an expense that was  *)
(* withdrawn.                                                              *)
UndoneOnce == \A i \in DOMAIN rows :
    /\ Cardinality(Children(i, "REVERSAL")) <= 1
    /\ Children(i, "REVERSAL") # {} => rows[i].status = "REVERSED"
    /\ rows[i].status = "REVERSED" /\ rows[i].posted => Children(i, "REVERSAL") # {}

(* A submission is recorded once, however often it is repeated and         *)
(* whatever became of the row: with a key of the client's for good,        *)
(* without one for the half minute.                                        *)
RecordedOnce == \A j, k \in DOMAIN rows :
    j < k /\ rows[j].by # NoKey /\ rows[j].by = rows[k].by =>
        ~rows[j].by[1].keyed /\ rows[j].key.at # rows[k].key.at

(* A replacement stands on the date of what it replaces, and nothing of    *)
(* what it replaces stands beside it (correctAmount(); dates are not moved *)
(* in the workloads that correct).                                         *)
ReplacesWhole == \A k \in DOMAIN rows :
    LET i == rows[k].of
    IN  i # 0 /\ rows[i].kind = rows[k].kind =>
            /\ rows[k].at = rows[i].at /\ rows[k].on = rows[i].at
            /\ rows[i].status = "REVERSED"
            /\ \A j \in DOMAIN rows : rows[j].of = i /\ rows[j].kind # rows[k].kind =>
                    rows[j].status = "REVERSED" \/ rows[j].kind = "REVERSAL"

(* An entry has at most one standing completion, supplement, receipt of    *)
(* its fee and replacement, which stands in its place; nothing is recorded *)
(* twice for one submission, nothing undone twice (IdempotencyService      *)
(* .key(), addMissingAepsCommission(), reverse(), correctAmount()).        *)
OnlyOnce == RecordedOnce /\ UndoneOnce /\ ReplacesWhole /\ \A i \in DOMAIN rows :
    \A kind \in {"COMPLETION", "LATE_FEE", "CARD_SWIPE_COMMISSION_RECEIPT", rows[i].kind} :
        Cardinality(LiveOf(rows, i, kind)) <= 1

(* An expense that stands is posted exactly when it has a payment account, *)
(* and its one journal moves out of that account what its details say,     *)
(* through every edit, payment and withdrawal.                             *)
ExpenseAgrees == \A k \in DOMAIN rows : rows[k].kind = "EXPENSE" /\ Standing(k) =>
    LET info == rows[k].info
    IN  /\ rows[k].posted <=> info.account # "none"
        /\ rows[k].status = "COMPLETED" <=> info.account # "none"
        /\ rows[k].posted =>
              /\ Sum(Only(rows[k].journal, "expense")) = info.amount
              /\ Sum(Only(rows[k].journal, info.account)) = -(info.amount + info.fee)
              /\ Sum(rows[k].fees) = info.fee
              /\ rows[k].on = rows[k].at

(* An account that is overdrawn was not drawn on further by an operation   *)
(* that asks for funds: only cash handed out for a payment to come and a   *)
(* partner paid at once do without (ensureSufficientFunds() over several   *)
(* sources, a receipt of the same call, and ensureReversalCapacity()).     *)
NoOverdraft == [][\A a \in Assets :
    Balance(rows', a) < Balance(rows, a) /\ Balance(rows', a) < 0 =>
        rows'[Len(rows')].kind \in {"QUICK_CASH", "SERVICE_INCOME"}]_vars

Rewritable == {k \in DOMAIN rows :
    rows[k].kind \in {"EXPENSE", "CUSTOMER_LEDGER_ENTRY"} /\ rows[k].journal # << >>}

ShiftCash(b, set, shift) == Total(LAMBDA k : Named(b[k].journal, {"cash"}),
    {k \in set : b[k].posted /\ b[k].on.shift = shift})

(* What was posted in cash during a session that has been closed is never  *)
(* rewritten: entries that are edited in place or withdrawn neither leave  *)
(* it nor come into it (updateCustomerLedgerEntry(), updateExpense(),      *)
(* deleteExpense(); updateDateTime() and first postings ask no such thing).*)
ClosedShiftsStand == [][\A shift \in 1 .. desk.number :
    shift < desk.number \/ ~desk.open =>
        ShiftCash(rows', Rewritable, shift) = ShiftCash(rows, Rewritable, shift)]_vars

(* An entry is not undone under a standing completion: the completion that *)
(* decided on the entry before it waited for the account would move money  *)
(* for an entry that was reversed meanwhile, and mark it completed again   *)
(* (completeQuickCash(), reverse()).                                       *)
CompletionKeepsEntry == \A k \in DOMAIN rows :
    rows[k].kind = "COMPLETION" /\ Live(rows, k) => Children(rows[k].of, "REVERSAL") = {}

(* The amount a correction is asked for is the amount of the replacement,  *)
(* as the next correction would show it (correctAmount()).                 *)
CorrectedAsAsked == \A r \in Requests :
    Running(r, "correct", "link") => BaseAmount(rows[view[r].anew]) = view[r].amount

(* The books agree: journals balance, control accounts hold what is open,  *)
(* income rows what was earned.                                            *)
BooksAgree == TypeOK /\ Balanced /\ ControlsAgree /\ IncomeAgrees
=============================================================================
