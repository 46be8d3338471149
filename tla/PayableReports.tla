---------------------------- MODULE PayableReports ----------------------------
(***************************************************************************)
(* What the shop and its customer are told about the payables: the list of *)
(* payouts that are due, by date and on the dashboard, the owner's         *)
(* reconciliation, the customer's card ledger, and the recorded Pay Outs   *)
(* that are offered before money is sent a second time.  They change       *)
(* nothing; each adds up the rows in a way of its own.                     *)
(***************************************************************************)
EXTENDS PayableSettlement

CONSTANT DueOn      \* the day on which each payable is due

ASSUME DueOnAssumption == DueOn \in [Payables -> Nat]

Total(S, amount(_)) == SumFunction([x \in S |-> amount(x)])

(* The days on which a report may be drawn, from before the dates until    *)
(* after them.                                                             *)
Days == 0..20

---------------------------------------------------------------------------
(* What is due.                                                            *)

(* dueReport(): open payables of transactions that count.                  *)
Outstanding == {p \in Payables : /\ payable[p].remaining > 0
                                 /\ payable[p].status \notin Void \cup {"PAID"}
                                 /\ source[p] # "REVERSED"}

(* payables() of the dashboard and its obligationInsights() look at the    *)
(* payables alone.                                                         *)
OnDashboard == {p \in Payables : payable[p].remaining > 0 /\ payable[p].status = "OPEN"}

(* The register of card swipes looks at the transactions alone.            *)
PendingPayouts == {p \in Payables : payable[p].remaining > 0 /\ source[p] = "COMPLETED"}

Remaining(p) == payable[p].remaining

Timing(p, day) ==
    IF DueOn[p] < day THEN "OVERDUE" ELSE IF DueOn[p] = day THEN "DUE TODAY" ELSE "UPCOMING"

DueRow(p, day) ==
    [date |-> DueOn[p], netPayable |-> Original[p], paid |-> payable[p].paid,
     advance |-> payable[p].offset, remaining |-> payable[p].remaining, status |-> Timing(p, day)]

DueRows(day) == [p \in Outstanding |-> DueRow(p, day)]

(* Variant of DateRows that files a row under the status it has.           *)
DateRowsByStatus(day) ==
    LET rows == DueRows(day)
    IN  [date \in {rows[p].date : p \in Outstanding} |->
           LET group == {p \in Outstanding : \E q \in Outstanding :
                           rows[q].date = date /\ rows[p].status = rows[q].status}
           IN  [itemCount |-> Cardinality(group),
                netPayable |-> Total(group, LAMBDA p : rows[p].netPayable),
                paid |-> Total(group, LAMBDA p : rows[p].paid),
                advance |-> Total(group, LAMBDA p : rows[p].advance),
                remaining |-> Total(group, LAMBDA p : rows[p].remaining)]]

(* One line for every date something is due on.                            *)
DateRows(day) ==
    LET rows == DueRows(day)
    IN  [date \in {rows[p].date : p \in Outstanding} |->
           LET group == {p \in Outstanding : rows[p].date = date}
           IN  [itemCount |-> Cardinality(group),
                netPayable |-> Total(group, LAMBDA p : rows[p].netPayable),
                paid |-> Total(group, LAMBDA p : rows[p].paid),
                advance |-> Total(group, LAMBDA p : rows[p].advance),
                remaining |-> Total(group, LAMBDA p : rows[p].remaining)]]

DueTotals(day) ==
    LET rows == DueRows(day)
        total(S) == Total(S, LAMBDA p : rows[p].remaining)
    IN  [outstanding |-> total(Outstanding),
         overdue |-> total({p \in Outstanding : rows[p].date < day}),
         today |-> total({p \in Outstanding : rows[p].date = day}),
         upcoming |-> total({p \in Outstanding : rows[p].date > day})]

(* obligationInsights(): four buckets by the day of the due date.          *)
Insights(day) ==
    LET due(S) == Total({p \in OnDashboard : DueOn[p] \in S}, Remaining)
    IN  [overdue |-> due(0..day - 1), today |-> due({day}), next7 |-> due(day + 1..day + 7),
         later |-> due({n \in {DueOn[p] : p \in Payables} : n > day + 7})]

---------------------------------------------------------------------------
(* The owner's reconciliation.                                             *)

Inspected == {p \in Payables : source[p] # "ABSENT" /\ payable[p].status \notin Void}

PostedPaid(p) ==
    Total({r \in Active("payment") : doc[r].payable = p}, LAMBDA r : doc[r].amount)
    + Total(Active("payout"), LAMBDA e : doc[e].matched[p])

PostedOffset(p) == Total({r \in Active("offset") : doc[r].payable = p}, LAMBDA r : doc[r].amount)

ExpectedRemaining(p) == Larger(0, Original[p] - PostedPaid(p) - PostedOffset(p))

(* What reconciliation() complains of about payable p.                     *)
Reasons(p) ==
    LET row == payable[p]
        left == ExpectedRemaining(p)
    IN  {reason \in {"paid", "offset", "remaining", "unpaid", "outstanding", "inactive"} :
           CASE reason = "paid"        -> row.paid # PostedPaid(p)
             [] reason = "offset"      -> row.offset # PostedOffset(p)
             [] reason = "remaining"   -> row.remaining # left
             [] reason = "unpaid"      -> left = 0 /\ row.status # "PAID"
             [] reason = "outstanding" -> left > 0 /\ row.status = "PAID"
             [] reason = "inactive"    -> source[p] = "REVERSED"}

---------------------------------------------------------------------------
(* Recorded Pay Outs that may still be used.                               *)

RemainingUnallocated(e) == doc[e].toPayable - Matched(doc[e])

RemainingAdvance(e) == doc[e].toReceivable - doc[e].applied

AvailableUnallocated == {e \in Active("payout") : RemainingUnallocated(e) > 0}
AvailableAdvances == {e \in Active("payout") : RemainingAdvance(e) > 0}

(* "Up to so much may be matched without sending money again": the part of *)
(* p that the Pay Outs dated before it could settle.                       *)
Suggestion(p, earlier) ==
    Smaller(ExpectedRemaining(p),
            Total(earlier \cap AvailableAdvances, LAMBDA e : Larger(0, RemainingAdvance(e))))

---------------------------------------------------------------------------
(* getCardLedger(): the customer's page.                                   *)

Movement(debit, credit) == [debit |-> debit, credit |-> credit]

(* A swipe that counts is what the customer may claim, its payouts are     *)
(* what he has had of it.                                                  *)
SwipeMovements(p) ==
    <<Movement(0, Original[p]),
      Movement(Total({r \in Active("payment") : doc[r].payable = p}, LAMBDA r : doc[r].amount), 0)>>

(* A Pay Out counts in full, whatever it has been matched to.              *)
PayOutMovement(e) == Movement(doc[e].amount, 0)

Swipes == {p \in Payables : source[p] = "COMPLETED"}

CardLedgerBalance ==
    LET of(moves, column) == Total(DOMAIN moves, LAMBDA i : moves[i][column])
        swipes(column) == Total(Swipes, LAMBDA p : of(SwipeMovements(p), column))
        payouts(column) == Total(Active("payout"), LAMBDA e : PayOutMovement(e)[column])
    IN  swipes("credit") + payouts("credit") - swipes("debit") - payouts("debit")

OpenPayOutItems == {p \in Swipes : payable[p].remaining > 0}

Position(balance) ==
    IF balance > 0 THEN "TO_PAY_CUSTOMER"
    ELSE IF balance < 0 THEN "TO_RECOVER_FROM_CUSTOMER" ELSE "SETTLED"

---------------------------------------------------------------------------
(* Properties.  Reports are read while nothing is being written.           *)

Quiet == \A r \in Requests : ~Running(r)

(* The worklist of payouts, the dashboard and the register of swipes name  *)
(* the same payables, whatever order they were paid, matched, cancelled    *)
(* and reversed in; on every day the buckets of the dashboard and of the   *)
(* list are the same money, each date accounts for its net payable, and    *)
(* the whole is what the PAYABLE account carries but for the Pay Outs that *)
(* are still offered for matching.                                         *)
DueReportsAgree ==
    Quiet =>
        /\ Outstanding = OnDashboard /\ Outstanding = PendingPayouts
        /\ \A day \in Days :
             LET totals == DueTotals(day)
                 buckets == Insights(day)
                 dates == DateRows(day)
             IN  /\ buckets.overdue = totals.overdue /\ buckets.today = totals.today
                 /\ buckets.next7 + buckets.later = totals.upcoming
                 /\ Total(DOMAIN dates, LAMBDA n : dates[n].remaining) = totals.outstanding
                 /\ \A n \in DOMAIN dates :
                      dates[n].netPayable = dates[n].paid + dates[n].advance + dates[n].remaining
                 /\ -ledger["PAYABLE"] = totals.outstanding
                      - Total(AvailableUnallocated, RemainingUnallocated)

(* "A payout must never be marked paid merely because a user zeroed its    *)
(* balance": the reconciliation has nothing to complain of.                *)
NothingToReconcile == Quiet => \A p \in Inspected : Reasons(p) = {}

(* The balance on the customer's page is the claim that the next Pay Out   *)
(* is split by, is what its open items and the Pay Outs it offers come to, *)
(* and is the net of the two control accounts.                             *)
CardLedgerAgrees ==
    Quiet =>
        LET balance == CardLedgerBalance
        IN  /\ balance = Claim
            /\ balance = Total(OpenPayOutItems, Remaining)
                         - Total(AvailableUnallocated, RemainingUnallocated)
                         - Total(AvailableAdvances, RemainingAdvance)
            /\ balance = -(ledger["PAYABLE"] + ledger["RECEIVABLE"])
            /\ Position(balance) = "SETTLED" /\ AvailableAdvances = {}
                 /\ AvailableUnallocated = {} => Outstanding = {}

(* A payable that pay() refuses to pay twice is not stuck: the page offers *)
(* the Pay Out that stands in the way, and that can be matched to it,      *)
(* applied to it, or taken back from it and matched again.                 *)
FreshFor(p, e) ==
    [NoView EXCEPT !.payable = payable, !.source = source[p], !.entry = doc[e]]

BlockedPaymentsResolve ==
    Quiet /\ UnmatchedPayOut =>
        /\ AvailableUnallocated \cup AvailableAdvances # {}
        /\ \A p \in Outstanding : \E e \in AvailableUnallocated \cup AvailableAdvances :
             \/ \E n \in 1..RemainingUnallocated(e) :
                  MatchChecks(Call("match", p, None, n, 0, e, None), FreshFor(p, e))
             \/ \E n \in 1..RemainingAdvance(e) :
                  ApplyChecks(Call("apply", p, None, n, 0, e, None), FreshFor(p, e))
             \/ UnmatchChecks(Call("unmatch", p, None, 0, 0, e, None), FreshFor(p, e))

(* What the reconciliation suggests can be applied as it says: Pay Out by  *)
(* Pay Out, the amounts add up to the suggestion and each passes.          *)
SuggestionsHold ==
    Quiet => \A p \in Outstanding, earlier \in SUBSET Active("payout") :
        LET usable == earlier \cap AvailableAdvances
            part(e) == Smaller(payable[p].remaining, RemainingAdvance(e))
        IN  /\ Suggestion(p, earlier) <= Total(usable, part)
            /\ \A e \in usable :
                 ApplyChecks(Call("apply", p, None, part(e), 0, e, None), FreshFor(p, e))

(* The books agree: journals balance, the reconciliation has nothing to    *)
(* complain of, and the customer's page shows the claim that              *)
(* cardLedgerBalance() computes, in whatever order payouts and advances    *)
(* are recorded and taken back.                                            *)
BooksAgree == TrialBalance /\ NothingToReconcile /\ CardLedgerAgrees

(* What the screens advise can be done: a refused payment is resolved by a *)
(* Pay Out on offer (pay()), and a suggested match passes applyAdvance().  *)
AdviceHolds == BlockedPaymentsResolve /\ SuggestionsHold
=============================================================================
