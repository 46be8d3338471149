--------------------------- MODULE CounterReports ----------------------------
(***************************************************************************)
(* What the screens say of the counter's book: the transaction list with   *)
(* its income and where it comes from, the card swipe report and the       *)
(* dashboard. Each is computed from rows, charges, lists or ledgers on its *)
(* own; the properties say how they have to agree, also with the position  *)
(* the end of day saves.                                                   *)
(***************************************************************************)
EXTENDS CounterDay, Folds

CONSTANT Splits     \* payout fees to be split: [fee, payout, parts]

ProviderIncome == {"AEPS_PROVIDER", "MICRO_ATM_PROVIDER"}
CostTypes == {"PROVIDER", "PAYOUT", "ATM", "charge"}

-----------------------------------------------------------------------------
(* The transaction list and its totals.                                    *)

(* Completions are part of the entry they complete; reversals and what     *)
(* they reversed are left out.                                             *)
Listed(b) == {i \in DOMAIN b :
    b[i].kind \notin {"COMPLETION", "REVERSAL"} /\ b[i].status # "REVERSED"}

(* Variant of CompletionFees: those of a reversed completion count too.    *)
CompletionFeesAlways(b, i) ==
    IF b[i].kind = "QUICK_CASH" /\ b[i].info.completion # 0
    THEN b[b[i].info.completion].fees ELSE << >>

CompletionFees(b, i) ==
    IF b[i].kind = "QUICK_CASH" /\ LinkedCompletion(b, i)
    THEN b[b[i].info.completion].fees ELSE << >>

PartnerCharge(row) ==
    IF row.kind = "SERVICE_INCOME" /\ row.info.partner THEN row.info.charge ELSE 0
ServiceRevenue(row) == IF row.kind = "SERVICE_INCOME" THEN row.info.amount ELSE 0

Aggregates(b) ==
    LET income(names) == Total(LAMBDA i : Named(b[i].income, names), Listed(b))
        all == UNION {Names(b[i].income) : i \in Listed(b)}
    IN  [customer |-> income(all \ ProviderIncome),
         provider |-> income(ProviderIncome),
         service |-> Total(LAMBDA i : ServiceRevenue(b[i]), Listed(b)),
         cost |-> Total(LAMBDA i : Named(b[i].fees \o CompletionFees(b, i), CostTypes), Listed(b)),
         partner |-> Total(LAMBDA i : PartnerCharge(b[i]), Listed(b))]

ListIncome(b) == LET a == Aggregates(b) IN a.customer + a.provider + a.service
ListProfit(b) == LET a == Aggregates(b)
                 IN  a.customer + a.provider + a.service - a.cost - a.partner

-----------------------------------------------------------------------------
(* incomeBreakdown(): the same earnings by category.                       *)

(* transactionIncome(): a partner's charge is also stored as a charge of   *)
(* the row and counts once.                                                *)
EarnedBy(b, i) ==
    LET fees == b[i].fees \o CompletionFees(b, i)
        stored == Named(fees, {"SERVICE_PARTNER_COST"})
    IN  [income |-> Sum(b[i].income) + ServiceRevenue(b[i]),
         other |-> Named(fees, CostTypes \ {"PAYOUT"})
            + (IF stored > PartnerCharge(b[i]) THEN stored ELSE PartnerCharge(b[i])),
         payout |-> Named(fees, {"PAYOUT"})]

(* attributePayoutIncome(): each part takes its share of the fee, rounded  *)
(* down, until the payout is used up; shares and what remains.             *)
Share(fee, payout, acc, part) ==
    LET base == IF part < payout - acc.base THEN part ELSE payout - acc.base
        cost == (fee * base) \div payout
        left == fee - acc.used
        mine == IF cost < left THEN cost ELSE left
    IN  IF part = 0 \/ acc.base >= payout THEN [acc EXCEPT !.shares = Append(@, 0)]
        ELSE [base |-> acc.base + base, used |-> acc.used + mine, shares |-> Append(acc.shares, mine)]

Attributed(fee, payout, parts) ==
    FoldLeft(LAMBDA acc, part : Share(fee, payout, acc, part),
             [base |-> 0, used |-> 0, shares |-> << >>], parts)

Category(b, i) == IF b[i].kind = "LATE_FEE" THEN "AEPS_WITHDRAWAL"
                  ELSE IF b[i].kind = "QUICK_CASH" THEN b[i].info.via ELSE b[i].kind

(* Pairs of a category and what it earned: a payout's fee is the cost of   *)
(* the entry it pays for.                                                  *)
BreakdownOf(b, i) ==
    LET e == EarnedBy(b, i)
        split == IF b[i].kind = "CUSTOMER_PAYOUT" /\ e.payout > 0
                 THEN Attributed(e.payout, b[i].info.amount, <<b[i].info.amount>>)
                 ELSE [used |-> 0, shares |-> << >>]
    IN  NonZero([k \in DOMAIN split.shares |-> <<Category(b, b[i].of), -split.shares[k]>>]
            \o << <<Category(b, i), e.income - e.other - (e.payout - split.used)>> >>)

Breakdown(b) ==
    LET upTo[k \in 0 .. Len(b)] ==
            IF k = 0 THEN << >>
            ELSE upTo[k - 1] \o (IF k \in Listed(b) THEN BreakdownOf(b, k) ELSE << >>)
    IN  upTo[Len(b)]

(* What the breakdown is checked against: the same rows, added up by type. *)
Independent(b) ==
    LET charges(names) == Total(LAMBDA i : Named(b[i].fees, names), Listed(b))
                            + Total(LAMBDA i : Named(CompletionFees(b, i), names), Listed(b))
    IN  [income |-> Total(LAMBDA i : Sum(b[i].income) + ServiceRevenue(b[i]), Listed(b)),
         other |-> charges(CostTypes \ {"PAYOUT"}) + Total(LAMBDA i : PartnerCharge(b[i]), Listed(b)),
         payout |-> charges({"PAYOUT"})]

-----------------------------------------------------------------------------
(* The card swipe report: completed swipes with the payouts that stand.    *)

Reported(b) == {i \in DOMAIN b : b[i].kind = "CARD_SWIPE" /\ b[i].status = "COMPLETED"}

PayoutFee(b, i) == Total(LAMBDA k : Named(b[k].fees, {"PAYOUT"}), LiveOf(b, i, "CUSTOMER_PAYOUT"))

SwipeProfit(b, i) == b[i].info.fee - Named(b[i].fees, {"PROVIDER"}) - PayoutFee(b, i)
SwipePaid(b, i) == b[i].due.original - b[i].due.remaining

PendingPayouts(b) == {i \in DOMAIN b :
    b[i].kind = "CARD_SWIPE" /\ b[i].status = "COMPLETED" /\ b[i].due.remaining > 0}

-----------------------------------------------------------------------------
(* The dashboard. An open drawer holds what was counted into it and what   *)
(* was dated into the session since.                                       *)

Drawer(b) ==
    LET cash(k) == IF b[k].posted /\ b[k].on.shift = desk.number
                   THEN Named(b[k].journal, {"cash"}) ELSE 0
    IN  IF desk.open THEN desk.count + Total(cash, DOMAIN b) ELSE Balance(b, "cash")

Funds(b) == Drawer(b) + Balance(b, "bank") + Balance(b, "wallet")

OpenDues(b) == {i \in DOMAIN b : b[i].due.remaining > 0
    /\ b[i].due.status \in {"PENDING", "PARTIALLY_PAID", "OVERDUE"}}
OpenClaims(b) == {i \in DOMAIN b : b[i].claim.remaining > 0
    /\ b[i].claim.status \in {"PENDING", "PARTIALLY_SETTLED"}}

Summary(b) ==
    LET operating == Funds(b) + Total(LAMBDA i : b[i].claim.remaining, OpenClaims(b))
                        - Total(LAMBDA i : b[i].due.remaining, OpenDues(b))
    IN  [operating |-> operating, net |-> operating - Outstanding(b)]

(* today(): income and charges of the entries of a day, and what its       *)
(* journals moved in and out of the accounts.                              *)
OfDay(b, d) == {i \in DOMAIN b : b[i].at.day = d /\ b[i].status # "REVERSED"}

Today(b, d) ==
    [commission |-> Total(LAMBDA i : Sum(b[i].income), OfDay(b, d)),
     service |-> Total(LAMBDA i : ServiceRevenue(b[i]), OfDay(b, d)),
     charges |-> Total(LAMBDA i : Sum(b[i].fees), OfDay(b, d)),
     in  |-> [a \in Liquid |-> Moved(b, a, {d}, 1)],
     out |-> [a \in Liquid |-> Moved(b, a, {d}, -1)]]

(* dailySummary() counts the same entries.                                 *)
DailySummary(b, d) ==
    [income |-> Total(LAMBDA i : Sum(b[i].income) + ServiceRevenue(b[i]), OfDay(b, d)),
     charges |-> Total(LAMBDA i : Sum(b[i].fees), OfDay(b, d))]

(* analytics(), over all days: journals of reversed rows are left out,     *)
(* their mirrors are not.                                                  *)
Shown(b) == {i \in DOMAIN b : b[i].posted /\ b[i].status # "REVERSED"}

CashFlow(b) == Total(LAMBDA i : Named(b[i].journal, Liquid), Shown(b))
AnalyticsIncome(b) == -Total(LAMBDA i : Named(b[i].journal, {"commission", "service"}), Shown(b))

Expenses(b) == Total(LAMBDA i : b[i].info.amount,
                     {i \in DOMAIN b : b[i].kind = "EXPENSE" /\ b[i].status # "REVERSED"})

-----------------------------------------------------------------------------
(* Day by day: a running balance from what came before the first day.      *)

(* Variant of Series: the first day is part of what came before.           *)
SeriesTwice(b, ledgers, base, normal, first, last) ==
    LET closing[d \in first - 1 .. last] ==
            IF d = first - 1 THEN base + normal * Net(b, ledgers, 0 .. first)
            ELSE closing[d - 1] + normal * Net(b, ledgers, {d})
    IN  [d \in first .. last |-> closing[d]]

Series(b, ledgers, base, normal, first, last) ==
    LET closing[d \in first - 1 .. last] ==
            IF d = first - 1 THEN base + normal * Net(b, ledgers, 0 .. first - 1)
            ELSE closing[d - 1] + normal * Net(b, ledgers, {d})
    IN  [d \in first .. last |-> closing[d]]

LiquidDays(b, first, last) == Series(b, Liquid, Total(Base, Liquid), 1, first, last)
PayableDays(b, first, last) == Series(b, {"payable"}, 0, -1, first, last)
ReceivableDays(b, first, last) == Series(b, {"receivable"}, 0, 1, first, last)
ClearingDays(b, first, last) == Series(b, {"clearing"}, 0, 1, first, last)
CardDays(b, first, last) == Series(b, {"card"}, Base("card"), -1, first, last)

PositionTrend(b, first, last) ==
    LET liquid == LiquidDays(b, first, last)
        clearing == ClearingDays(b, first, last)
        receivable == ReceivableDays(b, first, last)
        payable == PayableDays(b, first, last)
        card == CardDays(b, first, last)
    IN  [d \in first .. last |-> liquid[d] + clearing[d] + receivable[d] - payable[d] - card[d]]

(* accountLedger(): the lines of an account from a day on, by posting date,*)
(* each with the balance after it; what it starts from, and its last one.  *)
Statement(b, account, first) ==
    LET normal == Normal(account)
        posted == SelectSeq([k \in DOMAIN b |-> k], LAMBDA k : b[k].posted /\ b[k].on.day >= first)
        order  == SortSeq(posted, LAMBDA j, k :
                    b[j].on.day < b[k].on.day \/ (b[j].on.day = b[k].on.day /\ j < k))
        opening == Base(account) + normal * Net(b, {account}, 0 .. first - 1)
        running == [n \in 0 .. Len(order) |-> opening
                        + normal * Total(LAMBDA m : Named(b[order[m]].journal, {account}), 1 .. n)]
    IN  [opening |-> opening, rows |-> order, running |-> running]

(* The export: totals of the rows that count, and each account's movement. *)
Counts(row) == row.status \notin {"REVERSED", "CANCELLED", "FAILED"}

Exported(b) ==
    LET valid == {i \in DOMAIN b : Counts(b[i])}
    IN  [margin |-> Total(LAMBDA i : Sum(b[i].income) + ServiceRevenue(b[i]) - Sum(b[i].fees), valid),
         expenses |-> Total(LAMBDA i : IF b[i].kind = "EXPENSE" THEN b[i].info.amount ELSE 0, valid)]

ExportedAccount(b, account, first, last) ==
    LET normal == Normal(account)
        opening == Base(account) + normal * Net(b, {account}, 0 .. first - 1)
    IN  opening + Moved(b, account, first .. last, normal) - Moved(b, account, first .. last, -normal)

-----------------------------------------------------------------------------
(* Properties. A running request may give up wherever it is, so that every *)
(* book is also seen with none running: only then are reports compared.    *)

(* The categories of the income breakdown add up to the totals of the      *)
(* list, which are aggregated on their own, and splitting a payout's fee   *)
(* neither loses nor invents a paisa (incomeBreakdown() reconciles and     *)
(* never reports a balance it has not).                                    *)
IncomeReconciles ==
    /\ Sum(Breakdown(rows)) = ListProfit(rows)
    /\ LET aggregated == Independent(rows)
       IN  \A part \in {"income", "other", "payout"} :
              Total(LAMBDA i : EarnedBy(rows, i)[part], Listed(rows)) = aggregated[part]
    /\ rows = << >> => \A s \in Splits :
          LET split == Attributed(s.fee, s.payout, s.parts)
          IN  /\ split.used = Sum([k \in DOMAIN split.shares |-> <<"share", split.shares[k]>>])
              /\ split.used <= s.fee /\ split.base <= s.payout
              /\ split.base = s.payout => s.fee - split.used < Len(s.parts)

ProfitLedgers == {"commission", "service", "charge", "bankCharge", "atmCharge", "partnerCost"}

Undone(names) == Total(LAMBDA i : Named(rows[i].journal, names),
                       {i \in DOMAIN rows : Children(i, "REVERSAL") # {}})

(* The profit of the list is what the income and cost ledgers hold, what   *)
(* the days' summaries add up to and what is exported; the expenses shown  *)
(* are those posted and those that wait. The dashboard's analytics take    *)
(* what a reversed entry moved off once more, through its mirror.          *)
ProfitAgrees == Idle =>
    LET profit == ListProfit(rows)
    IN  /\ profit = -Total(LAMBDA l : Balance(rows, l), ProfitLedgers)
        /\ profit =
              Total(LAMBDA d : DailySummary(rows, d).income - DailySummary(rows, d).charges, 0 .. today)
        /\ profit =
              Total(LAMBDA d : Today(rows, d).commission + Today(rows, d).service
                                    - Today(rows, d).charges, 0 .. today)
        /\ Exported(rows).margin = profit
        /\ AnalyticsIncome(rows) = ListIncome(rows) + Undone({"commission", "service"})
        /\ CashFlow(rows) = Total(LAMBDA a : Balance(rows, a) - Opening[a], Liquid) - Undone(Liquid)
        /\ Expenses(rows) = Balance(rows, "expense") + Total(LAMBDA i : rows[i].info.amount,
              {i \in DOMAIN rows : rows[i].kind = "EXPENSE" /\ rows[i].status = "PENDING"})
        /\ Exported(rows).expenses = Expenses(rows)

(* The account statement, the ten-day series, the day's movements, the     *)
(* export and the end of day each find the balance of an account their own *)
(* way, from prior and later postings, whichever day they start from: for  *)
(* every day they agree, though entries are dated back and moved.          *)
DaysAgree == Idle => \A first \in 0 .. today :
    /\ \A a \in Accounts :
          LET statement == Statement(rows, a, first)
              last == statement.running[Len(statement.rows)]
          IN  /\ last = Normal(a) * Balance(rows, a)
              /\ ExportedAccount(rows, a, first, today) = last
              /\ AccountDay(rows, a, first).opening = statement.opening
              /\ AccountDay(rows, a, today).closing = last
    /\ LiquidDays(rows, first, today)[today] = Total(LAMBDA a : Balance(rows, a), Liquid)
    /\ LiquidDays(rows, 0, first)[first] = Total(Base, Liquid)
          + Total(LAMBDA d : LET t == Today(rows, d)
                             IN  Total(LAMBDA a : t.in[a] - t.out[a], Liquid), 0 .. first)
    /\ PositionTrend(rows, first, today)[first] = Position(rows, first).net

(* The swipe report, which adds up per swipe, earns what the breakdown by  *)
(* category gives card swipes, its paid amounts are the payouts made, and  *)
(* the payouts it lists as pending are the swipes' open payables.           *)
SwipeReportAgrees == Idle =>
    /\ Total(LAMBDA i : SwipeProfit(rows, i), Reported(rows)) =
          Sum(Only(Breakdown(rows), "CARD_SWIPE"))
    /\ \A i \in Reported(rows) : SwipePaid(rows, i) =
          Total(LAMBDA k : rows[k].info.amount, LiveOf(rows, i, "CUSTOMER_PAYOUT"))
    /\ PendingPayouts(rows) = {i \in OpenDues(rows) : rows[i].kind = "CARD_SWIPE"}

(* No cash has been dated into another session than it was recorded in, or *)
(* into none: an edit may make cash of an entry dated between two.         *)
InOrder == \A k \in DOMAIN rows : rows[k].posted /\ "cash" \in Names(rows[k].journal) =>
    rows[k].on.shift # 0 /\ (rows[k].on.shift = desk.number <=> k > desk.from)

Invested == Total(LAMBDA a : Opening[a], Accounts)
                - Total(LAMBDA l : Balance(rows, l), {"loan", "owner", "adjustment"})

(* What customers have paid in beyond what they were paid out, unmatched.  *)
Advanced == AmountOf(rows, StandingEntries(rows, "PAY_IN"))
                - AmountOf(rows, StandingEntries(rows, "PAY_OUT"))

(* The net position the dashboard shows is what was invested and earned,   *)
(* less the expenses, and off by what no list of it holds: transfers that  *)
(* wait, commissions still to come, partners still to be paid, unmatched   *)
(* Pay Ins and Pay Outs. It is computed from counts, lists and balances,   *)
(* the rest from the reports.                                              *)
NetExplained ==
    Idle /\ (desk.open => InOrder) =>
        Summary(rows).net = Invested + ListProfit(rows) - Balance(rows, "expense")
            + Advanced + AmountOf(rows, Waiting("IN")) - AmountOf(rows, Waiting("OUT"))
            - Total(LAMBDA k : Digital(rows[k].info), Waiting("IN") \cup Waiting("OUT"))
            + Total(LAMBDA k : rows[k].info.charge, Unpaid)

(* What is saved at the end of a day is the position the dashboard shows   *)
(* when the drawer has been counted, with the transfers that wait and the  *)
(* unmatched entries.                                                      *)
EndOfDayAgrees == [][\A s \in saved' \ saved :
    s.operating = Summary(rows).operating
        - Advanced - AmountOf(rows, Waiting("IN")) + AmountOf(rows, Waiting("OUT"))]_vars

(* Income and profit are the same on every screen: the list and its        *)
(* breakdown by category, the swipe report, the summaries of the days, the *)
(* export and the ledger.                                                  *)
ReportsAgree == IncomeReconciles /\ ProfitAgrees /\ SwipeReportAgrees

(* And so are balances and the net position: statement, series, movements  *)
(* and end of day of every account, and what the dashboard sums up.        *)
PositionsAgree == DaysAgree /\ NetExplained
=============================================================================
