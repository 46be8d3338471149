--------------------------- MODULE CustomerReports ---------------------------
(***************************************************************************)
(* How the dues of a customer are shown: the unified list of receivables   *)
(* and its totals, the ageing on the dashboard, the register of card-due   *)
(* activity, and the card ledger of the customer, as a whole and card by   *)
(* card.  None of it changes anything.                                     *)
(***************************************************************************)
EXTENDS CustomerDues

CONSTANT CardOf     \* the card each due was paid to

ASSUME CardOfAssumption ==
    /\ Cases \subseteq DOMAIN CardOf /\ \A c \in Cases : CardOf[c] # None
    /\ Cases \cap Docs = {}

Cards == {CardOf[c] : c \in Cases}
Total(S, amount(_)) == SumFunction([x \in S |-> amount(x)])

---------------------------------------------------------------------------
(* unifiedList().                                                          *)

(* Card dues have no due date until somebody sets a follow-up.             *)
StatusFor(remaining, received) ==
    IF remaining <= 0 THEN "RECEIVED"
    ELSE IF received > 0 THEN "PARTIALLY_RECEIVED" ELSE "PENDING"

Item(kind, original, received, remaining, status) ==
    [kind |-> kind, original |-> original, received |-> received,
     remaining |-> remaining, status |-> status]

(* The receivables as list() leaves them, and two items for every case.    *)
UnifiedItems ==
    [i \in {x \in Items : /\ x[1] = "debt" => debt[x[2]] # NoDebt
                          /\ x[1] = "principal" => x[2] \in Live
                          /\ x[1] = "commission" => x[2] \in Live /\ case[x[2]].fee > 0} |->
        CASE i[1] = "debt" ->
               LET row == debt[i[2]]
               IN  Item("OTHER", Owing[i[2]], row.received, row.remaining, Listed(row, DueDay[i[2]]))
          [] i[1] = "principal" ->
               LET row == case[i[2]]
               IN  Item("CARD_PRINCIPAL", Due[i[2]], row.recovered, row.left,
                        StatusFor(row.left, row.recovered))
          [] i[1] = "commission" ->
               LET row == case[i[2]]
               IN  Item("CARD_COMMISSION", row.fee, row.collected, row.unpaid,
                        StatusFor(row.unpaid, row.collected))]

(* The figures above the list.                                             *)
Summary ==
    LET items == UnifiedItems
        open == {i \in DOMAIN items : /\ items[i].remaining > 0
                                       /\ items[i].status \notin {"CANCELLED", "REVERSED"}}
        sum(field, value) ==
            Total({i \in open : items[i][field] = value}, LAMBDA i : items[i].remaining)
    IN  [pending |-> sum("status", "PENDING"), partial |-> sum("status", "PARTIALLY_RECEIVED"),
         overdue |-> sum("status", "OVERDUE"), principal |-> sum("kind", "CARD_PRINCIPAL"),
         commission |-> sum("kind", "CARD_COMMISSION"), other |-> sum("kind", "OTHER"),
         total |-> Total(open, LAMBDA i : items[i].remaining)]

(* obligationInsights(): receivables that are open, by age.                *)
Ageing ==
    LET open == {d \in Debts : debt[d].remaining > 0 /\ debt[d].status \in Collectable}
        sum(S) == Total(S, LAMBDA d : debt[d].remaining)
    IN  [current |-> sum({d \in open : DueDay[d] >= today}),
         month |-> sum({d \in open : DueDay[d] < today /\ DueDay[d] >= today - 30}),
         older |-> sum({d \in open : DueDay[d] < today - 30})]

---------------------------------------------------------------------------
(* The register of card-due activity.                                      *)

Activity(kind, principal, collected, earned, providerCost, payoutCost) ==
    [kind |-> kind, principal |-> principal, collected |-> collected, earned |-> earned,
     providerCost |-> providerCost, payoutCost |-> payoutCost]

(* A recovery shows what was swiped, a combined receipt what it settled of *)
(* the principal; what was earned is what was assessed, at first and       *)
(* later, and what was collected on top.                                   *)
Register ==
    [x \in Live \cup {d \in Docs : /\ doc[d].status = "COMPLETED"
                                   /\ doc[d].kind \in {"recovery", "assessment", "commission", "combined"}} |->
        IF x \in Cases THEN Activity("opened", Due[x], 0, Fee[x], 0, PayoutCharge)
        ELSE LET d == doc[x]
             IN  CASE d.kind = "recovery"   -> Activity("recovery", d.amount, 0, 0, d.charge, 0)
                   [] d.kind = "assessment" -> Activity("assessment", 0, 0, d.amount, 0, 0)
                   [] d.kind = "commission" -> Activity("commission", 0, d.amount, d.extra, 0, 0)
                   [] d.kind = "combined"   -> Activity("combined", SumFunction(d.principal),
                                                        SumFunction(d.commission), 0, 0, 0)]

RegisterSummary ==
    LET rows == Register
        sum(field) == Total(DOMAIN rows, LAMBDA x : rows[x][field])
    IN  [earned |-> sum("earned"), providerCost |-> sum("providerCost"),
         payoutCost |-> sum("payoutCost"),
         netProfit |-> sum("earned") - sum("providerCost") - sum("payoutCost"),
         principalRecovered |->
            Total({x \in DOMAIN rows : rows[x].kind \in {"recovery", "combined"}},
                  LAMBDA x : rows[x].principal)]

---------------------------------------------------------------------------
(* getCardLedger(), for all cards (None) or for one of them.               *)

Movement(debit, credit) == [debit |-> debit, credit |-> credit]

OnCard(c, card) == card = None \/ CardOf[c] = card

Clearings(card) == {c \in Live : OnCard(c, card)}
RecoveriesOf(card) == {d \in Active("recovery") : doc[d].case \in Clearings(card)}
ManualEntries == Active("payin") \cup Active("combined")

(* A combined receipt that settles one case belongs to its card, any other *)
(* entry to none.                                                          *)
EntryCard(d) ==
    IF doc[d].kind = "combined" /\ Cardinality(Settled(doc[d])) = 1
    THEN CardOf[CHOOSE c \in Settled(doc[d]) : TRUE] ELSE None

(* What card `card` shows of a manual entry: all of its own, of an entry   *)
(* without a card only what it settles there.                              *)
EntryAmount(d, card) ==
    IF card = None \/ EntryCard(d) = card THEN doc[d].amount
    ELSE IF EntryCard(d) # None THEN 0
    ELSE Total({c \in Settled(doc[d]) : CardOf[c] = card},
               LAMBDA c : doc[d].principal[c] + doc[d].commission[c])

Movements(card) ==
    [m \in Clearings(card) \cup RecoveriesOf(card)
           \cup {d \in ManualEntries : EntryAmount(d, card) > 0} |->
        IF m \in Cases THEN Movement(Due[m], 0)
        ELSE IF m \in ManualEntries THEN Movement(0, EntryAmount(m, card))
        ELSE Movement(0, doc[m].amount)]

(* The balance after the last row, in whatever order they are dated.       *)
LedgerBalance(card) ==
    LET moves == Movements(card)
    IN  Total(DOMAIN moves, LAMBDA m : moves[m].credit - moves[m].debit)

OpenPayInItems == {c \in Live : case[c].left > 0}
ExcessItems == {d \in RecoveriesOf(None) : doc[d].credit > 0}

---------------------------------------------------------------------------
(* Properties.  Reports are read while nothing is being written.           *)

Quiet == \A r \in Requests : ~Running(r)

(* The list splits into its statuses and into its kinds with nothing left  *)
(* over or counted twice, and the dashboard ages the same receivables:     *)
(* what was received, taken back, cancelled or grew by an assessment is in *)
(* one of them exactly once.  Together they are the RECEIVABLE account.    *)
ListsAddUp ==
    Quiet =>
        LET list == Summary
            age == Ageing
            items == UnifiedItems
        IN  /\ list.pending + list.partial + list.overdue = list.total
            /\ list.principal + list.commission + list.other = list.total
            /\ age.current + age.month + age.older = list.other
            /\ list.overdue = age.month + age.older
            /\ ledger["RECEIVABLE"] = list.total - SumDocs(LAMBDA d : d.generic)
            /\ \A i \in DOMAIN items : items[i].status \notin {"CANCELLED", "REVERSED"} =>
                 items[i].original = items[i].received + items[i].remaining

(* The profit of the register is what the ledger earned and paid, whatever *)
(* has been reversed since, and what it shows as recovered is what the     *)
(* cases have recovered, but for Pay Ins, with the excess that the         *)
(* customer is owed.                                                       *)
RegisterAgrees ==
    Quiet =>
        LET sums == RegisterSummary
        IN  /\ sums.earned = -ledger["INCOME"]
            /\ sums.netProfit = -ledger["INCOME"] - ledger["CHARGE"]
            /\ sums.principalRecovered =
                 Total(Live, LAMBDA c : case[c].recovered)
                 + Total(ExcessItems, LAMBDA d : doc[d].credit)
                 - Total(Active("payin"), LAMBDA d : SumFunction(doc[d].principal))

(* The balance on the customer's page is the claim that the next Pay In is *)
(* split by; it is what is owed to him and what he has paid on account,    *)
(* less the principal that is open.  Commission he has paid with a receipt *)
(* stays in it, because its assessment never entered.  The cards add up to *)
(* it but for what entries without a card leave unallocated.               *)
CardLedgerAgrees ==
    Quiet =>
        LET balance == LedgerBalance(None)
        IN  /\ balance = Claim
            /\ balance =
                 Total(ExcessItems \cup Active("payin"), LAMBDA d : doc[d].credit)
                 + Total(ManualEntries, LAMBDA d : doc[d].generic + SumFunction(doc[d].commission))
                 - Total(OpenPayInItems, LAMBDA c : case[c].left)
            /\ Total(Cards, LedgerBalance) =
                 balance - Total({d \in ManualEntries : EntryCard(d) = None},
                                 LAMBDA d : doc[d].amount - SumFunction(doc[d].principal)
                                                          - SumFunction(doc[d].commission))

(* Lists, register and card ledger agree with each other and with the      *)
(* ledger (unifiedList(), obligationInsights(), the card due register and  *)
(* getCardLedger() each add up rows of their own).                         *)
ReportsAgree == ListsAddUp /\ RegisterAgrees /\ CardLedgerAgrees
=============================================================================
