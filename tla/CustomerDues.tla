---------------------------- MODULE CustomerDues ----------------------------
(***************************************************************************)
(* What a customer owes the shop: receivables, and credit-card dues that   *)
(* the shop has paid for the customer, each with its principal and its     *)
(* commission.  Recoveries by swipe, combined receipts, Pay Ins, commission*)
(* collections and assessments settle them, reversals take that back.      *)
(*                                                                         *)
(* One customer with one card, one liquid account.  Amounts are integers.  *)
(***************************************************************************)
EXTENDS RowLocks, Integers, Sequences, Functions

CONSTANTS
    Debts,          \* the receivables
    Owing,          \* what each of them is for
    FromAccount,    \* those that were lent out of the account
    DueDay,         \* the day each of them is due
    Cases,          \* the card dues
    ById,           \* the order of their ids
    Due,            \* what the shop pays to the card for each of them
    Fee,            \* the commission assessed with it
    PayoutCharge,   \* what the shop's bank or wallet takes for paying it
    GatewayRate,    \* what the gateway of a recovery takes, in percent
    Opening,        \* the opening balance of the account
    Amounts,        \* the amounts a request may carry
    MaxDay,         \* the last day
    Workloads,      \* which kinds of request occur alone, and beside others
    None            \* no receivable, card due, document

Kinds == {"collect", "cancel", "reverseDebt", "reverseCollection", "recover",
          "recoverAll", "combined", "payin", "commission", "assess", "reverseRecovery",
          "reverseReceipt", "reverseCommission", "reverseAssessment", "reverseCase"}

Ledgers == {"MONEY", "RECEIVABLE", "PAYABLE", "INCOME", "CHARGE", "ADJUSTMENT"}

(* A request records one document, or one for every case that it recovers  *)
(* and one more for the excess; the creation of a case may record two.     *)
Docs == Requests \X ({"main", "excess"} \cup Cases)

ASSUME DuesAssumption ==
    /\ IsFiniteSet(Requests) /\ IsFiniteSet(Debts) /\ IsFiniteSet(Cases)
    /\ Owing \in [Debts -> Nat \ {0}] /\ FromAccount \subseteq Debts
    /\ DueDay \in [Debts -> Nat]
    /\ None \notin Cases \cup Debts /\ {"main", "excess"} \cap Cases = {}
    /\ ById \in [Cases -> Nat] /\ \A c, d \in Cases : ById[c] = ById[d] => c = d
    /\ Due \in [Cases -> Nat \ {0}] /\ Fee \in [Cases -> Nat]
    /\ PayoutCharge \in Nat /\ GatewayRate \in 0..100 /\ Opening \in Nat /\ MaxDay \in Nat
    /\ Amounts \subseteq Nat \ {0}
    /\ \A w \in Workloads : w.alone \cup w.beside \subseteq Kinds \cup {"create", "lend"}

VARIABLES
    debt,       \* CustomerReceivable rows
    case,       \* CardDueClearingDetail rows and the status of their transactions
    doc,        \* the transactions and detail rows that requests have recorded
    ledger,     \* balance of each ledger account, debit positive
    today,      \* the business day
    op,         \* the call each request is executing
    stage,      \* the next step of its plan
    view,       \* what it has read
    workload    \* the member of Workloads this behaviour is bounded by

tables == <<debt, case, doc, ledger>>
vars == <<debt, case, doc, ledger, today, op, stage, view, workload, holder>>

---------------------------------------------------------------------------
(* Rows.                                                                   *)

Larger(m, n) == IF m < n THEN n ELSE m
Smaller(m, n) == IF m < n THEN m ELSE n

DebtRow == [received : Int, remaining : Int, source : {"ABSENT", "COMPLETED", "REVERSED"},
            status : {"PENDING", "PARTIALLY_RECEIVED", "OVERDUE", "RECEIVED",
                      "CANCELLED", "REVERSED"}]

NoDebt == [received |-> 0, remaining |-> 0, source |-> "ABSENT", status |-> "PENDING"]

(* `fee`, `collected` and `unpaid` are the commission, `recovered` and     *)
(* `left` the principal; `born` orders the cases by date.                  *)
CaseRow == [recovered : Int, left : Int, fee : Int, collected : Int, unpaid : Int,
            born : Nat, status : {"ABSENT", "PENDING", "PARTIALLY_PAID", "COMPLETED", "REVERSED"}]

NoCase == [recovered |-> 0, left |-> 0, fee |-> 0, collected |-> 0, unpaid |-> 0,
           born |-> 0, status |-> "ABSENT"]

(* `principal` and `commission` are what a receipt settles of each case,   *)
(* `generic` what of a Pay In reduces no case in particular, `extra` is    *)
(* commission earned as it was collected, `credit` what the customer is    *)
(* owed for it; `at` orders the documents by date.                         *)
Document == [kind : {"none", "recovery", "combined", "payin", "commission", "assessment",
                     "collection"},
             case : Cases \cup {None}, debt : Debts \cup {None}, amount : Nat, charge : Nat,
             principal : [Cases -> Nat], commission : [Cases -> Nat], generic : Nat,
             extra : Nat, credit : Nat, at : Nat, status : {"COMPLETED", "REVERSED"}]

Nothing == [c \in Cases |-> 0]

NoDocument == [kind |-> "none", case |-> None, debt |-> None, amount |-> 0, charge |-> 0,
               principal |-> Nothing, commission |-> Nothing, generic |-> 0, extra |-> 0,
               credit |-> 0, at |-> 0, status |-> "COMPLETED"]

Active(kind) == {d \in Docs : doc[d].kind = kind /\ doc[d].status = "COMPLETED"}
Live == {c \in Cases : case[c].status \notin {"ABSENT", "REVERSED"}}

(* The next date: rows carry the time at which they were written.          *)
Now == 1 + Cardinality({d \in Docs : doc[d].kind # "none"})
         + Cardinality({c \in Cases : case[c].status # "ABSENT"})

(* masterStatus(): the case is open as long as principal is.               *)
MasterStatus(recovered, left) ==
    IF left <= 0 THEN "COMPLETED" ELSE IF recovered > 0 THEN "PARTIALLY_PAID" ELSE "PENDING"

(* cardLedgerBalance(): what the customer may claim, negative if he owes.  *)
Claim ==
    SumFunction([d \in Docs |->
        IF d \in Active("combined") \cup Active("payin")
           \/ (d \in Active("recovery") /\ doc[d].case \in Live)
        THEN doc[d].amount ELSE 0])
    - SumFunction([c \in Cases |-> IF c \in Live THEN Due[c] ELSE 0])

---------------------------------------------------------------------------
(* Journals.                                                               *)

NoJournal == [l \in Ledgers |-> 0]

(* create() of the card due: principal and commission are receivable.      *)
CaseJournal(c) ==
    [NoJournal EXCEPT !["RECEIVABLE"] = Due[c] + Fee[c], !["CHARGE"] = PayoutCharge,
                      !["MONEY"] = -(Due[c] + PayoutCharge), !["INCOME"] = -Fee[c]]

DebtJournal(d) ==
    [NoJournal EXCEPT !["RECEIVABLE"] = Owing[d],
                      ![IF d \in FromAccount THEN "MONEY" ELSE "ADJUSTMENT"] = -Owing[d]]

(* What a receipt takes off the customer's receivable.                     *)
Reduced(d) == d.amount - d.credit - d.extra

Journal(d) ==
    IF d.kind = "assessment"
    THEN [NoJournal EXCEPT !["RECEIVABLE"] = d.amount, !["INCOME"] = -d.amount]
    ELSE [NoJournal EXCEPT !["MONEY"] = d.amount - d.charge, !["CHARGE"] = d.charge,
                           !["RECEIVABLE"] = -Reduced(d), !["PAYABLE"] = -d.credit,
                           !["INCOME"] = -d.extra]

Post(journal) == ledger' = [l \in Ledgers |-> ledger[l] + journal[l]]
PostReversal(journal) == ledger' = [l \in Ledgers |-> ledger[l] - journal[l]]

---------------------------------------------------------------------------
(* Calls and their plans.                                                  *)

Operation == [kind : Kinds \cup {"idle"}, case : Cases \cup {None},
              debt : Debts \cup {None}, amount : Nat, part : Nat, target : Docs \cup {None}]

Call(kind, c, d, amount, part, target) ==
    [kind |-> kind, case |-> c, debt |-> d, amount |-> amount, part |-> part, target |-> target]

Idle == Call("idle", None, None, 0, 0, None)

(* stage 0 is before and stage -1 after the transaction of a request.      *)
Running(r) == stage[r] > 0

NoView == [case |-> [c \in Cases |-> NoCase], targets |-> {}, room |-> Nothing,
           debt |-> NoDebt, doc |-> NoDocument, blocked |-> FALSE, funds |-> 0, claim |-> 0]

CaseLock(c)   == <<"clearing", c>>
MasterLock(c) == <<"master", c>>
DebtLock(d)   == <<"receivable", d>>
SourceLock(d) == <<"source", d>>
DocLock(d)    == <<"document", d>>
MoneyLock     == <<"account", "MONEY">>

Rows == ({"clearing", "master"} \X Cases) \cup ({"receivable", "source"} \X Debts)
        \cup ({"document"} \X Docs) \cup {MoneyLock}

Step(rows, look) == [rows |-> rows, look |-> look]

(* The members of S from the smallest key to the largest.                  *)
InOrder(S, key) ==
    CHOOSE order \in [1..Cardinality(S) -> S] :
        \A i, j \in 1..Cardinality(S) : i < j => key[order[i]] < key[order[j]]

InAgeOrder(S) == InOrder(S, [c \in S |-> case[c].born])

(* "Lock every target in deterministic order".                             *)
InIdOrder(S) == InOrder(S, ById)

LockCases(order) == [i \in DOMAIN order |-> Step({CaseLock(order[i])}, {})]

(* The cases a receipt has settled something of.                           *)
Settled(d) == {c \in Cases : d.principal[c] + d.commission[c] > 0}

(* Variant of CasePlan that does not lock the case.                  *)
CasePlanUnlocked(o) == << Step({}, {"case"}), Step({MasterLock(o.case)}, {}) >>

(* Variant of CasePlan that locks the case last.                           *)
CasePlanMasterFirst(o) == << Step({MasterLock(o.case)}, {}), Step({CaseLock(o.case)}, {"case"}) >>

(* recordRecoveryTx(), recordCommissionTx(): the case is locked and read;  *)
(* refreshMasterStatus() updates its transaction.                          *)
CasePlan(o) == << Step({CaseLock(o.case)}, {"case"}), Step({MasterLock(o.case)}, {}) >>

(* addCustomerRecovery() and addCombinedReceipt() list the cases before    *)
(* they lock them, and read each one again afterwards.                     *)
ManyPlan(o, v) ==
    << Step({}, {"targets"}) >> \o LockCases(InIdOrder(v.targets))
    \o << Step({}, {"case"}), Step({MasterLock(c) : c \in v.targets}, {}) >>

AssessPlan(o) == << Step({CaseLock(o.case)}, {"case"}) >>

(* createCardLedgerEntry() with direction PAY_IN.                          *)
PayInPlan(o) ==
    IF o.case = None THEN << Step({MoneyLock}, {}), Step({}, {"claim"}) >>
    ELSE << Step({CaseLock(o.case)}, {}), Step({MoneyLock}, {}),
            Step({}, {"claim", "case"}), Step({MasterLock(o.case)}, {}) >>

(* reverse(): the transaction is locked and read, then the account that    *)
(* has to give the money back, then the case.                              *)
ReverseRecoveryPlan(o) ==
    << Step({DocLock(o.target)}, {"doc", "blocked"}), Step({MoneyLock}, {"funds"}),
       Step({CaseLock(o.case)}, {"case"}), Step({MasterLock(o.case)}, {}) >>

ReverseCommissionPlan(o) ==
    << Step({DocLock(o.target)}, {"doc", "blocked"}), Step({MoneyLock}, {"funds"}),
       Step({CaseLock(o.case)}, {"case"}) >>

ReverseAssessmentPlan(o) ==
    << Step({DocLock(o.target)}, {"doc", "blocked"}), Step({CaseLock(o.case)}, {"case"}) >>

(* The allocations are taken back one by one, in the order of their rows.  *)
ReverseReceiptPlan(o, v) ==
    << Step({DocLock(o.target)}, {"doc", "blocked"}), Step({MoneyLock}, {"funds"}) >>
    \o LockCases(InAgeOrder(Settled(v.doc)))
    \o << Step({}, {"case"}),
          Step({MasterLock(c) : c \in {x \in Cases : v.doc.principal[x] > 0}}, {}) >>

(* reverse() of the card due itself does not lock the case.                *)
ReverseCasePlan(o) == << Step({MasterLock(o.case)}, {"case", "blocked"}) >>

CollectPlan(o) == << Step({DebtLock(o.debt)}, {"debt"}) >>

CancelPlan(o) == << Step({DebtLock(o.debt)}, {"debt"}), Step({SourceLock(o.debt)}, {}) >>

(* reverse() of the receivable reads it without a lock.                    *)
ReverseDebtPlan(o) == << Step({SourceLock(o.debt)}, {"debt"}), Step({DebtLock(o.debt)}, {}) >>

ReverseCollectionPlan(o) ==
    << Step({DocLock(o.target)}, {"doc"}), Step({MoneyLock}, {"funds"}),
       Step({DebtLock(o.debt)}, {"debt"}) >>

Plan(o, v) ==
    CASE o.kind \in {"recover", "commission"}    -> CasePlan(o)
      [] o.kind \in {"recoverAll", "combined"}   -> ManyPlan(o, v)
      [] o.kind = "assess"                       -> AssessPlan(o)
      [] o.kind = "payin"                        -> PayInPlan(o)
      [] o.kind = "reverseRecovery"              -> ReverseRecoveryPlan(o)
      [] o.kind = "reverseCommission"            -> ReverseCommissionPlan(o)
      [] o.kind = "reverseAssessment"            -> ReverseAssessmentPlan(o)
      [] o.kind = "reverseReceipt"               -> ReverseReceiptPlan(o, v)
      [] o.kind = "reverseCase"                  -> ReverseCasePlan(o)
      [] o.kind = "collect"                      -> CollectPlan(o)
      [] o.kind = "cancel"                       -> CancelPlan(o)
      [] o.kind = "reverseDebt"                  -> ReverseDebtPlan(o)
      [] o.kind = "reverseCollection"            -> ReverseCollectionPlan(o)

---------------------------------------------------------------------------
(* Card dues.                                                              *)

(* money(): a percentage is rounded to the nearest unit.                   *)
GatewayCharge(n) == (2 * n * GatewayRate + 100) \div 200

Open(c, v) == v.case[c].status \notin {"ABSENT", "REVERSED"}

(* A swipe of n on case c of which `left` is still to be recovered: what   *)
(* exceeds it is owed to the customer.                                     *)
Recovery(c, n, left, at) ==
    LET applied == Smaller(Larger(left, 0), n)
    IN  [NoDocument EXCEPT !.kind = "recovery", !.case = c, !.amount = n,
            !.charge = GatewayCharge(n), !.principal = [Nothing EXCEPT ![c] = applied],
            !.credit = n - applied, !.at = at]

(* The row after principal p and commission k have been received.          *)
Receive(row, p, k) ==
    [row EXCEPT !.recovered = @ + p, !.left = Larger(0, @ - p),
                !.collected = @ + k, !.unpaid = @ - k,
                !.status = MasterStatus(row.recovered + p, row.left - p)]

RecoverChecks(o, v) == Open(o.case, v) /\ o.amount > GatewayCharge(o.amount)

RecoverEffect(r, o, v) ==
    LET recovery == Recovery(o.case, o.amount, v.case[o.case].left, Now)
    IN  /\ doc' = [doc EXCEPT ![<<r, "main">>] = recovery]
        /\ case' = [case EXCEPT ![o.case] =
                      Receive(v.case[o.case], recovery.principal[o.case], 0)]
        /\ Post(Journal(recovery))
        /\ UNCHANGED debt

Older(c, S) == {x \in S : case[x].born < case[c].born}

(* Variant of Share that gives everything to the oldest case.              *)
ShareOldestOnly(amount, c, S, room) == IF Older(c, S) = {} THEN amount ELSE 0

(* What of `amount` falls to c, when it fills the room of the cases of S,  *)
(* the oldest first.                                                       *)
Share(amount, c, S, room) ==
    Smaller(room[c], Larger(0, amount - SumFunctionOnSet(room, Older(c, S))))

Excess(amount, S, room) == Larger(0, amount - SumFunctionOnSet(room, S))

Newest(S) == CHOOSE c \in S : Older(c, S) = S \ {c}

(* addCustomerRecovery(): one recovery for each open case, as much as was  *)
(* open when it was listed; the excess goes to the last one.               *)
AllRecoveries(r, o, v) ==
    LET part(c) == Share(o.amount, c, v.targets, v.room)
        last == Newest(v.targets)
        excess == Excess(o.amount, v.targets, v.room)
    IN  [d \in ({r} \X {c \in v.targets : part(c) > 0})
               \cup (IF excess > 0 THEN {<<r, "excess">>} ELSE {}) |->
           IF d[2] = "excess"
           THEN Recovery(last, excess, v.case[last].left - part(last), Now + 1)
           ELSE Recovery(d[2], part(d[2]), v.case[d[2]].left, Now)]

RecoverAllChecks(r, o, v) ==
    /\ v.targets # {}
    /\ \A d \in DOMAIN AllRecoveries(r, o, v) :
         LET recovery == AllRecoveries(r, o, v)[d]
         IN  Open(recovery.case, v) /\ recovery.amount > recovery.charge

RecoverAllEffect(r, o, v) ==
    LET made == AllRecoveries(r, o, v)
        applied(c) == SumFunction([d \in DOMAIN made |-> made[d].principal[c]])
    IN  /\ doc' = [d \in Docs |-> IF d \in DOMAIN made THEN made[d] ELSE doc[d]]
        /\ case' = [c \in Cases |-> IF \E d \in DOMAIN made : made[d].case = c
                                    THEN Receive(v.case[c], applied(c), 0) ELSE case[c]]
        /\ ledger' = [l \in Ledgers |-> ledger[l]
                        + SumFunction([d \in DOMAIN made |-> Journal(made[d])[l]])]
        /\ UNCHANGED debt

(* addCombinedReceipt(): principal first, then commission, oldest first.   *)
CombinedReceipt(o, v) ==
    LET open == {c \in Cases : Open(c, v)}
        left == [c \in open |-> v.case[c].left]
        unpaid == [c \in open |-> v.case[c].unpaid]
        rest == Excess(o.amount, open, left)
    IN  [NoDocument EXCEPT !.kind = "combined", !.amount = o.amount, !.at = Now,
            !.principal = [c \in Cases |-> IF c \in open THEN Share(o.amount, c, open, left) ELSE 0],
            !.commission = [c \in Cases |-> IF c \in open THEN Share(rest, c, open, unpaid) ELSE 0]]

CombinedChecks(o, v) ==
    LET receipt == CombinedReceipt(o, v)
    IN  /\ v.targets # {}
        /\ SumFunction(receipt.principal) + SumFunction(receipt.commission) = o.amount

TakeReceipt(d, v) ==
    case' = [c \in Cases |-> IF c \in Settled(d)
                             THEN Receive(v.case[c], d.principal[c], d.commission[c])
                             ELSE case[c]]

CombinedEffect(r, o, v) ==
    /\ doc' = [doc EXCEPT ![<<r, "main">>] = CombinedReceipt(o, v)]
    /\ TakeReceipt(CombinedReceipt(o, v), v)
    /\ Post(Journal(CombinedReceipt(o, v)))
    /\ UNCHANGED debt

(* A Pay In: what is not matched to a case reduces what the customer owes, *)
(* as far as his balance goes, and is owed to him beyond that.             *)
PayIn(o, v) ==
    LET unmatched == o.amount - o.part
        generic == Smaller(unmatched, Larger(-(v.claim + o.part), 0))
    IN  [NoDocument EXCEPT !.kind = "payin", !.amount = o.amount, !.at = Now,
            !.principal = [c \in Cases |-> IF c = o.case THEN o.part ELSE 0],
            !.generic = generic, !.credit = unmatched - generic]

PayInChecks(o, v) ==
    o.case # None => Open(o.case, v) /\ o.part <= v.case[o.case].left

PayInEffect(r, o, v) ==
    /\ doc' = [doc EXCEPT ![<<r, "main">>] = PayIn(o, v)]
    /\ TakeReceipt(PayIn(o, v), v)
    /\ Post(Journal(PayIn(o, v)))
    /\ UNCHANGED debt

(* recordCommissionTx(): beyond what was assessed it is new income.        *)
CommissionChecks(o, v) == Open(o.case, v)

CommissionEffect(r, o, v) ==
    LET row == v.case[o.case]
        accrued == Smaller(Larger(row.unpaid, 0), o.amount)
        extra == o.amount - accrued
        collection == [NoDocument EXCEPT !.kind = "commission", !.case = o.case,
                         !.amount = o.amount, !.commission = [Nothing EXCEPT ![o.case] = o.amount],
                         !.extra = extra, !.at = Now]
    IN  /\ doc' = [doc EXCEPT ![<<r, "main">>] = collection]
        /\ case' = [case EXCEPT ![o.case] =
                      [row EXCEPT !.fee = @ + extra, !.collected = @ + o.amount,
                                  !.unpaid = Larger(0, @ - accrued),
                                  !.status = MasterStatus(row.recovered, row.left)]]
        /\ Post(Journal(collection))
        /\ UNCHANGED debt

(* assessCommission(): no money moves.                                     *)
AssessChecks(o, v) == Open(o.case, v)

AssessEffect(r, o, v) ==
    LET assessment == [NoDocument EXCEPT !.kind = "assessment", !.case = o.case,
                         !.amount = o.amount, !.at = Now]
    IN  /\ doc' = [doc EXCEPT ![<<r, "main">>] = assessment]
        /\ case' = [case EXCEPT ![o.case] =
                      [case[o.case] EXCEPT !.fee = v.case[o.case].fee + o.amount,
                                           !.unpaid = v.case[o.case].unpaid + o.amount]]
        /\ Post(Journal(assessment))
        /\ UNCHANGED debt

---------------------------------------------------------------------------
(* Reversals.  "Reverse later Card Due receipts first": what may depend on *)
(* the document stands in the way.                                         *)

Touches(d, c) == doc[d].case = c \/ c \in Settled(doc[d])

Counts(d) == doc[d].kind # "none" /\ doc[d].status = "COMPLETED"

After(d, e) == e # d /\ Counts(e) /\ doc[e].at > doc[d].at

Allocates(e, c) == doc[e].kind \in {"combined", "payin"} /\ c \in Settled(doc[e])

CollectsCommission(e, c) ==
    \/ doc[e].kind = "commission" /\ doc[e].case = c
    \/ doc[e].kind = "combined" /\ doc[e].commission[c] > 0

Blocked(d) ==
    \E e \in Docs : After(d, e) /\
        CASE doc[d].kind = "recovery" ->
               \/ doc[e].kind = "recovery" /\ doc[e].case = doc[d].case
               \/ Allocates(e, doc[d].case)
          [] doc[d].kind \in {"commission", "assessment"} -> CollectsCommission(e, doc[d].case)
          [] doc[d].kind \in {"combined", "payin"} ->
               \E c \in Settled(doc[d]) :
                   \/ doc[e].kind = "recovery" /\ doc[e].case = c
                   \/ Allocates(e, c)
                   \/ doc[d].commission[c] > 0 /\ doc[e].kind = "commission" /\ doc[e].case = c
          [] OTHER -> FALSE

InUse(c) == \E d \in Docs : Counts(d) /\ Touches(d, c)

CashOut(d) == IF d.kind = "assessment" THEN 0 ELSE d.amount - d.charge

(* The part that every reversal shares: the transaction is not reversed    *)
(* yet, and the account still has the money (ensureReversalCapacity()).    *)
ReverseChecks(o, v) ==
    v.doc.status = "COMPLETED" /\ ~v.blocked
    /\ (CashOut(v.doc) > 0 => v.funds >= CashOut(v.doc))

MarkReversed(o, v) ==
    /\ doc' = [doc EXCEPT ![o.target].status = "REVERSED"]
    /\ PostReversal(Journal(v.doc))

(* The row after principal p has been taken back from case c.              *)
GiveBack(c, row, p) ==
    LET recovered == Larger(0, row.recovered - p)
        left == Larger(0, Due[c] - recovered)
    IN  [row EXCEPT !.recovered = recovered, !.left = left,
                    !.status = MasterStatus(recovered, left)]

ReverseRecoveryEffect(r, o, v) ==
    /\ case' = [case EXCEPT ![o.case] =
                  GiveBack(o.case, v.case[o.case], v.doc.amount - v.doc.credit)]
    /\ MarkReversed(o, v) /\ UNCHANGED debt

ReverseReceiptChecks(o, v) ==
    ReverseChecks(o, v) /\ \A c \in Cases : v.case[c].collected >= v.doc.commission[c]

(* The commission is taken back without a look at the status.              *)
ReverseReceiptEffect(r, o, v) ==
    LET refund(c, row) ==
            IF v.doc.commission[c] = 0 THEN row
            ELSE [row EXCEPT !.collected = @ - v.doc.commission[c],
                             !.unpaid = row.fee - (row.collected - v.doc.commission[c])]
        back(c, row) == IF v.doc.principal[c] = 0 THEN row ELSE GiveBack(c, row, v.doc.principal[c])
    IN  /\ case' = [c \in Cases |-> IF c \in Settled(v.doc)
                                    THEN refund(c, back(c, v.case[c])) ELSE case[c]]
        /\ MarkReversed(o, v) /\ UNCHANGED debt

(* Variant of ReverseCommissionEffect that keeps the extra in the fee.     *)
ReverseCommissionEffectKeepsExtra(r, o, v) ==
    LET row == v.case[o.case]
        collected == Larger(0, row.collected - v.doc.amount)
    IN  /\ case' = [case EXCEPT ![o.case] =
                      [row EXCEPT !.collected = collected, !.unpaid = Larger(0, row.fee - collected)]]
        /\ MarkReversed(o, v) /\ UNCHANGED debt

ReverseCommissionEffect(r, o, v) ==
    LET row == v.case[o.case]
        collected == Larger(0, row.collected - v.doc.amount)
        fee == row.fee - v.doc.extra
    IN  /\ case' = [case EXCEPT ![o.case] =
                      [row EXCEPT !.fee = fee, !.collected = collected,
                                  !.unpaid = Larger(0, fee - collected)]]
        /\ MarkReversed(o, v) /\ UNCHANGED debt

ReverseAssessmentChecks(o, v) ==
    ReverseChecks(o, v) /\ v.case[o.case].unpaid >= v.doc.amount

ReverseAssessmentEffect(r, o, v) ==
    /\ case' = [case EXCEPT ![o.case] = [v.case[o.case] EXCEPT !.fee = @ - v.doc.amount,
                                                              !.unpaid = @ - v.doc.amount]]
    /\ MarkReversed(o, v) /\ UNCHANGED debt

(* Variant of ReverseCaseChecks that only looks at the principal.          *)
ReverseCaseChecksPrincipal(o, v) == Open(o.case, v) /\ v.case[o.case].recovered = 0

(* The row of the case itself is not touched: it is out of every list by   *)
(* the status of its transaction.                                          *)
ReverseCaseChecks(o, v) == Open(o.case, v) /\ ~v.blocked

ReverseCaseEffect(r, o, v) ==
    /\ case' = [case EXCEPT ![o.case].status = "REVERSED"]
    /\ PostReversal(CaseJournal(o.case))
    /\ UNCHANGED <<debt, doc>>

---------------------------------------------------------------------------
(* Receivables.                                                            *)

Collectable == {"PENDING", "PARTIALLY_RECEIVED", "OVERDUE"}

CollectChecks(o, v) == v.debt.status \in Collectable /\ o.amount <= v.debt.remaining

CollectEffect(r, o, v) ==
    LET remaining == Larger(0, v.debt.remaining - o.amount)
        collection == [NoDocument EXCEPT !.kind = "collection", !.debt = o.debt,
                         !.amount = o.amount, !.at = Now]
    IN  /\ doc' = [doc EXCEPT ![<<r, "main">>] = collection]
        /\ debt' = [debt EXCEPT ![o.debt] =
                      [@ EXCEPT !.received = v.debt.received + o.amount, !.remaining = remaining,
                                !.status = IF remaining = 0 THEN "RECEIVED"
                                           ELSE IF DueDay[o.debt] < today THEN "OVERDUE"
                                           ELSE "PARTIALLY_RECEIVED"]]
        /\ Post(Journal(collection))
        /\ UNCHANGED case

CloseDebt(o, status) ==
    /\ debt' = [debt EXCEPT ![o.debt] =
                  [@ EXCEPT !.status = status, !.remaining = 0, !.source = "REVERSED"]]
    /\ PostReversal(DebtJournal(o.debt))
    /\ UNCHANGED <<case, doc>>

(* cancel() does not look at the source transaction, whose reversal has    *)
(* closed the receivable as well.                                          *)
CancelChecks(o, v) == v.debt.status \notin {"CANCELLED", "REVERSED"} /\ v.debt.received = 0
CancelEffect(r, o, v) == CloseDebt(o, "CANCELLED")

ReverseDebtChecks(o, v) == v.debt.source = "COMPLETED" /\ v.debt.received = 0
ReverseDebtEffect(r, o, v) == CloseDebt(o, "REVERSED")

(* "Overdue" is decided here by the hour: on the day it is due the         *)
(* receivable may or may not be late.                                      *)
ReverseCollectionEffect(r, o, v) ==
    LET received == Larger(0, v.debt.received - v.doc.amount)
        remaining == Owing[o.debt] - received
    IN  /\ \E late \in {DueDay[o.debt] < today, DueDay[o.debt] <= today} :
             debt' = [debt EXCEPT ![o.debt] =
                        [@ EXCEPT !.received = received, !.remaining = remaining,
                                  !.status = IF remaining <= 0 THEN "RECEIVED"
                                             ELSE IF late THEN "OVERDUE"
                                             ELSE IF received <= 0 THEN "PENDING"
                                             ELSE "PARTIALLY_RECEIVED"]]
        /\ MarkReversed(o, v) /\ UNCHANGED case

---------------------------------------------------------------------------
(* Steps.                                                                  *)

Checks(r, o, v) ==
    CASE o.kind = "recover"           -> RecoverChecks(o, v)
      [] o.kind = "recoverAll"        -> RecoverAllChecks(r, o, v)
      [] o.kind = "combined"          -> CombinedChecks(o, v)
      [] o.kind = "payin"             -> PayInChecks(o, v)
      [] o.kind = "commission"        -> CommissionChecks(o, v)
      [] o.kind = "assess"            -> AssessChecks(o, v)
      [] o.kind = "reverseReceipt"    -> ReverseReceiptChecks(o, v)
      [] o.kind = "reverseAssessment" -> ReverseAssessmentChecks(o, v)
      [] o.kind = "reverseCase"       -> ReverseCaseChecks(o, v)
      [] o.kind = "collect"           -> CollectChecks(o, v)
      [] o.kind = "cancel"            -> CancelChecks(o, v)
      [] o.kind = "reverseDebt"       -> ReverseDebtChecks(o, v)
      [] o.kind \in {"reverseRecovery", "reverseCommission", "reverseCollection"} ->
           ReverseChecks(o, v)

(* The bound on what happens at the same time: two calls of the kinds that *)
(* may overlap, or one.                                                    *)
InFlight == {r \in Requests : Running(r)}
Allowed(kind) ==
    \/ InFlight = {} /\ kind \in workload.alone \cup workload.beside
    \/ /\ kind \in workload.beside /\ Cardinality(InFlight) = 1
       /\ \A r \in InFlight : op[r].kind \in workload.beside

(* create() of a receivable: only rows that nobody has seen are written.   *)
CreateReceivable(d) ==
    /\ debt[d] = NoDebt
    /\ Allowed("lend")
    /\ d \in FromAccount => holder[MoneyLock] = Nobody /\ ledger["MONEY"] >= Owing[d]
    /\ debt' = [debt EXCEPT ![d] =
                  [received |-> 0, remaining |-> Owing[d], source |-> "COMPLETED",
                   status |-> IF DueDay[d] < today THEN "OVERDUE" ELSE "PENDING"]]
    /\ Post(DebtJournal(d))
    /\ UNCHANGED <<case, doc, today, op, stage, view, workload, holder>>

(* create() of a card due, with a first recovery of n in the same          *)
(* transaction, or without one (n = 0).                                    *)
CreateCase(r, c, n) ==
    LET row == [NoCase EXCEPT !.left = Due[c], !.fee = Fee[c], !.unpaid = Fee[c],
                              !.born = Now, !.status = "PENDING"]
        recovery == Recovery(c, n, Due[c], Now + 1)
        charges == [l \in Ledgers |-> CaseJournal(c)[l] + (IF n = 0 THEN 0 ELSE Journal(recovery)[l])]
    IN  /\ case[c] = NoCase
        /\ Allowed("create")
        /\ holder[MoneyLock] = Nobody /\ ledger["MONEY"] >= Due[c] + PayoutCharge
        /\ n > 0 => n > GatewayCharge(n)
        /\ case' = [case EXCEPT ![c] = IF n = 0 THEN row ELSE Receive(row, recovery.principal[c], 0)]
        /\ IF n = 0 THEN UNCHANGED <<doc, stage>>
           ELSE /\ stage[r] = 0
                /\ stage' = [stage EXCEPT ![r] = -1]
                /\ doc' = [doc EXCEPT ![<<r, "main">>] = recovery]
        /\ Post(charges)
        /\ UNCHANGED <<debt, today, op, view, workload, holder>>

(* list() of the receivables: three updates keep the statuses in step with *)
(* the calendar; they wait for a row that is locked.                       *)
Listed(row, due) ==
    IF row.remaining <= 0 THEN row.status
    ELSE IF due < today /\ row.status \in {"PENDING", "PARTIALLY_RECEIVED"} THEN "OVERDUE"
    ELSE IF due = today /\ row.status = "OVERDUE"
    THEN (IF row.received <= 0 THEN "PENDING" ELSE "PARTIALLY_RECEIVED")
    ELSE row.status

List ==
    /\ \A d \in Debts : debt[d].status # Listed(debt[d], DueDay[d]) => holder[DebtLock(d)] = Nobody
    /\ debt' = [d \in Debts |-> [debt[d] EXCEPT !.status = Listed(debt[d], DueDay[d])]]
    /\ debt' # debt
    /\ UNCHANGED <<case, doc, ledger, today, op, stage, view, workload, holder>>

(* The calendar matters to receivables only.                               *)
NextDay ==
    /\ "lend" \in workload.alone \cup workload.beside
    /\ today < MaxDay /\ today' = today + 1
    /\ UNCHANGED <<debt, case, doc, ledger, op, stage, view, workload, holder>>

Calls ==
    LET cases == {c \in Cases : case[c].status # "ABSENT"}
        debts == {d \in Debts : debt[d].source # "ABSENT"}
        made(kinds) == {d \in Docs : doc[d].kind \in kinds}
        undo(kind, kinds) == {Call(kind, doc[d].case, doc[d].debt, 0, 0, d) : d \in made(kinds)}
    IN  {Call(k, c, None, n, 0, None) : k \in {"recover", "commission", "assess"},
            c \in cases, n \in Amounts}
        \cup {Call(k, None, None, n, 0, None) : k \in {"recoverAll", "combined", "payin"}, n \in Amounts}
        \cup {Call("payin", c, None, n, m, None) : c \in cases, n \in Amounts, m \in Amounts}
        \cup {Call("reverseCase", c, None, 0, 0, None) : c \in cases}
        \cup {Call("collect", None, d, n, 0, None) : d \in debts, n \in Amounts}
        \cup {Call(k, None, d, 0, 0, None) : k \in {"cancel", "reverseDebt"}, d \in debts}
        \cup undo("reverseRecovery", {"recovery"}) \cup undo("reverseReceipt", {"combined", "payin"})
        \cup undo("reverseCommission", {"commission"}) \cup undo("reverseAssessment", {"assessment"})
        \cup undo("reverseCollection", {"collection"})

Begin(r) ==
    /\ stage[r] = 0
    /\ \E o \in Calls : Allowed(o.kind) /\ o.part <= o.amount /\ op' = [op EXCEPT ![r] = o]
    /\ stage' = [stage EXCEPT ![r] = 1]
    /\ UNCHANGED <<debt, case, doc, ledger, today, view, workload, holder>>

(* What is listed before anything is locked.                               *)
Targets(o) == IF o.kind = "recoverAll" THEN {c \in Live : case[c].left > 0} ELSE Live

Look(o, v, look) ==
    [case |-> IF "case" \in look THEN case ELSE v.case,
     targets |-> IF "targets" \in look THEN Targets(o) ELSE v.targets,
     room |-> IF "targets" \in look THEN [c \in Cases |-> case[c].left] ELSE v.room,
     debt |-> IF "debt" \in look THEN debt[o.debt] ELSE v.debt,
     doc |-> IF "doc" \in look THEN doc[o.target] ELSE v.doc,
     blocked |-> IF "blocked" \notin look THEN v.blocked
                 ELSE IF o.kind = "reverseCase" THEN InUse(o.case) ELSE Blocked(o.target),
     funds |-> IF "funds" \in look THEN ledger["MONEY"] ELSE v.funds,
     claim |-> IF "claim" \in look THEN Claim ELSE v.claim]

PlanOf(r) == Plan(op[r], view[r])
AtEnd(r) == stage[r] > Len(PlanOf(r))
Wanted(r) == IF Running(r) /\ ~AtEnd(r) THEN PlanOf(r)[stage[r]].rows ELSE {}

Advance(r) ==
    /\ Running(r) /\ ~AtEnd(r)
    /\ Acquire(r, Wanted(r))
    /\ view' = [view EXCEPT ![r] = Look(op[r], view[r], PlanOf(r)[stage[r]].look)]
    /\ stage' = [stage EXCEPT ![r] = @ + 1]
    /\ UNCHANGED <<debt, case, doc, ledger, today, op, workload>>

Finish(r, next) ==
    /\ op' = [op EXCEPT ![r] = Idle]
    /\ stage' = [stage EXCEPT ![r] = next]
    /\ view' = [view EXCEPT ![r] = NoView]
    /\ ReleaseAll(r)
    /\ UNCHANGED <<today, workload>>

Reject(r) ==
    /\ Running(r) /\ AtEnd(r) /\ ~Checks(r, op[r], view[r])
    /\ Finish(r, 0) /\ UNCHANGED tables

Abort(r) == Running(r) /\ Finish(r, 0) /\ UNCHANGED tables

Commits(r, kind) ==
    Running(r) /\ op[r].kind = kind /\ AtEnd(r) /\ Checks(r, op[r], view[r]) /\ Finish(r, -1)

Recover(r)    == Commits(r, "recover") /\ RecoverEffect(r, op[r], view[r])
RecoverAll(r) == Commits(r, "recoverAll") /\ RecoverAllEffect(r, op[r], view[r])
Combined(r)   == Commits(r, "combined") /\ CombinedEffect(r, op[r], view[r])
TakePayIn(r)  == Commits(r, "payin") /\ PayInEffect(r, op[r], view[r])
Commission(r) == Commits(r, "commission") /\ CommissionEffect(r, op[r], view[r])
Assess(r)     == Commits(r, "assess") /\ AssessEffect(r, op[r], view[r])
Collect(r)    == Commits(r, "collect") /\ CollectEffect(r, op[r], view[r])
Cancel(r)     == Commits(r, "cancel") /\ CancelEffect(r, op[r], view[r])
ReverseRecovery(r)   == Commits(r, "reverseRecovery") /\ ReverseRecoveryEffect(r, op[r], view[r])
ReverseReceipt(r)    == Commits(r, "reverseReceipt") /\ ReverseReceiptEffect(r, op[r], view[r])
ReverseCommission(r) == Commits(r, "reverseCommission") /\ ReverseCommissionEffect(r, op[r], view[r])
ReverseAssessment(r) == Commits(r, "reverseAssessment") /\ ReverseAssessmentEffect(r, op[r], view[r])
ReverseCase(r)       == Commits(r, "reverseCase") /\ ReverseCaseEffect(r, op[r], view[r])
ReverseDebt(r)       == Commits(r, "reverseDebt") /\ ReverseDebtEffect(r, op[r], view[r])
ReverseCollection(r) == Commits(r, "reverseCollection") /\ ReverseCollectionEffect(r, op[r], view[r])

Init ==
    /\ debt = [d \in Debts |-> NoDebt]
    /\ case = [c \in Cases |-> NoCase]
    /\ doc = [d \in Docs |-> NoDocument]
    /\ ledger = [NoJournal EXCEPT !["MONEY"] = Opening]
    /\ today = 0
    /\ op = [r \in Requests |-> Idle]
    /\ stage = [r \in Requests |-> 0]
    /\ view = [r \in Requests |-> NoView]
    /\ workload \in Workloads
    /\ LocksInit(Rows)

Next ==
    \/ \E d \in Debts : CreateReceivable(d)
    \/ \E r \in Requests, c \in Cases, n \in Amounts \cup {0} : CreateCase(r, c, n)
    \/ List \/ NextDay
    \/ \E r \in Requests :
         \/ Begin(r) \/ Advance(r) \/ Reject(r) \/ Abort(r)
         \/ Recover(r) \/ RecoverAll(r) \/ Combined(r) \/ TakePayIn(r) \/ Commission(r)
         \/ Assess(r) \/ Collect(r) \/ Cancel(r) \/ ReverseRecovery(r) \/ ReverseReceipt(r)
         \/ ReverseCommission(r) \/ ReverseAssessment(r) \/ ReverseCase(r) \/ ReverseDebt(r)
         \/ ReverseCollection(r)

Spec == Init /\ [][Next]_vars

---------------------------------------------------------------------------
(* Properties.                                                             *)

(* Every variable has its type.                                            *)
View == [case : [Cases -> CaseRow], targets : SUBSET Cases, room : [Cases -> Int],
         debt : DebtRow, doc : Document, blocked : BOOLEAN, funds : Int, claim : Int]

TypeOK ==
    /\ debt \in [Debts -> DebtRow] /\ case \in [Cases -> CaseRow] /\ doc \in [Docs -> Document]
    /\ ledger \in [Ledgers -> Int] /\ today \in 0..MaxDay
    /\ op \in [Requests -> Operation] /\ stage \in [Requests -> Nat \cup {-1}]
    /\ view \in [Requests -> View] /\ workload \in Workloads
    /\ LocksTypeOK(Rows)

SumDocs(F(_)) == SumFunction([d \in Docs |-> IF Counts(d) THEN F(doc[d]) ELSE 0])

(* What a live case says was recovered and collected is what its active    *)
(* recoveries, receipts, Pay Ins and collections add up to, and its        *)
(* commission is what was assessed at first, what was assessed since, and  *)
(* what was collected on top; a receivable has received its collections.   *)
DuesBacked ==
    /\ \A c \in Live :
        /\ case[c].recovered = SumDocs(LAMBDA d : d.principal[c])
        /\ case[c].collected = SumDocs(LAMBDA d : d.commission[c])
        /\ case[c].fee = Fee[c] + SumDocs(LAMBDA d :
              IF d.case # c THEN 0 ELSE IF d.kind = "assessment" THEN d.amount ELSE d.extra)
    /\ \A b \in Debts : debt[b].source = "COMPLETED" =>
        debt[b].received = SumDocs(LAMBDA d : IF d.debt = b THEN d.amount ELSE 0)

(* A live case is COMPLETED exactly when its principal is recovered.       *)
StatusFollowsPrincipal ==
    \A c \in Live : case[c].status = MasterStatus(case[c].recovered, case[c].left)

(* Cases and receivables agree with the documents recorded against them,   *)
(* amounts and status, through recoveries, receipts, assessments and their *)
(* reversals, and what is paid from the account is there                   *)
(* (recordRecoveryTx(), recordCommissionTx(), reverse()).                  *)
CasesAgree == TypeOK /\ DuesBacked /\ StatusFollowsPrincipal /\ ledger["MONEY"] >= 0

(* "One customer-level recovery": the customer is owed something for it    *)
(* only when no principal of his is left open.                             *)
NoCreditWhileOwing ==
    [][\A r \in Requests :
          RecoverAll(r) /\ (\E d \in Docs : d[1] = r /\ doc'[d].credit > 0)
          => \A c \in view[r].targets : case'[c].left = 0]_vars

(* No two requests wait for each other.                                    *)
NoWaitCycle == ~WaitCycle([r \in Requests |-> Wanted(r)])

(* The receivables, the principals and the commissions are obligations.    *)
Items == ({"debt"} \X Debts) \cup ({"principal", "commission"} \X Cases)

StateOf(i) ==
    LET row == IF i[1] = "debt" THEN debt[i[2]].source ELSE case[i[2]].status
    IN  CASE row = "ABSENT" -> "none" [] row = "REVERSED" -> "void" [] OTHER -> "owed"

AmountOf(i) ==
    IF StateOf(i) = "none" THEN 0
    ELSE CASE i[1] = "debt"       -> Owing[i[2]]
           [] i[1] = "principal"  -> Due[i[2]]
           [] i[1] = "commission" -> case[i[2]].fee

SettledOf(i) ==
    CASE i[1] = "debt"       -> debt[i[2]].received
      [] i[1] = "principal"  -> case[i[2]].recovered
      [] i[1] = "commission" -> case[i[2]].collected

(* A case that has been reversed is out of every list, with its rows as    *)
(* they were.                                                              *)
RemainingOf(i) ==
    IF StateOf(i) = "void" THEN 0
    ELSE CASE i[1] = "debt"       -> debt[i[2]].remaining
           [] i[1] = "principal"  -> case[i[2]].left
           [] i[1] = "commission" -> case[i[2]].unpaid

Abstract ==
    INSTANCE Obligations WITH
        Adjustable <- {"commission"} \X Cases,
        state <- [i \in Items |-> StateOf(i)],
        amount <- [i \in Items |-> AmountOf(i)],
        settled <- [i \in Items |-> SettledOf(i)],
        remaining <- [i \in Items |-> RemainingOf(i)]

(* Everything the customer owes is an amount owed: it is never settled     *)
(* beyond its amount, what is open is what is not settled, it is voided    *)
(* only before anything is settled and never comes back.                   *)
DuesAreObligations == Abstract!Spec
=============================================================================
