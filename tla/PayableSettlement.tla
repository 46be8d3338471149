-------------------------- MODULE PayableSettlement --------------------------
(***************************************************************************)
(* What the shop owes a customer for card swipes, and every way that debt  *)
(* is settled and unsettled: payouts, recorded Pay Outs matched to it,     *)
(* advances applied to it, provider settlement receipts, cancellation and  *)
(* reversal.  Requests run concurrently, each in one READ COMMITTED        *)
(* transaction: it takes its row locks one by one, keeps what it read in   *)
(* its view, checks it, and writes everything when it commits.             *)
(*                                                                         *)
(* One customer with one card; amounts are integers, Rupee of them make    *)
(* one rupee, so that a payable may end in paise.                          *)
(***************************************************************************)
EXTENDS RowLocks, Integers, Sequences, Functions

CONSTANTS
    Payables,       \* the card swipes, each with its payable and its settlement
    Original,       \* what the customer is owed for each of them
    Expected,       \* what the provider owes the shop for each of them
    Accounts,       \* the shop's liquid accounts: drawers, banks, wallets
    CashAccounts,   \* those of type CASH
    Opening,        \* their opening balances
    Charge,         \* the charge of a payout from each of them, 0 but for wallets
    Amounts,        \* the amounts a request may carry
    Rupee,          \* how many units make one rupee
    Workload,       \* the kinds of request that occur
    MaxInFlight,    \* how many transactions may be open at once
    Apart,          \* the pairs of kinds that do not overlap
    None            \* no payable, account, request

Kinds == {"pay", "payout", "match", "unmatch", "apply", "unapply", "cancel",
          "reverseSource", "reversePayment", "reverseEntry", "receive",
          "reverseReceipt"}

SystemLedgers == {"PAYABLE", "RECEIVABLE", "CLEARING", "INCOME", "CHARGE", "ROUNDING"}
Ledgers == Accounts \cup SystemLedgers

ASSUME ConstantsAssumption ==
    /\ IsFiniteSet(Requests) /\ IsFiniteSet(Payables) /\ IsFiniteSet(Accounts)
    /\ Original \in [Payables -> Nat \ {0}]
    /\ Expected \in [Payables -> Nat \ {0}]
    /\ Accounts \cap SystemLedgers = {}
    /\ CashAccounts \subseteq Accounts
    /\ Opening \in [Accounts -> Nat]
    /\ Charge \in [Accounts -> Nat]
    /\ Amounts \subseteq Nat \ {0}
    /\ Rupee \in Nat \ {0}
    /\ Workload \subseteq Kinds /\ Apart \subseteq SUBSET Kinds
    /\ None \notin Requests \cup Payables \cup Accounts

VARIABLES
    payable,    \* CustomerPayable rows
    settlement, \* ProviderSettlement rows
    source,     \* status of the swipe transactions, ABSENT before they exist
    doc,        \* the transaction and detail row each request has recorded
    ledger,     \* balance of each ledger account, debit positive
    op,         \* the call each request is executing
    stage,      \* the next step of its plan
    view        \* what it has read

tables   == <<payable, settlement, source, doc, ledger>>
sessions == <<op, stage, view, holder>>
vars     == <<payable, settlement, source, doc, ledger, op, stage, view, holder>>

---------------------------------------------------------------------------
(* Rows.  OPEN stands for PENDING, PARTIALLY_PAID and OVERDUE, which differ *)
(* by the clock and by wording and which no operation here tells apart.    *)
(* The columns are signed: nothing in the schema keeps them from going     *)
(* below zero.                                                             *)

PayableRow == [paid : Int, offset : Int, remaining : Int,
               status : {"OPEN", "PAID", "CANCELLED", "REVERSED"}]

SettlementRow == [received : Int, remaining : Int,
                  status : {"OPEN", "SETTLED", "REVERSED"}]

(* A payout on a payable, a customer-level Pay Out entry, an advance       *)
(* offset or a provider receipt.  `amount` settles the obligation, `cash`  *)
(* is what left or reached the account; `toPayable` and `toReceivable` say *)
(* how a Pay Out was classified, `matched` and `applied` how much of each  *)
(* part has been used.                                                     *)
Document == [kind : {"none", "payment", "payout", "offset", "receipt"},
             payable : Payables \cup {None}, account : Accounts \cup {None},
             entry : Requests \cup {None},
             amount : Int, cash : Int, toPayable : Int, toReceivable : Int,
             applied : Int, matched : [Payables -> Int],
             status : {"COMPLETED", "REVERSED"}]

NoDocument == [kind |-> "none", payable |-> None, account |-> None, entry |-> None,
               amount |-> 0, cash |-> 0, toPayable |-> 0, toReceivable |-> 0,
               applied |-> 0, matched |-> [p \in Payables |-> 0],
               status |-> "COMPLETED"]

NoPayableRow == [paid |-> 0, offset |-> 0, remaining |-> 0, status |-> "OPEN"]
NoSettlementRow == [received |-> 0, remaining |-> 0, status |-> "OPEN"]

Void == {"CANCELLED", "REVERSED"}
Larger(m, n) == IF m < n THEN n ELSE m
Smaller(m, n) == IF m < n THEN m ELSE n

StatusFor(remaining) == IF remaining <= 0 THEN "PAID" ELSE "OPEN"

(* Documents that count.                                                   *)
Active(kind) == {r \in Requests : doc[r].kind = kind /\ doc[r].status = "COMPLETED"}

Matched(d) == SumFunction(d.matched)

(* cardLedgerBalance(): what the customer may still claim, as the sum over *)
(* the active swipes, their payouts and the customer-level Pay Outs.       *)
Claim ==
    SumFunction([p \in Payables |-> IF source[p] = "COMPLETED" THEN Original[p] ELSE 0])
    - SumFunction([r \in Requests |->
        IF r \in Active("payout") \/ (r \in Active("payment")
                                      /\ source[doc[r].payable] = "COMPLETED")
        THEN doc[r].amount ELSE 0])

(* Variant of UnmatchedPayOut that looks at reversed Pay Outs as well.     *)
UnmatchedPayOutEver ==
    \E e \in Requests : \/ doc[e].toPayable > Matched(doc[e])
                        \/ doc[e].toReceivable > doc[e].applied

(* A Pay Out of the customer that has not been fully used: pay() refuses   *)
(* to run while there is one.                                              *)
UnmatchedPayOut ==
    \E e \in Active("payout") : \/ doc[e].toPayable > Matched(doc[e])
                                \/ doc[e].toReceivable > doc[e].applied

---------------------------------------------------------------------------
(* Journals: what each document posts, as a change of every ledger         *)
(* account.  ledger.post() refuses a journal that does not balance.        *)

SourceJournal(p) ==
    [l \in Ledgers |-> CASE l = "CLEARING" -> Expected[p]
                         [] l = "PAYABLE"  -> -Original[p]
                         [] l = "INCOME"   -> Original[p] - Expected[p]
                         [] OTHER          -> 0]

(* The payable loses what is settled, the drawer the notes handed over;    *)
(* the difference is the rounding of the last payout.                      *)
PaymentJournal(d) ==
    [l \in Ledgers |-> CASE l = "PAYABLE"  -> d.amount
                         [] l = "ROUNDING" -> d.cash - d.amount
                         [] l = "CHARGE"   -> Charge[d.account]
                         [] l = d.account  -> -(d.cash + Charge[d.account])
                         [] OTHER          -> 0]

(* Variant of PayOutJournal that charges the whole Pay Out to the payable. *)
PayOutJournalUnsplit(d) ==
    [l \in Ledgers |-> CASE l = "PAYABLE"    -> d.amount
                         [] l = "CHARGE"     -> Charge[d.account]
                         [] l = d.account    -> -(d.cash + Charge[d.account])
                         [] OTHER            -> 0]

PayOutJournal(d) ==
    [l \in Ledgers |-> CASE l = "PAYABLE"    -> d.toPayable
                         [] l = "RECEIVABLE" -> d.toReceivable
                         [] l = "CHARGE"     -> Charge[d.account]
                         [] l = d.account    -> -(d.cash + Charge[d.account])
                         [] OTHER            -> 0]

OffsetJournal(d) ==
    [l \in Ledgers |-> CASE l = "PAYABLE"    -> d.amount
                         [] l = "RECEIVABLE" -> -d.amount
                         [] OTHER            -> 0]

ReceiptJournal(d) ==
    [l \in Ledgers |-> CASE l = d.account  -> d.cash
                         [] l = "CLEARING" -> -d.amount
                         [] OTHER          -> 0]

Post(journal) == ledger' = [l \in Ledgers |-> ledger[l] + journal[l]]
PostReversal(journal) == ledger' = [l \in Ledgers |-> ledger[l] - journal[l]]

---------------------------------------------------------------------------
(* Sessions.  A call is idle, running or done; a call that was rejected or *)
(* aborted left nothing behind and may be made again.                      *)

Operation == [kind : Kinds \cup {"idle", "done"}, payable : Payables \cup {None},
              account : Accounts \cup {None}, amount : Nat, part : Nat,
              entry : Requests \cup {None}, target : Requests \cup {None}]

(* A call of this kind on payable p and account a; `part` is what a Pay    *)
(* Out allocates at once, `entry` the Pay Out and `target` the other       *)
(* document that the call works on.                                        *)
Call(kind, p, a, amount, part, entry, target) ==
    [kind |-> kind, payable |-> p, account |-> a, amount |-> amount,
     part |-> part, entry |-> entry, target |-> target]

Idle == Call("idle", None, None, 0, 0, None, None)
Done == Call("done", None, None, 0, 0, None, None)

Running(r) == op[r].kind \in Kinds

(* What a transaction has read so far.                                     *)
NoView == [payable |-> [p \in Payables |-> NoPayableRow],
           settlement |-> NoSettlementRow, source |-> "ABSENT",
           doc |-> NoDocument, entry |-> NoDocument,
           funds |-> 0, claim |-> 0, unmatched |-> FALSE]

Rows == ({"payable", "settlement", "source"} \X Payables)
        \cup ({"document", "entry"} \X Requests) \cup ({"account"} \X Accounts)

PayableLock(p)    == <<"payable", p>>
SettlementLock(p) == <<"settlement", p>>
SourceLock(p)     == <<"source", p>>
DocumentLock(r)   == <<"document", r>>
EntryLock(r)      == <<"entry", r>>
AccountLock(a)    == <<"account", a>>

(* One step of a plan: lock these rows, then read these tables.            *)
Step(rows, look) == [rows |-> rows, look |-> look]

(* The payables a Pay Out was matched to.                                  *)
MatchedPayables(d) == {p \in Payables : d.matched[p] > 0}

(* Variant of the plan below that takes the account before the payable.    *)
PayPlanAccountFirst(o) ==
    << Step({AccountLock(o.account)}, {"funds"}),
       Step({PayableLock(o.payable)}, {"payable"}), Step({}, {"unmatched"}) >>

(* Variant of the plan below that reads the account without locking it.    *)
PayPlanFundsUnlocked(o) ==
    << Step({PayableLock(o.payable)}, {"payable"}), Step({}, {"unmatched"}),
       Step({}, {"funds"}) >>

(* pay(): the unmatched Pay Outs are looked up without a lock.             *)
PayPlan(o) ==
    << Step({PayableLock(o.payable)}, {"payable"}), Step({}, {"unmatched"}),
       Step({AccountLock(o.account)}, {"funds"}) >>

(* A Pay Out locks the payable it allocates to, if any, then its account;  *)
(* the balance of the customer is computed from unlocked rows.             *)
PayOutPlan(o) ==
    IF o.payable = None
    THEN << Step({AccountLock(o.account)}, {"funds"}), Step({}, {"claim"}) >>
    ELSE << Step({PayableLock(o.payable)}, {"payable", "source"}),
            Step({AccountLock(o.account)}, {"funds"}), Step({}, {"claim"}) >>

(* Variant of the plan below that does not lock the payable.               *)
AdvancePlanPayableUnlocked(o, looks) ==
    << Step({DocumentLock(o.entry)}, {}), Step({}, {"payable", "source"}),
       Step({EntryLock(o.entry)}, looks) >>

(* Variant of the plan below that does not lock the Pay Out.               *)
AdvancePlanPayOutUnlocked(o, looks) ==
    << Step({PayableLock(o.payable)}, {"payable", "source"}), Step({}, looks) >>

(* Matches and advances share one lock order: the Pay Out's transaction,   *)
(* the payable, the Pay Out's detail row.                                  *)
AdvancePlan(o, looks) ==
    << Step({DocumentLock(o.entry)}, {}),
       Step({PayableLock(o.payable)}, {"payable", "source"}),
       Step({EntryLock(o.entry)}, looks) >>

(* cancel() locks the payable and reads everything; its updates of the     *)
(* transaction and of the settlement wait for their rows.                  *)
CancelPlan(o) ==
    << Step({PayableLock(o.payable)}, {"payable", "settlement"}),
       Step({SourceLock(o.payable)}, {}), Step({SettlementLock(o.payable)}, {}) >>

(* reverse() locks the transaction and reads everything that hangs on it;  *)
(* the payable of a swipe is locked and read again.                        *)
ReverseSourcePlan(o) ==
    << Step({SourceLock(o.payable)}, {"source", "settlement"}),
       Step({PayableLock(o.payable)}, {"payable"}),
       Step({SettlementLock(o.payable)}, {}) >>

(* The payable of a payout is read without a lock.                         *)
ReversePaymentPlan(o) ==
    << Step({DocumentLock(o.target)}, {"doc"}), Step({}, {"payable"}),
       Step({PayableLock(o.payable)}, {}) >>

(* The payables of a Pay Out are locked one by one, then read.             *)
ReverseEntryPlan(o, v) ==
    << Step({DocumentLock(o.entry)}, {"entry"}),
       Step({PayableLock(p) : p \in MatchedPayables(v.entry)}, {"payable"}) >>

ReceivePlan(o) == << Step({SettlementLock(o.payable)}, {"settlement"}) >>

ReverseReceiptPlan(o) ==
    << Step({DocumentLock(o.target)}, {"doc"}),
       Step({AccountLock(o.account)}, {"funds"}),
       Step({SettlementLock(o.payable)}, {"settlement"}) >>

(* The locks and reads of each operation, in the order of the code.        *)
Plan(o, v) ==
    CASE o.kind = "pay"            -> PayPlan(o)
      [] o.kind = "payout"         -> PayOutPlan(o)
      [] o.kind \in {"match", "unmatch", "apply"} -> AdvancePlan(o, {"entry"})
      [] o.kind = "unapply"        -> AdvancePlan(o, {"doc", "entry"})
      [] o.kind = "cancel"         -> CancelPlan(o)
      [] o.kind = "reverseSource"  -> ReverseSourcePlan(o)
      [] o.kind = "reversePayment" -> ReversePaymentPlan(o)
      [] o.kind = "reverseEntry"   -> ReverseEntryPlan(o, v)
      [] o.kind = "receive"        -> ReceivePlan(o)
      [] o.kind = "reverseReceipt" -> ReverseReceiptPlan(o)

---------------------------------------------------------------------------
(* The operations.  XChecks(o, v) is what the method requires of what it   *)
(* has read, XEffect(r, o, v) all it writes when the transaction commits.  *)
(* A column written as an absolute value comes from the view, a column     *)
(* written with `increment` or not at all from the row itself.             *)

(* Variant of Nearest that rounds up.                                      *)
NearestAbove(n) == ((n + Rupee - 1) \div Rupee) * Rupee

Nearest(n) == ((2 * n + Rupee) \div (2 * Rupee)) * Rupee

(* cashPayoutRounding(): the last payout in notes may differ from the      *)
(* payable by half a rupee, because it is the nearest whole rupee to it.   *)
CashPayoutRounding(remaining, cashPaid, isCash) ==
    IF isCash /\ cashPaid % Rupee = 0 /\ Nearest(remaining) = cashPaid
    THEN remaining - cashPaid ELSE 0

(* ensureSufficientFunds(): a drawer short in the ledger may still pay out *)
(* of the opening count of its session, which is not modelled here.        *)
SufficientFunds(a, funds, n) == a \in CashAccounts \/ funds >= n

WholeRupees(a, n) == a \in CashAccounts => n % Rupee = 0

(* pay()                                                                   *)
Settled(o, v) ==
    o.amount + CashPayoutRounding(v.payable[o.payable].remaining, o.amount,
                                  o.account \in CashAccounts)

PayChecks(o, v) ==
    /\ v.payable[o.payable].status = "OPEN"
    /\ ~v.unmatched
    /\ Settled(o, v) <= v.payable[o.payable].remaining
    /\ WholeRupees(o.account, o.amount)
    /\ SufficientFunds(o.account, v.funds, o.amount + Charge[o.account])

PayEffect(r, o, v) ==
    LET row == v.payable[o.payable]
        remaining == Larger(0, row.remaining - Settled(o, v))
        payment == [NoDocument EXCEPT !.kind = "payment", !.payable = o.payable,
                      !.account = o.account, !.amount = Settled(o, v), !.cash = o.amount]
    IN  /\ payable' = [payable EXCEPT ![o.payable] =
                         [@ EXCEPT !.paid = row.paid + Settled(o, v),
                                   !.remaining = remaining,
                                   !.status = StatusFor(remaining)]]
        /\ doc' = [doc EXCEPT ![r] = payment]
        /\ Post(PaymentJournal(payment))
        /\ UNCHANGED <<settlement, source>>

(* createCardLedgerEntry() with direction PAY_OUT: money leaves first, what *)
(* it settles is decided from the customer's balance as it was read.       *)
GenericPayable(o, v) == Smaller(o.amount - o.part, Larger(v.claim - o.part, 0))

PayOutChecks(o, v) ==
    /\ o.payable # None => /\ v.source = "COMPLETED"
                           /\ o.part <= v.payable[o.payable].remaining
    /\ WholeRupees(o.account, o.amount)
    /\ SufficientFunds(o.account, v.funds, o.amount + Charge[o.account])

PayOutEffect(r, o, v) ==
    LET row == v.payable[o.payable]
        remaining == Larger(0, row.remaining - o.part)
        payout == [NoDocument EXCEPT !.kind = "payout", !.account = o.account,
                     !.amount = o.amount, !.cash = o.amount,
                     !.toPayable = o.part + GenericPayable(o, v),
                     !.toReceivable = o.amount - o.part - GenericPayable(o, v),
                     !.matched = [p \in Payables |-> IF p = o.payable THEN o.part ELSE 0]]
    IN  /\ payable' = IF o.payable = None THEN payable
                      ELSE [payable EXCEPT ![o.payable] =
                              [@ EXCEPT !.paid = row.paid + o.part,
                                        !.remaining = remaining,
                                        !.status = StatusFor(remaining)]]
        /\ doc' = [doc EXCEPT ![r] = payout]
        /\ Post(PayOutJournal(payout))
        /\ UNCHANGED <<settlement, source>>

(* matchExistingPayOut(): no money moves, the payable-classified part of a *)
(* recorded Pay Out is put against a swipe.                                *)
MatchChecks(o, v) ==
    /\ v.source = "COMPLETED"
    /\ v.payable[o.payable].status = "OPEN"
    /\ v.payable[o.payable].remaining >= o.amount
    /\ v.entry.status = "COMPLETED"
    /\ v.entry.toPayable - Matched(v.entry) >= o.amount
    /\ v.entry.matched[o.payable] = 0      \* unique (entry, payable)

MatchEffect(r, o, v) ==
    LET remaining == v.payable[o.payable].remaining - o.amount
    IN  /\ payable' = [payable EXCEPT ![o.payable] =
                         [payable[o.payable] EXCEPT
                            !.paid = @ + o.amount, !.remaining = remaining,
                            !.status = StatusFor(remaining)]]
        /\ doc' = [doc EXCEPT ![o.entry].matched[o.payable] = o.amount]
        /\ UNCHANGED <<settlement, source, ledger>>

(* reverseExistingPayOutMatch()                                            *)
UnmatchChecks(o, v) ==
    /\ v.entry.matched[o.payable] > 0
    /\ v.payable[o.payable].paid >= v.entry.matched[o.payable]
    /\ v.payable[o.payable].status \notin Void

UnmatchEffect(r, o, v) ==
    LET amount == v.entry.matched[o.payable]
    IN  /\ payable' = [payable EXCEPT ![o.payable] =
                         [payable[o.payable] EXCEPT
                            !.paid = @ - amount,
                            !.remaining = v.payable[o.payable].remaining + amount,
                            !.status = "OPEN"]]
        /\ doc' = [doc EXCEPT ![o.entry].matched[o.payable] = 0]
        /\ UNCHANGED <<settlement, source, ledger>>

(* applyAdvance(): the part of a Pay Out that the customer owes back       *)
(* settles a swipe.                                                        *)
ApplyChecks(o, v) ==
    /\ v.payable[o.payable].status = "OPEN"
    /\ v.payable[o.payable].remaining >= o.amount
    /\ v.entry.status = "COMPLETED"
    /\ v.entry.toReceivable - v.entry.applied >= o.amount

ApplyEffect(r, o, v) ==
    LET remaining == Larger(0, v.payable[o.payable].remaining - o.amount)
        offset == [NoDocument EXCEPT !.kind = "offset", !.payable = o.payable,
                     !.entry = o.entry, !.amount = o.amount]
    IN  /\ payable' = [payable EXCEPT ![o.payable] =
                         [payable[o.payable] EXCEPT
                            !.offset = @ + o.amount, !.remaining = remaining,
                            !.status = StatusFor(remaining)]]
        /\ doc' = [doc EXCEPT ![o.entry].applied = @ + o.amount, ![r] = offset]
        /\ Post(OffsetJournal(offset))
        /\ UNCHANGED <<settlement, source>>

(* reverseAdvance()                                                        *)
UnapplyChecks(o, v) ==
    /\ v.doc.status = "COMPLETED"
    /\ v.payable[o.payable].status \notin Void
    /\ v.entry.status = "COMPLETED"
    /\ v.payable[o.payable].offset >= v.doc.amount
    /\ v.entry.applied >= v.doc.amount

(* Variant of UnapplyEffect that only reopens the payable.                 *)
UnapplyEffectKeepsOffset(r, o, v) ==
    LET row == v.payable[o.payable]
    IN  /\ payable' = [payable EXCEPT ![o.payable] =
                         [@ EXCEPT !.remaining = row.remaining + v.doc.amount,
                                   !.status = "OPEN"]]
        /\ doc' = [doc EXCEPT ![o.entry].applied = @ - v.doc.amount,
                              ![o.target].status = "REVERSED"]
        /\ PostReversal(OffsetJournal(v.doc))
        /\ UNCHANGED <<settlement, source>>

UnapplyEffect(r, o, v) ==
    LET row == v.payable[o.payable]
    IN  /\ payable' = [payable EXCEPT ![o.payable] =
                         [@ EXCEPT !.offset = row.offset - v.doc.amount,
                                   !.remaining = row.remaining + v.doc.amount,
                                   !.status = "OPEN"]]
        /\ doc' = [doc EXCEPT ![o.entry].applied = @ - v.doc.amount,
                              ![o.target].status = "REVERSED"]
        /\ PostReversal(OffsetJournal(v.doc))
        /\ UNCHANGED <<settlement, source>>

(* cancel() and reverse() of the swipe itself: both undo the source        *)
(* journal and close the payable and the provider settlement; only the     *)
(* status they leave on the payable differs.                               *)
(* Variant of VoidChecks that forgets the payouts.                         *)
VoidChecksOffsetOnly(o, v) ==
    v.payable[o.payable].offset = 0 /\ v.settlement.received = 0

VoidChecks(o, v) ==
    /\ v.payable[o.payable].paid = 0 /\ v.payable[o.payable].offset = 0
    /\ v.settlement.received = 0

CancelChecks(o, v) == v.payable[o.payable].status \notin Void /\ VoidChecks(o, v)

ReverseSourceChecks(o, v) == v.source = "COMPLETED" /\ VoidChecks(o, v)

(* Variant of VoidEffect that stores the payable's status everywhere.      *)
VoidEffectOneStatus(p, status) ==
    /\ payable' = [payable EXCEPT ![p] = [@ EXCEPT !.status = status, !.remaining = 0]]
    /\ settlement' = [settlement EXCEPT ![p] = [@ EXCEPT !.status = status, !.remaining = 0]]
    /\ source' = [source EXCEPT ![p] = status]
    /\ PostReversal(SourceJournal(p))
    /\ UNCHANGED doc

VoidEffect(p, status) ==
    /\ payable' = [payable EXCEPT ![p] = [@ EXCEPT !.status = status, !.remaining = 0]]
    /\ settlement' = [settlement EXCEPT ![p] =
                        [@ EXCEPT !.status = "REVERSED", !.remaining = 0]]
    /\ source' = [source EXCEPT ![p] = "REVERSED"]
    /\ PostReversal(SourceJournal(p))
    /\ UNCHANGED doc

CancelEffect(r, o, v) == VoidEffect(o.payable, "CANCELLED")

ReverseSourceEffect(r, o, v) == VoidEffect(o.payable, "REVERSED")

(* reverse() of a payout: the payable is read without a lock.              *)
ReversePaymentChecks(o, v) == v.doc.status = "COMPLETED"

(* Variant of ReversePaymentEffect that forgets the advances.              *)
ReversePaymentEffectNoOffset(r, o, v) ==
    LET row == v.payable[o.payable]
        paid == Larger(0, row.paid - v.doc.amount)
        remaining == Original[o.payable] - paid
    IN  /\ payable' = [payable EXCEPT ![o.payable] =
                         [@ EXCEPT !.paid = paid, !.remaining = remaining,
                                   !.status = StatusFor(remaining)]]
        /\ doc' = [doc EXCEPT ![o.target].status = "REVERSED"]
        /\ PostReversal(PaymentJournal(v.doc))
        /\ UNCHANGED <<settlement, source>>

ReversePaymentEffect(r, o, v) ==
    LET row == v.payable[o.payable]
        paid == Larger(0, row.paid - v.doc.amount)
        remaining == Original[o.payable] - paid - row.offset
    IN  /\ payable' = [payable EXCEPT ![o.payable] =
                         [@ EXCEPT !.paid = paid, !.remaining = remaining,
                                   !.status = StatusFor(remaining)]]
        /\ doc' = [doc EXCEPT ![o.target].status = "REVERSED"]
        /\ PostReversal(PaymentJournal(v.doc))
        /\ UNCHANGED <<settlement, source>>

(* reverse() of a Pay Out: each of its allocations is taken back.          *)
ReverseEntryChecks(o, v) == v.entry.status = "COMPLETED" /\ v.entry.applied = 0

(* Variant of ReverseEntryEffect that leaves the allocations in place.     *)
ReverseEntryEffectKeepsPaid(r, o, v) ==
    /\ doc' = [doc EXCEPT ![o.entry].status = "REVERSED"]
    /\ PostReversal(PayOutJournal(v.entry))
    /\ UNCHANGED <<payable, settlement, source>>

ReverseEntryEffect(r, o, v) ==
    LET paid(p) == Larger(0, v.payable[p].paid - v.entry.matched[p])
        remaining(p) == Larger(0, Original[p] - paid(p) - v.payable[p].offset)
    IN  /\ payable' = [p \in Payables |->
                         IF v.entry.matched[p] > 0
                         THEN [payable[p] EXCEPT !.paid = paid(p), !.remaining = remaining(p),
                                                 !.status = StatusFor(remaining(p))]
                         ELSE payable[p]]
        /\ doc' = [doc EXCEPT ![o.entry].status = "REVERSED"]
        /\ PostReversal(PayOutJournal(v.entry))
        /\ UNCHANGED <<settlement, source>>

(* receiveWithinTransaction(): the provider pays the shop.                 *)
ReceiveChecks(o, v) ==
    v.settlement.status = "OPEN" /\ o.amount <= v.settlement.remaining

ReceiveEffect(r, o, v) ==
    LET remaining == Larger(0, v.settlement.remaining - o.amount)
        receipt == [NoDocument EXCEPT !.kind = "receipt", !.payable = o.payable,
                      !.account = o.account, !.amount = o.amount, !.cash = o.amount]
    IN  /\ settlement' = [settlement EXCEPT ![o.payable] =
                            [received |-> v.settlement.received + o.amount,
                             remaining |-> remaining,
                             status |-> IF remaining = 0 THEN "SETTLED" ELSE "OPEN"]]
        /\ doc' = [doc EXCEPT ![r] = receipt]
        /\ Post(ReceiptJournal(receipt))
        /\ UNCHANGED <<payable, source>>

(* reverse() of a receipt: the account must still hold the money.          *)
ReverseReceiptChecks(o, v) == v.doc.status = "COMPLETED" /\ v.funds >= v.doc.amount

ReverseReceiptEffect(r, o, v) ==
    LET received == Larger(0, v.settlement.received - v.doc.amount)
        remaining == Larger(0, Expected[o.payable] - received)
    IN  /\ settlement' = [settlement EXCEPT ![o.payable] =
                            [received |-> received, remaining |-> remaining,
                             status |-> IF received > 0 /\ remaining = 0
                                        THEN "SETTLED" ELSE "OPEN"]]
        /\ doc' = [doc EXCEPT ![o.target].status = "REVERSED"]
        /\ PostReversal(ReceiptJournal(v.doc))
        /\ UNCHANGED <<payable, source>>

---------------------------------------------------------------------------
(* Steps.                                                                  *)

Checks(o, v) ==
    CASE o.kind = "pay"            -> PayChecks(o, v)
      [] o.kind = "payout"         -> PayOutChecks(o, v)
      [] o.kind = "match"          -> MatchChecks(o, v)
      [] o.kind = "unmatch"        -> UnmatchChecks(o, v)
      [] o.kind = "apply"          -> ApplyChecks(o, v)
      [] o.kind = "unapply"        -> UnapplyChecks(o, v)
      [] o.kind = "cancel"         -> CancelChecks(o, v)
      [] o.kind = "reverseSource"  -> ReverseSourceChecks(o, v)
      [] o.kind = "reversePayment" -> ReversePaymentChecks(o, v)
      [] o.kind = "reverseEntry"   -> ReverseEntryChecks(o, v)
      [] o.kind = "receive"        -> ReceiveChecks(o, v)
      [] o.kind = "reverseReceipt" -> ReverseReceiptChecks(o, v)

(* createCardSwipe(), commission deducted, without receipt or payout in    *)
(* the same call: it only creates rows, so it waits for nobody.            *)
RecordSwipe(p) ==
    /\ source[p] = "ABSENT"
    /\ source' = [source EXCEPT ![p] = "COMPLETED"]
    /\ payable' = [payable EXCEPT ![p] = [NoPayableRow EXCEPT !.remaining = Original[p]]]
    /\ settlement' = [settlement EXCEPT ![p] = [NoSettlementRow EXCEPT !.remaining = Expected[p]]]
    /\ Post(SourceJournal(p))
    /\ UNCHANGED <<doc, op, stage, view, holder>>

(* The calls that can be made: on rows that exist, with a document of the  *)
(* right kind, whatever their status.                                      *)
Calls ==
    LET recorded == {p \in Payables : source[p] # "ABSENT"}
        made(kind) == {e \in Requests : doc[e].kind = kind}
    IN  {Call("pay", p, a, n, 0, None, None) : p \in recorded, a \in Accounts, n \in Amounts}
        \cup {Call("payout", None, a, n, 0, None, None) : a \in Accounts, n \in Amounts}
        \cup {Call("payout", p, a, n, m, None, None) :
                p \in recorded, a \in Accounts, n \in Amounts, m \in Amounts}
        \cup {Call(k, p, None, n, 0, e, None) : k \in {"match", "apply"},
                p \in recorded, n \in Amounts, e \in made("payout")}
        \cup {Call("unmatch", p, None, 0, 0, e, None) : p \in recorded, e \in made("payout")}
        \cup {Call("unapply", doc[d].payable, None, 0, 0, doc[d].entry, d) : d \in made("offset")}
        \cup {Call(k, p, None, 0, 0, None, None) :
                k \in {"cancel", "reverseSource"}, p \in recorded}
        \cup {Call("reversePayment", doc[d].payable, None, 0, 0, None, d) : d \in made("payment")}
        \cup {Call("reverseEntry", None, None, 0, 0, e, None) : e \in made("payout")}
        \cup {Call("receive", p, a, n, 0, None, None) :
                p \in recorded, a \in Accounts \ CashAccounts, n \in Amounts}
        \cup {Call("reverseReceipt", doc[d].payable, doc[d].account, 0, 0, None, d) :
                d \in made("receipt")}

(* What the caller or an early lookup rules out before the transaction.    *)
WellFormed(o) ==
    /\ o.kind = "payout" => o.part <= o.amount
    /\ o.kind = "unmatch" => doc[o.entry].matched[o.payable] > 0

Begin(r) ==
    /\ op[r] = Idle
    /\ Cardinality({s \in Requests : Running(s)}) < MaxInFlight
    /\ \E o \in Calls : /\ o.kind \in Workload /\ WellFormed(o)
                        /\ \A s \in Requests : Running(s) => {o.kind, op[s].kind} \notin Apart
                        /\ op' = [op EXCEPT ![r] = o]
    /\ stage' = [stage EXCEPT ![r] = 1]
    /\ UNCHANGED <<payable, settlement, source, doc, ledger, view, holder>>

(* The reads of one step: rows of the tables as they are now, kept in the  *)
(* view until the transaction ends.                                        *)
Subjects(o, v) == {o.payable} \cup
                  (IF o.kind = "reverseEntry" THEN MatchedPayables(v.entry) ELSE {})

Look(o, v, look) ==
    [payable |-> IF "payable" \in look
                 THEN [p \in Payables |-> IF p \in Subjects(o, v) THEN payable[p]
                                                                  ELSE v.payable[p]]
                 ELSE v.payable,
     settlement |-> IF "settlement" \in look THEN settlement[o.payable] ELSE v.settlement,
     source |-> IF "source" \in look THEN source[o.payable] ELSE v.source,
     doc |-> IF "doc" \in look THEN doc[o.target] ELSE v.doc,
     entry |-> IF "entry" \in look THEN doc[o.entry] ELSE v.entry,
     funds |-> IF "funds" \in look THEN ledger[o.account] ELSE v.funds,
     claim |-> IF "claim" \in look THEN Claim ELSE v.claim,
     unmatched |-> IF "unmatched" \in look THEN UnmatchedPayOut ELSE v.unmatched]

PlanOf(r) == Plan(op[r], view[r])
AtEnd(r) == stage[r] > Len(PlanOf(r))

(* The rows a running request asks for next.                               *)
Wanted(r) == IF Running(r) /\ ~AtEnd(r) THEN PlanOf(r)[stage[r]].rows ELSE {}

Advance(r) ==
    /\ Running(r)
    /\ ~AtEnd(r)
    /\ Acquire(r, Wanted(r))
    /\ view' = [view EXCEPT ![r] = Look(op[r], view[r], PlanOf(r)[stage[r]].look)]
    /\ stage' = [stage EXCEPT ![r] = @ + 1]
    /\ UNCHANGED <<payable, settlement, source, doc, ledger, op>>

(* The transaction of r ends and leaves r with the call o.                 *)
Finish(r, o) ==
    /\ op' = [op EXCEPT ![r] = o]
    /\ stage' = [stage EXCEPT ![r] = 0]
    /\ view' = [view EXCEPT ![r] = NoView]
    /\ ReleaseAll(r)

(* A check failed: the method throws and Prisma rolls back.                *)
Reject(r) ==
    /\ Running(r) /\ AtEnd(r) /\ ~Checks(op[r], view[r])
    /\ Finish(r, Idle)
    /\ UNCHANGED tables

(* At any point the transaction may be lost: Prisma's timeout, a deadlock  *)
(* victim, a broken connection, a crash of the API, a drawer found closed. *)
Abort(r) == Running(r) /\ Finish(r, Idle) /\ UNCHANGED tables

Commits(r, kind) ==
    op[r].kind = kind /\ AtEnd(r) /\ Checks(op[r], view[r]) /\ Finish(r, Done)

Pay(r)            == Commits(r, "pay") /\ PayEffect(r, op[r], view[r])
PayOut(r)         == Commits(r, "payout") /\ PayOutEffect(r, op[r], view[r])
Match(r)          == Commits(r, "match") /\ MatchEffect(r, op[r], view[r])
Unmatch(r)        == Commits(r, "unmatch") /\ UnmatchEffect(r, op[r], view[r])
Apply(r)          == Commits(r, "apply") /\ ApplyEffect(r, op[r], view[r])
Unapply(r)        == Commits(r, "unapply") /\ UnapplyEffect(r, op[r], view[r])
Cancel(r)         == Commits(r, "cancel") /\ CancelEffect(r, op[r], view[r])
ReverseSource(r)  == Commits(r, "reverseSource") /\ ReverseSourceEffect(r, op[r], view[r])
ReversePayment(r) == Commits(r, "reversePayment") /\ ReversePaymentEffect(r, op[r], view[r])
ReverseEntry(r)   == Commits(r, "reverseEntry") /\ ReverseEntryEffect(r, op[r], view[r])
Receive(r)        == Commits(r, "receive") /\ ReceiveEffect(r, op[r], view[r])
ReverseReceipt(r) == Commits(r, "reverseReceipt") /\ ReverseReceiptEffect(r, op[r], view[r])

Init ==
    /\ payable = [p \in Payables |-> NoPayableRow]
    /\ settlement = [p \in Payables |-> NoSettlementRow]
    /\ source = [p \in Payables |-> "ABSENT"]
    /\ doc = [r \in Requests |-> NoDocument]
    /\ ledger = [l \in Ledgers |-> IF l \in Accounts THEN Opening[l] ELSE 0]
    /\ op = [r \in Requests |-> Idle]
    /\ stage = [r \in Requests |-> 0]
    /\ view = [r \in Requests |-> NoView]
    /\ LocksInit(Rows)

Commit(r) ==
    \/ Pay(r) \/ PayOut(r) \/ Match(r) \/ Unmatch(r) \/ Apply(r) \/ Unapply(r)
    \/ Cancel(r) \/ ReverseSource(r) \/ ReversePayment(r) \/ ReverseEntry(r)
    \/ Receive(r) \/ ReverseReceipt(r)

Next ==
    \/ \E p \in Payables : RecordSwipe(p)
    \/ \E r \in Requests :
         Begin(r) \/ Advance(r) \/ Reject(r) \/ Abort(r) \/ Commit(r)

Spec == Init /\ [][Next]_vars

(* PostgreSQL queues the transactions that wait for a row, so one that     *)
(* asks again and again while others come and go gets it; the API process  *)
(* runs what it can run.  Nobody has to begin a call, and none has to be   *)
(* aborted.                                                                *)
Fairness ==
    \A r \in Requests :
        SF_vars(Advance(r)) /\ WF_vars(Reject(r)) /\ WF_vars(Commit(r))

FairSpec == Spec /\ Fairness

---------------------------------------------------------------------------
(* Properties.                                                             *)

(* Every variable has its type.                                            *)
View == [payable : [Payables -> PayableRow], settlement : SettlementRow,
         source : {"ABSENT", "COMPLETED", "REVERSED"},
         doc : Document, entry : Document,
         funds : Int, claim : Int, unmatched : BOOLEAN]

TypeOK ==
    /\ payable \in [Payables -> PayableRow]
    /\ settlement \in [Payables -> SettlementRow]
    /\ source \in [Payables -> {"ABSENT", "COMPLETED", "REVERSED"}]
    /\ doc \in [Requests -> Document]
    /\ ledger \in [Ledgers -> Int]
    /\ op \in [Requests -> Operation]
    /\ stage \in [Requests -> Nat]
    /\ view \in [Requests -> View]
    /\ LocksTypeOK(Rows)

Settlements(p, kind) ==
    SumFunction([r \in Requests |-> IF r \in Active(kind) /\ doc[r].payable = p
                                    THEN doc[r].amount ELSE 0])

Allocations(p) ==
    SumFunction([r \in Requests |-> IF r \in Active("payout") THEN doc[r].matched[p] ELSE 0])

(* PayablesService.reconciliation(): what a live payable says was paid is  *)
(* what its active payouts and the active allocations to it add up to, and *)
(* the same of its advance offsets.                                        *)
PaidIsBacked ==
    \A p \in Payables : payable[p].status \notin Void =>
        /\ payable[p].paid = Settlements(p, "payment") + Allocations(p)
        /\ payable[p].offset = Settlements(p, "offset")

(* original = paid + offset + remaining on every recorded live payable, and *)
(* it is PAID exactly when nothing remains.                                *)
Conservation ==
    \A p \in Payables : source[p] # "ABSENT" /\ payable[p].status \notin Void =>
        /\ payable[p].paid >= 0 /\ payable[p].offset >= 0 /\ payable[p].remaining >= 0
        /\ payable[p].paid + payable[p].offset + payable[p].remaining = Original[p]
        /\ payable[p].status = "PAID" <=> payable[p].remaining = 0

(* The control account of customer payables carries exactly what the rows  *)
(* say is still owed, less the Pay Outs already charged to it that have    *)
(* not been matched to a payable yet.                                      *)
PayableControl ==
    -ledger["PAYABLE"] =
        SumFunction([p \in Payables |-> payable[p].remaining])
        - SumFunction([e \in Requests |-> IF e \in Active("payout")
                                          THEN doc[e].toPayable - Matched(doc[e]) ELSE 0])

(* The same for what customers owe back: the advances not yet applied.     *)
ReceivableControl ==
    ledger["RECEIVABLE"] =
        SumFunction([e \in Requests |-> IF e \in Active("payout")
                                        THEN doc[e].toReceivable - doc[e].applied ELSE 0])

(* And for what the provider still has to settle.                          *)
ClearingControl ==
    ledger["CLEARING"] = SumFunction([p \in Payables |-> settlement[p].remaining])

(* The three control accounts together carry what the rows say is open,    *)
(* whatever is settled, taken back and classified at the same time         *)
(* (the journals of pay(), createCardLedgerEntry(), applyAdvance() and     *)
(* receiveWithinTransaction(), and reverse(), which mirrors them).         *)
ControlAccounts == PayableControl /\ ReceivableControl /\ ClearingControl

(* The journals of a run leave debits equal to credits, the rounding of    *)
(* cash and the payout charge included.                                    *)
TrialBalance == SumFunction(ledger) = SumFunction(Opening)

(* No Pay Out is used twice: neither its matched nor its applied part      *)
(* exceeds what was classified, and the applied part is what its active    *)
(* offsets say.                                                            *)
PayOutUsedOnce ==
    \A e \in Requests : doc[e].kind = "payout" =>
        /\ Matched(doc[e]) <= doc[e].toPayable
        /\ doc[e].applied <= doc[e].toReceivable
        /\ doc[e].applied = SumFunction([r \in Requests |->
                               IF r \in Active("offset") /\ doc[r].entry = e
                               THEN doc[r].amount ELSE 0])

(* A cancelled or reversed swipe leaves nothing behind: no customer payout, *)
(* match, advance or provider receipt still counts on it, and its payable, *)
(* its settlement and its transaction agree.                               *)
VoidIsUntouched ==
    \A p \in Payables :
        /\ payable[p].status \in Void <=> source[p] = "REVERSED"
        /\ settlement[p].status = "REVERSED" <=> source[p] = "REVERSED"
        /\ source[p] = "REVERSED" =>
             /\ payable[p].paid = 0 /\ payable[p].offset = 0 /\ payable[p].remaining = 0
             /\ settlement[p].received = 0 /\ settlement[p].remaining = 0
             /\ \A r \in Requests : doc[r].status = "COMPLETED" =>
                  doc[r].payable # p /\ (doc[r].kind = "payout" => doc[r].matched[p] = 0)

(* Banks and wallets are never overdrawn, whatever is paid out of them and *)
(* taken back from them at the same time.                                  *)
NoOverdraft == \A a \in Accounts \ CashAccounts : ledger[a] >= 0

(* A payout in notes that settles another amount than it hands over closes *)
(* the payable, and is at most half a rupee away from it: "The final cash  *)
(* handover may differ from the payable by at most 50 paise".              *)
RoundingSettles ==
    [][\A r \in Requests : doc'[r] # doc[r] /\ doc'[r].kind = "payment" =>
         LET rounding == doc'[r].amount - doc'[r].cash
         IN  rounding # 0 =>
               /\ doc'[r].account \in CashAccounts
               /\ -Rupee <= 2 * rounding /\ 2 * rounding <= Rupee
               /\ doc'[r].status = "COMPLETED" =>
                    payable'[doc'[r].payable].remaining = 0]_vars

(* Payables and settlements as amounts owed, by the shop and to it.        *)
Items == {"payable", "settlement"} \X Payables

RowOf(i) == IF i[1] = "payable" THEN payable[i[2]] ELSE settlement[i[2]]

StateOf(i) ==
    IF source[i[2]] = "ABSENT" THEN "none" ELSE IF RowOf(i).status \in Void THEN "void" ELSE "owed"

AmountOf(i) ==
    IF StateOf(i) = "none" THEN 0
    ELSE IF i[1] = "payable" THEN Original[i[2]] ELSE Expected[i[2]]

SettledOf(i) ==
    IF i[1] = "payable" THEN payable[i[2]].paid + payable[i[2]].offset
    ELSE settlement[i[2]].received

Abstract ==
    INSTANCE Obligations WITH
        Adjustable <- {},
        state <- [i \in Items |-> StateOf(i)],
        amount <- [i \in Items |-> AmountOf(i)],
        settled <- [i \in Items |-> SettledOf(i)],
        remaining <- [i \in Items |-> RowOf(i).remaining]

(* Whatever its many documents do to it, a payable or a settlement is an   *)
(* amount owed: never settled beyond its amount, voided only while nothing *)
(* is settled, never taken up again.                                       *)
DuesAreObligations == Abstract!Spec

(* Every call that has begun is answered, with a commit or an error.       *)
RequestsAnswered == \A r \in Requests : Running(r) ~> ~Running(r)

(* The lock order of the methods leaves no two of them waiting for each    *)
(* other.                                                                  *)
NoWaitCycle == ~WaitCycle([r \in Requests |-> Wanted(r)])

(* What r has read of a row in the step that locked it is what the row     *)
(* still says.                                                             *)
FreshView(r) ==
    \A i \in 1..Len(PlanOf(r)) : i < stage[r] =>
        LET rows == PlanOf(r)[i].rows
            look == PlanOf(r)[i].look
            o == op[r]
        IN  /\ \A p \in Payables :
                 PayableLock(p) \in rows /\ "payable" \in look =>
                    view[r].payable[p] = payable[p]
            /\ PayableLock(o.payable) \in rows /\ "source" \in look =>
                 view[r].source = source[o.payable]
            /\ SettlementLock(o.payable) \in rows /\ "settlement" \in look =>
                 view[r].settlement = settlement[o.payable]
            /\ DocumentLock(o.target) \in rows /\ "doc" \in look =>
                 view[r].doc = doc[o.target]
            /\ EntryLock(o.entry) \in rows /\ "entry" \in look =>
                 view[r].entry = doc[o.entry]

(* "Lock then reread, never trust a stale balance snapshot": a transaction *)
(* that reads a row as it locks it can rely on it until it ends.           *)
LockedViewsFresh == \A r \in Requests : Running(r) => FreshView(r)
=============================================================================
