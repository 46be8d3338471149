------------------------------ MODULE QuickCash ------------------------------
(***************************************************************************)
(* Quick cash: money in for a transfer that is sent later, cash out for a  *)
(* payment that arrives later, and service income, in-house or through a   *)
(* partner who is paid at once or later.                                   *)
(* An entry is described by q: [direction, via, amount, commission,        *)
(* cashPart, successful, when], via being the destination of money in (UPI,      *)
(* BANK) or the source of cash out (UPI_QR, AEPS, MICRO_ATM).              *)
(* A completion is described by c: [sources, into, provider]; a charge or  *)
(* a provider commission of NotGiven is left to the rules.                 *)
(***************************************************************************)
EXTENDS Counter

CONSTANTS
    MicroAtmRule,   \* fixed provider commission of the wallet's provider on a micro ATM
    NotGiven        \* an optional amount the caller left out

ASSUME QuickCashAssumption == MicroAtmRule \in Nat /\ NotGiven \notin Nat

Digital(q) == q.commission - q.cashPart
Transferring == {"bank", "wallet"}     \* transferSource(): BANK, UPI, PROVIDER_WALLET

QuickJournal(q) == NonZero(
    IF q.direction = "IN"
    THEN << <<"cash", q.amount + q.cashPart>>, <<"payable", -q.amount>>,
            <<"commissionDue", Digital(q)>>, <<"commission", -q.commission>> >>
    ELSE << <<"receivable", q.amount>>, <<"cash", -q.amount>>,
            <<"commissionDue", Digital(q)>>, <<"cash", q.cashPart>>,
            <<"commission", -q.commission>> >>)

(* The drawer is not asked for funds: cash out may exceed the ledger.      *)
QuickOK(b, q) ==
    /\ desk.open
    /\ q.amount > 0 /\ q.cashPart \in 0 .. q.commission
    /\ ~q.successful => q.direction = "OUT" /\ q.via # "UPI_QR" /\ q.commission = 0
    /\ q.direction = "IN" => q.commission < q.amount

(* The row is dated as told, its journal posts now.                        *)
QuickRow(q) == Row([kind |-> "QUICK_CASH", at |-> q.when,
    status |-> IF q.successful THEN "PENDING" ELSE "FAILED",
    journal |-> IF q.successful THEN QuickJournal(q) ELSE << >>,
    posted |-> q.successful,
    income |-> NonZero(<< <<"QUICK_CASH_TRANSFER", q.commission>> >>),
    info |-> q @@ [type |-> "quick", completion |-> 0, sources |-> << >>,
                   into |-> "none"]])

Quick(b, q) == Append(b, QuickRow(q))

-----------------------------------------------------------------------------
(* Service income: v is [amount, into, partner, timing, from, charge,      *)
(* when].                                                                  *)

ServiceOK(b, v) ==
    /\ desk.open
    /\ v.amount > 0 /\ v.into \in Receiving
    /\ v.partner => v.charge > 0 /\ (v.timing = "PAID_NOW" => v.from \in Assets)

ServiceJournal(v) == NonZero(<<
    <<v.into, v.amount>>, <<"service", -v.amount>>,
    <<"partnerCost", IF v.partner THEN v.charge ELSE 0>>,
    <<IF v.timing = "PAID_NOW" THEN v.from ELSE "partnerPayable",
      IF v.partner THEN -v.charge ELSE 0>> >>)

ServiceRow(v) == Row([kind |-> "SERVICE_INCOME", at |-> v.when,
    journal |-> ServiceJournal(v),
    fees |-> NonZero(<< <<"SERVICE_PARTNER_COST", IF v.partner THEN v.charge ELSE 0>> >>),
    info |-> v @@ [type |-> "service", paid |-> v.partner /\ v.timing = "PAID_NOW"]])

Service(b, v) == Append(b, ServiceRow(v))

(* settleServicePartnerPayable() decides on the row it read before it      *)
(* waited for the account, and adds to the journal of that row.            *)
PartnerDue(seen) ==
    /\ seen.kind = "SERVICE_INCOME" /\ seen.status # "REVERSED"
    /\ seen.info.partner /\ seen.info.timing = "PAY_LATER" /\ ~seen.info.paid
    /\ seen.info.charge > 0

PartnerOK(b, seen, account) ==
    PartnerDue(seen) /\ SufficientFunds(b, account, seen.info.charge)

PartnerPaid(b, i, seen, account) ==
    [b EXCEPT ![i].info.paid = TRUE,
              ![i].journal = @ \o << <<"partnerPayable", seen.info.charge>>,
                                     <<account, -seen.info.charge>> >>]

-----------------------------------------------------------------------------
(* addMissingAepsCommission(): once, under the lock of the original row.   *)

LateFeeOK(b, i, account) ==
    /\ b[i].kind = "QUICK_CASH" /\ b[i].info.direction = "OUT" /\ b[i].info.via = "AEPS"
    /\ b[i].status \in {"PENDING", "COMPLETED"}
    /\ b[i].info.commission = 0
    /\ LiveOf(b, i, "LATE_FEE") = {}
    /\ account \in Receiving /\ (account = "cash" => desk.open)

LateFee(b, i, amount, account) == Append(b, Row([kind |-> "LATE_FEE", of |-> i,
    journal |-> << <<account, amount>>, <<"commission", -amount>> >>,
    income |-> << <<"AEPS_CUSTOMER_LATE", amount>> >>]))

-----------------------------------------------------------------------------
(* completeQuickCash(): the row is read without a lock (seen), the sources *)
(* are locked, and the rest is done to whatever the row is by then.        *)

CompletionCharge(source) ==
    IF source.charge # NotGiven THEN source.charge
    ELSE PayoutCharge(source.from, source.amount, 0)

ProviderCommission(seen, c) ==
    IF seen.info.via # "MICRO_ATM" THEN 0
    ELSE IF c.provider # NotGiven THEN c.provider
    ELSE IF c.sources[1].from = "wallet" THEN MicroAtmRule ELSE 0

CommissionInto(seen, c) ==
    IF c.into # "none" THEN c.into
    ELSE IF seen.info.via = "BANK" /\ Len(c.sources) = 1 THEN c.sources[1].from ELSE "none"

Allocated(c) == Sum([k \in DOMAIN c.sources |-> <<"sent", c.sources[k].amount>>])
Outflow(c) == [k \in DOMAIN c.sources |->
                  <<c.sources[k].from, c.sources[k].amount + CompletionCharge(c.sources[k])>>]
Charges(c) == NonZero([k \in DOMAIN c.sources |-> <<"charge", CompletionCharge(c.sources[k])>>])

CompleteOK(b, seen, c) ==
    /\ seen.kind = "QUICK_CASH" /\ seen.status = "PENDING"
    /\ \A k \in DOMAIN c.sources : c.sources[k].from \in Transferring /\ c.sources[k].amount > 0
    /\ seen.info.via # "BANK" => Len(c.sources) = 1
    /\ Allocated(c) = seen.info.amount
    /\ seen.info.via # "MICRO_ATM" => c.provider = NotGiven
    /\ Digital(seen.info) > 0 => CommissionInto(seen, c) \in Transferring
    /\ seen.info.direction = "IN" =>
          \A a \in Names(Outflow(c)) : SufficientFunds(b, a, Sum(Only(Outflow(c), a)))

CompletionJournal(seen, c) ==
    LET amount   == seen.info.amount
        provider == ProviderCommission(seen, c)
        digital  == Digital(seen.info)
    IN  NonZero(
            (IF seen.info.direction = "IN"
             THEN << <<"payable", amount>> >> \o Mirror(Outflow(c)) \o Charges(c)
             ELSE << <<c.sources[1].from, amount + provider>>, <<"receivable", -amount>>,
                     <<"commission", -provider>> >>)
            \o << <<IF digital > 0 THEN CommissionInto(seen, c) ELSE "bank", digital>>,
                  <<"commissionDue", -digital>> >>)

Complete(b, i, seen, c) ==
    LET done == [b EXCEPT
            ![i].status = "COMPLETED",
            ![i].income = @ \o NonZero(<< <<"MICRO_ATM_PROVIDER", ProviderCommission(seen, c)>> >>),
            ![i].info = [@ EXCEPT !.completion = Len(b) + 1, !.sources = c.sources,
                                  !.into = IF Digital(seen.info) > 0
                                           THEN CommissionInto(seen, c) ELSE "none"]]
    IN  Append(done, Row([kind |-> "COMPLETION", of |-> i, at |-> seen.at, on |-> seen.at,
            journal |-> CompletionJournal(seen, c),
            fees |-> IF seen.info.direction = "IN"
                     THEN [k \in DOMAIN Charges(c) |-> <<"PAYOUT", Charges(c)[k][2]>>]
                     ELSE << >>]))
=============================================================================
