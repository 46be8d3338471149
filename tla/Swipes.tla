------------------------------- MODULE Swipes --------------------------------
(***************************************************************************)
(* Card swipes: recorded with or without the provider's settlement and the *)
(* customer's payout in the same call, their separately received fee, the  *)
(* correction of a settled swipe and its deletion.                         *)
(* A swipe is described by s: [amount, rate, feeRate, mode, into,          *)
(* settledNow, payments], each payment being [from, amount, charge].       *)
(***************************************************************************)
EXTENDS Counter

Charge(s) == Percent(s.amount, s.rate)
Fee(s) == Percent(s.amount, s.feeRate)
Settlement(s) == s.amount - Charge(s)
Payable(s) == s.amount - (IF s.mode = "SEPARATE" THEN 0 ELSE Fee(s))
PaidNow(s) == Sum([k \in DOMAIN s.payments |-> <<"paid", s.payments[k].amount>>])

ChargeOf(payment) == PayoutCharge(payment.from, payment.amount, payment.charge)
Sources(s) == {s.payments[k].from : k \in DOMAIN s.payments}
(* Variant of Required: the largest payment of the account alone.          *)
RequiredLargest(s, account) ==
    LET needs == {s.payments[k].amount + ChargeOf(s.payments[k]) :
                    k \in {j \in DOMAIN s.payments : s.payments[j].from = account}}
    IN  CHOOSE n \in needs : \A m \in needs : m <= n

Required(s, account) ==
    Sum(Only([k \in DOMAIN s.payments |->
        <<s.payments[k].from, s.payments[k].amount + ChargeOf(s.payments[k])>>], account))

PaymentOK(payment) ==
    /\ payment.from \in Assets /\ payment.amount > 0
    /\ WholeRupees(payment.from, payment.amount)
    /\ payment.from # "wallet" => ChargeOf(payment) = 0
    /\ payment.from = "cash" => desk.open

FeeAccountOK(account) ==
    /\ account \in Receiving
    /\ account = "cash" => desk.open

SwipeJournal(s) == NonZero(<<
    <<"clearing", Settlement(s)>>,
    <<"charge", Charge(s)>>,
    <<IF s.mode = "SEPARATE" THEN s.into ELSE "bank", IF s.mode = "SEPARATE" THEN Fee(s) ELSE 0>>,
    <<"payable", -Payable(s)>>,
    <<"commission", -Fee(s)>> >>)

SwipeRow(s) == Row([kind |-> "CARD_SWIPE",
    journal |-> SwipeJournal(s),
    income |-> NonZero(<< <<"CARD_SWIPE", Fee(s)>> >>),
    fees |-> NonZero(<< <<"PROVIDER", Charge(s)>> >>),
    due |-> [original |-> Payable(s), paid |-> 0, remaining |-> Payable(s),
             status |-> "PENDING", at |-> today],
    claim |-> NewClaim(Settlement(s)),
    info |-> [type |-> "swipe", amount |-> s.amount, rate |-> s.rate, feeRate |-> s.feeRate,
              mode |-> s.mode, fee |-> Fee(s)]])

(* The swipe, and with settledNow the provider's receipt into its wallet.  *)
Presented(b, s) ==
    LET recorded == Append(b, SwipeRow(s))
    IN  IF s.settledNow THEN Receipt(recorded, Len(recorded), Settlement(s), "wallet")
        ELSE recorded

PayoutRow(of, payment) ==
    LET charge == ChargeOf(payment)
    IN  Row([kind |-> "CUSTOMER_PAYOUT", of |-> of,
             journal |-> NonZero(<< <<"payable", payment.amount>>,
                 <<ChargeLedger(payment.from), charge>>,
                 <<payment.from, -(payment.amount + charge)>> >>),
             fees |-> NonZero(<< <<"PAYOUT", charge>> >>),
             info |-> [type |-> "payout", from |-> payment.from, amount |-> payment.amount]])

PaidAtSource(due, amount) ==
    IF amount = 0 THEN due
    ELSE [due EXCEPT !.paid = amount, !.remaining = due.original - amount,
            !.status = IF amount = due.original THEN "PAID" ELSE "PARTIALLY_PAID"]

SwipeOK(b, s) ==
    /\ s.mode = "SEPARATE" => Fee(s) > 0 /\ FeeAccountOK(s.into)
    /\ Settlement(s) > 0 /\ Payable(s) >= 0
    /\ PaidNow(s) <= Payable(s)
    /\ \A k \in DOMAIN s.payments : PaymentOK(s.payments[k])
    /\ \A a \in Sources(s) : SufficientFunds(Presented(b, s), a, Required(s, a))

Swiped(b, s) ==
    LET of == Len(b) + 1
        presented == Presented(b, s)
        paid == [presented EXCEPT ![of].due = PaidAtSource(@, PaidNow(s))]
    IN  paid \o [k \in DOMAIN s.payments |-> PayoutRow(of, s.payments[k])]

-----------------------------------------------------------------------------
(* A fee that was deducted is received after all: the account and the      *)
(* payable grow by it, income does not. The payable is the one that was    *)
(* read before it was locked.                                              *)

FeeReceiptOK(b, i, due, account) ==
    /\ b[i].kind = "CARD_SWIPE" /\ b[i].status = "COMPLETED"
    /\ b[i].info.mode = "DEDUCT" /\ b[i].info.fee > 0
    /\ FeeAccountOK(account)
    /\ due.original - due.paid = due.remaining

FeeReceipt(b, i, due, account) ==
    LET fee == b[i].info.fee
        more == [due EXCEPT !.original = @ + fee, !.remaining = @ + fee]
        status == IF more.remaining = 0 THEN "PAID" ELSE IF due.paid > 0 THEN "PARTIALLY_PAID"
                  ELSE IF due.at < today THEN "OVERDUE" ELSE "PENDING"
        noted == [b EXCEPT
            ![i].due = [@ EXCEPT !.original = more.original, !.remaining = more.remaining,
                                 !.status = status],
            ![i].info.mode = "SEPARATE"]
    IN  Append(noted, Row([kind |-> "CARD_SWIPE_COMMISSION_RECEIPT", of |-> i,
            journal |-> << <<account, fee>>, <<"payable", -fee>> >>]))

-----------------------------------------------------------------------------
(* A fully settled swipe is corrected or deleted together with its receipt.*)

TheReceipt(b, i) == CHOOSE k \in LiveOf(b, i, "PROVIDER_SETTLEMENT") : TRUE

OneFullReceipt(b, i) ==
    /\ b[i].claim.status = "SETTLED" /\ b[i].claim.received = b[i].claim.expected
    /\ Cardinality(LiveOf(b, i, "PROVIDER_SETTLEMENT")) = 1
    /\ b[TheReceipt(b, i)].info.amount = b[i].claim.expected

WithoutReceipt(b, i) == Reversed(b, TheReceipt(b, i))
WithoutSwipe(b, i) == Reversed(WithoutReceipt(b, i), i)

(* deleteTransaction() of a received swipe.                                *)
DeleteSettledOK(b, i) ==
    /\ b[i].kind = "CARD_SWIPE" /\ b[i].status = "COMPLETED" /\ b[i].info.mode # "SEPARATE"
    /\ b[i].due.paid = 0
    /\ OneFullReceipt(b, i)
    /\ ReverseOK(b, TheReceipt(b, i))
    /\ ReverseOK(WithoutReceipt(b, i), i)

SwipeAgain(info, amount, settledNow) ==
    [amount |-> amount, rate |-> info.rate, feeRate |-> info.feeRate,
     mode |-> "DEDUCT", into |-> "none", settledNow |-> settledNow, payments |-> << >>]

CorrectSettledOK(b, i, amount) ==
    /\ DeleteSettledOK(b, i)
    /\ LiveOf(b, i, "CARD_SWIPE") = {}
    /\ b[TheReceipt(b, i)].info.account = "wallet"
    /\ SwipeOK(WithoutSwipe(b, i), SwipeAgain(b[i].info, amount, TRUE))

(* The replacement and its receipt keep the dates of what they replace.    *)
CorrectedSettled(b, i, amount) ==
    LET gone == WithoutSwipe(b, i)
        k    == Len(gone) + 1
        anew == Swiped(gone, SwipeAgain(b[i].info, amount, TRUE))
    IN  [anew EXCEPT ![k].of = i, ![k].at = b[i].at, ![k].on = b[i].at,
                     ![k].due.at = b[i].due.at,
                     ![k + 1].at = b[TheReceipt(b, i)].at, ![k + 1].on = b[TheReceipt(b, i)].at]
=============================================================================
