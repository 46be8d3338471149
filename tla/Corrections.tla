----------------------------- MODULE Corrections -----------------------------
(***************************************************************************)
(* correctAmount(): an entry is replaced by one of another amount. Its     *)
(* steps are transactions of their own: the completion is reversed, then   *)
(* the original, the entry is made anew, completed anew, and linked to the *)
(* original under its date. seen is the row as it was read at the start.   *)
(***************************************************************************)
EXTENDS Swipes, QuickCash, Entries

(* The amount a correction replaces; what an AePS row holds includes a     *)
(* commission that was added on.                                           *)
BaseAmount(row) ==
    CASE row.kind = "CASH_TRANSFER" -> row.info.requested
      [] row.kind = "AEPS_WITHDRAWAL" /\ row.status # "FAILED" -> Withdrawal(row.info)
      [] OTHER -> row.info.amount

Correctable(seen) ==
    /\ seen.kind \in {"CARD_SWIPE", "CASH_TRANSFER", "QUICK_CASH", "SERVICE_INCOME",
                      "AEPS_WITHDRAWAL", "MICRO_ATM", "INTERNAL_TRANSFER", "ATM_WITHDRAWAL",
                      "OWNER_CC_PAYMENT"}
    /\ seen.status # "REVERSED"
    /\ seen.kind = "SERVICE_INCOME" => ~(seen.info.timing = "PAY_LATER" /\ seen.info.paid)

(* A failed attempt has no journal: its amount is changed in place.        *)
InPlaceOK(seen, amount) ==
    Correctable(seen) /\ seen.journal = << >> /\ seen.status = "FAILED"
        /\ BaseAmount(seen) # amount
InPlace(b, i, amount) == [b EXCEPT ![i].info.amount = amount]

ReplaceOK(seen, amount) ==
    /\ Correctable(seen) /\ seen.journal # << >>
    /\ BaseAmount(seen) # amount
    /\ ~SeparateFee(seen)
    /\ seen.due.paid = 0 /\ seen.claim.received = 0

(* Shares of a split, in proportion; the last takes what is left.          *)
Scaled(split, target) ==
    LET total == Sum(split)
        share(k) == (2 * target * split[k][2] + total) \div (2 * total)
        n == Len(split)
    IN  [k \in 1 .. n |-> <<split[k][1],
            IF k < n THEN share(k)
            ELSE target - Sum([j \in 1 .. n - 1 |-> <<"used", share(j)>>])>>]

-----------------------------------------------------------------------------
(* What is entered anew for each kind.                                     *)

TransferAgain(info, amount) ==
    LET t == [info EXCEPT !.requested = amount, !.charge = TransferCharge(info)]
    IN  [t EXCEPT !.receipts = Scaled(info.receipts, CashReceived(t))]

QuickAgain(seen, amount) ==
    LET info == seen.info
    IN  [direction |-> info.direction, via |-> info.via, amount |-> amount,
         commission |-> info.commission, cashPart |-> info.cashPart, successful |-> TRUE,
         when |-> seen.at]

AepsAgain(seen, amount) ==
    [seen.info EXCEPT !.amount = amount, !.settled = "no", !.successful = TRUE,
                      !.when = seen.at]

MicroAgain(seen, amount) ==
    [seen.info EXCEPT !.amount = amount, !.settledNow = FALSE, !.when = seen.at]

RecordOK(b, seen, amount) ==
    LET info == seen.info
    IN  CASE seen.kind = "CARD_SWIPE" ->
                SwipeOK(b, SwipeAgain(info, amount, FALSE))
          [] seen.kind = "CASH_TRANSFER" -> CashTransferOK(b, TransferAgain(info, amount))
          [] seen.kind = "QUICK_CASH" -> QuickOK(b, QuickAgain(seen, amount))
          [] seen.kind = "SERVICE_INCOME" -> ServiceOK(b, [info EXCEPT !.amount = amount])
          [] seen.kind = "AEPS_WITHDRAWAL" -> AepsOK(b, AepsAgain(seen, amount))
          [] seen.kind = "MICRO_ATM" -> MicroAtmOK(b, MicroAgain(seen, amount))
          [] seen.kind = "INTERNAL_TRANSFER" ->
                InternalOK(b, info.from, info.to, amount, info.charge)
          [] seen.kind = "ATM_WITHDRAWAL" -> AtmOK(b, amount, info.charge)
          [] seen.kind = "OWNER_CC_PAYMENT" -> CardPaymentOK(b, info.from, amount)

Recorded(b, seen, amount) ==
    LET info == seen.info
        k == Len(b) + 1
    IN  CASE seen.kind = "CARD_SWIPE" ->
                [Swiped(b, SwipeAgain(info, amount, FALSE)) EXCEPT ![k].due.at = seen.due.at]
          [] seen.kind = "CASH_TRANSFER" -> CashTransfer(b, TransferAgain(info, amount))
          [] seen.kind = "QUICK_CASH" -> Quick(b, QuickAgain(seen, amount))
          [] seen.kind = "SERVICE_INCOME" -> Service(b, [info EXCEPT !.amount = amount])
          [] seen.kind = "AEPS_WITHDRAWAL" ->
                LET anew == Aeps(b, AepsAgain(seen, amount))
                IN  IF info.payNow THEN anew ELSE [anew EXCEPT ![k].due.at = seen.due.at]
          [] seen.kind = "MICRO_ATM" -> MicroAtm(b, MicroAgain(seen, amount))
          [] seen.kind = "INTERNAL_TRANSFER" ->
                Internal(b, info.from, info.to, amount, info.charge)
          [] seen.kind = "ATM_WITHDRAWAL" -> Atm(b, amount, info.charge)
          [] seen.kind = "OWNER_CC_PAYMENT" -> CardPayment(b, info.from, amount)

(* The completion is repeated with the sources scaled, the account of the  *)
(* commission, and what the provider paid; the rules price it anew.        *)
CompletedAlready(seen) == seen.kind = "QUICK_CASH" /\ seen.info.completion # 0

CompletionAgain(seen, amount) ==
    LET split == [k \in DOMAIN seen.info.sources |->
                     <<seen.info.sources[k].from, seen.info.sources[k].amount>>]
        parts == Scaled(split, amount)
    IN  [sources |-> [k \in DOMAIN parts |->
                         [from |-> parts[k][1], amount |-> parts[k][2], charge |-> NotGiven]],
         into |-> seen.info.into,
         provider |-> IF seen.info.via = "MICRO_ATM"
                      THEN Sum(Only(seen.income, "MICRO_ATM_PROVIDER")) ELSE NotGiven]

Linked(b, k, i, seen) == [b EXCEPT ![k].of = i, ![k].at = seen.at, ![k].on = seen.at]
=============================================================================
