--------------------------- MODULE CustomerEntries ---------------------------
(***************************************************************************)
(* Pay In and Pay Out entries of the counter's one customer that are not   *)
(* matched to a payable or a card due (createCardLedgerEntry(); matched    *)
(* ones are in PayableSettlement and CustomerDues), and their edit, which  *)
(* rewrites the journal of an entry in place (updateCustomerLedgerEntry()).*)
(***************************************************************************)
EXTENDS Entries

AmountOf(b, set) == Total(LAMBDA k : b[k].info.amount, set)

StandingEntries(b, direction) == {k \in DOMAIN b :
    b[k].kind = "CUSTOMER_LEDGER_ENTRY" /\ Live(b, k) /\ b[k].info.direction = direction}

(* cardLedgerBalance(): what the customer may still claim for swipes, less *)
(* what was paid for them, and what was paid in and out.                   *)
Claim(b) ==
    LET swiped == {k \in DOMAIN b : b[k].kind = "CARD_SWIPE" /\ Live(b, k)}
        paid   == UNION {LiveOf(b, k, "CUSTOMER_PAYOUT") : k \in swiped}
    IN  Total(LAMBDA k : b[k].due.original, swiped) - AmountOf(b, paid)
            + AmountOf(b, StandingEntries(b, "PAY_IN"))
            - AmountOf(b, StandingEntries(b, "PAY_OUT"))

Capped(amount, open) == IF open <= 0 THEN 0 ELSE IF amount < open THEN amount ELSE open

(* A Pay In settles what the customer owes and is owed to him beyond that, *)
(* a Pay Out the other way round.                                          *)
Divided(b, e) ==
    LET owed == IF e.direction = "PAY_IN" THEN Capped(e.amount, -Claim(b))
                ELSE e.amount - Capped(e.amount, Claim(b))
    IN  e @@ [receivable |-> owed, payable |-> e.amount - owed]

EntryFee(e) == IF e.direction = "PAY_OUT" THEN PayoutCharge(e.account, e.amount, 0) ELSE 0

EntryJournal(e, fee) ==
    LET in == IF e.direction = "PAY_IN" THEN 1 ELSE -1
    IN  NonZero(<< <<e.account, in * e.amount - fee>>, <<"charge", fee>>,
                   <<"receivable", -in * e.receivable>>, <<"payable", -in * e.payable>> >>)

EntryFees(fee) == NonZero(<< <<"PAYOUT", fee>> >>)

CustomerEntryOK(b, e) ==
    /\ e.account \in Assets
    /\ e.account = "cash" => desk.open
    /\ e.direction = "PAY_OUT" =>
        /\ WholeRupees(e.account, e.amount)
        /\ SufficientFunds(b, e.account, e.amount + EntryFee(e))

(* The entry is dated, and its journal posts, when it is said to be.       *)
CustomerEntry(b, e, when) ==
    LET entry == Divided(b, e)
    IN  Append(b, Row([kind |-> "CUSTOMER_LEDGER_ENTRY", at |-> when, on |-> when,
            journal |-> EntryJournal(entry, EntryFee(e)), fees |-> EntryFees(EntryFee(e)),
            info |-> entry @@ [type |-> "customer", fee |-> EntryFee(e)]]))

-----------------------------------------------------------------------------
(* The edit: e is as above with the shares the user gives.                 *)

Terms(e) == <<e.direction, e.amount, e.account, e.receivable, e.payable>>

CoreChanged(row, e) == Terms(row.info) # Terms(e)

Repriced(row, e) ==
    <<row.info.direction, row.info.account, row.info.amount>> # <<e.direction, e.account, e.amount>>

EditedEntryFee(row, e) ==
    IF e.direction = "PAY_OUT" /\ ~Repriced(row, e) THEN row.info.fee ELSE EntryFee(e)

(* An edit that takes back credit of a Pay In.                             *)
TakesCredit(row, e) == e.direction # "PAY_IN" \/ e.payable < row.info.payable

(* Variant of CashDayStands: the drawer is open, whichever day the edit    *)
(* is about.                                                               *)
CashDayStandsOpen(row, e, when) == "cash" \in {row.info.account, e.account} => desk.open

(* A closed cash session is never rewritten: cash that was taken in or out *)
(* belongs to the session that is open, and what becomes cash, or of       *)
(* another date, to no session that is closed.                             *)
CashDayStands(row, e, when) ==
    "cash" \in {row.info.account, e.account} =>
        /\ {row.at.shift, when.shift} \subseteq {0} \cup (IF desk.open THEN {desk.number} ELSE {})
        /\ row.info.account = "cash" => InOpenSession({row.at})
        /\ e.account = "cash" => desk.open

(* Only what an account loses by the edit has to be in it.                 *)
EditCovered(b, row, e) ==
    LET lines == EntryJournal(e, EditedEntryFee(row, e))
    IN  \A a \in {row.info.account, e.account} :
            LET delta == Sum(Only(lines, a)) - Sum(Only(row.journal, a))
            IN  delta < 0 => Balance(b, a) + delta >= 0

EditEntryOK(b, i, e, when) ==
    LET row == b[i]
    IN  /\ row.kind = "CUSTOMER_LEDGER_ENTRY" /\ row.status = "COMPLETED" /\ row.posted
        /\ e.amount > 0 /\ e.receivable + e.payable = e.amount
        /\ CoreChanged(row, e) \/ when # row.at
        /\ TakesCredit(row, e) => ~CreditUsed(b, i)
        /\ e.account \in Assets
        /\ CoreChanged(row, e) /\ e.direction = "PAY_OUT" => WholeRupees(e.account, e.amount)
        /\ CashDayStands(row, e, when)
        /\ CoreChanged(row, e) => EditCovered(b, row, e)

EditEntry(b, i, e, when) ==
    LET fee == EditedEntryFee(b[i], e)
    IN  [b EXCEPT ![i].at = when, ![i].on = when,
                  ![i].journal = EntryJournal(e, fee), ![i].fees = EntryFees(fee),
                  ![i].info = e @@ [type |-> "customer", fee |-> fee]]
=============================================================================
