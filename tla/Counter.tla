------------------------------- MODULE Counter -------------------------------
(***************************************************************************)
(* The counter's book: every Transaction row with its journal, its income  *)
(* and charge rows, the payable and the provider settlement it created.    *)
(* The operations of transactions.service.ts take a book b, a sequence of  *)
(* rows, to the book after them, so that one operation can be a part of    *)
(* another (a correction reverses and records anew in one transaction).    *)
(* Amounts are whole paise; a ledger's debit is positive.                  *)
(***************************************************************************)
EXTENDS Integers, Sequences, FiniteSets, SequencesExt

CONSTANTS
    Opening,        \* opening balance of each account; what a card owes is negative
    CreditLimit,    \* of the owner's credit card
    WalletCharge,   \* fixed payout charge of the wallet's provider, 0 without a rule
    Rupee,          \* paise in the smallest amount the drawer can hand out
    MaxDay

ASSUME CounterAssumption ==
    /\ DOMAIN Opening = {"cash", "bank", "wallet", "card"}
    /\ \A a \in DOMAIN Opening : Opening[a] \in Int
    /\ {CreditLimit, WalletCharge, MaxDay} \subseteq Nat
    /\ Rupee \in Nat \ {0}

VARIABLES
    rows,    \* the book
    today,   \* days since the first one
    desk     \* the cash session: number, open, day, and the rows and cash at its opening

book == <<rows, today, desk>>

Accounts == DOMAIN Opening
Assets == Accounts \ {"card"}
Receiving == {"cash", "bank"}          \* CASH, BANK, UPI: no provider wallet

-----------------------------------------------------------------------------
(* Lines: journal entries, income rows and charges, as pairs of a name and *)
(* an amount.                                                              *)

Sum(lines) ==
    LET upTo[k \in 0 .. Len(lines)] == IF k = 0 THEN 0 ELSE upTo[k - 1] + lines[k][2]
    IN  upTo[Len(lines)]

Only(lines, name) == SelectSeq(lines, LAMBDA line : line[1] = name)
NonZero(lines) == SelectSeq(lines, LAMBDA line : line[2] # 0)
Mirror(lines) == [k \in DOMAIN lines |-> <<lines[k][1], -lines[k][2]>>]
Names(lines) == {lines[k][1] : k \in DOMAIN lines}

(* money(): a share of an amount, to the nearest paisa.                    *)
Percent(amount, rate) == (2 * amount * rate + 100) \div 200

(* Posted journals only; rows without a journal post nothing.              *)
Balance(b, ledger) ==
    LET upTo[k \in 0 .. Len(b)] ==
            IF k = 0 THEN IF ledger \in Accounts THEN Opening[ledger] ELSE 0
            ELSE upTo[k - 1] + (IF b[k].posted THEN Sum(Only(b[k].journal, ledger)) ELSE 0)
    IN  upTo[Len(b)]

Outstanding(b) == -Balance(b, "card")

Total(Amount(_), set) == MapThenSumSet(Amount, set)

Liquid == {"cash", "bank", "wallet"}                    \* CASH, BANK, UPI, PROVIDER_WALLET
Normal(account) == IF account \in Assets THEN 1 ELSE -1  \* what a debit adds
Base(account) == Normal(account) * Opening[account]

Named(lines, names) == Sum(SelectSeq(lines, LAMBDA line : line[1] \in names))

PostedOn(b, days) == {k \in DOMAIN b : b[k].posted /\ b[k].on.day \in days}

(* What the journals of some days added to ledgers, all in all, and what   *)
(* only those lines did that add (sign 1) or take (sign -1).               *)
Net(b, names, days) == Total(LAMBDA k : Named(b[k].journal, names), PostedOn(b, days))

Moved(b, ledger, days, sign) ==
    LET lines(k) == SelectSeq(b[k].journal, LAMBDA line : line[1] = ledger /\ sign * line[2] > 0)
    IN  sign * Total(LAMBDA k : Sum(lines(k)), PostedOn(b, days))

NoDue == [original |-> 0, paid |-> 0, remaining |-> 0, status |-> "NONE", at |-> 0]
NoClaim == [expected |-> 0, received |-> 0, remaining |-> 0, status |-> "NONE"]
NoKey == << >>          \* of its own: no other row has it

Now == [day |-> today, shift |-> IF desk.open THEN desk.number ELSE 0]

(* A new row is dated now and posts now; at is its date, on its journal's. *)
Row(fields) == fields @@
    [kind |-> "", status |-> "COMPLETED", of |-> 0, at |-> Now, on |-> Now,
     journal |-> << >>, posted |-> TRUE, income |-> << >>, fees |-> << >>,
     due |-> NoDue, claim |-> NoClaim, info |-> [type |-> ""], by |-> NoKey, key |-> NoKey]

Live(b, i) == b[i].status \notin {"REVERSED", "CANCELLED"}
LiveOf(b, i, kind) == {k \in DOMAIN b : b[k].of = i /\ b[k].kind = kind /\ Live(b, k)}

-----------------------------------------------------------------------------
(* Guards every operation uses.                                            *)

SufficientFunds(b, account, required) ==
    account \in Assets /\ Balance(b, account) >= required

CreditCapacity(b, additional) == Outstanding(b) + additional <= CreditLimit

OpenDeskFor(lines) == "cash" \in Names(lines) => desk.open

WholeRupees(account, amount) == account = "cash" => amount % Rupee = 0

(* What a reversal takes out of an account, line by line, has to be there. *)
ReversalCapacity(b, lines) == \A a \in Accounts :
    LET taken == Sum(SelectSeq(Only(lines, a), LAMBDA line : (line[2] > 0) = (a \in Assets)))
        need  == IF a \in Assets THEN taken ELSE -taken
    IN  need > 0 => (IF a \in Assets THEN Balance(b, a) ELSE Outstanding(b)) >= need

(* ProviderPayoutChargeService: only the wallet's provider charges, and a  *)
(* rule that applies replaces what was requested.                          *)
PayoutCharge(account, amount, requested) ==
    IF account = "wallet" /\ WalletCharge > 0 /\ amount > 0 THEN WalletCharge ELSE requested

ChargeLedger(account) == IF account = "wallet" THEN "charge" ELSE "bankCharge"

-----------------------------------------------------------------------------
(* Provider settlements: what the provider still owes for a row.           *)

NewClaim(amount) ==
    [expected |-> amount, received |-> 0, remaining |-> amount, status |-> "PENDING"]

ReceiptOK(b, i, amount, account) ==
    /\ b[i].claim.status \in {"PENDING", "PARTIALLY_SETTLED"}
    /\ amount \in 1 .. b[i].claim.remaining
    /\ account \in {"bank", "wallet"}

Receipt(b, i, amount, account) ==
    LET left == b[i].claim.remaining - amount
        noted == [b EXCEPT
            ![i].claim.received = @ + amount,
            ![i].claim.remaining = left,
            ![i].claim.status = IF left = 0 THEN "SETTLED" ELSE "PARTIALLY_SETTLED"]
    IN  Append(noted, Row([kind |-> "PROVIDER_SETTLEMENT", of |-> i,
            journal |-> <<<<account, amount>>, <<"clearing", -amount>>>>,
            info |-> [type |-> "receipt", account |-> account, amount |-> amount]]))

-----------------------------------------------------------------------------
(* reverse(): one row is undone by a mirrored one.                         *)

(* An earlier edit of an expense left several lines of one ledger; they    *)
(* are undone net.                                                         *)
NetLines(lines) ==
    NonZero(SetToSeq({<<name, Sum(Only(lines, name))>> : name \in Names(lines)}))

Effective(row) == IF row.kind = "EXPENSE" THEN NetLines(row.journal) ELSE row.journal

LinkedFee(b, i) ==
    b[i].kind = "QUICK_CASH" /\ b[i].info.via = "AEPS" /\ LiveOf(b, i, "LATE_FEE") # {}
LinkedCompletion(b, i) ==
    b[i].kind = "QUICK_CASH" /\ b[i].info.completion # 0
        /\ b[b[i].info.completion].status = "COMPLETED"
SeparateFee(row) ==
    \/ row.kind = "CARD_SWIPE_COMMISSION_RECEIPT"
    \/ row.kind = "CARD_SWIPE" /\ row.info.mode = "SEPARATE"

(* Later within a day: in a later session, or made later.                  *)
Later(b, j, i) ==
    LET m == b[i].at
        n == b[j].at
    IN  \/ n.day > m.day
        \/ n.day = m.day /\ IF 0 \notin {m.shift, n.shift} /\ m.shift # n.shift
                            THEN n.shift > m.shift ELSE j > i

(* The credit a Pay In left to the customer may have paid a later Pay Out. *)
CreditUsed(b, i) ==
    LET credits(k, direction) == b[k].kind = "CUSTOMER_LEDGER_ENTRY"
            /\ b[k].info.direction = direction /\ b[k].info.payable > 0
    IN  /\ credits(i, "PAY_IN")
        /\ \E j \in DOMAIN b :
              credits(j, "PAY_OUT") /\ b[j].status = "COMPLETED" /\ Later(b, j, i)

ReverseOK(b, i) ==
    /\ ~SeparateFee(b[i]) /\ ~CreditUsed(b, i) /\ ~LinkedFee(b, i) /\ ~LinkedCompletion(b, i)
    /\ b[i].status # "REVERSED" /\ b[i].kind # "REVERSAL"
    /\ b[i].due.paid = 0 /\ b[i].claim.received = 0
    /\ b[i].posted /\ b[i].journal # << >>
    /\ OpenDeskFor(Effective(b[i]))
    /\ ReversalCapacity(b, Effective(b[i]))

(* Variant of IncomeUndone: the provider's commission stays.               *)
IncomeUndoneKept(b, i) == b[i].income

(* The provider's commission of a micro ATM completion was written to the  *)
(* original row: a negative row there takes it back.                       *)
IncomeUndone(b, i) ==
    LET earned == Sum(Only(b[i].income, "MICRO_ATM_PROVIDER"))
    IN  IF b[i].info.via = "MICRO_ATM" /\ earned > 0
        THEN Append(b[i].income, <<"MICRO_ATM_PROVIDER", -earned>>)
        ELSE b[i].income

DueStatus(due) ==
    IF due.remaining = 0 THEN "PAID"
    ELSE IF due.at < today THEN "OVERDUE"
    ELSE IF due.paid = 0 THEN "PENDING" ELSE "PARTIALLY_PAID"

PaymentUndone(due, amount) ==
    LET back == [due EXCEPT !.paid = @ - amount, !.remaining = due.original - (due.paid - amount)]
    IN  [back EXCEPT !.status = DueStatus(back)]

ReceiptUndone(claim, amount) ==
    LET received == claim.received - amount
    IN  [claim EXCEPT !.received = received, !.remaining = claim.expected - received,
            !.status = IF received = 0 THEN "PENDING" ELSE "PARTIALLY_SETTLED"]

(* What the reversed row had done to the row it belongs to.                *)
SourceUndone(b, i) ==
    LET s == b[i].of
    IN  CASE b[i].kind = "CUSTOMER_PAYOUT" ->
                [b EXCEPT ![s].due = PaymentUndone(@, b[i].info.amount)]
          [] b[i].kind = "PROVIDER_SETTLEMENT" ->
                [b EXCEPT ![s].claim = ReceiptUndone(@, b[i].info.amount)]
          [] b[i].kind = "COMPLETION" -> [b EXCEPT ![s].income = IncomeUndone(b, s)]
          [] OTHER -> b

Closed(part) == IF part.status = "NONE" THEN part
                ELSE [part EXCEPT !.status = "REVERSED", !.remaining = 0]

Reversed(b, i) ==
    LET undone == SourceUndone(b, i)
        marked == [undone EXCEPT ![i].status = "REVERSED",
                                 ![i].due = Closed(@), ![i].claim = Closed(@)]
    IN  Append(marked, Row([kind |-> "REVERSAL", of |-> i,
                            journal |-> Mirror(Effective(b[i]))]))
=============================================================================
