---------------------- MODULE PayableSettlement_proofs ----------------------
(***************************************************************************)
(* Proofs about PayableSettlement, for any number of swipes, accounts and  *)
(* concurrent requests: its types and locks; then its money: no Pay Out is *)
(* used twice, no bank is overdrawn, the books balance and only the last   *)
(* payout is rounded, whatever kinds of request occur.                     *)
(***************************************************************************)
EXTENDS PayableSettlement, SumLemmas, TLAPS

(* A document names the rows its kind works on, and only swipes that exist *)
(* have been matched.                                                      *)
DocumentOK(d) ==
    /\ d.kind \in {"payment", "payout", "receipt"} => d.account \in Accounts
    /\ d.kind \in {"payment", "offset", "receipt"} => d.payable \in Payables
    /\ d.payable \in Payables => source[d.payable] # "ABSENT"
    /\ d.kind = "offset" => d.entry \in Requests /\ d.amount > 0
    /\ \A p \in Payables : d.matched[p] > 0 => source[p] # "ABSENT"

(* Only a call that has committed has recorded a document.                 *)
DocumentsOK ==
    \A r \in Requests : /\ DocumentOK(doc[r])
                        /\ DocumentOK(view[r].doc) /\ DocumentOK(view[r].entry)
                        /\ doc[r].kind # "none" => op[r].kind = "done"
                        /\ doc[r].kind = "offset" => doc[doc[r].entry].kind = "payout"

(* A running call names rows that exist and documents of the right kind.   *)
CallOK(o) ==
    /\ o.kind \in {"pay", "payout", "receive", "reverseReceipt"} => o.account \in Accounts
    /\ o.kind \notin {"payout", "reverseEntry"} => o.payable \in Payables
    /\ o.payable \in Payables => source[o.payable] # "ABSENT"
    /\ o.kind \in {"match", "unmatch", "apply", "unapply", "reverseEntry"} =>
         o.entry \in Requests /\ doc[o.entry].kind = "payout"
    /\ o.kind = "apply" => o.amount > 0
    /\ o.kind \in {"unapply", "reversePayment", "reverseReceipt"} =>
         /\ o.target \in Requests
         /\ doc[o.target].kind = CASE o.kind = "unapply"        -> "offset"
                                   [] o.kind = "reversePayment" -> "payment"
                                   [] o.kind = "reverseReceipt" -> "receipt"
         /\ doc[o.target].payable = o.payable

(* It is somewhere in its plan, and has the document it reverses in view   *)
(* once it has locked it.                                                  *)
SessionOK(r) ==
    /\ CallOK(op[r]) /\ op[r].kind \in Workload
    /\ stage[r] \in 1..(Len(PlanOf(r)) + 1)
    /\ stage[r] > 1 => /\ op[r].kind = "reversePayment" => view[r].doc.kind = "payment"
                       /\ op[r].kind = "reverseEntry" => view[r].entry.kind = "payout"
    /\ stage[r] > 3 /\ op[r].kind = "unapply" => view[r].doc.kind = "offset"

SessionsOK == \A r \in Requests : Running(r) => SessionOK(r)

Shape == TypeOK /\ DocumentsOK /\ SessionsOK

---------------------------------------------------------------------------
(* Plans.                                                                  *)

LEMMA PlanLength ==
  ASSUME NEW o, NEW v, o.kind \in Kinds
  PROVE  /\ Len(Plan(o, v)) \in Nat
         /\ Len(Plan(o, v)) >= 1
         /\ o.kind = "payout" => Plan(o, v) = PayOutPlan(o)
<1>1. CASE o.kind = "payout"
  <2>1. Plan(o, v) = PayOutPlan(o) BY <1>1 DEF Plan
  <2>2. CASE o.payable = None BY <2>1, <2>2 DEF PayOutPlan
  <2>3. CASE o.payable # None BY <2>1, <2>3 DEF PayOutPlan
  <2> QED BY <2>1, <2>2, <2>3
<1>2. CASE o.kind \in {"match", "unmatch", "apply", "unapply"}
  <2>1. CASE o.kind = "unapply" BY <2>1 DEF Plan, AdvancePlan
  <2>2. CASE o.kind \in {"match", "unmatch", "apply"}
    <3>1. Plan(o, v) = AdvancePlan(o, {"entry"}) BY <2>2 DEF Plan
    <3> QED BY <2>2, <3>1 DEF AdvancePlan
  <2> QED BY <1>2, <2>1, <2>2
<1>3. CASE o.kind = "pay" BY <1>3 DEF Plan, PayPlan
<1>4. CASE o.kind = "cancel" BY <1>4 DEF Plan, CancelPlan
<1>5. CASE o.kind = "reverseSource" BY <1>5 DEF Plan, ReverseSourcePlan
<1>6. CASE o.kind = "reversePayment" BY <1>6 DEF Plan, ReversePaymentPlan
<1>7. CASE o.kind = "reverseEntry" BY <1>7 DEF Plan, ReverseEntryPlan
<1>8. CASE o.kind = "receive" BY <1>8 DEF Plan, ReceivePlan
<1>9. CASE o.kind = "reverseReceipt" BY <1>9 DEF Plan, ReverseReceiptPlan
<1> QED BY <1>1, <1>2, <1>3, <1>4, <1>5, <1>6, <1>7, <1>8, <1>9 DEF Kinds

(* What a step of a plan may ask for.                                      *)
StepOK(o, v, step) ==
    /\ step.rows \subseteq Rows
    /\ "settlement" \in step.look \/ "source" \in step.look => o.payable \in Payables
    /\ "doc" \in step.look => o.target \in Requests
    /\ "entry" \in step.look => o.entry \in Requests
    /\ "funds" \in step.look => o.account \in Accounts
    /\ "payable" \in step.look =>
         \A p \in Payables : PayableLock(p) \in step.rows => p \in Subjects(o, v)

LEMMA PlanStepsOK ==
  ASSUME NEW o \in Operation, NEW v, o.kind \in Kinds, CallOK(o), NEW i \in 1..Len(Plan(o, v))
  PROVE  StepOK(o, v, Plan(o, v)[i])
<1> USE DEF StepOK, CallOK, Step, Rows, PayableLock, SettlementLock, SourceLock, DocumentLock,
            EntryLock, AccountLock, Subjects
<1>0. None \notin Payables BY ConstantsAssumption
<1>1. CASE o.kind = "payout"
  <2>0. o.payable \in Payables \cup {None} BY DEF Operation
  <2>1. Plan(o, v) = PayOutPlan(o) BY <1>1 DEF Plan
  <2>2. CASE o.payable = None BY <1>1, <2>1, <2>2 DEF PayOutPlan
  <2>3. CASE o.payable # None BY <1>1, <2>0, <2>1, <2>3 DEF PayOutPlan
  <2> QED BY <2>2, <2>3
<1>2. CASE o.kind = "unapply" BY <1>2 DEF Plan, AdvancePlan
<1>3. CASE o.kind \in {"match", "unmatch", "apply"}
  <2>1. Plan(o, v) = AdvancePlan(o, {"entry"}) BY <1>3 DEF Plan
  <2> QED BY <1>3, <2>1 DEF AdvancePlan
<1>4. CASE o.kind = "pay" BY <1>4 DEF Plan, PayPlan
<1>5. CASE o.kind = "cancel" BY <1>5 DEF Plan, CancelPlan
<1>6. CASE o.kind = "reverseSource" BY <1>6 DEF Plan, ReverseSourcePlan
<1>7. CASE o.kind = "reversePayment" BY <1>7 DEF Plan, ReversePaymentPlan
<1>8. CASE o.kind = "reverseEntry" BY <1>8 DEF Plan, ReverseEntryPlan, MatchedPayables
<1>9. CASE o.kind = "receive" BY <1>9 DEF Plan, ReceivePlan
<1>10. CASE o.kind = "reverseReceipt" BY <1>10 DEF Plan, ReverseReceiptPlan
<1> QED BY <1>1, <1>2, <1>3, <1>4, <1>5, <1>6, <1>7, <1>8, <1>9, <1>10 DEF Kinds

(* What a transaction reads changes nothing in the part of its plan that is *)
(* behind it.                                                              *)
LEMMA PlanPrefix ==
  ASSUME NEW o, NEW v, NEW w, o.kind \in Kinds, NEW i \in 1..Len(Plan(o, v)),
         "entry" \notin Plan(o, v)[i].look => w.entry = v.entry
  PROVE  /\ Len(Plan(o, w)) = Len(Plan(o, v))
         /\ \A j \in 1..i : Plan(o, w)[j] = Plan(o, v)[j]
<1>1. CASE o.kind = "reverseEntry"
  <2>1. /\ Plan(o, v) = ReverseEntryPlan(o, v)
        /\ Plan(o, w) = ReverseEntryPlan(o, w)
    BY <1>1 DEF Plan
  <2>2. CASE i = 1 BY <2>1, <2>2 DEF ReverseEntryPlan
  <2>3. CASE i # 1
    <3>1. Len(Plan(o, v)) = 2 BY <2>1 DEF ReverseEntryPlan
    <3>2. Plan(o, v)[2].look = {"payable"} BY <2>1 DEF ReverseEntryPlan, Step
    <3>3. w.entry = v.entry BY <2>3, <3>1, <3>2
    <3> QED BY <2>1, <3>1, <3>3 DEF ReverseEntryPlan
  <2> QED BY <2>2, <2>3
<1>2. CASE o.kind # "reverseEntry"
  <2>1. Plan(o, w) = Plan(o, v)
    <3>1. CASE o.kind \in {"match", "unmatch", "apply"} BY <3>1 DEF Plan
    <3>2. CASE o.kind \in {"pay", "payout", "unapply", "cancel", "reverseSource"} BY <3>2 DEF Plan
    <3>3. CASE o.kind \in {"reversePayment", "receive", "reverseReceipt"} BY <3>3 DEF Plan
    <3> QED BY <1>2, <3>1, <3>2, <3>3 DEF Kinds
  <2> QED BY <2>1, PlanLength
<1> QED BY <1>1, <1>2

---------------------------------------------------------------------------
(* Types.                                                                  *)

LEMMA RowTypes ==
  /\ NoPayableRow \in PayableRow /\ NoSettlementRow \in SettlementRow
  /\ NoDocument \in Document /\ NoView \in View
  /\ Idle \in Operation /\ Done \in Operation
<1>1. NoPayableRow \in PayableRow /\ NoSettlementRow \in SettlementRow
  BY DEF NoPayableRow, PayableRow, NoSettlementRow, SettlementRow
<1>2. NoDocument \in Document BY DEF NoDocument, Document
<1>3. NoView \in View BY <1>1, <1>2 DEF NoView, View
<1>4. Idle \in Operation /\ Done \in Operation BY DEF Idle, Done, Call, Operation
<1> QED BY <1>1, <1>2, <1>3, <1>4

LEMMA ClaimType == ASSUME TypeOK PROVE Claim \in Int
<1> DEFINE f == [p \in Payables |-> IF source[p] = "COMPLETED" THEN Original[p] ELSE 0]
           g == [r \in Requests |->
                   IF r \in Active("payout") \/ (r \in Active("payment")
                                                 /\ source[doc[r].payable] = "COMPLETED")
                   THEN doc[r].amount ELSE 0]
<1>1. f \in [Payables -> Int] BY ConstantsAssumption
<1>2. g \in [Requests -> Int] BY DEF TypeOK, Document
<1>3. Claim = SumFunction(f) - SumFunction(g) BY DEF Claim
<1> HIDE DEF f, g
<1>4. SumFunction(f) \in Int /\ SumFunction(g) \in Int BY <1>1, <1>2, SumType, ConstantsAssumption
<1> QED BY <1>3, <1>4

(* What a step reads has the type of what it reads.                        *)
LEMMA LookType ==
  ASSUME TypeOK, NEW o \in Operation, NEW v \in View, NEW step, StepOK(o, v, step)
  PROVE  Look(o, v, step.look) \in View
<1>1. Claim \in Int BY ClaimType
<1>2. UnmatchedPayOut \in BOOLEAN BY DEF UnmatchedPayOut
<1>3. "settlement" \in step.look \/ "source" \in step.look => o.payable \in Payables BY DEF StepOK
<1>4. "doc" \in step.look => o.target \in Requests BY DEF StepOK
<1>5. "entry" \in step.look => o.entry \in Requests BY DEF StepOK
<1>6. "funds" \in step.look => o.account \in Ledgers BY DEF StepOK, Ledgers
<1> DEFINE l == step.look
<1>7. [p \in Payables |-> IF p \in Subjects(o, v) THEN payable[p] ELSE v.payable[p]]
        \in [Payables -> PayableRow]
  BY DEF TypeOK, View
<1>8. (IF "settlement" \in l THEN settlement[o.payable] ELSE v.settlement) \in SettlementRow
  BY <1>3 DEF TypeOK, View
<1>9. (IF "source" \in l THEN source[o.payable] ELSE v.source) \in {"ABSENT", "COMPLETED", "REVERSED"}
  BY <1>3 DEF TypeOK, View
<1>10. (IF "doc" \in l THEN doc[o.target] ELSE v.doc) \in Document BY <1>4 DEF TypeOK, View
<1>11. (IF "entry" \in l THEN doc[o.entry] ELSE v.entry) \in Document BY <1>5 DEF TypeOK, View
<1>12. (IF "funds" \in l THEN ledger[o.account] ELSE v.funds) \in Int BY <1>6 DEF TypeOK, View
<1>13. (IF "claim" \in l THEN Claim ELSE v.claim) \in Int BY <1>1 DEF View
<1>14. (IF "unmatched" \in l THEN UnmatchedPayOut ELSE v.unmatched) \in BOOLEAN BY <1>2 DEF View
<1>15. (IF "payable" \in l
        THEN [p \in Payables |-> IF p \in Subjects(o, v) THEN payable[p] ELSE v.payable[p]]
        ELSE v.payable) \in [Payables -> PayableRow]
  BY <1>7 DEF View
<1> QED BY <1>8, <1>9, <1>10, <1>11, <1>12, <1>13, <1>14, <1>15 DEF Look, View

(* Every journal changes every ledger account by an integer.               *)
LEMMA JournalTypes ==
  /\ \A p \in Payables : SourceJournal(p) \in [Ledgers -> Int]
  /\ \A d \in Document : d.account \in Accounts =>
       PaymentJournal(d) \in [Ledgers -> Int] /\ PayOutJournal(d) \in [Ledgers -> Int]
  /\ \A d \in Document : OffsetJournal(d) \in [Ledgers -> Int] /\ ReceiptJournal(d) \in [Ledgers -> Int]
<1>1. ASSUME NEW p \in Payables PROVE SourceJournal(p) \in [Ledgers -> Int]
  <2>1. Original[p] \in Int /\ Expected[p] \in Int BY ConstantsAssumption
  <2> QED BY <2>1 DEF SourceJournal
<1>2. ASSUME NEW d \in Document, d.account \in Accounts
      PROVE  PaymentJournal(d) \in [Ledgers -> Int] /\ PayOutJournal(d) \in [Ledgers -> Int]
  <2>1. Charge[d.account] \in Int BY <1>2, ConstantsAssumption
  <2>2. d.amount \in Int /\ d.cash \in Int /\ d.toPayable \in Int /\ d.toReceivable \in Int BY DEF Document
  <2>3. PaymentJournal(d) \in [Ledgers -> Int] BY <2>1, <2>2 DEF PaymentJournal
  <2>4. PayOutJournal(d) \in [Ledgers -> Int] BY <2>1, <2>2 DEF PayOutJournal
  <2> QED BY <2>3, <2>4
<1>3. ASSUME NEW d \in Document
      PROVE  OffsetJournal(d) \in [Ledgers -> Int] /\ ReceiptJournal(d) \in [Ledgers -> Int]
  <2>1. d.amount \in Int /\ d.cash \in Int BY DEF Document
  <2> QED BY <2>1 DEF OffsetJournal, ReceiptJournal
<1> QED BY <1>1, <1>2, <1>3

(* The part of TypeOK that the operations can disturb.                     *)
TablesOK ==
    /\ payable \in [Payables -> PayableRow]
    /\ settlement \in [Payables -> SettlementRow]
    /\ source \in [Payables -> {"ABSENT", "COMPLETED", "REVERSED"}]
    /\ doc \in [Requests -> Document]
    /\ ledger \in [Ledgers -> Int]

LEMMA PostType ==
  ASSUME ledger \in [Ledgers -> Int], NEW journal \in [Ledgers -> Int],
         Post(journal) \/ PostReversal(journal)
  PROVE  ledger' \in [Ledgers -> Int]
BY DEF Post, PostReversal

LEMMA ArithmeticTypes ==
  /\ \A m, n \in Int : Larger(m, n) \in Int /\ Smaller(m, n) \in Int
  /\ \A n \in Int : StatusFor(n) \in {"OPEN", "PAID"}
BY DEF Larger, Smaller, StatusFor

LEMMA SettledType ==
  ASSUME NEW o \in Operation, NEW v \in View, o.payable \in Payables
  PROVE  Settled(o, v) \in Int
<1>1. v.payable[o.payable].remaining \in Int BY DEF View, PayableRow
<1>2. o.amount \in Int BY DEF Operation
<1> QED BY <1>1, <1>2 DEF Settled, CashPayoutRounding

LEMMA PayTypes ==
  ASSUME TablesOK, NEW r \in Requests, NEW o \in Operation, NEW v \in View,
         o.payable \in Payables, o.account \in Accounts, PayEffect(r, o, v)
  PROVE  TablesOK'
<1> DEFINE row == v.payable[o.payable]
           remaining == Larger(0, row.remaining - Settled(o, v))
           payment == [NoDocument EXCEPT !.kind = "payment", !.payable = o.payable,
                         !.account = o.account, !.amount = Settled(o, v), !.cash = o.amount]
<1>1. row.paid \in Int /\ row.remaining \in Int BY DEF View, PayableRow
<1>2. o.amount \in Int BY DEF Operation
<1>3. Settled(o, v) \in Int BY SettledType
<1>4. remaining \in Int /\ StatusFor(remaining) \in {"OPEN", "PAID"} BY <1>1, <1>3 DEF Larger, StatusFor
<1>5. payment \in Document /\ payment.account = o.account
  <2>1. NoDocument \in Document BY RowTypes
  <2> QED BY <1>2, <1>3, <2>1 DEF Document
<1>6. /\ payable' = [payable EXCEPT ![o.payable] =
                       [@ EXCEPT !.paid = row.paid + Settled(o, v), !.remaining = remaining,
                                 !.status = StatusFor(remaining)]]
      /\ doc' = [doc EXCEPT ![r] = payment]
      /\ Post(PaymentJournal(payment))
      /\ UNCHANGED <<settlement, source>>
  BY DEF PayEffect
<1> HIDE DEF row, remaining, payment
<1>7. payable' \in [Payables -> PayableRow]
  <2>1. payable[o.payable] \in PayableRow BY DEF TablesOK
  <2>2. row.paid + Settled(o, v) \in Int BY <1>1, <1>3
  <2>3. [payable[o.payable] EXCEPT !.paid = row.paid + Settled(o, v), !.remaining = remaining,
                                   !.status = StatusFor(remaining)] \in PayableRow
    BY <1>4, <2>1, <2>2 DEF PayableRow
  <2> QED BY <1>6, <2>3 DEF TablesOK
<1>8. PaymentJournal(payment) \in [Ledgers -> Int] BY <1>5, JournalTypes
<1>9. ledger' \in [Ledgers -> Int] BY <1>6, <1>8, PostType DEF TablesOK
<1> QED BY <1>5, <1>6, <1>7, <1>9 DEF TablesOK

LEMMA PayOutTypes ==
  ASSUME TablesOK, NEW r \in Requests, NEW o \in Operation, NEW v \in View,
         o.account \in Accounts, PayOutEffect(r, o, v)
  PROVE  TablesOK'
<1> DEFINE row == v.payable[o.payable]
           remaining == Larger(0, row.remaining - o.part)
           matched == [p \in Payables |-> IF p = o.payable THEN o.part ELSE 0]
           payout == [NoDocument EXCEPT !.kind = "payout", !.account = o.account,
                        !.amount = o.amount, !.cash = o.amount,
                        !.toPayable = o.part + GenericPayable(o, v),
                        !.toReceivable = o.amount - o.part - GenericPayable(o, v),
                        !.matched = matched]
<1>1. o.amount \in Int /\ o.part \in Int BY DEF Operation
<1>2. GenericPayable(o, v) \in Int
  <2>1. v.claim \in Int BY DEF View
  <2> QED BY <1>1, <2>1 DEF GenericPayable, Smaller, Larger
<1>3. o.payable = None \/ o.payable \in Payables BY DEF Operation
<1>4. payout \in Document /\ payout.account = o.account
  <2>1. NoDocument \in Document BY RowTypes
  <2>2. matched \in [Payables -> Int] BY <1>1
  <2>3. o.part + GenericPayable(o, v) \in Int /\ o.amount - o.part - GenericPayable(o, v) \in Int
    BY <1>1, <1>2
  <2> HIDE DEF matched
  <2> QED BY <1>1, <2>1, <2>2, <2>3 DEF Document
<1>5. /\ payable' = IF o.payable = None THEN payable
                    ELSE [payable EXCEPT ![o.payable] =
                            [@ EXCEPT !.paid = row.paid + o.part, !.remaining = remaining,
                                      !.status = StatusFor(remaining)]]
      /\ doc' = [doc EXCEPT ![r] = payout]
      /\ Post(PayOutJournal(payout))
      /\ UNCHANGED <<settlement, source>>
  BY DEF PayOutEffect
<1>6. o.payable \in Payables => row.paid \in Int /\ row.remaining \in Int BY DEF View, PayableRow
<1>7. o.payable \in Payables => remaining \in Int /\ StatusFor(remaining) \in {"OPEN", "PAID"}
  BY <1>1, <1>6 DEF Larger, StatusFor
<1> HIDE DEF row, remaining, payout
<1>8. payable' \in [Payables -> PayableRow]
  <2>1. CASE o.payable = None BY <1>5, <2>1 DEF TablesOK
  <2>2. CASE o.payable # None
    <3>1. o.payable \in Payables BY <1>3, <2>2
    <3>2. payable[o.payable] \in PayableRow /\ row.paid + o.part \in Int BY <1>1, <1>6, <3>1 DEF TablesOK
    <3>3. [payable[o.payable] EXCEPT !.paid = row.paid + o.part, !.remaining = remaining,
                                     !.status = StatusFor(remaining)] \in PayableRow
      BY <1>7, <3>1, <3>2 DEF PayableRow
    <3> QED BY <1>5, <2>2, <3>1, <3>3 DEF TablesOK
  <2> QED BY <2>1, <2>2
<1>9. PayOutJournal(payout) \in [Ledgers -> Int] BY <1>4, JournalTypes
<1>10. ledger' \in [Ledgers -> Int] BY <1>5, <1>9, PostType DEF TablesOK
<1> QED BY <1>4, <1>5, <1>8, <1>10 DEF TablesOK

LEMMA MatchTypes ==
  ASSUME TablesOK, NEW r \in Requests, NEW o \in Operation, NEW v \in View,
         o.payable \in Payables, o.entry \in Requests, MatchEffect(r, o, v)
  PROVE  TablesOK'
<1> DEFINE remaining == v.payable[o.payable].remaining - o.amount
<1>1. o.amount \in Int /\ remaining \in Int /\ StatusFor(remaining) \in {"OPEN", "PAID"}
  BY DEF Operation, View, PayableRow, StatusFor
<1>2. /\ payable' = [payable EXCEPT ![o.payable] =
                       [payable[o.payable] EXCEPT !.paid = @ + o.amount, !.remaining = remaining,
                                 !.status = StatusFor(remaining)]]
      /\ doc' = [doc EXCEPT ![o.entry].matched[o.payable] = o.amount]
      /\ UNCHANGED <<settlement, source, ledger>>
  BY DEF MatchEffect
<1> HIDE DEF remaining
<1>3. payable[o.payable] \in PayableRow /\ doc[o.entry] \in Document BY DEF TablesOK
<1>. payable[o.payable].paid + o.amount \in Int BY <1>1, <1>3 DEF PayableRow
<1>4. [payable[o.payable] EXCEPT !.paid = payable[o.payable].paid + o.amount, !.remaining = remaining,
                                 !.status = StatusFor(remaining)] \in PayableRow
  BY <1>1, <1>3 DEF PayableRow
<1>5. [doc[o.entry] EXCEPT !.matched[o.payable] = o.amount] \in Document BY <1>1, <1>3 DEF Document
<1>6. payable' \in [Payables -> PayableRow] BY <1>2, <1>4 DEF TablesOK
<1>7. doc' \in [Requests -> Document] BY <1>2, <1>5 DEF TablesOK
<1> QED BY <1>2, <1>6, <1>7 DEF TablesOK

LEMMA UnmatchTypes ==
  ASSUME TablesOK, NEW r \in Requests, NEW o \in Operation, NEW v \in View,
         o.payable \in Payables, o.entry \in Requests, UnmatchEffect(r, o, v)
  PROVE  TablesOK'
<1> DEFINE amount == v.entry.matched[o.payable]
           remaining == v.payable[o.payable].remaining + amount
<1>1. amount \in Int /\ remaining \in Int BY DEF View, PayableRow, Document
<1>2. /\ payable' = [payable EXCEPT ![o.payable] =
                       [payable[o.payable] EXCEPT !.paid = @ - amount, !.remaining = remaining, !.status = "OPEN"]]
      /\ doc' = [doc EXCEPT ![o.entry].matched[o.payable] = 0]
      /\ UNCHANGED <<settlement, source, ledger>>
  BY DEF UnmatchEffect
<1> HIDE DEF remaining, amount
<1>3. payable[o.payable] \in PayableRow /\ doc[o.entry] \in Document BY DEF TablesOK
<1>. payable[o.payable].paid - amount \in Int BY <1>1, <1>3 DEF PayableRow
<1>4. [payable[o.payable] EXCEPT !.paid = payable[o.payable].paid - amount, !.remaining = remaining, !.status = "OPEN"] \in PayableRow
  BY <1>1, <1>3 DEF PayableRow
<1>5. [doc[o.entry] EXCEPT !.matched[o.payable] = 0] \in Document BY <1>3 DEF Document
<1>6. payable' \in [Payables -> PayableRow] BY <1>2, <1>4 DEF TablesOK
<1>7. doc' \in [Requests -> Document] BY <1>2, <1>5 DEF TablesOK
<1> QED BY <1>2, <1>6, <1>7 DEF TablesOK

LEMMA ApplyTypes ==
  ASSUME TablesOK, NEW r \in Requests, NEW o \in Operation, NEW v \in View,
         o.payable \in Payables, o.entry \in Requests, ApplyEffect(r, o, v)
  PROVE  TablesOK'
<1> DEFINE remaining == Larger(0, v.payable[o.payable].remaining - o.amount)
           offset == [NoDocument EXCEPT !.kind = "offset", !.payable = o.payable,
                        !.entry = o.entry, !.amount = o.amount]
<1>1. o.amount \in Int BY DEF Operation
<1>2. v.payable[o.payable].remaining \in Int BY DEF View, PayableRow
<1>3. remaining \in Int /\ StatusFor(remaining) \in {"OPEN", "PAID"} BY <1>1, <1>2 DEF Larger, StatusFor
<1>4. offset \in Document
  <2>1. NoDocument \in Document BY RowTypes
  <2> QED BY <1>1, <2>1 DEF Document
<1>5. /\ payable' = [payable EXCEPT ![o.payable] =
                       [payable[o.payable] EXCEPT !.offset = @ + o.amount, !.remaining = remaining,
                                                  !.status = StatusFor(remaining)]]
      /\ doc' = [doc EXCEPT ![o.entry].applied = @ + o.amount, ![r] = offset]
      /\ Post(OffsetJournal(offset))
      /\ UNCHANGED <<settlement, source>>
  BY DEF ApplyEffect
<1> HIDE DEF remaining, offset
<1>6. payable[o.payable] \in PayableRow /\ doc[o.entry] \in Document BY DEF TablesOK
<1>7. payable' \in [Payables -> PayableRow]
  <2>1. payable[o.payable].offset + o.amount \in Int BY <1>1, <1>6 DEF PayableRow
  <2>2. [payable[o.payable] EXCEPT !.offset = payable[o.payable].offset + o.amount, !.remaining = remaining,
                                   !.status = StatusFor(remaining)] \in PayableRow
    BY <1>3, <1>6, <2>1 DEF PayableRow
  <2> QED BY <1>5, <2>2 DEF TablesOK
<1>8. doc' \in [Requests -> Document]
  <2>1. doc[o.entry].applied + o.amount \in Int BY <1>1, <1>6 DEF Document
  <2>2. [doc[o.entry] EXCEPT !.applied = doc[o.entry].applied + o.amount] \in Document
    BY <1>6, <2>1 DEF Document
  <2> QED BY <1>4, <1>5, <2>2 DEF TablesOK
<1>9. OffsetJournal(offset) \in [Ledgers -> Int] BY <1>4, JournalTypes
<1>10. ledger' \in [Ledgers -> Int] BY <1>5, <1>9, PostType DEF TablesOK
<1> QED BY <1>5, <1>7, <1>8, <1>10 DEF TablesOK

LEMMA UnapplyTypes ==
  ASSUME TablesOK, NEW r \in Requests, NEW o \in Operation, NEW v \in View,
         o.payable \in Payables, o.entry \in Requests, o.target \in Requests, UnapplyEffect(r, o, v)
  PROVE  TablesOK'
<1> DEFINE row == v.payable[o.payable]
<1>1. v.doc \in Document /\ v.doc.amount \in Int BY DEF View, Document
<1>2. row.offset - v.doc.amount \in Int /\ row.remaining + v.doc.amount \in Int
  BY <1>1 DEF View, PayableRow
<1>3. /\ payable' = [payable EXCEPT ![o.payable] =
                       [@ EXCEPT !.offset = row.offset - v.doc.amount,
                                 !.remaining = row.remaining + v.doc.amount, !.status = "OPEN"]]
      /\ doc' = [doc EXCEPT ![o.entry].applied = @ - v.doc.amount, ![o.target].status = "REVERSED"]
      /\ PostReversal(OffsetJournal(v.doc))
      /\ UNCHANGED <<settlement, source>>
  BY DEF UnapplyEffect
<1> HIDE DEF row
<1>4. payable' \in [Payables -> PayableRow]
  <2>1. payable[o.payable] \in PayableRow BY DEF TablesOK
  <2>2. [payable[o.payable] EXCEPT !.offset = row.offset - v.doc.amount,
                                   !.remaining = row.remaining + v.doc.amount, !.status = "OPEN"] \in PayableRow
    BY <1>2, <2>1 DEF PayableRow
  <2> QED BY <1>3, <2>2 DEF TablesOK
<1>5. doc' \in [Requests -> Document]
  <2> DEFINE applied == doc[o.entry].applied - v.doc.amount
             docs == [doc EXCEPT ![o.entry].applied = applied]
  <2>1. doc[o.entry] \in Document BY DEF TablesOK
  <2>2. applied \in Int BY <1>1, <2>1 DEF Document
  <2>3. doc' = [docs EXCEPT ![o.target].status = "REVERSED"] BY <1>3
  <2> HIDE DEF applied
  <2>4. [doc[o.entry] EXCEPT !.applied = applied] \in Document BY <2>1, <2>2 DEF Document
  <2>5. docs \in [Requests -> Document] BY <2>4 DEF TablesOK
  <2> HIDE DEF docs
  <2>6. [docs[o.target] EXCEPT !.status = "REVERSED"] \in Document BY <2>5 DEF Document
  <2> QED BY <2>3, <2>5, <2>6
<1>6. OffsetJournal(v.doc) \in [Ledgers -> Int] BY <1>1, JournalTypes
<1>7. ledger' \in [Ledgers -> Int] BY <1>3, <1>6, PostType DEF TablesOK
<1> QED BY <1>3, <1>4, <1>5, <1>7 DEF TablesOK

LEMMA RowUpdates ==
  /\ \A row \in PayableRow, n \in Int, status \in {"CANCELLED", "REVERSED"} :
       [row EXCEPT !.status = status, !.remaining = n] \in PayableRow
  /\ \A row \in SettlementRow, n \in Int, status \in {"REVERSED"} :
       [row EXCEPT !.status = status, !.remaining = n] \in SettlementRow
BY DEF PayableRow, SettlementRow

LEMMA VoidTypes ==
  ASSUME TablesOK, NEW p \in Payables, NEW status \in {"CANCELLED", "REVERSED"}, VoidEffect(p, status)
  PROVE  TablesOK'
<1>0. payable[p] \in PayableRow /\ settlement[p] \in SettlementRow BY DEF TablesOK
<1>. 0 \in Int OBVIOUS
<1>1. [payable[p] EXCEPT !.status = status, !.remaining = 0] \in PayableRow BY <1>0, RowUpdates, Zenon
<1>2. [settlement[p] EXCEPT !.status = "REVERSED", !.remaining = 0] \in SettlementRow
  <2>1. "REVERSED" \in {"REVERSED"} OBVIOUS
  <2> QED BY <1>0, <2>1, RowUpdates, Zenon
<1>3. payable' \in [Payables -> PayableRow] BY <1>1 DEF TablesOK, VoidEffect
<1>4. settlement' \in [Payables -> SettlementRow] BY <1>2 DEF TablesOK, VoidEffect
<1>5. SourceJournal(p) \in [Ledgers -> Int] BY JournalTypes
<1>6. ledger' \in [Ledgers -> Int] BY <1>5, PostType DEF TablesOK, VoidEffect
<1> QED BY <1>3, <1>4, <1>6 DEF TablesOK, VoidEffect

LEMMA ReversePaymentTypes ==
  ASSUME TablesOK, NEW r \in Requests, NEW o \in Operation, NEW v \in View,
         o.payable \in Payables, o.target \in Requests, v.doc.account \in Accounts,
         ReversePaymentEffect(r, o, v)
  PROVE  TablesOK'
<1> DEFINE row == v.payable[o.payable]
           paid == Larger(0, row.paid - v.doc.amount)
           remaining == Original[o.payable] - paid - row.offset
<1>1. v.doc \in Document /\ v.doc.amount \in Int BY DEF View, Document
<1>2. Original[o.payable] \in Int BY ConstantsAssumption
<1>3. row.paid \in Int /\ row.offset \in Int BY DEF View, PayableRow
<1>4. paid \in Int BY <1>1, <1>3 DEF Larger
<1>5. remaining \in Int /\ StatusFor(remaining) \in {"OPEN", "PAID"} BY <1>2, <1>3, <1>4 DEF StatusFor
<1>6. /\ payable' = [payable EXCEPT ![o.payable] =
                       [@ EXCEPT !.paid = paid, !.remaining = remaining, !.status = StatusFor(remaining)]]
      /\ doc' = [doc EXCEPT ![o.target].status = "REVERSED"]
      /\ PostReversal(PaymentJournal(v.doc))
      /\ UNCHANGED <<settlement, source>>
  BY DEF ReversePaymentEffect
<1> HIDE DEF paid, remaining
<1>7. payable' \in [Payables -> PayableRow]
  <2>1. payable[o.payable] \in PayableRow BY DEF TablesOK
  <2>2. [payable[o.payable] EXCEPT !.paid = paid, !.remaining = remaining,
                                   !.status = StatusFor(remaining)] \in PayableRow
    BY <1>4, <1>5, <2>1 DEF PayableRow
  <2> QED BY <1>6, <2>2 DEF TablesOK
<1>8. doc' \in [Requests -> Document]
  <2>1. doc[o.target] \in Document BY DEF TablesOK
  <2>2. [doc[o.target] EXCEPT !.status = "REVERSED"] \in Document BY <2>1 DEF Document
  <2> QED BY <1>6, <2>2 DEF TablesOK
<1>9. PaymentJournal(v.doc) \in [Ledgers -> Int] BY <1>1, JournalTypes
<1>10. ledger' \in [Ledgers -> Int] BY <1>6, <1>9, PostType DEF TablesOK
<1> QED BY <1>6, <1>7, <1>8, <1>10 DEF TablesOK

LEMMA ReverseEntryTypes ==
  ASSUME TablesOK, NEW r \in Requests, NEW o \in Operation, NEW v \in View,
         o.entry \in Requests, v.entry.account \in Accounts, ReverseEntryEffect(r, o, v)
  PROVE  TablesOK'
<1> DEFINE paid(p) == Larger(0, v.payable[p].paid - v.entry.matched[p])
           remaining(p) == Larger(0, Original[p] - paid(p) - v.payable[p].offset)
<1>1. v.entry \in Document BY DEF View
<1>2. /\ payable' = [p \in Payables |->
                       IF v.entry.matched[p] > 0
                       THEN [payable[p] EXCEPT !.paid = paid(p), !.remaining = remaining(p),
                                               !.status = StatusFor(remaining(p))]
                       ELSE payable[p]]
      /\ doc' = [doc EXCEPT ![o.entry].status = "REVERSED"]
      /\ PostReversal(PayOutJournal(v.entry))
      /\ UNCHANGED <<settlement, source>>
  BY DEF ReverseEntryEffect
<1>3. ASSUME NEW p \in Payables
      PROVE  paid(p) \in Int /\ remaining(p) \in Int /\ StatusFor(remaining(p)) \in {"OPEN", "PAID"}
  <2>1. v.payable[p].paid \in Int /\ v.payable[p].offset \in Int BY DEF View, PayableRow
  <2>2. v.entry.matched[p] \in Int BY <1>1 DEF Document
  <2>3. paid(p) \in Int BY <2>1, <2>2 DEF Larger
  <2>4. Original[p] \in Int BY ConstantsAssumption
  <2> HIDE DEF paid
  <2>5. remaining(p) \in Int BY <2>1, <2>3, <2>4 DEF Larger
  <2> HIDE DEF remaining
  <2> QED BY <2>3, <2>5 DEF StatusFor
<1> HIDE DEF paid, remaining
<1>4. payable' \in [Payables -> PayableRow]
  <2>1. ASSUME NEW p \in Payables
        PROVE  [payable[p] EXCEPT !.paid = paid(p), !.remaining = remaining(p),
                                  !.status = StatusFor(remaining(p))] \in PayableRow
    <3>1. payable[p] \in PayableRow BY DEF TablesOK
    <3> QED BY <1>3, <3>1 DEF PayableRow
  <2> QED BY <1>2, <2>1 DEF TablesOK
<1>5. doc' \in [Requests -> Document]
  <2>1. doc[o.entry] \in Document BY DEF TablesOK
  <2>2. [doc[o.entry] EXCEPT !.status = "REVERSED"] \in Document BY <2>1 DEF Document
  <2> QED BY <1>2, <2>2 DEF TablesOK
<1>6. PayOutJournal(v.entry) \in [Ledgers -> Int] BY <1>1, JournalTypes
<1>7. ledger' \in [Ledgers -> Int] BY <1>2, <1>6, PostType DEF TablesOK
<1> QED BY <1>2, <1>4, <1>5, <1>7 DEF TablesOK

LEMMA ReceiveTypes ==
  ASSUME TablesOK, NEW r \in Requests, NEW o \in Operation, NEW v \in View,
         o.payable \in Payables, o.account \in Accounts, ReceiveEffect(r, o, v)
  PROVE  TablesOK'
<1> DEFINE remaining == Larger(0, v.settlement.remaining - o.amount)
           receipt == [NoDocument EXCEPT !.kind = "receipt", !.payable = o.payable,
                         !.account = o.account, !.amount = o.amount, !.cash = o.amount]
           row == [received |-> v.settlement.received + o.amount, remaining |-> remaining,
                   status |-> IF remaining = 0 THEN "SETTLED" ELSE "OPEN"]
<1>1. o.amount \in Int BY DEF Operation
<1>2. v.settlement.remaining \in Int /\ v.settlement.received \in Int BY DEF View, SettlementRow
<1>3. remaining \in Int BY <1>1, <1>2 DEF Larger
<1>4. receipt \in Document
  <2>1. NoDocument \in Document BY RowTypes
  <2> QED BY <1>1, <2>1 DEF Document
<1>5. /\ settlement' = [settlement EXCEPT ![o.payable] = row]
      /\ doc' = [doc EXCEPT ![r] = receipt]
      /\ Post(ReceiptJournal(receipt))
      /\ UNCHANGED <<payable, source>>
  BY DEF ReceiveEffect
<1> HIDE DEF remaining, receipt
<1>6. row \in SettlementRow BY <1>1, <1>2, <1>3 DEF SettlementRow
<1> HIDE DEF row
<1>7. ReceiptJournal(receipt) \in [Ledgers -> Int] BY <1>4, JournalTypes
<1>8. ledger' \in [Ledgers -> Int] BY <1>5, <1>7, PostType DEF TablesOK
<1> QED BY <1>4, <1>5, <1>6, <1>8 DEF TablesOK

LEMMA ReverseReceiptTypes ==
  ASSUME TablesOK, NEW r \in Requests, NEW o \in Operation, NEW v \in View,
         o.payable \in Payables, o.target \in Requests, ReverseReceiptEffect(r, o, v)
  PROVE  TablesOK'
<1> DEFINE received == Larger(0, v.settlement.received - v.doc.amount)
           remaining == Larger(0, Expected[o.payable] - received)
           row == [received |-> received, remaining |-> remaining,
                   status |-> IF received > 0 /\ remaining = 0 THEN "SETTLED" ELSE "OPEN"]
<1>1. v.doc \in Document /\ v.doc.amount \in Int BY DEF View, Document
<1>2. v.settlement.received \in Int BY DEF View, SettlementRow
<1>3. received \in Int BY <1>1, <1>2 DEF Larger
<1>4. Expected[o.payable] \in Int BY ConstantsAssumption
<1>5. /\ settlement' = [settlement EXCEPT ![o.payable] = row]
      /\ doc' = [doc EXCEPT ![o.target].status = "REVERSED"]
      /\ PostReversal(ReceiptJournal(v.doc))
      /\ UNCHANGED <<payable, source>>
  BY DEF ReverseReceiptEffect
<1> HIDE DEF received
<1>6. remaining \in Int BY <1>3, <1>4 DEF Larger
<1> HIDE DEF remaining
<1>7. row \in SettlementRow BY <1>3, <1>6 DEF SettlementRow
<1> HIDE DEF row
<1>8. doc' \in [Requests -> Document]
  <2>1. doc[o.target] \in Document BY DEF TablesOK
  <2>2. [doc[o.target] EXCEPT !.status = "REVERSED"] \in Document BY <2>1 DEF Document
  <2> QED BY <1>5, <2>2 DEF TablesOK
<1>9. ReceiptJournal(v.doc) \in [Ledgers -> Int] BY <1>1, JournalTypes
<1>10. ledger' \in [Ledgers -> Int] BY <1>5, <1>9, PostType DEF TablesOK
<1> QED BY <1>5, <1>7, <1>8, <1>10 DEF TablesOK

LEMMA RecordSwipeTypes ==
  ASSUME TablesOK, NEW p \in Payables, RecordSwipe(p)
  PROVE  TablesOK'
<1>1. Original[p] \in Int /\ Expected[p] \in Int BY ConstantsAssumption
<1>2. [NoPayableRow EXCEPT !.remaining = Original[p]] \in PayableRow
  <2>1. NoPayableRow \in PayableRow BY RowTypes
  <2> QED BY <1>1, <2>1 DEF PayableRow
<1>3. [NoSettlementRow EXCEPT !.remaining = Expected[p]] \in SettlementRow
  <2>1. NoSettlementRow \in SettlementRow BY RowTypes
  <2> QED BY <1>1, <2>1 DEF SettlementRow
<1>4. payable' \in [Payables -> PayableRow] BY <1>2 DEF TablesOK, RecordSwipe
<1>5. settlement' \in [Payables -> SettlementRow] BY <1>3 DEF TablesOK, RecordSwipe
<1>6. SourceJournal(p) \in [Ledgers -> Int] BY JournalTypes
<1>7. ledger' \in [Ledgers -> Int] BY <1>6, PostType DEF TablesOK, RecordSwipe
<1> QED BY <1>4, <1>5, <1>7 DEF TablesOK, RecordSwipe

---------------------------------------------------------------------------
(* What is known when a transaction commits.                               *)

LEMMA CommitEnds ==
  ASSUME NEW r \in Requests, Commit(r)
  PROVE  Running(r) /\ AtEnd(r) /\ Checks(op[r], view[r]) /\ Finish(r, Done)
BY DEF Commit, Pay, PayOut, Match, Unmatch, Apply, Unapply, Cancel, ReverseSource, ReversePayment,
       ReverseEntry, Receive, ReverseReceipt, Commits, Running, Kinds

LEMMA CallFacts ==
  ASSUME Shape, NEW r \in Requests, Running(r)
  PROVE  /\ op[r] \in Operation /\ op[r].kind \in Kinds /\ view[r] \in View /\ CallOK(op[r])
         /\ AtEnd(r) => /\ stage[r] = Len(PlanOf(r)) + 1 /\ stage[r] > 1
                        /\ op[r].kind = "reversePayment" => view[r].doc.account \in Accounts
                        /\ op[r].kind = "reverseEntry" => view[r].entry.account \in Accounts
<1>1. op[r] \in Operation /\ op[r].kind \in Kinds /\ view[r] \in View
  BY DEF Shape, TypeOK, Running
<1>2. SessionOK(r) BY DEF Shape, SessionsOK
<1>3. Len(PlanOf(r)) \in Nat /\ Len(PlanOf(r)) >= 1 BY <1>1, PlanLength DEF PlanOf
<1>4. AtEnd(r) => stage[r] = Len(PlanOf(r)) + 1 /\ stage[r] > 1
  BY <1>2, <1>3 DEF AtEnd, SessionOK
<1>5. DocumentOK(view[r].doc) /\ DocumentOK(view[r].entry) BY DEF Shape, DocumentsOK
<1> QED BY <1>1, <1>2, <1>4, <1>5 DEF SessionOK, DocumentOK

LEMMA ShapeTables == ASSUME Shape PROVE TablesOK
BY DEF Shape, TypeOK, TablesOK

LEMMA CommitTypes ==
  ASSUME Shape, NEW r \in Requests, Commit(r)
  PROVE  TablesOK'
<1> DEFINE o == op[r]
           v == view[r]
<1>1. Running(r) /\ AtEnd(r) BY CommitEnds
<1>2. /\ o \in Operation /\ v \in View /\ CallOK(o)
      /\ o.kind = "reversePayment" => v.doc.account \in Accounts
      /\ o.kind = "reverseEntry" => v.entry.account \in Accounts
  BY <1>1, CallFacts
<1>3. TablesOK BY ShapeTables
<1>4. CASE Pay(r) BY <1>2, <1>3, <1>4, PayTypes DEF Pay, Commits, CallOK
<1>5. CASE PayOut(r) BY <1>2, <1>3, <1>5, PayOutTypes DEF PayOut, Commits, CallOK
<1>6. CASE Match(r) BY <1>2, <1>3, <1>6, MatchTypes DEF Match, Commits, CallOK
<1>7. CASE Unmatch(r) BY <1>2, <1>3, <1>7, UnmatchTypes DEF Unmatch, Commits, CallOK
<1>8. CASE Apply(r) BY <1>2, <1>3, <1>8, ApplyTypes DEF Apply, Commits, CallOK
<1>9. CASE Unapply(r) BY <1>2, <1>3, <1>9, UnapplyTypes DEF Unapply, Commits, CallOK
<1>10. CASE Cancel(r) BY <1>2, <1>3, <1>10, VoidTypes DEF Cancel, CancelEffect, Commits, CallOK
<1>11. CASE ReverseSource(r)
  BY <1>2, <1>3, <1>11, VoidTypes DEF ReverseSource, ReverseSourceEffect, Commits, CallOK
<1>12. CASE ReversePayment(r) BY <1>2, <1>3, <1>12, ReversePaymentTypes DEF ReversePayment, Commits, CallOK
<1>13. CASE ReverseEntry(r) BY <1>2, <1>3, <1>13, ReverseEntryTypes DEF ReverseEntry, Commits, CallOK
<1>14. CASE Receive(r) BY <1>2, <1>3, <1>14, ReceiveTypes DEF Receive, Commits, CallOK
<1>15. CASE ReverseReceipt(r) BY <1>2, <1>3, <1>15, ReverseReceiptTypes DEF ReverseReceipt, Commits, CallOK
<1> QED BY <1>4, <1>5, <1>6, <1>7, <1>8, <1>9, <1>10, <1>11, <1>12, <1>13, <1>14, <1>15 DEF Commit

(* What a commit leaves of the documents: those of other requests keep     *)
(* their kind and the rows they name.                                      *)
SameDocuments(r) ==
    \A d \in Requests \ {r} : /\ doc'[d].kind = doc[d].kind /\ doc'[d].payable = doc[d].payable
                              /\ doc'[d].account = doc[d].account /\ doc'[d].entry = doc[d].entry

LEMMA RecordedStays ==
  ASSUME Shape, NEW r \in Requests, Commit(r)
  PROVE  \A p \in Payables : source[p] # "ABSENT" => source'[p] # "ABSENT"
<1>1. source \in [Payables -> {"ABSENT", "COMPLETED", "REVERSED"}] BY DEF Shape, TypeOK
<1>2. CASE Cancel(r) BY <1>1, <1>2 DEF Cancel, CancelEffect, VoidEffect
<1>3. CASE ReverseSource(r) BY <1>1, <1>3 DEF ReverseSource, ReverseSourceEffect, VoidEffect
<1>4. CASE ~Cancel(r) /\ ~ReverseSource(r)
  <2>1. source' = source
    BY <1>4 DEF Commit, Pay, PayOut, Match, Unmatch, Apply, Unapply, ReversePayment, ReverseEntry, Receive,
                ReverseReceipt, PayEffect, PayOutEffect, MatchEffect, UnmatchEffect, ApplyEffect,
                UnapplyEffect, ReversePaymentEffect, ReverseEntryEffect, ReceiveEffect,
                ReverseReceiptEffect
  <2> QED BY <2>1
<1> QED BY <1>2, <1>3, <1>4

LEMMA CommitDocuments ==
  ASSUME Shape, NEW r \in Requests, Commit(r)
  PROVE  /\ SameDocuments(r) /\ \A d \in Requests : DocumentOK(doc[d])'
         /\ doc'[r].kind = "offset" => doc'[op[r].entry].kind = "payout" /\ doc'[r].entry = op[r].entry
<1> DEFINE o == op[r]
           v == view[r]
<1>1. Running(r) /\ AtEnd(r) /\ Checks(o, v) BY CommitEnds
<1>2. o \in Operation /\ v \in View /\ CallOK(o) BY <1>1, CallFacts
<1>3. doc \in [Requests -> Document] BY DEF Shape, TypeOK
<1>4. \A p \in Payables : source[p] # "ABSENT" => source'[p] # "ABSENT" BY RecordedStays
<1>5. \A d \in Requests : DocumentOK(doc[d]) BY DEF Shape, DocumentsOK
<1>6. NoDocument \in Document /\ NoDocument.matched = [p \in Payables |-> 0]
      /\ NoDocument.payable = None /\ None \notin Payables
  BY RowTypes, ConstantsAssumption DEF NoDocument
<1>7. \A d \in Requests : doc'[d] = doc[d] => DocumentOK(doc[d])' BY <1>4, <1>5 DEF DocumentOK
<1>none. doc[r].kind = "none" BY <1>1 DEF Shape, DocumentsOK, Running, Kinds
<1>8. CASE Pay(r)
  <2> DEFINE new == [NoDocument EXCEPT !.kind = "payment", !.payable = o.payable, !.account = o.account,
                                       !.amount = Settled(o, v), !.cash = o.amount]
  <2>1. doc' = [doc EXCEPT ![r] = new] BY <1>8 DEF Pay, PayEffect
  <2>2. new.kind = "payment" /\ new.payable = o.payable /\ new.account = o.account
        /\ new.matched = [p \in Payables |-> 0]
    BY <1>6 DEF Document
  <2>3. o.account \in Accounts /\ o.payable \in Payables /\ source[o.payable] # "ABSENT"
    BY <1>2, <1>8 DEF Pay, Commits, CallOK
  <2> HIDE DEF new
  <2>4. doc'[r] = new /\ \A d \in Requests \ {r} : doc'[d] = doc[d] BY <1>3, <2>1
  <2>5. DocumentOK(doc[r])' BY <1>4, <2>2, <2>3, <2>4 DEF DocumentOK
  <2> QED BY <1>7, <2>2, <2>4, <2>5 DEF SameDocuments
<1>9. CASE PayOut(r)
  <2> DEFINE matched == [p \in Payables |-> IF p = o.payable THEN o.part ELSE 0]
             new == [NoDocument EXCEPT !.kind = "payout", !.account = o.account,
                       !.amount = o.amount, !.cash = o.amount,
                       !.toPayable = o.part + GenericPayable(o, v),
                       !.toReceivable = o.amount - o.part - GenericPayable(o, v),
                       !.matched = matched]
  <2>1. doc' = [doc EXCEPT ![r] = new] BY <1>9 DEF PayOut, PayOutEffect
  <2>2. new.kind = "payout" /\ new.account = o.account /\ new.matched = matched /\ new.payable = None
    <3> HIDE DEF matched
    <3> QED BY <1>6 DEF Document
  <2>3. o.account \in Accounts /\ (o.payable \in Payables => source[o.payable] # "ABSENT")
    BY <1>2, <1>9 DEF PayOut, Commits, CallOK
  <2>4. \A p \in Payables : matched[p] > 0 => source'[p] # "ABSENT" BY <1>4, <2>3
  <2> HIDE DEF new, matched
  <2>5. doc'[r] = new /\ \A d \in Requests \ {r} : doc'[d] = doc[d] BY <1>3, <2>1
  <2>6. DocumentOK(doc[r])' BY <1>6, <2>2, <2>3, <2>4, <2>5 DEF DocumentOK
  <2> QED BY <1>7, <2>2, <2>5, <2>6 DEF SameDocuments
<1>10. CASE Receive(r)
  <2> DEFINE new == [NoDocument EXCEPT !.kind = "receipt", !.payable = o.payable, !.account = o.account,
                                       !.amount = o.amount, !.cash = o.amount]
  <2>1. doc' = [doc EXCEPT ![r] = new] BY <1>10 DEF Receive, ReceiveEffect
  <2>2. new.kind = "receipt" /\ new.payable = o.payable /\ new.account = o.account
        /\ new.matched = [p \in Payables |-> 0]
    BY <1>6 DEF Document
  <2>3. o.account \in Accounts /\ o.payable \in Payables /\ source[o.payable] # "ABSENT"
    BY <1>2, <1>10 DEF Receive, Commits, CallOK
  <2> HIDE DEF new
  <2>4. doc'[r] = new /\ \A d \in Requests \ {r} : doc'[d] = doc[d] BY <1>3, <2>1
  <2>5. DocumentOK(doc[r])' BY <1>4, <2>2, <2>3, <2>4 DEF DocumentOK
  <2> QED BY <1>7, <2>2, <2>4, <2>5 DEF SameDocuments
<1>11. CASE Match(r)
  <2>1. o.entry \in Requests /\ o.payable \in Payables /\ source[o.payable] # "ABSENT"
    BY <1>2, <1>11 DEF Match, Commits, CallOK
  <2> DEFINE old == doc[o.entry]
             matched == [old.matched EXCEPT ![o.payable] = o.amount]
             new == [old EXCEPT !.matched = matched]
  <2>2. doc' = [doc EXCEPT ![o.entry] = new] BY <1>11 DEF Match, MatchEffect
  <2>3. old \in Document /\ old.matched \in [Payables -> Int] BY <1>3, <2>1 DEF Document
  <2>4. \A p \in Payables : p # o.payable => matched[p] = old.matched[p] BY <2>3
  <2> HIDE DEF matched
  <2>5. /\ new.kind = old.kind /\ new.payable = old.payable /\ new.account = old.account
        /\ new.entry = old.entry /\ new.amount = old.amount /\ new.matched = matched
    BY <2>3 DEF Document
  <2> HIDE DEF new
  <2>6. doc'[o.entry] = new /\ \A d \in Requests : d # o.entry => doc'[d] = doc[d] BY <1>3, <2>1, <2>2
  <2>7. ASSUME NEW d \in Requests, d = o.entry PROVE DocumentOK(doc[d])'
    BY <2>7, <1>4, <1>5, <2>1, <2>4, <2>5, <2>6 DEF DocumentOK
  <2> QED BY <1>7, <1>none, <2>3, <2>5, <2>6, <2>7 DEF SameDocuments
<1>12. CASE Unmatch(r)
  <2>1. o.entry \in Requests /\ o.payable \in Payables /\ source[o.payable] # "ABSENT"
    BY <1>2, <1>12 DEF Unmatch, Commits, CallOK
  <2> DEFINE old == doc[o.entry]
             matched == [old.matched EXCEPT ![o.payable] = 0]
             new == [old EXCEPT !.matched = matched]
  <2>2. doc' = [doc EXCEPT ![o.entry] = new] BY <1>12 DEF Unmatch, UnmatchEffect
  <2>3. old \in Document /\ old.matched \in [Payables -> Int] BY <1>3, <2>1 DEF Document
  <2>4. \A p \in Payables : p # o.payable => matched[p] = old.matched[p] BY <2>3
  <2> HIDE DEF matched
  <2>5. /\ new.kind = old.kind /\ new.payable = old.payable /\ new.account = old.account
        /\ new.entry = old.entry /\ new.amount = old.amount /\ new.matched = matched
    BY <2>3 DEF Document
  <2> HIDE DEF new
  <2>6. doc'[o.entry] = new /\ \A d \in Requests : d # o.entry => doc'[d] = doc[d] BY <1>3, <2>1, <2>2
  <2>7. ASSUME NEW d \in Requests, d = o.entry PROVE DocumentOK(doc[d])'
    BY <2>7, <1>4, <1>5, <2>1, <2>4, <2>5, <2>6 DEF DocumentOK
  <2> QED BY <1>7, <1>none, <2>3, <2>5, <2>6, <2>7 DEF SameDocuments
<1>13. CASE Apply(r)
  <2> DEFINE new == [NoDocument EXCEPT !.kind = "offset", !.payable = o.payable,
                                       !.entry = o.entry, !.amount = o.amount]
             docs == [doc EXCEPT ![o.entry].applied = @ + o.amount]
  <2>1. doc' = [docs EXCEPT ![r] = new] BY <1>13 DEF Apply, ApplyEffect
  <2>2. new.kind = "offset" /\ new.payable = o.payable /\ new.entry = o.entry /\ new.amount = o.amount
        /\ new.matched = [p \in Payables |-> 0]
    BY <1>6 DEF Document
  <2>3. /\ o.entry \in Requests /\ o.payable \in Payables /\ source[o.payable] # "ABSENT"
        /\ doc[o.entry].kind = "payout" /\ o.amount > 0
    BY <1>2, <1>13 DEF Apply, Commits, CallOK
  <2>4. \A d \in Requests : d # o.entry => docs[d] = doc[d] BY <1>3
  <2>5. doc[o.entry] \in Document /\ docs[o.entry] = [doc[o.entry] EXCEPT !.applied = doc[o.entry].applied + o.amount]
    BY <1>3, <2>3
  <2>6. docs[o.entry].kind = doc[o.entry].kind /\ docs[o.entry].payable = doc[o.entry].payable
        /\ docs[o.entry].account = doc[o.entry].account /\ docs[o.entry].entry = doc[o.entry].entry
        /\ docs[o.entry].matched = doc[o.entry].matched
        /\ docs[o.entry].amount = doc[o.entry].amount
    BY <2>5 DEF Document
  <2>7. DOMAIN docs = Requests BY <1>3
  <2> HIDE DEF new, docs
  <2>8. doc'[r] = new /\ \A d \in Requests \ {r} : doc'[d] = docs[d] BY <2>1, <2>7
  <2>9. DocumentOK(doc[r])' BY <1>4, <2>2, <2>3, <2>8 DEF DocumentOK
  <2>10. \A d \in Requests \ {r} : DocumentOK(doc[d])'
    <3> SUFFICES ASSUME NEW d \in Requests \ {r} PROVE DocumentOK(doc[d])' OBVIOUS
    <3>1. CASE d = o.entry BY <1>4, <1>5, <2>6, <2>8, <3>1 DEF DocumentOK
    <3>2. CASE d # o.entry BY <1>7, <2>4, <2>8, <3>2
    <3> QED BY <3>1, <3>2
  <2>11. SameDocuments(r)
    <3> SUFFICES ASSUME NEW d \in Requests \ {r}
                 PROVE  /\ doc'[d].kind = doc[d].kind /\ doc'[d].payable = doc[d].payable
                        /\ doc'[d].account = doc[d].account /\ doc'[d].entry = doc[d].entry
      BY DEF SameDocuments
    <3> QED BY <2>4, <2>6, <2>8
  <2> QED BY <1>none, <2>2, <2>3, <2>6, <2>8, <2>9, <2>10, <2>11
<1>14. ASSUME NEW e \in Requests, NEW d \in Requests, NEW n \in Int,
              doc' = [[doc EXCEPT ![e].applied = n] EXCEPT ![d].status = "REVERSED"]
       PROVE  /\ SameDocuments(r) /\ \A x \in Requests : DocumentOK(doc[x])'
              /\ doc'[r].kind = "none"
  <2> DEFINE docs == [doc EXCEPT ![e].applied = n]
  <2>1. doc[e] \in Document /\ docs[e] = [doc[e] EXCEPT !.applied = n] BY <1>3
  <2>2. docs[e] \in Document BY <2>1 DEF Document
  <2>3. \A x \in Requests : x # e => docs[x] = doc[x] BY <1>3
  <2>4. docs[e].kind = doc[e].kind /\ docs[e].payable = doc[e].payable /\ docs[e].account = doc[e].account
        /\ docs[e].entry = doc[e].entry /\ docs[e].matched = doc[e].matched
        /\ docs[e].amount = doc[e].amount
    BY <2>1 DEF Document
  <2>5. docs \in [Requests -> Document] BY <1>3, <2>2
  <2> HIDE DEF docs
  <2>6. doc' = [docs EXCEPT ![d].status = "REVERSED"] BY <1>14 DEF docs
  <2>7. doc'[d] = [docs[d] EXCEPT !.status = "REVERSED"] /\ docs[d] \in Document BY <2>5, <2>6
  <2>8. doc'[d].kind = docs[d].kind /\ doc'[d].payable = docs[d].payable /\ doc'[d].account = docs[d].account
        /\ doc'[d].entry = docs[d].entry /\ doc'[d].matched = docs[d].matched
        /\ doc'[d].amount = docs[d].amount
    BY <2>7 DEF Document
  <2>9. \A x \in Requests : x # d => doc'[x] = docs[x] BY <2>5, <2>6
  <2>10. \A x \in Requests :
           doc'[x].kind = doc[x].kind /\ doc'[x].payable = doc[x].payable /\ doc'[x].account = doc[x].account
           /\ doc'[x].entry = doc[x].entry /\ doc'[x].matched = doc[x].matched
           /\ doc'[x].amount = doc[x].amount
    BY <2>3, <2>4, <2>8, <2>9
  <2>11. \A x \in Requests : DocumentOK(doc[x])' BY <1>4, <1>5, <2>10 DEF DocumentOK
  <2> QED BY <1>none, <2>10, <2>11 DEF SameDocuments
<1>15. CASE Unapply(r)
  <2>1. o.entry \in Requests /\ o.target \in Requests BY <1>2, <1>15 DEF Unapply, Commits, CallOK
  <2>2. doc[o.entry].applied - v.doc.amount \in Int BY <1>2, <1>3, <2>1 DEF View, Document
  <2>3. doc' = [[doc EXCEPT ![o.entry].applied = doc[o.entry].applied - v.doc.amount]
                 EXCEPT ![o.target].status = "REVERSED"]
    BY <1>15 DEF Unapply, UnapplyEffect
  <2> QED BY <1>14, <2>1, <2>2, <2>3
<1>16. ASSUME NEW d \in Requests, doc' = [doc EXCEPT ![d].status = "REVERSED"]
       PROVE  /\ SameDocuments(r) /\ \A x \in Requests : DocumentOK(doc[x])'
              /\ doc'[r].kind = "none"
  <2>1. doc'[d] = [doc[d] EXCEPT !.status = "REVERSED"] /\ doc[d] \in Document BY <1>3, <1>16
  <2>2. doc'[d].kind = doc[d].kind /\ doc'[d].payable = doc[d].payable /\ doc'[d].account = doc[d].account
        /\ doc'[d].entry = doc[d].entry /\ doc'[d].matched = doc[d].matched
        /\ doc'[d].amount = doc[d].amount
    BY <2>1 DEF Document
  <2>3. \A x \in Requests : x # d => doc'[x] = doc[x] BY <1>3, <1>16
  <2>4. DocumentOK(doc[d])' BY <1>4, <1>5, <2>2 DEF DocumentOK
  <2> QED BY <1>7, <1>none, <2>2, <2>3, <2>4 DEF SameDocuments
<1>17. CASE ReversePayment(r) \/ ReverseReceipt(r)
  <2>1. o.target \in Requests BY <1>2, <1>17 DEF ReversePayment, ReverseReceipt, Commits, CallOK
  <2>2. doc' = [doc EXCEPT ![o.target].status = "REVERSED"]
    BY <1>17 DEF ReversePayment, ReverseReceipt, ReversePaymentEffect, ReverseReceiptEffect
  <2> QED BY <1>16, <2>1, <2>2
<1>18. CASE ReverseEntry(r)
  <2>1. o.entry \in Requests BY <1>2, <1>18 DEF ReverseEntry, Commits, CallOK
  <2>2. doc' = [doc EXCEPT ![o.entry].status = "REVERSED"] BY <1>18 DEF ReverseEntry, ReverseEntryEffect
  <2> QED BY <1>16, <2>1, <2>2
<1>19. CASE Cancel(r) \/ ReverseSource(r)
  <2>1. doc' = doc BY <1>19 DEF Cancel, ReverseSource, CancelEffect, ReverseSourceEffect, VoidEffect
  <2> QED BY <1>7, <1>none, <2>1 DEF SameDocuments
<1> QED
  BY <1>8, <1>9, <1>10, <1>11, <1>12, <1>13, <1>15, <1>17, <1>18, <1>19 DEF Commit

---------------------------------------------------------------------------
(* Steps of the sessions.                                                  *)

LEMMA CallsOK ==
  ASSUME Shape, NEW o \in Calls
  PROVE  o \in Operation /\ o.kind \in Kinds /\ CallOK(o)
<1> DEFINE recorded == {p \in Payables : source[p] # "ABSENT"}
           made(kind) == {e \in Requests : doc[e].kind = kind}
<1> USE DEF Call, Operation, Kinds, CallOK
<1>1. None \notin Payables /\ \A n \in Amounts : n \in Nat /\ n > 0 BY ConstantsAssumption
<1>2. \A d \in Requests : DocumentOK(doc[d]) /\ (doc[d].kind = "offset" => doc[doc[d].entry].kind = "payout")
  BY DEF Shape, DocumentsOK
<1>3. CASE o \in {Call("pay", p, a, n, 0, None, None) : p \in recorded, a \in Accounts, n \in Amounts}
  BY <1>1, <1>3
<1>4. CASE o \in {Call("payout", None, a, n, 0, None, None) : a \in Accounts, n \in Amounts}
  BY <1>1, <1>4
<1>5. CASE o \in {Call("payout", p, a, n, m, None, None) :
                   p \in recorded, a \in Accounts, n \in Amounts, m \in Amounts}
  BY <1>1, <1>5
<1>6. CASE o \in {Call(k, p, None, n, 0, e, None) : k \in {"match", "apply"},
                   p \in recorded, n \in Amounts, e \in made("payout")}
  BY <1>1, <1>6
<1>7. CASE o \in {Call("unmatch", p, None, 0, 0, e, None) : p \in recorded, e \in made("payout")}
  BY <1>1, <1>7
<1>8. CASE o \in {Call("unapply", doc[d].payable, None, 0, 0, doc[d].entry, d) : d \in made("offset")}
  BY <1>1, <1>2, <1>8 DEF DocumentOK
<1>9. CASE o \in {Call(k, p, None, 0, 0, None, None) : k \in {"cancel", "reverseSource"}, p \in recorded}
  BY <1>1, <1>9
<1>10. CASE o \in {Call("reversePayment", doc[d].payable, None, 0, 0, None, d) : d \in made("payment")}
  BY <1>1, <1>2, <1>10 DEF DocumentOK
<1>11. CASE o \in {Call("reverseEntry", None, None, 0, 0, e, None) : e \in made("payout")}
  BY <1>1, <1>11
<1>12. CASE o \in {Call("receive", p, a, n, 0, None, None) :
                    p \in recorded, a \in Accounts \ CashAccounts, n \in Amounts}
  BY <1>1, <1>12
<1>13. CASE o \in {Call("reverseReceipt", doc[d].payable, doc[d].account, 0, 0, None, d) :
                    d \in made("receipt")}
  BY <1>1, <1>2, <1>13 DEF DocumentOK
<1> QED BY <1>3, <1>4, <1>5, <1>6, <1>7, <1>8, <1>9, <1>10, <1>11, <1>12, <1>13 DEF Calls

(* A session that does not take part in a step is still in order after it. *)
LEMMA SessionStays ==
  ASSUME Shape, NEW s \in Requests, Running(s), op'[s] = op[s], view'[s] = view[s], stage'[s] = stage[s],
         \A p \in Payables : source[p] # "ABSENT" => source'[p] # "ABSENT",
         \A d \in Requests : doc[d].kind # "none" => doc'[d].kind = doc[d].kind /\ doc'[d].payable = doc[d].payable
  PROVE  SessionOK(s)'
<1>1. SessionOK(s) BY DEF Shape, SessionsOK
<1>2. CallOK(op[s])'
  <2> DEFINE o == op[s]
  <2>1. CallOK(o) BY <1>1 DEF SessionOK
  <2>2. o \in Operation BY DEF Shape, TypeOK
  <2> QED BY <2>1, <2>2 DEF CallOK
<1>3. PlanOf(s)' = PlanOf(s) BY DEF PlanOf
<1> QED BY <1>1, <1>2, <1>3 DEF SessionOK

(* The sessions after a transaction has ended.                             *)
LEMMA FinishTypes ==
  ASSUME Shape, NEW r \in Requests, NEW o \in {Idle, Done}, Finish(r, o)
  PROVE  /\ op' \in [Requests -> Operation] /\ stage' \in [Requests -> Nat]
         /\ view' \in [Requests -> View] /\ LocksTypeOK(Rows)'
         /\ op'[r] = o /\ view'[r] = NoView /\ ~Running(r)'
         /\ \A s \in Requests \ {r} : op'[s] = op[s] /\ view'[s] = view[s] /\ stage'[s] = stage[s]
<1>1. TypeOK BY DEF Shape
<1>2. o \in Operation /\ NoView \in View BY RowTypes
<1>3. o.kind \notin Kinds BY DEF Idle, Done, Call, Kinds
<1>4. LocksTypeOK(Rows)' BY <1>1 DEF TypeOK, LocksTypeOK, Finish, ReleaseAll, Rows
<1>5. op' = [op EXCEPT ![r] = o] /\ stage' = [stage EXCEPT ![r] = 0] /\ view' = [view EXCEPT ![r] = NoView]
  BY DEF Finish
<1>6. op'[r] = o /\ view'[r] = NoView BY <1>1, <1>5 DEF TypeOK
<1>7. ~Running(r)' BY <1>3, <1>6 DEF Running
<1> QED BY <1>1, <1>2, <1>4, <1>5, <1>6, <1>7 DEF TypeOK

LEMMA ShapeInit == Init => Shape
<1> SUFFICES ASSUME Init PROVE Shape OBVIOUS
<1>1. /\ NoPayableRow \in PayableRow /\ NoSettlementRow \in SettlementRow
      /\ NoDocument \in Document /\ NoView \in View /\ Idle \in Operation
  BY RowTypes
<1>2. ledger \in [Ledgers -> Int] BY ConstantsAssumption DEF Init
<1>3. LocksTypeOK(Rows) BY DEF Init, LocksInit, LocksTypeOK
<1>4. TypeOK BY <1>1, <1>2, <1>3 DEF Init, TypeOK
<1>5. \A r \in Requests : ~Running(r) BY DEF Init, Running, Idle, Call, Kinds
<1>6. NoDocument.kind = "none" /\ NoDocument.payable = None /\ NoDocument.matched = [p \in Payables |-> 0]
  BY DEF NoDocument
<1>7. None \notin Payables BY ConstantsAssumption
<1>8. DocumentOK(NoDocument) BY <1>6, <1>7 DEF DocumentOK
<1>9. NoView.doc = NoDocument /\ NoView.entry = NoDocument BY DEF NoView
<1>10. DocumentsOK BY <1>6, <1>8, <1>9 DEF Init, DocumentsOK
<1> QED BY <1>4, <1>5, <1>10 DEF Shape, SessionsOK

LEMMA NoViewOK == DocumentOK(NoView.doc)' /\ DocumentOK(NoView.entry)'
<1>1. NoDocument.kind = "none" /\ NoDocument.payable = None /\ NoDocument.matched = [p \in Payables |-> 0]
  BY DEF NoDocument
<1>2. None \notin Payables BY ConstantsAssumption
<1>3. NoView.doc = NoDocument /\ NoView.entry = NoDocument BY DEF NoView
<1> QED BY <1>1, <1>2, <1>3 DEF DocumentOK

LEMMA ShapeRecordSwipe == ASSUME Shape, NEW p \in Payables, RecordSwipe(p) PROVE Shape'
<1>1. TablesOK' BY ShapeTables, RecordSwipeTypes
<1>2. UNCHANGED <<doc, op, stage, view, holder>> BY DEF RecordSwipe
<1>3. TypeOK' BY <1>1, <1>2 DEF Shape, TypeOK, TablesOK, LocksTypeOK
<1>4. \A q \in Payables : source[q] # "ABSENT" => source'[q] # "ABSENT"
  BY DEF Shape, TypeOK, RecordSwipe
<1>5. DocumentsOK' BY <1>2, <1>4 DEF Shape, DocumentsOK, DocumentOK
<1>6. ASSUME NEW s \in Requests, Running(s)' PROVE SessionOK(s)'
  <2>1. Running(s) BY <1>2, <1>6 DEF Running
  <2> QED BY <1>2, <1>4, <2>1, SessionStays
<1> QED BY <1>3, <1>5, <1>6 DEF Shape, SessionsOK

LEMMA ShapeBegin == ASSUME Shape, NEW r \in Requests, Begin(r) PROVE Shape'
<1>1. PICK o \in Calls : op' = [op EXCEPT ![r] = o] /\ o.kind \in Workload BY DEF Begin
<1>2. o \in Operation /\ o.kind \in Kinds /\ CallOK(o) BY CallsOK
<1>3. UNCHANGED <<payable, settlement, source, doc, ledger, view, holder>> /\ stage' = [stage EXCEPT ![r] = 1]
  BY DEF Begin
<1>4. TypeOK' BY <1>1, <1>2, <1>3 DEF Shape, TypeOK, LocksTypeOK
<1>5. op'[r] = o /\ stage'[r] = 1 BY <1>1, <1>3 DEF Shape, TypeOK
<1>6. doc[r].kind = "none" BY DEF Begin, Shape, DocumentsOK, Idle, Call
<1>7. DocumentsOK'
  <2>1. \A s \in Requests \ {r} : op'[s] = op[s] BY <1>1 DEF Shape, TypeOK
  <2> QED BY <1>3, <1>6, <2>1 DEF Shape, DocumentsOK, DocumentOK
<1>8. ASSUME NEW s \in Requests, Running(s)' PROVE SessionOK(s)'
  <2>1. CASE s = r
    <3>1. CallOK(op[r])' BY <1>2, <1>3, <1>5 DEF CallOK
    <3>2. Len(Plan(o, view[r])) \in Nat BY <1>2, PlanLength
    <3>3. PlanOf(r)' = Plan(o, view[r]) BY <1>3, <1>5 DEF PlanOf
    <3>4. stage'[r] \in 1..(Len(PlanOf(r)') + 1) BY <1>5, <3>2, <3>3
    <3> QED BY <1>1, <1>5, <2>1, <3>1, <3>4 DEF SessionOK
  <2>2. CASE s # r
    <3>1. op'[s] = op[s] /\ stage'[s] = stage[s] /\ view'[s] = view[s]
      BY <1>1, <1>3, <2>2 DEF Shape, TypeOK
    <3>2. Running(s) BY <1>8, <3>1 DEF Running
    <3> QED BY <1>3, <3>1, <3>2, SessionStays
  <2> QED BY <2>1, <2>2
<1> QED BY <1>4, <1>7, <1>8 DEF Shape, SessionsOK

(* One step of a plan, seen from the session that takes it.                *)
LEMMA AdvanceFacts ==
  ASSUME Shape, NEW r \in Requests, Advance(r)
  PROVE  /\ stage[r] \in 1..Len(PlanOf(r)) /\ StepOK(op[r], view[r], PlanOf(r)[stage[r]])
         /\ stage'[r] = stage[r] + 1 /\ op' = op
         /\ view'[r] = Look(op[r], view[r], PlanOf(r)[stage[r]].look)
         /\ \A s \in Requests \ {r} : stage'[s] = stage[s] /\ view'[s] = view[s]
         /\ Len(PlanOf(r)') = Len(PlanOf(r))
         /\ \A i \in 1..stage[r] : PlanOf(r)'[i] = PlanOf(r)[i]
<1> DEFINE o == op[r]
           v == view[r]
           n == stage[r]
           w == Look(o, v, Plan(o, v)[n].look)
<1>1. Running(r) /\ ~AtEnd(r) BY DEF Advance
<1>2. o \in Operation /\ o.kind \in Kinds /\ v \in View /\ CallOK(o) BY <1>1, CallFacts
<1>3. n \in 1..Len(Plan(o, v))
  <2>1. SessionOK(r) BY <1>1 DEF Shape, SessionsOK
  <2>2. Len(Plan(o, v)) \in Nat BY <1>2, PlanLength
  <2> QED BY <1>1, <2>1, <2>2 DEF AtEnd, PlanOf, SessionOK
<1>4. StepOK(o, v, Plan(o, v)[n]) BY <1>2, <1>3, PlanStepsOK
<1>5. "entry" \notin Plan(o, v)[n].look => w.entry = v.entry BY DEF Look
<1>6. /\ Len(Plan(o, w)) = Len(Plan(o, v))
      /\ \A i \in 1..n : Plan(o, w)[i] = Plan(o, v)[i]
  <2> HIDE DEF w, o, v, n
  <2> QED BY <1>2, <1>3, <1>5, PlanPrefix
<1>7. /\ stage'[r] = n + 1 /\ op' = op /\ view'[r] = w
      /\ \A s \in Requests \ {r} : stage'[s] = stage[s] /\ view'[s] = view[s]
  BY DEF Advance, Shape, TypeOK, PlanOf
<1>8. PlanOf(r)' = Plan(o, w) BY <1>7 DEF PlanOf
<1> QED BY <1>3, <1>4, <1>6, <1>7, <1>8 DEF PlanOf

LEMMA ShapeAdvance == ASSUME Shape, NEW r \in Requests, Advance(r) PROVE Shape'
<1> DEFINE o == op[r]
           v == view[r]
           step == PlanOf(r)[stage[r]]
           w == Look(o, v, step.look)
<1>1. Running(r) /\ ~AtEnd(r) /\ UNCHANGED <<payable, settlement, source, doc, ledger, op>> BY DEF Advance
<1>2. o \in Operation /\ o.kind \in Kinds /\ v \in View /\ CallOK(o) BY <1>1, CallFacts
<1>3. /\ stage[r] \in 1..Len(PlanOf(r)) /\ StepOK(o, v, step) /\ stage'[r] = stage[r] + 1
      /\ view'[r] = w /\ Len(PlanOf(r)') = Len(PlanOf(r))
      /\ \A s \in Requests \ {r} : stage'[s] = stage[s] /\ view'[s] = view[s]
  BY AdvanceFacts
<1>4. w \in View
  <2>1. TypeOK BY DEF Shape
  <2> QED BY <1>2, <1>3, <2>1, LookType
<1>5. TypeOK'
  <2>1. view' \in [Requests -> View] BY <1>4 DEF Advance, Shape, TypeOK
  <2>2. stage' \in [Requests -> Nat] BY DEF Advance, Shape, TypeOK
  <2>3. LocksTypeOK(Rows)' BY DEF Advance, Acquire, Shape, TypeOK, LocksTypeOK, Rows
  <2> QED BY <1>1, <2>1, <2>2, <2>3 DEF Shape, TypeOK
<1>6. /\ w.doc = IF "doc" \in step.look THEN doc[o.target] ELSE v.doc
      /\ w.entry = IF "entry" \in step.look THEN doc[o.entry] ELSE v.entry
  BY DEF Look
<1>7. /\ "doc" \in step.look => o.target \in Requests
      /\ "entry" \in step.look => o.entry \in Requests
  BY <1>3 DEF StepOK
<1> HIDE DEF w
<1>8. DocumentsOK'
  <2>1. \A s \in Requests : /\ DocumentOK(doc[s]) /\ DocumentOK(view[s].doc) /\ DocumentOK(view[s].entry)
                            /\ doc[s].kind # "none" => op[s].kind = "done"
                            /\ doc[s].kind = "offset" => doc[doc[s].entry].kind = "payout"
    BY DEF Shape, DocumentsOK
  <2>2. \A s \in Requests : DocumentOK(doc[s])' BY <1>1, <2>1 DEF DocumentOK
  <2>3. DocumentOK(w.doc) /\ DocumentOK(w.entry) BY <1>6, <1>7, <2>1
  <2>4. \A s \in Requests : DocumentOK(view[s].doc)' /\ DocumentOK(view[s].entry)'
    <3> SUFFICES ASSUME NEW s \in Requests PROVE DocumentOK(view[s].doc)' /\ DocumentOK(view[s].entry)'
      OBVIOUS
    <3>1. CASE s = r BY <1>1, <1>3, <2>3, <3>1 DEF DocumentOK
    <3>2. CASE s # r BY <1>1, <1>3, <2>1, <3>2 DEF DocumentOK
    <3> QED BY <3>1, <3>2
  <2> QED BY <1>1, <2>1, <2>2, <2>4 DEF DocumentsOK
<1>9. ASSUME NEW s \in Requests, Running(s)' PROVE SessionOK(s)'
  <2>1. Running(s) BY <1>1, <1>9 DEF Running
  <2>2. CASE s = r
    <3>1. SessionOK(r) BY <1>1 DEF Shape, SessionsOK
    <3>2. CallOK(op[r])' BY <1>1, <1>2 DEF CallOK
    <3>3. Len(PlanOf(r)) \in Nat BY <1>2, PlanLength DEF PlanOf
    <3>4. stage'[r] \in 1..(Len(PlanOf(r)') + 1) BY <1>3, <3>3
    <3>5. o.kind = "reversePayment" => w.doc.kind = "payment"
      <4>1. SUFFICES ASSUME o.kind = "reversePayment" PROVE w.doc.kind = "payment" OBVIOUS
      <4>2. doc[o.target].kind = "payment" BY <1>2, <4>1 DEF CallOK
      <4>3. CASE stage[r] = 1
        <5>1. PlanOf(r) = ReversePaymentPlan(o) BY <4>1 DEF PlanOf, Plan
        <5>2. "doc" \in step.look BY <4>3, <5>1 DEF ReversePaymentPlan, Step
        <5> QED BY <1>6, <4>2, <5>2
      <4>4. CASE stage[r] # 1 BY <1>3, <1>6, <3>1, <4>1, <4>2, <4>4 DEF SessionOK
      <4> QED BY <4>3, <4>4
    <3>6. o.kind = "reverseEntry" => w.entry.kind = "payout"
      <4>1. SUFFICES ASSUME o.kind = "reverseEntry" PROVE w.entry.kind = "payout" OBVIOUS
      <4>2. doc[o.entry].kind = "payout" BY <1>2, <4>1 DEF CallOK
      <4>3. CASE stage[r] = 1
        <5>1. PlanOf(r) = ReverseEntryPlan(o, v) BY <4>1 DEF PlanOf, Plan
        <5>2. "entry" \in step.look BY <4>3, <5>1 DEF ReverseEntryPlan, Step
        <5> QED BY <1>6, <4>2, <5>2
      <4>4. CASE stage[r] # 1 BY <1>3, <1>6, <3>1, <4>1, <4>2, <4>4 DEF SessionOK
      <4> QED BY <4>3, <4>4
    <3>7. o.kind = "unapply" /\ stage[r] > 2 => w.doc.kind = "offset"
      <4>1. SUFFICES ASSUME o.kind = "unapply", stage[r] > 2 PROVE w.doc.kind = "offset" OBVIOUS
      <4>2. doc[o.target].kind = "offset" BY <1>2, <4>1 DEF CallOK
      <4>3. CASE stage[r] = 3
        <5>1. PlanOf(r) = AdvancePlan(o, {"doc", "entry"}) BY <4>1 DEF PlanOf, Plan
        <5>2. "doc" \in step.look BY <4>3, <5>1 DEF AdvancePlan, Step
        <5> QED BY <1>6, <4>2, <5>2
      <4>4. CASE stage[r] # 3 BY <1>3, <1>6, <3>1, <4>1, <4>2, <4>4 DEF SessionOK
      <4> QED BY <4>3, <4>4
    <3> QED BY <1>1, <1>3, <2>2, <3>1, <3>2, <3>4, <3>5, <3>6, <3>7 DEF SessionOK
  <2>3. CASE s # r BY <1>1, <1>3, <2>1, <2>3, SessionStays
  <2> QED BY <2>2, <2>3
<1> QED BY <1>5, <1>8, <1>9 DEF Shape, SessionsOK

LEMMA ShapeRollback == ASSUME Shape, NEW r \in Requests, Reject(r) \/ Abort(r) PROVE Shape'
<1>1. Finish(r, Idle) /\ UNCHANGED <<payable, settlement, source, doc, ledger>> /\ Running(r)
  BY DEF Reject, Abort, tables
<1>2. /\ op' \in [Requests -> Operation] /\ stage' \in [Requests -> Nat]
      /\ view' \in [Requests -> View] /\ LocksTypeOK(Rows)'
      /\ op'[r] = Idle /\ view'[r] = NoView /\ ~Running(r)'
      /\ \A s \in Requests \ {r} : op'[s] = op[s] /\ view'[s] = view[s] /\ stage'[s] = stage[s]
  BY <1>1, FinishTypes
<1>3. TypeOK' BY <1>1, <1>2 DEF Shape, TypeOK
<1>4. doc[r].kind = "none" BY <1>1 DEF Shape, DocumentsOK, Running, Kinds
<1>5. DocumentsOK'
  <2>1. DocumentOK(NoView.doc)' /\ DocumentOK(NoView.entry)' BY NoViewOK
  <2>2. DocumentOK(view[r].doc)' /\ DocumentOK(view[r].entry)' BY <1>2, <2>1 DEF DocumentOK
  <2> SUFFICES ASSUME NEW s \in Requests
               PROVE  /\ DocumentOK(doc[s])' /\ DocumentOK(view[s].doc)' /\ DocumentOK(view[s].entry)'
                      /\ doc'[s].kind # "none" => op'[s].kind = "done"
                      /\ doc'[s].kind = "offset" => doc'[doc'[s].entry].kind = "payout"
    BY DEF DocumentsOK
  <2>3. CASE s = r BY <1>1, <1>4, <2>2, <2>3 DEF Shape, DocumentsOK, DocumentOK
  <2>4. CASE s # r BY <1>1, <1>2, <2>4 DEF Shape, DocumentsOK, DocumentOK
  <2> QED BY <2>3, <2>4
<1>6. ASSUME NEW s \in Requests, Running(s)' PROVE SessionOK(s)'
  <2>1. s # r BY <1>2, <1>6
  <2>2. Running(s) BY <1>2, <1>6, <2>1 DEF Running
  <2> QED BY <1>1, <1>2, <2>1, <2>2, SessionStays
<1> QED BY <1>3, <1>5, <1>6 DEF Shape, SessionsOK

LEMMA ShapeCommit == ASSUME Shape, NEW r \in Requests, Commit(r) PROVE Shape'
<1>1. Finish(r, Done) /\ Running(r) /\ AtEnd(r) BY CommitEnds
<1>2. /\ op' \in [Requests -> Operation] /\ stage' \in [Requests -> Nat]
      /\ view' \in [Requests -> View] /\ LocksTypeOK(Rows)'
      /\ op'[r] = Done /\ view'[r] = NoView /\ ~Running(r)'
      /\ \A s \in Requests \ {r} : op'[s] = op[s] /\ view'[s] = view[s] /\ stage'[s] = stage[s]
  BY <1>1, FinishTypes
<1>3. TypeOK' BY <1>2, CommitTypes DEF TablesOK, TypeOK
<1>4. doc[r].kind = "none" BY <1>1 DEF Shape, DocumentsOK, Running, Kinds
<1>5. \A p \in Payables : source[p] # "ABSENT" => source'[p] # "ABSENT" BY RecordedStays
<1>6. /\ SameDocuments(r) /\ \A d \in Requests : DocumentOK(doc[d])'
      /\ doc'[r].kind = "offset" => doc'[op[r].entry].kind = "payout" /\ doc'[r].entry = op[r].entry
  BY CommitDocuments
<1>7. \A d \in Requests : doc[d].kind # "none" =>
        /\ doc'[d].kind = doc[d].kind /\ doc'[d].payable = doc[d].payable /\ doc'[d].entry = doc[d].entry
  BY <1>4, <1>6 DEF SameDocuments
<1>8. DocumentsOK'
  <2>1. DocumentOK(NoView.doc)' /\ DocumentOK(NoView.entry)' BY NoViewOK
  <2>2. DocumentOK(view[r].doc)' /\ DocumentOK(view[r].entry)' BY <1>2, <2>1 DEF DocumentOK
  <2>3. Done.kind = "done" BY DEF Done, Call
  <2> SUFFICES ASSUME NEW s \in Requests
               PROVE  /\ DocumentOK(view[s].doc)' /\ DocumentOK(view[s].entry)'
                      /\ doc'[s].kind # "none" => op'[s].kind = "done"
                      /\ doc'[s].kind = "offset" => doc'[doc'[s].entry].kind = "payout"
    BY <1>6 DEF DocumentsOK
  <2>4. CASE s = r BY <1>2, <1>6, <2>2, <2>3, <2>4
  <2>5. CASE s # r
    <3>1. /\ DocumentOK(doc[s]) /\ DocumentOK(view[s].doc) /\ DocumentOK(view[s].entry)
          /\ doc[s].kind # "none" => op[s].kind = "done"
          /\ doc[s].kind = "offset" => doc[doc[s].entry].kind = "payout"
      BY DEF Shape, DocumentsOK
    <3>2. DocumentOK(view[s].doc)' /\ DocumentOK(view[s].entry)' BY <1>2, <1>5, <2>5, <3>1 DEF DocumentOK
    <3>3. doc'[s].kind = doc[s].kind /\ op'[s] = op[s] BY <1>2, <1>6, <2>5 DEF SameDocuments
    <3>4. doc'[s].kind = "offset" => doc[s].entry \in Requests BY <3>1, <3>3 DEF DocumentOK
    <3> QED BY <1>7, <3>1, <3>2, <3>3, <3>4
  <2> QED BY <2>4, <2>5
<1>9. ASSUME NEW s \in Requests, Running(s)' PROVE SessionOK(s)'
  <2>1. s # r BY <1>2, <1>9
  <2>2. Running(s) BY <1>2, <1>9, <2>1 DEF Running
  <2> QED BY <1>2, <1>5, <1>7, <2>1, <2>2, SessionStays
<1> QED BY <1>3, <1>8, <1>9 DEF Shape, SessionsOK

LEMMA ShapeStutter == ASSUME Shape, UNCHANGED vars PROVE Shape'
<1> USE DEF vars
<1>1. TypeOK' BY DEF Shape, TypeOK, LocksTypeOK
<1>2. DocumentsOK' BY DEF Shape, DocumentsOK, DocumentOK
<1>3. ASSUME NEW s \in Requests, Running(s)' PROVE SessionOK(s)'
  <2>1. Running(s) BY <1>3 DEF Running
  <2> QED BY <2>1, SessionStays
<1> QED BY <1>1, <1>2, <1>3 DEF Shape, SessionsOK

LEMMA ShapeNext == Shape /\ [Next]_vars => Shape'
<1> SUFFICES ASSUME Shape, [Next]_vars PROVE Shape' OBVIOUS
<1>1. CASE \E p \in Payables : RecordSwipe(p) BY <1>1, ShapeRecordSwipe
<1>2. CASE \E r \in Requests : Begin(r) BY <1>2, ShapeBegin
<1>3. CASE \E r \in Requests : Advance(r) BY <1>3, ShapeAdvance
<1>4. CASE \E r \in Requests : Reject(r) \/ Abort(r) BY <1>4, ShapeRollback
<1>5. CASE \E r \in Requests : Commit(r) BY <1>5, ShapeCommit
<1>6. CASE UNCHANGED vars BY <1>6, ShapeStutter
<1> QED BY <1>1, <1>2, <1>3, <1>4, <1>5, <1>6 DEF Next

(* Documents name what their kind works on, and a running call is somewhere *)
(* in the plan of its own kind with rows that exist: the facts the other    *)
(* proofs rest on.                                                         *)
THEOREM ShapeInvariant == Spec => []Shape
<1> QED BY ShapeInit, ShapeNext, PTL DEF Spec

(* Every variable keeps its type: in particular no journal, no balance and *)
(* no row is ever computed from a document or an account that is not there. *)
THEOREM TypeCorrect == Spec => []TypeOK
<1>1. Shape => TypeOK BY DEF Shape
<1> QED BY <1>1, ShapeInvariant, PTL

---------------------------------------------------------------------------
(* Locks.                                                                  *)

(* A transaction holds every lock its plan has asked for so far.           *)
HoldsLocks(r) ==
    \A i \in 1..Len(PlanOf(r)) : i < stage[r] => \A row \in PlanOf(r)[i].rows : holder[row] = r

LocksHeld == \A r \in Requests : Running(r) => HoldsLocks(r)

LEMMA LocksAdvance ==
  ASSUME Shape, LocksHeld, NEW r \in Requests, Advance(r), NEW s \in Requests, Running(s)'
  PROVE  HoldsLocks(s)'
<1> DEFINE step == PlanOf(r)[stage[r]]
<1>1. Running(r) /\ ~AtEnd(r) BY DEF Advance
<1>2. /\ stage[r] \in 1..Len(PlanOf(r)) /\ StepOK(op[r], view[r], step)
      /\ stage'[r] = stage[r] + 1 /\ op' = op
      /\ \A t \in Requests \ {r} : stage'[t] = stage[t] /\ view'[t] = view[t]
      /\ Len(PlanOf(r)') = Len(PlanOf(r))
      /\ \A i \in 1..stage[r] : PlanOf(r)'[i] = PlanOf(r)[i]
  BY AdvanceFacts
<1>3. Wanted(r) = step.rows BY <1>1 DEF Wanted
<1>4. /\ \A row \in step.rows : holder[row] \in {Nobody, r}
      /\ holder' = [row \in DOMAIN holder |-> IF row \in step.rows THEN r ELSE holder[row]]
  BY <1>3 DEF Advance, Acquire, Grantable
<1>5. DOMAIN holder = Rows BY DEF Shape, TypeOK, LocksTypeOK
<1>6. step.rows \subseteq Rows BY <1>2 DEF StepOK
<1>7. Running(s) BY <1>2 DEF Running
<1>8. SessionOK(s) /\ op[s] \in Operation /\ op[s].kind \in Kinds /\ CallOK(op[s])
  BY <1>7, CallFacts DEF Shape, SessionsOK
<1>9. \A i \in 1..Len(PlanOf(s)) : PlanOf(s)[i].rows \subseteq Rows
  BY <1>8, PlanStepsOK DEF PlanOf, StepOK
<1>10. HoldsLocks(s) BY <1>7 DEF LocksHeld
<1> HIDE DEF step
<1>11. CASE s = r
  <2> SUFFICES ASSUME NEW i \in 1..Len(PlanOf(r)'), i < stage'[r], NEW row \in PlanOf(r)'[i].rows
               PROVE  holder'[row] = r
    BY <1>11 DEF HoldsLocks
  <2>1. i \in 1..stage[r] /\ i \in 1..Len(PlanOf(r)) /\ row \in PlanOf(r)[i].rows BY <1>2
  <2>2. CASE i = stage[r] BY <1>4, <1>5, <1>6, <2>1, <2>2 DEF step
  <2>3. CASE i # stage[r]
    <3>1. i < stage[r] BY <1>2, <2>1, <2>3
    <3>2. holder[row] = r BY <1>10, <1>11, <2>1, <3>1 DEF HoldsLocks
    <3>3. row \in Rows BY <1>9, <1>11, <2>1
    <3> QED BY <1>4, <1>5, <3>2, <3>3
  <2> QED BY <2>2, <2>3
<1>12. CASE s # r
  <2>1. PlanOf(s)' = PlanOf(s) /\ stage'[s] = stage[s] BY <1>2, <1>12 DEF PlanOf
  <2> SUFFICES ASSUME NEW i \in 1..Len(PlanOf(s)), i < stage[s], NEW row \in PlanOf(s)[i].rows
               PROVE  holder'[row] = s
    BY <2>1 DEF HoldsLocks
  <2>2. holder[row] = s BY <1>10 DEF HoldsLocks
  <2>3. row \in Rows /\ s # Nobody BY <1>9, RequestsAssumption
  <2> QED BY <1>4, <1>5, <1>12, <2>2, <2>3
<1> QED BY <1>11, <1>12

(* Giving back the locks of one request takes none from another.           *)
LEMMA LocksFinish ==
  ASSUME Shape, LocksHeld, NEW r \in Requests, NEW o \in {Idle, Done}, Finish(r, o),
         NEW s \in Requests, Running(s)'
  PROVE  s # r /\ Running(s) /\ HoldsLocks(s)'
<1>1. s # r BY FinishTypes
<1>2. op'[s] = op[s] /\ view'[s] = view[s] /\ stage'[s] = stage[s] BY <1>1, FinishTypes
<1>3. Running(s) BY <1>2 DEF Running
<1>4. op[s] \in Operation /\ op[s].kind \in Kinds /\ CallOK(op[s]) BY <1>3, CallFacts
<1>5. \A i \in 1..Len(PlanOf(s)) : PlanOf(s)[i].rows \subseteq Rows
  BY <1>4, PlanStepsOK DEF PlanOf, StepOK
<1>6. HoldsLocks(s) BY <1>3 DEF LocksHeld
<1>7. PlanOf(s)' = PlanOf(s) BY <1>2 DEF PlanOf
<1>8. DOMAIN holder = Rows BY DEF Shape, TypeOK, LocksTypeOK
<1>9. holder' = [row \in Rows |-> IF holder[row] = r THEN Nobody ELSE holder[row]]
  BY <1>8 DEF Finish, ReleaseAll
<1> QED BY <1>1, <1>2, <1>3, <1>5, <1>6, <1>7, <1>9 DEF HoldsLocks

LEMMA LocksNext == Shape /\ LocksHeld /\ [Next]_vars => LocksHeld'
<1> SUFFICES ASSUME Shape, LocksHeld, [Next]_vars, NEW s \in Requests, Running(s)' PROVE HoldsLocks(s)'
  BY DEF LocksHeld
<1>1. CASE (\E p \in Payables : RecordSwipe(p)) \/ UNCHANGED vars
  <2>1. UNCHANGED <<op, stage, view, holder>> BY <1>1 DEF RecordSwipe, vars
  <2>2. Running(s) /\ PlanOf(s)' = PlanOf(s) BY <2>1 DEF Running, PlanOf
  <2> QED BY <2>1, <2>2 DEF LocksHeld, HoldsLocks
<1>2. ASSUME NEW r \in Requests, Begin(r) PROVE HoldsLocks(s)'
  <2>1. UNCHANGED <<view, holder>> /\ stage' = [stage EXCEPT ![r] = 1]
        /\ \A t \in Requests \ {r} : op'[t] = op[t]
    BY <1>2 DEF Begin, Shape, TypeOK
  <2>2. CASE s = r
    <3>1. stage'[s] = 1 BY <2>1, <2>2 DEF Shape, TypeOK
    <3> QED BY <3>1 DEF HoldsLocks
  <2>3. CASE s # r
    <3>1. Running(s) /\ PlanOf(s)' = PlanOf(s) /\ stage'[s] = stage[s]
      BY <2>1, <2>3 DEF Running, PlanOf, Shape, TypeOK
    <3> QED BY <2>1, <3>1 DEF LocksHeld, HoldsLocks
  <2> QED BY <2>2, <2>3
<1>3. CASE \E r \in Requests : Advance(r) BY <1>3, LocksAdvance
<1>4. CASE \E r \in Requests : Reject(r) \/ Abort(r) BY <1>4, LocksFinish DEF Reject, Abort
<1>5. CASE \E r \in Requests : Commit(r) BY <1>5, CommitEnds, LocksFinish
<1> QED BY <1>1, <1>2, <1>3, <1>4, <1>5 DEF Next

LEMMA LocksInitially == Init => LocksHeld
BY DEF Init, LocksHeld, Running, Idle, Call, Kinds

(* A transaction keeps every row lock it has taken until it ends.          *)
THEOREM LocksInvariant == Spec => []LocksHeld
BY ShapeInvariant, LocksInitially, LocksNext, PTL DEF Spec

---------------------------------------------------------------------------
(* Freshness.                                                              *)

(* Documents that are read under a lock are read under the lock of their   *)
(* transaction.                                                            *)
LEMMA ReadsUnderLock ==
  ASSUME NEW o \in Operation, NEW v, o.kind \in Kinds, CallOK(o), NEW i \in 1..Len(Plan(o, v))
  PROVE  /\ DocumentLock(o.target) \in Plan(o, v)[i].rows /\ "doc" \in Plan(o, v)[i].look =>
              o.target \in Requests /\ doc[o.target].kind \in {"payment", "receipt"}
         /\ EntryLock(o.entry) \in Plan(o, v)[i].rows /\ "entry" \in Plan(o, v)[i].look =>
              /\ o.entry \in Requests /\ doc[o.entry].kind = "payout"
              /\ 1 \in 1..Len(Plan(o, v)) /\ DocumentLock(o.entry) \in Plan(o, v)[1].rows
<1> USE DEF CallOK, Step, PayableLock, SettlementLock, SourceLock, DocumentLock, EntryLock, AccountLock
<1>1. CASE o.kind = "payout"
  <2>1. Plan(o, v) = PayOutPlan(o) BY <1>1 DEF Plan
  <2>2. CASE o.payable = None BY <2>1, <2>2 DEF PayOutPlan
  <2>3. CASE o.payable # None BY <2>1, <2>3 DEF PayOutPlan
  <2> QED BY <2>2, <2>3
<1>2. CASE o.kind = "unapply" BY <1>2 DEF Plan, AdvancePlan
<1>3. CASE o.kind \in {"match", "unmatch", "apply"}
  <2>1. Plan(o, v) = AdvancePlan(o, {"entry"}) BY <1>3 DEF Plan
  <2> QED BY <1>3, <2>1 DEF AdvancePlan
<1>4. CASE o.kind = "pay" BY <1>4 DEF Plan, PayPlan
<1>5. CASE o.kind = "cancel" BY <1>5 DEF Plan, CancelPlan
<1>6. CASE o.kind = "reverseSource" BY <1>6 DEF Plan, ReverseSourcePlan
<1>7. CASE o.kind = "reversePayment" BY <1>7 DEF Plan, ReversePaymentPlan
<1>8. CASE o.kind = "reverseEntry" BY <1>8 DEF Plan, ReverseEntryPlan
<1>9. CASE o.kind = "receive" BY <1>9 DEF Plan, ReceivePlan
<1>10. CASE o.kind = "reverseReceipt" BY <1>10 DEF Plan, ReverseReceiptPlan
<1> QED BY <1>1, <1>2, <1>3, <1>4, <1>5, <1>6, <1>7, <1>8, <1>9, <1>10 DEF Kinds

(* What a transaction holds when it commits.                               *)
LEMMA LocksAtEnd ==
  ASSUME Shape, LocksHeld, NEW r \in Requests, Running(r), AtEnd(r)
  PROVE  /\ op[r].kind \in {"pay", "match", "unmatch", "apply", "unapply", "cancel", "reverseSource",
                            "reversePayment"} => holder[PayableLock(op[r].payable)] = r
         /\ op[r].kind = "payout" /\ op[r].payable # None => holder[PayableLock(op[r].payable)] = r
         /\ op[r].kind = "reverseEntry" =>
              \A p \in MatchedPayables(view[r].entry) : holder[PayableLock(p)] = r
         /\ op[r].kind \in {"receive", "reverseReceipt", "cancel", "reverseSource"} =>
              holder[SettlementLock(op[r].payable)] = r
         /\ op[r].kind \in {"match", "unmatch", "apply", "unapply", "reverseEntry"} =>
              holder[DocumentLock(op[r].entry)] = r
         /\ op[r].kind \in {"reversePayment", "reverseReceipt"} => holder[DocumentLock(op[r].target)] = r
<1> DEFINE o == op[r]
           v == view[r]
<1>1. o.kind \in Kinds /\ stage[r] = Len(PlanOf(r)) + 1 BY CallFacts
<1>2. Len(Plan(o, v)) \in Nat BY <1>1, PlanLength
<1>3. \A i \in 1..Len(Plan(o, v)) : \A row \in Plan(o, v)[i].rows : holder[row] = r
  BY <1>1, <1>2 DEF LocksHeld, HoldsLocks, PlanOf
<1> HIDE DEF o, v
<1> USE DEF Step
<1>4. CASE o.kind = "payout"
  <2>1. Plan(o, v) = PayOutPlan(o) BY <1>4 DEF Plan
  <2>2. CASE o.payable = None BY <1>4, <2>2 DEF o, v
  <2>3. CASE o.payable # None
    <3>1. 1 \in 1..Len(Plan(o, v)) /\ PayableLock(o.payable) \in Plan(o, v)[1].rows
      BY <2>1, <2>3 DEF PayOutPlan
    <3> QED BY <1>3, <1>4, <3>1 DEF o, v
  <2> QED BY <2>2, <2>3
<1>5. CASE o.kind \in {"match", "unmatch", "apply", "unapply"}
  <2>1. PICK looks : Plan(o, v) = AdvancePlan(o, looks)
    <3>1. CASE o.kind = "unapply" BY <3>1 DEF Plan
    <3>2. CASE o.kind \in {"match", "unmatch", "apply"} BY <3>2 DEF Plan
    <3> QED BY <1>5, <3>1, <3>2
  <2>2. /\ 1 \in 1..Len(Plan(o, v)) /\ DocumentLock(o.entry) \in Plan(o, v)[1].rows
        /\ 2 \in 1..Len(Plan(o, v)) /\ PayableLock(o.payable) \in Plan(o, v)[2].rows
    BY <2>1 DEF AdvancePlan
  <2> QED BY <1>3, <1>5, <2>2 DEF o, v
<1>6. CASE o.kind = "pay"
  <2>1. 1 \in 1..Len(Plan(o, v)) /\ PayableLock(o.payable) \in Plan(o, v)[1].rows
    BY <1>6 DEF Plan, PayPlan
  <2> QED BY <1>3, <1>6, <2>1 DEF o, v
<1>7. CASE o.kind = "cancel"
  <2>1. /\ 1 \in 1..Len(Plan(o, v)) /\ PayableLock(o.payable) \in Plan(o, v)[1].rows
        /\ 3 \in 1..Len(Plan(o, v)) /\ SettlementLock(o.payable) \in Plan(o, v)[3].rows
    BY <1>7 DEF Plan, CancelPlan
  <2> QED BY <1>3, <1>7, <2>1 DEF o, v
<1>8. CASE o.kind = "reverseSource"
  <2>1. /\ 2 \in 1..Len(Plan(o, v)) /\ PayableLock(o.payable) \in Plan(o, v)[2].rows
        /\ 3 \in 1..Len(Plan(o, v)) /\ SettlementLock(o.payable) \in Plan(o, v)[3].rows
    BY <1>8 DEF Plan, ReverseSourcePlan
  <2> QED BY <1>3, <1>8, <2>1 DEF o, v
<1>9. CASE o.kind = "reversePayment"
  <2>1. /\ 1 \in 1..Len(Plan(o, v)) /\ DocumentLock(o.target) \in Plan(o, v)[1].rows
        /\ 3 \in 1..Len(Plan(o, v)) /\ PayableLock(o.payable) \in Plan(o, v)[3].rows
    BY <1>9 DEF Plan, ReversePaymentPlan
  <2> QED BY <1>3, <1>9, <2>1 DEF o, v
<1>10. CASE o.kind = "reverseEntry"
  <2>1. /\ 1 \in 1..Len(Plan(o, v)) /\ DocumentLock(o.entry) \in Plan(o, v)[1].rows
        /\ 2 \in 1..Len(Plan(o, v))
        /\ \A p \in MatchedPayables(v.entry) : PayableLock(p) \in Plan(o, v)[2].rows
    BY <1>10 DEF Plan, ReverseEntryPlan
  <2> QED BY <1>3, <1>10, <2>1 DEF o, v
<1>11. CASE o.kind = "receive"
  <2>1. 1 \in 1..Len(Plan(o, v)) /\ SettlementLock(o.payable) \in Plan(o, v)[1].rows
    BY <1>11 DEF Plan, ReceivePlan
  <2> QED BY <1>3, <1>11, <2>1 DEF o, v
<1>12. CASE o.kind = "reverseReceipt"
  <2>1. /\ 1 \in 1..Len(Plan(o, v)) /\ DocumentLock(o.target) \in Plan(o, v)[1].rows
        /\ 3 \in 1..Len(Plan(o, v)) /\ SettlementLock(o.payable) \in Plan(o, v)[3].rows
    BY <1>12 DEF Plan, ReverseReceiptPlan
  <2> QED BY <1>3, <1>12, <2>1 DEF o, v
<1> QED BY <1>1, <1>4, <1>5, <1>6, <1>7, <1>8, <1>9, <1>10, <1>11, <1>12 DEF Kinds, o

(* Mutual exclusion: a commit changes no row that it has not locked, except *)
(* its own document and the offsets, which nobody reads under their lock.  *)
LEMMA WritesUnderLock ==
  ASSUME Shape, LocksHeld, NEW r \in Requests, Commit(r)
  PROVE  /\ \A p \in Payables : payable'[p] # payable[p] => holder[PayableLock(p)] = r
         /\ \A p \in Payables : settlement'[p] # settlement[p] => holder[SettlementLock(p)] = r
         /\ \A p \in Payables : source'[p] # source[p] => holder[PayableLock(p)] = r
         /\ \A d \in Requests : doc'[d] # doc[d] =>
              d = r \/ doc[d].kind = "offset" \/ holder[DocumentLock(d)] = r
<1> DEFINE o == op[r]
           v == view[r]
           locked == holder[PayableLock(o.payable)] = r
<1>1. Running(r) /\ AtEnd(r) BY CommitEnds
<1>2. CallOK(o) /\ o \in Operation BY <1>1, CallFacts
<1>3. TablesOK BY ShapeTables
<1>4. /\ o.kind \in {"pay", "match", "unmatch", "apply", "unapply", "cancel", "reverseSource",
                     "reversePayment"} => locked
      /\ o.kind = "payout" /\ o.payable # None => locked
      /\ o.kind = "reverseEntry" => \A p \in MatchedPayables(v.entry) : holder[PayableLock(p)] = r
      /\ o.kind \in {"receive", "reverseReceipt", "cancel", "reverseSource"} =>
           holder[SettlementLock(o.payable)] = r
      /\ o.kind \in {"match", "unmatch", "apply", "unapply", "reverseEntry"} =>
           holder[DocumentLock(o.entry)] = r
      /\ o.kind \in {"reversePayment", "reverseReceipt"} => holder[DocumentLock(o.target)] = r
  BY <1>1, LocksAtEnd
<1> USE DEF Commits, TablesOK
<1>5. CASE Pay(r) BY <1>3, <1>4, <1>5 DEF Pay, PayEffect
<1>6. CASE PayOut(r)
  <2>1. /\ payable' = IF o.payable = None THEN payable
                      ELSE [payable EXCEPT ![o.payable] = payable'[o.payable]]
        /\ \E new : doc' = [doc EXCEPT ![r] = new]
        /\ UNCHANGED <<settlement, source>>
    BY <1>3, <1>6 DEF PayOut, PayOutEffect
  <2> QED BY <1>3, <1>4, <1>6, <2>1 DEF PayOut
<1>7. CASE Match(r) BY <1>3, <1>4, <1>7 DEF Match, MatchEffect
<1>8. CASE Unmatch(r) BY <1>3, <1>4, <1>8 DEF Unmatch, UnmatchEffect
<1>9. CASE Apply(r) BY <1>3, <1>4, <1>9 DEF Apply, ApplyEffect
<1>10. CASE Unapply(r)
  <2>1. doc[o.target].kind = "offset" BY <1>2, <1>10 DEF Unapply, CallOK
  <2> QED BY <1>3, <1>4, <1>10, <2>1 DEF Unapply, UnapplyEffect
<1>11. CASE Cancel(r) BY <1>3, <1>4, <1>11 DEF Cancel, CancelEffect, VoidEffect
<1>12. CASE ReverseSource(r) BY <1>3, <1>4, <1>12 DEF ReverseSource, ReverseSourceEffect, VoidEffect
<1>13. CASE ReversePayment(r) BY <1>3, <1>4, <1>13 DEF ReversePayment, ReversePaymentEffect
<1>14. CASE ReverseEntry(r) BY <1>3, <1>4, <1>14 DEF ReverseEntry, ReverseEntryEffect, MatchedPayables
<1>15. CASE Receive(r) BY <1>3, <1>4, <1>15 DEF Receive, ReceiveEffect
<1>16. CASE ReverseReceipt(r) BY <1>3, <1>4, <1>16 DEF ReverseReceipt, ReverseReceiptEffect
<1> QED
  BY <1>5, <1>6, <1>7, <1>8, <1>9, <1>10, <1>11, <1>12, <1>13, <1>14, <1>15, <1>16 DEF Commit

(* The rows a session has read under their lock, and what locks them.      *)
LEMMA FreshReads ==
  ASSUME Shape, LocksHeld, NEW s \in Requests, Running(s), NEW i \in 1..Len(PlanOf(s)), i < stage[s]
  PROVE  LET rows == PlanOf(s)[i].rows
             look == PlanOf(s)[i].look
             o == op[s]
         IN  /\ \A p \in Payables : PayableLock(p) \in rows /\ "payable" \in look =>
                  source[p] # "ABSENT" /\ holder[PayableLock(p)] = s
             /\ PayableLock(o.payable) \in rows /\ "source" \in look =>
                  /\ o.payable \in Payables /\ source[o.payable] # "ABSENT"
                  /\ holder[PayableLock(o.payable)] = s
             /\ SettlementLock(o.payable) \in rows /\ "settlement" \in look =>
                  /\ o.payable \in Payables /\ source[o.payable] # "ABSENT"
                  /\ holder[SettlementLock(o.payable)] = s
             /\ DocumentLock(o.target) \in rows /\ "doc" \in look =>
                  /\ o.target \in Requests /\ doc[o.target].kind \in {"payment", "receipt"}
                  /\ holder[DocumentLock(o.target)] = s
             /\ EntryLock(o.entry) \in rows /\ "entry" \in look =>
                  /\ o.entry \in Requests /\ doc[o.entry].kind = "payout"
                  /\ holder[DocumentLock(o.entry)] = s
<1> DEFINE o == op[s]
           v == view[s]
           rows == Plan(o, v)[i].rows
           look == Plan(o, v)[i].look
<1>1. o \in Operation /\ o.kind \in Kinds /\ v \in View /\ CallOK(o) BY CallFacts
<1>2. i \in 1..Len(Plan(o, v)) BY DEF PlanOf
<1>3. StepOK(o, v, Plan(o, v)[i]) BY <1>1, <1>2, PlanStepsOK
<1>4. \A row \in rows : holder[row] = s BY DEF LocksHeld, HoldsLocks, PlanOf
<1>5. /\ DocumentLock(o.target) \in rows /\ "doc" \in look =>
           o.target \in Requests /\ doc[o.target].kind \in {"payment", "receipt"}
      /\ EntryLock(o.entry) \in rows /\ "entry" \in look =>
           /\ o.entry \in Requests /\ doc[o.entry].kind = "payout"
           /\ 1 \in 1..Len(Plan(o, v)) /\ DocumentLock(o.entry) \in Plan(o, v)[1].rows
  BY <1>1, <1>2, ReadsUnderLock
<1>6. 1 < stage[s]
  <2>1. i \in Nat /\ i >= 1 /\ stage[s] \in Nat BY <1>1, <1>2, PlanLength DEF Shape, TypeOK
  <2> QED BY <2>1
<1>7. 1 \in 1..Len(Plan(o, v)) /\ DocumentLock(o.entry) \in Plan(o, v)[1].rows =>
        holder[DocumentLock(o.entry)] = s
  BY <1>6 DEF LocksHeld, HoldsLocks, PlanOf
<1>8. \A p \in Subjects(o, v) \cap Payables : source[p] # "ABSENT"
  <2>1. DocumentOK(v.entry) BY DEF Shape, DocumentsOK
  <2> QED BY <1>1, <2>1 DEF Subjects, MatchedPayables, CallOK, DocumentOK
<1>9. "source" \in look \/ "settlement" \in look => o.payable \in Payables /\ source[o.payable] # "ABSENT"
  BY <1>1, <1>3 DEF StepOK, CallOK
<1>10. \A p \in Payables : PayableLock(p) \in rows /\ "payable" \in look => p \in Subjects(o, v)
  BY <1>3 DEF StepOK
<1> HIDE DEF o, v, rows, look
<1>11. PlanOf(s)[i].rows = rows /\ PlanOf(s)[i].look = look BY DEF PlanOf, rows, look, o, v
<1>12. op[s] = o BY DEF o
<1> QED BY <1>4, <1>5, <1>7, <1>8, <1>9, <1>10, <1>11, <1>12

(* What a session knows stays true while nobody changes what it has read   *)
(* under a lock.                                                           *)
LEMMA FreshStays ==
  ASSUME Shape, LocksHeld, LockedViewsFresh, NEW s \in Requests, Running(s),
         op'[s] = op[s], view'[s] = view[s], stage'[s] = stage[s],
         \A p \in Payables : source[p] # "ABSENT" /\ holder[PayableLock(p)] = s =>
            payable'[p] = payable[p] /\ source'[p] = source[p],
         \A p \in Payables : source[p] # "ABSENT" /\ holder[SettlementLock(p)] = s =>
            settlement'[p] = settlement[p],
         \A d \in Requests : doc[d].kind \in {"payment", "receipt", "payout"} /\ holder[DocumentLock(d)] = s =>
            doc'[d] = doc[d]
  PROVE  FreshView(s)'
<1>1. FreshView(s) BY DEF LockedViewsFresh
<1>2. PlanOf(s)' = PlanOf(s) BY DEF PlanOf
<1> DEFINE o == op[s]
           v == view[s]
<1> SUFFICES ASSUME NEW i \in 1..Len(PlanOf(s)), i < stage[s],
                    NEW rows, rows = PlanOf(s)[i].rows, NEW look, look = PlanOf(s)[i].look
             PROVE  /\ \A p \in Payables : PayableLock(p) \in rows /\ "payable" \in look =>
                         v.payable[p] = payable'[p]
                    /\ PayableLock(o.payable) \in rows /\ "source" \in look => v.source = source'[o.payable]
                    /\ SettlementLock(o.payable) \in rows /\ "settlement" \in look =>
                         v.settlement = settlement'[o.payable]
                    /\ DocumentLock(o.target) \in rows /\ "doc" \in look => v.doc = doc'[o.target]
                    /\ EntryLock(o.entry) \in rows /\ "entry" \in look => v.entry = doc'[o.entry]
  BY <1>2 DEF FreshView
<1>3. /\ \A p \in Payables : PayableLock(p) \in rows /\ "payable" \in look => v.payable[p] = payable[p]
      /\ PayableLock(o.payable) \in rows /\ "source" \in look => v.source = source[o.payable]
      /\ SettlementLock(o.payable) \in rows /\ "settlement" \in look => v.settlement = settlement[o.payable]
      /\ DocumentLock(o.target) \in rows /\ "doc" \in look => v.doc = doc[o.target]
      /\ EntryLock(o.entry) \in rows /\ "entry" \in look => v.entry = doc[o.entry]
  BY <1>1 DEF FreshView
<1>4. /\ \A p \in Payables : PayableLock(p) \in rows /\ "payable" \in look =>
           source[p] # "ABSENT" /\ holder[PayableLock(p)] = s
      /\ PayableLock(o.payable) \in rows /\ "source" \in look =>
           o.payable \in Payables /\ source[o.payable] # "ABSENT" /\ holder[PayableLock(o.payable)] = s
      /\ SettlementLock(o.payable) \in rows /\ "settlement" \in look =>
           o.payable \in Payables /\ source[o.payable] # "ABSENT" /\ holder[SettlementLock(o.payable)] = s
      /\ DocumentLock(o.target) \in rows /\ "doc" \in look =>
           /\ o.target \in Requests /\ doc[o.target].kind \in {"payment", "receipt"}
           /\ holder[DocumentLock(o.target)] = s
      /\ EntryLock(o.entry) \in rows /\ "entry" \in look =>
           o.entry \in Requests /\ doc[o.entry].kind = "payout" /\ holder[DocumentLock(o.entry)] = s
  BY FreshReads
<1> QED BY <1>3, <1>4

LEMMA FreshAdvance ==
  ASSUME Shape, LockedViewsFresh, NEW r \in Requests, Advance(r)
  PROVE  FreshView(r)'
<1> DEFINE o == op[r]
           v == view[r]
           n == stage[r]
           now == PlanOf(r)[n].look
           w == Look(o, v, now)
<1>1. Running(r) /\ UNCHANGED <<payable, settlement, source, doc>> BY DEF Advance
<1>2. /\ n \in 1..Len(PlanOf(r)) /\ StepOK(o, v, PlanOf(r)[n])
      /\ stage'[r] = n + 1 /\ op' = op /\ view'[r] = w
      /\ Len(PlanOf(r)') = Len(PlanOf(r))
      /\ \A i \in 1..n : PlanOf(r)'[i] = PlanOf(r)[i]
  BY AdvanceFacts
<1>3. FreshView(r) BY <1>1 DEF LockedViewsFresh
<1>4. /\ "payable" \in now => \A p \in Payables : PayableLock(p) \in PlanOf(r)[n].rows => p \in Subjects(o, v)
      /\ \A p \in Payables : w.payable[p] = IF "payable" \in now /\ p \in Subjects(o, v)
                                          THEN payable[p] ELSE v.payable[p]
      /\ w.settlement = IF "settlement" \in now THEN settlement[o.payable] ELSE v.settlement
      /\ w.source = IF "source" \in now THEN source[o.payable] ELSE v.source
      /\ w.doc = IF "doc" \in now THEN doc[o.target] ELSE v.doc
      /\ w.entry = IF "entry" \in now THEN doc[o.entry] ELSE v.entry
  BY <1>2 DEF Look, StepOK
<1> HIDE DEF w, now
<1> SUFFICES ASSUME NEW i \in 1..Len(PlanOf(r)), i <= n,
                    NEW rows, rows = PlanOf(r)[i].rows, NEW look, look = PlanOf(r)[i].look
             PROVE  /\ \A p \in Payables : PayableLock(p) \in rows /\ "payable" \in look =>
                         w.payable[p] = payable[p]
                    /\ PayableLock(o.payable) \in rows /\ "source" \in look => w.source = source[o.payable]
                    /\ SettlementLock(o.payable) \in rows /\ "settlement" \in look =>
                         w.settlement = settlement[o.payable]
                    /\ DocumentLock(o.target) \in rows /\ "doc" \in look => w.doc = doc[o.target]
                    /\ EntryLock(o.entry) \in rows /\ "entry" \in look => w.entry = doc[o.entry]
  <2>1. ASSUME NEW i \in 1..Len(PlanOf(r)'), i < stage'[r]
        PROVE  i \in 1..Len(PlanOf(r)) /\ i <= n /\ PlanOf(r)'[i] = PlanOf(r)[i]
    BY <1>2, <2>1
  <2> QED BY <1>1, <1>2, <2>1 DEF FreshView
<1>5. CASE i = n BY <1>4, <1>5 DEF now
<1>6. CASE i # n
  <2>1. i < n BY <1>2, <1>6
  <2>2. /\ \A p \in Payables : PayableLock(p) \in rows /\ "payable" \in look => v.payable[p] = payable[p]
        /\ PayableLock(o.payable) \in rows /\ "source" \in look => v.source = source[o.payable]
        /\ SettlementLock(o.payable) \in rows /\ "settlement" \in look => v.settlement = settlement[o.payable]
        /\ DocumentLock(o.target) \in rows /\ "doc" \in look => v.doc = doc[o.target]
        /\ EntryLock(o.entry) \in rows /\ "entry" \in look => v.entry = doc[o.entry]
    BY <1>3, <2>1 DEF FreshView
  <2> QED BY <1>4, <2>2
<1> QED BY <1>5, <1>6

LEMMA FreshNext == Shape /\ LocksHeld /\ LockedViewsFresh /\ [Next]_vars => LockedViewsFresh'
<1> SUFFICES ASSUME Shape, LocksHeld, LockedViewsFresh, [Next]_vars, NEW s \in Requests, Running(s)'
             PROVE  FreshView(s)'
  BY DEF LockedViewsFresh
<1>1. CASE UNCHANGED vars
  <2>1. Running(s) BY <1>1 DEF vars, Running
  <2> QED BY <1>1, <2>1, FreshStays DEF vars
<1>2. ASSUME NEW p \in Payables, RecordSwipe(p) PROVE FreshView(s)'
  <2>1. source[p] = "ABSENT" /\ UNCHANGED <<doc, op, stage, view>> BY <1>2 DEF RecordSwipe
  <2>2. Running(s) BY <2>1 DEF Running
  <2>3. \A q \in Payables : q # p =>
          source'[q] = source[q] /\ payable'[q] = payable[q] /\ settlement'[q] = settlement[q]
    BY <1>2 DEF RecordSwipe, Shape, TypeOK
  <2> QED BY <2>1, <2>2, <2>3, FreshStays
<1>3. ASSUME NEW r \in Requests, Begin(r) PROVE FreshView(s)'
  <2>1. /\ UNCHANGED <<payable, settlement, source, doc, view>> /\ stage'[r] = 1
        /\ \A t \in Requests \ {r} : op'[t] = op[t] /\ stage'[t] = stage[t]
    BY <1>3 DEF Begin, Shape, TypeOK
  <2>2. CASE s = r BY <2>1, <2>2 DEF FreshView
  <2>3. CASE s # r
    <3>1. Running(s) BY <2>1, <2>3 DEF Running
    <3> QED BY <2>1, <2>3, <3>1, FreshStays
  <2> QED BY <2>2, <2>3
<1>4. ASSUME NEW r \in Requests, Advance(r) PROVE FreshView(s)'
  <2>1. CASE s = r BY <1>4, <2>1, FreshAdvance
  <2>2. CASE s # r
    <3>1. UNCHANGED <<payable, settlement, source, doc, op>> BY <1>4 DEF Advance
    <3>2. stage'[s] = stage[s] /\ view'[s] = view[s] BY <1>4, <2>2, AdvanceFacts
    <3>3. Running(s) BY <3>1 DEF Running
    <3> QED BY <3>1, <3>2, <3>3, FreshStays
  <2> QED BY <2>1, <2>2
<1>5. ASSUME NEW r \in Requests, Reject(r) \/ Abort(r) PROVE FreshView(s)'
  <2>1. Finish(r, Idle) /\ UNCHANGED <<payable, settlement, source, doc>> BY <1>5 DEF Reject, Abort, tables
  <2>2. s # r /\ Running(s) BY <2>1, LocksFinish
  <2>3. op'[s] = op[s] /\ view'[s] = view[s] /\ stage'[s] = stage[s] BY <2>1, <2>2, FinishTypes
  <2> QED BY <2>1, <2>2, <2>3, FreshStays
<1>6. ASSUME NEW r \in Requests, Commit(r) PROVE FreshView(s)'
  <2>1. Finish(r, Done) /\ Running(r) BY <1>6, CommitEnds
  <2>2. s # r /\ Running(s) BY <2>1, LocksFinish
  <2>3. op'[s] = op[s] /\ view'[s] = view[s] /\ stage'[s] = stage[s] BY <2>1, <2>2, FinishTypes
  <2>4. doc[r].kind = "none" BY <2>1 DEF Shape, DocumentsOK, Running, Kinds
  <2>5. /\ \A p \in Payables : payable'[p] # payable[p] => holder[PayableLock(p)] = r
        /\ \A p \in Payables : settlement'[p] # settlement[p] => holder[SettlementLock(p)] = r
        /\ \A p \in Payables : source'[p] # source[p] => holder[PayableLock(p)] = r
        /\ \A d \in Requests : doc'[d] # doc[d] =>
             d = r \/ doc[d].kind = "offset" \/ holder[DocumentLock(d)] = r
    BY <1>6, WritesUnderLock
  <2> QED BY <2>2, <2>3, <2>4, <2>5, FreshStays
<1> QED BY <1>1, <1>2, <1>3, <1>4, <1>5, <1>6 DEF Next

LEMMA FreshInitially == Init => LockedViewsFresh
BY DEF Init, LockedViewsFresh, Running, Idle, Call, Kinds

(* Two-phase locking does what the services rely on: whatever a transaction *)
(* has read of a payable, a settlement, a Pay Out, a payout or a receipt in *)
(* the step that locked it is still in the database when it writes.        *)
THEOREM FreshnessInvariant == Spec => []LockedViewsFresh
<1>1. Init => Shape /\ LocksHeld /\ LockedViewsFresh BY ShapeInit, LocksInitially, FreshInitially
<1>2. Shape /\ LocksHeld /\ LockedViewsFresh /\ [Next]_vars => (Shape /\ LocksHeld /\ LockedViewsFresh)'
  BY ShapeNext, LocksNext, FreshNext
<1> QED BY <1>1, <1>2, PTL DEF Spec

---------------------------------------------------------------------------
(* Conservation.                                                           *)

(* Conservation by itself is not inductive: the operations that refuse a   *)
(* void payable have to find it empty when another one reopens it, and the *)
(* Pay Out form allocates by the status of the swipe, not of its payable.  *)
RowOK(p) ==
    source[p] # "ABSENT" =>
        LET row == payable[p]
        IN  /\ row.paid >= 0 /\ row.offset >= 0 /\ row.remaining >= 0
            /\ row.status \in Void =>
                 row.paid = 0 /\ row.offset = 0 /\ row.remaining = 0 /\ source[p] = "REVERSED"
            /\ row.status \notin Void =>
                 /\ row.paid + row.offset + row.remaining = Original[p]
                 /\ row.status = "PAID" <=> row.remaining = 0

RowsOK == \A p \in Payables : RowOK(p)

(* What a commit knows about the payable it is going to write.             *)
LEMMA FreshAtEnd ==
  ASSUME Shape, LockedViewsFresh, NEW r \in Requests, Running(r), AtEnd(r)
  PROVE  /\ op[r].kind \in {"pay", "match", "unmatch", "apply", "unapply", "cancel", "reverseSource"} =>
              view[r].payable[op[r].payable] = payable[op[r].payable]
         /\ op[r].kind = "payout" /\ op[r].payable # None =>
              /\ view[r].payable[op[r].payable] = payable[op[r].payable]
              /\ view[r].source = source[op[r].payable]
         /\ op[r].kind = "reverseEntry" =>
              \A p \in MatchedPayables(view[r].entry) : view[r].payable[p] = payable[p]
<1> DEFINE o == op[r]
           v == view[r]
<1>1. /\ o.kind \in Kinds /\ o \in Operation /\ CallOK(o) /\ v \in View
      /\ stage[r] = Len(PlanOf(r)) + 1
  BY CallFacts
<1>2. Len(Plan(o, v)) \in Nat BY <1>1, PlanLength
<1>3. \A i \in 1..Len(Plan(o, v)) :
        /\ \A p \in Payables : PayableLock(p) \in Plan(o, v)[i].rows /\ "payable" \in Plan(o, v)[i].look =>
             v.payable[p] = payable[p]
        /\ PayableLock(o.payable) \in Plan(o, v)[i].rows /\ "source" \in Plan(o, v)[i].look =>
             v.source = source[o.payable]
  BY <1>1, <1>2 DEF LockedViewsFresh, FreshView, PlanOf
<1> HIDE DEF o, v
<1> USE DEF Step
<1>4. CASE o.kind = "payout"
  <2>1. Plan(o, v) = PayOutPlan(o) BY <1>4 DEF Plan
  <2>2. CASE o.payable = None BY <1>4, <2>2 DEF o, v
  <2>3. CASE o.payable # None
    <3>1. /\ 1 \in 1..Len(Plan(o, v)) /\ PayableLock(o.payable) \in Plan(o, v)[1].rows
          /\ "payable" \in Plan(o, v)[1].look /\ "source" \in Plan(o, v)[1].look
      BY <2>1, <2>3 DEF PayOutPlan
    <3>2. o.payable \in Payables BY <1>1, <2>3 DEF Operation
    <3> QED BY <1>3, <1>4, <3>1, <3>2 DEF o, v
  <2> QED BY <2>2, <2>3
<1>5. CASE o.kind \in {"match", "unmatch", "apply", "unapply"}
  <2>1. PICK looks : Plan(o, v) = AdvancePlan(o, looks)
    <3>1. CASE o.kind = "unapply" BY <3>1 DEF Plan
    <3>2. CASE o.kind \in {"match", "unmatch", "apply"} BY <3>2 DEF Plan
    <3> QED BY <1>5, <3>1, <3>2
  <2>2. /\ 2 \in 1..Len(Plan(o, v)) /\ PayableLock(o.payable) \in Plan(o, v)[2].rows
        /\ "payable" \in Plan(o, v)[2].look
    BY <2>1 DEF AdvancePlan
  <2>3. o.payable \in Payables BY <1>1, <1>5 DEF CallOK
  <2> QED BY <1>3, <1>5, <2>2, <2>3 DEF o, v
<1>6. CASE o.kind = "pay"
  <2>1. /\ 1 \in 1..Len(Plan(o, v)) /\ PayableLock(o.payable) \in Plan(o, v)[1].rows
        /\ "payable" \in Plan(o, v)[1].look
    BY <1>6 DEF Plan, PayPlan
  <2>2. o.payable \in Payables BY <1>1, <1>6 DEF CallOK
  <2> QED BY <1>3, <1>6, <2>1, <2>2 DEF o, v
<1>7. CASE o.kind = "cancel"
  <2>1. /\ 1 \in 1..Len(Plan(o, v)) /\ PayableLock(o.payable) \in Plan(o, v)[1].rows
        /\ "payable" \in Plan(o, v)[1].look
    BY <1>7 DEF Plan, CancelPlan
  <2>2. o.payable \in Payables BY <1>1, <1>7 DEF CallOK
  <2> QED BY <1>3, <1>7, <2>1, <2>2 DEF o, v
<1>8. CASE o.kind = "reverseSource"
  <2>1. /\ 2 \in 1..Len(Plan(o, v)) /\ PayableLock(o.payable) \in Plan(o, v)[2].rows
        /\ "payable" \in Plan(o, v)[2].look
    BY <1>8 DEF Plan, ReverseSourcePlan
  <2>2. o.payable \in Payables BY <1>1, <1>8 DEF CallOK
  <2> QED BY <1>3, <1>8, <2>1, <2>2 DEF o, v
<1>9. CASE o.kind = "reverseEntry"
  <2>1. /\ 2 \in 1..Len(Plan(o, v)) /\ "payable" \in Plan(o, v)[2].look
        /\ \A p \in MatchedPayables(v.entry) : PayableLock(p) \in Plan(o, v)[2].rows
    BY <1>9 DEF Plan, ReverseEntryPlan
  <2>2. MatchedPayables(v.entry) \subseteq Payables BY DEF MatchedPayables
  <2> QED BY <1>3, <1>9, <2>1, <2>2 DEF o, v
<1>10. CASE o.kind \in {"reversePayment", "receive", "reverseReceipt"} BY <1>10 DEF o
<1> QED BY <1>1, <1>4, <1>5, <1>6, <1>7, <1>8, <1>9, <1>10 DEF Kinds, o

(* A row is balanced after it loses `amount` of what remains to `settled`. *)
LEMMA SettleRow ==
  ASSUME TablesOK, NEW p \in Payables, RowOK(p), NEW amount \in Int, amount >= 0,
         amount <= payable[p].remaining, source[p] # "ABSENT", payable[p].status \notin Void,
         NEW remaining, remaining = payable[p].remaining - amount,
         source' = source,
         \/ payable'[p] = [payable[p] EXCEPT !.paid = payable[p].paid + amount, !.remaining = remaining,
                                             !.status = StatusFor(remaining)]
         \/ payable'[p] = [payable[p] EXCEPT !.offset = payable[p].offset + amount, !.remaining = remaining,
                                             !.status = StatusFor(remaining)]
  PROVE  RowOK(p)'
<1>1. payable[p] \in PayableRow /\ Original[p] \in Int BY ConstantsAssumption DEF TablesOK
<1>2. remaining \in Int /\ remaining >= 0 BY <1>1 DEF PayableRow
<1>3. /\ payable'[p].paid + payable'[p].offset = payable[p].paid + payable[p].offset + amount
      /\ payable'[p].paid >= 0 /\ payable'[p].offset >= 0
      /\ payable'[p].remaining = remaining /\ payable'[p].status = StatusFor(remaining)
      /\ payable'[p].paid \in Int /\ payable'[p].offset \in Int
  <2>1. /\ payable[p].paid \in Int /\ payable[p].offset \in Int
        /\ payable[p].paid >= 0 /\ payable[p].offset >= 0
    BY <1>1 DEF PayableRow, RowOK
  <2>2. /\ payable'[p].remaining = remaining /\ payable'[p].status = StatusFor(remaining)
        /\ \/ payable'[p].paid = payable[p].paid + amount /\ payable'[p].offset = payable[p].offset
           \/ payable'[p].offset = payable[p].offset + amount /\ payable'[p].paid = payable[p].paid
    BY <1>1 DEF PayableRow
  <2> QED BY <2>1, <2>2
<1>4. StatusFor(remaining) \notin Void /\ (StatusFor(remaining) = "PAID" <=> remaining = 0)
  BY <1>2 DEF StatusFor, Void
<1>5. payable'[p].paid + payable'[p].offset + payable'[p].remaining = Original[p]
  BY <1>1, <1>2, <1>3 DEF RowOK, PayableRow
<1> QED BY <1>2, <1>3, <1>4, <1>5 DEF RowOK

(* And after it gets back what settled it.                                 *)
LEMMA UnsettleRow ==
  ASSUME TablesOK, NEW p \in Payables, RowOK(p), NEW amount \in Int, amount > 0,
         source[p] # "ABSENT", payable[p].status \notin Void,
         NEW remaining, remaining = payable[p].remaining + amount,
         source' = source,
         \/ /\ amount <= payable[p].paid
            /\ payable'[p] = [payable[p] EXCEPT !.paid = payable[p].paid - amount, !.remaining = remaining,
                                                !.status = "OPEN"]
         \/ /\ amount <= payable[p].offset
            /\ payable'[p] = [payable[p] EXCEPT !.offset = payable[p].offset - amount, !.remaining = remaining,
                                                !.status = "OPEN"]
  PROVE  RowOK(p)'
<1>1. payable[p] \in PayableRow /\ Original[p] \in Int BY ConstantsAssumption DEF TablesOK
<1>2. remaining \in Int /\ remaining > 0 BY <1>1 DEF PayableRow, RowOK
<1>3. /\ payable'[p].paid + payable'[p].offset = payable[p].paid + payable[p].offset - amount
      /\ payable'[p].paid >= 0 /\ payable'[p].offset >= 0
      /\ payable'[p].remaining = remaining /\ payable'[p].status = "OPEN"
      /\ payable'[p].paid \in Int /\ payable'[p].offset \in Int
  <2>1. /\ payable[p].paid \in Int /\ payable[p].offset \in Int
        /\ payable[p].paid >= 0 /\ payable[p].offset >= 0
    BY <1>1 DEF PayableRow, RowOK
  <2>2. /\ payable'[p].remaining = remaining /\ payable'[p].status = "OPEN"
        /\ \/ amount <= payable[p].paid /\ payable'[p].paid = payable[p].paid - amount /\ payable'[p].offset = payable[p].offset
           \/ amount <= payable[p].offset /\ payable'[p].offset = payable[p].offset - amount /\ payable'[p].paid = payable[p].paid
    BY <1>1 DEF PayableRow
  <2> QED BY <2>1, <2>2
<1>4. payable'[p].paid + payable'[p].offset + payable'[p].remaining = Original[p]
  BY <1>1, <1>2, <1>3 DEF RowOK, PayableRow
<1> QED BY <1>2, <1>3, <1>4 DEF RowOK, Void

(* Every operation but the reversal of a payout leaves the rows balanced.  *)
LEMMA RowsCommit ==
  ASSUME Shape, LockedViewsFresh, RowsOK, NEW r \in Requests, Commit(r), ~ReversePayment(r),
         NEW p \in Payables
  PROVE  RowOK(p)'
<1> DEFINE o == op[r]
           v == view[r]
<1>1. Running(r) /\ AtEnd(r) /\ Checks(o, v) BY CommitEnds
<1>2. o \in Operation /\ v \in View /\ CallOK(o) BY <1>1, CallFacts
<1>3. TablesOK /\ RowOK(p) BY ShapeTables DEF RowsOK
<1>4. payable[p] \in PayableRow /\ o.amount \in Nat /\ o.part \in Nat /\ Original[p] \in Int
  BY <1>2, <1>3, ConstantsAssumption DEF TablesOK, Operation
<1>5. payable[p].remaining \in Int BY <1>4 DEF PayableRow
<1>6. /\ o.kind \in {"pay", "match", "unmatch", "apply", "unapply", "cancel", "reverseSource"} =>
           v.payable[o.payable] = payable[o.payable]
      /\ o.kind = "payout" /\ o.payable # None =>
           v.payable[o.payable] = payable[o.payable] /\ v.source = source[o.payable]
      /\ o.kind = "reverseEntry" => \A q \in MatchedPayables(v.entry) : v.payable[q] = payable[q]
  BY <1>1, FreshAtEnd
<1>7. o.payable = p => source[p] # "ABSENT" BY <1>2 DEF CallOK
<1>8. payable'[p] = payable[p] /\ source'[p] = source[p] => RowOK(p)' BY <1>3 DEF RowOK
<1>9. CASE Pay(r)
  <2>1. PayChecks(o, v) /\ PayEffect(r, o, v) /\ o.kind = "pay" /\ o.payable \in Payables
    BY <1>1, <1>2, <1>9 DEF Pay, Commits, Checks, CallOK
  <2>2. CASE p # o.payable BY <1>3, <1>8, <2>1, <2>2 DEF PayEffect, TablesOK
  <2>3. CASE p = o.payable
    <3> DEFINE amount == Settled(o, v)
               remaining == payable[p].remaining - amount
    <3>1. v.payable[p] = payable[p] BY <1>6, <2>1, <2>3
    <3>2. amount \in Int BY <1>2, <2>1, SettledType
    <3>3. amount >= 0
      <4>1. payable[p].remaining >= 0 BY <1>3, <1>7, <2>3 DEF RowOK
      <4>2. amount = o.amount \/ amount = payable[p].remaining
        BY <1>4, <1>5, <2>3, <3>1 DEF Settled, CashPayoutRounding
      <4> QED BY <1>4, <4>1, <4>2
    <3>4. amount <= payable[p].remaining /\ payable[p].status = "OPEN" BY <2>1, <2>3, <3>1 DEF PayChecks
    <3>5. Larger(0, payable[p].remaining - amount) = remaining
      <4> HIDE DEF amount
      <4> QED BY <1>5, <3>2, <3>4 DEF Larger
    <3>6. payable'[p] = [payable[p] EXCEPT !.paid = payable[p].paid + amount, !.remaining = remaining,
                                           !.status = StatusFor(remaining)]
      BY <1>3, <2>1, <2>3, <3>1, <3>5 DEF PayEffect, TablesOK
    <3>7. source' = source BY <2>1 DEF PayEffect
    <3>8. "OPEN" \notin Void BY DEF Void
    <3>9. payable[p].status \notin Void BY <3>4, <3>8
    <3> HIDE DEF amount
    <3> QED BY <1>3, <1>7, <2>3, <3>2, <3>3, <3>4, <3>6, <3>7, <3>9, SettleRow
  <2> QED BY <2>2, <2>3
<1>10. CASE PayOut(r)
  <2>1. PayOutChecks(o, v) /\ PayOutEffect(r, o, v) /\ o.kind = "payout"
    BY <1>1, <1>10 DEF PayOut, Commits, Checks
  <2>2. CASE p # o.payable BY <1>3, <1>8, <2>1, <2>2 DEF PayOutEffect, TablesOK
  <2>3. CASE p = o.payable
    <3> DEFINE remaining == payable[p].remaining - o.part
    <3>1. p # None BY ConstantsAssumption
    <3>2. v.payable[p] = payable[p] /\ source[p] = "COMPLETED" /\ o.part <= payable[p].remaining
      BY <1>6, <2>1, <2>3, <3>1 DEF PayOutChecks
    <3>3. payable[p].status \notin Void BY <1>3, <3>2 DEF RowOK
    <3>4. Larger(0, payable[p].remaining - o.part) = remaining BY <1>4, <1>5, <3>2 DEF Larger
    <3>5. payable'[p] = [payable[p] EXCEPT !.paid = payable[p].paid + o.part, !.remaining = remaining,
                                           !.status = StatusFor(remaining)]
      BY <1>3, <2>1, <2>3, <3>1, <3>2, <3>4 DEF PayOutEffect, TablesOK
    <3>6. source' = source BY <2>1 DEF PayOutEffect
    <3>7. o.part \in Int /\ o.part >= 0 /\ source[p] # "ABSENT" BY <1>4, <3>2
    <3> QED BY <1>3, <3>2, <3>3, <3>5, <3>6, <3>7, SettleRow
  <2> QED BY <2>2, <2>3
<1>11. CASE Match(r)
  <2>1. MatchChecks(o, v) /\ MatchEffect(r, o, v) /\ o.kind = "match" /\ o.payable \in Payables
    BY <1>1, <1>2, <1>11 DEF Match, Commits, Checks, CallOK
  <2>2. CASE p # o.payable BY <1>3, <1>8, <2>1, <2>2 DEF MatchEffect, TablesOK
  <2>3. CASE p = o.payable
    <3> DEFINE remaining == payable[p].remaining - o.amount
    <3>1. v.payable[p] = payable[p] BY <1>6, <2>1, <2>3
    <3>2. o.amount <= payable[p].remaining /\ payable[p].status \notin Void
      BY <1>4, <1>5, <2>1, <2>3, <3>1 DEF MatchChecks, Void
    <3>3. payable'[p] = [payable[p] EXCEPT !.paid = payable[p].paid + o.amount, !.remaining = remaining,
                                           !.status = StatusFor(remaining)]
      BY <1>3, <2>1, <2>3, <3>1 DEF MatchEffect, TablesOK
    <3>4. source' = source BY <2>1 DEF MatchEffect
    <3>5. o.amount \in Int /\ o.amount >= 0 BY <1>4
    <3> QED BY <1>3, <1>7, <2>3, <3>2, <3>3, <3>4, <3>5, SettleRow
  <2> QED BY <2>2, <2>3
<1>12. CASE Unmatch(r)
  <2>1. UnmatchChecks(o, v) /\ UnmatchEffect(r, o, v) /\ o.kind = "unmatch" /\ o.payable \in Payables
    BY <1>1, <1>2, <1>12 DEF Unmatch, Commits, Checks, CallOK
  <2>2. CASE p # o.payable BY <1>3, <1>8, <2>1, <2>2 DEF UnmatchEffect, TablesOK
  <2>3. CASE p = o.payable
    <3> DEFINE amount == v.entry.matched[p]
               remaining == payable[p].remaining + amount
    <3>1. v.payable[p] = payable[p] BY <1>6, <2>1, <2>3
    <3>2. amount \in Int BY <1>2 DEF View, Document
    <3>3. amount > 0 /\ amount <= payable[p].paid /\ payable[p].status \notin Void
      <4>1. payable[p].paid \in Int BY <1>4 DEF PayableRow
      <4> QED BY <2>1, <2>3, <3>1, <3>2, <4>1 DEF UnmatchChecks
    <3>4. payable'[p] = [payable[p] EXCEPT !.paid = payable[p].paid - amount, !.remaining = remaining,
                                           !.status = "OPEN"]
      BY <1>3, <2>1, <2>3, <3>1 DEF UnmatchEffect, TablesOK
    <3>5. source' = source BY <2>1 DEF UnmatchEffect
    <3> HIDE DEF amount
    <3> QED BY <1>3, <1>7, <2>3, <3>2, <3>3, <3>4, <3>5, UnsettleRow
  <2> QED BY <2>2, <2>3
<1>13. CASE Apply(r)
  <2>1. ApplyChecks(o, v) /\ ApplyEffect(r, o, v) /\ o.kind = "apply" /\ o.payable \in Payables
    BY <1>1, <1>2, <1>13 DEF Apply, Commits, Checks, CallOK
  <2>2. CASE p # o.payable BY <1>3, <1>8, <2>1, <2>2 DEF ApplyEffect, TablesOK
  <2>3. CASE p = o.payable
    <3> DEFINE remaining == payable[p].remaining - o.amount
    <3>1. v.payable[p] = payable[p] BY <1>6, <2>1, <2>3
    <3>2. o.amount <= payable[p].remaining /\ payable[p].status \notin Void
      BY <1>4, <1>5, <2>1, <2>3, <3>1 DEF ApplyChecks, Void
    <3>3. Larger(0, payable[p].remaining - o.amount) = remaining BY <1>4, <1>5, <3>2 DEF Larger
    <3>4. payable'[p] = [payable[p] EXCEPT !.offset = payable[p].offset + o.amount, !.remaining = remaining,
                                           !.status = StatusFor(remaining)]
      BY <1>3, <2>1, <2>3, <3>1, <3>3 DEF ApplyEffect, TablesOK
    <3>5. source' = source BY <2>1 DEF ApplyEffect
    <3>6. o.amount \in Int /\ o.amount >= 0 BY <1>4
    <3> QED BY <1>3, <1>7, <2>3, <3>2, <3>4, <3>5, <3>6, SettleRow
  <2> QED BY <2>2, <2>3
<1>14. CASE Unapply(r)
  <2>1. UnapplyChecks(o, v) /\ UnapplyEffect(r, o, v) /\ o.kind = "unapply" /\ o.payable \in Payables
    BY <1>1, <1>2, <1>14 DEF Unapply, Commits, Checks, CallOK
  <2>2. CASE p # o.payable BY <1>3, <1>8, <2>1, <2>2 DEF UnapplyEffect, TablesOK
  <2>3. CASE p = o.payable
    <3> DEFINE amount == v.doc.amount
               remaining == payable[p].remaining + amount
    <3>1. v.payable[p] = payable[p] BY <1>6, <2>1, <2>3
    <3>2. amount \in Int BY <1>2 DEF View, Document
    <3>3. amount > 0
      <4>1. Plan(o, v) = AdvancePlan(o, {"doc", "entry"}) BY <2>1 DEF Plan
      <4>2. stage[r] > 3
        <5>1. Len(Plan(o, v)) = 3 BY <4>1 DEF AdvancePlan
        <5>2. stage[r] = Len(PlanOf(r)) + 1 BY <1>1, CallFacts
        <5> QED BY <5>1, <5>2 DEF PlanOf
      <4>3. SessionOK(r) BY <1>1 DEF Shape, SessionsOK
      <4>4. v.doc.kind = "offset" BY <2>1, <4>2, <4>3 DEF SessionOK
      <4> QED BY <4>4 DEF Shape, DocumentsOK, DocumentOK
    <3>4. amount <= payable[p].offset /\ payable[p].status \notin Void
      <4>1. payable[p].offset \in Int BY <1>4 DEF PayableRow
      <4> QED BY <2>1, <2>3, <3>1, <3>2, <4>1 DEF UnapplyChecks
    <3>5. payable'[p] = [payable[p] EXCEPT !.offset = payable[p].offset - amount, !.remaining = remaining,
                                           !.status = "OPEN"]
      BY <1>3, <2>1, <2>3, <3>1 DEF UnapplyEffect, TablesOK
    <3>6. source' = source BY <2>1 DEF UnapplyEffect
    <3> HIDE DEF amount
    <3> QED BY <1>3, <1>7, <2>3, <3>2, <3>3, <3>4, <3>5, <3>6, UnsettleRow
  <2> QED BY <2>2, <2>3
<1>15. CASE Cancel(r) \/ ReverseSource(r)
  <2>1. PICK status \in {"CANCELLED", "REVERSED"} : VoidEffect(o.payable, status)
    BY <1>15 DEF Cancel, ReverseSource, CancelEffect, ReverseSourceEffect
  <2>2. o.kind \in {"cancel", "reverseSource"} /\ o.payable \in Payables /\ VoidChecks(o, v)
    BY <1>1, <1>2, <1>15 DEF Cancel, ReverseSource, Commits, Checks, CancelChecks, ReverseSourceChecks, CallOK
  <2>3. CASE p # o.payable BY <1>3, <1>8, <2>1, <2>3 DEF VoidEffect, TablesOK
  <2>4. CASE p = o.payable
    <3>1. payable[p].paid = 0 /\ payable[p].offset = 0 BY <1>6, <2>2, <2>4 DEF VoidChecks
    <3>2. payable'[p] = [payable[p] EXCEPT !.status = status, !.remaining = 0] /\ source'[p] = "REVERSED"
      BY <1>3, <2>1, <2>4 DEF VoidEffect, TablesOK
    <3>3. /\ payable'[p].paid = 0 /\ payable'[p].offset = 0 /\ payable'[p].remaining = 0
          /\ payable'[p].status = status
      BY <1>4, <3>1, <3>2 DEF PayableRow
    <3> QED BY <3>2, <3>3 DEF RowOK, Void
  <2> QED BY <2>3, <2>4
<1>16. CASE ReverseEntry(r)
  <2> DEFINE m == v.entry.matched[p]
             paid == Larger(0, v.payable[p].paid - m)
             remaining == Larger(0, Original[p] - paid - v.payable[p].offset)
  <2>1. o.kind = "reverseEntry" /\ source' = source
    BY <1>16 DEF ReverseEntry, Commits, ReverseEntryEffect
  <2>2. payable'[p] = IF m > 0 THEN [payable[p] EXCEPT !.paid = paid, !.remaining = remaining,
                                                      !.status = StatusFor(remaining)]
                      ELSE payable[p]
    BY <1>16 DEF ReverseEntry, ReverseEntryEffect
  <2>3. CASE ~(m > 0) BY <1>8, <2>1, <2>2, <2>3
  <2>4. CASE m > 0 /\ source[p] = "ABSENT" BY <2>1, <2>4 DEF RowOK
  <2>5. CASE m > 0 /\ source[p] # "ABSENT"
    <3>1. v.payable[p] = payable[p] BY <1>6, <2>1, <2>5 DEF MatchedPayables
    <3>2. m \in Int BY <1>2 DEF View, Document
    <3>3. payable[p].paid \in Int /\ payable[p].offset \in Int BY <1>4 DEF PayableRow
    <3>4. payable[p].paid >= 0 /\ payable[p].offset >= 0 /\ payable[p].paid + payable[p].offset <= Original[p]
      <4>1. CASE payable[p].status \in Void
        <5>1. Original[p] > 0 BY ConstantsAssumption
        <5> QED BY <1>3, <1>4, <2>5, <4>1, <5>1 DEF RowOK
      <4>2. CASE payable[p].status \notin Void BY <1>3, <1>4, <1>5, <2>5, <3>3, <4>2 DEF RowOK
      <4> QED BY <4>1, <4>2
    <3>5. paid \in Int /\ 0 <= paid /\ paid <= payable[p].paid
      <4> HIDE DEF m
      <4> QED BY <2>5, <3>1, <3>2, <3>3, <3>4 DEF Larger
    <3> HIDE DEF paid
    <3>6. /\ remaining = Original[p] - paid - payable[p].offset
          /\ remaining \in Int /\ remaining >= 0
      BY <1>4, <3>1, <3>3, <3>4, <3>5 DEF Larger
    <3> HIDE DEF remaining
    <3>7. StatusFor(remaining) \notin Void /\ (StatusFor(remaining) = "PAID" <=> remaining = 0)
      BY <3>6 DEF StatusFor, Void
    <3>8. /\ payable'[p].paid = paid /\ payable'[p].offset = payable[p].offset
          /\ payable'[p].remaining = remaining /\ payable'[p].status = StatusFor(remaining)
      BY <1>4, <2>2, <2>5 DEF PayableRow
    <3>9. paid + payable[p].offset + remaining = Original[p] BY <1>4, <3>3, <3>5, <3>6
    <3> QED BY <3>4, <3>5, <3>6, <3>7, <3>8, <3>9 DEF RowOK
  <2> QED BY <2>3, <2>4, <2>5
<1>17. CASE Receive(r) \/ ReverseReceipt(r)
  <2>1. UNCHANGED <<payable, source>>
    BY <1>17 DEF Receive, ReverseReceipt, ReceiveEffect, ReverseReceiptEffect
  <2> QED BY <1>8, <2>1
<1> QED
  BY <1>9, <1>10, <1>11, <1>12, <1>13, <1>14, <1>15, <1>16, <1>17 DEF Commit

(* A new swipe is wholly owed.                                             *)
LEMMA RowsRecordSwipe ==
  ASSUME Shape, RowsOK, NEW q \in Payables, RecordSwipe(q), NEW p \in Payables
  PROVE  RowOK(p)'
<1>1. payable \in [Payables -> PayableRow] /\ NoPayableRow \in PayableRow /\ Original[q] \in Nat \ {0}
  BY RowTypes, ConstantsAssumption DEF Shape, TypeOK
<1>2. CASE p # q
  <2>1. payable'[p] = payable[p] /\ source'[p] = source[p] BY <1>1, <1>2 DEF RecordSwipe, Shape, TypeOK
  <2> QED BY <2>1 DEF RowsOK, RowOK
<1>3. CASE p = q
  <2>1. payable'[p] = [NoPayableRow EXCEPT !.remaining = Original[q]] BY <1>1, <1>3 DEF RecordSwipe
  <2>2. /\ payable'[p].paid = 0 /\ payable'[p].offset = 0
        /\ payable'[p].remaining = Original[q] /\ payable'[p].status = "OPEN"
    BY <2>1 DEF NoPayableRow
  <2>3. "OPEN" \notin Void BY DEF Void
  <2> QED BY <1>1, <1>3, <2>2, <2>3 DEF RowOK
<1> QED BY <1>2, <1>3

LEMMA RowsNext ==
  ASSUME "reversePayment" \notin Workload
  PROVE  Shape /\ LockedViewsFresh /\ RowsOK /\ [Next]_vars => RowsOK'
<1> SUFFICES ASSUME Shape, LockedViewsFresh, RowsOK, [Next]_vars, NEW p \in Payables
             PROVE  RowOK(p)'
  BY DEF RowsOK
<1>1. UNCHANGED <<payable, source>> => RowOK(p)' BY DEF RowsOK, RowOK
<1>2. CASE \E q \in Payables : RecordSwipe(q) BY <1>2, RowsRecordSwipe
<1>3. CASE \E r \in Requests : Begin(r) BY <1>1, <1>3 DEF Begin
<1>4. CASE \E r \in Requests : Advance(r) BY <1>1, <1>4 DEF Advance
<1>5. CASE \E r \in Requests : Reject(r) \/ Abort(r) BY <1>1, <1>5 DEF Reject, Abort, tables
<1>6. ASSUME NEW r \in Requests, Commit(r) PROVE RowOK(p)'
  <2>1. op[r].kind \in Workload BY <1>6, CommitEnds DEF Shape, SessionsOK, SessionOK
  <2>2. ~ReversePayment(r) BY <2>1 DEF ReversePayment, Commits
  <2> QED BY <1>6, <2>2, RowsCommit
<1>7. CASE UNCHANGED vars BY <1>1, <1>7 DEF vars
<1> QED BY <1>2, <1>3, <1>4, <1>5, <1>6, <1>7 DEF Next

LEMMA RowsInitially == Init => RowsOK
BY DEF Init, RowsOK, RowOK

(* Whatever is paid, matched, applied, taken back, cancelled and reversed  *)
(* concurrently, no paisa of a live payable is lost or counted twice:      *)
(* original = paid + offset + remaining, none of them negative, and it is  *)
(* PAID exactly when nothing remains.  Reversing a payout is left out: it  *)
(* reads the payable without locking it.                                   *)
THEOREM ConservationInvariant ==
  ASSUME "reversePayment" \notin Workload
  PROVE  Spec => []Conservation
<1> DEFINE Inv == Shape /\ LocksHeld /\ LockedViewsFresh /\ RowsOK
<1>1. Init => Inv BY ShapeInit, LocksInitially, FreshInitially, RowsInitially
<1>2. Inv /\ [Next]_vars => Inv' BY ShapeNext, LocksNext, FreshNext, RowsNext
<1>3. Inv => Conservation BY DEF RowsOK, RowOK, Conservation
<1> HIDE DEF Inv
<1> QED BY <1>1, <1>2, <1>3, PTL DEF Spec

---------------------------------------------------------------------------
(* Money: what calls and documents carry.                                  *)

(* A call carries what its form asks for, and goes on naming the Pay Out   *)
(* and the account of the document that it undoes.                         *)
CallAgrees(o) ==
    /\ o.kind \in {"pay", "payout", "match", "apply", "receive"} => o.amount > 0
    /\ o.kind = "payout" => o.part <= o.amount /\ (o.payable = None => o.part = 0)
    /\ o.kind = "unapply" => doc[o.target].entry = o.entry
    /\ o.kind = "reverseReceipt" => doc[o.target].account = o.account

CallsAgree == \A r \in Requests : Running(r) => CallAgrees(op[r])

(* A payout in notes differs from what it settles by half a rupee at most. *)
Rounded(d) ==
    d.amount # d.cash =>
        /\ d.account \in CashAccounts
        /\ -Rupee <= 2 * (d.amount - d.cash) /\ 2 * (d.amount - d.cash) <= Rupee

(* The amounts of a document are those of a document of its kind.          *)
DocumentSound(d) ==
    /\ d.kind = "payment" => d.amount > 0 /\ d.cash > 0 /\ Rounded(d)
    /\ d.kind = "payout" => /\ d.toPayable + d.toReceivable = d.cash /\ d.cash > 0
                            /\ \A p \in Payables : d.matched[p] >= 0
    /\ d.kind = "receipt" => d.cash = d.amount /\ d.amount > 0

DocumentsSound ==
    \A r \in Requests : /\ DocumentSound(doc[r])
                        /\ DocumentSound(view[r].doc) /\ DocumentSound(view[r].entry)

(* What is read of a row without taking its own lock, and nevertheless     *)
(* stands: a Pay Out under the lock of its transaction, an advance under   *)
(* that of the Pay Out it was taken from, a swipe under its own; and the   *)
(* money in a locked account can only have become more.                    *)
ReadStands(r) ==
    /\ op[r].kind = "reverseEntry" /\ stage[r] > 1 => view[r].entry = doc[op[r].entry]
    /\ op[r].kind = "unapply" /\ stage[r] > 3 => view[r].doc = doc[op[r].target]
    /\ op[r].kind = "reverseSource" /\ stage[r] > 1 => view[r].source = source[op[r].payable]
    /\ \A i \in 1..Len(PlanOf(r)) : i < stage[r] /\ "funds" \in PlanOf(r)[i].look =>
         view[r].funds <= ledger[op[r].account]

ReadsStand == \A r \in Requests : Running(r) => ReadStands(r)

---------------------------------------------------------------------------
(* Steps, seen from one session.                                           *)

(* A session that runs after a step was left alone by it, or has taken it. *)
LEMMA SessionSteps ==
  ASSUME Shape, [Next]_vars, NEW s \in Requests, Running(s)'
  PROVE  \/ Running(s) /\ op'[s] = op[s] /\ view'[s] = view[s] /\ stage'[s] = stage[s]
         \/ Begin(s)
         \/ Advance(s)
<1>1. CASE UNCHANGED vars BY <1>1 DEF vars, Running
<1>2. CASE \E p \in Payables : RecordSwipe(p) BY <1>2 DEF RecordSwipe, Running
<1>3. CASE \E r \in Requests : Begin(r)
  <2>1. PICK r \in Requests : Begin(r) BY <1>3
  <2>2. CASE r # s BY <2>1, <2>2 DEF Begin, Shape, TypeOK, Running
  <2> QED BY <2>1, <2>2
<1>4. CASE \E r \in Requests : Advance(r)
  <2>1. PICK r \in Requests : Advance(r) BY <1>4
  <2>2. CASE r # s BY <2>1, <2>2, AdvanceFacts DEF Running
  <2> QED BY <2>1, <2>2
<1>5. CASE \E r \in Requests : Reject(r) \/ Abort(r) \/ Commit(r)
  <2>1. PICK r \in Requests, o \in {Idle, Done} : Finish(r, o) BY <1>5, CommitEnds DEF Reject, Abort
  <2>2. r # s /\ op'[s] = op[s] /\ view'[s] = view[s] /\ stage'[s] = stage[s] BY <2>1, FinishTypes
  <2> QED BY <2>2 DEF Running
<1> QED BY <1>1, <1>2, <1>3, <1>4, <1>5 DEF Next

(* The tables change when a swipe is recorded and when a call commits.     *)
LEMMA TableSteps ==
  ASSUME [Next]_vars
  PROVE  \/ UNCHANGED tables
         \/ \E p \in Payables : RecordSwipe(p)
         \/ \E r \in Requests : Commit(r)
<1>1. CASE UNCHANGED vars BY <1>1 DEF vars, tables
<1>2. CASE \E r \in Requests : Begin(r) \/ Advance(r) \/ Reject(r) \/ Abort(r)
  BY <1>2 DEF Begin, Advance, Reject, Abort, tables
<1> QED BY <1>1, <1>2 DEF Next

(* A recorded document keeps its kind and the rows it names.               *)
LEMMA DocumentStays ==
  ASSUME Shape, [Next]_vars, NEW d \in Requests, doc[d].kind # "none"
  PROVE  /\ doc'[d].kind = doc[d].kind /\ doc'[d].payable = doc[d].payable
         /\ doc'[d].account = doc[d].account /\ doc'[d].entry = doc[d].entry
<1>1. CASE UNCHANGED tables BY <1>1 DEF tables
<1>2. CASE \E p \in Payables : RecordSwipe(p) BY <1>2 DEF RecordSwipe
<1>3. ASSUME NEW r \in Requests, Commit(r)
      PROVE  /\ doc'[d].kind = doc[d].kind /\ doc'[d].payable = doc[d].payable
             /\ doc'[d].account = doc[d].account /\ doc'[d].entry = doc[d].entry
  <2>1. doc[r].kind = "none" BY <1>3, CommitEnds DEF Shape, DocumentsOK, Running, Kinds
  <2>2. SameDocuments(r) BY <1>3, CommitDocuments
  <2> QED BY <2>1, <2>2 DEF SameDocuments
<1> QED BY <1>1, <1>2, <1>3, TableSteps

---------------------------------------------------------------------------
(* Calls.                                                                  *)

\* What the plan of a call names agrees with its own documents.
LEMMA CallsNamed ==
  ASSUME Shape, NEW o \in Calls, WellFormed(o)
  PROVE  CallAgrees(o)
<1> DEFINE recorded == {p \in Payables : source[p] # "ABSENT"}
           made(kind) == {e \in Requests : doc[e].kind = kind}
<1>1. None \notin Payables /\ \A n \in Amounts : n \in Nat /\ n > 0 BY ConstantsAssumption
<1> USE DEF Call, CallAgrees, WellFormed
<1>3. CASE o \in {Call("pay", p, a, n, 0, None, None) : p \in recorded, a \in Accounts, n \in Amounts}
  BY <1>1, <1>3
<1>4. CASE o \in {Call("payout", None, a, n, 0, None, None) : a \in Accounts, n \in Amounts}
  BY <1>1, <1>4
<1>5. CASE o \in {Call("payout", p, a, n, m, None, None) :
                   p \in recorded, a \in Accounts, n \in Amounts, m \in Amounts}
  BY <1>1, <1>5
<1>6. CASE o \in {Call(k, p, None, n, 0, e, None) : k \in {"match", "apply"},
                   p \in recorded, n \in Amounts, e \in made("payout")}
  BY <1>1, <1>6
<1>7. CASE o \in {Call("unmatch", p, None, 0, 0, e, None) : p \in recorded, e \in made("payout")}
  BY <1>1, <1>7
<1>8. CASE o \in {Call("unapply", doc[d].payable, None, 0, 0, doc[d].entry, d) : d \in made("offset")}
  BY <1>1, <1>8
<1>9. CASE o \in {Call(k, p, None, 0, 0, None, None) : k \in {"cancel", "reverseSource"}, p \in recorded}
  BY <1>1, <1>9
<1>10. CASE o \in {Call("reversePayment", doc[d].payable, None, 0, 0, None, d) : d \in made("payment")}
  BY <1>1, <1>10
<1>11. CASE o \in {Call("reverseEntry", None, None, 0, 0, e, None) : e \in made("payout")}
  BY <1>1, <1>11
<1>12. CASE o \in {Call("receive", p, a, n, 0, None, None) :
                    p \in recorded, a \in Accounts \ CashAccounts, n \in Amounts}
  BY <1>1, <1>12
<1>13. CASE o \in {Call("reverseReceipt", doc[d].payable, doc[d].account, 0, 0, None, d) :
                    d \in made("receipt")}
  BY <1>1, <1>13
<1> QED BY <1>3, <1>4, <1>5, <1>6, <1>7, <1>8, <1>9, <1>10, <1>11, <1>12, <1>13 DEF Calls

\* No step makes a call name a document of another kind than it did.
LEMMA CallsAgreeNext == Shape /\ CallsAgree /\ [Next]_vars => CallsAgree'
<1> SUFFICES ASSUME Shape, CallsAgree, [Next]_vars, NEW s \in Requests, Running(s)'
             PROVE  CallAgrees(op[s])'
  BY DEF CallsAgree
<1>1. ASSUME Running(s), op'[s] = op[s] PROVE CallAgrees(op[s])'
  <2>1. CallAgrees(op[s]) /\ CallOK(op[s]) BY <1>1, CallFacts DEF CallsAgree
  <2>2. op[s].kind \in {"unapply", "reverseReceipt"} =>
          /\ op[s].target \in Requests /\ doc[op[s].target].kind # "none"
          /\ doc'[op[s].target].entry = doc[op[s].target].entry
          /\ doc'[op[s].target].account = doc[op[s].target].account
    BY <2>1, DocumentStays DEF CallOK
  <2> QED BY <1>1, <2>1, <2>2 DEF CallAgrees
<1>2. CASE Begin(s)
  <2>1. PICK o \in Calls : WellFormed(o) /\ op' = [op EXCEPT ![s] = o] BY <1>2 DEF Begin
  <2>2. op'[s] = o /\ doc' = doc BY <1>2, <2>1 DEF Begin, Shape, TypeOK
  <2>3. CallAgrees(o) BY <2>1, CallsNamed
  <2> QED BY <2>2, <2>3 DEF CallAgrees
<1>3. CASE Advance(s) BY <1>1, <1>3 DEF Advance
<1> QED BY <1>1, <1>2, <1>3, SessionSteps

---------------------------------------------------------------------------
(* Documents.                                                              *)

(* The nearest whole rupee is at most half a rupee away.                   *)
LEMMA NearestIsNear ==
  ASSUME NEW n \in Int
  PROVE  /\ Nearest(n) \in Int
         /\ -Rupee <= 2 * (n - Nearest(n)) /\ 2 * (n - Nearest(n)) <= Rupee
         /\ Nearest(n) > 0 => n > 0
<1>1. Rupee \in Nat /\ Rupee > 0 BY ConstantsAssumption
<1> DEFINE m == 2 * n + Rupee
           k == 2 * Rupee
           q == m \div k
<1>2. m \in Int /\ k \in Nat /\ k > 0 BY <1>1
<1> HIDE DEF m, k
<1>3. q \in Int /\ m % k \in 0..(k - 1) /\ m = k * q + (m % k) BY <1>2
<1> DEFINE near == q * Rupee
<1>4. Nearest(n) = near BY DEF Nearest, m, k
<1> HIDE DEF q
<1>5. near \in Int /\ k * q = 2 * near BY <1>1, <1>3 DEF k
<1>6. near > 0 => near >= Rupee
  <2>1. near > 0 => q >= 1 BY <1>1, <1>3
  <2>2. q >= 1 => near >= Rupee BY <1>1, <1>3
  <2> QED BY <2>1, <2>2
<1> HIDE DEF near
<1>7. 2 * near <= 2 * n + Rupee /\ 2 * n + Rupee <= 2 * near + 2 * Rupee
  <2>1. 2 * n + Rupee = 2 * near + (m % k) BY <1>3, <1>5 DEF m
  <2>2. m % k \in Int /\ 0 <= m % k /\ m % k <= 2 * Rupee BY <1>1, <1>2, <1>3 DEF k
  <2> DEFINE rest == m % k
  <2> HIDE DEF rest
  <2>3. rest \in Int /\ 0 <= rest /\ rest <= 2 * Rupee /\ 2 * n + Rupee = 2 * near + rest
    BY <2>1, <2>2 DEF rest
  <2> QED BY <1>1, <1>5, <2>3
<1> QED BY <1>1, <1>4, <1>5, <1>6, <1>7

(* What a payout settles is what it pays, or all that remains and then not *)
(* far from it.                                                            *)
LEMMA SettledIsNear ==
  ASSUME NEW o \in Operation, NEW v \in View, o.payable \in Payables, o.amount > 0
  PROVE  LET amount == Settled(o, v)
             open == v.payable[o.payable].remaining
         IN  /\ amount \in Int /\ amount > 0 /\ open \in Int
             /\ amount # o.amount =>
                  /\ amount = open /\ o.account \in CashAccounts
                  /\ -Rupee <= 2 * (amount - o.amount) /\ 2 * (amount - o.amount) <= Rupee
<1> DEFINE amount == Settled(o, v)
           open == v.payable[o.payable].remaining
<1>1. open \in Int /\ o.amount \in Nat BY DEF View, PayableRow, Operation
<1>2. amount = o.amount + (IF o.account \in CashAccounts /\ o.amount % Rupee = 0 /\ Nearest(open) = o.amount
                           THEN open - o.amount ELSE 0)
  BY DEF Settled, CashPayoutRounding
<1>3. /\ -Rupee <= 2 * (open - Nearest(open)) /\ 2 * (open - Nearest(open)) <= Rupee
      /\ Nearest(open) > 0 => open > 0
  BY <1>1, NearestIsNear
<1> HIDE DEF amount, open
<1>4. CASE o.account \in CashAccounts /\ o.amount % Rupee = 0 /\ Nearest(open) = o.amount
  <2>1. amount = open BY <1>1, <1>2, <1>4
  <2> QED BY <1>1, <1>3, <1>4, <2>1 DEF amount, open
<1>5. CASE ~(o.account \in CashAccounts /\ o.amount % Rupee = 0 /\ Nearest(open) = o.amount)
  <2>1. amount = o.amount BY <1>1, <1>2, <1>5
  <2> QED BY <1>1, <2>1 DEF amount, open
<1> QED BY <1>4, <1>5

---------------------------------------------------------------------------
(* What each operation records, field by field.                            *)

(* A document of this kind has just been recorded: nothing of it is used.  *)
Recorded(d, kind, p, a, e, amount, cash) ==
    /\ d \in Document /\ d.kind = kind /\ d.payable = p /\ d.account = a /\ d.entry = e
    /\ d.amount = amount /\ d.cash = cash /\ d.applied = 0 /\ d.status = "COMPLETED"

(* d is c but for what the operations change of a document later.          *)
SameTerms(d, c) ==
    /\ d.kind = c.kind /\ d.payable = c.payable /\ d.account = c.account /\ d.entry = c.entry
    /\ d.amount = c.amount /\ d.cash = c.cash
    /\ d.toPayable = c.toPayable /\ d.toReceivable = c.toReceivable

(* A payout on a payable.                                                  *)
LEMMA PayRecords ==
  ASSUME TablesOK, NEW r \in Requests, NEW o \in Operation, NEW v \in View,
         o.payable \in Payables, o.account \in Accounts, PayEffect(r, o, v)
  PROVE  /\ Recorded(doc'[r], "payment", o.payable, o.account, None, Settled(o, v), o.amount)
         /\ \A p \in Payables : doc'[r].matched[p] = 0
         /\ \A d \in Requests \ {r} : doc'[d] = doc[d]
         /\ Post(PaymentJournal(doc'[r]))
<1> DEFINE new == [NoDocument EXCEPT !.kind = "payment", !.payable = o.payable, !.account = o.account,
                                     !.amount = Settled(o, v), !.cash = o.amount]
<1>1. doc' = [doc EXCEPT ![r] = new] /\ Post(PaymentJournal(new)) BY DEF PayEffect
<1>2. doc' \in [Requests -> Document] BY PayTypes DEF TablesOK
<1>3. /\ new.kind = "payment" /\ new.payable = o.payable /\ new.account = o.account /\ new.entry = None
      /\ new.amount = Settled(o, v) /\ new.cash = o.amount /\ new.applied = 0
      /\ new.status = "COMPLETED" /\ new.matched = [p \in Payables |-> 0]
  BY DEF NoDocument
<1> HIDE DEF new
<1>4. doc'[r] = new /\ \A d \in Requests \ {r} : doc'[d] = doc[d] BY <1>1 DEF TablesOK
<1> QED BY <1>1, <1>2, <1>3, <1>4 DEF Recorded

(* A Pay Out of the customer: what it settles and what it advances.        *)
LEMMA PayOutRecords ==
  ASSUME TablesOK, NEW r \in Requests, NEW o \in Operation, NEW v \in View,
         o.account \in Accounts, PayOutEffect(r, o, v)
  PROVE  /\ Recorded(doc'[r], "payout", None, o.account, None, o.amount, o.amount)
         /\ doc'[r].toPayable = o.part + GenericPayable(o, v)
         /\ doc'[r].toReceivable = o.amount - o.part - GenericPayable(o, v)
         /\ \A p \in Payables : doc'[r].matched[p] = IF p = o.payable THEN o.part ELSE 0
         /\ \A d \in Requests \ {r} : doc'[d] = doc[d]
         /\ Post(PayOutJournal(doc'[r]))
<1> DEFINE new == [NoDocument EXCEPT !.kind = "payout", !.account = o.account,
                     !.amount = o.amount, !.cash = o.amount,
                     !.toPayable = o.part + GenericPayable(o, v),
                     !.toReceivable = o.amount - o.part - GenericPayable(o, v),
                     !.matched = [p \in Payables |-> IF p = o.payable THEN o.part ELSE 0]]
<1>1. doc' = [doc EXCEPT ![r] = new] /\ Post(PayOutJournal(new)) BY DEF PayOutEffect
<1>2. doc' \in [Requests -> Document] BY PayOutTypes DEF TablesOK
<1>3. /\ new.kind = "payout" /\ new.payable = None /\ new.account = o.account /\ new.entry = None
      /\ new.amount = o.amount /\ new.cash = o.amount /\ new.applied = 0
      /\ new.status = "COMPLETED"
      /\ new.matched = [p \in Payables |-> IF p = o.payable THEN o.part ELSE 0]
      /\ new.toPayable = o.part + GenericPayable(o, v)
      /\ new.toReceivable = o.amount - o.part - GenericPayable(o, v)
  BY DEF NoDocument
<1> HIDE DEF new
<1>4. doc'[r] = new /\ \A d \in Requests \ {r} : doc'[d] = doc[d] BY <1>1 DEF TablesOK
<1> QED BY <1>1, <1>2, <1>3, <1>4 DEF Recorded

(* A receipt from the provider.                                            *)
LEMMA ReceiveRecords ==
  ASSUME TablesOK, NEW r \in Requests, NEW o \in Operation, NEW v \in View,
         o.payable \in Payables, o.account \in Accounts, ReceiveEffect(r, o, v)
  PROVE  /\ Recorded(doc'[r], "receipt", o.payable, o.account, None, o.amount, o.amount)
         /\ \A p \in Payables : doc'[r].matched[p] = 0
         /\ \A d \in Requests \ {r} : doc'[d] = doc[d]
         /\ Post(ReceiptJournal(doc'[r]))
<1> DEFINE new == [NoDocument EXCEPT !.kind = "receipt", !.payable = o.payable, !.account = o.account,
                                     !.amount = o.amount, !.cash = o.amount]
<1>1. doc' = [doc EXCEPT ![r] = new] /\ Post(ReceiptJournal(new)) BY DEF ReceiveEffect
<1>2. doc' \in [Requests -> Document] BY ReceiveTypes DEF TablesOK
<1>3. /\ new.kind = "receipt" /\ new.payable = o.payable /\ new.account = o.account /\ new.entry = None
      /\ new.amount = o.amount /\ new.cash = o.amount /\ new.applied = 0
      /\ new.status = "COMPLETED" /\ new.matched = [p \in Payables |-> 0]
  BY DEF NoDocument
<1> HIDE DEF new
<1>4. doc'[r] = new /\ \A d \in Requests \ {r} : doc'[d] = doc[d] BY <1>1 DEF TablesOK
<1> QED BY <1>1, <1>2, <1>3, <1>4 DEF Recorded

(* A match and its undoing change what a Pay Out is matched to one swipe.  *)
LEMMA MatchRecords ==
  ASSUME TablesOK, NEW r \in Requests, NEW o \in Operation, NEW v \in View, NEW n \in Int,
         o.entry \in Requests, o.payable \in Payables,
         \/ MatchEffect(r, o, v) /\ n = o.amount
         \/ UnmatchEffect(r, o, v) /\ n = 0
  PROVE  /\ doc'[o.entry] \in Document /\ SameTerms(doc'[o.entry], doc[o.entry])
         /\ doc'[o.entry].applied = doc[o.entry].applied /\ doc'[o.entry].status = doc[o.entry].status
         /\ doc'[o.entry].matched[o.payable] = n
         /\ \A p \in Payables \ {o.payable} : doc'[o.entry].matched[p] = doc[o.entry].matched[p]
         /\ \A d \in Requests \ {o.entry} : doc'[d] = doc[d]
<1> DEFINE e == o.entry
           matched == [doc[e].matched EXCEPT ![o.payable] = n]
<1>1. doc' = [doc EXCEPT ![e].matched[o.payable] = n] BY DEF MatchEffect, UnmatchEffect
<1>2. doc[e] \in Document /\ doc'[e] = [doc[e] EXCEPT !.matched = matched] BY <1>1 DEF TablesOK
<1>3. \A d \in Requests \ {e} : doc'[d] = doc[d] BY <1>1 DEF TablesOK
<1>4. doc[e].matched \in [Payables -> Int] BY <1>2 DEF Document
<1>5. /\ matched \in [Payables -> Int] /\ matched[o.payable] = n
      /\ \A p \in Payables \ {o.payable} : matched[p] = doc[e].matched[p]
  BY <1>4
<1> HIDE DEF matched, e
<1>6. /\ doc'[e] \in Document /\ SameTerms(doc'[e], doc[e]) /\ doc'[e].matched = matched
      /\ doc'[e].applied = doc[e].applied /\ doc'[e].status = doc[e].status
  BY <1>2, <1>5 DEF Document, SameTerms
<1> QED BY <1>3, <1>5, <1>6 DEF e

(* A reversal changes the status of a document.                            *)
LEMMA ReversalRecords ==
  ASSUME NEW docs \in [Requests -> Document], NEW x \in Requests,
         doc' = [docs EXCEPT ![x].status = "REVERSED"]
  PROVE  /\ doc'[x] \in Document /\ SameTerms(doc'[x], docs[x])
         /\ doc'[x].applied = docs[x].applied /\ doc'[x].status = "REVERSED"
         /\ doc'[x].matched = docs[x].matched
         /\ \A d \in Requests \ {x} : doc'[d] = docs[d]
<1>1. docs[x] \in Document /\ doc'[x] = [docs[x] EXCEPT !.status = "REVERSED"] OBVIOUS
<1> QED BY <1>1 DEF Document, SameTerms

(* An advance uses part of a Pay Out.                                      *)
LEMMA ApplyRecords ==
  ASSUME TablesOK, NEW r \in Requests, NEW o \in Operation, NEW v \in View,
         o.payable \in Payables, o.entry \in Requests, o.entry # r, ApplyEffect(r, o, v)
  PROVE  /\ Recorded(doc'[r], "offset", o.payable, None, o.entry, o.amount, 0)
         /\ \A p \in Payables : doc'[r].matched[p] = 0
         /\ doc'[o.entry] \in Document /\ SameTerms(doc'[o.entry], doc[o.entry])
         /\ doc'[o.entry].applied = doc[o.entry].applied + o.amount
         /\ doc'[o.entry].status = doc[o.entry].status /\ doc'[o.entry].matched = doc[o.entry].matched
         /\ \A d \in Requests \ {r, o.entry} : doc'[d] = doc[d]
         /\ Post(OffsetJournal(doc'[r]))
<1> DEFINE new == [NoDocument EXCEPT !.kind = "offset", !.payable = o.payable,
                     !.entry = o.entry, !.amount = o.amount]
           n == doc[o.entry].applied + o.amount
           docs == [doc EXCEPT ![o.entry].applied = n]
<1>1. doc' = [docs EXCEPT ![r] = new] /\ Post(OffsetJournal(new)) BY DEF ApplyEffect
<1>2. doc' \in [Requests -> Document] BY ApplyTypes DEF TablesOK
<1>3. /\ new.kind = "offset" /\ new.payable = o.payable /\ new.account = None /\ new.entry = o.entry
      /\ new.amount = o.amount /\ new.cash = 0 /\ new.applied = 0
      /\ new.status = "COMPLETED" /\ new.matched = [p \in Payables |-> 0]
  BY DEF NoDocument
<1>4. n \in Int BY DEF TablesOK, Document, Operation
<1>used. doc[o.entry] \in Document /\ docs[o.entry] = [doc[o.entry] EXCEPT !.applied = n] BY DEF TablesOK
<1>same. DOMAIN docs = Requests /\ \A d \in Requests \ {o.entry} : docs[d] = doc[d] BY DEF TablesOK
<1>func. docs = [d \in Requests |-> docs[d]] BY DEF TablesOK
<1> HIDE DEF new, n, docs
<1>each. /\ docs[o.entry] \in Document /\ SameTerms(docs[o.entry], doc[o.entry])
         /\ docs[o.entry].applied = n /\ docs[o.entry].status = doc[o.entry].status
         /\ docs[o.entry].matched = doc[o.entry].matched
  BY <1>4, <1>used DEF Document, SameTerms
<1>5. /\ docs \in [Requests -> Document] /\ SameTerms(docs[o.entry], doc[o.entry])
      /\ docs[o.entry].applied = n /\ docs[o.entry].status = doc[o.entry].status
      /\ docs[o.entry].matched = doc[o.entry].matched
      /\ \A d \in Requests \ {o.entry} : docs[d] = doc[d]
  BY <1>each, <1>same, <1>func DEF TablesOK
<1>6. doc'[r] = new /\ \A d \in Requests \ {r} : doc'[d] = docs[d] BY <1>1, <1>5
<1> QED BY <1>1, <1>2, <1>3, <1>5, <1>6 DEF Recorded, n

(* Its reversal gives that part back.                                      *)
LEMMA UnapplyRecords ==
  ASSUME TablesOK, NEW r \in Requests, NEW o \in Operation, NEW v \in View,
         o.entry \in Requests, o.target \in Requests, o.entry # o.target, UnapplyEffect(r, o, v)
  PROVE  /\ doc'[o.target] \in Document /\ SameTerms(doc'[o.target], doc[o.target])
         /\ doc'[o.target].status = "REVERSED" /\ doc'[o.target].matched = doc[o.target].matched
         /\ doc'[o.entry] \in Document /\ SameTerms(doc'[o.entry], doc[o.entry])
         /\ doc'[o.entry].applied = doc[o.entry].applied - v.doc.amount
         /\ doc'[o.entry].status = doc[o.entry].status /\ doc'[o.entry].matched = doc[o.entry].matched
         /\ \A d \in Requests \ {o.target, o.entry} : doc'[d] = doc[d]
<1> DEFINE n == doc[o.entry].applied - v.doc.amount
           docs == [doc EXCEPT ![o.entry].applied = n]
<1>1. doc' = [docs EXCEPT ![o.target].status = "REVERSED"] BY DEF UnapplyEffect
<1>2. n \in Int BY DEF TablesOK, Document, View
<1>used. doc[o.entry] \in Document /\ docs[o.entry] = [doc[o.entry] EXCEPT !.applied = n] BY DEF TablesOK
<1>same. DOMAIN docs = Requests /\ \A d \in Requests \ {o.entry} : docs[d] = doc[d] BY DEF TablesOK
<1>func. docs = [d \in Requests |-> docs[d]] BY DEF TablesOK
<1> HIDE DEF n, docs
<1>each. /\ docs[o.entry] \in Document /\ SameTerms(docs[o.entry], doc[o.entry])
         /\ docs[o.entry].applied = n /\ docs[o.entry].status = doc[o.entry].status
         /\ docs[o.entry].matched = doc[o.entry].matched
  BY <1>2, <1>used DEF Document, SameTerms
<1>3. /\ docs \in [Requests -> Document] /\ SameTerms(docs[o.entry], doc[o.entry])
      /\ docs[o.entry].applied = n /\ docs[o.entry].status = doc[o.entry].status
      /\ docs[o.entry].matched = doc[o.entry].matched
      /\ \A d \in Requests \ {o.entry} : docs[d] = doc[d]
  BY <1>each, <1>same, <1>func DEF TablesOK
<1>4. /\ doc'[o.target] \in Document /\ SameTerms(doc'[o.target], docs[o.target])
      /\ doc'[o.target].status = "REVERSED" /\ doc'[o.target].matched = docs[o.target].matched
      /\ \A d \in Requests \ {o.target} : doc'[d] = docs[d]
  BY <1>1, <1>3, ReversalRecords
<1>5. docs[o.target] = doc[o.target] /\ doc'[o.entry] = docs[o.entry] BY <1>3, <1>4
<1> QED BY <1>3, <1>4, <1>5 DEF n

---------------------------------------------------------------------------
(* The amounts of the documents stay sound.                                *)

(* Soundness does not depend on how much of a document has been used.      *)
LEMMA SoundSame ==
  ASSUME NEW c, NEW d, SameTerms(d, c), DocumentSound(c),
         c.kind = "payout" => \A p \in Payables : d.matched[p] >= 0
  PROVE  DocumentSound(d)
BY DEF SameTerms, DocumentSound, Rounded

(* What a document that has just been recorded must carry to be sound.     *)
LEMMA SoundRecorded ==
  ASSUME NEW d, NEW kind, NEW p, NEW a, NEW e, NEW amount \in Int, NEW cash \in Int,
         Recorded(d, kind, p, a, e, amount, cash), cash > 0 \/ kind = "offset",
         kind = "payment" => amount > 0 /\ Rounded(d),
         kind = "payout" => /\ d.toPayable + d.toReceivable = cash
                            /\ \A q \in Payables : d.matched[q] >= 0,
         kind = "receipt" => cash = amount
  PROVE  DocumentSound(d)
BY DEF Recorded, DocumentSound

\* Every document stays sound when an operation commits.
LEMMA SoundCommit ==
  ASSUME Shape, CallsAgree, DocumentsSound, NEW r \in Requests, Commit(r), NEW x \in Requests
  PROVE  DocumentSound(doc'[x])
<1> DEFINE o == op[r]
           v == view[r]
<1>1. Running(r) /\ AtEnd(r) /\ Checks(o, v) BY CommitEnds
<1>2. o \in Operation /\ v \in View /\ CallOK(o) /\ CallAgrees(o) BY <1>1, CallFacts DEF CallsAgree
<1>3. TablesOK /\ doc \in [Requests -> Document] BY ShapeTables DEF TablesOK
<1>4. DocumentSound(doc[x]) BY DEF DocumentsSound
<1>5. doc'[x] = doc[x] => DocumentSound(doc'[x]) BY <1>4
<1>none. doc[r].kind = "none" BY <1>1 DEF Shape, DocumentsOK, Running, Kinds
<1>6. o.amount \in Int /\ o.part \in Int /\ o.amount >= 0 /\ o.part >= 0 BY <1>2 DEF Operation
<1> HIDE DEF o, v
<1>7. CASE Pay(r)
  <2>1. PayEffect(r, o, v) /\ o.kind = "pay" BY <1>7 DEF Pay, Commits, o, v
  <2>2. o.payable \in Payables /\ o.account \in Accounts /\ o.amount > 0
    BY <1>2, <2>1 DEF CallOK, CallAgrees
  <2>3. /\ Recorded(doc'[r], "payment", o.payable, o.account, None, Settled(o, v), o.amount)
        /\ \A d \in Requests \ {r} : doc'[d] = doc[d]
    BY <1>2, <1>3, <2>1, <2>2, PayRecords
  <2> DEFINE amount == Settled(o, v)
  <2>4. /\ amount \in Int /\ amount > 0
        /\ amount # o.amount =>
             /\ o.account \in CashAccounts
             /\ -Rupee <= 2 * (amount - o.amount) /\ 2 * (amount - o.amount) <= Rupee
    BY <1>2, <2>2, SettledIsNear
  <2> HIDE DEF amount
  <2>5. Recorded(doc'[r], "payment", o.payable, o.account, None, amount, o.amount) BY <2>3 DEF amount
  <2>6. Rounded(doc'[r]) BY <2>4, <2>5 DEF Rounded, Recorded
  <2>7. DocumentSound(doc'[r]) BY <1>6, <2>2, <2>4, <2>5, <2>6, SoundRecorded
  <2> QED BY <1>5, <2>3, <2>7
<1>8. CASE PayOut(r)
  <2>1. PayOutEffect(r, o, v) /\ o.kind = "payout" BY <1>8 DEF PayOut, Commits, o, v
  <2>2. o.account \in Accounts /\ o.amount > 0 BY <1>2, <2>1 DEF CallOK, CallAgrees
  <2>3. /\ Recorded(doc'[r], "payout", None, o.account, None, o.amount, o.amount)
        /\ doc'[r].toPayable = o.part + GenericPayable(o, v)
        /\ doc'[r].toReceivable = o.amount - o.part - GenericPayable(o, v)
        /\ \A p \in Payables : doc'[r].matched[p] = IF p = o.payable THEN o.part ELSE 0
        /\ \A d \in Requests \ {r} : doc'[d] = doc[d]
    BY <1>2, <1>3, <2>1, <2>2, PayOutRecords
  <2>4. GenericPayable(o, v) \in Int
    <3>1. v.claim \in Int BY <1>2 DEF View
    <3> QED BY <1>6, <3>1 DEF GenericPayable, Larger, Smaller
  <2>5. doc'[r].toPayable + doc'[r].toReceivable = o.amount BY <1>6, <2>3, <2>4
  <2>6. \A p \in Payables : doc'[r].matched[p] >= 0 BY <1>6, <2>3
  <2>7. DocumentSound(doc'[r]) BY <1>6, <2>2, <2>3, <2>5, <2>6, SoundRecorded
  <2> QED BY <1>5, <2>3, <2>7
<1>9. CASE Receive(r)
  <2>1. ReceiveEffect(r, o, v) /\ o.kind = "receive" BY <1>9 DEF Receive, Commits, o, v
  <2>2. o.payable \in Payables /\ o.account \in Accounts /\ o.amount > 0
    BY <1>2, <2>1 DEF CallOK, CallAgrees
  <2>3. /\ Recorded(doc'[r], "receipt", o.payable, o.account, None, o.amount, o.amount)
        /\ \A d \in Requests \ {r} : doc'[d] = doc[d]
    BY <1>2, <1>3, <2>1, <2>2, ReceiveRecords
  <2>4. DocumentSound(doc'[r]) BY <1>6, <2>2, <2>3, SoundRecorded
  <2> QED BY <1>5, <2>3, <2>4
<1>10. CASE Match(r) \/ Unmatch(r)
  <2>1. o.entry \in Requests /\ o.payable \in Payables
    BY <1>2, <1>10 DEF Match, Unmatch, Commits, CallOK, o
  <2>2. PICK n \in Int : n >= 0 /\ \/ MatchEffect(r, o, v) /\ n = o.amount
                                   \/ UnmatchEffect(r, o, v) /\ n = 0
    <3>1. CASE Match(r) BY <1>6, <3>1 DEF Match, o, v
    <3>2. CASE Unmatch(r) BY <3>2 DEF Unmatch, o, v
    <3> QED BY <1>10, <3>1, <3>2
  <2>3. /\ SameTerms(doc'[o.entry], doc[o.entry])
        /\ doc'[o.entry].matched[o.payable] = n
        /\ \A p \in Payables \ {o.payable} : doc'[o.entry].matched[p] = doc[o.entry].matched[p]
        /\ \A d \in Requests \ {o.entry} : doc'[d] = doc[d]
    BY <1>2, <1>3, <2>1, <2>2, MatchRecords
  <2>4. CASE x = o.entry
    <3>2. \A p \in Payables : doc'[x].matched[p] = n \/ doc'[x].matched[p] = doc[x].matched[p]
      BY <2>3, <2>4
    <3>3. doc[x].kind = "payout" => \A p \in Payables : doc'[x].matched[p] >= 0
      BY <1>4, <2>2, <3>2 DEF DocumentSound
    <3> QED BY <1>4, <2>3, <2>4, <3>3, SoundSame
  <2> QED BY <1>5, <2>3, <2>4
<1>11. CASE Apply(r)
  <2>1. ApplyEffect(r, o, v) /\ o.kind = "apply" BY <1>11 DEF Apply, Commits, o, v
  <2>2. o.payable \in Payables /\ o.entry \in Requests /\ o.entry # r
    BY <1>2, <1>none, <2>1 DEF CallOK
  <2>3. /\ Recorded(doc'[r], "offset", o.payable, None, o.entry, o.amount, 0)
        /\ SameTerms(doc'[o.entry], doc[o.entry]) /\ doc'[o.entry].matched = doc[o.entry].matched
        /\ \A d \in Requests \ {r, o.entry} : doc'[d] = doc[d]
    BY <1>2, <1>3, <2>1, <2>2, ApplyRecords
  <2>4. CASE x = r BY <1>6, <2>3, <2>4, SoundRecorded
  <2>5. CASE x = o.entry
    <3>1. doc[x].kind = "payout" => \A p \in Payables : doc'[x].matched[p] >= 0
      BY <1>4, <2>3, <2>5 DEF DocumentSound
    <3> QED BY <1>4, <2>3, <2>5, <3>1, SoundSame
  <2> QED BY <1>5, <2>3, <2>4, <2>5
<1>12. CASE Unapply(r)
  <2>1. UnapplyEffect(r, o, v) /\ o.kind = "unapply" BY <1>12 DEF Unapply, Commits, o, v
  <2>2. o.target \in Requests /\ o.entry \in Requests /\ o.entry # o.target
    BY <1>2, <2>1 DEF CallOK
  <2>3. /\ SameTerms(doc'[o.target], doc[o.target]) /\ doc'[o.target].matched = doc[o.target].matched
        /\ SameTerms(doc'[o.entry], doc[o.entry]) /\ doc'[o.entry].matched = doc[o.entry].matched
        /\ \A d \in Requests \ {o.target, o.entry} : doc'[d] = doc[d]
    BY <1>2, <1>3, <2>1, <2>2, UnapplyRecords
  <2>4. CASE x \in {o.target, o.entry}
    <3>1. doc[x].kind = "payout" => \A p \in Payables : doc'[x].matched[p] >= 0
      BY <1>4, <2>3, <2>4 DEF DocumentSound
    <3> QED BY <1>4, <2>3, <2>4, <3>1, SoundSame
  <2> QED BY <1>5, <2>3, <2>4
<1>13. CASE ReversePayment(r) \/ ReverseReceipt(r) \/ ReverseEntry(r)
  <2>1. PICK d \in Requests : doc' = [doc EXCEPT ![d].status = "REVERSED"]
    <3>1. CASE ReversePayment(r) \/ ReverseReceipt(r)
      <4>1. o.target \in Requests
        BY <1>2, <3>1 DEF ReversePayment, ReverseReceipt, Commits, CallOK, o
      <4> QED BY <3>1, <4>1 DEF ReversePayment, ReverseReceipt, ReversePaymentEffect,
                                ReverseReceiptEffect, o
    <3>2. CASE ReverseEntry(r)
      <4>1. o.entry \in Requests BY <1>2, <3>2 DEF ReverseEntry, Commits, CallOK, o
      <4> QED BY <3>2, <4>1 DEF ReverseEntry, ReverseEntryEffect, o
    <3> QED BY <1>13, <3>1, <3>2
  <2>2. /\ SameTerms(doc'[d], doc[d]) /\ doc'[d].matched = doc[d].matched
        /\ \A y \in Requests \ {d} : doc'[y] = doc[y]
    BY <1>3, <2>1, ReversalRecords
  <2>3. CASE x = d
    <3>1. doc[x].kind = "payout" => \A p \in Payables : doc'[x].matched[p] >= 0
      BY <1>4, <2>2, <2>3 DEF DocumentSound
    <3> QED BY <1>4, <2>2, <2>3, <3>1, SoundSame
  <2> QED BY <1>5, <2>2, <2>3
<1>14. CASE Cancel(r) \/ ReverseSource(r)
  BY <1>5, <1>14 DEF Cancel, ReverseSource, CancelEffect, ReverseSourceEffect, VoidEffect
<1> QED BY <1>7, <1>8, <1>9, <1>10, <1>11, <1>12, <1>13, <1>14 DEF Commit

(* What a transaction has in view changes when it reads and when it ends.  *)
LEMMA ViewSteps ==
  ASSUME Shape, [Next]_vars, NEW s \in Requests
  PROVE  view'[s] = view[s] \/ view'[s] = NoView \/ Advance(s)
<1>1. CASE UNCHANGED vars BY <1>1 DEF vars
<1>2. CASE \E p \in Payables : RecordSwipe(p) BY <1>2 DEF RecordSwipe
<1>3. CASE \E r \in Requests : Begin(r) BY <1>3 DEF Begin
<1>4. CASE \E r \in Requests : Advance(r)
  <2>1. PICK r \in Requests : Advance(r) BY <1>4
  <2> QED BY <2>1, AdvanceFacts
<1>5. CASE \E r \in Requests : Reject(r) \/ Abort(r) \/ Commit(r)
  <2>1. PICK r \in Requests, o \in {Idle, Done} : Finish(r, o) BY <1>5, CommitEnds DEF Reject, Abort
  <2> QED BY <2>1, FinishTypes
<1> QED BY <1>1, <1>2, <1>3, <1>4, <1>5 DEF Next

\* The document that does not exist yet is sound.
LEMMA SoundNone == DocumentSound(NoDocument) /\ NoView.doc = NoDocument /\ NoView.entry = NoDocument
BY DEF NoDocument, DocumentSound, NoView

\* Documents stay sound in every step.
LEMMA SoundNext == Shape /\ CallsAgree /\ DocumentsSound /\ [Next]_vars => DocumentsSound'
<1> SUFFICES ASSUME Shape, CallsAgree, DocumentsSound, [Next]_vars, NEW s \in Requests
             PROVE  DocumentSound(doc'[s]) /\ DocumentSound(view'[s].doc) /\ DocumentSound(view'[s].entry)
  BY DEF DocumentsSound
<1>1. DocumentSound(doc'[s])
  <2>1. CASE doc' = doc BY <2>1 DEF DocumentsSound
  <2>2. CASE \E r \in Requests : Commit(r) BY <2>2, SoundCommit
  <2> QED BY <2>1, <2>2, TableSteps DEF tables, RecordSwipe
<1>2. CASE view'[s] = view[s] BY <1>1, <1>2 DEF DocumentsSound
<1>3. CASE view'[s] = NoView BY <1>1, <1>3, SoundNone
<1>4. CASE Advance(s)
  <2> DEFINE look == PlanOf(s)[stage[s]].look
  <2>1. /\ view'[s] = Look(op[s], view[s], look)
        /\ "doc" \in look => op[s].target \in Requests
        /\ "entry" \in look => op[s].entry \in Requests
    BY <1>4, AdvanceFacts DEF StepOK
  <2> HIDE DEF look
  <2>2. /\ view'[s].doc = IF "doc" \in look THEN doc[op[s].target] ELSE view[s].doc
        /\ view'[s].entry = IF "entry" \in look THEN doc[op[s].entry] ELSE view[s].entry
    BY <2>1 DEF Look
  <2> QED BY <1>1, <2>1, <2>2 DEF DocumentsSound
<1> QED BY <1>2, <1>3, <1>4, ViewSteps

---------------------------------------------------------------------------
(* What is read without a lock of its own, and stands.                     *)

(* What the journals do to the shop's accounts.                            *)
LEMMA OnAccounts ==
  ASSUME NEW a \in Accounts, NEW d
  PROVE  /\ a \in Ledgers /\ Charge[a] \in Nat
         /\ PaymentJournal(d)[a] = IF a = d.account THEN -(d.cash + Charge[a]) ELSE 0
         /\ PayOutJournal(d)[a] = IF a = d.account THEN -(d.cash + Charge[a]) ELSE 0
         /\ ReceiptJournal(d)[a] = IF a = d.account THEN d.cash ELSE 0
         /\ OffsetJournal(d)[a] = 0
         /\ \A p \in Payables : SourceJournal(p)[a] = 0
<1>1. a \in Ledgers /\ Charge[a] \in Nat /\ a \notin SystemLedgers
  BY ConstantsAssumption DEF Ledgers
<1>2. /\ a # "PAYABLE" /\ a # "RECEIVABLE" /\ a # "CLEARING" /\ a # "INCOME" /\ a # "CHARGE"
      /\ a # "ROUNDING"
  BY <1>1 DEF SystemLedgers
<1> QED BY <1>1, <1>2 DEF PaymentJournal, PayOutJournal, ReceiptJournal, OffsetJournal, SourceJournal

(* Balances are read as their account is locked, by those who pay from it. *)
LEMMA FundsPlans ==
  ASSUME NEW o \in Operation, NEW v, o.kind \in Kinds, CallOK(o)
  PROVE  /\ \A i \in 1..Len(Plan(o, v)) :
              "funds" \in Plan(o, v)[i].look => AccountLock(o.account) \in Plan(o, v)[i].rows
         /\ o.kind \in {"pay", "payout", "reverseReceipt"} =>
              \E i \in 1..Len(Plan(o, v)) : "funds" \in Plan(o, v)[i].look
<1> USE DEF Step
<1>1. CASE o.kind = "payout"
  <2>1. Plan(o, v) = PayOutPlan(o) BY <1>1 DEF Plan
  <2>2. CASE o.payable = None
    <3>1. Plan(o, v) = << Step({AccountLock(o.account)}, {"funds"}), Step({}, {"claim"}) >>
      BY <2>1, <2>2 DEF PayOutPlan
    <3>2. 1 \in 1..Len(Plan(o, v)) /\ "funds" \in Plan(o, v)[1].look BY <3>1
    <3> QED BY <3>1, <3>2
  <2>3. CASE o.payable # None
    <3>1. Plan(o, v) = << Step({PayableLock(o.payable)}, {"payable", "source"}),
                          Step({AccountLock(o.account)}, {"funds"}), Step({}, {"claim"}) >>
      BY <2>1, <2>3 DEF PayOutPlan
    <3>2. 2 \in 1..Len(Plan(o, v)) /\ "funds" \in Plan(o, v)[2].look BY <3>1
    <3> QED BY <3>1, <3>2
  <2> QED BY <2>2, <2>3
<1>2. CASE o.kind = "unapply" BY <1>2 DEF Plan, AdvancePlan
<1>3. CASE o.kind \in {"match", "unmatch", "apply"}
  <2>1. Plan(o, v) = AdvancePlan(o, {"entry"}) BY <1>3 DEF Plan
  <2> QED BY <1>3, <2>1 DEF AdvancePlan
<1>4. CASE o.kind = "pay"
  <2>1. Plan(o, v) = PayPlan(o) BY <1>4 DEF Plan
  <2>2. 3 \in 1..Len(Plan(o, v)) /\ "funds" \in Plan(o, v)[3].look BY <2>1 DEF PayPlan
  <2> QED BY <1>4, <2>1, <2>2 DEF PayPlan
<1>5. CASE o.kind = "cancel" BY <1>5 DEF Plan, CancelPlan
<1>6. CASE o.kind = "reverseSource" BY <1>6 DEF Plan, ReverseSourcePlan
<1>7. CASE o.kind = "reversePayment" BY <1>7 DEF Plan, ReversePaymentPlan
<1>8. CASE o.kind = "reverseEntry" BY <1>8 DEF Plan, ReverseEntryPlan
<1>9. CASE o.kind = "receive" BY <1>9 DEF Plan, ReceivePlan
<1>10. CASE o.kind = "reverseReceipt"
  <2>1. Plan(o, v) = ReverseReceiptPlan(o) BY <1>10 DEF Plan
  <2>2. 2 \in 1..Len(Plan(o, v)) /\ "funds" \in Plan(o, v)[2].look BY <2>1 DEF ReverseReceiptPlan
  <2> QED BY <1>10, <2>1, <2>2 DEF ReverseReceiptPlan
<1> QED BY <1>1, <1>2, <1>3, <1>4, <1>5, <1>6, <1>7, <1>8, <1>9, <1>10 DEF Kinds

(* What a transaction knows of the balance and of the documents it works   *)
(* on when it commits.                                                     *)
LEMMA ReadsAtEnd ==
  ASSUME Shape, LocksHeld, LockedViewsFresh, ReadsStand, NEW r \in Requests, Running(r), AtEnd(r)
  PROVE  /\ op[r].kind \in {"pay", "payout", "reverseReceipt"} =>
              view[r].funds <= ledger[op[r].account] /\ holder[AccountLock(op[r].account)] = r
         /\ op[r].kind \in {"match", "unmatch", "apply", "unapply", "reverseEntry"} =>
              view[r].entry = doc[op[r].entry]
         /\ op[r].kind \in {"unapply", "reversePayment", "reverseReceipt"} =>
              view[r].doc = doc[op[r].target]
         /\ op[r].kind \in {"receive", "reverseReceipt"} =>
              view[r].settlement = settlement[op[r].payable]
         /\ op[r].kind = "reverseSource" => view[r].source = source[op[r].payable]
<1> DEFINE o == op[r]
           v == view[r]
<1>1. /\ o.kind \in Kinds /\ o \in Operation /\ CallOK(o) /\ v \in View
      /\ stage[r] = Len(PlanOf(r)) + 1 /\ stage[r] > 1
  BY CallFacts
<1>2. Len(Plan(o, v)) \in Nat BY <1>1, PlanLength
<1>3. \A i \in 1..Len(Plan(o, v)) :
        /\ SettlementLock(o.payable) \in Plan(o, v)[i].rows /\ "settlement" \in Plan(o, v)[i].look =>
             v.settlement = settlement[o.payable]
        /\ DocumentLock(o.target) \in Plan(o, v)[i].rows /\ "doc" \in Plan(o, v)[i].look =>
             v.doc = doc[o.target]
        /\ EntryLock(o.entry) \in Plan(o, v)[i].rows /\ "entry" \in Plan(o, v)[i].look =>
             v.entry = doc[o.entry]
        /\ \A row \in Plan(o, v)[i].rows : holder[row] = r
        /\ "funds" \in Plan(o, v)[i].look => v.funds <= ledger[o.account]
  <2>1. FreshView(r) /\ HoldsLocks(r) /\ ReadStands(r) BY DEF LockedViewsFresh, LocksHeld, ReadsStand
  <2>2. \A i \in 1..Len(Plan(o, v)) : i < stage[r] BY <1>1, <1>2 DEF PlanOf
  <2> QED BY <2>1, <2>2 DEF FreshView, HoldsLocks, ReadStands, PlanOf
<1>4. ReadStands(r) BY DEF ReadsStand
<1>5. o.kind \in {"pay", "payout", "reverseReceipt"} =>
        v.funds <= ledger[o.account] /\ holder[AccountLock(o.account)] = r
  BY <1>1, <1>3, FundsPlans
<1>6. o.kind = "reverseEntry" => v.entry = doc[o.entry] BY <1>1, <1>4 DEF ReadStands
<1>7. o.kind = "reverseSource" => v.source = source[o.payable] BY <1>1, <1>4 DEF ReadStands
<1>8. o.kind = "unapply" => v.doc = doc[o.target] /\ v.entry = doc[o.entry]
  <2> SUFFICES ASSUME o.kind = "unapply" PROVE v.doc = doc[o.target] /\ v.entry = doc[o.entry]
    OBVIOUS
  <2>1. Plan(o, v) = AdvancePlan(o, {"doc", "entry"}) BY DEF Plan
  <2>2. /\ Len(Plan(o, v)) = 3 /\ 3 \in 1..Len(Plan(o, v))
        /\ EntryLock(o.entry) \in Plan(o, v)[3].rows /\ "entry" \in Plan(o, v)[3].look
    BY <2>1 DEF AdvancePlan, Step
  <2> QED BY <1>1, <1>3, <1>4, <2>2 DEF ReadStands, PlanOf
<1> HIDE DEF o, v
<1> USE DEF Step
<1>9. o.kind \in {"match", "unmatch", "apply"} => v.entry = doc[o.entry]
  <2> SUFFICES ASSUME o.kind \in {"match", "unmatch", "apply"} PROVE v.entry = doc[o.entry]
    OBVIOUS
  <2>1. Plan(o, v) = AdvancePlan(o, {"entry"}) BY DEF Plan
  <2>2. 3 \in 1..Len(Plan(o, v)) /\ EntryLock(o.entry) \in Plan(o, v)[3].rows /\ "entry" \in Plan(o, v)[3].look
    BY <2>1 DEF AdvancePlan
  <2> QED BY <1>3, <2>2
<1>10. o.kind = "reversePayment" => v.doc = doc[o.target]
  <2> SUFFICES ASSUME o.kind = "reversePayment" PROVE v.doc = doc[o.target]
    OBVIOUS
  <2>1. /\ 1 \in 1..Len(Plan(o, v)) /\ DocumentLock(o.target) \in Plan(o, v)[1].rows
        /\ "doc" \in Plan(o, v)[1].look
    BY DEF Plan, ReversePaymentPlan
  <2> QED BY <1>3, <2>1
<1>11. o.kind = "reverseReceipt" => v.doc = doc[o.target] /\ v.settlement = settlement[o.payable]
  <2> SUFFICES ASSUME o.kind = "reverseReceipt"
               PROVE  v.doc = doc[o.target] /\ v.settlement = settlement[o.payable]
    OBVIOUS
  <2>1. /\ 1 \in 1..Len(Plan(o, v)) /\ DocumentLock(o.target) \in Plan(o, v)[1].rows
        /\ "doc" \in Plan(o, v)[1].look
        /\ 3 \in 1..Len(Plan(o, v)) /\ SettlementLock(o.payable) \in Plan(o, v)[3].rows
        /\ "settlement" \in Plan(o, v)[3].look
    BY DEF Plan, ReverseReceiptPlan
  <2> QED BY <1>3, <2>1
<1>12. o.kind = "receive" => v.settlement = settlement[o.payable]
  <2> SUFFICES ASSUME o.kind = "receive" PROVE v.settlement = settlement[o.payable]
    OBVIOUS
  <2>1. /\ 1 \in 1..Len(Plan(o, v)) /\ SettlementLock(o.payable) \in Plan(o, v)[1].rows
        /\ "settlement" \in Plan(o, v)[1].look
    BY DEF Plan, ReceivePlan
  <2> QED BY <1>3, <2>1
<1> QED BY <1>5, <1>6, <1>7, <1>8, <1>9, <1>10, <1>11, <1>12 DEF o, v

(* Money leaves an account under its lock only.                            *)
LEMMA DebitsUnderLock ==
  ASSUME Shape, LocksHeld, LockedViewsFresh, CallsAgree, DocumentsSound, ReadsStand,
         NEW r \in Requests, Commit(r), NEW a \in Accounts
  PROVE  ledger'[a] >= ledger[a] \/ holder[AccountLock(a)] = r
<1> DEFINE o == op[r]
           v == view[r]
<1>1. Running(r) /\ AtEnd(r) BY CommitEnds
<1>2. o \in Operation /\ v \in View /\ CallOK(o) /\ CallAgrees(o) BY <1>1, CallFacts DEF CallsAgree
<1>3. TablesOK /\ ledger[a] \in Int /\ a \in Ledgers BY ShapeTables DEF TablesOK, Ledgers
<1>5. \A p \in Payables : SourceJournal(p)[a] = 0 BY OnAccounts
<1>6. o.kind \in {"pay", "payout", "reverseReceipt"} => holder[AccountLock(o.account)] = r
  BY <1>1, ReadsAtEnd
<1>7. \A j : Post(j) => ledger'[a] = ledger[a] + j[a] BY <1>3 DEF Post
<1>8. \A j : PostReversal(j) => ledger'[a] = ledger[a] - j[a] BY <1>3 DEF PostReversal
<1>9. DocumentSound(v.doc) /\ DocumentSound(v.entry) /\ v.doc.cash \in Int /\ v.entry.cash \in Int
  BY <1>2 DEF DocumentsSound, View, Document
<1> HIDE DEF o, v
<1>10. CASE Pay(r)
  <2>1. PayEffect(r, o, v) /\ o.kind = "pay" BY <1>10 DEF Pay, Commits, o, v
  <2>2. o.payable \in Payables /\ o.account \in Accounts BY <1>2, <2>1 DEF CallOK
  <2>3. Post(PaymentJournal(doc'[r])) /\ doc'[r].account = o.account
    BY <1>2, <1>3, <2>1, <2>2, PayRecords DEF Recorded
  <2>4. a # o.account => PaymentJournal(doc'[r])[a] = 0 BY <2>3, OnAccounts
  <2> QED BY <1>3, <1>6, <1>7, <2>1, <2>3, <2>4
<1>11. CASE PayOut(r)
  <2>1. PayOutEffect(r, o, v) /\ o.kind = "payout" BY <1>11 DEF PayOut, Commits, o, v
  <2>2. o.account \in Accounts BY <1>2, <2>1 DEF CallOK
  <2>3. Post(PayOutJournal(doc'[r])) /\ doc'[r].account = o.account
    BY <1>2, <1>3, <2>1, <2>2, PayOutRecords DEF Recorded
  <2>4. a # o.account => PayOutJournal(doc'[r])[a] = 0 BY <2>3, OnAccounts
  <2> QED BY <1>3, <1>6, <1>7, <2>1, <2>3, <2>4
<1>12. CASE Receive(r)
  <2>1. ReceiveEffect(r, o, v) /\ o.kind = "receive" BY <1>12 DEF Receive, Commits, o, v
  <2>2. o.payable \in Payables /\ o.account \in Accounts /\ o.amount \in Nat
    BY <1>2, <2>1 DEF CallOK, Operation
  <2>3. Post(ReceiptJournal(doc'[r])) /\ doc'[r].cash = o.amount
    BY <1>2, <1>3, <2>1, <2>2, ReceiveRecords DEF Recorded
  <2>j. ReceiptJournal(doc'[r])[a] = IF a = doc'[r].account THEN doc'[r].cash ELSE 0 BY OnAccounts
  <2>4. ReceiptJournal(doc'[r])[a] \in Nat BY <2>2, <2>3, <2>j
  <2> QED BY <1>3, <1>7, <2>3, <2>4
<1>13. CASE ReverseReceipt(r)
  <2>1. ReverseReceiptEffect(r, o, v) /\ o.kind = "reverseReceipt"
    BY <1>13 DEF ReverseReceipt, Commits, o, v
  <2>2. v.doc.account = o.account BY <1>1, <1>2, <2>1, ReadsAtEnd DEF CallAgrees, o, v
  <2>3. PostReversal(ReceiptJournal(v.doc)) BY <2>1 DEF ReverseReceiptEffect
  <2>4. a # o.account => ReceiptJournal(v.doc)[a] = 0 BY <2>2, OnAccounts
  <2> QED BY <1>3, <1>6, <1>8, <2>1, <2>3, <2>4
<1>14. CASE ReversePayment(r)
  <2>1. ReversePaymentEffect(r, o, v) /\ o.kind = "reversePayment"
    BY <1>14 DEF ReversePayment, Commits, o, v
  <2>2. v.doc.kind = "payment" BY <1>1, <1>2, <2>1, ReadsAtEnd DEF CallOK, o, v
  <2>3. PostReversal(PaymentJournal(v.doc)) BY <2>1 DEF ReversePaymentEffect
  <2>4. v.doc.cash > 0 BY <1>9, <2>2 DEF DocumentSound
  <2>j. /\ PaymentJournal(v.doc)[a] = IF a = v.doc.account THEN -(v.doc.cash + Charge[a]) ELSE 0
        /\ Charge[a] \in Nat
    BY OnAccounts
  <2>5. PaymentJournal(v.doc)[a] \in Int /\ PaymentJournal(v.doc)[a] <= 0 BY <1>9, <2>4, <2>j
  <2> QED BY <1>3, <1>8, <2>3, <2>5
<1>15. CASE ReverseEntry(r)
  <2>1. ReverseEntryEffect(r, o, v) /\ o.kind = "reverseEntry"
    BY <1>15 DEF ReverseEntry, Commits, o, v
  <2>2. v.entry.kind = "payout" BY <1>1, <1>2, <2>1, ReadsAtEnd DEF CallOK, o, v
  <2>3. PostReversal(PayOutJournal(v.entry)) BY <2>1 DEF ReverseEntryEffect
  <2>4. v.entry.cash > 0 BY <1>9, <2>2 DEF DocumentSound
  <2>j. /\ PayOutJournal(v.entry)[a] = IF a = v.entry.account THEN -(v.entry.cash + Charge[a]) ELSE 0
        /\ Charge[a] \in Nat
    BY OnAccounts
  <2>5. PayOutJournal(v.entry)[a] \in Int /\ PayOutJournal(v.entry)[a] <= 0 BY <1>9, <2>4, <2>j
  <2> QED BY <1>3, <1>8, <2>3, <2>5
<1>16. CASE Match(r) \/ Unmatch(r)
  <2>1. ledger' = ledger BY <1>16 DEF Match, Unmatch, MatchEffect, UnmatchEffect
  <2> QED BY <1>3, <2>1
<1>17. CASE Apply(r)
  <2>1. ApplyEffect(r, o, v) BY <1>17 DEF Apply, o, v
  <2>2. PICK d : Post(OffsetJournal(d)) BY <2>1 DEF ApplyEffect
  <2>3. OffsetJournal(d)[a] = 0 BY OnAccounts
  <2> QED BY <1>3, <1>7, <2>2, <2>3
<1>18. CASE Unapply(r)
  <2>1. PostReversal(OffsetJournal(v.doc)) BY <1>18 DEF Unapply, UnapplyEffect, v
  <2>2. OffsetJournal(v.doc)[a] = 0 BY OnAccounts
  <2> QED BY <1>3, <1>8, <2>1, <2>2
<1>19. CASE Cancel(r) \/ ReverseSource(r)
  <2>1. PostReversal(SourceJournal(o.payable))
    BY <1>19 DEF Cancel, ReverseSource, CancelEffect, ReverseSourceEffect, VoidEffect, o
  <2>2. o.payable \in Payables BY <1>2, <1>19 DEF Cancel, ReverseSource, Commits, CallOK, o
  <2> QED BY <1>3, <1>5, <1>8, <2>1, <2>2
<1> QED
  BY <1>10, <1>11, <1>12, <1>13, <1>14, <1>15, <1>16, <1>17, <1>18, <1>19 DEF Commit

(* An advance changes under the lock of the Pay Out it was taken from, and *)
(* a swipe under its own.                                                  *)
LEMMA UsesUnderLock ==
  ASSUME Shape, LocksHeld, CallsAgree, NEW r \in Requests, Commit(r)
  PROVE  /\ \A d \in Requests : doc[d].kind = "offset" /\ doc'[d] # doc[d] =>
              holder[DocumentLock(doc[d].entry)] = r
         /\ \A p \in Payables : source'[p] # source[p] => holder[SourceLock(p)] = r
<1> DEFINE o == op[r]
           v == view[r]
<1>1. Running(r) /\ AtEnd(r) BY CommitEnds
<1>2. /\ o \in Operation /\ v \in View /\ CallOK(o) /\ CallAgrees(o) /\ o.kind \in Kinds
      /\ stage[r] = Len(PlanOf(r)) + 1
  BY <1>1, CallFacts DEF CallsAgree
<1>3. TablesOK BY ShapeTables
<1>4. o.kind \in {"match", "unmatch", "apply", "unapply", "reverseEntry"} => holder[DocumentLock(o.entry)] = r
  BY <1>1, LocksAtEnd
<1>none. doc[r].kind = "none" BY <1>1 DEF Shape, DocumentsOK, Running, Kinds
<1>5. ASSUME Cancel(r) \/ ReverseSource(r)
      PROVE  holder[SourceLock(o.payable)] = r /\ doc' = doc
             /\ \A p \in Payables : p # o.payable => source'[p] = source[p]
  <2>1. \A i \in 1..Len(Plan(o, v)) : \A row \in Plan(o, v)[i].rows : holder[row] = r
    <3>1. Len(Plan(o, v)) \in Nat BY <1>2, PlanLength
    <3> QED BY <1>1, <1>2, <3>1 DEF LocksHeld, HoldsLocks, PlanOf
  <2> HIDE DEF v
  <2>2. CASE Cancel(r)
    <3>1. o.kind = "cancel" BY <2>2 DEF Cancel, Commits
    <3>2. 2 \in 1..Len(Plan(o, v)) /\ SourceLock(o.payable) \in Plan(o, v)[2].rows
      BY <3>1 DEF Plan, CancelPlan, Step
    <3>3. doc' = doc /\ source' = [source EXCEPT ![o.payable] = "REVERSED"]
      BY <2>2 DEF Cancel, CancelEffect, VoidEffect
    <3> HIDE DEF o
    <3> QED BY <1>3, <2>1, <3>2, <3>3 DEF TablesOK
  <2>3. CASE ReverseSource(r)
    <3>1. o.kind = "reverseSource" BY <2>3 DEF ReverseSource, Commits
    <3>2. 1 \in 1..Len(Plan(o, v)) /\ SourceLock(o.payable) \in Plan(o, v)[1].rows
      BY <3>1 DEF Plan, ReverseSourcePlan, Step
    <3>3. doc' = doc /\ source' = [source EXCEPT ![o.payable] = "REVERSED"]
      BY <2>3 DEF ReverseSource, ReverseSourceEffect, VoidEffect
    <3> HIDE DEF o
    <3> QED BY <1>3, <2>1, <3>2, <3>3 DEF TablesOK
  <2> QED BY <1>5, <2>2, <2>3
<1>6. CASE Cancel(r) \/ ReverseSource(r) BY <1>5, <1>6
<1>7. ASSUME ~Cancel(r), ~ReverseSource(r) PROVE source' = source
  BY <1>7 DEF Commit, Pay, PayOut, Match, Unmatch, Apply, Unapply, ReversePayment, ReverseEntry, Receive,
              ReverseReceipt, PayEffect, PayOutEffect, MatchEffect, UnmatchEffect, ApplyEffect,
              UnapplyEffect, ReversePaymentEffect, ReverseEntryEffect, ReceiveEffect,
              ReverseReceiptEffect
<1>8. ASSUME ~Cancel(r), ~ReverseSource(r), NEW d \in Requests, doc[d].kind = "offset", doc'[d] # doc[d]
      PROVE  holder[DocumentLock(doc[d].entry)] = r
  <2>1. d # r BY <1>none, <1>8
  <2>2. CASE Pay(r) BY <1>3, <1>8, <2>1, <2>2 DEF Pay, PayEffect, TablesOK
  <2>3. CASE PayOut(r)
    <3>1. PICK new : doc' = [doc EXCEPT ![r] = new] BY <2>3 DEF PayOut, PayOutEffect
    <3> QED BY <1>3, <1>8, <2>1, <3>1 DEF TablesOK
  <2>4. CASE Receive(r) BY <1>3, <1>8, <2>1, <2>4 DEF Receive, ReceiveEffect, TablesOK
  <2>5. CASE Match(r) \/ Unmatch(r)
    <3>1. doc[o.entry].kind = "payout" BY <1>2, <2>5 DEF Match, Unmatch, Commits, CallOK
    <3>2. d # o.entry BY <1>8, <3>1
    <3> QED BY <1>3, <1>8, <2>5, <3>2 DEF Match, Unmatch, MatchEffect, UnmatchEffect, TablesOK
  <2>6. CASE Apply(r)
    <3>1. doc[o.entry].kind = "payout" BY <1>2, <2>6 DEF Apply, Commits, CallOK
    <3>2. d # o.entry BY <1>8, <3>1
    <3> QED BY <1>3, <1>8, <2>1, <2>6, <3>2 DEF Apply, ApplyEffect, TablesOK
  <2>7. CASE Unapply(r)
    <3>1. doc[o.entry].kind = "payout" /\ o.kind = "unapply" /\ doc[o.target].entry = o.entry
      BY <1>2, <2>7 DEF Unapply, Commits, CallOK, CallAgrees
    <3>2. d # o.entry BY <1>8, <3>1
    <3>3. CASE d = o.target BY <1>4, <3>1, <3>3
    <3>4. CASE d # o.target BY <1>3, <1>8, <2>7, <3>2, <3>4 DEF Unapply, UnapplyEffect, TablesOK
    <3> QED BY <3>3, <3>4
  <2>8. CASE ReversePayment(r) \/ ReverseReceipt(r)
    <3>1. doc[o.target].kind \in {"payment", "receipt"}
      BY <1>2, <2>8 DEF ReversePayment, ReverseReceipt, Commits, CallOK
    <3>2. d # o.target BY <1>8, <3>1
    <3> QED BY <1>3, <1>8, <2>8, <3>2 DEF ReversePayment, ReverseReceipt, ReversePaymentEffect,
                                         ReverseReceiptEffect, TablesOK
  <2>9. CASE ReverseEntry(r)
    <3>1. doc[o.entry].kind = "payout" BY <1>2, <2>9 DEF ReverseEntry, Commits, CallOK
    <3>2. d # o.entry BY <1>8, <3>1
    <3> QED BY <1>3, <1>8, <2>9, <3>2 DEF ReverseEntry, ReverseEntryEffect, TablesOK
  <2> QED BY <1>8, <2>2, <2>3, <2>4, <2>5, <2>6, <2>7, <2>8, <2>9 DEF Commit
<1> QED BY <1>6, <1>7, <1>8

(* What a session holds while it relies on such a read.                    *)
LEMMA StandingLocks ==
  ASSUME Shape, LocksHeld, NEW s \in Requests, Running(s)
  PROVE  /\ op[s].kind \in {"reverseEntry", "unapply"} /\ stage[s] > 1 =>
              holder[DocumentLock(op[s].entry)] = s
         /\ op[s].kind = "reverseSource" /\ stage[s] > 1 => holder[SourceLock(op[s].payable)] = s
         /\ \A i \in 1..Len(PlanOf(s)) : i < stage[s] /\ "funds" \in PlanOf(s)[i].look =>
              op[s].account \in Accounts /\ holder[AccountLock(op[s].account)] = s
<1> DEFINE o == op[s]
           v == view[s]
<1>1. o.kind \in Kinds /\ o \in Operation /\ CallOK(o) BY CallFacts
<1>2. \A i \in 1..Len(Plan(o, v)) : i < stage[s] => \A row \in Plan(o, v)[i].rows : holder[row] = s
  BY DEF LocksHeld, HoldsLocks, PlanOf
<1>3. \A i \in 1..Len(Plan(o, v)) : StepOK(o, v, Plan(o, v)[i]) BY <1>1, PlanStepsOK
<1>4. \A i \in 1..Len(Plan(o, v)) : i < stage[s] /\ "funds" \in Plan(o, v)[i].look =>
        o.account \in Accounts /\ holder[AccountLock(o.account)] = s
  BY <1>1, <1>2, <1>3, FundsPlans DEF StepOK
<1>5. stage[s] \in Nat BY DEF Shape, TypeOK
<1> HIDE DEF o, v
<1> USE DEF Step
<1>6. o.kind = "reverseEntry" =>
        1 \in 1..Len(Plan(o, v)) /\ DocumentLock(o.entry) \in Plan(o, v)[1].rows
  BY DEF Plan, ReverseEntryPlan
<1>7. o.kind = "unapply" => 1 \in 1..Len(Plan(o, v)) /\ DocumentLock(o.entry) \in Plan(o, v)[1].rows
  BY DEF Plan, AdvancePlan
<1>8. o.kind = "reverseSource" =>
        1 \in 1..Len(Plan(o, v)) /\ SourceLock(o.payable) \in Plan(o, v)[1].rows
  BY DEF Plan, ReverseSourcePlan
<1>9. /\ o.kind \in {"reverseEntry", "unapply"} /\ stage[s] > 1 => holder[DocumentLock(o.entry)] = s
      /\ o.kind = "reverseSource" /\ stage[s] > 1 => holder[SourceLock(o.payable)] = s
  BY <1>2, <1>5, <1>6, <1>7, <1>8
<1> QED BY <1>4, <1>9 DEF o, v, PlanOf

(* What a session knows stands while others may only add to the balance.   *)
LEMMA StandStays ==
  ASSUME Shape, LocksHeld, CallsAgree, ReadsStand, NEW s \in Requests, Running(s),
         op'[s] = op[s], view'[s] = view[s], stage'[s] = stage[s],
         \A d \in Requests : doc[d].kind = "payout" /\ holder[DocumentLock(d)] = s => doc'[d] = doc[d],
         \A d \in Requests : doc[d].kind = "offset" /\ holder[DocumentLock(doc[d].entry)] = s =>
            doc'[d] = doc[d],
         \A p \in Payables : source[p] # "ABSENT" /\ holder[SourceLock(p)] = s => source'[p] = source[p],
         \A a \in Accounts : holder[AccountLock(a)] = s => ledger'[a] >= ledger[a],
         \A a \in Accounts : ledger'[a] \in Int
  PROVE  ReadStands(s)'
<1>1. ReadStands(s) BY DEF ReadsStand
<1>2. PlanOf(s)' = PlanOf(s) BY DEF PlanOf
<1>3. CallOK(op[s]) /\ CallAgrees(op[s]) /\ view[s].funds \in Int BY CallFacts DEF CallsAgree, View
<1>4. stage[s] \in Nat /\ \A a \in Accounts : ledger[a] \in Int BY DEF Shape, TypeOK, Ledgers
<1>5. /\ op[s].kind \in {"reverseEntry", "unapply"} /\ stage[s] > 1 => holder[DocumentLock(op[s].entry)] = s
      /\ op[s].kind = "reverseSource" /\ stage[s] > 1 => holder[SourceLock(op[s].payable)] = s
      /\ \A i \in 1..Len(PlanOf(s)) : i < stage[s] /\ "funds" \in PlanOf(s)[i].look =>
           op[s].account \in Accounts /\ holder[AccountLock(op[s].account)] = s
  BY StandingLocks
<1>6. op[s].kind = "reverseEntry" /\ stage[s] > 1 => view[s].entry = doc'[op[s].entry]
  BY <1>1, <1>3, <1>5 DEF ReadStands, CallOK
<1>7. op[s].kind = "unapply" /\ stage[s] > 3 => view[s].doc = doc'[op[s].target]
  <2> SUFFICES ASSUME op[s].kind = "unapply", stage[s] > 3 PROVE view[s].doc = doc'[op[s].target]
    OBVIOUS
  <2>1. /\ op[s].target \in Requests /\ doc[op[s].target].kind = "offset"
        /\ doc[op[s].target].entry = op[s].entry
    BY <1>3 DEF CallOK, CallAgrees
  <2>2. holder[DocumentLock(op[s].entry)] = s BY <1>4, <1>5
  <2> QED BY <1>1, <2>1, <2>2 DEF ReadStands
<1>8. op[s].kind = "reverseSource" /\ stage[s] > 1 => view[s].source = source'[op[s].payable]
  BY <1>1, <1>3, <1>5 DEF ReadStands, CallOK
<1>9. \A i \in 1..Len(PlanOf(s)) : i < stage[s] /\ "funds" \in PlanOf(s)[i].look =>
        view[s].funds <= ledger'[op[s].account]
  <2> SUFFICES ASSUME NEW i \in 1..Len(PlanOf(s)), i < stage[s], "funds" \in PlanOf(s)[i].look
               PROVE  view[s].funds <= ledger'[op[s].account]
    OBVIOUS
  <2>1. op[s].account \in Accounts /\ holder[AccountLock(op[s].account)] = s BY <1>5
  <2>2. view[s].funds <= ledger[op[s].account] BY <1>1 DEF ReadStands
  <2>3. ledger'[op[s].account] >= ledger[op[s].account] BY <2>1
  <2> QED BY <1>3, <1>4, <2>1, <2>2, <2>3
<1> QED BY <1>2, <1>6, <1>7, <1>8, <1>9 DEF ReadStands

(* And when it takes a step itself.                                        *)
LEMMA StandAdvance ==
  ASSUME Shape, ReadsStand, NEW s \in Requests, Advance(s)
  PROVE  ReadStands(s)'
<1> DEFINE o == op[s]
           v == view[s]
           n == stage[s]
           look == PlanOf(s)[n].look
           w == Look(o, v, look)
<1>1. Running(s) /\ UNCHANGED <<source, doc, ledger>> BY DEF Advance
<1>2. /\ n \in 1..Len(PlanOf(s)) /\ StepOK(o, v, PlanOf(s)[n])
      /\ stage'[s] = n + 1 /\ op' = op /\ view'[s] = w
      /\ Len(PlanOf(s)') = Len(PlanOf(s))
      /\ \A i \in 1..n : PlanOf(s)'[i] = PlanOf(s)[i]
  BY AdvanceFacts
<1>3. ReadStands(s) BY <1>1 DEF ReadsStand
<1>4. /\ w.source = IF "source" \in look THEN source[o.payable] ELSE v.source
      /\ w.doc = IF "doc" \in look THEN doc[o.target] ELSE v.doc
      /\ w.entry = IF "entry" \in look THEN doc[o.entry] ELSE v.entry
      /\ w.funds = IF "funds" \in look THEN ledger[o.account] ELSE v.funds
  BY DEF Look
<1>5. o.kind \in Kinds /\ v \in View /\ CallOK(o) BY <1>1, CallFacts
<1>6. Len(PlanOf(s)) \in Nat BY <1>5, PlanLength DEF PlanOf
<1> HIDE DEF w
<1>7. o.kind = "reverseEntry" => w.entry = doc[o.entry]
  <2> SUFFICES ASSUME o.kind = "reverseEntry" PROVE w.entry = doc[o.entry]
    OBVIOUS
  <2>1. PlanOf(s) = ReverseEntryPlan(o, v) BY DEF PlanOf, Plan
  <2>2. CASE n = 1
    <3>1. "entry" \in look
      <4> HIDE DEF o, v
      <4> QED BY <2>1, <2>2 DEF ReverseEntryPlan, Step
    <3> QED BY <1>4, <3>1
  <2>3. CASE n > 1 BY <1>3, <1>4, <2>3 DEF ReadStands
  <2> QED BY <1>2, <1>6, <2>2, <2>3
<1>8. o.kind = "unapply" /\ n + 1 > 3 => w.doc = doc[o.target]
  <2> SUFFICES ASSUME o.kind = "unapply", n + 1 > 3 PROVE w.doc = doc[o.target]
    OBVIOUS
  <2>1. PlanOf(s) = AdvancePlan(o, {"doc", "entry"}) BY DEF PlanOf, Plan
  <2>2. n = 3 /\ "doc" \in look
    <3>1. Len(PlanOf(s)) = 3 /\ PlanOf(s)[3].look = {"doc", "entry"}
      <4> HIDE DEF o
      <4> QED BY <2>1 DEF AdvancePlan, Step
    <3>2. n = 3 BY <1>2, <3>1
    <3> QED BY <3>1, <3>2
  <2> QED BY <1>4, <2>2
<1>9. o.kind = "reverseSource" => w.source = source[o.payable]
  <2> SUFFICES ASSUME o.kind = "reverseSource" PROVE w.source = source[o.payable]
    OBVIOUS
  <2>1. PlanOf(s) = ReverseSourcePlan(o) BY DEF PlanOf, Plan
  <2>2. CASE n = 1
    <3>1. "source" \in look
      <4> HIDE DEF o
      <4> QED BY <2>1, <2>2 DEF ReverseSourcePlan, Step
    <3> QED BY <1>4, <3>1
  <2>3. CASE n > 1 BY <1>3, <1>4, <2>3 DEF ReadStands
  <2> QED BY <1>2, <1>6, <2>2, <2>3
<1>10. ASSUME NEW i \in 1..Len(PlanOf(s)'), i < n + 1, "funds" \in PlanOf(s)'[i].look
       PROVE  w.funds <= ledger[o.account]
  <2>1. i \in 1..Len(PlanOf(s)) /\ i \in 1..n /\ "funds" \in PlanOf(s)[i].look BY <1>2, <1>6, <1>10
  <2>2. o.account \in Ledgers
    <3>1. StepOK(o, v, Plan(o, v)[i]) BY <1>1, <1>5, <2>1, PlanStepsOK, CallFacts DEF PlanOf
    <3> QED BY <2>1, <3>1 DEF StepOK, PlanOf, Ledgers
  <2>3. ledger[o.account] \in Int BY <2>2 DEF Shape, TypeOK
  <2>4. CASE "funds" \in look BY <1>4, <2>3, <2>4
  <2>5. CASE "funds" \notin look
    <3>1. i # n BY <2>1, <2>5
    <3>2. i < stage[s] BY <1>2, <1>6, <2>1, <3>1
    <3>3. v.funds <= ledger[o.account] BY <1>3, <2>1, <3>2 DEF ReadStands
    <3> QED BY <1>4, <2>5, <3>3
  <2> QED BY <2>4, <2>5
<1> HIDE DEF look
<1> QED BY <1>1, <1>2, <1>7, <1>8, <1>9, <1>10 DEF ReadStands

\* What a call has read stands until it ends, step by step.
LEMMA StandNext ==
  Shape /\ LocksHeld /\ LockedViewsFresh /\ CallsAgree /\ DocumentsSound /\ ReadsStand /\ [Next]_vars
    => ReadsStand'
<1> SUFFICES ASSUME Shape, LocksHeld, LockedViewsFresh, CallsAgree, DocumentsSound, ReadsStand, [Next]_vars,
                    NEW s \in Requests, Running(s)'
             PROVE  ReadStands(s)'
  BY DEF ReadsStand
<1>1. \A a \in Accounts : ledger[a] \in Int /\ ledger'[a] \in Int
  <2>1. Shape' BY ShapeNext
  <2> QED BY <2>1 DEF Shape, TypeOK, Ledgers
<1>2. CASE Running(s) /\ op'[s] = op[s] /\ view'[s] = view[s] /\ stage'[s] = stage[s]
  <2>1. CASE UNCHANGED tables
    <3>1. UNCHANGED <<source, doc, ledger>> BY <2>1 DEF tables
    <3>2. \A a \in Accounts : ledger'[a] >= ledger[a] BY <1>1, <3>1
    <3> QED BY <1>1, <1>2, <3>1, <3>2, StandStays
  <2>2. ASSUME NEW p \in Payables, RecordSwipe(p) PROVE ReadStands(s)'
    <3>1. doc' = doc /\ \A q \in Payables : source[q] # "ABSENT" => source'[q] = source[q]
      BY <2>2 DEF RecordSwipe, Shape, TypeOK
    <3>2. \A a \in Accounts : ledger'[a] >= ledger[a]
      <4> SUFFICES ASSUME NEW a \in Accounts PROVE ledger'[a] >= ledger[a] OBVIOUS
      <4>1. a \in Ledgers /\ SourceJournal(p)[a] = 0 BY OnAccounts
      <4>2. ledger'[a] = ledger[a] + SourceJournal(p)[a] BY <2>2, <4>1 DEF RecordSwipe, Post
      <4> QED BY <1>1, <4>1, <4>2
    <3> QED BY <1>1, <1>2, <3>1, <3>2, StandStays
  <2>3. ASSUME NEW r \in Requests, Commit(r) PROVE ReadStands(s)'
    <3>1. r # s
      <4>1. Finish(r, Done) BY <2>3, CommitEnds
      <4> QED BY <4>1, FinishTypes
    <3>2. doc[r].kind = "none" /\ r # Nobody
      BY <2>3, CommitEnds, RequestsAssumption DEF Shape, DocumentsOK, Running, Kinds
    <3>3. \A d \in Requests : doc[d].kind = "payout" /\ holder[DocumentLock(d)] = s => doc'[d] = doc[d]
      BY <2>3, <3>1, <3>2, WritesUnderLock
    <3>4. /\ \A d \in Requests : doc[d].kind = "offset" /\ holder[DocumentLock(doc[d].entry)] = s =>
               doc'[d] = doc[d]
          /\ \A p \in Payables : holder[SourceLock(p)] = s => source'[p] = source[p]
      BY <2>3, <3>1, UsesUnderLock
    <3>5. \A a \in Accounts : holder[AccountLock(a)] = s => ledger'[a] >= ledger[a]
      BY <2>3, <3>1, DebitsUnderLock
    <3> QED BY <1>1, <1>2, <3>3, <3>4, <3>5, StandStays
  <2> QED BY <2>1, <2>2, <2>3, TableSteps
<1>3. CASE Begin(s)
  <2>1. stage'[s] = 1 BY <1>3 DEF Begin, Shape, TypeOK
  <2>2. \A i \in 1..Len(PlanOf(s)') : ~(i < 1) OBVIOUS
  <2> QED BY <2>1, <2>2 DEF ReadStands
<1>4. CASE Advance(s) BY <1>4, StandAdvance
<1> QED BY <1>2, <1>3, <1>4, SessionSteps

(* Everything that is known about the calls, their locks and their reads.  *)
Known == /\ Shape /\ LocksHeld /\ LockedViewsFresh
         /\ CallsAgree /\ DocumentsSound /\ ReadsStand

\* What is known of every state holds at first ...
LEMMA KnownInitially == Init => Known
<1> SUFFICES ASSUME Init PROVE Known OBVIOUS
<1>1. Shape /\ LocksHeld /\ LockedViewsFresh BY ShapeInit, LocksInitially, FreshInitially
<1>2. \A r \in Requests : ~Running(r) /\ doc[r] = NoDocument /\ view[r] = NoView
  BY DEF Init, Running, Idle, Call, Kinds
<1>3. DocumentsSound BY <1>2, SoundNone DEF DocumentsSound
<1> QED BY <1>1, <1>2, <1>3 DEF Known, CallsAgree, ReadsStand

\* ... and after every step.
LEMMA KnownNext == Known /\ [Next]_vars => Known'
BY ShapeNext, LocksNext, FreshNext, CallsAgreeNext, SoundNext, StandNext DEF Known

---------------------------------------------------------------------------
(* What each operation does, in terms of the rows as they are: what was    *)
(* read of them is what they say.                                          *)

(* The row of payable p after n more of it has been settled.               *)
PaidMore(p, n) ==
    /\ payable'[p].paid = payable[p].paid + n /\ payable'[p].offset = payable[p].offset
    /\ payable'[p].remaining = payable[p].remaining - n
    /\ payable'[p].status = StatusFor(payable[p].remaining - n)

OffsetMore(p, n) ==
    /\ payable'[p].paid = payable[p].paid /\ payable'[p].offset = payable[p].offset + n
    /\ payable'[p].remaining = payable[p].remaining - n
    /\ payable'[p].status = StatusFor(payable[p].remaining - n)

(* And after n of what had been settled has been given back.               *)
PaidLess(p, n) ==
    /\ payable'[p].paid = payable[p].paid - n /\ payable'[p].offset = payable[p].offset
    /\ payable'[p].remaining = payable[p].remaining + n /\ payable'[p].status = "OPEN"

OffsetLess(p, n) ==
    /\ payable'[p].paid = payable[p].paid /\ payable'[p].offset = payable[p].offset - n
    /\ payable'[p].remaining = payable[p].remaining + n /\ payable'[p].status = "OPEN"

(* The rows but those of the payables in P are left alone.                 *)
OtherPayables(P) == \A q \in Payables \ P : payable'[q] = payable[q]
OtherDocuments(R) == \A d \in Requests \ R : doc'[d] = doc[d]

(* What every operation has in common.                                     *)
LEMMA CommonStep ==
  ASSUME Known, NEW r \in Requests, Commit(r)
  PROVE  /\ TablesOK /\ TablesOK' /\ doc[r].kind = "none"
         /\ op[r] \in Operation /\ view[r] \in View /\ CallOK(op[r]) /\ CallAgrees(op[r])
         /\ Running(r) /\ AtEnd(r) /\ Checks(op[r], view[r])
<1>1. Shape BY DEF Known
<1>2. Running(r) /\ AtEnd(r) /\ Checks(op[r], view[r]) BY CommitEnds
<1>3. TablesOK /\ TablesOK' BY <1>1, ShapeTables, CommitTypes
<1>4. doc[r].kind = "none" BY <1>1, <1>2 DEF Shape, DocumentsOK, Running, Kinds
<1>5. op[r] \in Operation /\ view[r] \in View /\ CallOK(op[r]) BY <1>1, <1>2, CallFacts
<1>6. CallAgrees(op[r]) BY <1>2 DEF Known, CallsAgree
<1> QED BY <1>2, <1>3, <1>4, <1>5, <1>6

(* A payout on a payable.                                                  *)
LEMMA PayStep ==
  ASSUME Known, NEW r \in Requests, Pay(r)
  PROVE  LET o == op[r]
             d == doc'[r]
             row == payable[op[r].payable]
         IN  /\ o.payable \in Payables /\ o.account \in Accounts /\ source[o.payable] # "ABSENT"
             /\ Recorded(d, "payment", o.payable, o.account, None, d.amount, o.amount)
             /\ \A p \in Payables : d.matched[p] = 0
             /\ OtherDocuments({r})
             /\ row.status = "OPEN" /\ d.amount > 0 /\ d.amount <= row.remaining
             /\ d.amount # d.cash => d.amount = row.remaining
             /\ PaidMore(o.payable, d.amount) /\ OtherPayables({o.payable})
             /\ UNCHANGED <<settlement, source>>
             /\ Post(PaymentJournal(d))
             /\ o.account \notin CashAccounts => ledger[o.account] >= o.amount + Charge[o.account]
<1> DEFINE o == op[r]
           v == view[r]
           row == payable[o.payable]
           amount == Settled(o, v)
<1>1. TablesOK /\ o \in Operation /\ v \in View /\ CallOK(o) /\ CallAgrees(o) /\ Running(r) /\ AtEnd(r)
  BY CommonStep DEF Commit
<1>2. o.kind = "pay" /\ PayChecks(o, v) /\ PayEffect(r, o, v) BY <1>1 DEF Pay, Commits, Checks
<1>3. /\ o.payable \in Payables /\ o.account \in Accounts /\ source[o.payable] # "ABSENT"
      /\ o.amount > 0 /\ o.amount \in Int
  BY <1>1, <1>2 DEF CallOK, CallAgrees, Operation
<1>4. v.payable[o.payable] = row BY <1>1, <1>2, FreshAtEnd DEF Known
<1>5. v.funds <= ledger[o.account] /\ v.funds \in Int /\ ledger[o.account] \in Int
      /\ Charge[o.account] \in Nat
  <2>1. v.funds <= ledger[o.account] BY <1>1, <1>2, ReadsAtEnd DEF Known
  <2> QED BY <1>1, <1>3, <2>1, OnAccounts DEF View, TablesOK
<1>6. amount \in Int /\ amount > 0 /\ (amount # o.amount => amount = row.remaining)
  BY <1>1, <1>3, <1>4, SettledIsNear
<1>7. /\ Recorded(doc'[r], "payment", o.payable, o.account, None, amount, o.amount)
      /\ \A p \in Payables : doc'[r].matched[p] = 0
      /\ OtherDocuments({r}) /\ Post(PaymentJournal(doc'[r]))
  BY <1>1, <1>2, <1>3, PayRecords DEF OtherDocuments
<1>8. row \in PayableRow BY <1>1, <1>3 DEF TablesOK
<1>9. row.status = "OPEN" /\ amount <= row.remaining BY <1>2, <1>4 DEF PayChecks
<1>10. o.account \notin CashAccounts => v.funds >= o.amount + Charge[o.account]
  BY <1>2 DEF PayChecks, SufficientFunds
<1>11. /\ payable' = [payable EXCEPT ![o.payable] =
                       [row EXCEPT !.paid = row.paid + amount,
                                   !.remaining = Larger(0, row.remaining - amount),
                                   !.status = StatusFor(Larger(0, row.remaining - amount))]]
       /\ UNCHANGED <<settlement, source>>
  BY <1>1, <1>2, <1>3, <1>4 DEF PayEffect, TablesOK
<1> HIDE DEF amount, o, v
<1>12. row.remaining \in Int /\ Larger(0, row.remaining - amount) = row.remaining - amount
  BY <1>6, <1>8, <1>9 DEF PayableRow, Larger
<1>13. payable'[o.payable] = [row EXCEPT !.paid = row.paid + amount,
                                         !.remaining = row.remaining - amount,
                                         !.status = StatusFor(row.remaining - amount)]
       /\ OtherPayables({o.payable})
  BY <1>1, <1>3, <1>11, <1>12 DEF TablesOK, OtherPayables
<1>14. PaidMore(o.payable, amount) BY <1>8, <1>13 DEF PaidMore, PayableRow
<1>15. o.account \notin CashAccounts => ledger[o.account] >= o.amount + Charge[o.account]
  BY <1>3, <1>5, <1>10
<1>16. doc'[r].amount = amount /\ doc'[r].cash = o.amount BY <1>7 DEF Recorded
<1> QED BY <1>3, <1>6, <1>7, <1>9, <1>11, <1>13, <1>14, <1>15, <1>16 DEF o

(* A Pay Out of the customer.                                              *)
LEMMA PayOutStep ==
  ASSUME Known, NEW r \in Requests, PayOut(r)
  PROVE  LET o == op[r]
             d == doc'[r]
             p == op[r].payable
         IN  /\ o.account \in Accounts /\ o.part \in Nat /\ (p \notin Payables => o.part = 0)
             /\ Recorded(d, "payout", None, o.account, None, o.amount, o.amount)
             /\ d.toPayable >= o.part /\ d.toReceivable >= 0
             /\ \A q \in Payables : d.matched[q] = IF q = p THEN o.part ELSE 0
             /\ OtherDocuments({r})
             /\ p \in Payables => /\ source[p] = "COMPLETED" /\ o.part <= payable[p].remaining
                                  /\ PaidMore(p, o.part)
             /\ OtherPayables({p})
             /\ UNCHANGED <<settlement, source>>
             /\ Post(PayOutJournal(d))
             /\ o.account \notin CashAccounts => ledger[o.account] >= o.amount + Charge[o.account]
<1> DEFINE o == op[r]
           v == view[r]
           p == o.payable
           row == payable[p]
<1>1. TablesOK /\ o \in Operation /\ v \in View /\ CallOK(o) /\ CallAgrees(o) /\ Running(r) /\ AtEnd(r)
  BY CommonStep DEF Commit
<1>2. o.kind = "payout" /\ PayOutChecks(o, v) /\ PayOutEffect(r, o, v)
  BY <1>1 DEF PayOut, Commits, Checks
<1>3. /\ o.account \in Accounts /\ o.amount \in Nat /\ o.part \in Nat /\ o.part <= o.amount
      /\ p \in Payables \cup {None} /\ None \notin Payables /\ (p \notin Payables => o.part = 0)
  BY <1>1, <1>2, ConstantsAssumption DEF CallOK, CallAgrees, Operation
<1>4. p \in Payables => v.payable[p] = row /\ v.source = source[p]
  BY <1>1, <1>2, <1>3, FreshAtEnd DEF Known
<1>5. v.funds <= ledger[o.account] /\ v.funds \in Int /\ ledger[o.account] \in Int
      /\ Charge[o.account] \in Nat
  <2>1. v.funds <= ledger[o.account] BY <1>1, <1>2, ReadsAtEnd DEF Known
  <2> QED BY <1>1, <1>3, <2>1, OnAccounts DEF View, TablesOK
<1>6. GenericPayable(o, v) \in Nat /\ GenericPayable(o, v) <= o.amount - o.part
  <2>1. v.claim \in Int BY <1>1 DEF View
  <2> QED BY <1>3, <2>1 DEF GenericPayable, Larger, Smaller
<1>7. /\ Recorded(doc'[r], "payout", None, o.account, None, o.amount, o.amount)
      /\ doc'[r].toPayable = o.part + GenericPayable(o, v)
      /\ doc'[r].toReceivable = o.amount - o.part - GenericPayable(o, v)
      /\ \A q \in Payables : doc'[r].matched[q] = IF q = p THEN o.part ELSE 0
      /\ OtherDocuments({r}) /\ Post(PayOutJournal(doc'[r]))
  BY <1>1, <1>2, <1>3, PayOutRecords DEF OtherDocuments
<1>8. doc'[r].toPayable >= o.part /\ doc'[r].toReceivable >= 0 BY <1>3, <1>6, <1>7
<1>9. o.account \notin CashAccounts => ledger[o.account] >= o.amount + Charge[o.account]
  BY <1>2, <1>3, <1>5 DEF PayOutChecks, SufficientFunds
<1>10. UNCHANGED <<settlement, source>> BY <1>2 DEF PayOutEffect
<1>11. OtherPayables({p})
  BY <1>1, <1>2, <1>3 DEF PayOutEffect, OtherPayables, TablesOK
<1>12. ASSUME p \in Payables
       PROVE  source[p] = "COMPLETED" /\ o.part <= row.remaining /\ PaidMore(p, o.part)
  <2>1. source[p] = "COMPLETED" /\ o.part <= row.remaining
    BY <1>2, <1>3, <1>4, <1>12 DEF PayOutChecks
  <2>2. row \in PayableRow BY <1>1, <1>12 DEF TablesOK
  <2>3. Larger(0, row.remaining - o.part) = row.remaining - o.part
    BY <1>3, <2>1, <2>2 DEF PayableRow, Larger
  <2>4. payable'[p] = [row EXCEPT !.paid = row.paid + o.part,
                                  !.remaining = row.remaining - o.part,
                                  !.status = StatusFor(row.remaining - o.part)]
    BY <1>1, <1>2, <1>3, <1>4, <1>12, <2>3 DEF PayOutEffect, TablesOK
  <2> HIDE DEF o
  <2> QED BY <2>1, <2>2, <2>4 DEF PaidMore, PayableRow
<1> HIDE DEF o, v
<1> QED BY <1>3, <1>7, <1>8, <1>9, <1>10, <1>11, <1>12 DEF o

(* A recorded Pay Out is matched to a payable.                             *)
LEMMA MatchStep ==
  ASSUME Known, NEW r \in Requests, Match(r)
  PROVE  LET o == op[r]
             e == op[r].entry
             p == op[r].payable
         IN  /\ e \in Requests /\ p \in Payables /\ doc[e].kind = "payout"
             /\ source[p] # "ABSENT" /\ payable[p].status = "OPEN"
             /\ o.amount \in Nat \ {0} /\ o.amount <= payable[p].remaining
             /\ doc[e].status = "COMPLETED" /\ doc[e].matched[p] = 0
             /\ Matched(doc[e]) + o.amount <= doc[e].toPayable
             /\ doc'[e] \in Document /\ SameTerms(doc'[e], doc[e])
             /\ doc'[e].applied = doc[e].applied /\ doc'[e].status = doc[e].status
             /\ doc'[e].matched[p] = o.amount
             /\ \A q \in Payables \ {p} : doc'[e].matched[q] = doc[e].matched[q]
             /\ OtherDocuments({e})
             /\ PaidMore(p, o.amount) /\ OtherPayables({p})
             /\ UNCHANGED <<settlement, source, ledger>>
<1> DEFINE o == op[r]
           v == view[r]
           e == o.entry
           p == o.payable
           row == payable[p]
<1>1. TablesOK /\ o \in Operation /\ v \in View /\ CallOK(o) /\ CallAgrees(o) /\ Running(r) /\ AtEnd(r)
  BY CommonStep DEF Commit
<1>2. o.kind = "match" /\ MatchChecks(o, v) /\ MatchEffect(r, o, v)
  BY <1>1 DEF Match, Commits, Checks
<1>3. /\ p \in Payables /\ e \in Requests /\ source[p] # "ABSENT" /\ doc[e].kind = "payout"
      /\ o.amount \in Nat \ {0} /\ o.amount \in Int
  BY <1>1, <1>2 DEF CallOK, CallAgrees, Operation
<1>4. v.payable[p] = row /\ v.entry = doc[e]
  BY <1>1, <1>2, FreshAtEnd, ReadsAtEnd DEF Known
<1>5. row \in PayableRow /\ doc[e] \in Document BY <1>1, <1>3 DEF TablesOK
<1>6. /\ row.status = "OPEN" /\ row.remaining >= o.amount /\ doc[e].status = "COMPLETED"
      /\ doc[e].toPayable - Matched(doc[e]) >= o.amount /\ doc[e].matched[p] = 0
  BY <1>2, <1>4 DEF MatchChecks
<1>7. /\ doc'[e] \in Document /\ SameTerms(doc'[e], doc[e])
      /\ doc'[e].applied = doc[e].applied /\ doc'[e].status = doc[e].status
      /\ doc'[e].matched[p] = o.amount
      /\ \A q \in Payables \ {p} : doc'[e].matched[q] = doc[e].matched[q]
      /\ OtherDocuments({e})
  BY <1>1, <1>2, <1>3, MatchRecords DEF OtherDocuments
<1>8. Matched(doc[e]) \in Int /\ doc[e].toPayable \in Int
  <2>1. doc[e].matched \in [Payables -> Int] /\ IsFiniteSet(Payables)
    BY <1>5, ConstantsAssumption DEF Document
  <2> QED BY <1>5, <2>1, SumType DEF Matched, Document
<1>9. row.remaining \in Int BY <1>5 DEF PayableRow
<1>10. payable'[p] = [row EXCEPT !.paid = row.paid + o.amount, !.remaining = row.remaining - o.amount,
                                 !.status = StatusFor(row.remaining - o.amount)]
       /\ OtherPayables({p}) /\ UNCHANGED <<settlement, source, ledger>>
  BY <1>1, <1>2, <1>3, <1>4 DEF MatchEffect, OtherPayables, TablesOK
<1> HIDE DEF o, v
<1>11. PaidMore(p, o.amount) BY <1>5, <1>10 DEF PaidMore, PayableRow
<1>12. o.amount <= row.remaining /\ Matched(doc[e]) + o.amount <= doc[e].toPayable
  BY <1>3, <1>6, <1>8, <1>9
<1> QED BY <1>3, <1>6, <1>7, <1>10, <1>11, <1>12 DEF o

(* And the match is undone.                                                *)
LEMMA UnmatchStep ==
  ASSUME Known, NEW r \in Requests, Unmatch(r)
  PROVE  LET e == op[r].entry
             p == op[r].payable
             n == doc[op[r].entry].matched[op[r].payable]
         IN  /\ e \in Requests /\ p \in Payables /\ doc[e].kind = "payout" /\ source[p] # "ABSENT"
             /\ n \in Int /\ n > 0 /\ n <= payable[p].paid /\ payable[p].status \notin Void
             /\ doc'[e] \in Document /\ SameTerms(doc'[e], doc[e])
             /\ doc'[e].applied = doc[e].applied /\ doc'[e].status = doc[e].status
             /\ doc'[e].matched[p] = 0
             /\ \A q \in Payables \ {p} : doc'[e].matched[q] = doc[e].matched[q]
             /\ OtherDocuments({e})
             /\ PaidLess(p, n) /\ OtherPayables({p})
             /\ UNCHANGED <<settlement, source, ledger>>
<1> DEFINE o == op[r]
           v == view[r]
           e == o.entry
           p == o.payable
           n == doc[e].matched[p]
           row == payable[p]
<1>1. TablesOK /\ o \in Operation /\ v \in View /\ CallOK(o) /\ CallAgrees(o) /\ Running(r) /\ AtEnd(r)
  BY CommonStep DEF Commit
<1>2. o.kind = "unmatch" /\ UnmatchChecks(o, v) /\ UnmatchEffect(r, o, v)
  BY <1>1 DEF Unmatch, Commits, Checks
<1>3. p \in Payables /\ e \in Requests /\ source[p] # "ABSENT" /\ doc[e].kind = "payout"
  BY <1>1, <1>2 DEF CallOK
<1>4. v.payable[p] = row /\ v.entry = doc[e]
  BY <1>1, <1>2, FreshAtEnd, ReadsAtEnd DEF Known
<1>5. row \in PayableRow /\ doc[e] \in Document BY <1>1, <1>3 DEF TablesOK
<1>6. n \in Int /\ row.paid \in Int BY <1>3, <1>5 DEF Document, PayableRow
<1>7. n > 0 /\ row.paid >= n /\ row.status \notin Void BY <1>2, <1>4 DEF UnmatchChecks
<1>8. /\ doc'[e] \in Document /\ SameTerms(doc'[e], doc[e])
      /\ doc'[e].applied = doc[e].applied /\ doc'[e].status = doc[e].status
      /\ doc'[e].matched[p] = 0
      /\ \A q \in Payables \ {p} : doc'[e].matched[q] = doc[e].matched[q]
      /\ OtherDocuments({e})
  BY <1>1, <1>2, <1>3, MatchRecords DEF OtherDocuments
<1>9. payable'[p] = [row EXCEPT !.paid = row.paid - n, !.remaining = row.remaining + n, !.status = "OPEN"]
      /\ OtherPayables({p}) /\ UNCHANGED <<settlement, source, ledger>>
  BY <1>1, <1>2, <1>3, <1>4 DEF UnmatchEffect, OtherPayables, TablesOK
<1>10. n <= row.paid BY <1>6, <1>7
<1> HIDE DEF o, v
<1>11. PaidLess(p, n)
  <2> HIDE DEF n, p
  <2> QED BY <1>5, <1>9 DEF PaidLess, PayableRow
<1> QED BY <1>3, <1>6, <1>7, <1>8, <1>9, <1>10, <1>11 DEF o

(* An advance is settled against a payable.                                *)
LEMMA ApplyStep ==
  ASSUME Known, NEW r \in Requests, Apply(r)
  PROVE  LET o == op[r]
             e == op[r].entry
             p == op[r].payable
         IN  /\ e \in Requests /\ e # r /\ p \in Payables /\ doc[e].kind = "payout"
             /\ source[p] # "ABSENT" /\ payable[p].status = "OPEN"
             /\ o.amount \in Nat \ {0} /\ o.amount <= payable[p].remaining
             /\ doc[e].status = "COMPLETED" /\ doc[e].applied + o.amount <= doc[e].toReceivable
             /\ Recorded(doc'[r], "offset", p, None, e, o.amount, 0)
             /\ \A q \in Payables : doc'[r].matched[q] = 0
             /\ doc'[e] \in Document /\ SameTerms(doc'[e], doc[e])
             /\ doc'[e].applied = doc[e].applied + o.amount
             /\ doc'[e].status = doc[e].status /\ doc'[e].matched = doc[e].matched
             /\ OtherDocuments({r, e})
             /\ OffsetMore(p, o.amount) /\ OtherPayables({p})
             /\ UNCHANGED <<settlement, source>>
             /\ Post(OffsetJournal(doc'[r]))
<1> DEFINE o == op[r]
           v == view[r]
           e == o.entry
           p == o.payable
           row == payable[p]
<1>1. /\ TablesOK /\ o \in Operation /\ v \in View /\ CallOK(o) /\ CallAgrees(o) /\ Running(r) /\ AtEnd(r)
      /\ doc[r].kind = "none"
  BY CommonStep DEF Commit
<1>2. o.kind = "apply" /\ ApplyChecks(o, v) /\ ApplyEffect(r, o, v)
  BY <1>1 DEF Apply, Commits, Checks
<1>3. /\ p \in Payables /\ e \in Requests /\ source[p] # "ABSENT" /\ doc[e].kind = "payout"
      /\ o.amount \in Nat \ {0} /\ o.amount \in Int /\ e # r
  BY <1>1, <1>2 DEF CallOK, CallAgrees, Operation
<1>4. v.payable[p] = row /\ v.entry = doc[e]
  BY <1>1, <1>2, FreshAtEnd, ReadsAtEnd DEF Known
<1>5. row \in PayableRow /\ doc[e] \in Document BY <1>1, <1>3 DEF TablesOK
<1>6. /\ row.status = "OPEN" /\ row.remaining >= o.amount /\ doc[e].status = "COMPLETED"
      /\ doc[e].toReceivable - doc[e].applied >= o.amount
  BY <1>2, <1>4 DEF ApplyChecks
<1>7. /\ Recorded(doc'[r], "offset", p, None, e, o.amount, 0)
      /\ \A q \in Payables : doc'[r].matched[q] = 0
      /\ doc'[e] \in Document /\ SameTerms(doc'[e], doc[e])
      /\ doc'[e].applied = doc[e].applied + o.amount
      /\ doc'[e].status = doc[e].status /\ doc'[e].matched = doc[e].matched
      /\ OtherDocuments({r, e}) /\ Post(OffsetJournal(doc'[r]))
  BY <1>1, <1>2, <1>3, ApplyRecords DEF OtherDocuments
<1>8. row.remaining \in Int /\ doc[e].toReceivable \in Int /\ doc[e].applied \in Int
  BY <1>5 DEF PayableRow, Document
<1>9. Larger(0, row.remaining - o.amount) = row.remaining - o.amount BY <1>3, <1>6, <1>8 DEF Larger
<1>10. payable'[p] = [row EXCEPT !.offset = row.offset + o.amount, !.remaining = row.remaining - o.amount,
                                 !.status = StatusFor(row.remaining - o.amount)]
       /\ OtherPayables({p}) /\ UNCHANGED <<settlement, source>>
  BY <1>1, <1>2, <1>3, <1>4, <1>9 DEF ApplyEffect, OtherPayables, TablesOK
<1> HIDE DEF o, v
<1>11. OffsetMore(p, o.amount) BY <1>5, <1>10 DEF OffsetMore, PayableRow
<1>12. o.amount <= row.remaining /\ doc[e].applied + o.amount <= doc[e].toReceivable
  BY <1>3, <1>6, <1>8
<1> QED BY <1>3, <1>6, <1>7, <1>10, <1>11, <1>12 DEF o

(* And the advance is taken back.                                          *)
LEMMA UnapplyStep ==
  ASSUME Known, NEW r \in Requests, Unapply(r)
  PROVE  LET e == op[r].entry
             t == op[r].target
             p == op[r].payable
             n == doc[op[r].target].amount
         IN  /\ e \in Requests /\ t \in Requests /\ e # t /\ p \in Payables
             /\ doc[e].kind = "payout" /\ doc[e].status = "COMPLETED" /\ source[p] # "ABSENT"
             /\ doc[t].kind = "offset" /\ doc[t].status = "COMPLETED"
             /\ doc[t].entry = e /\ doc[t].payable = p
             /\ n \in Int /\ n > 0 /\ n <= payable[p].offset /\ payable[p].status \notin Void
             /\ n <= doc[e].applied
             /\ doc'[t] \in Document /\ SameTerms(doc'[t], doc[t]) /\ doc'[t].status = "REVERSED"
             /\ doc'[t].matched = doc[t].matched
             /\ doc'[e] \in Document /\ SameTerms(doc'[e], doc[e]) /\ doc'[e].applied = doc[e].applied - n
             /\ doc'[e].status = doc[e].status /\ doc'[e].matched = doc[e].matched
             /\ OtherDocuments({t, e})
             /\ OffsetLess(p, n) /\ OtherPayables({p})
             /\ UNCHANGED <<settlement, source>>
             /\ PostReversal(OffsetJournal(doc[t]))
<1> DEFINE o == op[r]
           v == view[r]
           e == o.entry
           t == o.target
           p == o.payable
           n == doc[t].amount
           row == payable[p]
<1>1. TablesOK /\ o \in Operation /\ v \in View /\ CallOK(o) /\ CallAgrees(o) /\ Running(r) /\ AtEnd(r)
  BY CommonStep DEF Commit
<1>2. o.kind = "unapply" /\ UnapplyChecks(o, v) /\ UnapplyEffect(r, o, v)
  BY <1>1 DEF Unapply, Commits, Checks
<1>3. /\ p \in Payables /\ e \in Requests /\ t \in Requests /\ source[p] # "ABSENT"
      /\ doc[e].kind = "payout" /\ doc[t].kind = "offset" /\ e # t
      /\ doc[t].payable = p /\ doc[t].entry = e
  BY <1>1, <1>2 DEF CallOK, CallAgrees
<1>4. v.payable[p] = row /\ v.entry = doc[e] /\ v.doc = doc[t]
  BY <1>1, <1>2, FreshAtEnd, ReadsAtEnd DEF Known
<1>5. row \in PayableRow /\ doc[e] \in Document /\ doc[t] \in Document BY <1>1, <1>3 DEF TablesOK
<1>6. /\ n \in Int /\ n > 0 /\ row.offset \in Int /\ doc[e].applied \in Int
  <2>1. DocumentOK(doc[t]) BY <1>3 DEF Known, Shape, DocumentsOK
  <2> QED BY <1>3, <1>5, <2>1 DEF Document, PayableRow, DocumentOK
<1>7. /\ doc[t].status = "COMPLETED" /\ row.status \notin Void /\ doc[e].status = "COMPLETED"
      /\ row.offset >= n /\ doc[e].applied >= n
  BY <1>2, <1>4 DEF UnapplyChecks
<1>8. /\ doc'[t] \in Document /\ SameTerms(doc'[t], doc[t]) /\ doc'[t].status = "REVERSED"
      /\ doc'[t].matched = doc[t].matched
      /\ doc'[e] \in Document /\ SameTerms(doc'[e], doc[e]) /\ doc'[e].applied = doc[e].applied - n
      /\ doc'[e].status = doc[e].status /\ doc'[e].matched = doc[e].matched
      /\ OtherDocuments({t, e})
  BY <1>1, <1>2, <1>3, <1>4, UnapplyRecords DEF OtherDocuments
<1>9. payable'[p] = [row EXCEPT !.offset = row.offset - n, !.remaining = row.remaining + n, !.status = "OPEN"]
      /\ OtherPayables({p}) /\ UNCHANGED <<settlement, source>> /\ PostReversal(OffsetJournal(doc[t]))
  BY <1>1, <1>2, <1>3, <1>4 DEF UnapplyEffect, OtherPayables, TablesOK
<1>10. n <= row.offset /\ n <= doc[e].applied BY <1>6, <1>7
<1> HIDE DEF o, v
<1>11. OffsetLess(p, n)
  <2> HIDE DEF n, p
  <2> QED BY <1>5, <1>9 DEF OffsetLess, PayableRow
<1> QED BY <1>3, <1>6, <1>7, <1>8, <1>9, <1>10, <1>11 DEF o

(* A swipe is cancelled or reversed.                                       *)
LEMMA VoidStep ==
  ASSUME Known, NEW r \in Requests, Cancel(r) \/ ReverseSource(r)
  PROVE  LET p == op[r].payable
         IN  /\ p \in Payables /\ source[p] # "ABSENT"
             /\ \/ op[r].kind = "cancel" /\ payable[p].status \notin Void
                \/ op[r].kind = "reverseSource" /\ source[p] = "COMPLETED"
             /\ payable[p].paid = 0 /\ payable[p].offset = 0 /\ view[r].settlement.received = 0
             /\ payable'[p].paid = 0 /\ payable'[p].offset = 0 /\ payable'[p].remaining = 0
             /\ payable'[p].status \in Void /\ OtherPayables({p})
             /\ settlement'[p].received = settlement[p].received
             /\ settlement'[p].remaining = 0 /\ settlement'[p].status = "REVERSED"
             /\ \A q \in Payables \ {p} : settlement'[q] = settlement[q] /\ source'[q] = source[q]
             /\ source'[p] = "REVERSED"
             /\ UNCHANGED doc
             /\ PostReversal(SourceJournal(p))
<1> DEFINE o == op[r]
           v == view[r]
           p == o.payable
           row == payable[p]
<1>1. TablesOK /\ o \in Operation /\ v \in View /\ CallOK(o) /\ CallAgrees(o) /\ Running(r) /\ AtEnd(r)
  BY CommonStep DEF Commit
<1>2. /\ VoidChecks(o, v)
      /\ \/ o.kind = "cancel" /\ v.payable[p].status \notin Void /\ VoidEffect(p, "CANCELLED")
         \/ o.kind = "reverseSource" /\ v.source = "COMPLETED" /\ VoidEffect(p, "REVERSED")
  <2>1. CASE Cancel(r) BY <1>1, <2>1 DEF Cancel, Commits, Checks, CancelChecks, CancelEffect
  <2>2. CASE ReverseSource(r)
    BY <1>1, <2>2 DEF ReverseSource, Commits, Checks, ReverseSourceChecks, ReverseSourceEffect
  <2> QED BY <2>1, <2>2
<1>3. p \in Payables /\ source[p] # "ABSENT" BY <1>1, <1>2 DEF CallOK
<1>4. v.payable[p] = row /\ (o.kind = "reverseSource" => v.source = source[p])
  BY <1>1, <1>2, FreshAtEnd, ReadsAtEnd DEF Known
<1>5. row \in PayableRow /\ settlement[p] \in SettlementRow BY <1>1, <1>3 DEF TablesOK
<1>6. row.paid = 0 /\ row.offset = 0 /\ v.settlement.received = 0 BY <1>2, <1>4 DEF VoidChecks
<1>7. PICK status \in {"CANCELLED", "REVERSED"} : VoidEffect(p, status) BY <1>2
<1>8. /\ payable'[p] = [row EXCEPT !.status = status, !.remaining = 0] /\ OtherPayables({p})
      /\ settlement'[p] = [settlement[p] EXCEPT !.status = "REVERSED", !.remaining = 0]
      /\ \A q \in Payables \ {p} : settlement'[q] = settlement[q] /\ source'[q] = source[q]
      /\ source'[p] = "REVERSED" /\ UNCHANGED doc /\ PostReversal(SourceJournal(p))
  BY <1>1, <1>3, <1>7 DEF VoidEffect, TablesOK, OtherPayables
<1>kind. \/ o.kind = "cancel" /\ row.status \notin Void
         \/ o.kind = "reverseSource" /\ source[p] = "COMPLETED"
  BY <1>2, <1>4
<1> HIDE DEF o, v, p
<1>9. /\ payable'[p].paid = 0 /\ payable'[p].offset = 0 /\ payable'[p].remaining = 0
      /\ payable'[p].status \in Void
  BY <1>5, <1>6, <1>8 DEF PayableRow, Void
<1>10. /\ settlement'[p].received = settlement[p].received /\ settlement'[p].remaining = 0
       /\ settlement'[p].status = "REVERSED"
  BY <1>5, <1>8 DEF SettlementRow
<1> QED BY <1>3, <1>6, <1>8, <1>9, <1>10, <1>kind DEF o, v, p

(* A payout is reversed; its payable is written as it was read, which may  *)
(* be out of date.                                                         *)
LEMMA ReversePaymentStep ==
  ASSUME Known, NEW r \in Requests, ReversePayment(r)
  PROVE  LET t == op[r].target
             p == op[r].payable
             row == view[r].payable[op[r].payable]
             paid == Larger(0, view[r].payable[op[r].payable].paid - doc[op[r].target].amount)
         IN  /\ t \in Requests /\ p \in Payables /\ source[p] # "ABSENT" /\ row \in PayableRow
             /\ doc[t].kind = "payment" /\ doc[t].status = "COMPLETED" /\ doc[t].payable = p
             /\ doc[t].account \in Accounts
             /\ doc'[t] \in Document /\ SameTerms(doc'[t], doc[t]) /\ doc'[t].status = "REVERSED"
             /\ doc'[t].applied = doc[t].applied /\ doc'[t].matched = doc[t].matched
             /\ OtherDocuments({t})
             /\ payable'[p].paid = paid /\ payable'[p].offset = payable[p].offset
             /\ payable'[p].remaining = Original[p] - paid - row.offset
             /\ payable'[p].status = StatusFor(Original[p] - paid - row.offset)
             /\ OtherPayables({p})
             /\ UNCHANGED <<settlement, source>>
             /\ PostReversal(PaymentJournal(doc[t]))
<1> DEFINE o == op[r]
           v == view[r]
           t == o.target
           p == o.payable
           row == v.payable[p]
           paid == Larger(0, row.paid - doc[t].amount)
           remaining == Original[p] - paid - row.offset
<1>1. TablesOK /\ o \in Operation /\ v \in View /\ CallOK(o) /\ CallAgrees(o) /\ Running(r) /\ AtEnd(r)
  BY CommonStep DEF Commit
<1>2. o.kind = "reversePayment" /\ ReversePaymentChecks(o, v) /\ ReversePaymentEffect(r, o, v)
  BY <1>1 DEF ReversePayment, Commits, Checks
<1>3. /\ p \in Payables /\ t \in Requests /\ source[p] # "ABSENT"
      /\ doc[t].kind = "payment" /\ doc[t].payable = p
  BY <1>1, <1>2 DEF CallOK
<1>4. v.doc = doc[t] BY <1>1, <1>2, ReadsAtEnd DEF Known
<1>5. payable[p] \in PayableRow /\ row \in PayableRow /\ doc[t] \in Document
  BY <1>1, <1>3 DEF TablesOK, View
<1>6. doc[t].account \in Accounts BY <1>3 DEF Known, Shape, DocumentsOK, DocumentOK
<1>7. doc[t].status = "COMPLETED" BY <1>2, <1>4 DEF ReversePaymentChecks
<1>8. /\ doc'[t] \in Document /\ SameTerms(doc'[t], doc[t]) /\ doc'[t].status = "REVERSED"
      /\ doc'[t].applied = doc[t].applied /\ doc'[t].matched = doc[t].matched
      /\ OtherDocuments({t})
  <2>1. doc' = [doc EXCEPT ![t].status = "REVERSED"] BY <1>2 DEF ReversePaymentEffect
  <2> QED BY <1>1, <1>3, <2>1, ReversalRecords DEF OtherDocuments, TablesOK
<1>9. payable'[p] = [payable[p] EXCEPT !.paid = paid, !.remaining = remaining, !.status = StatusFor(remaining)]
      /\ OtherPayables({p}) /\ UNCHANGED <<settlement, source>> /\ PostReversal(PaymentJournal(doc[t]))
  BY <1>1, <1>2, <1>3, <1>4 DEF ReversePaymentEffect, OtherPayables, TablesOK
<1>10. /\ payable'[p].paid = paid /\ payable'[p].offset = payable[p].offset
       /\ payable'[p].remaining = remaining /\ payable'[p].status = StatusFor(remaining)
  <2> HIDE DEF paid, remaining, o, v, p
  <2> QED BY <1>5, <1>9 DEF PayableRow
<1> HIDE DEF o, v
<1> QED BY <1>3, <1>5, <1>6, <1>7, <1>8, <1>9, <1>10 DEF o, v

(* A Pay Out is reversed: each payable it was matched to is given back.    *)
LEMMA ReverseEntryStep ==
  ASSUME Known, NEW r \in Requests, ReverseEntry(r)
  PROVE  LET e == op[r].entry
             paid(p) == Larger(0, payable[p].paid - doc[op[r].entry].matched[p])
             remaining(p) == Larger(0, Original[p] - paid(p) - payable[p].offset)
         IN  /\ e \in Requests /\ doc[e].kind = "payout" /\ doc[e].status = "COMPLETED"
             /\ doc[e].applied = 0 /\ doc[e].account \in Accounts
             /\ doc'[e] \in Document /\ SameTerms(doc'[e], doc[e]) /\ doc'[e].status = "REVERSED"
             /\ doc'[e].applied = doc[e].applied /\ doc'[e].matched = doc[e].matched
             /\ OtherDocuments({e})
             /\ \A p \in Payables :
                  IF doc[e].matched[p] > 0
                  THEN /\ payable'[p].paid = paid(p) /\ payable'[p].offset = payable[p].offset
                       /\ payable'[p].remaining = remaining(p)
                       /\ payable'[p].status = StatusFor(remaining(p))
                  ELSE payable'[p] = payable[p]
             /\ UNCHANGED <<settlement, source>>
             /\ PostReversal(PayOutJournal(doc[e]))
<1> DEFINE o == op[r]
           v == view[r]
           e == o.entry
           paid(p) == Larger(0, payable[p].paid - doc[e].matched[p])
           remaining(p) == Larger(0, Original[p] - paid(p) - payable[p].offset)
<1>1. TablesOK /\ o \in Operation /\ v \in View /\ CallOK(o) /\ CallAgrees(o) /\ Running(r) /\ AtEnd(r)
  BY CommonStep DEF Commit
<1>2. o.kind = "reverseEntry" /\ ReverseEntryChecks(o, v) /\ ReverseEntryEffect(r, o, v)
  BY <1>1 DEF ReverseEntry, Commits, Checks
<1>3. e \in Requests /\ doc[e].kind = "payout" BY <1>1, <1>2 DEF CallOK
<1>4. v.entry = doc[e] BY <1>1, <1>2, ReadsAtEnd DEF Known
<1>5. \A p \in Payables : doc[e].matched[p] > 0 => v.payable[p] = payable[p]
  BY <1>1, <1>2, <1>4, FreshAtEnd DEF Known, MatchedPayables
<1>6. doc[e].account \in Accounts BY <1>3 DEF Known, Shape, DocumentsOK, DocumentOK
<1>7. doc[e].status = "COMPLETED" /\ doc[e].applied = 0 BY <1>2, <1>4 DEF ReverseEntryChecks
<1>8. /\ doc'[e] \in Document /\ SameTerms(doc'[e], doc[e]) /\ doc'[e].status = "REVERSED"
      /\ doc'[e].applied = doc[e].applied /\ doc'[e].matched = doc[e].matched
      /\ OtherDocuments({e})
  <2>1. doc' = [doc EXCEPT ![e].status = "REVERSED"] BY <1>2 DEF ReverseEntryEffect
  <2> QED BY <1>1, <1>3, <2>1, ReversalRecords DEF OtherDocuments, TablesOK
<1>9. UNCHANGED <<settlement, source>> /\ PostReversal(PayOutJournal(doc[e]))
  BY <1>2, <1>4 DEF ReverseEntryEffect
<1>10. ASSUME NEW p \in Payables
       PROVE  IF doc[e].matched[p] > 0
              THEN /\ payable'[p].paid = paid(p) /\ payable'[p].offset = payable[p].offset
                   /\ payable'[p].remaining = remaining(p)
                   /\ payable'[p].status = StatusFor(remaining(p))
              ELSE payable'[p] = payable[p]
  <2>1. payable'[p] = IF doc[e].matched[p] > 0
                      THEN [payable[p] EXCEPT !.paid = paid(p), !.remaining = remaining(p),
                                              !.status = StatusFor(remaining(p))]
                      ELSE payable[p]
    BY <1>2, <1>4, <1>5 DEF ReverseEntryEffect
  <2>2. payable[p] \in PayableRow BY <1>1 DEF TablesOK
  <2> DEFINE n == paid(p)
             m == remaining(p)
  <2> HIDE DEF n, m, o
  <2>3. doc[e].matched[p] > 0 => payable'[p] = [payable[p] EXCEPT !.paid = n, !.remaining = m,
                                                                 !.status = StatusFor(m)]
    BY <2>1 DEF n, m
  <2>4. doc[e].matched[p] > 0 => /\ payable'[p].paid = n /\ payable'[p].offset = payable[p].offset
                                 /\ payable'[p].remaining = m /\ payable'[p].status = StatusFor(m)
    BY <2>2, <2>3 DEF PayableRow
  <2> QED BY <2>1, <2>4 DEF n, m
<1> HIDE DEF o, v
<1> QED BY <1>3, <1>6, <1>7, <1>8, <1>9, <1>10 DEF o

(* The provider pays.                                                      *)
LEMMA ReceiveStep ==
  ASSUME Known, NEW r \in Requests, Receive(r)
  PROVE  LET o == op[r]
             p == op[r].payable
         IN  /\ p \in Payables /\ o.account \in Accounts /\ source[p] # "ABSENT"
             /\ o.amount \in Nat \ {0} /\ o.amount <= settlement[p].remaining
             /\ settlement[p].status = "OPEN"
             /\ Recorded(doc'[r], "receipt", p, o.account, None, o.amount, o.amount)
             /\ \A q \in Payables : doc'[r].matched[q] = 0
             /\ OtherDocuments({r})
             /\ settlement'[p].received = settlement[p].received + o.amount
             /\ settlement'[p].remaining = settlement[p].remaining - o.amount
             /\ settlement'[p].status # "REVERSED"
             /\ \A q \in Payables \ {p} : settlement'[q] = settlement[q]
             /\ UNCHANGED <<payable, source>>
             /\ Post(ReceiptJournal(doc'[r]))
<1> DEFINE o == op[r]
           v == view[r]
           p == o.payable
           row == settlement[p]
<1>1. TablesOK /\ o \in Operation /\ v \in View /\ CallOK(o) /\ CallAgrees(o) /\ Running(r) /\ AtEnd(r)
  BY CommonStep DEF Commit
<1>2. o.kind = "receive" /\ ReceiveChecks(o, v) /\ ReceiveEffect(r, o, v)
  BY <1>1 DEF Receive, Commits, Checks
<1>3. /\ p \in Payables /\ o.account \in Accounts /\ source[p] # "ABSENT"
      /\ o.amount \in Nat \ {0} /\ o.amount \in Int
  BY <1>1, <1>2 DEF CallOK, CallAgrees, Operation
<1>4. v.settlement = row BY <1>1, <1>2, ReadsAtEnd DEF Known
<1>5. row \in SettlementRow BY <1>1, <1>3 DEF TablesOK
<1>6. row.status = "OPEN" /\ o.amount <= row.remaining BY <1>2, <1>4 DEF ReceiveChecks
<1>7. /\ Recorded(doc'[r], "receipt", p, o.account, None, o.amount, o.amount)
      /\ \A q \in Payables : doc'[r].matched[q] = 0
      /\ OtherDocuments({r}) /\ Post(ReceiptJournal(doc'[r]))
  BY <1>1, <1>2, <1>3, ReceiveRecords DEF OtherDocuments
<1>8. Larger(0, row.remaining - o.amount) = row.remaining - o.amount
  BY <1>3, <1>5, <1>6 DEF Larger, SettlementRow
<1>9. /\ settlement'[p] = [received |-> row.received + o.amount, remaining |-> row.remaining - o.amount,
                           status |-> IF row.remaining - o.amount = 0 THEN "SETTLED" ELSE "OPEN"]
      /\ \A q \in Payables \ {p} : settlement'[q] = settlement[q]
      /\ UNCHANGED <<payable, source>>
  BY <1>1, <1>2, <1>3, <1>4, <1>8 DEF ReceiveEffect, TablesOK
<1> HIDE DEF o, v
<1> QED BY <1>3, <1>6, <1>7, <1>9 DEF o

(* A receipt is reversed.                                                  *)
LEMMA ReverseReceiptStep ==
  ASSUME Known, NEW r \in Requests, ReverseReceipt(r)
  PROVE  LET t == op[r].target
             p == op[r].payable
             received == Larger(0, settlement[op[r].payable].received - doc[op[r].target].amount)
         IN  /\ t \in Requests /\ p \in Payables /\ source[p] # "ABSENT"
             /\ doc[t].kind = "receipt" /\ doc[t].status = "COMPLETED" /\ doc[t].payable = p
             /\ doc[t].account \in Accounts /\ ledger[doc[t].account] >= doc[t].amount
             /\ doc'[t] \in Document /\ SameTerms(doc'[t], doc[t]) /\ doc'[t].status = "REVERSED"
             /\ doc'[t].applied = doc[t].applied /\ doc'[t].matched = doc[t].matched
             /\ OtherDocuments({t})
             /\ settlement'[p].received = received
             /\ settlement'[p].remaining = Larger(0, Expected[p] - received)
             /\ settlement'[p].status # "REVERSED"
             /\ \A q \in Payables \ {p} : settlement'[q] = settlement[q]
             /\ UNCHANGED <<payable, source>>
             /\ PostReversal(ReceiptJournal(doc[t]))
<1> DEFINE o == op[r]
           v == view[r]
           t == o.target
           p == o.payable
           received == Larger(0, settlement[p].received - doc[t].amount)
           remaining == Larger(0, Expected[p] - received)
<1>1. TablesOK /\ o \in Operation /\ v \in View /\ CallOK(o) /\ CallAgrees(o) /\ Running(r) /\ AtEnd(r)
  BY CommonStep DEF Commit
<1>2. o.kind = "reverseReceipt" /\ ReverseReceiptChecks(o, v) /\ ReverseReceiptEffect(r, o, v)
  BY <1>1 DEF ReverseReceipt, Commits, Checks
<1>3. /\ p \in Payables /\ t \in Requests /\ source[p] # "ABSENT" /\ o.account \in Accounts
      /\ doc[t].kind = "receipt" /\ doc[t].payable = p /\ doc[t].account = o.account
  BY <1>1, <1>2 DEF CallOK, CallAgrees
<1>4. v.doc = doc[t] /\ v.settlement = settlement[p] /\ v.funds <= ledger[o.account]
  BY <1>1, <1>2, ReadsAtEnd DEF Known
<1>5. doc[t] \in Document /\ v.funds \in Int /\ ledger[o.account] \in Int
  BY <1>1, <1>3, OnAccounts DEF TablesOK, View
<1>6. doc[t].status = "COMPLETED" /\ v.funds >= doc[t].amount BY <1>2, <1>4 DEF ReverseReceiptChecks
<1>7. ledger[doc[t].account] >= doc[t].amount
  <2>1. doc[t].amount \in Int BY <1>5 DEF Document
  <2> QED BY <1>3, <1>4, <1>5, <1>6, <2>1
<1>8. /\ doc'[t] \in Document /\ SameTerms(doc'[t], doc[t]) /\ doc'[t].status = "REVERSED"
      /\ doc'[t].applied = doc[t].applied /\ doc'[t].matched = doc[t].matched
      /\ OtherDocuments({t})
  <2>1. doc' = [doc EXCEPT ![t].status = "REVERSED"] BY <1>2 DEF ReverseReceiptEffect
  <2> QED BY <1>1, <1>3, <2>1, ReversalRecords DEF OtherDocuments, TablesOK
<1>9. /\ settlement'[p] = [received |-> received, remaining |-> remaining,
                           status |-> IF received > 0 /\ remaining = 0 THEN "SETTLED" ELSE "OPEN"]
      /\ \A q \in Payables \ {p} : settlement'[q] = settlement[q]
      /\ UNCHANGED <<payable, source>> /\ PostReversal(ReceiptJournal(doc[t]))
  BY <1>1, <1>2, <1>3, <1>4 DEF ReverseReceiptEffect, TablesOK
<1>10. /\ settlement'[p].received = received /\ settlement'[p].remaining = remaining
       /\ settlement'[p].status # "REVERSED"
  <2> HIDE DEF received, remaining, o, v, p
  <2> QED BY <1>9
<1> HIDE DEF o, v
<1> QED BY <1>3, <1>6, <1>7, <1>8, <1>9, <1>10 DEF o

---------------------------------------------------------------------------
(* Sums over the documents.                                                *)

(* What the documents add up to when each counts for F of it.              *)
Tally(F, docs) == SumFunction([r \in Requests |-> F[docs[r]]])

(* A tally changes by what the documents that change count for.            *)
LEMMA TallyOne ==
  ASSUME NEW F \in [Document -> Int], NEW a \in [Requests -> Document], NEW b \in [Requests -> Document],
         NEW x \in Requests, \A d \in Requests \ {x} : b[d] = a[d]
  PROVE  /\ Tally(F, a) \in Int /\ F[a[x]] \in Int /\ F[b[x]] \in Int
         /\ Tally(F, b) = Tally(F, a) - F[a[x]] + F[b[x]]
<1> DEFINE f == [r \in Requests |-> F[a[r]]]
           h == [r \in Requests |-> F[b[r]]]
<1>1. f \in [Requests -> Int] /\ h \in [Requests -> Int] /\ (\A d \in Requests \ {x} : h[d] = f[d])
      /\ f[x] = F[a[x]] /\ h[x] = F[b[x]]
  OBVIOUS
<1>2. Tally(F, a) = SumFunction(f) /\ Tally(F, b) = SumFunction(h) BY DEF Tally
<1>3. IsFiniteSet(Requests) BY ConstantsAssumption
<1> HIDE DEF f, h
<1>4. SumFunction(f) \in Int /\ SumFunction(h) = SumFunction(f) - f[x] + h[x]
  BY <1>1, <1>3, SumType, SumChange
<1> QED BY <1>1, <1>2, <1>4

\* A tally when two documents change: the other terms are what they were.
LEMMA TallyTwo ==
  ASSUME NEW F \in [Document -> Int], NEW a \in [Requests -> Document], NEW b \in [Requests -> Document],
         NEW x \in Requests, NEW y \in Requests, x # y, \A d \in Requests \ {x, y} : b[d] = a[d]
  PROVE  /\ Tally(F, a) \in Int
         /\ Tally(F, b) = Tally(F, a) - F[a[x]] + F[b[x]] - F[a[y]] + F[b[y]]
<1> DEFINE c == [a EXCEPT ![x] = b[x]]
<1>1. /\ c \in [Requests -> Document] /\ c[x] = b[x] /\ c[y] = a[y]
      /\ \A d \in Requests \ {x} : c[d] = a[d]
      /\ \A d \in Requests \ {y} : b[d] = c[d]
  OBVIOUS
<1> HIDE DEF c
<1>2. /\ Tally(F, a) \in Int /\ F[a[x]] \in Int /\ F[c[x]] \in Int
      /\ Tally(F, c) = Tally(F, a) - F[a[x]] + F[c[x]]
  BY <1>1, TallyOne
<1>3. /\ Tally(F, c) \in Int /\ F[c[y]] \in Int /\ F[b[y]] \in Int
      /\ Tally(F, b) = Tally(F, c) - F[c[y]] + F[b[y]]
  BY <1>1, TallyOne
<1> QED BY <1>1, <1>2, <1>3

(* A tally in which no document counts is nothing.                         *)
LEMMA TallyNone ==
  ASSUME NEW F \in [Document -> Int], NEW a \in [Requests -> Document], \A d \in Requests : F[a[d]] = 0
  PROVE  Tally(F, a) = 0
<1> DEFINE f == [r \in Requests |-> F[a[r]]]
<1>1. f \in [Requests -> Int] /\ \A d \in Requests : f[d] = 0 OBVIOUS
<1>2. IsFiniteSet(Requests) BY ConstantsAssumption
<1> HIDE DEF f
<1>3. SumFunction(f) = 0 BY <1>1, <1>2, SumZero
<1> QED BY <1>3 DEF Tally, f

(* What a Pay Out is matched to, as one of its matches changes.            *)
LEMMA MatchedChange ==
  ASSUME NEW c \in Document, NEW d \in Document, NEW p \in Payables,
         \A q \in Payables \ {p} : d.matched[q] = c.matched[q]
  PROVE  /\ Matched(c) \in Int /\ Matched(d) \in Int
         /\ Matched(d) = Matched(c) - c.matched[p] + d.matched[p]
<1>1. c.matched \in [Payables -> Int] /\ d.matched \in [Payables -> Int] /\ IsFiniteSet(Payables)
  BY ConstantsAssumption DEF Document
<1> QED BY <1>1, SumType, SumChange DEF Matched

(* What a Pay Out that is matched to one payable at most is matched to.    *)
LEMMA MatchedOne ==
  ASSUME NEW d \in Document, NEW p, NEW n \in Int,
         \A q \in Payables : d.matched[q] = IF q = p THEN n ELSE 0
  PROVE  Matched(d) = IF p \in Payables THEN n ELSE 0
<1>1. d.matched \in [Payables -> Int] /\ IsFiniteSet(Payables) BY ConstantsAssumption DEF Document
<1>2. CASE p \in Payables BY <1>1, <1>2, SumOfOne DEF Matched
<1>3. CASE p \notin Payables BY <1>1, <1>3, SumZero DEF Matched
<1> QED BY <1>2, <1>3

---------------------------------------------------------------------------
(* No Pay Out is used twice.                                               *)

(* What a document takes of the advance of Pay Out e.                      *)
Offsetting(e) ==
    [d \in Document |-> IF d.kind = "offset" /\ d.status = "COMPLETED" /\ d.entry = e THEN d.amount ELSE 0]

\* What a document offsets of an entry is an integer.
LEMMA OffsettingType == ASSUME NEW e PROVE Offsetting(e) \in [Document -> Int]
BY DEF Offsetting, Document

\* The sum the invariant speaks of is a tally over all documents.
LEMMA OffsetTally ==
  ASSUME NEW docs \in [Requests -> Document], NEW e
  PROVE  SumFunction([r \in Requests |->
            IF r \in {q \in Requests : docs[q].kind = "offset" /\ docs[q].status = "COMPLETED"}
               /\ docs[r].entry = e
            THEN docs[r].amount ELSE 0]) = Tally(Offsetting(e), docs)
<1>1. \A r \in Requests :
        Offsetting(e)[docs[r]] =
          IF r \in {q \in Requests : docs[q].kind = "offset" /\ docs[q].status = "COMPLETED"}
             /\ docs[r].entry = e
          THEN docs[r].amount ELSE 0
  BY DEF Offsetting
<1> QED BY <1>1 DEF Tally

(* The conjuncts of PayOutUsedOnce for one Pay Out.                        *)
UsedOnce(e) ==
    doc[e].kind = "payout" =>
        /\ Matched(doc[e]) <= doc[e].toPayable
        /\ doc[e].applied <= doc[e].toReceivable
        /\ doc[e].applied = Tally(Offsetting(e), doc)

AllUsedOnce == \A e \in Requests : UsedOnce(e)

\* The inductive form of the invariant implies the one the runs check.
LEMMA UsedOnceIs == ASSUME Known, AllUsedOnce PROVE PayOutUsedOnce
<1>1. doc \in [Requests -> Document] BY ShapeTables DEF Known, TablesOK
<1> QED BY <1>1, OffsetTally DEF AllUsedOnce, UsedOnce, PayOutUsedOnce, Active

(* A document that is no advance changes no such sum.                      *)
LEMMA OffsetsSame ==
  ASSUME NEW a \in [Requests -> Document], NEW b \in [Requests -> Document], NEW x \in Requests,
         \A d \in Requests \ {x} : b[d] = a[d], a[x].kind # "offset", b[x].kind # "offset", NEW e
  PROVE  Tally(Offsetting(e), b) = Tally(Offsetting(e), a)
<1>1. Offsetting(e)[a[x]] = 0 /\ Offsetting(e)[b[x]] = 0 BY DEF Offsetting
<1>2. Tally(Offsetting(e), a) \in Int
      /\ Tally(Offsetting(e), b) = Tally(Offsetting(e), a) - Offsetting(e)[a[x]] + Offsetting(e)[b[x]]
  BY OffsettingType, TallyOne
<1> QED BY <1>1, <1>2

\* An operation that commits leaves every Pay Out used at most once.
LEMMA UsedOnceCommit ==
  ASSUME Known, AllUsedOnce, NEW r \in Requests, Commit(r), NEW x \in Requests, doc'[x].kind = "payout"
  PROVE  /\ Matched(doc'[x]) <= doc'[x].toPayable
         /\ doc'[x].applied <= doc'[x].toReceivable
         /\ doc'[x].applied = Tally(Offsetting(x), doc')
<1> DEFINE o == op[r]
           e == o.entry
           p == o.payable
<1>1. /\ doc \in [Requests -> Document] /\ doc' \in [Requests -> Document] /\ doc[r].kind = "none"
      /\ \A d \in Requests : DocumentOK(doc[d]) /\ UsedOnce(d)
      /\ \A d \in Requests : doc[d].kind = "offset" => doc[doc[d].entry].kind = "payout"
  BY CommonStep DEF TablesOK, Known, Shape, DocumentsOK, AllUsedOnce
<1>2. ASSUME NEW y \in Requests, OtherDocuments({y}), doc[y].kind # "offset", doc'[y].kind # "offset"
      PROVE  /\ Tally(Offsetting(x), doc') = Tally(Offsetting(x), doc)
             /\ x # y => /\ Matched(doc'[x]) <= doc'[x].toPayable
                         /\ doc'[x].applied <= doc'[x].toReceivable
                         /\ doc'[x].applied = Tally(Offsetting(x), doc')
  <2>1. Tally(Offsetting(x), doc') = Tally(Offsetting(x), doc)
    BY <1>1, <1>2, OffsetsSame DEF OtherDocuments
  <2>2. x # y => doc'[x] = doc[x] /\ UsedOnce(x) BY <1>1, <1>2 DEF OtherDocuments
  <2> QED BY <2>1, <2>2 DEF UsedOnce
<1>3. \A d \in Requests : /\ doc[d].applied \in Int /\ doc[d].toReceivable \in Int /\ doc[d].toPayable \in Int
                          /\ doc[d].matched \in [Payables -> Int]
  BY <1>1 DEF Document
<1> HIDE DEF o, e, p
<1>4. CASE Pay(r) \/ Receive(r)
  <2>1. OtherDocuments({r}) /\ doc'[r].kind \in {"payment", "receipt"}
    BY <1>4, PayStep, ReceiveStep DEF Recorded
  <2> QED BY <1>1, <1>2, <2>1
<1>5. CASE PayOut(r)
  <2>1. /\ OtherDocuments({r}) /\ doc'[r].kind = "payout" /\ doc'[r].applied = 0 /\ doc'[r].toReceivable >= 0
        /\ doc'[r].toPayable >= o.part /\ o.part \in Nat
        /\ \A q \in Payables : doc'[r].matched[q] = IF q = p THEN o.part ELSE 0
        /\ p \notin Payables => o.part = 0
    BY <1>5, PayOutStep DEF Recorded, o, p
  <2>2. CASE x = r
    <3>1. Matched(doc'[r]) = o.part BY <1>1, <2>1, MatchedOne
    <3>2. \A d \in Requests : Offsetting(r)[doc[d]] = 0
      <4>1. \A d \in Requests : doc[d].kind = "offset" => doc[d].entry # r BY <1>1
      <4> QED BY <1>1, <4>1 DEF Offsetting
    <3>3. Tally(Offsetting(r), doc) = 0 BY <1>1, <3>2, OffsettingType, TallyNone
    <3>4. Tally(Offsetting(r), doc') = 0 BY <1>1, <1>2, <2>1, <2>2, <3>3
    <3> QED BY <2>1, <2>2, <3>1, <3>4
  <2> QED BY <1>1, <1>2, <2>1, <2>2
<1>6. CASE Match(r)
  <2>1. /\ e \in Requests /\ p \in Payables /\ doc[e].kind = "payout" /\ OtherDocuments({e})
        /\ SameTerms(doc'[e], doc[e]) /\ doc'[e].applied = doc[e].applied
        /\ doc[e].matched[p] = 0 /\ doc'[e].matched[p] = o.amount /\ o.amount \in Nat
        /\ \A q \in Payables \ {p} : doc'[e].matched[q] = doc[e].matched[q]
        /\ Matched(doc[e]) + o.amount <= doc[e].toPayable
    BY <1>6, MatchStep DEF o, e, p
  <2>2. doc'[e].kind = "payout" /\ doc'[e].toPayable = doc[e].toPayable
        /\ doc'[e].toReceivable = doc[e].toReceivable
    BY <2>1 DEF SameTerms
  <2>3. CASE x = e
    <3>1. Matched(doc[e]) \in Int /\ Matched(doc'[e]) = Matched(doc[e]) - doc[e].matched[p] + doc'[e].matched[p]
      BY <1>1, <2>1, MatchedChange
    <3>2. Matched(doc'[e]) <= doc'[e].toPayable BY <2>1, <2>2, <3>1
    <3>3. UsedOnce(e) /\ Tally(Offsetting(x), doc') = Tally(Offsetting(x), doc)
      BY <1>1, <1>2, <2>1, <2>2
    <3> QED BY <2>1, <2>2, <2>3, <3>2, <3>3 DEF UsedOnce
  <2> QED BY <1>2, <2>1, <2>2, <2>3
<1>7. CASE Unmatch(r)
  <2>1. /\ e \in Requests /\ p \in Payables /\ doc[e].kind = "payout" /\ OtherDocuments({e})
        /\ SameTerms(doc'[e], doc[e]) /\ doc'[e].applied = doc[e].applied
        /\ doc[e].matched[p] > 0 /\ doc'[e].matched[p] = 0
        /\ \A q \in Payables \ {p} : doc'[e].matched[q] = doc[e].matched[q]
    BY <1>7, UnmatchStep DEF o, e, p
  <2>2. doc'[e].kind = "payout" /\ doc'[e].toPayable = doc[e].toPayable
        /\ doc'[e].toReceivable = doc[e].toReceivable
    BY <2>1 DEF SameTerms
  <2>3. CASE x = e
    <3>1. Matched(doc[e]) \in Int /\ Matched(doc'[e]) = Matched(doc[e]) - doc[e].matched[p] + doc'[e].matched[p]
      BY <1>1, <2>1, MatchedChange
    <3>2. UsedOnce(e) /\ Tally(Offsetting(x), doc') = Tally(Offsetting(x), doc)
      BY <1>1, <1>2, <2>1, <2>2
    <3>3. Matched(doc[e]) <= doc[e].toPayable BY <2>1, <3>2 DEF UsedOnce
    <3>4. doc[e].matched[p] \in Int BY <1>3, <2>1
    <3>5. Matched(doc'[e]) <= doc'[e].toPayable BY <1>3, <2>1, <2>2, <3>1, <3>3, <3>4
    <3> QED BY <2>1, <2>2, <2>3, <3>2, <3>5 DEF UsedOnce
  <2> QED BY <1>2, <2>1, <2>2, <2>3
<1>8. CASE Apply(r)
  <2>1. /\ e \in Requests /\ e # r /\ doc[e].kind = "payout" /\ OtherDocuments({r, e})
        /\ o.amount \in Nat /\ doc[e].applied + o.amount <= doc[e].toReceivable
        /\ Recorded(doc'[r], "offset", p, None, e, o.amount, 0)
        /\ SameTerms(doc'[e], doc[e]) /\ doc'[e].applied = doc[e].applied + o.amount
        /\ doc'[e].matched = doc[e].matched
    BY <1>8, ApplyStep DEF o, e, p
  <2>2. /\ doc'[e].kind = "payout" /\ doc'[e].toPayable = doc[e].toPayable
        /\ doc'[e].toReceivable = doc[e].toReceivable
        /\ Matched(doc'[e]) = Matched(doc[e])
        /\ doc'[r].kind = "offset"
    BY <2>1 DEF SameTerms, Matched, Recorded
  <2>3. /\ Offsetting(x)[doc[r]] = 0 /\ Offsetting(x)[doc[e]] = 0 /\ Offsetting(x)[doc'[e]] = 0
        /\ Offsetting(x)[doc'[r]] = IF x = e THEN o.amount ELSE 0
    BY <1>1, <2>1, <2>2 DEF Offsetting, Recorded
  <2>4. /\ Tally(Offsetting(x), doc) \in Int
        /\ Tally(Offsetting(x), doc') = Tally(Offsetting(x), doc) - Offsetting(x)[doc[r]]
             + Offsetting(x)[doc'[r]] - Offsetting(x)[doc[e]] + Offsetting(x)[doc'[e]]
    BY <1>1, <2>1, OffsettingType, TallyTwo DEF OtherDocuments
  <2>5. Tally(Offsetting(x), doc') = Tally(Offsetting(x), doc) + (IF x = e THEN o.amount ELSE 0)
    BY <2>1, <2>3, <2>4
  <2>6. CASE x = e
    <3>1. UsedOnce(e) BY <1>1, <2>1
    <3> QED BY <2>1, <2>2, <2>5, <2>6, <3>1 DEF UsedOnce
  <2>7. CASE x # e
    <3>1. x # r /\ doc'[x] = doc[x] BY <2>1, <2>2, <2>7 DEF OtherDocuments
    <3>2. UsedOnce(x) /\ Tally(Offsetting(x), doc') = Tally(Offsetting(x), doc) BY <1>1, <2>4, <2>5, <2>7
    <3> QED BY <3>1, <3>2 DEF UsedOnce
  <2> QED BY <2>6, <2>7
<1>9. CASE Unapply(r)
  <2> DEFINE t == o.target
             n == doc[t].amount
  <2>1. /\ e \in Requests /\ t \in Requests /\ e # t /\ doc[e].kind = "payout" /\ OtherDocuments({t, e})
        /\ doc[t].kind = "offset" /\ doc[t].status = "COMPLETED" /\ doc[t].entry = e
        /\ n \in Int /\ n > 0
        /\ SameTerms(doc'[t], doc[t]) /\ doc'[t].status = "REVERSED"
        /\ SameTerms(doc'[e], doc[e]) /\ doc'[e].applied = doc[e].applied - n
        /\ doc'[e].matched = doc[e].matched
    BY <1>9, UnapplyStep DEF o, e
  <2> HIDE DEF t, n
  <2>2. /\ doc'[e].kind = "payout" /\ doc'[e].toPayable = doc[e].toPayable
        /\ doc'[e].toReceivable = doc[e].toReceivable
        /\ Matched(doc'[e]) = Matched(doc[e])
        /\ doc'[t].kind = "offset"
    BY <2>1 DEF SameTerms, Matched
  <2>3. /\ Offsetting(x)[doc'[t]] = 0 /\ Offsetting(x)[doc[e]] = 0 /\ Offsetting(x)[doc'[e]] = 0
        /\ Offsetting(x)[doc[t]] = IF x = e THEN n ELSE 0
    BY <1>1, <2>1, <2>2 DEF Offsetting, n
  <2>4. /\ Tally(Offsetting(x), doc) \in Int
        /\ Tally(Offsetting(x), doc') = Tally(Offsetting(x), doc) - Offsetting(x)[doc[t]]
             + Offsetting(x)[doc'[t]] - Offsetting(x)[doc[e]] + Offsetting(x)[doc'[e]]
    BY <1>1, <2>1, OffsettingType, TallyTwo DEF OtherDocuments
  <2>5. Tally(Offsetting(x), doc') = Tally(Offsetting(x), doc) - (IF x = e THEN n ELSE 0)
    BY <2>1, <2>3, <2>4
  <2>6. CASE x = e
    <3>1. UsedOnce(e) BY <1>1, <2>1
    <3>2. doc'[e].applied <= doc'[e].toReceivable BY <1>3, <2>1, <2>2, <3>1 DEF UsedOnce
    <3> QED BY <2>1, <2>2, <2>5, <2>6, <3>1, <3>2 DEF UsedOnce
  <2>7. CASE x # e
    <3>1. x # t /\ doc'[x] = doc[x] BY <2>1, <2>2, <2>7 DEF OtherDocuments
    <3>2. UsedOnce(x) /\ Tally(Offsetting(x), doc') = Tally(Offsetting(x), doc) BY <1>1, <2>4, <2>5, <2>7
    <3> QED BY <3>1, <3>2 DEF UsedOnce
  <2> QED BY <2>6, <2>7
<1>10. CASE ReversePayment(r) \/ ReverseReceipt(r)
  <2>1. PICK t \in Requests : /\ doc[t].kind \in {"payment", "receipt"} /\ SameTerms(doc'[t], doc[t])
                              /\ OtherDocuments({t})
    BY <1>10, ReversePaymentStep, ReverseReceiptStep
  <2>2. doc'[t].kind = doc[t].kind BY <2>1 DEF SameTerms
  <2> QED BY <1>2, <2>1, <2>2
<1>11. CASE ReverseEntry(r)
  <2>1. /\ e \in Requests /\ doc[e].kind = "payout" /\ OtherDocuments({e})
        /\ SameTerms(doc'[e], doc[e]) /\ doc'[e].applied = doc[e].applied
        /\ doc'[e].matched = doc[e].matched
    BY <1>11, ReverseEntryStep DEF e, o
  <2>2. doc'[e].kind = "payout" /\ doc'[e].toPayable = doc[e].toPayable
        /\ doc'[e].toReceivable = doc[e].toReceivable /\ Matched(doc'[e]) = Matched(doc[e])
    BY <2>1 DEF SameTerms, Matched
  <2>3. CASE x = e
    <3>1. UsedOnce(e) /\ Tally(Offsetting(x), doc') = Tally(Offsetting(x), doc)
      BY <1>1, <1>2, <2>1, <2>2
    <3> QED BY <2>1, <2>2, <2>3, <3>1 DEF UsedOnce
  <2> QED BY <1>2, <2>1, <2>2, <2>3
<1>12. CASE Cancel(r) \/ ReverseSource(r)
  <2>1. doc' = doc BY <1>12, VoidStep
  <2>2. UsedOnce(x) BY <1>1
  <2> QED BY <2>1, <2>2 DEF UsedOnce
<1> QED BY <1>4, <1>5, <1>6, <1>7, <1>8, <1>9, <1>10, <1>11, <1>12 DEF Commit

\* So does every step.
LEMMA UsedOnceNext == Known /\ AllUsedOnce /\ [Next]_vars => AllUsedOnce'
<1> SUFFICES ASSUME Known, AllUsedOnce, [Next]_vars, NEW x \in Requests PROVE UsedOnce(x)'
  BY DEF AllUsedOnce
<1>1. CASE doc' = doc BY <1>1 DEF AllUsedOnce, UsedOnce
<1>2. CASE \E r \in Requests : Commit(r) BY <1>2, UsedOnceCommit DEF UsedOnce
<1> QED BY <1>1, <1>2, TableSteps DEF tables, RecordSwipe

\* At first there is no Pay Out.
LEMMA UsedOnceInitially == Init => AllUsedOnce
BY DEF Init, NoDocument, AllUsedOnce, UsedOnce

(* No Pay Out is used twice, however many requests match it, take advances *)
(* from it, undo both and reverse it at the same time: matchExistingPayOut *)
(* and applyAdvance() check it under its lock.                             *)
THEOREM UsedOnceInvariant == Spec => []PayOutUsedOnce
<1> DEFINE Inv == Known /\ AllUsedOnce
<1>1. Init => Inv BY KnownInitially, UsedOnceInitially
<1>2. Inv /\ [Next]_vars => Inv' BY KnownNext, UsedOnceNext
<1>3. Inv => PayOutUsedOnce BY UsedOnceIs
<1> HIDE DEF Inv
<1> QED BY <1>1, <1>2, <1>3, PTL DEF Spec

---------------------------------------------------------------------------
(* Banks and wallets are not overdrawn.                                    *)

(* Posting moves each account by what the journal says.                    *)
LEMMA Posted ==
  ASSUME TablesOK, NEW a \in Ledgers, NEW j
  PROVE  /\ ledger[a] \in Int
         /\ Post(j) => ledger'[a] = ledger[a] + j[a]
         /\ PostReversal(j) => ledger'[a] = ledger[a] - j[a]
BY DEF TablesOK, Post, PostReversal

\* No commit takes an account below nothing that was not below it.
LEMMA OverdraftCommit ==
  ASSUME Known, NEW r \in Requests, Commit(r), NEW a \in Accounts \ CashAccounts, ledger[a] >= 0
  PROVE  ledger'[a] >= 0
<1> DEFINE o == op[r]
           t == o.target
           e == o.entry
<1>1. TablesOK /\ a \in Ledgers /\ ledger[a] \in Int /\ Charge[a] \in Nat
  BY CommonStep, OnAccounts, Posted
<1>2. \A d \in Requests : doc[d] \in Document /\ DocumentSound(doc[d])
  BY <1>1 DEF Known, DocumentsSound, TablesOK
<1>3. \A d \in Requests : /\ doc[d].cash \in Int /\ doc[d].amount \in Int
                          /\ doc[d].kind = "payment" => doc[d].cash > 0
                          /\ doc[d].kind = "payout" => doc[d].cash > 0
                          /\ doc[d].kind = "receipt" => doc[d].cash = doc[d].amount
  BY <1>2 DEF Document, DocumentSound
<1>4. o.amount \in Nat BY CommonStep DEF Operation
<1> HIDE DEF o, t, e
<1>5. CASE Pay(r)
  <2>1. /\ Post(PaymentJournal(doc'[r])) /\ doc'[r].account = o.account /\ doc'[r].cash = o.amount
        /\ o.account \notin CashAccounts => ledger[o.account] >= o.amount + Charge[o.account]
    BY <1>5, PayStep DEF Recorded, o
  <2>j. PaymentJournal(doc'[r])[a] = IF a = doc'[r].account THEN -(doc'[r].cash + Charge[a]) ELSE 0
    BY OnAccounts
  <2>2. PaymentJournal(doc'[r])[a] = IF a = o.account THEN -(o.amount + Charge[a]) ELSE 0 BY <2>1, <2>j
  <2>3. ledger'[a] = ledger[a] + PaymentJournal(doc'[r])[a] BY <1>1, <2>1, Posted
  <2>4. a = o.account => ledger[a] >= o.amount + Charge[a] BY <2>1
  <2>5. CASE a = o.account BY <1>1, <1>4, <2>2, <2>3, <2>4, <2>5
  <2>6. CASE a # o.account BY <1>1, <2>2, <2>3, <2>6
  <2> QED BY <2>5, <2>6
<1>6. CASE PayOut(r)
  <2>1. /\ Post(PayOutJournal(doc'[r])) /\ doc'[r].account = o.account /\ doc'[r].cash = o.amount
        /\ o.account \notin CashAccounts => ledger[o.account] >= o.amount + Charge[o.account]
    BY <1>6, PayOutStep DEF Recorded, o
  <2>j. PayOutJournal(doc'[r])[a] = IF a = doc'[r].account THEN -(doc'[r].cash + Charge[a]) ELSE 0
    BY OnAccounts
  <2>2. PayOutJournal(doc'[r])[a] = IF a = o.account THEN -(o.amount + Charge[a]) ELSE 0 BY <2>1, <2>j
  <2>3. ledger'[a] = ledger[a] + PayOutJournal(doc'[r])[a] BY <1>1, <2>1, Posted
  <2>4. a = o.account => ledger[a] >= o.amount + Charge[a] BY <2>1
  <2>5. CASE a = o.account BY <1>1, <1>4, <2>2, <2>3, <2>4, <2>5
  <2>6. CASE a # o.account BY <1>1, <2>2, <2>3, <2>6
  <2> QED BY <2>5, <2>6
<1>7. CASE Receive(r)
  <2>1. Post(ReceiptJournal(doc'[r])) /\ doc'[r].cash = o.amount
    BY <1>7, ReceiveStep DEF Recorded, o
  <2>2. ReceiptJournal(doc'[r])[a] = IF a = doc'[r].account THEN o.amount ELSE 0
    BY <2>1, OnAccounts
  <2>3. ledger'[a] = ledger[a] + ReceiptJournal(doc'[r])[a] BY <1>1, <2>1, Posted
  <2> QED BY <1>1, <1>4, <2>2, <2>3
<1>8. CASE ReverseReceipt(r)
  <2>1. /\ t \in Requests /\ doc[t].kind = "receipt" /\ PostReversal(ReceiptJournal(doc[t]))
        /\ ledger[doc[t].account] >= doc[t].amount
    BY <1>8, ReverseReceiptStep DEF o, t
  <2>2. ReceiptJournal(doc[t])[a] = IF a = doc[t].account THEN doc[t].cash ELSE 0 BY OnAccounts
  <2>3. ledger'[a] = ledger[a] - ReceiptJournal(doc[t])[a] BY <1>1, <2>1, Posted
  <2> QED BY <1>1, <1>3, <2>1, <2>2, <2>3
<1>9. CASE ReversePayment(r)
  <2>1. t \in Requests /\ doc[t].kind = "payment" /\ PostReversal(PaymentJournal(doc[t]))
    BY <1>9, ReversePaymentStep DEF o, t
  <2>2. PaymentJournal(doc[t])[a] = IF a = doc[t].account THEN -(doc[t].cash + Charge[a]) ELSE 0
    BY OnAccounts
  <2>3. ledger'[a] = ledger[a] - PaymentJournal(doc[t])[a] BY <1>1, <2>1, Posted
  <2> QED BY <1>1, <1>3, <2>1, <2>2, <2>3
<1>10. CASE ReverseEntry(r)
  <2>1. e \in Requests /\ doc[e].kind = "payout" /\ PostReversal(PayOutJournal(doc[e]))
    BY <1>10, ReverseEntryStep DEF o, e
  <2>2. PayOutJournal(doc[e])[a] = IF a = doc[e].account THEN -(doc[e].cash + Charge[a]) ELSE 0
    BY OnAccounts
  <2>3. ledger'[a] = ledger[a] - PayOutJournal(doc[e])[a] BY <1>1, <2>1, Posted
  <2> QED BY <1>1, <1>3, <2>1, <2>2, <2>3
<1>11. CASE Match(r) \/ Unmatch(r) BY <1>11, MatchStep, UnmatchStep
<1>12. CASE Apply(r) \/ Unapply(r)
  <2>1. PICK d : Post(OffsetJournal(d)) \/ PostReversal(OffsetJournal(d))
    BY <1>12, ApplyStep, UnapplyStep
  <2>2. OffsetJournal(d)[a] = 0 BY OnAccounts
  <2> QED BY <1>1, <2>1, <2>2, Posted
<1>13. CASE Cancel(r) \/ ReverseSource(r)
  <2>1. PICK p \in Payables : PostReversal(SourceJournal(p)) BY <1>13, VoidStep
  <2>2. SourceJournal(p)[a] = 0 BY OnAccounts
  <2> QED BY <1>1, <2>1, <2>2, Posted
<1> QED BY <1>5, <1>6, <1>7, <1>8, <1>9, <1>10, <1>11, <1>12, <1>13 DEF Commit

\* Nor does any other step.
LEMMA OverdraftNext == Known /\ NoOverdraft /\ [Next]_vars => NoOverdraft'
<1> SUFFICES ASSUME Known, NoOverdraft, [Next]_vars, NEW a \in Accounts \ CashAccounts PROVE ledger'[a] >= 0
  BY DEF NoOverdraft
<1>1. ledger[a] >= 0 BY DEF NoOverdraft
<1>2. CASE UNCHANGED tables BY <1>1, <1>2 DEF tables
<1>3. CASE \E p \in Payables : RecordSwipe(p)
  <2>1. PICK p \in Payables : RecordSwipe(p) BY <1>3
  <2>2. TablesOK /\ a \in Ledgers /\ SourceJournal(p)[a] = 0 BY ShapeTables, OnAccounts DEF Known
  <2>3. ledger[a] \in Int /\ ledger'[a] = ledger[a] + SourceJournal(p)[a]
    BY <2>1, <2>2, Posted DEF RecordSwipe
  <2> QED BY <1>1, <2>2, <2>3
<1>4. CASE \E r \in Requests : Commit(r) BY <1>1, <1>4, OverdraftCommit
<1> QED BY <1>2, <1>3, <1>4, TableSteps

\* Balances are natural numbers at first.
LEMMA OverdraftInitially == Init => NoOverdraft
BY ConstantsAssumption DEF Init, NoOverdraft, Ledgers

(* No bank and no wallet is overdrawn, whatever leaves it at the same time: *)
(* assertSufficientFunds() is decided on the balance of a locked account,  *)
(* and nobody but the holder of that lock takes money from it.             *)
THEOREM NoOverdraftInvariant == Spec => []NoOverdraft
<1> DEFINE Inv == Known /\ NoOverdraft
<1>1. Init => Inv BY KnownInitially, OverdraftInitially
<1>2. Inv /\ [Next]_vars => Inv' BY KnownNext, OverdraftNext
<1>3. Inv => NoOverdraft OBVIOUS
<1> HIDE DEF Inv
<1> QED BY <1>1, <1>2, <1>3, PTL DEF Spec

---------------------------------------------------------------------------
(* The last payout is rounded, and no other.                               *)

\* A payment that is rounded when an operation commits is made in cash, by half a
\* rupee at most, and closes its payable.
LEMMA RoundingCommit ==
  ASSUME Known, NEW r \in Requests, Commit(r), NEW x \in Requests,
         doc'[x] # doc[x], doc'[x].kind = "payment", doc'[x].amount # doc'[x].cash
  PROVE  /\ doc'[x].account \in CashAccounts
         /\ -Rupee <= 2 * (doc'[x].amount - doc'[x].cash)
         /\ 2 * (doc'[x].amount - doc'[x].cash) <= Rupee
         /\ doc'[x].status = "COMPLETED" => payable'[doc'[x].payable].remaining = 0
<1>1. DocumentSound(doc'[x]) BY SoundCommit DEF Known
<1>2. Rounded(doc'[x]) BY <1>1 DEF DocumentSound
<1>3. ASSUME doc'[x].status = "COMPLETED" PROVE payable'[doc'[x].payable].remaining = 0
  <2>1. CASE Pay(r)
    <3> DEFINE p == op[r].payable
               amount == doc'[r].amount
    <3>1. /\ OtherDocuments({r}) /\ p \in Payables /\ doc'[r].payable = p
          /\ amount # doc'[r].cash => amount = payable[p].remaining
          /\ payable'[p].remaining = payable[p].remaining - amount
      BY <2>1, PayStep DEF Recorded, PaidMore
    <3>2. payable[p].remaining \in Int BY <3>1, CommonStep DEF TablesOK, PayableRow
    <3>3. x = r BY <3>1 DEF OtherDocuments
    <3> QED BY <3>1, <3>2, <3>3
  <2>2. CASE PayOut(r) \/ Receive(r)
    <3>1. OtherDocuments({r}) /\ doc'[r].kind \in {"payout", "receipt"}
      BY <2>2, PayOutStep, ReceiveStep DEF Recorded
    <3> QED BY <3>1 DEF OtherDocuments
  <2>3. CASE Apply(r)
    <3>1. /\ OtherDocuments({r, op[r].entry}) /\ doc'[r].kind = "offset"
          /\ doc[op[r].entry].kind = "payout" /\ SameTerms(doc'[op[r].entry], doc[op[r].entry])
      BY <2>3, ApplyStep DEF Recorded
    <3> QED BY <3>1 DEF OtherDocuments, SameTerms
  <2>4. CASE Match(r) \/ Unmatch(r) \/ ReverseEntry(r)
    <3>1. PICK e \in Requests : /\ OtherDocuments({e}) /\ doc[e].kind = "payout"
                                /\ SameTerms(doc'[e], doc[e])
      BY <2>4, MatchStep, UnmatchStep, ReverseEntryStep
    <3> QED BY <3>1 DEF OtherDocuments, SameTerms
  <2>5. CASE Unapply(r)
    <3>1. /\ OtherDocuments({op[r].target, op[r].entry})
          /\ doc[op[r].target].kind = "offset" /\ SameTerms(doc'[op[r].target], doc[op[r].target])
          /\ doc[op[r].entry].kind = "payout" /\ SameTerms(doc'[op[r].entry], doc[op[r].entry])
      BY <2>5, UnapplyStep
    <3> QED BY <3>1 DEF OtherDocuments, SameTerms
  <2>6. CASE ReversePayment(r) \/ ReverseReceipt(r)
    <3>1. PICK t \in Requests : OtherDocuments({t}) /\ doc'[t].status = "REVERSED"
      BY <2>6, ReversePaymentStep, ReverseReceiptStep
    <3> QED BY <1>3, <3>1 DEF OtherDocuments
  <2>7. CASE Cancel(r) \/ ReverseSource(r) BY <2>7, VoidStep
  <2> QED BY <2>1, <2>2, <2>3, <2>4, <2>5, <2>6, <2>7 DEF Commit
<1> QED BY <1>2, <1>3 DEF Rounded

\* So it is in every step.
LEMMA RoundingStep ==
  Known /\ [Next]_vars =>
    [\A r \in Requests : doc'[r] # doc[r] /\ doc'[r].kind = "payment" =>
         LET rounding == doc'[r].amount - doc'[r].cash
         IN  rounding # 0 =>
               /\ doc'[r].account \in CashAccounts
               /\ -Rupee <= 2 * rounding /\ 2 * rounding <= Rupee
               /\ doc'[r].status = "COMPLETED" =>
                    payable'[doc'[r].payable].remaining = 0]_vars
<1> SUFFICES ASSUME Known, [Next]_vars, NEW x \in Requests, doc'[x] # doc[x], doc'[x].kind = "payment",
                    doc'[x].amount - doc'[x].cash # 0
             PROVE  /\ doc'[x].account \in CashAccounts
                    /\ -Rupee <= 2 * (doc'[x].amount - doc'[x].cash)
                    /\ 2 * (doc'[x].amount - doc'[x].cash) <= Rupee
                    /\ doc'[x].status = "COMPLETED" => payable'[doc'[x].payable].remaining = 0
  OBVIOUS
<1>1. PICK r \in Requests : Commit(r) BY TableSteps DEF tables, RecordSwipe
<1>2. doc'[x].amount \in Int /\ doc'[x].cash \in Int BY <1>1, CommonStep DEF TablesOK, Document
<1>3. doc'[x].amount # doc'[x].cash BY <1>2
<1> QED BY <1>1, <1>3, RoundingCommit

(* pay() rounds the cash of the payout that settles what remains and no    *)
(* other, by half a rupee at most.                                         *)
THEOREM RoundingProperty == Spec => RoundingSettles
<1>1. Init => Known BY KnownInitially
<1>2. Known /\ [Next]_vars => Known' BY KnownNext
<1> QED BY <1>1, <1>2, RoundingStep, PTL DEF Spec, RoundingSettles

---------------------------------------------------------------------------
(* The books balance.                                                      *)

\* There are finitely many ledgers, so that their sum is one.
LEMMA LedgersFinite == IsFiniteSet(Ledgers)
<1>1. IsFiniteSet({"PAYABLE"}) /\ IsFiniteSet({"RECEIVABLE"}) /\ IsFiniteSet({"CLEARING"})
      /\ IsFiniteSet({"INCOME"}) /\ IsFiniteSet({"CHARGE"}) /\ IsFiniteSet({"ROUNDING"})
  BY FS_Singleton
<1>2. SystemLedgers = {"PAYABLE"} \cup {"RECEIVABLE"} \cup {"CLEARING"} \cup {"INCOME"} \cup {"CHARGE"}
                      \cup {"ROUNDING"}
  BY DEF SystemLedgers
<1>3. IsFiniteSet({"PAYABLE"} \cup {"RECEIVABLE"} \cup {"CLEARING"}) BY <1>1, FS_Union
<1>4. IsFiniteSet({"PAYABLE"} \cup {"RECEIVABLE"} \cup {"CLEARING"} \cup {"INCOME"} \cup {"CHARGE"})
  BY <1>1, <1>3, FS_Union
<1>5. IsFiniteSet(SystemLedgers) BY <1>1, <1>2, <1>4, FS_Union
<1> QED BY <1>5, ConstantsAssumption, FS_Union DEF Ledgers

(* The sum of a journal that touches no account.                           *)
LEMMA SystemSum ==
  ASSUME NEW f \in [Ledgers -> Int], \A a \in Accounts : f[a] = 0
  PROVE  SumFunction(f) = f["PAYABLE"] + f["RECEIVABLE"] + f["CLEARING"] + f["INCOME"] + f["CHARGE"]
                          + f["ROUNDING"]
<1>0. "PAYABLE" \in Ledgers /\ "RECEIVABLE" \in Ledgers /\ "CLEARING" \in Ledgers
      /\ "INCOME" \in Ledgers /\ "CHARGE" \in Ledgers /\ "ROUNDING" \in Ledgers
  BY DEF Ledgers, SystemLedgers
<1>1. IsFiniteSet(Ledgers) BY LedgersFinite
<1>w. ASSUME NEW h \in [Ledgers -> Int], NEW x \in Ledgers
      PROVE  \E g \in [Ledgers -> Int] :
               /\ g[x] = 0 /\ \A l \in Ledgers \ {x} : g[l] = h[l]
               /\ SumFunction(g) \in Int /\ SumFunction(h) = h[x] + SumFunction(g)
  BY <1>1, SumWithout
<1>2. PICK g1 \in [Ledgers -> Int] :
        /\ g1["PAYABLE"] = 0 /\ \A l \in Ledgers \ {"PAYABLE"} : g1[l] = f[l]
        /\ SumFunction(g1) \in Int /\ SumFunction(f) = f["PAYABLE"] + SumFunction(g1)
  BY <1>0, <1>w
<1>3. PICK g2 \in [Ledgers -> Int] :
        /\ g2["RECEIVABLE"] = 0 /\ \A l \in Ledgers \ {"RECEIVABLE"} : g2[l] = g1[l]
        /\ SumFunction(g2) \in Int /\ SumFunction(g1) = g1["RECEIVABLE"] + SumFunction(g2)
  BY <1>0, <1>w
<1>4. PICK g3 \in [Ledgers -> Int] :
        /\ g3["CLEARING"] = 0 /\ \A l \in Ledgers \ {"CLEARING"} : g3[l] = g2[l]
        /\ SumFunction(g3) \in Int /\ SumFunction(g2) = g2["CLEARING"] + SumFunction(g3)
  BY <1>0, <1>w
<1>5. PICK g4 \in [Ledgers -> Int] :
        /\ g4["INCOME"] = 0 /\ \A l \in Ledgers \ {"INCOME"} : g4[l] = g3[l]
        /\ SumFunction(g4) \in Int /\ SumFunction(g3) = g3["INCOME"] + SumFunction(g4)
  BY <1>0, <1>w
<1>6. PICK g5 \in [Ledgers -> Int] :
        /\ g5["CHARGE"] = 0 /\ \A l \in Ledgers \ {"CHARGE"} : g5[l] = g4[l]
        /\ SumFunction(g5) \in Int /\ SumFunction(g4) = g4["CHARGE"] + SumFunction(g5)
  BY <1>0, <1>w
<1>7. PICK g6 \in [Ledgers -> Int] :
        /\ g6["ROUNDING"] = 0 /\ \A l \in Ledgers \ {"ROUNDING"} : g6[l] = g5[l]
        /\ SumFunction(g6) \in Int /\ SumFunction(g5) = g5["ROUNDING"] + SumFunction(g6)
  BY <1>0, <1>w
<1>8. /\ f["PAYABLE"] \in Int /\ g1["RECEIVABLE"] = f["RECEIVABLE"] /\ f["RECEIVABLE"] \in Int
      /\ g2["CLEARING"] = f["CLEARING"] /\ f["CLEARING"] \in Int
      /\ g3["INCOME"] = f["INCOME"] /\ f["INCOME"] \in Int
      /\ g4["CHARGE"] = f["CHARGE"] /\ f["CHARGE"] \in Int
      /\ g5["ROUNDING"] = f["ROUNDING"] /\ f["ROUNDING"] \in Int
  BY <1>0, <1>2, <1>3, <1>4, <1>5, <1>6
<1>9. \A l \in Ledgers : g6[l] = 0
  <2> SUFFICES ASSUME NEW l \in Ledgers PROVE g6[l] = 0 OBVIOUS
  <2>1. CASE l \notin SystemLedgers
    <3>1. /\ l # "PAYABLE" /\ l # "RECEIVABLE" /\ l # "CLEARING" /\ l # "INCOME" /\ l # "CHARGE"
          /\ l # "ROUNDING" /\ l \in Accounts
      BY <2>1 DEF SystemLedgers, Ledgers
    <3> QED BY <1>2, <1>3, <1>4, <1>5, <1>6, <1>7, <3>1
  <2>2. CASE l \in SystemLedgers
    BY <1>2, <1>3, <1>4, <1>5, <1>6, <1>7, <2>2 DEF SystemLedgers
  <2> QED BY <2>1, <2>2
<1>10. SumFunction(g6) = 0 BY <1>1, <1>9, SumZero
<1> QED BY <1>2, <1>3, <1>4, <1>5, <1>6, <1>7, <1>8, <1>10

(* And of one that touches one account.                                    *)
LEMMA AccountSum ==
  ASSUME NEW f \in [Ledgers -> Int], NEW a \in Accounts, \A b \in Accounts \ {a} : f[b] = 0
  PROVE  SumFunction(f) = f[a] + f["PAYABLE"] + f["RECEIVABLE"] + f["CLEARING"] + f["INCOME"] + f["CHARGE"]
                          + f["ROUNDING"]
<1>1. IsFiniteSet(Ledgers) /\ SystemLedgers \subseteq Ledgers /\ a \in Ledgers /\ a \notin SystemLedgers
  BY ConstantsAssumption, LedgersFinite DEF Ledgers
<1>2. PICK g \in [Ledgers -> Int] :
        /\ g[a] = 0 /\ \A l \in Ledgers \ {a} : g[l] = f[l]
        /\ SumFunction(g) \in Int /\ SumFunction(f) = f[a] + SumFunction(g)
  BY <1>1, SumWithout
<1>3. \A b \in Accounts : g[b] = 0 BY <1>2 DEF Ledgers
<1>4. SumFunction(g) = g["PAYABLE"] + g["RECEIVABLE"] + g["CLEARING"] + g["INCOME"] + g["CHARGE"]
                       + g["ROUNDING"]
  BY <1>3, SystemSum
<1>5. \A l \in SystemLedgers : g[l] = f[l] /\ f[l] \in Int BY <1>1, <1>2
<1>6. /\ g["PAYABLE"] = f["PAYABLE"] /\ g["RECEIVABLE"] = f["RECEIVABLE"] /\ g["CLEARING"] = f["CLEARING"]
      /\ g["INCOME"] = f["INCOME"] /\ g["CHARGE"] = f["CHARGE"] /\ g["ROUNDING"] = f["ROUNDING"]
      /\ f["PAYABLE"] \in Int /\ f["RECEIVABLE"] \in Int /\ f["CLEARING"] \in Int
      /\ f["INCOME"] \in Int /\ f["CHARGE"] \in Int /\ f["ROUNDING"] \in Int
  BY <1>5 DEF SystemLedgers
<1>7. f[a] \in Int BY <1>1
<1> QED BY <1>2, <1>4, <1>6, <1>7

(* ledger.post() is given balanced journals only: the debits of each equal *)
(* its credits.                                                            *)
LEMMA JournalsBalance ==
  /\ \A p \in Payables : SumFunction(SourceJournal(p)) = 0
  /\ \A d \in Document : /\ SumFunction(OffsetJournal(d)) = 0
                         /\ d.account \in Accounts =>
                              /\ SumFunction(PaymentJournal(d)) = 0
                              /\ d.toPayable + d.toReceivable = d.cash => SumFunction(PayOutJournal(d)) = 0
                              /\ d.cash = d.amount => SumFunction(ReceiptJournal(d)) = 0
<1>0. /\ "PAYABLE" \in Ledgers /\ "RECEIVABLE" \in Ledgers /\ "CLEARING" \in Ledgers
      /\ "INCOME" \in Ledgers /\ "CHARGE" \in Ledgers /\ "ROUNDING" \in Ledgers
      /\ \A a \in Accounts : /\ a # "PAYABLE" /\ a # "RECEIVABLE" /\ a # "CLEARING" /\ a # "INCOME"
                             /\ a # "CHARGE" /\ a # "ROUNDING"
  BY ConstantsAssumption DEF Ledgers, SystemLedgers
<1>1. ASSUME NEW p \in Payables PROVE SumFunction(SourceJournal(p)) = 0
  <2> DEFINE f == SourceJournal(p)
  <2>1. f \in [Ledgers -> Int] /\ \A a \in Accounts : f[a] = 0 BY JournalTypes, OnAccounts
  <2>2. Original[p] \in Int /\ Expected[p] \in Int BY ConstantsAssumption
  <2>3. /\ f["PAYABLE"] = -Original[p] /\ f["RECEIVABLE"] = 0 /\ f["CLEARING"] = Expected[p]
        /\ f["INCOME"] = Original[p] - Expected[p] /\ f["CHARGE"] = 0 /\ f["ROUNDING"] = 0
    BY <1>0 DEF SourceJournal
  <2> HIDE DEF f
  <2>4. SumFunction(f) = f["PAYABLE"] + f["RECEIVABLE"] + f["CLEARING"] + f["INCOME"] + f["CHARGE"] + f["ROUNDING"]
    BY <2>1, SystemSum
  <2>5. SumFunction(f) = 0 BY <2>2, <2>3, <2>4
  <2> QED BY <2>5 DEF f
<1>2. ASSUME NEW d \in Document PROVE SumFunction(OffsetJournal(d)) = 0
  <2> DEFINE f == OffsetJournal(d)
  <2>1. f \in [Ledgers -> Int] /\ \A a \in Accounts : f[a] = 0 BY JournalTypes, OnAccounts
  <2>2. d.amount \in Int BY DEF Document
  <2>3. /\ f["PAYABLE"] = d.amount /\ f["RECEIVABLE"] = -d.amount /\ f["CLEARING"] = 0
        /\ f["INCOME"] = 0 /\ f["CHARGE"] = 0 /\ f["ROUNDING"] = 0
    BY <1>0 DEF OffsetJournal
  <2> HIDE DEF f
  <2>4. SumFunction(f) = f["PAYABLE"] + f["RECEIVABLE"] + f["CLEARING"] + f["INCOME"] + f["CHARGE"] + f["ROUNDING"]
    BY <2>1, SystemSum
  <2>5. SumFunction(f) = 0 BY <2>2, <2>3, <2>4
  <2> QED BY <2>5 DEF f
<1>3. ASSUME NEW d \in Document, d.account \in Accounts
      PROVE  /\ SumFunction(PaymentJournal(d)) = 0
             /\ d.toPayable + d.toReceivable = d.cash => SumFunction(PayOutJournal(d)) = 0
             /\ d.cash = d.amount => SumFunction(ReceiptJournal(d)) = 0
  <2> DEFINE a == d.account
  <2>1. /\ d.amount \in Int /\ d.cash \in Int /\ d.toPayable \in Int /\ d.toReceivable \in Int
        /\ Charge[a] \in Int
    BY <1>3, ConstantsAssumption DEF Document
  <2>2. SumFunction(PaymentJournal(d)) = 0
    <3> DEFINE f == PaymentJournal(d)
    <3>j. \A b \in Accounts : f[b] = IF b = a THEN -(d.cash + Charge[b]) ELSE 0 BY OnAccounts
    <3>1. f \in [Ledgers -> Int] /\ (\A b \in Accounts \ {a} : f[b] = 0) /\ f[a] = -(d.cash + Charge[a])
      BY <1>3, <3>j, JournalTypes
    <3>2. /\ f["PAYABLE"] = d.amount /\ f["RECEIVABLE"] = 0 /\ f["CLEARING"] = 0
          /\ f["INCOME"] = 0 /\ f["CHARGE"] = Charge[a] /\ f["ROUNDING"] = d.cash - d.amount
      BY <1>0, <1>3 DEF PaymentJournal
    <3> HIDE DEF f
    <3>3. SumFunction(f) = f[a] + f["PAYABLE"] + f["RECEIVABLE"] + f["CLEARING"] + f["INCOME"] + f["CHARGE"]
                           + f["ROUNDING"]
      BY <1>3, <3>1, AccountSum
    <3>4. SumFunction(f) = 0 BY <2>1, <3>1, <3>2, <3>3
    <3> QED BY <3>4 DEF f
  <2>3. ASSUME d.toPayable + d.toReceivable = d.cash PROVE SumFunction(PayOutJournal(d)) = 0
    <3> DEFINE f == PayOutJournal(d)
    <3>j. \A b \in Accounts : f[b] = IF b = a THEN -(d.cash + Charge[b]) ELSE 0 BY OnAccounts
    <3>1. f \in [Ledgers -> Int] /\ (\A b \in Accounts \ {a} : f[b] = 0) /\ f[a] = -(d.cash + Charge[a])
      BY <1>3, <3>j, JournalTypes
    <3>2. /\ f["PAYABLE"] = d.toPayable /\ f["RECEIVABLE"] = d.toReceivable /\ f["CLEARING"] = 0
          /\ f["INCOME"] = 0 /\ f["CHARGE"] = Charge[a] /\ f["ROUNDING"] = 0
      BY <1>0, <1>3 DEF PayOutJournal
    <3> HIDE DEF f
    <3>3. SumFunction(f) = f[a] + f["PAYABLE"] + f["RECEIVABLE"] + f["CLEARING"] + f["INCOME"] + f["CHARGE"]
                           + f["ROUNDING"]
      BY <1>3, <3>1, AccountSum
    <3>4. SumFunction(f) = 0 BY <2>1, <2>3, <3>1, <3>2, <3>3
    <3> QED BY <3>4 DEF f
  <2>4. ASSUME d.cash = d.amount PROVE SumFunction(ReceiptJournal(d)) = 0
    <3> DEFINE f == ReceiptJournal(d)
    <3>j. \A b \in Accounts : f[b] = IF b = a THEN d.cash ELSE 0 BY OnAccounts
    <3>1. f \in [Ledgers -> Int] /\ (\A b \in Accounts \ {a} : f[b] = 0) /\ f[a] = d.cash
      BY <1>3, <3>j, JournalTypes
    <3>2. /\ f["PAYABLE"] = 0 /\ f["RECEIVABLE"] = 0 /\ f["CLEARING"] = -d.amount
          /\ f["INCOME"] = 0 /\ f["CHARGE"] = 0 /\ f["ROUNDING"] = 0
      BY <1>0, <1>3 DEF ReceiptJournal
    <3> HIDE DEF f
    <3>3. SumFunction(f) = f[a] + f["PAYABLE"] + f["RECEIVABLE"] + f["CLEARING"] + f["INCOME"] + f["CHARGE"]
                           + f["ROUNDING"]
      BY <1>3, <3>1, AccountSum
    <3>4. SumFunction(f) = 0 BY <2>1, <2>4, <3>1, <3>2, <3>3
    <3> QED BY <3>4 DEF f
  <2> QED BY <2>2, <2>3, <2>4
<1> QED BY <1>1, <1>2, <1>3

(* A balanced journal leaves the sum of all balances alone.                *)
LEMMA BalancedPost ==
  ASSUME TablesOK, NEW j \in [Ledgers -> Int], SumFunction(j) = 0, Post(j) \/ PostReversal(j)
  PROVE  SumFunction(ledger') = SumFunction(ledger)
<1>1. IsFiniteSet(Ledgers) BY LedgersFinite
<1>2. ledger \in [Ledgers -> Int] /\ ledger' \in [Ledgers -> Int] BY PostType DEF TablesOK
<1>3. SumFunction(ledger) \in Int /\ SumFunction(ledger') \in Int BY <1>1, <1>2, SumType
<1>4. CASE Post(j)
  <2>1. \A l \in Ledgers : ledger'[l] = ledger[l] + j[l] BY <1>4 DEF Post
  <2>2. SumFunction(ledger') = SumFunction(ledger) + SumFunction(j) BY <1>1, <1>2, <2>1, SumAdd
  <2> QED BY <1>3, <2>2
<1>5. CASE PostReversal(j)
  <2>1. \A l \in Ledgers : ledger[l] = ledger'[l] + j[l]
    <3> SUFFICES ASSUME NEW l \in Ledgers PROVE ledger[l] = ledger'[l] + j[l] OBVIOUS
    <3>1. ledger'[l] = ledger[l] - j[l] BY <1>5 DEF PostReversal
    <3>2. ledger[l] \in Int /\ j[l] \in Int BY <1>2
    <3> QED BY <3>1, <3>2
  <2>2. SumFunction(ledger) = SumFunction(ledger') + SumFunction(j) BY <1>1, <1>2, <2>1, SumAdd
  <2> QED BY <1>3, <2>2
<1> QED BY <1>4, <1>5

\* The journal of an operation that commits balances.
LEMMA BalanceCommit ==
  ASSUME Known, NEW r \in Requests, Commit(r)
  PROVE  SumFunction(ledger') = SumFunction(ledger)
<1>1. TablesOK /\ TablesOK' BY CommonStep
<1>2. \A d \in Requests : /\ doc[d] \in Document /\ doc'[d] \in Document
                          /\ DocumentSound(doc[d]) /\ DocumentSound(doc'[d])
  BY <1>1, SoundCommit DEF Known, DocumentsSound, TablesOK
<1>3. \A d \in Document : OffsetJournal(d) \in [Ledgers -> Int] /\ ReceiptJournal(d) \in [Ledgers -> Int]
      /\ (d.account \in Accounts =>
            PaymentJournal(d) \in [Ledgers -> Int] /\ PayOutJournal(d) \in [Ledgers -> Int])
  BY JournalTypes
<1>4. CASE Pay(r) \/ ReversePayment(r)
  <2>1. PICK d \in Document : d.account \in Accounts
                              /\ (Post(PaymentJournal(d)) \/ PostReversal(PaymentJournal(d)))
    BY <1>2, <1>4, PayStep, ReversePaymentStep DEF Recorded
  <2> QED BY <1>1, <1>3, <2>1, JournalsBalance, BalancedPost
<1>5. CASE PayOut(r) \/ ReverseEntry(r)
  <2>1. PICK d \in Document : /\ d.account \in Accounts /\ DocumentSound(d) /\ d.kind = "payout"
                              /\ (Post(PayOutJournal(d)) \/ PostReversal(PayOutJournal(d)))
    BY <1>2, <1>5, PayOutStep, ReverseEntryStep DEF Recorded
  <2>2. d.toPayable + d.toReceivable = d.cash BY <2>1 DEF DocumentSound
  <2> QED BY <1>1, <1>3, <2>1, <2>2, JournalsBalance, BalancedPost
<1>6. CASE Receive(r) \/ ReverseReceipt(r)
  <2>1. PICK d \in Document : /\ d.account \in Accounts /\ DocumentSound(d) /\ d.kind = "receipt"
                              /\ (Post(ReceiptJournal(d)) \/ PostReversal(ReceiptJournal(d)))
    BY <1>2, <1>6, ReceiveStep, ReverseReceiptStep DEF Recorded
  <2>2. d.cash = d.amount BY <2>1 DEF DocumentSound
  <2> QED BY <1>1, <1>3, <2>1, <2>2, JournalsBalance, BalancedPost
<1>7. CASE Apply(r) \/ Unapply(r)
  <2>1. PICK d \in Document : Post(OffsetJournal(d)) \/ PostReversal(OffsetJournal(d))
    BY <1>2, <1>7, ApplyStep, UnapplyStep
  <2> QED BY <1>1, <1>3, <2>1, JournalsBalance, BalancedPost
<1>8. CASE Match(r) \/ Unmatch(r) BY <1>8, MatchStep, UnmatchStep
<1>9. CASE Cancel(r) \/ ReverseSource(r)
  <2>1. PICK p \in Payables : PostReversal(SourceJournal(p)) BY <1>9, VoidStep
  <2> QED BY <1>1, <2>1, JournalTypes, JournalsBalance, BalancedPost
<1> QED BY <1>4, <1>5, <1>6, <1>7, <1>8, <1>9 DEF Commit

\* The trial balance is kept by every step.
LEMMA BalanceNext == Known /\ TrialBalance /\ [Next]_vars => TrialBalance'
<1> SUFFICES ASSUME Known, [Next]_vars PROVE SumFunction(ledger') = SumFunction(ledger)
  BY DEF TrialBalance
<1>1. CASE UNCHANGED tables BY <1>1 DEF tables
<1>2. CASE \E p \in Payables : RecordSwipe(p)
  <2>1. PICK p \in Payables : Post(SourceJournal(p)) BY <1>2 DEF RecordSwipe
  <2> QED BY <2>1, ShapeTables, JournalTypes, JournalsBalance, BalancedPost DEF Known
<1>3. CASE \E r \in Requests : Commit(r) BY <1>3, BalanceCommit
<1> QED BY <1>1, <1>2, <1>3, TableSteps

\* It holds at first.
LEMMA BalanceInitially == Init => TrialBalance
<1> SUFFICES ASSUME Init PROVE SumFunction(ledger) = SumFunction(Opening) BY DEF TrialBalance
<1>1. IsFiniteSet(Ledgers) /\ Accounts \in SUBSET Ledgers /\ Opening \in [Accounts -> Int]
  BY ConstantsAssumption, LedgersFinite DEF Ledgers
<1>2. /\ ledger \in [Ledgers -> Int] /\ \A l \in Accounts : ledger[l] = Opening[l]
      /\ \A l \in Ledgers \ Accounts : ledger[l] = 0
  BY <1>1 DEF Init
<1> QED BY <1>1, <1>2, SumExtend

(* Debits equal credits in the books as a whole, the rounding of cash and  *)
(* the payout charge included: every journal that is posted or reversed    *)
(* balances.                                                               *)
THEOREM TrialBalanceInvariant == Spec => []TrialBalance
<1> DEFINE Inv == Known /\ TrialBalance
<1>1. Init => Inv BY KnownInitially, BalanceInitially
<1>2. Inv /\ [Next]_vars => Inv' BY KnownNext, BalanceNext
<1>3. Inv => TrialBalance OBVIOUS
<1> HIDE DEF Inv
<1> QED BY <1>1, <1>2, <1>3, PTL DEF Spec

=============================================================================
