----------------------- MODULE PayableControl_proofs -----------------------
(***************************************************************************)
(* Proofs that the columns of PayableSettlement agree with each other: the *)
(* payables with the documents that settle them, the payables with the     *)
(* settlements and the swipes, and all three with the control accounts.    *)
(*                                                                         *)
(* They hold where the code reads under a lock.  reverse() of a payout     *)
(* reads the payable before it locks it, cancel() and reverse() of a swipe *)
(* read the settlement before they lock it, and a match of a reversed Pay  *)
(* Out can be undone.  The theorems assume that the calls concerned do not *)
(* run beside those that change what they have read, and no more.          *)
(***************************************************************************)
EXTENDS PayableSettlement_proofs

---------------------------------------------------------------------------
(* Calls that are kept apart.                                              *)

(* No two transactions of these kinds are open at once.                    *)
NeverTogether(k, m) == {k, m} \in Apart \/ MaxInFlight = 1

(* Nothing that writes a payable runs beside the reversal of a payout.     *)
PaymentsReversedApart ==
    "reversePayment" \in Workload =>
        \A k \in Workload \ {"receive", "reverseReceipt"} : NeverTogether(k, "reversePayment")

(* The provider's receipts do not run beside a cancellation or reversal of *)
(* a swipe.                                                                *)
SwipesVoidedApart ==
    \A k \in Workload \cap {"cancel", "reverseSource"}, m \in Workload \cap {"receive", "reverseReceipt"} :
        NeverTogether(k, m)

(* The matches of Pay Outs are undone one by one or with their Pay Out,    *)
(* not both.                                                               *)
MatchesUndoneOneWay == ~({"unmatch", "reverseEntry"} \subseteq Workload)

KeptApart ==
    \A r, s \in Requests : r # s /\ Running(r) /\ Running(s) => ~NeverTogether(op[r].kind, op[s].kind)

(* begin() lets no two calls overlap that are to be kept apart.            *)
LEMMA KeptApartNext == Shape /\ KeptApart /\ [Next]_vars => KeptApart'
<1> SUFFICES ASSUME Shape, KeptApart, [Next]_vars, NEW r \in Requests, NEW s \in Requests, r # s,
                    Running(r)', Running(s)'
             PROVE  ~NeverTogether(op'[r].kind, op'[s].kind)
  BY DEF KeptApart, NeverTogether
<1>1. ASSUME NEW x \in Requests, NEW y \in Requests, x # y, Begin(x), Running(y)'
      PROVE  /\ Running(y) /\ op'[y] = op[y]
             /\ ~NeverTogether(op'[x].kind, op'[y].kind)
  <2>1. PICK o \in Calls : /\ \A z \in Requests : Running(z) => {o.kind, op[z].kind} \notin Apart
                           /\ op' = [op EXCEPT ![x] = o]
    BY <1>1 DEF Begin
  <2>2. op'[x] = o /\ op'[y] = op[y] BY <1>1, <2>1 DEF Shape, TypeOK
  <2>3. Running(y) BY <1>1, <2>2 DEF Running
  <2>4. MaxInFlight # 1
    <3> DEFINE open == {z \in Requests : Running(z)}
    <3>1. IsFiniteSet(open) /\ open # {} BY <1>1, <2>3, ConstantsAssumption, FS_Subset
    <3>2. Cardinality(open) \in Nat /\ Cardinality(open) # 0 BY <3>1, FS_CardinalityType, FS_EmptySet
    <3>3. Cardinality(open) < MaxInFlight BY <1>1 DEF Begin
    <3> QED BY <3>2, <3>3
  <2> QED BY <2>1, <2>2, <2>3, <2>4 DEF NeverTogether
<1>2. CASE Begin(r) BY <1>1, <1>2
<1>3. CASE Begin(s)
  <2>1. {op'[s].kind, op'[r].kind} = {op'[r].kind, op'[s].kind} OBVIOUS
  <2> QED BY <1>1, <1>3, <2>1 DEF NeverTogether
<1>4. CASE ~Begin(r) /\ ~Begin(s)
  <2>1. Running(r) /\ op'[r] = op[r] /\ Running(s) /\ op'[s] = op[s]
    BY <1>4, SessionSteps DEF Advance
  <2> QED BY <2>1 DEF KeptApart
<1> QED BY <1>2, <1>3, <1>4

---------------------------------------------------------------------------
(* What is read without a lock, and stands because nobody else writes it.  *)

(* The payable whose payout is reversed.                                   *)
PaymentReadStands(r) ==
    op[r].kind = "reversePayment" /\ stage[r] > 2 =>
        view[r].payable[op[r].payable] = payable[op[r].payable]

(* The settlement of a swipe that is cancelled or reversed.                *)
VoidReadStands(r) ==
    op[r].kind \in {"cancel", "reverseSource"} /\ stage[r] > 1 =>
        view[r].settlement = settlement[op[r].payable]

PaymentReadsStand == \A r \in Requests : Running(r) => PaymentReadStands(r)
VoidReadsStand == \A r \in Requests : Running(r) => VoidReadStands(r)

(* Receipts and their reversals leave the payables alone, and only these,  *)
(* cancellations and reversals of a swipe touch a settlement.              *)
LEMMA WhoWrites ==
  ASSUME NEW r \in Requests, Commit(r)
  PROVE  /\ payable' # payable => op[r].kind \in Kinds \ {"receive", "reverseReceipt"}
         /\ settlement' # settlement =>
              op[r].kind \in {"receive", "reverseReceipt"} \/ Cancel(r) \/ ReverseSource(r)
<1> USE DEF Kinds, Commits
<1>1. CASE Pay(r) BY <1>1 DEF Pay, PayEffect
<1>2. CASE PayOut(r) BY <1>2 DEF PayOut, PayOutEffect
<1>3. CASE Match(r) BY <1>3 DEF Match, MatchEffect
<1>4. CASE Unmatch(r) BY <1>4 DEF Unmatch, UnmatchEffect
<1>5. CASE Apply(r) BY <1>5 DEF Apply, ApplyEffect
<1>6. CASE Unapply(r) BY <1>6 DEF Unapply, UnapplyEffect
<1>7. CASE Cancel(r) BY <1>7 DEF Cancel
<1>8. CASE ReverseSource(r) BY <1>8 DEF ReverseSource
<1>9. CASE ReversePayment(r) BY <1>9 DEF ReversePayment, ReversePaymentEffect
<1>10. CASE ReverseEntry(r) BY <1>10 DEF ReverseEntry, ReverseEntryEffect
<1>11. CASE Receive(r) BY <1>11 DEF Receive, ReceiveEffect
<1>12. CASE ReverseReceipt(r) BY <1>12 DEF ReverseReceipt, ReverseReceiptEffect
<1> QED BY <1>1, <1>2, <1>3, <1>4, <1>5, <1>6, <1>7, <1>8, <1>9, <1>10, <1>11, <1>12 DEF Commit

(* A call and the swipe it works on.                                       *)
LEMMA CallSwipe ==
  ASSUME Shape, NEW s \in Requests, Running(s), op[s].kind \notin {"payout", "reverseEntry"}
  PROVE  /\ op[s].payable \in Payables /\ source[op[s].payable] # "ABSENT"
         /\ op[s].kind \in Workload /\ op[s].kind \in Kinds
BY CallFacts DEF CallOK, Shape, SessionsOK, SessionOK

(* A reversal of a payout reads the payable in its second step.            *)
LEMMA PaymentReadAdvance ==
  ASSUME Shape, PaymentReadsStand, NEW s \in Requests, Advance(s), op[s].kind = "reversePayment"
  PROVE  PaymentReadStands(s)'
<1> DEFINE o == op[s]
           v == view[s]
           n == stage[s]
           look == PlanOf(s)[n].look
           w == Look(o, v, look)
<1>1. Running(s) /\ UNCHANGED payable BY DEF Advance
<1>2. n \in 1..Len(PlanOf(s)) /\ stage'[s] = n + 1 /\ op' = op /\ view'[s] = w BY AdvanceFacts
<1>3. PaymentReadStands(s) /\ o.payable \in Payables BY <1>1, CallSwipe DEF PaymentReadsStand
<1>4. PlanOf(s) = ReversePaymentPlan(o) BY DEF PlanOf, Plan
<1>5. w.payable[o.payable] = IF "payable" \in look THEN payable[o.payable] ELSE v.payable[o.payable]
  BY <1>3 DEF Look, Subjects
<1>6. n \in 1..3 /\ (n = 2 => "payable" \in look)
  <2>1. /\ Len(ReversePaymentPlan(o)) = 3 /\ ReversePaymentPlan(o)[2].look = {"payable"}
    <3> HIDE DEF o
    <3> QED BY DEF ReversePaymentPlan, Step
  <2> QED BY <1>2, <1>4, <2>1
<1>7. n = 3 => v.payable[o.payable] = payable[o.payable] BY <1>3 DEF PaymentReadStands
<1> HIDE DEF w, look
<1>8. n + 1 > 2 => w.payable[o.payable] = payable[o.payable] BY <1>5, <1>6, <1>7
<1> QED BY <1>1, <1>2, <1>8 DEF PaymentReadStands

(* What a reversal of a payout has read of the payable stands until it     *)
(* commits.                                                                *)
LEMMA PaymentReadsNext ==
  ASSUME PaymentsReversedApart
  PROVE  Known /\ KeptApart /\ PaymentReadsStand /\ [Next]_vars => PaymentReadsStand'
<1> SUFFICES ASSUME Known, KeptApart, PaymentReadsStand, [Next]_vars, NEW s \in Requests, Running(s)'
             PROVE  PaymentReadStands(s)'
  BY DEF PaymentReadsStand
<1>1. Shape BY DEF Known
<1>2. CASE /\ Running(s) /\ op'[s] = op[s] /\ view'[s] = view[s] /\ stage'[s] = stage[s]
           /\ op[s].kind = "reversePayment"
  <2> DEFINE p == op[s].payable
  <2>1. p \in Payables /\ source[p] # "ABSENT" /\ "reversePayment" \in Workload
    BY <1>1, <1>2, CallSwipe
  <2>2. payable'[p] = payable[p]
    <3>1. CASE UNCHANGED tables BY <3>1 DEF tables
    <3>2. CASE \E q \in Payables : RecordSwipe(q)
      BY <1>1, <2>1, <3>2 DEF RecordSwipe, Shape, TypeOK
    <3>3. ASSUME NEW r \in Requests, Commit(r) PROVE payable'[p] = payable[p]
      <4>1. Running(r) /\ r # s
        <5>1. Running(r) /\ Finish(r, Done) BY <3>3, CommitEnds
        <5> QED BY <1>1, <1>2, <5>1, FinishTypes DEF Running
      <4>2. op[r].kind \in Workload BY <1>1, <4>1 DEF Shape, SessionsOK, SessionOK
      <4>3. ~NeverTogether(op[r].kind, "reversePayment") BY <1>2, <4>1 DEF KeptApart
      <4>4. op[r].kind \in {"receive", "reverseReceipt"}
        BY <2>1, <4>2, <4>3 DEF PaymentsReversedApart
      <4> QED BY <3>3, <4>4, WhoWrites
    <3> QED BY <3>1, <3>2, <3>3, TableSteps
  <2>3. PaymentReadStands(s) BY <1>2 DEF PaymentReadsStand
  <2> QED BY <1>2, <2>2, <2>3 DEF PaymentReadStands
<1>3. CASE Begin(s)
  <2>1. stage'[s] = 1 BY <1>1, <1>3 DEF Begin, Shape, TypeOK
  <2> QED BY <2>1 DEF PaymentReadStands
<1>4. CASE Advance(s) /\ op[s].kind = "reversePayment" BY <1>1, <1>4, PaymentReadAdvance
<1>5. CASE op'[s].kind # "reversePayment" BY <1>5 DEF PaymentReadStands
<1>6. Advance(s) => op'[s] = op[s] BY DEF Advance
<1> QED BY <1>1, <1>2, <1>3, <1>4, <1>5, <1>6, SessionSteps

(* Cancellations and reversals of a swipe exclude each other.              *)
LEMMA VoidLocks ==
  ASSUME Shape, LocksHeld, NEW s \in Requests, Running(s), op[s].kind \in {"cancel", "reverseSource"}
  PROVE  /\ stage[s] > 1 => \/ holder[PayableLock(op[s].payable)] = s
                            \/ holder[SourceLock(op[s].payable)] = s
         /\ AtEnd(s) => /\ holder[PayableLock(op[s].payable)] = s
                        /\ holder[SourceLock(op[s].payable)] = s
<1> DEFINE o == op[s]
           v == view[s]
<1>1. \A i \in 1..Len(Plan(o, v)) : i < stage[s] => \A row \in Plan(o, v)[i].rows : holder[row] = s
  BY DEF LocksHeld, HoldsLocks, PlanOf
<1>2. o.kind \in Kinds /\ stage[s] \in Nat /\ (AtEnd(s) => stage[s] = Len(Plan(o, v)) + 1)
  BY CallFacts DEF PlanOf, Shape, TypeOK
<1> HIDE DEF o, v
<1> USE DEF Step
<1>3. CASE o.kind = "cancel"
  <2>1. /\ Len(Plan(o, v)) = 3 /\ PayableLock(o.payable) \in Plan(o, v)[1].rows
        /\ SourceLock(o.payable) \in Plan(o, v)[2].rows
    BY <1>3 DEF Plan, CancelPlan
  <2> QED BY <1>1, <1>2, <2>1 DEF o
<1>4. CASE o.kind = "reverseSource"
  <2>1. /\ Len(Plan(o, v)) = 3 /\ SourceLock(o.payable) \in Plan(o, v)[1].rows
        /\ PayableLock(o.payable) \in Plan(o, v)[2].rows
    BY <1>4 DEF Plan, ReverseSourcePlan
  <2> QED BY <1>1, <1>2, <2>1 DEF o
<1> QED BY <1>3, <1>4 DEF o

(* Both read the settlement in their first step.                           *)
LEMMA VoidReadAdvance ==
  ASSUME Shape, VoidReadsStand, NEW s \in Requests, Advance(s), op[s].kind \in {"cancel", "reverseSource"}
  PROVE  VoidReadStands(s)'
<1> DEFINE o == op[s]
           v == view[s]
           n == stage[s]
           look == PlanOf(s)[n].look
           w == Look(o, v, look)
<1>1. Running(s) /\ UNCHANGED settlement BY DEF Advance
<1>2. n \in 1..Len(PlanOf(s)) /\ stage'[s] = n + 1 /\ op' = op /\ view'[s] = w BY AdvanceFacts
<1>3. VoidReadStands(s) BY <1>1 DEF VoidReadsStand
<1>4. PlanOf(s) = CancelPlan(o) \/ PlanOf(s) = ReverseSourcePlan(o) BY DEF PlanOf, Plan
<1>5. w.settlement = IF "settlement" \in look THEN settlement[o.payable] ELSE v.settlement
  BY DEF Look
<1>6. n \in 1..3 /\ (n = 1 => "settlement" \in look)
  <2>1. /\ Len(CancelPlan(o)) = 3 /\ "settlement" \in CancelPlan(o)[1].look
        /\ Len(ReverseSourcePlan(o)) = 3 /\ "settlement" \in ReverseSourcePlan(o)[1].look
    <3> HIDE DEF o
    <3> QED BY DEF CancelPlan, ReverseSourcePlan, Step
  <2> QED BY <1>2, <1>4, <2>1
<1>7. n > 1 => v.settlement = settlement[o.payable] BY <1>3 DEF VoidReadStands
<1> HIDE DEF w, look
<1>8. w.settlement = settlement[o.payable] BY <1>5, <1>6, <1>7
<1> QED BY <1>1, <1>2, <1>8 DEF VoidReadStands

(* And what they have read of it stands until they commit.                 *)
LEMMA VoidReadsNext ==
  ASSUME SwipesVoidedApart
  PROVE  Known /\ KeptApart /\ VoidReadsStand /\ [Next]_vars => VoidReadsStand'
<1> SUFFICES ASSUME Known, KeptApart, VoidReadsStand, [Next]_vars, NEW s \in Requests, Running(s)'
             PROVE  VoidReadStands(s)'
  BY DEF VoidReadsStand
<1>1. Shape /\ LocksHeld BY DEF Known
<1> DEFINE voids == {"cancel", "reverseSource"}
<1>2. CASE /\ Running(s) /\ op'[s] = op[s] /\ view'[s] = view[s] /\ stage'[s] = stage[s]
           /\ op[s].kind \in voids /\ stage[s] > 1
  <2> DEFINE p == op[s].payable
  <2>1. p \in Payables /\ source[p] # "ABSENT" /\ op[s].kind \in Workload
    BY <1>1, <1>2, CallSwipe
  <2>2. settlement'[p] = settlement[p]
    <3>1. CASE UNCHANGED tables BY <3>1 DEF tables
    <3>2. CASE \E q \in Payables : RecordSwipe(q)
      BY <1>1, <2>1, <3>2 DEF RecordSwipe, Shape, TypeOK
    <3>3. ASSUME NEW r \in Requests, Commit(r) PROVE settlement'[p] = settlement[p]
      <4>1. Running(r) /\ AtEnd(r) /\ r # s
        <5>1. Running(r) /\ AtEnd(r) /\ Finish(r, Done) BY <3>3, CommitEnds
        <5> QED BY <1>1, <1>2, <5>1, FinishTypes DEF Running
      <4>2. CASE settlement' = settlement BY <4>2
      <4>3. CASE op[r].kind \in {"receive", "reverseReceipt"}
        <5>1. op[r].kind \in Workload BY <1>1, <4>1 DEF Shape, SessionsOK, SessionOK
        <5>2. NeverTogether(op[s].kind, op[r].kind) BY <1>2, <2>1, <4>3, <5>1 DEF SwipesVoidedApart
        <5> QED BY <1>2, <4>1, <5>2 DEF KeptApart
      <4>4. CASE Cancel(r) \/ ReverseSource(r)
        <5>1. op[r].kind \in voids BY <4>4 DEF Cancel, ReverseSource, Commits
        <5>2. op[r].payable # p
          <6>1. /\ holder[PayableLock(op[r].payable)] = r /\ holder[SourceLock(op[r].payable)] = r
            BY <1>1, <4>1, <5>1, VoidLocks
          <6>2. holder[PayableLock(p)] = s \/ holder[SourceLock(p)] = s BY <1>1, <1>2, VoidLocks
          <6> QED BY <4>1, <6>1, <6>2
        <5> QED BY <2>1, <3>3, <4>4, <5>2, VoidStep
      <4> QED BY <3>3, <4>2, <4>3, <4>4, WhoWrites
    <3> QED BY <3>1, <3>2, <3>3, TableSteps
  <2>3. VoidReadStands(s) BY <1>2 DEF VoidReadsStand
  <2> QED BY <1>2, <2>2, <2>3 DEF VoidReadStands
<1>3. CASE Begin(s)
  <2>1. stage'[s] = 1 BY <1>1, <1>3 DEF Begin, Shape, TypeOK
  <2> QED BY <2>1 DEF VoidReadStands
<1>4. CASE Advance(s) /\ op[s].kind \in voids BY <1>1, <1>4, VoidReadAdvance
<1>5. CASE op'[s].kind \notin voids BY <1>5 DEF VoidReadStands
<1>6. Advance(s) => op'[s] = op[s] BY DEF Advance
<1>7. CASE Running(s) /\ op'[s] = op[s] /\ stage'[s] = stage[s] /\ ~(stage[s] > 1)
  BY <1>7 DEF VoidReadStands
<1> QED BY <1>1, <1>2, <1>3, <1>4, <1>5, <1>6, <1>7, SessionSteps

(* Nothing has been read when the system starts.                           *)
LEMMA ReadsStandInitially == Init => KeptApart /\ PaymentReadsStand /\ VoidReadsStand
<1> SUFFICES ASSUME Init PROVE KeptApart /\ PaymentReadsStand /\ VoidReadsStand OBVIOUS
<1>1. \A r \in Requests : ~Running(r) BY DEF Init, Running, Idle, Call, Kinds
<1> QED BY <1>1 DEF KeptApart, PaymentReadsStand, VoidReadsStand

(* What the reversal of a payout and the undoing of a swipe know at commit. *)
LEMMA PaymentReadAtEnd ==
  ASSUME Known, PaymentReadsStand, NEW r \in Requests, ReversePayment(r)
  PROVE  view[r].payable[op[r].payable] = payable[op[r].payable]
<1>1. Shape /\ Running(r) /\ AtEnd(r) /\ op[r].kind = "reversePayment"
  BY CommonStep DEF Known, Commit, ReversePayment, Commits
<1>2. stage[r] = Len(PlanOf(r)) + 1 BY <1>1, CallFacts
<1>3. PlanOf(r) = ReversePaymentPlan(op[r]) BY <1>1 DEF PlanOf, Plan
<1>4. Len(ReversePaymentPlan(op[r])) = 3 BY DEF ReversePaymentPlan
<1>5. stage[r] > 2 BY <1>2, <1>3, <1>4
<1> QED BY <1>1, <1>5 DEF PaymentReadsStand, PaymentReadStands

\* A call that voids a payable decides on the settlement as it is.
LEMMA VoidReadAtEnd ==
  ASSUME Known, VoidReadsStand, NEW r \in Requests, Cancel(r) \/ ReverseSource(r)
  PROVE  view[r].settlement = settlement[op[r].payable]
<1>1. /\ Shape /\ Running(r) /\ AtEnd(r) /\ op[r].kind \in {"cancel", "reverseSource"}
  BY CommonStep DEF Known, Commit, Cancel, ReverseSource, Commits
<1>2. stage[r] > 1 BY <1>1, CallFacts
<1> QED BY <1>1, <1>2 DEF VoidReadsStand, VoidReadStands

(* A payout that is reversed gives back what it settled, as far as it goes. *)
LEMMA ReversedPayment ==
  ASSUME Known, PaymentReadsStand, NEW r \in Requests, ReversePayment(r)
  PROVE  LET t == op[r].target
             p == op[r].payable
             paid == Larger(0, payable[op[r].payable].paid - doc[op[r].target].amount)
             remaining == Original[op[r].payable] - paid - payable[op[r].payable].offset
         IN  /\ t \in Requests /\ p \in Payables /\ source[p] # "ABSENT"
             /\ doc[t].kind = "payment" /\ doc[t].status = "COMPLETED" /\ doc[t].payable = p
             /\ doc[t].amount > 0 /\ doc[t].account \in Accounts
             /\ doc'[t] \in Document /\ SameTerms(doc'[t], doc[t]) /\ doc'[t].status = "REVERSED"
             /\ OtherDocuments({t}) /\ OtherPayables({p}) /\ UNCHANGED <<settlement, source>>
             /\ payable'[p].paid = paid /\ payable'[p].offset = payable[p].offset
             /\ payable'[p].remaining = remaining /\ payable'[p].status = StatusFor(remaining)
             /\ PostReversal(PaymentJournal(doc[t]))
<1> DEFINE t == op[r].target
           p == op[r].payable
           paidFrom(row) == Larger(0, row.paid - doc[t].amount)
           openFrom(row) == Original[p] - paidFrom(row) - row.offset
           row == view[r].payable[p]
<1>1. row = payable[p] BY PaymentReadAtEnd
<1>2. /\ t \in Requests /\ p \in Payables /\ source[p] # "ABSENT"
      /\ doc[t].kind = "payment" /\ doc[t].status = "COMPLETED" /\ doc[t].payable = p
      /\ doc[t].account \in Accounts
      /\ doc'[t] \in Document /\ SameTerms(doc'[t], doc[t]) /\ doc'[t].status = "REVERSED"
      /\ OtherDocuments({t}) /\ OtherPayables({p}) /\ UNCHANGED <<settlement, source>>
      /\ payable'[p].paid = paidFrom(row) /\ payable'[p].offset = payable[p].offset
      /\ payable'[p].remaining = openFrom(row) /\ payable'[p].status = StatusFor(openFrom(row))
      /\ PostReversal(PaymentJournal(doc[t]))
  BY ReversePaymentStep
<1>3. doc[t].amount > 0
  <2>1. DocumentSound(doc[t]) BY <1>2 DEF Known, DocumentsSound
  <2> QED BY <1>2, <2>1 DEF DocumentSound
<1> HIDE DEF row
<1> QED BY <1>1, <1>2, <1>3

---------------------------------------------------------------------------
(* Conservation, reversals of payouts included.                            *)

(* It leaves the row balanced, too.                                        *)
LEMMA RowsReversePayment ==
  ASSUME Known, PaymentReadsStand, RowsOK, NEW r \in Requests, ReversePayment(r), NEW q \in Payables
  PROVE  RowOK(q)'
<1> DEFINE p == op[r].payable
           n == doc[op[r].target].amount
           row == payable[p]
           paid == Larger(0, row.paid - n)
           remaining == Original[p] - paid - row.offset
<1>1. /\ p \in Payables /\ op[r].target \in Requests /\ source[p] # "ABSENT" /\ n > 0
      /\ payable'[p].paid = paid /\ payable'[p].offset = row.offset
      /\ payable'[p].remaining = remaining /\ payable'[p].status = StatusFor(remaining)
      /\ OtherPayables({p}) /\ source' = source
  BY ReversedPayment
<1>2. TablesOK BY CommonStep DEF Commit
<1>3. /\ row.paid \in Int /\ row.offset \in Int /\ row.remaining \in Int /\ n \in Int
      /\ Original[p] \in Int /\ Original[p] > 0
  BY <1>1, <1>2, ConstantsAssumption DEF TablesOK, PayableRow, Document
<1>4. RowOK(p) BY <1>1 DEF RowsOK
<1> HIDE DEF n, p
<1>5. row.paid >= 0 /\ row.offset >= 0 /\ row.paid + row.offset <= Original[p]
  <2>1. CASE row.status \in Void BY <1>1, <1>3, <1>4, <2>1 DEF RowOK
  <2>2. CASE row.status \notin Void BY <1>1, <1>3, <1>4, <2>2 DEF RowOK
  <2> QED BY <2>1, <2>2
<1> HIDE DEF row
<1>6. paid \in Int /\ 0 <= paid /\ paid <= row.paid BY <1>1, <1>3, <1>5 DEF Larger
<1> HIDE DEF paid
<1>7. remaining \in Int /\ remaining >= 0 /\ paid + row.offset + remaining = Original[p]
  BY <1>3, <1>5, <1>6
<1> HIDE DEF remaining
<1>8. StatusFor(remaining) \notin Void /\ (StatusFor(remaining) = "PAID" <=> remaining = 0)
  BY <1>7 DEF StatusFor, Void
<1>9. CASE q = p
  <2>1. /\ payable'[q].paid = paid /\ payable'[q].offset = payable[q].offset
        /\ payable'[q].remaining = remaining /\ payable'[q].status = StatusFor(remaining)
        /\ 0 <= paid /\ remaining >= 0 /\ payable[q].offset >= 0
        /\ paid + payable[q].offset + remaining = Original[q]
    BY <1>1, <1>5, <1>6, <1>7, <1>9 DEF row
  <2> QED BY <1>8, <2>1 DEF RowOK
<1>10. CASE q # p BY <1>1, <1>10 DEF OtherPayables, RowsOK, RowOK
<1> QED BY <1>9, <1>10

(* Every row stays balanced.                                               *)
LEMMA AllRowsNext == Known /\ PaymentReadsStand /\ RowsOK /\ [Next]_vars => RowsOK'
<1> SUFFICES ASSUME Known, PaymentReadsStand, RowsOK, [Next]_vars, NEW p \in Payables PROVE RowOK(p)'
  BY DEF RowsOK
<1>1. Shape /\ LockedViewsFresh BY DEF Known
<1>2. CASE UNCHANGED tables BY <1>2 DEF tables, RowsOK, RowOK
<1>3. CASE \E q \in Payables : RecordSwipe(q) BY <1>1, <1>3, RowsRecordSwipe
<1>4. ASSUME NEW r \in Requests, Commit(r) PROVE RowOK(p)'
  <2>1. CASE ReversePayment(r) BY <2>1, RowsReversePayment
  <2>2. CASE ~ReversePayment(r) BY <1>1, <1>4, <2>2, RowsCommit
  <2> QED BY <2>1, <2>2
<1> QED BY <1>2, <1>3, <1>4, TableSteps

(* No paisa is lost or counted twice when payouts are reversed as well, if *)
(* nothing that writes the payable runs beside such a reversal: it reads   *)
(* the row before it locks it, and writes what it makes of it.             *)
THEOREM ConservationWithReversals ==
  ASSUME PaymentsReversedApart
  PROVE  Spec => []Conservation
<1> DEFINE Inv == Known /\ KeptApart /\ PaymentReadsStand /\ RowsOK
<1>1. Init => Inv BY KnownInitially, ReadsStandInitially, RowsInitially
<1>2. Inv /\ [Next]_vars => Inv' BY KnownNext, KeptApartNext, PaymentReadsNext, AllRowsNext DEF Known
<1>3. Inv => Conservation BY DEF RowsOK, RowOK, Conservation
<1> HIDE DEF Inv
<1> QED BY <1>1, <1>2, <1>3, PTL DEF Spec

---------------------------------------------------------------------------
(* Rows and documents that nothing has touched.                            *)

(* A swipe that has not been recorded has empty rows.                      *)
Blank(p) ==
    source[p] = "ABSENT" => payable[p] = NoPayableRow /\ settlement[p] = NoSettlementRow

AllBlank == \A p \in Payables : Blank(p)

(* Only payouts, advances and receipts are about one payable.              *)
PayOutsGeneral == \A r \in Requests : doc[r].kind \in {"none", "payout"} => doc[r].payable = None

(* Pay Outs stay completed where none is ever reversed.                    *)
PayOutsStand ==
    "reverseEntry" \notin Workload =>
        \A r \in Requests : doc[r].kind = "payout" => doc[r].status = "COMPLETED"

(* A commit works on swipes that have been recorded.                       *)
LEMMA CommitOnSwipes ==
  ASSUME Known, NEW r \in Requests, Commit(r), NEW q \in Payables, source[q] = "ABSENT"
  PROVE  payable'[q] = payable[q] /\ settlement'[q] = settlement[q] /\ source'[q] = "ABSENT"
<1> DEFINE p == op[r].payable
           e == op[r].entry
<1>1. CASE Pay(r)
  <2>1. source[p] # "ABSENT" /\ OtherPayables({p}) /\ UNCHANGED <<settlement, source>> BY <1>1, PayStep
  <2> QED BY <2>1 DEF OtherPayables
<1>2. CASE PayOut(r)
  <2>1. /\ p \in Payables => source[p] = "COMPLETED"
        /\ OtherPayables({p}) /\ UNCHANGED <<settlement, source>>
    BY <1>2, PayOutStep
  <2> QED BY <2>1 DEF OtherPayables
<1>3. CASE Match(r) \/ Unmatch(r)
  <2>1. source[p] # "ABSENT" /\ OtherPayables({p}) /\ UNCHANGED <<settlement, source>>
    BY <1>3, MatchStep, UnmatchStep
  <2> QED BY <2>1 DEF OtherPayables
<1>4. CASE Apply(r) \/ Unapply(r)
  <2>1. source[p] # "ABSENT" /\ OtherPayables({p}) /\ UNCHANGED <<settlement, source>>
    BY <1>4, ApplyStep, UnapplyStep
  <2> QED BY <2>1 DEF OtherPayables
<1>5. CASE Cancel(r) \/ ReverseSource(r)
  <2>1. /\ source[p] # "ABSENT" /\ OtherPayables({p})
        /\ \A x \in Payables \ {p} : settlement'[x] = settlement[x] /\ source'[x] = source[x]
    BY <1>5, VoidStep
  <2> QED BY <2>1 DEF OtherPayables
<1>6. CASE ReversePayment(r)
  <2>1. source[p] # "ABSENT" /\ OtherPayables({p}) /\ UNCHANGED <<settlement, source>>
    BY <1>6, ReversePaymentStep
  <2> QED BY <2>1 DEF OtherPayables
<1>7. CASE ReverseEntry(r)
  <2>1. /\ e \in Requests /\ UNCHANGED <<settlement, source>>
        /\ ~(doc[e].matched[q] > 0) => payable'[q] = payable[q]
    BY <1>7, ReverseEntryStep
  <2>2. DocumentOK(doc[e]) BY <2>1 DEF Known, Shape, DocumentsOK
  <2> QED BY <2>1, <2>2 DEF DocumentOK
<1>8. CASE Receive(r)
  <2>1. /\ source[p] # "ABSENT" /\ UNCHANGED <<payable, source>>
        /\ \A x \in Payables \ {p} : settlement'[x] = settlement[x]
    BY <1>8, ReceiveStep
  <2> QED BY <2>1
<1>9. CASE ReverseReceipt(r)
  <2>1. /\ source[p] # "ABSENT" /\ UNCHANGED <<payable, source>>
        /\ \A x \in Payables \ {p} : settlement'[x] = settlement[x]
    BY <1>9, ReverseReceiptStep
  <2> QED BY <2>1
<1> QED BY <1>1, <1>2, <1>3, <1>4, <1>5, <1>6, <1>7, <1>8, <1>9 DEF Commit

(* So the rows of a swipe are empty until it is recorded.                  *)
LEMMA BlankNext == Known /\ AllBlank /\ [Next]_vars => AllBlank'
<1> SUFFICES ASSUME Known, AllBlank, [Next]_vars, NEW q \in Payables PROVE Blank(q)'
  BY DEF AllBlank
<1>1. Blank(q) BY DEF AllBlank
<1>2. CASE UNCHANGED tables BY <1>1, <1>2 DEF tables, Blank
<1>3. ASSUME NEW p \in Payables, RecordSwipe(p) PROVE Blank(q)'
  <2>1. TablesOK BY ShapeTables DEF Known
  <2>2. CASE p = q
    <3>1. source'[q] = "COMPLETED" BY <1>3, <2>1, <2>2 DEF RecordSwipe, TablesOK
    <3> QED BY <3>1 DEF Blank
  <2>3. CASE p # q
    <3>1. payable'[q] = payable[q] /\ settlement'[q] = settlement[q] /\ source'[q] = source[q]
      BY <1>3, <2>1, <2>3 DEF RecordSwipe, TablesOK
    <3> QED BY <1>1, <3>1 DEF Blank
  <2> QED BY <2>2, <2>3
<1>4. ASSUME NEW r \in Requests, Commit(r) PROVE Blank(q)'
  <2>1. CASE source[q] = "ABSENT" BY <1>1, <1>4, <2>1, CommitOnSwipes DEF Blank
  <2>2. CASE source[q] # "ABSENT"
    <3>1. source'[q] # "ABSENT" BY <1>4, <2>2, RecordedStays DEF Known
    <3> QED BY <3>1 DEF Blank
  <2> QED BY <2>1, <2>2
<1> QED BY <1>2, <1>3, <1>4, TableSteps

(* A Pay Out names no payable of its own.                                  *)
LEMMA GeneralNext == Known /\ PayOutsGeneral /\ [Next]_vars => PayOutsGeneral'
<1> SUFFICES ASSUME Known, PayOutsGeneral, [Next]_vars, NEW x \in Requests, doc'[x].kind \in {"none", "payout"}
             PROVE  doc'[x].payable = None
  BY DEF PayOutsGeneral
<1>1. CASE doc[x].kind # "none" BY <1>1, DocumentStays DEF Known, PayOutsGeneral
<1>2. CASE doc'[x] = doc[x] BY <1>2 DEF PayOutsGeneral
<1>3. ASSUME NEW r \in Requests, Commit(r), doc[x].kind = "none", doc'[x] # doc[x]
      PROVE  doc'[x].payable = None
  <2>1. Shape /\ doc[r].kind = "none" BY <1>3, CommonStep DEF Known
  <2>2. SameDocuments(r) BY <1>3, <2>1, CommitDocuments
  <2>3. CASE x # r BY <2>2, <2>3 DEF SameDocuments, PayOutsGeneral
  <2>4. CASE x = r
    <3>1. CASE Pay(r) BY <1>3, <2>4, <3>1, PayStep DEF Recorded
    <3>2. CASE PayOut(r) BY <1>3, <2>4, <3>2, PayOutStep DEF Recorded
    <3>3. CASE Match(r) \/ Unmatch(r)
      <4>1. op[r].entry # r /\ OtherDocuments({op[r].entry}) BY <2>1, <3>3, MatchStep, UnmatchStep
      <4> QED BY <1>3, <2>4, <4>1 DEF OtherDocuments
    <3>4. CASE Apply(r) BY <1>3, <2>4, <3>4, ApplyStep DEF Recorded
    <3>5. CASE Unapply(r)
      <4>1. op[r].entry # r /\ op[r].target # r /\ OtherDocuments({op[r].target, op[r].entry})
        BY <2>1, <3>5, UnapplyStep
      <4> QED BY <1>3, <2>4, <4>1 DEF OtherDocuments
    <3>6. CASE Cancel(r) \/ ReverseSource(r) BY <1>3, <3>6, VoidStep
    <3>7. CASE ReversePayment(r) \/ ReverseReceipt(r)
      <4>1. op[r].target # r /\ OtherDocuments({op[r].target})
        BY <2>1, <3>7, ReversePaymentStep, ReverseReceiptStep
      <4> QED BY <1>3, <2>4, <4>1 DEF OtherDocuments
    <3>8. CASE ReverseEntry(r)
      <4>1. op[r].entry # r /\ OtherDocuments({op[r].entry}) BY <2>1, <3>8, ReverseEntryStep
      <4> QED BY <1>3, <2>4, <4>1 DEF OtherDocuments
    <3>9. CASE Receive(r) BY <1>3, <2>4, <3>9, ReceiveStep DEF Recorded
    <3> QED BY <1>3, <3>1, <3>2, <3>3, <3>4, <3>5, <3>6, <3>7, <3>8, <3>9 DEF Commit
  <2> QED BY <2>3, <2>4
<1>4. UNCHANGED tables \/ (\E p \in Payables : RecordSwipe(p)) => doc' = doc
  BY DEF tables, RecordSwipe
<1> QED BY <1>1, <1>2, <1>3, <1>4, TableSteps

(* Only reverse() of a Pay Out reverses one.                               *)
LEMMA PayOutsStandNext == Known /\ PayOutsStand /\ [Next]_vars => PayOutsStand'
<1> SUFFICES ASSUME Known, PayOutsStand, [Next]_vars, "reverseEntry" \notin Workload,
                    NEW x \in Requests, doc'[x].kind = "payout"
             PROVE  doc'[x].status = "COMPLETED"
  BY DEF PayOutsStand
<1>1. doc'[x] = doc[x] => doc'[x].status = "COMPLETED" BY DEF PayOutsStand
<1>2. ASSUME NEW r \in Requests, Commit(r), doc'[x] # doc[x] PROVE doc'[x].status = "COMPLETED"
  <2> DEFINE e == op[r].entry
             t == op[r].target
  <2>1. CASE Pay(r)
    <3>1. OtherDocuments({r}) /\ doc'[r].status = "COMPLETED" BY <2>1, PayStep DEF Recorded
    <3> QED BY <1>2, <3>1 DEF OtherDocuments
  <2>2. CASE PayOut(r)
    <3>1. OtherDocuments({r}) /\ doc'[r].status = "COMPLETED" BY <2>2, PayOutStep DEF Recorded
    <3> QED BY <1>2, <3>1 DEF OtherDocuments
  <2>3. CASE Receive(r)
    <3>1. OtherDocuments({r}) /\ doc'[r].status = "COMPLETED" BY <2>3, ReceiveStep DEF Recorded
    <3> QED BY <1>2, <3>1 DEF OtherDocuments
  <2>4. CASE Match(r) \/ Unmatch(r)
    <3>1. e \in Requests /\ OtherDocuments({e}) /\ doc'[e].status = doc[e].status /\ doc[e].kind = "payout"
      BY <2>4, MatchStep, UnmatchStep
    <3> QED BY <1>2, <3>1 DEF OtherDocuments, PayOutsStand
  <2>5. CASE Apply(r)
    <3>1. /\ e \in Requests /\ OtherDocuments({r, e}) /\ doc'[e].status = doc[e].status
          /\ doc[e].kind = "payout" /\ doc'[r].status = "COMPLETED"
      BY <2>5, ApplyStep DEF Recorded
    <3> QED BY <1>2, <3>1 DEF OtherDocuments, PayOutsStand
  <2>6. CASE Unapply(r)
    <3>1. /\ e \in Requests /\ OtherDocuments({t, e}) /\ doc'[e].status = doc[e].status
          /\ doc[e].kind = "payout" /\ doc[t].kind = "offset" /\ doc'[t].kind = doc[t].kind
      BY <2>6, UnapplyStep DEF SameTerms
    <3> QED BY <1>2, <3>1 DEF OtherDocuments, PayOutsStand
  <2>7. CASE Cancel(r) \/ ReverseSource(r) BY <1>2, <2>7, VoidStep
  <2>8. CASE ReversePayment(r) \/ ReverseReceipt(r)
    <3>1. OtherDocuments({t}) /\ doc[t].kind \in {"payment", "receipt"} /\ doc'[t].kind = doc[t].kind
      BY <2>8, ReversePaymentStep, ReverseReceiptStep DEF SameTerms
    <3> QED BY <1>2, <3>1 DEF OtherDocuments
  <2>9. CASE ReverseEntry(r)
    <3>1. op[r].kind = "reverseEntry" BY <2>9 DEF ReverseEntry, Commits
    <3>2. op[r].kind \in Workload BY <1>2, CommonStep DEF Known, Shape, SessionsOK, SessionOK
    <3> QED BY <3>1, <3>2
  <2> QED BY <1>2, <2>1, <2>2, <2>3, <2>4, <2>5, <2>6, <2>7, <2>8, <2>9 DEF Commit
<1>3. UNCHANGED tables \/ (\E p \in Payables : RecordSwipe(p)) => doc' = doc
  BY DEF tables, RecordSwipe
<1> QED BY <1>1, <1>2, <1>3, TableSteps

(* Nothing is recorded when the system starts.                             *)
LEMMA BlankInitially == Init => AllBlank /\ PayOutsGeneral /\ PayOutsStand
BY DEF Init, AllBlank, Blank, PayOutsGeneral, PayOutsStand, NoDocument

---------------------------------------------------------------------------
(* What the documents settle.                                              *)

(* What a document of this kind settles of p.                              *)
Settling(kind, p) ==
    [d \in Document |-> IF d.status = "COMPLETED" /\ d.kind = kind /\ d.payable = p THEN d.amount ELSE 0]

(* What a Pay Out was matched to p for.                                    *)
Allocating(p) ==
    [d \in Document |-> IF d.status = "COMPLETED" /\ d.kind = "payout" THEN d.matched[p] ELSE 0]

(* What a document pays of p, either way.                                  *)
Paying(p) == [d \in Document |-> Settling("payment", p)[d] + Allocating(p)[d]]

\* What a document settles, allocates or pays of a payable is an integer.
LEMMA SettlingTypes ==
  ASSUME NEW p \in Payables
  PROVE  /\ \A kind \in {"payment", "offset", "receipt"} : Settling(kind, p) \in [Document -> Int]
         /\ Allocating(p) \in [Document -> Int] /\ Paying(p) \in [Document -> Int]
<1>1. \A d \in Document : d.amount \in Int /\ d.matched[p] \in Int BY DEF Document
<1>2. Allocating(p) \in [Document -> Int] BY <1>1 DEF Allocating
<1>3. ASSUME NEW kind PROVE Settling(kind, p) \in [Document -> Int] BY <1>1 DEF Settling
<1>4. Settling("payment", p) \in [Document -> Int] BY <1>3
<1>5. Paying(p) \in [Document -> Int] BY <1>2, <1>4 DEF Paying
<1> QED BY <1>2, <1>3, <1>5

(* What a document pays and settles, by its kind.                          *)
LEMMA SettlingValues ==
  ASSUME NEW p \in Payables, NEW d \in Document
  PROVE  /\ Paying(p)[d] = IF d.status = "COMPLETED" /\ d.kind = "payment" /\ d.payable = p THEN d.amount
                           ELSE IF d.status = "COMPLETED" /\ d.kind = "payout" THEN d.matched[p]
                           ELSE 0
         /\ \A kind : Settling(kind, p)[d] =
              IF d.status = "COMPLETED" /\ d.kind = kind /\ d.payable = p THEN d.amount ELSE 0
<1>1. d.amount \in Int /\ d.matched[p] \in Int BY DEF Document
<1>2. \A kind : Settling(kind, p)[d] =
        IF d.status = "COMPLETED" /\ d.kind = kind /\ d.payable = p THEN d.amount ELSE 0
  BY DEF Settling
<1>3. Allocating(p)[d] = IF d.status = "COMPLETED" /\ d.kind = "payout" THEN d.matched[p] ELSE 0
  BY DEF Allocating
<1>4. Paying(p)[d] = Settling("payment", p)[d] + Allocating(p)[d] BY DEF Paying
<1>5. CASE d.kind = "payment"
  <2>1. Settling("payment", p)[d] = IF d.status = "COMPLETED" /\ d.payable = p THEN d.amount ELSE 0
    BY <1>2, <1>5
  <2>2. Allocating(p)[d] = 0 BY <1>3, <1>5
  <2>3. Paying(p)[d] = Settling("payment", p)[d]
    <3>1. Settling("payment", p)[d] \in Int BY <1>1, <2>1
    <3> QED BY <1>4, <2>2, <3>1
  <2> QED BY <1>2, <1>5, <2>1, <2>3
<1>6. CASE d.kind # "payment"
  <2>1. Settling("payment", p)[d] = 0 BY <1>2, <1>6
  <2>2. Allocating(p)[d] \in Int BY <1>1, <1>3
  <2>3. Paying(p)[d] = Allocating(p)[d] BY <1>4, <2>1, <2>2
  <2> QED BY <1>2, <1>3, <1>6, <2>3
<1> QED BY <1>5, <1>6

(* The sums of the reconciliation are such tallies.                        *)
LEMMA SettlementsTally ==
  ASSUME NEW docs \in [Requests -> Document], NEW kind, NEW p
  PROVE  SumFunction([r \in Requests |->
            IF r \in {q \in Requests : docs[q].kind = kind /\ docs[q].status = "COMPLETED"}
               /\ docs[r].payable = p
            THEN docs[r].amount ELSE 0]) = Tally(Settling(kind, p), docs)
<1>1. \A r \in Requests :
        Settling(kind, p)[docs[r]] =
          IF r \in {q \in Requests : docs[q].kind = kind /\ docs[q].status = "COMPLETED"}
             /\ docs[r].payable = p
          THEN docs[r].amount ELSE 0
  BY DEF Settling
<1> QED BY <1>1 DEF Tally

\* The sum of allocations the invariant speaks of is a tally over all documents.
LEMMA AllocationsTally ==
  ASSUME NEW docs \in [Requests -> Document], NEW p
  PROVE  SumFunction([r \in Requests |->
            IF r \in {q \in Requests : docs[q].kind = "payout" /\ docs[q].status = "COMPLETED"}
            THEN docs[r].matched[p] ELSE 0]) = Tally(Allocating(p), docs)
<1>1. \A r \in Requests :
        Allocating(p)[docs[r]] =
          IF r \in {q \in Requests : docs[q].kind = "payout" /\ docs[q].status = "COMPLETED"}
          THEN docs[r].matched[p] ELSE 0
  BY DEF Allocating
<1> QED BY <1>1 DEF Tally

(* The tally of a sum is the sum of the tallies.                           *)
LEMMA PayingTally ==
  ASSUME NEW docs \in [Requests -> Document], NEW p \in Payables
  PROVE  Tally(Paying(p), docs) = Tally(Settling("payment", p), docs) + Tally(Allocating(p), docs)
<1> DEFINE f == [r \in Requests |-> Settling("payment", p)[docs[r]]]
           g == [r \in Requests |-> Allocating(p)[docs[r]]]
           h == [r \in Requests |-> Paying(p)[docs[r]]]
<1>1. IsFiniteSet(Requests) BY ConstantsAssumption
<1>2. f \in [Requests -> Int] /\ g \in [Requests -> Int] /\ h \in [Requests -> Int]
  <2>1. /\ Settling("payment", p) \in [Document -> Int] /\ Allocating(p) \in [Document -> Int]
        /\ Paying(p) \in [Document -> Int]
    BY SettlingTypes
  <2> QED BY <2>1
<1>3. \A r \in Requests : h[r] = f[r] + g[r] BY DEF Paying
<1> HIDE DEF f, g, h
<1>4. SumFunction(h) = SumFunction(f) + SumFunction(g) BY <1>1, <1>2, <1>3, SumAdd
<1> QED BY <1>4 DEF Tally, f, g, h

(* A document that counts is not more than all of them together.           *)
LEMMA TallyBound ==
  ASSUME NEW F \in [Document -> Int], NEW docs \in [Requests -> Document],
         \A r \in Requests : F[docs[r]] >= 0, NEW x \in Requests
  PROVE  Tally(F, docs) \in Int /\ F[docs[x]] <= Tally(F, docs) /\ Tally(F, docs) >= 0
<1> DEFINE f == [r \in Requests |-> F[docs[r]]]
<1>1. IsFiniteSet(Requests) BY ConstantsAssumption
<1>2. f \in [Requests -> Nat] /\ f[x] = F[docs[x]] OBVIOUS
<1> HIDE DEF f
<1>3. f[x] <= SumFunction(f) /\ SumFunction(f) \in Nat BY <1>1, <1>2, SumBound, SumNat
<1> QED BY <1>2, <1>3 DEF Tally, f

(* Recorded documents count for something.                                 *)
LEMMA SettlingPositive ==
  ASSUME Known, NEW p \in Payables, NEW r \in Requests
  PROVE  /\ Paying(p)[doc[r]] >= 0
         /\ Settling("offset", p)[doc[r]] >= 0
         /\ Settling("receipt", p)[doc[r]] >= 0
<1>1. doc[r] \in Document /\ DocumentOK(doc[r]) /\ DocumentSound(doc[r])
  BY ShapeTables DEF Known, DocumentsSound, Shape, DocumentsOK, TablesOK
<1>2. doc[r].amount \in Int /\ doc[r].matched[p] \in Int BY <1>1 DEF Document
<1>3. /\ doc[r].kind \in {"payment", "offset", "receipt"} => doc[r].amount > 0
      /\ doc[r].kind = "payout" => doc[r].matched[p] >= 0
  BY <1>1 DEF DocumentOK, DocumentSound
<1> QED BY <1>1, <1>2, <1>3, SettlingValues

(* A tally after a step that changes one document, or two.                 *)
LEMMA TallyStep ==
  ASSUME TablesOK, TablesOK', NEW F \in [Document -> Int], NEW x \in Requests
  PROVE  /\ OtherDocuments({x}) =>
              Tally(F, doc') = Tally(F, doc) - F[doc[x]] + F[doc'[x]]
         /\ \A y \in Requests \ {x} : OtherDocuments({x, y}) =>
              Tally(F, doc') = Tally(F, doc) - F[doc[x]] + F[doc'[x]] - F[doc[y]] + F[doc'[y]]
         /\ Tally(F, doc) \in Int /\ F[doc[x]] \in Int /\ F[doc'[x]] \in Int
<1>1. doc \in [Requests -> Document] /\ doc' \in [Requests -> Document] BY DEF TablesOK
<1>2. F[doc[x]] \in Int /\ F[doc'[x]] \in Int BY <1>1
<1>3. OtherDocuments({x}) => Tally(F, doc') = Tally(F, doc) - F[doc[x]] + F[doc'[x]]
  BY <1>1, TallyOne DEF OtherDocuments
<1>4. ASSUME NEW y \in Requests \ {x}, OtherDocuments({x, y})
      PROVE  Tally(F, doc') = Tally(F, doc) - F[doc[x]] + F[doc'[x]] - F[doc[y]] + F[doc'[y]]
  BY <1>1, <1>4, TallyTwo DEF OtherDocuments
<1>5. Tally(F, doc) \in Int BY <1>1, TallyOne
<1> QED BY <1>2, <1>3, <1>4, <1>5

---------------------------------------------------------------------------
(* Every column is what the documents say.                                 *)

AllPaid == \A p \in Payables : payable[p].paid = Tally(Paying(p), doc)
AllOffset == \A p \in Payables : payable[p].offset = Tally(Settling("offset", p), doc)
AllReceived == \A p \in Payables : settlement[p].received = Tally(Settling("receipt", p), doc)

(* What is paid is what active payouts and allocations add up to, whatever *)
(* operation commits.                                                      *)
LEMMA PaidCommit ==
  ASSUME MatchesUndoneOneWay, Known, PaymentReadsStand, PayOutsStand, AllPaid,
         NEW r \in Requests, Commit(r), NEW q \in Payables
  PROVE  payable'[q].paid = Tally(Paying(q), doc')
<1> DEFINE F == Paying(q)
           p == op[r].payable
           e == op[r].entry
           t == op[r].target
<1>1. /\ TablesOK /\ TablesOK' /\ doc[r].kind = "none" /\ F \in [Document -> Int]
      /\ \A d \in Requests : doc[d] \in Document /\ doc'[d] \in Document
  BY CommonStep, SettlingTypes DEF TablesOK
<1>2. payable[q].paid = Tally(F, doc) /\ payable[q].paid \in Int
  BY <1>1 DEF AllPaid, TablesOK, PayableRow
<1>3. ASSUME NEW x \in Requests
      PROVE  /\ OtherDocuments({x}) => Tally(F, doc') = Tally(F, doc) - F[doc[x]] + F[doc'[x]]
             /\ \A y \in Requests \ {x} : OtherDocuments({x, y}) =>
                  Tally(F, doc') = Tally(F, doc) - F[doc[x]] + F[doc'[x]] - F[doc[y]] + F[doc'[y]]
             /\ Tally(F, doc) \in Int /\ F[doc[x]] \in Int /\ F[doc'[x]] \in Int
  BY <1>1, TallyStep
<1>4. ASSUME NEW d \in Document
      PROVE  F[d] = IF d.status = "COMPLETED" /\ d.kind = "payment" /\ d.payable = q THEN d.amount
                    ELSE IF d.status = "COMPLETED" /\ d.kind = "payout" THEN d.matched[q]
                    ELSE 0
  BY SettlingValues
<1>5. \A x \in Requests : F[doc[x]] <= payable[q].paid /\ F[doc[x]] >= 0
  <2>1. \A x \in Requests : F[doc[x]] >= 0 BY SettlingPositive
  <2> QED BY <1>1, <1>2, <2>1, TallyBound DEF TablesOK
<1>6. F[doc[r]] = 0 BY <1>1, <1>4
<1> HIDE DEF F, p, e, t
<1>7. CASE Pay(r)
  <2>1. /\ OtherDocuments({r}) /\ doc'[r].kind = "payment" /\ doc'[r].status = "COMPLETED"
        /\ doc'[r].payable = p /\ p \in Payables /\ OtherPayables({p})
        /\ payable'[p].paid = payable[p].paid + doc'[r].amount
    BY <1>7, PayStep DEF Recorded, PaidMore, p
  <2>2. F[doc'[r]] = IF p = q THEN doc'[r].amount ELSE 0 BY <1>1, <1>4, <2>1
  <2>3. Tally(F, doc') = Tally(F, doc) + F[doc'[r]] BY <1>3, <1>6, <2>1
  <2>4. CASE p = q BY <1>2, <2>1, <2>2, <2>3, <2>4 DEF F
  <2>5. CASE p # q
    <3>1. payable'[q].paid = payable[q].paid BY <2>1, <2>5 DEF OtherPayables
    <3> QED BY <1>2, <2>2, <2>3, <2>5, <3>1 DEF F
  <2> QED BY <2>4, <2>5
<1>8. CASE PayOut(r)
  <2>1. /\ OtherDocuments({r}) /\ doc'[r].kind = "payout" /\ doc'[r].status = "COMPLETED"
        /\ doc'[r].matched[q] = IF q = p THEN op[r].part ELSE 0
        /\ q = p => payable'[q].paid = payable[q].paid + op[r].part
        /\ OtherPayables({p})
    BY <1>8, PayOutStep DEF Recorded, PaidMore, p
  <2>2. F[doc'[r]] = IF q = p THEN op[r].part ELSE 0 BY <1>1, <1>4, <2>1
  <2>3. Tally(F, doc') = Tally(F, doc) + F[doc'[r]] BY <1>3, <1>6, <2>1
  <2>4. CASE p = q BY <1>2, <2>1, <2>2, <2>3, <2>4 DEF F
  <2>5. CASE p # q
    <3>1. payable'[q].paid = payable[q].paid BY <2>1, <2>5 DEF OtherPayables
    <3> QED BY <1>2, <2>2, <2>3, <2>5, <3>1 DEF F
  <2> QED BY <2>4, <2>5
<1>9. CASE Match(r) \/ Unmatch(r)
  <2>1. /\ e \in Requests /\ p \in Payables /\ doc[e].kind = "payout" /\ OtherDocuments({e})
        /\ doc'[e].kind = "payout" /\ doc'[e].status = doc[e].status
        /\ \A x \in Payables \ {p} : doc'[e].matched[x] = doc[e].matched[x]
        /\ OtherPayables({p})
    BY <1>9, MatchStep, UnmatchStep DEF SameTerms, e, p
  <2>2. doc[e].status = "COMPLETED"
    <3>1. CASE Match(r) BY <3>1, MatchStep DEF e
    <3>2. CASE Unmatch(r)
      <4>1. op[r].kind = "unmatch" BY <3>2 DEF Unmatch, Commits
      <4>2. op[r].kind \in Workload BY CommonStep DEF Known, Shape, SessionsOK, SessionOK
      <4> QED BY <2>1, <4>1, <4>2 DEF MatchesUndoneOneWay, PayOutsStand
    <3> QED BY <1>9, <3>1, <3>2
  <2>3. payable'[p].paid = payable[p].paid - doc[e].matched[p] + doc'[e].matched[p]
    <3>1. /\ payable[p].paid \in Int /\ doc[e].matched[p] \in Int /\ doc'[e].matched[p] \in Int
      BY <1>1, <2>1 DEF TablesOK, PayableRow, Document
    <3>2. CASE Match(r)
      <4>1. /\ doc[e].matched[p] = 0 /\ payable'[p].paid = payable[p].paid + doc'[e].matched[p]
        BY <3>2, MatchStep DEF PaidMore, e, p
      <4> QED BY <3>1, <4>1
    <3>3. CASE Unmatch(r)
      <4>1. /\ doc'[e].matched[p] = 0 /\ payable'[p].paid = payable[p].paid - doc[e].matched[p]
        BY <3>3, UnmatchStep DEF PaidLess, e, p
      <4> QED BY <3>1, <4>1
    <3> QED BY <1>9, <3>2, <3>3
  <2>4. F[doc[e]] = doc[e].matched[q] /\ F[doc'[e]] = doc'[e].matched[q] BY <1>1, <1>4, <2>1, <2>2
  <2>5. Tally(F, doc') = Tally(F, doc) - F[doc[e]] + F[doc'[e]] BY <1>3, <2>1
  <2>6. CASE p = q BY <1>2, <2>3, <2>4, <2>5, <2>6 DEF F
  <2>7. CASE p # q
    <3>1. payable'[q].paid = payable[q].paid BY <2>1, <2>7 DEF OtherPayables
    <3>2. F[doc'[e]] = F[doc[e]] BY <2>1, <2>4, <2>7
    <3>3. Tally(F, doc') = Tally(F, doc) BY <1>3, <2>1, <2>5, <3>2
    <3> QED BY <1>2, <3>1, <3>3 DEF F
  <2> QED BY <2>6, <2>7
<1>10. CASE Apply(r) \/ Unapply(r)
  <2>1. PICK x \in Requests, y \in Requests :
          /\ x # y /\ OtherDocuments({x, y}) /\ doc[x].kind = "payout" /\ doc[y].kind \in {"none", "offset"}
          /\ doc'[x].kind = "payout" /\ doc'[y].kind = "offset"
          /\ doc'[x].status = doc[x].status /\ doc'[x].matched = doc[x].matched
    <3>1. CASE Apply(r)
      <4>1. /\ e \in Requests /\ e # r /\ OtherDocuments({r, e}) /\ doc[e].kind = "payout"
            /\ doc'[e].kind = "payout" /\ doc'[r].kind = "offset"
            /\ doc'[e].status = doc[e].status /\ doc'[e].matched = doc[e].matched
        <5>1. /\ e \in Requests /\ e # r /\ OtherDocuments({r, e}) /\ doc[e].kind = "payout"
              /\ SameTerms(doc'[e], doc[e]) /\ doc'[e].status = doc[e].status
              /\ doc'[e].matched = doc[e].matched
              /\ Recorded(doc'[r], "offset", op[r].payable, None, e, op[r].amount, 0)
          BY <3>1, ApplyStep DEF e
        <5>2. doc'[r].kind = "offset" BY <5>1 DEF Recorded
        <5>3. doc'[e].kind = "payout" BY <5>1 DEF SameTerms
        <5> QED BY <5>1, <5>2, <5>3
      <4>2. {e, r} = {r, e} OBVIOUS
      <4>3. OtherDocuments({e, r}) BY <4>1, <4>2
      <4>4. doc[r].kind = "none" BY <1>1
      <4> QED BY <4>1, <4>3, <4>4
    <3>2. CASE Unapply(r)
      <4>1. /\ e \in Requests /\ t \in Requests /\ e # t /\ OtherDocuments({t, e}) /\ doc[e].kind = "payout"
            /\ doc'[e].kind = "payout" /\ doc[t].kind = "offset" /\ doc'[t].kind = "offset"
            /\ doc'[e].status = doc[e].status /\ doc'[e].matched = doc[e].matched
        <5>1. /\ e \in Requests /\ t \in Requests /\ e # t /\ OtherDocuments({t, e})
              /\ doc[e].kind = "payout" /\ doc[t].kind = "offset"
              /\ SameTerms(doc'[e], doc[e]) /\ doc'[e].status = doc[e].status
              /\ doc'[e].matched = doc[e].matched /\ SameTerms(doc'[t], doc[t])
          BY <3>2, UnapplyStep DEF e, t
        <5>2. doc'[t].kind = "offset" /\ doc'[e].kind = "payout" BY <5>1 DEF SameTerms
        <5> QED BY <5>1, <5>2
      <4>2. {e, t} = {t, e} OBVIOUS
      <4>3. OtherDocuments({e, t}) BY <4>1, <4>2
      <4> QED BY <4>1, <4>3
    <3> QED BY <1>10, <3>1, <3>2
  <2>2. F[doc[y]] = 0 /\ F[doc'[y]] = 0
    <3>1. doc[y] \in Document /\ doc'[y] \in Document BY <1>1, <2>1
    <3> QED BY <1>4, <2>1, <3>1
  <2>3. F[doc'[x]] = F[doc[x]]
    <3>1. /\ F[doc[x]] = IF doc[x].status = "COMPLETED" THEN doc[x].matched[q] ELSE 0
          /\ F[doc'[x]] = IF doc'[x].status = "COMPLETED" THEN doc'[x].matched[q] ELSE 0
      <4>1. doc[x] \in Document /\ doc'[x] \in Document BY <1>1, <2>1
      <4> QED BY <1>4, <2>1, <4>1
    <3> QED BY <2>1, <3>1
  <2>4. Tally(F, doc') = Tally(F, doc)
    <3>1. y \in Requests \ {x} BY <2>1
    <3>2. Tally(F, doc') = Tally(F, doc) - F[doc[x]] + F[doc'[x]] - F[doc[y]] + F[doc'[y]]
      BY <1>3, <2>1, <3>1
    <3>3. Tally(F, doc) \in Int /\ F[doc[x]] \in Int BY <1>3, <2>1
    <3> QED BY <2>2, <2>3, <3>2, <3>3
  <2>5. payable'[q].paid = payable[q].paid
    <3>1. CASE Apply(r)
      <4>1. payable'[p].paid = payable[p].paid /\ OtherPayables({p}) BY <3>1, ApplyStep DEF OffsetMore, p
      <4> QED BY <4>1 DEF OtherPayables
    <3>2. CASE Unapply(r)
      <4>1. payable'[p].paid = payable[p].paid /\ OtherPayables({p}) BY <3>2, UnapplyStep DEF OffsetLess, p
      <4> QED BY <4>1 DEF OtherPayables
    <3> QED BY <1>10, <3>1, <3>2
  <2> QED BY <1>2, <2>4, <2>5 DEF F
<1>11. CASE Cancel(r) \/ ReverseSource(r)
  <2>1. doc' = doc /\ payable[p].paid = 0 /\ payable'[p].paid = 0 /\ OtherPayables({p})
    BY <1>11, VoidStep DEF p
  <2> QED BY <1>2, <2>1 DEF OtherPayables, F
<1>12. CASE ReversePayment(r)
  <2> DEFINE n == doc[t].amount
  <2>1. /\ t \in Requests /\ p \in Payables /\ doc[t].kind = "payment" /\ doc[t].status = "COMPLETED"
        /\ doc[t].payable = p /\ doc'[t].status = "REVERSED" /\ OtherDocuments({t}) /\ OtherPayables({p})
        /\ payable'[p].paid = Larger(0, payable[p].paid - n)
    BY <1>12, ReversedPayment DEF p, t
  <2>2. n \in Int BY <1>1, <2>1 DEF Document
  <2> HIDE DEF n
  <2>3. F[doc[t]] = (IF p = q THEN n ELSE 0) /\ F[doc'[t]] = 0 BY <1>1, <1>4, <2>1 DEF n
  <2>4. Tally(F, doc') = Tally(F, doc) - F[doc[t]] BY <1>3, <2>1, <2>3
  <2>5. CASE p = q
    <3>1. n <= payable[q].paid BY <1>5, <2>1, <2>3, <2>5
    <3>2. payable'[q].paid = payable[q].paid - n BY <1>2, <2>1, <2>2, <2>5, <3>1 DEF Larger
    <3> QED BY <1>2, <2>3, <2>4, <2>5, <3>2 DEF F
  <2>6. CASE p # q
    <3>1. payable'[q].paid = payable[q].paid BY <2>1, <2>6 DEF OtherPayables
    <3> QED BY <1>2, <2>3, <2>4, <2>6, <3>1 DEF F
  <2> QED BY <2>5, <2>6
<1>13. CASE ReverseEntry(r)
  <2> DEFINE n == doc[e].matched[q]
  <2>1. /\ e \in Requests /\ doc[e].kind = "payout" /\ doc[e].status = "COMPLETED"
        /\ doc'[e].status = "REVERSED" /\ OtherDocuments({e})
        /\ IF n > 0 THEN payable'[q].paid = Larger(0, payable[q].paid - n)
                    ELSE payable'[q] = payable[q]
    BY <1>13, ReverseEntryStep DEF e
  <2>2. n \in Int BY <1>1, <2>1 DEF Document
  <2>3. F[doc[e]] = n /\ F[doc'[e]] = 0 BY <1>1, <1>4, <2>1
  <2> HIDE DEF n
  <2>4. Tally(F, doc') = Tally(F, doc) - n BY <1>3, <2>1, <2>3
  <2>5. n >= 0 /\ n <= payable[q].paid BY <1>5, <2>1, <2>3
  <2>6. payable'[q].paid = payable[q].paid - n BY <1>2, <2>1, <2>2, <2>5 DEF Larger
  <2> QED BY <1>2, <2>4, <2>6 DEF F
<1>14. CASE Receive(r) \/ ReverseReceipt(r)
  <2>1. PICK x \in Requests : /\ OtherDocuments({x}) /\ doc[x].kind \in {"none", "receipt"}
                              /\ doc'[x].kind = "receipt" /\ payable' = payable
    <3>1. CASE Receive(r)
      <4>1. OtherDocuments({r}) /\ doc'[r].kind = "receipt" /\ payable' = payable
        BY <3>1, ReceiveStep DEF Recorded
      <4> QED BY <1>1, <4>1
    <3>2. CASE ReverseReceipt(r)
      <4>1. t \in Requests /\ OtherDocuments({t}) /\ doc[t].kind = "receipt" /\ payable' = payable
            /\ doc'[t].kind = doc[t].kind
        BY <3>2, ReverseReceiptStep DEF SameTerms, t
      <4> QED BY <4>1
    <3> QED BY <1>14, <3>1, <3>2
  <2>2. F[doc[x]] = 0 /\ F[doc'[x]] = 0 BY <1>1, <1>4, <2>1
  <2> QED BY <1>2, <1>3, <2>1, <2>2 DEF F
<1> QED BY <1>7, <1>8, <1>9, <1>10, <1>11, <1>12, <1>13, <1>14 DEF Commit

(* Only advances change what is offset, whatever else commits.             *)
LEMMA OnlyOffsets ==
  ASSUME Known, NEW r \in Requests, Commit(r), ~Apply(r), ~Unapply(r)
  PROVE  /\ \A x \in Requests : \/ doc'[x] = doc[x]
                                \/ doc[x].kind # "offset" /\ doc'[x].kind # "offset"
         /\ \A q \in Payables : payable'[q].offset = payable[q].offset
<1> DEFINE e == op[r].entry
           t == op[r].target
           p == op[r].payable
<1>1. CASE Pay(r) \/ PayOut(r)
  <2>1. CASE Pay(r)
    <3>1. /\ OtherDocuments({r}) /\ doc'[r].kind = "payment" /\ OtherPayables({p})
          /\ payable'[p].offset = payable[p].offset
      BY <2>1, PayStep DEF Recorded, PaidMore
    <3> QED BY <2>1, <3>1, CommonStep DEF OtherDocuments, OtherPayables
  <2>2. CASE PayOut(r)
    <3>1. /\ OtherDocuments({r}) /\ doc'[r].kind = "payout" /\ OtherPayables({p})
          /\ p \in Payables => payable'[p].offset = payable[p].offset
      BY <2>2, PayOutStep DEF Recorded, PaidMore
    <3> QED BY <2>2, <3>1, CommonStep DEF OtherDocuments, OtherPayables
  <2> QED BY <1>1, <2>1, <2>2
<1>2. CASE Match(r) \/ Unmatch(r)
  <2>1. /\ OtherDocuments({e}) /\ doc[e].kind = "payout" /\ doc'[e].kind = "payout" /\ OtherPayables({p})
        /\ payable'[p].offset = payable[p].offset
    <3>1. CASE Match(r) BY <3>1, MatchStep DEF SameTerms, PaidMore
    <3>2. CASE Unmatch(r)
      <4>1. /\ OtherDocuments({e}) /\ doc[e].kind = "payout" /\ SameTerms(doc'[e], doc[e])
            /\ OtherPayables({p}) /\ PaidLess(p, doc[e].matched[p])
        BY <3>2, UnmatchStep
      <4> QED BY <4>1 DEF SameTerms, PaidLess
    <3> QED BY <1>2, <3>1, <3>2
  <2> QED BY <2>1 DEF OtherDocuments, OtherPayables
<1>3. CASE Cancel(r) \/ ReverseSource(r)
  <2>1. doc' = doc /\ OtherPayables({p}) /\ payable[p].offset = 0 /\ payable'[p].offset = 0
    BY <1>3, VoidStep
  <2> QED BY <2>1 DEF OtherPayables
<1>4. CASE ReversePayment(r)
  <2>1. /\ OtherDocuments({t}) /\ doc[t].kind = "payment" /\ doc'[t].kind = "payment"
        /\ OtherPayables({p}) /\ payable'[p].offset = payable[p].offset
    BY <1>4, ReversePaymentStep DEF SameTerms
  <2> QED BY <2>1 DEF OtherDocuments, OtherPayables
<1>5. CASE ReverseEntry(r)
  <2>1. /\ OtherDocuments({e}) /\ doc[e].kind = "payout" /\ doc'[e].kind = "payout"
        /\ \A q \in Payables : payable'[q].offset = payable[q].offset
    BY <1>5, ReverseEntryStep DEF SameTerms
  <2> QED BY <2>1 DEF OtherDocuments
<1>6. CASE Receive(r) \/ ReverseReceipt(r)
  <2>1. payable' = payable BY <1>6, ReceiveStep, ReverseReceiptStep
  <2>2. CASE Receive(r)
    <3>1. OtherDocuments({r}) /\ doc'[r].kind = "receipt" BY <2>2, ReceiveStep DEF Recorded
    <3> QED BY <2>1, <2>2, <3>1, CommonStep DEF OtherDocuments
  <2>3. CASE ReverseReceipt(r)
    <3>1. OtherDocuments({t}) /\ doc[t].kind = "receipt" /\ SameTerms(doc'[t], doc[t])
      BY <2>3, ReverseReceiptStep
    <3>2. doc'[t].kind = "receipt" BY <3>1 DEF SameTerms
    <3> HIDE DEF t
    <3> QED BY <2>1, <3>1, <3>2 DEF OtherDocuments
  <2> QED BY <1>6, <2>2, <2>3
<1> QED BY <1>1, <1>2, <1>3, <1>4, <1>5, <1>6 DEF Commit

(* A tally that nothing has changed.                                       *)
LEMMA TallySame ==
  ASSUME NEW F, \A x \in Requests : F[doc'[x]] = F[doc[x]]
  PROVE  Tally(F, doc') = Tally(F, doc)
<1> DEFINE f == [x \in Requests |-> F[doc[x]]]
           g == [x \in Requests |-> F[doc'[x]]]
<1>1. f = g OBVIOUS
<1> QED BY <1>1 DEF Tally

(* What is offset is what active advances add up to.                       *)
LEMMA OffsetCommit ==
  ASSUME Known, AllOffset, NEW r \in Requests, Commit(r), NEW q \in Payables
  PROVE  payable'[q].offset = Tally(Settling("offset", q), doc')
<1> DEFINE F == Settling("offset", q)
           p == op[r].payable
           e == op[r].entry
           t == op[r].target
<1>1. /\ TablesOK /\ TablesOK' /\ doc[r].kind = "none" /\ F \in [Document -> Int]
      /\ \A d \in Requests : doc[d] \in Document /\ doc'[d] \in Document
  BY CommonStep, SettlingTypes DEF TablesOK
<1>2. payable[q].offset = Tally(F, doc) /\ payable[q].offset \in Int
  BY <1>1 DEF AllOffset, TablesOK, PayableRow
<1>3. ASSUME NEW d \in Document
      PROVE  F[d] = IF d.status = "COMPLETED" /\ d.kind = "offset" /\ d.payable = q THEN d.amount ELSE 0
  BY SettlingValues
<1>4. ASSUME NEW x \in Requests, NEW y \in Requests, x # y, OtherDocuments({x, y}),
             doc[x].kind = "payout", doc'[x].kind = "payout"
      PROVE  Tally(F, doc') = Tally(F, doc) - F[doc[y]] + F[doc'[y]]
  <2>1. F[doc[x]] = 0 /\ F[doc'[x]] = 0
    <3>1. doc[x] \in Document /\ doc'[x] \in Document BY <1>1
    <3> QED BY <1>3, <1>4, <3>1
  <2>2. Tally(F, doc') = Tally(F, doc) - F[doc[x]] + F[doc'[x]] - F[doc[y]] + F[doc'[y]]
    <3>1. y \in Requests \ {x} BY <1>4
    <3> QED BY <1>1, <1>4, <3>1, TallyStep
  <2>3. Tally(F, doc) \in Int /\ F[doc[y]] \in Int /\ F[doc'[y]] \in Int BY <1>1, TallyStep
  <2> QED BY <2>1, <2>2, <2>3
<1> HIDE DEF F, p, e, t
<1>5. CASE Apply(r)
  <2>1. /\ e \in Requests /\ e # r /\ p \in Payables /\ OtherDocuments({r, e}) /\ doc[e].kind = "payout"
        /\ SameTerms(doc'[e], doc[e]) /\ OtherPayables({p}) /\ OffsetMore(p, op[r].amount)
        /\ Recorded(doc'[r], "offset", p, None, e, op[r].amount, 0)
    BY <1>5, ApplyStep DEF e, p
  <2>2. {e, r} = {r, e} OBVIOUS
  <2>3. OtherDocuments({e, r}) /\ doc'[e].kind = "payout" BY <2>1, <2>2 DEF SameTerms
  <2>4. F[doc[r]] = 0 BY <1>1, <1>3
  <2>5. F[doc'[r]] = IF p = q THEN op[r].amount ELSE 0
    <3>1. doc'[r] \in Document BY <1>1
    <3> QED BY <1>3, <2>1, <3>1 DEF Recorded
  <2>6. Tally(F, doc') = Tally(F, doc) + F[doc'[r]] BY <1>2, <1>4, <2>1, <2>3, <2>4
  <2>7. CASE p = q
    <3>1. payable'[q].offset = payable[q].offset + op[r].amount BY <2>1, <2>7 DEF OffsetMore
    <3> QED BY <1>2, <2>5, <2>6, <2>7, <3>1 DEF F
  <2>8. CASE p # q
    <3>1. payable'[q].offset = payable[q].offset BY <2>1, <2>8 DEF OtherPayables
    <3> QED BY <1>2, <2>5, <2>6, <2>8, <3>1 DEF F
  <2> QED BY <2>7, <2>8
<1>6. CASE Unapply(r)
  <2> DEFINE n == doc[t].amount
  <2>1. /\ e \in Requests /\ t \in Requests /\ e # t /\ p \in Payables /\ OtherDocuments({t, e})
        /\ doc[e].kind = "payout" /\ SameTerms(doc'[e], doc[e]) /\ OtherPayables({p})
        /\ doc[t].kind = "offset" /\ doc[t].status = "COMPLETED" /\ doc[t].payable = p
        /\ doc'[t].status = "REVERSED" /\ OffsetLess(p, n) /\ n \in Int
    BY <1>6, UnapplyStep DEF e, p, t
  <2>2. {e, t} = {t, e} OBVIOUS
  <2>3. OtherDocuments({e, t}) /\ doc'[e].kind = "payout" BY <2>1, <2>2 DEF SameTerms
  <2>4. F[doc[t]] = (IF p = q THEN n ELSE 0) /\ F[doc'[t]] = 0
    <3>1. doc[t] \in Document /\ doc'[t] \in Document BY <1>1, <2>1
    <3> QED BY <1>3, <2>1, <3>1
  <2> HIDE DEF n
  <2>5. Tally(F, doc') = Tally(F, doc) - F[doc[t]]
    <3>1. Tally(F, doc') = Tally(F, doc) - F[doc[t]] + F[doc'[t]] BY <1>4, <2>1, <2>3
    <3> QED BY <1>2, <2>1, <2>4, <3>1
  <2>6. CASE p = q
    <3>1. payable'[q].offset = payable[q].offset - n BY <2>1, <2>6 DEF OffsetLess
    <3> QED BY <1>2, <2>4, <2>5, <2>6, <3>1 DEF F
  <2>7. CASE p # q
    <3>1. payable'[q].offset = payable[q].offset BY <2>1, <2>7 DEF OtherPayables
    <3> QED BY <1>2, <2>4, <2>5, <2>7, <3>1 DEF F
  <2> QED BY <2>6, <2>7
<1>7. CASE ~Apply(r) /\ ~Unapply(r)
  <2>1. /\ payable'[q].offset = payable[q].offset
        /\ \A x \in Requests : doc'[x] = doc[x] \/ (doc[x].kind # "offset" /\ doc'[x].kind # "offset")
    BY <1>7, OnlyOffsets
  <2>2. \A x \in Requests : F[doc'[x]] = F[doc[x]] BY <1>1, <1>3, <2>1
  <2>3. Tally(F, doc') = Tally(F, doc) BY <2>2, TallySame
  <2> QED BY <1>2, <2>1, <2>3 DEF F
<1> QED BY <1>5, <1>6, <1>7

(* Only receipts change what is received.                                  *)
LEMMA OnlyReceipts ==
  ASSUME Known, NEW r \in Requests, Commit(r), ~Receive(r), ~ReverseReceipt(r)
  PROVE  /\ \A x \in Requests : \/ doc'[x] = doc[x]
                                \/ doc[x].kind # "receipt" /\ doc'[x].kind # "receipt"
         /\ \A q \in Payables : settlement'[q].received = settlement[q].received
<1> DEFINE e == op[r].entry
           t == op[r].target
           p == op[r].payable
<1>1. doc[r].kind = "none" BY CommonStep
<1>2. CASE Pay(r)
  <2>1. OtherDocuments({r}) /\ doc'[r].kind = "payment" /\ settlement' = settlement
    BY <1>2, PayStep DEF Recorded
  <2> QED BY <1>1, <2>1 DEF OtherDocuments
<1>3. CASE PayOut(r)
  <2>1. OtherDocuments({r}) /\ doc'[r].kind = "payout" /\ settlement' = settlement
    BY <1>3, PayOutStep DEF Recorded
  <2> QED BY <1>1, <2>1 DEF OtherDocuments
<1>4. CASE Match(r) \/ Unmatch(r) \/ ReverseEntry(r)
  <2>1. /\ OtherDocuments({e}) /\ doc[e].kind = "payout" /\ SameTerms(doc'[e], doc[e])
        /\ settlement' = settlement
    BY <1>4, MatchStep, UnmatchStep, ReverseEntryStep
  <2>2. doc'[e].kind = "payout" BY <2>1 DEF SameTerms
  <2> HIDE DEF e
  <2> QED BY <2>1, <2>2 DEF OtherDocuments
<1>5. CASE Apply(r)
  <2>1. /\ OtherDocuments({r, e}) /\ doc[e].kind = "payout" /\ SameTerms(doc'[e], doc[e])
        /\ Recorded(doc'[r], "offset", p, None, e, op[r].amount, 0) /\ settlement' = settlement
    BY <1>5, ApplyStep
  <2>2. doc'[e].kind = "payout" /\ doc'[r].kind = "offset" BY <2>1 DEF SameTerms, Recorded
  <2> HIDE DEF e
  <2> QED BY <1>1, <2>1, <2>2 DEF OtherDocuments
<1>6. CASE Unapply(r)
  <2>1. /\ OtherDocuments({t, e}) /\ doc[e].kind = "payout" /\ SameTerms(doc'[e], doc[e])
        /\ doc[t].kind = "offset" /\ SameTerms(doc'[t], doc[t]) /\ settlement' = settlement
    BY <1>6, UnapplyStep
  <2>2. doc'[e].kind = "payout" /\ doc'[t].kind = "offset" BY <2>1 DEF SameTerms
  <2> HIDE DEF e, t
  <2> QED BY <2>1, <2>2 DEF OtherDocuments
<1>7. CASE Cancel(r) \/ ReverseSource(r)
  <2>1. /\ doc' = doc /\ settlement'[p].received = settlement[p].received
        /\ \A q \in Payables \ {p} : settlement'[q] = settlement[q]
    BY <1>7, VoidStep
  <2> QED BY <2>1
<1>8. CASE ReversePayment(r)
  <2>1. /\ OtherDocuments({t}) /\ doc[t].kind = "payment" /\ SameTerms(doc'[t], doc[t])
        /\ settlement' = settlement
    BY <1>8, ReversePaymentStep
  <2>2. doc'[t].kind = "payment" BY <2>1 DEF SameTerms
  <2> HIDE DEF t
  <2> QED BY <2>1, <2>2 DEF OtherDocuments
<1> QED BY <1>2, <1>3, <1>4, <1>5, <1>6, <1>7, <1>8 DEF Commit

(* What is received is what active receipts add up to.                     *)
LEMMA ReceivedCommit ==
  ASSUME Known, AllReceived, NEW r \in Requests, Commit(r), NEW q \in Payables
  PROVE  settlement'[q].received = Tally(Settling("receipt", q), doc')
<1> DEFINE F == Settling("receipt", q)
           p == op[r].payable
           t == op[r].target
<1>1. /\ TablesOK /\ TablesOK' /\ doc[r].kind = "none" /\ F \in [Document -> Int]
      /\ \A d \in Requests : doc[d] \in Document /\ doc'[d] \in Document
  BY CommonStep, SettlingTypes DEF TablesOK
<1>2. settlement[q].received = Tally(F, doc) /\ settlement[q].received \in Int
  BY <1>1 DEF AllReceived, TablesOK, SettlementRow
<1>3. ASSUME NEW d \in Document
      PROVE  F[d] = IF d.status = "COMPLETED" /\ d.kind = "receipt" /\ d.payable = q THEN d.amount ELSE 0
  BY SettlingValues
<1>4. ASSUME NEW x \in Requests
      PROVE  F[doc[x]] <= settlement[q].received /\ F[doc[x]] \in Int
  <2>1. \A y \in Requests : F[doc[y]] >= 0 BY SettlingPositive
  <2>2. doc \in [Requests -> Document] BY <1>1 DEF TablesOK
  <2> QED BY <1>1, <1>2, <2>1, <2>2, TallyBound
<1> HIDE DEF F, p, t
<1>5. CASE Receive(r)
  <2>1. /\ p \in Payables /\ OtherDocuments({r})
        /\ settlement'[p].received = settlement[p].received + op[r].amount
        /\ \A x \in Payables \ {p} : settlement'[x] = settlement[x]
        /\ Recorded(doc'[r], "receipt", p, op[r].account, None, op[r].amount, op[r].amount)
    BY <1>5, ReceiveStep DEF p
  <2>2. F[doc[r]] = 0 BY <1>1, <1>3
  <2>3. F[doc'[r]] = IF p = q THEN op[r].amount ELSE 0
    <3>1. doc'[r] \in Document BY <1>1
    <3> QED BY <1>3, <2>1, <3>1 DEF Recorded
  <2>4. Tally(F, doc') = Tally(F, doc) + F[doc'[r]]
    <3>1. /\ Tally(F, doc') = Tally(F, doc) - F[doc[r]] + F[doc'[r]] /\ F[doc'[r]] \in Int
      BY <1>1, <2>1, TallyStep
    <3> QED BY <1>2, <2>2, <3>1
  <2> QED BY <1>2, <2>1, <2>3, <2>4 DEF F
<1>6. CASE ReverseReceipt(r)
  <2> DEFINE n == doc[t].amount
  <2>1. /\ t \in Requests /\ p \in Payables /\ OtherDocuments({t})
        /\ doc[t].kind = "receipt" /\ doc[t].status = "COMPLETED" /\ doc[t].payable = p
        /\ doc'[t].status = "REVERSED"
        /\ settlement'[p].received = Larger(0, settlement[p].received - n)
        /\ \A x \in Payables \ {p} : settlement'[x] = settlement[x]
    BY <1>6, ReverseReceiptStep DEF p, t
  <2>2. F[doc[t]] = (IF p = q THEN n ELSE 0) /\ F[doc'[t]] = 0
    <3>1. doc[t] \in Document /\ doc'[t] \in Document BY <1>1, <2>1
    <3> QED BY <1>3, <2>1, <3>1
  <2>3. n \in Int BY <1>1, <2>1 DEF Document
  <2> HIDE DEF n
  <2>4. Tally(F, doc') = Tally(F, doc) - F[doc[t]]
    <3>1. Tally(F, doc') = Tally(F, doc) - F[doc[t]] + F[doc'[t]] /\ F[doc[t]] \in Int
      BY <1>1, <2>1, TallyStep
    <3> QED BY <1>2, <2>2, <3>1
  <2>5. CASE p = q
    <3>1. n <= settlement[q].received BY <1>4, <2>1, <2>2, <2>5
    <3>2. settlement'[q].received = settlement[q].received - n
      BY <1>2, <2>1, <2>3, <2>5, <3>1 DEF Larger
    <3> QED BY <1>2, <2>2, <2>4, <2>5, <3>2 DEF F
  <2>6. CASE p # q
    <3>1. settlement'[q].received = settlement[q].received BY <2>1, <2>6
    <3> QED BY <1>2, <2>2, <2>4, <2>6, <3>1 DEF F
  <2> QED BY <2>5, <2>6
<1>7. CASE ~Receive(r) /\ ~ReverseReceipt(r)
  <2>1. /\ settlement'[q].received = settlement[q].received
        /\ \A x \in Requests : doc'[x] = doc[x] \/ (doc[x].kind # "receipt" /\ doc'[x].kind # "receipt")
    BY <1>7, OnlyReceipts
  <2>2. \A x \in Requests : F[doc'[x]] = F[doc[x]] BY <1>1, <1>3, <2>1
  <2>3. Tally(F, doc') = Tally(F, doc) BY <2>2, TallySame
  <2> QED BY <1>2, <2>1, <2>3 DEF F
<1> QED BY <1>5, <1>6, <1>7

(* The columns say what the documents say, and the invariants they need.   *)
Columns == AllPaid /\ AllOffset /\ AllReceived /\ AllBlank /\ PayOutsStand

\* The columns of a payable agree with its documents after every step.
LEMMA ColumnsNext ==
  ASSUME MatchesUndoneOneWay, Known, PaymentReadsStand, Columns, [Next]_vars
  PROVE  Columns'
<1>1. AllBlank' /\ PayOutsStand' BY BlankNext, PayOutsStandNext DEF Columns
<1>2. CASE UNCHANGED tables BY <1>1, <1>2 DEF tables, Columns, AllPaid, AllOffset, AllReceived
<1>3. ASSUME NEW p \in Payables, RecordSwipe(p) PROVE Columns'
  <2>1. source[p] = "ABSENT" /\ doc' = doc /\ payable \in [Payables -> PayableRow]
        /\ settlement \in [Payables -> SettlementRow]
    BY <1>3 DEF RecordSwipe, Known, Shape, TypeOK
  <2>2. payable[p] = NoPayableRow /\ settlement[p] = NoSettlementRow
    BY <2>1 DEF Columns, AllBlank, Blank
  <2>3. payable' = [payable EXCEPT ![p] = [NoPayableRow EXCEPT !.remaining = Original[p]]]
        /\ settlement' = [settlement EXCEPT ![p] = [NoSettlementRow EXCEPT !.remaining = Expected[p]]]
    BY <1>3 DEF RecordSwipe
  <2>4. ASSUME NEW q \in Payables
        PROVE  /\ payable'[q].paid = payable[q].paid /\ payable'[q].offset = payable[q].offset
               /\ settlement'[q].received = settlement[q].received
    <3>1. CASE q = p BY <2>1, <2>2, <2>3, <3>1 DEF NoPayableRow, NoSettlementRow
    <3>2. CASE q # p BY <2>1, <2>3, <3>2
    <3> QED BY <3>1, <3>2
  <2> QED BY <1>1, <2>1, <2>4 DEF Columns, AllPaid, AllOffset, AllReceived
<1>4. ASSUME NEW r \in Requests, Commit(r) PROVE Columns'
  BY <1>1, <1>4, PaidCommit, OffsetCommit, ReceivedCommit DEF Columns, AllPaid, AllOffset, AllReceived
<1> QED BY <1>2, <1>3, <1>4, TableSteps

(* Nothing is settled when the system starts.                              *)
LEMMA ColumnsInitially == Init => Columns
<1> SUFFICES ASSUME Init PROVE Columns OBVIOUS
<1>1. \A x \in Requests : doc[x] = NoDocument BY DEF Init
<1>2. doc \in [Requests -> Document] BY ShapeInit DEF Shape, TypeOK
<1>3. ASSUME NEW q \in Payables
      PROVE  /\ Tally(Paying(q), doc) = 0
             /\ \A k \in {"offset", "receipt"} : Tally(Settling(k, q), doc) = 0
  <2>1. \A x \in Requests :
          doc[x] \in Document /\ doc[x].kind = "none"
    BY <1>1, <1>2 DEF NoDocument
  <2>2. \A x \in Requests : /\ Paying(q)[doc[x]] = 0 /\ Settling("offset", q)[doc[x]] = 0
                            /\ Settling("receipt", q)[doc[x]] = 0
    BY <2>1, SettlingValues
  <2>3. /\ Paying(q) \in [Document -> Int] /\ Settling("offset", q) \in [Document -> Int]
        /\ Settling("receipt", q) \in [Document -> Int]
    BY SettlingTypes
  <2> QED BY <1>2, <2>2, <2>3, TallyNone
<1>4. \A q \in Payables : payable[q] = NoPayableRow /\ settlement[q] = NoSettlementRow BY DEF Init
<1>5. AllPaid /\ AllOffset /\ AllReceived
  BY <1>3, <1>4 DEF AllPaid, AllOffset, AllReceived, NoPayableRow, NoSettlementRow
<1> QED BY <1>5, BlankInitially DEF Columns

(* What a payable says was paid and offset is what the active payouts,     *)
(* allocations and advances add up to, if nothing that writes a payable    *)
(* runs beside the reversal of a payout (which writes what it made of an   *)
(* unlocked read) and the matches of a reversed Pay Out are not undone a   *)
(* second time.                                                            *)
THEOREM PaidBacked ==
  ASSUME PaymentsReversedApart, MatchesUndoneOneWay
  PROVE  Spec => []PaidIsBacked
<1> DEFINE Inv == Known /\ KeptApart /\ PaymentReadsStand /\ Columns
<1>1. Init => Inv BY KnownInitially, ReadsStandInitially, ColumnsInitially
<1>2. Inv /\ [Next]_vars => Inv' BY KnownNext, KeptApartNext, PaymentReadsNext, ColumnsNext DEF Known
<1>3. Inv => PaidIsBacked
  <2> SUFFICES ASSUME Inv, NEW p \in Payables
               PROVE  /\ payable[p].paid = Settlements(p, "payment") + Allocations(p)
                      /\ payable[p].offset = Settlements(p, "offset")
    BY DEF PaidIsBacked
  <2>1. doc \in [Requests -> Document] BY DEF Known, Shape, TypeOK
  <2>2. \A kind : Settlements(p, kind) = Tally(Settling(kind, p), doc)
    BY <2>1, SettlementsTally DEF Settlements, Active
  <2>3. Allocations(p) = Tally(Allocating(p), doc) BY <2>1, AllocationsTally DEF Allocations, Active
  <2>4. Tally(Paying(p), doc) = Tally(Settling("payment", p), doc) + Tally(Allocating(p), doc)
    BY <2>1, PayingTally
  <2> QED BY <2>2, <2>3, <2>4 DEF Columns, AllPaid, AllOffset
<1> HIDE DEF Inv
<1> QED BY <1>1, <1>2, <1>3, PTL DEF Spec

---------------------------------------------------------------------------

(* The payable, the settlement and the swipe agree.                        *)

(* A swipe is void together with its payable and its settlement, and only  *)
(* when nothing is received; until then the settlement is all there.       *)
Agreed(p) ==
    /\ payable[p].status \in Void <=> source[p] = "REVERSED"
    /\ settlement[p].status = "REVERSED" <=> source[p] = "REVERSED"
    /\ source[p] = "REVERSED" => settlement[p].received = 0 /\ settlement[p].remaining = 0
    /\ source[p] = "COMPLETED" =>
         /\ settlement[p].received >= 0 /\ settlement[p].remaining >= 0
         /\ settlement[p].received + settlement[p].remaining = Expected[p]

AllAgreed == \A p \in Payables : Agreed(p)

(* What a document that counts has settled is in the columns.              *)
LEMMA Counted ==
  ASSUME Known, Columns, NEW p \in Payables, NEW x \in Requests, doc[x].status = "COMPLETED"
  PROVE  /\ doc[x].kind = "payment" /\ doc[x].payable = p =>
              0 < doc[x].amount /\ doc[x].amount <= payable[p].paid
         /\ doc[x].kind = "payout" => 0 <= doc[x].matched[p] /\ doc[x].matched[p] <= payable[p].paid
         /\ doc[x].kind = "offset" /\ doc[x].payable = p =>
              0 < doc[x].amount /\ doc[x].amount <= payable[p].offset
         /\ doc[x].kind = "receipt" /\ doc[x].payable = p =>
              0 < doc[x].amount /\ doc[x].amount <= settlement[p].received
<1>1. /\ doc \in [Requests -> Document] /\ DocumentOK(doc[x]) /\ DocumentSound(doc[x])
  BY ShapeTables DEF Known, DocumentsSound, Shape, DocumentsOK, TablesOK
<1>2. doc[x] \in Document BY <1>1
<1>3. /\ Paying(p)[doc[x]] <= payable[p].paid
      /\ Settling("offset", p)[doc[x]] <= payable[p].offset
      /\ Settling("receipt", p)[doc[x]] <= settlement[p].received
  <2>1. \A y \in Requests : /\ Paying(p)[doc[y]] >= 0 /\ Settling("offset", p)[doc[y]] >= 0
                            /\ Settling("receipt", p)[doc[y]] >= 0
    BY SettlingPositive
  <2>2. /\ Paying(p) \in [Document -> Int] /\ Settling("offset", p) \in [Document -> Int]
        /\ Settling("receipt", p) \in [Document -> Int]
    BY SettlingTypes
  <2>3. /\ Paying(p)[doc[x]] <= Tally(Paying(p), doc)
        /\ Settling("offset", p)[doc[x]] <= Tally(Settling("offset", p), doc)
        /\ Settling("receipt", p)[doc[x]] <= Tally(Settling("receipt", p), doc)
    BY <1>1, <2>1, <2>2, TallyBound
  <2> QED BY <2>3 DEF Columns, AllPaid, AllOffset, AllReceived
<1>4. /\ doc[x].kind \in {"payment", "offset", "receipt"} => doc[x].amount > 0
      /\ doc[x].kind = "payout" => doc[x].matched[p] >= 0
      /\ doc[x].amount \in Int /\ doc[x].matched[p] \in Int
  BY <1>1, <1>2 DEF DocumentOK, DocumentSound, Document
<1>5. /\ doc[x].kind = "payment" /\ doc[x].payable = p => Paying(p)[doc[x]] = doc[x].amount
      /\ doc[x].kind = "payout" => Paying(p)[doc[x]] = doc[x].matched[p]
      /\ doc[x].kind = "offset" /\ doc[x].payable = p => Settling("offset", p)[doc[x]] = doc[x].amount
      /\ doc[x].kind = "receipt" /\ doc[x].payable = p => Settling("receipt", p)[doc[x]] = doc[x].amount
  BY <1>2, SettlingValues
<1> QED BY <1>3, <1>4, <1>5

(* A payable on which a payout or an allocation counts is not void.        *)
LEMMA PaidIsLive ==
  ASSUME Known, RowsOK, AllBlank, NEW p \in Payables, payable[p].paid > 0
  PROVE  source[p] # "ABSENT" /\ payable[p].status \notin Void
<1>1. source[p] # "ABSENT" BY DEF AllBlank, Blank, NoPayableRow
<1> QED BY <1>1 DEF RowsOK, RowOK

(* The swipe, its payable and its settlement agree after every commit: a   *)
(* void row is never taken up again, and only an empty one is voided.      *)
LEMMA AgreedCommit ==
  ASSUME Known, VoidReadsStand, RowsOK, Columns, AllAgreed, NEW r \in Requests, Commit(r),
         NEW q \in Payables
  PROVE  Agreed(q)'
<1> DEFINE p == op[r].payable
           e == op[r].entry
           t == op[r].target
<1>1. /\ TablesOK /\ TablesOK' /\ Agreed(q) /\ AllBlank BY CommonStep DEF AllAgreed, Columns
<1>2. /\ payable[q].paid \in Int /\ settlement[q].received \in Int /\ settlement[q].remaining \in Int
      /\ settlement[q].status \in {"OPEN", "SETTLED", "REVERSED"}
      /\ source[q] \in {"ABSENT", "COMPLETED", "REVERSED"} /\ Expected[q] \in Int
  BY <1>1, ConstantsAssumption DEF TablesOK, PayableRow, SettlementRow
<1>3. ASSUME payable[q].status \notin Void, payable'[q].status \notin Void,
             settlement'[q] = settlement[q], source'[q] = source[q]
      PROVE  Agreed(q)'
  BY <1>1, <1>3 DEF Agreed
<1>4. ASSUME payable'[q] = payable[q], settlement'[q] = settlement[q], source'[q] = source[q]
      PROVE  Agreed(q)'
  BY <1>1, <1>4 DEF Agreed
<1>5. \A n : StatusFor(n) \notin Void BY DEF StatusFor, Void
<1> HIDE DEF p, e, t
<1>6. CASE Pay(r) \/ Match(r)
  <2>1. /\ OtherPayables({p}) /\ settlement' = settlement /\ source' = source
        /\ payable[p].status = "OPEN" /\ payable'[p].status \notin Void
    <3>1. CASE Pay(r)
      <4>1. /\ OtherPayables({p}) /\ settlement' = settlement /\ source' = source
            /\ payable[p].status = "OPEN" /\ PaidMore(p, doc'[r].amount)
        BY <3>1, PayStep DEF p
      <4> QED BY <1>5, <4>1 DEF PaidMore
    <3>2. CASE Match(r)
      <4>1. /\ OtherPayables({p}) /\ settlement' = settlement /\ source' = source
            /\ payable[p].status = "OPEN" /\ PaidMore(p, op[r].amount)
        BY <3>2, MatchStep DEF p
      <4> QED BY <1>5, <4>1 DEF PaidMore
    <3> QED BY <1>6, <3>1, <3>2
  <2>2. CASE p = q BY <1>3, <2>1, <2>2 DEF Void
  <2>3. CASE p # q BY <1>4, <2>1, <2>3 DEF OtherPayables
  <2> QED BY <2>2, <2>3
<1>7. CASE PayOut(r)
  <2>1. /\ OtherPayables({p}) /\ settlement' = settlement /\ source' = source
        /\ p \in Payables => source[p] = "COMPLETED" /\ payable'[p].status \notin Void
    BY <1>5, <1>7, PayOutStep DEF PaidMore, p
  <2>2. CASE p = q
    <3>1. payable[q].status \notin Void BY <1>1, <2>1, <2>2 DEF Agreed
    <3> QED BY <1>3, <2>1, <2>2, <3>1
  <2>3. CASE p # q BY <1>4, <2>1, <2>3 DEF OtherPayables
  <2> QED BY <2>2, <2>3
<1>8. CASE Unmatch(r) \/ Unapply(r)
  <2>1. /\ OtherPayables({p}) /\ settlement' = settlement /\ source' = source
        /\ payable[p].status \notin Void /\ payable'[p].status = "OPEN"
    BY <1>8, UnmatchStep, UnapplyStep DEF PaidLess, OffsetLess, p
  <2>2. CASE p = q BY <1>3, <2>1, <2>2 DEF Void
  <2>3. CASE p # q BY <1>4, <2>1, <2>3 DEF OtherPayables
  <2> QED BY <2>2, <2>3
<1>9. CASE Apply(r)
  <2>1. /\ OtherPayables({p}) /\ settlement' = settlement /\ source' = source
        /\ payable[p].status = "OPEN" /\ payable'[p].status \notin Void
    <3>1. /\ OtherPayables({p}) /\ settlement' = settlement /\ source' = source
          /\ payable[p].status = "OPEN" /\ OffsetMore(p, op[r].amount)
      BY <1>9, ApplyStep DEF p
    <3> QED BY <1>5, <3>1 DEF OffsetMore
  <2>2. CASE p = q BY <1>3, <2>1, <2>2 DEF Void
  <2>3. CASE p # q BY <1>4, <2>1, <2>3 DEF OtherPayables
  <2> QED BY <2>2, <2>3
<1>10. CASE Cancel(r) \/ ReverseSource(r)
  <2>1. /\ OtherPayables({p}) /\ payable'[p].status \in Void /\ source'[p] = "REVERSED"
        /\ settlement'[p].received = settlement[p].received
        /\ settlement'[p].remaining = 0 /\ settlement'[p].status = "REVERSED"
        /\ \A x \in Payables \ {p} : settlement'[x] = settlement[x] /\ source'[x] = source[x]
        /\ view[r].settlement.received = 0
    BY <1>10, VoidStep DEF p
  <2>2. settlement[p].received = 0 BY <1>10, <2>1, VoidReadAtEnd DEF p
  <2>3. CASE p = q BY <2>1, <2>2, <2>3 DEF Agreed
  <2>4. CASE p # q BY <1>4, <2>1, <2>4 DEF OtherPayables
  <2> QED BY <2>3, <2>4
<1>11. CASE ReversePayment(r)
  <2>1. /\ p \in Payables /\ OtherPayables({p}) /\ settlement' = settlement /\ source' = source
        /\ payable'[p].status \notin Void
        /\ t \in Requests /\ doc[t].kind = "payment" /\ doc[t].status = "COMPLETED" /\ doc[t].payable = p
    <3>1. payable'[p].status =
            StatusFor(Original[p] - Larger(0, view[r].payable[p].paid - doc[t].amount)
                                  - view[r].payable[p].offset)
      BY <1>11, ReversePaymentStep DEF p, t
    <3>2. /\ p \in Payables /\ OtherPayables({p}) /\ settlement' = settlement /\ source' = source
          /\ t \in Requests /\ doc[t].kind = "payment" /\ doc[t].status = "COMPLETED"
          /\ doc[t].payable = p
      BY <1>11, ReversePaymentStep DEF p, t
    <3> QED BY <1>5, <3>1, <3>2
  <2>2. CASE p = q
    <3>1. 0 < doc[t].amount /\ doc[t].amount <= payable[q].paid BY <2>1, <2>2, Counted
    <3>2. doc[t].amount \in Int BY <1>1, <2>1 DEF TablesOK, Document
    <3>3. payable[q].paid > 0 BY <1>2, <3>1, <3>2
    <3>4. payable[q].status \notin Void BY <1>1, <3>3, PaidIsLive
    <3> QED BY <1>3, <2>1, <2>2, <3>4
  <2>3. CASE p # q BY <1>4, <2>1, <2>3 DEF OtherPayables
  <2> QED BY <2>2, <2>3
<1>12. CASE ReverseEntry(r)
  <2>1. /\ settlement' = settlement /\ source' = source
        /\ e \in Requests /\ doc[e].kind = "payout" /\ doc[e].status = "COMPLETED"
        /\ IF doc[e].matched[q] > 0 THEN payable'[q].status \notin Void ELSE payable'[q] = payable[q]
    <3>1. doc[e].matched[q] > 0 =>
            payable'[q].status =
              StatusFor(Larger(0, Original[q] - Larger(0, payable[q].paid - doc[e].matched[q])
                                              - payable[q].offset))
      BY <1>12, ReverseEntryStep DEF e
    <3>2. /\ settlement' = settlement /\ source' = source
          /\ e \in Requests /\ doc[e].kind = "payout" /\ doc[e].status = "COMPLETED"
          /\ ~(doc[e].matched[q] > 0) => payable'[q] = payable[q]
      BY <1>12, ReverseEntryStep DEF e
    <3> QED BY <1>5, <3>1, <3>2
  <2>2. CASE doc[e].matched[q] > 0
    <3>1. doc[e].matched[q] <= payable[q].paid BY <2>1, Counted
    <3>2. doc[e].matched[q] \in Int BY <1>1, <2>1 DEF TablesOK, Document
    <3>3. payable[q].paid > 0 BY <1>2, <2>2, <3>1, <3>2
    <3>4. payable[q].status \notin Void BY <1>1, <3>3, PaidIsLive
    <3> QED BY <1>3, <2>1, <2>2, <3>4
  <2>3. CASE ~(doc[e].matched[q] > 0) BY <1>4, <2>1, <2>3
  <2> QED BY <2>2, <2>3
<1>13. CASE Receive(r)
  <2> DEFINE n == op[r].amount
  <2>1. /\ n \in Nat \ {0} /\ n <= settlement[p].remaining /\ source[p] # "ABSENT"
        /\ settlement[p].status = "OPEN" /\ settlement'[p].status # "REVERSED"
        /\ settlement'[p].received = settlement[p].received + n
        /\ settlement'[p].remaining = settlement[p].remaining - n
        /\ \A x \in Payables \ {p} : settlement'[x] = settlement[x]
        /\ payable' = payable /\ source' = source
    BY <1>13, ReceiveStep DEF p
  <2> HIDE DEF n
  <2>2. CASE p = q
    <3>1. source[q] = "COMPLETED" BY <1>1, <1>2, <2>1, <2>2 DEF Agreed
    <3>2. /\ settlement'[q].received >= 0 /\ settlement'[q].remaining >= 0
          /\ settlement'[q].received + settlement'[q].remaining = Expected[q]
      BY <1>1, <1>2, <2>1, <2>2, <3>1 DEF Agreed
    <3> QED BY <1>1, <2>1, <2>2, <3>1, <3>2 DEF Agreed
  <2>3. CASE p # q BY <1>4, <2>1, <2>3
  <2> QED BY <2>2, <2>3
<1>14. CASE ReverseReceipt(r)
  <2> DEFINE n == doc[t].amount
  <2>1. /\ p \in Payables /\ source[p] # "ABSENT" /\ settlement'[p].status # "REVERSED"
        /\ t \in Requests /\ doc[t].kind = "receipt" /\ doc[t].status = "COMPLETED" /\ doc[t].payable = p
        /\ settlement'[p].received = Larger(0, settlement[p].received - n)
        /\ settlement'[p].remaining = Larger(0, Expected[p] - settlement'[p].received)
        /\ \A x \in Payables \ {p} : settlement'[x] = settlement[x]
        /\ payable' = payable /\ source' = source
    BY <1>14, ReverseReceiptStep DEF p, t
  <2>2. n \in Int BY <1>1, <2>1 DEF TablesOK, Document
  <2>3. CASE p = q
    <3>1. 0 < n /\ n <= settlement[q].received BY <2>1, <2>3, Counted
    <3> HIDE DEF n
    <3>2. source[q] = "COMPLETED" BY <1>1, <1>2, <2>1, <2>2, <2>3, <3>1 DEF Agreed
    <3>3. settlement'[q].received = settlement[q].received - n
      BY <1>2, <2>1, <2>2, <2>3, <3>1 DEF Larger
    <3>4. /\ settlement[q].remaining >= 0
          /\ settlement[q].received + settlement[q].remaining = Expected[q]
      BY <1>1, <3>2 DEF Agreed
    <3>5. /\ settlement'[q].received >= 0 /\ settlement'[q].remaining >= 0
          /\ settlement'[q].received + settlement'[q].remaining = Expected[q]
      BY <1>2, <2>1, <2>2, <2>3, <3>1, <3>3, <3>4 DEF Larger
    <3> QED BY <1>1, <2>1, <2>3, <3>2, <3>5 DEF Agreed
  <2>4. CASE p # q BY <1>4, <2>1, <2>4
  <2> QED BY <2>3, <2>4
<1> QED BY <1>6, <1>7, <1>8, <1>9, <1>10, <1>11, <1>12, <1>13, <1>14 DEF Commit

(* And after every other step.                                             *)
LEMMA AgreedNext ==
  ASSUME Known, VoidReadsStand, RowsOK, Columns, AllAgreed, [Next]_vars
  PROVE  AllAgreed'
<1> SUFFICES ASSUME NEW q \in Payables PROVE Agreed(q)' BY DEF AllAgreed
<1>1. Agreed(q) /\ TablesOK BY ShapeTables DEF AllAgreed, Known
<1>2. CASE UNCHANGED tables BY <1>1, <1>2 DEF tables, Agreed
<1>3. ASSUME NEW p \in Payables, RecordSwipe(p) PROVE Agreed(q)'
  <2>1. CASE p = q
    <3>1. /\ source'[q] = "COMPLETED" /\ payable'[q].status = "OPEN" /\ settlement'[q].status = "OPEN"
          /\ settlement'[q].received = 0 /\ settlement'[q].remaining = Expected[q]
      BY <1>1, <1>3, <2>1 DEF RecordSwipe, TablesOK, NoPayableRow, NoSettlementRow
    <3>2. Expected[q] \in Nat BY ConstantsAssumption
    <3> QED BY <3>1, <3>2 DEF Agreed, Void
  <2>2. CASE p # q
    <3>1. payable'[q] = payable[q] /\ settlement'[q] = settlement[q] /\ source'[q] = source[q]
      BY <1>1, <1>3, <2>2 DEF RecordSwipe, TablesOK
    <3> QED BY <1>1, <3>1 DEF Agreed
  <2> QED BY <2>1, <2>2
<1>4. ASSUME NEW r \in Requests, Commit(r) PROVE Agreed(q)' BY <1>4, AgreedCommit
<1> QED BY <1>2, <1>3, <1>4, TableSteps

\* At first there are no documents and every column is empty.
LEMMA AgreedInitially == Init => AllAgreed
BY DEF Init, AllAgreed, Agreed, NoPayableRow, NoSettlementRow, Void

(* All that the remaining theorems need to know.                           *)
Books == /\ Known /\ KeptApart /\ PaymentReadsStand /\ VoidReadsStand
         /\ RowsOK /\ Columns /\ AllAgreed /\ PayOutsGeneral

\* Everything the control accounts rest on holds at first ...
LEMMA BooksInitially == Init => Books
BY KnownInitially, ReadsStandInitially, RowsInitially, ColumnsInitially, AgreedInitially, BlankInitially
   DEF Books

\* ... is kept by every step ...
LEMMA BooksNext ==
  ASSUME PaymentsReversedApart, SwipesVoidedApart, MatchesUndoneOneWay
  PROVE  Books /\ [Next]_vars => Books'
<1> SUFFICES ASSUME Books, [Next]_vars PROVE Books' OBVIOUS
<1>1. Known' /\ KeptApart' BY KnownNext, KeptApartNext DEF Books, Known
<1>2. PaymentReadsStand' /\ VoidReadsStand' BY PaymentReadsNext, VoidReadsNext DEF Books, Known
<1>3. RowsOK' /\ Columns' BY AllRowsNext, ColumnsNext DEF Books
<1>4. AllAgreed' /\ PayOutsGeneral' BY AgreedNext, GeneralNext DEF Books
<1> QED BY <1>1, <1>2, <1>3, <1>4 DEF Books

\* ... and so always holds.
LEMMA BooksInvariant ==
  ASSUME PaymentsReversedApart, SwipesVoidedApart, MatchesUndoneOneWay
  PROVE  Spec => []Books
BY BooksInitially, BooksNext, PTL DEF Spec

(* A cancelled or reversed swipe leaves nothing behind, whatever runs at   *)
(* the same time, if the receipts of the provider do not run beside the    *)
(* cancellation: it reads the settlement before it locks it.               *)
THEOREM VoidUntouched ==
  ASSUME PaymentsReversedApart, SwipesVoidedApart, MatchesUndoneOneWay
  PROVE  Spec => []VoidIsUntouched
<1>1. Books => VoidIsUntouched
  <2> SUFFICES ASSUME Books, NEW p \in Payables
               PROVE  /\ payable[p].status \in Void <=> source[p] = "REVERSED"
                      /\ settlement[p].status = "REVERSED" <=> source[p] = "REVERSED"
                      /\ source[p] = "REVERSED" =>
                           /\ payable[p].paid = 0 /\ payable[p].offset = 0 /\ payable[p].remaining = 0
                           /\ settlement[p].received = 0 /\ settlement[p].remaining = 0
                           /\ \A r \in Requests : doc[r].status = "COMPLETED" =>
                                doc[r].payable # p /\ (doc[r].kind = "payout" => doc[r].matched[p] = 0)
    BY DEF VoidIsUntouched
  <2>1. Agreed(p) /\ RowOK(p) /\ TablesOK BY ShapeTables DEF Books, AllAgreed, RowsOK, Known
  <2>2. ASSUME source[p] = "REVERSED"
        PROVE  /\ payable[p].paid = 0 /\ payable[p].offset = 0 /\ payable[p].remaining = 0
               /\ settlement[p].received = 0 /\ settlement[p].remaining = 0
    BY <2>1, <2>2 DEF Agreed, RowOK
  <2>3. ASSUME source[p] = "REVERSED", NEW x \in Requests, doc[x].status = "COMPLETED"
        PROVE  doc[x].payable # p /\ (doc[x].kind = "payout" => doc[x].matched[p] = 0)
    <3>1. /\ doc[x].kind = "payment" /\ doc[x].payable = p => 0 < doc[x].amount /\ doc[x].amount <= 0
          /\ doc[x].kind = "payout" => 0 <= doc[x].matched[p] /\ doc[x].matched[p] <= 0
          /\ doc[x].kind = "offset" /\ doc[x].payable = p => 0 < doc[x].amount /\ doc[x].amount <= 0
          /\ doc[x].kind = "receipt" /\ doc[x].payable = p => 0 < doc[x].amount /\ doc[x].amount <= 0
      BY <2>2, <2>3, Counted DEF Books
    <3>2. /\ doc[x].kind \in {"none", "payment", "payout", "offset", "receipt"}
          /\ doc[x].amount \in Int /\ doc[x].matched[p] \in Int
      BY <2>1 DEF TablesOK, Document
    <3>3. doc[x].kind \in {"none", "payout"} => doc[x].payable # p
      BY ConstantsAssumption DEF Books, PayOutsGeneral
    <3> QED BY <3>1, <3>2, <3>3
  <2> QED BY <2>1, <2>2, <2>3 DEF Agreed
<1> QED BY <1>1, BooksInvariant, PTL

---------------------------------------------------------------------------

(* Payables and settlements are amounts owed.                              *)

(* What is owed in all, once the swipe is recorded.                        *)
DueOf(i) == IF i[1] = "payable" THEN Original[i[2]] ELSE Expected[i[2]]

(* The state of an item follows from that of the swipe, and the columns    *)
(* from the state.                                                         *)
ItemStands(i) ==
    /\ source[i[2]] = "ABSENT" =>
         StateOf(i) = "none" /\ AmountOf(i) = 0 /\ SettledOf(i) = 0 /\ RowOf(i).remaining = 0
    /\ source[i[2]] = "COMPLETED" =>
         /\ StateOf(i) = "owed" /\ AmountOf(i) = DueOf(i)
         /\ SettledOf(i) \in 0..DueOf(i) /\ RowOf(i).remaining = DueOf(i) - SettledOf(i)
    /\ source[i[2]] = "REVERSED" =>
         StateOf(i) = "void" /\ AmountOf(i) = DueOf(i) /\ SettledOf(i) = 0 /\ RowOf(i).remaining = 0
    /\ source[i[2]] \in {"ABSENT", "COMPLETED", "REVERSED"} /\ DueOf(i) \in Nat

ItemsStand == \A i \in Items : ItemStands(i)

\* Every due is in a state that its rows and its swipe agree on.
LEMMA ItemsStandAlways == Books => ItemsStand
<1> SUFFICES ASSUME Books, NEW i \in Items PROVE ItemStands(i) BY DEF ItemsStand
<1> DEFINE p == i[2]
<1>1. p \in Payables /\ i[1] \in {"payable", "settlement"} BY DEF Items
<1>2. /\ Agreed(p) /\ RowOK(p) /\ Blank(p)
      /\ payable[p] \in PayableRow /\ settlement[p] \in SettlementRow
      /\ source[p] \in {"ABSENT", "COMPLETED", "REVERSED"}
      /\ Original[p] \in Nat /\ Expected[p] \in Nat
  BY <1>1, ShapeTables, ConstantsAssumption
     DEF Books, AllAgreed, RowsOK, Known, Columns, AllBlank, TablesOK
<1> HIDE DEF p
<1>3. CASE i[1] = "payable"
  <2>1. /\ RowOf(i) = payable[p] /\ DueOf(i) = Original[p]
        /\ SettledOf(i) = payable[p].paid + payable[p].offset
    BY <1>3 DEF RowOf, DueOf, SettledOf, p
  <2>2. /\ StateOf(i) = IF source[p] = "ABSENT" THEN "none"
                        ELSE IF payable[p].status \in Void THEN "void" ELSE "owed"
        /\ AmountOf(i) = IF StateOf(i) = "none" THEN 0 ELSE Original[p]
    BY <1>3, <2>1 DEF StateOf, AmountOf, p
  <2>3. payable[p].paid \in Int /\ payable[p].offset \in Int /\ payable[p].remaining \in Int
    BY <1>2 DEF PayableRow
  <2>4. CASE source[p] = "ABSENT" BY <1>2, <2>1, <2>2, <2>4 DEF ItemStands, Blank, NoPayableRow, p
  <2>5. CASE source[p] = "COMPLETED"
    <3>1. /\ payable[p].status \notin Void
          /\ payable[p].paid >= 0 /\ payable[p].offset >= 0 /\ payable[p].remaining >= 0
          /\ payable[p].paid + payable[p].offset + payable[p].remaining = Original[p]
      BY <1>2, <2>5 DEF Agreed, RowOK
    <3>2. /\ SettledOf(i) \in 0..DueOf(i) /\ RowOf(i).remaining = DueOf(i) - SettledOf(i)
      BY <1>2, <2>1, <2>3, <3>1
    <3> QED BY <1>2, <2>1, <2>2, <2>5, <3>1, <3>2 DEF ItemStands, p
  <2>6. CASE source[p] = "REVERSED"
    <3>1. payable[p].status \in Void /\ payable[p].paid = 0 /\ payable[p].offset = 0 /\ payable[p].remaining = 0
      BY <1>2, <2>6 DEF Agreed, RowOK
    <3> QED BY <1>2, <2>1, <2>2, <2>6, <3>1 DEF ItemStands, p
  <2> QED BY <1>2, <2>4, <2>5, <2>6
<1>4. CASE i[1] = "settlement"
  <2>1. /\ RowOf(i) = settlement[p] /\ DueOf(i) = Expected[p] /\ SettledOf(i) = settlement[p].received
    BY <1>4 DEF RowOf, DueOf, SettledOf, p
  <2>2. /\ StateOf(i) = IF source[p] = "ABSENT" THEN "none"
                        ELSE IF settlement[p].status \in Void THEN "void" ELSE "owed"
        /\ AmountOf(i) = IF StateOf(i) = "none" THEN 0 ELSE Expected[p]
    BY <1>4, <2>1 DEF StateOf, AmountOf, p
  <2>3. /\ settlement[p].received \in Int /\ settlement[p].remaining \in Int
        /\ settlement[p].status \in Void <=> settlement[p].status = "REVERSED"
    BY <1>2 DEF SettlementRow, Void
  <2>4. CASE source[p] = "ABSENT" BY <1>2, <2>1, <2>2, <2>4 DEF ItemStands, Blank, NoSettlementRow, p
  <2>5. CASE source[p] = "COMPLETED"
    <3>1. /\ settlement[p].status \notin Void
          /\ settlement[p].received >= 0 /\ settlement[p].remaining >= 0
          /\ settlement[p].received + settlement[p].remaining = Expected[p]
      BY <1>2, <2>3, <2>5 DEF Agreed
    <3>2. /\ SettledOf(i) \in 0..DueOf(i) /\ RowOf(i).remaining = DueOf(i) - SettledOf(i)
      BY <1>2, <2>1, <2>3, <3>1
    <3> QED BY <1>2, <2>1, <2>2, <2>5, <3>1, <3>2 DEF ItemStands, p
  <2>6. CASE source[p] = "REVERSED"
    <3>1. settlement[p].status \in Void /\ settlement[p].received = 0 /\ settlement[p].remaining = 0
      BY <1>2, <2>3, <2>6 DEF Agreed
    <3> QED BY <1>2, <2>1, <2>2, <2>6, <3>1 DEF ItemStands, p
  <2> QED BY <1>2, <2>4, <2>5, <2>6
<1> QED BY <1>1, <1>3, <1>4

(* What is cancelled or reversed has been live until then, and is owed in  *)
(* full.                                                                   *)
LEMMA VoidedWhole ==
  ASSUME Books, NEW r \in Requests, Cancel(r) \/ ReverseSource(r)
  PROVE  LET p == op[r].payable
         IN  /\ p \in Payables /\ source[p] = "COMPLETED" /\ source'[p] = "REVERSED"
             /\ payable[p].paid = 0 /\ payable[p].offset = 0 /\ settlement[p].received = 0
             /\ payable[p].remaining = Original[p] /\ settlement[p].remaining = Expected[p]
<1> DEFINE p == op[r].payable
<1>1. /\ p \in Payables /\ source[p] # "ABSENT" /\ source'[p] = "REVERSED"
      /\ payable[p].status \notin Void \/ source[p] = "COMPLETED"
      /\ payable[p].paid = 0 /\ payable[p].offset = 0 /\ view[r].settlement.received = 0
  BY VoidStep DEF Books
<1>2. settlement[p].received = 0 BY <1>1, VoidReadAtEnd DEF Books
<1>3. /\ Agreed(p) /\ RowOK(p) /\ source[p] \in {"ABSENT", "COMPLETED", "REVERSED"}
      /\ payable[p] \in PayableRow /\ settlement[p] \in SettlementRow
      /\ Original[p] \in Int /\ Expected[p] \in Int
  BY <1>1, ShapeTables, ConstantsAssumption DEF Books, AllAgreed, RowsOK, Known, TablesOK
<1> HIDE DEF p
<1>4. source[p] = "COMPLETED" BY <1>1, <1>3 DEF Agreed
<1>5. payable[p].remaining = Original[p] /\ settlement[p].remaining = Expected[p]
  BY <1>1, <1>2, <1>3, <1>4 DEF Agreed, RowOK, PayableRow, SettlementRow
<1> QED BY <1>1, <1>2, <1>4, <1>5 DEF p

(* A swipe is recorded once, and voided once, while nothing is settled.    *)
LEMMA SwipeSteps ==
  ASSUME Books, [Next]_vars, NEW q \in Payables
  PROVE  \/ source'[q] = source[q]
         \/ source[q] = "ABSENT" /\ source'[q] = "COMPLETED"
         \/ /\ source[q] = "COMPLETED" /\ source'[q] = "REVERSED"
            /\ payable[q].paid = 0 /\ payable[q].offset = 0 /\ settlement[q].received = 0
<1>1. Known /\ TablesOK BY ShapeTables DEF Books, Known
<1>2. CASE UNCHANGED tables BY <1>2 DEF tables
<1>3. ASSUME NEW p \in Payables, RecordSwipe(p)
      PROVE  source'[q] = source[q] \/ (source[q] = "ABSENT" /\ source'[q] = "COMPLETED")
  BY <1>1, <1>3 DEF RecordSwipe, TablesOK
<1>4. ASSUME NEW r \in Requests, Commit(r)
      PROVE  \/ source'[q] = source[q]
             \/ /\ source[q] = "COMPLETED" /\ source'[q] = "REVERSED"
                /\ payable[q].paid = 0 /\ payable[q].offset = 0 /\ settlement[q].received = 0
  <2> DEFINE p == op[r].payable
  <2>1. CASE Pay(r) \/ PayOut(r) BY <1>1, <2>1, PayStep, PayOutStep
  <2>2. CASE Match(r) \/ Unmatch(r) BY <1>1, <2>2, MatchStep, UnmatchStep
  <2>3. CASE Apply(r) \/ Unapply(r) BY <1>1, <2>3, ApplyStep, UnapplyStep
  <2>4. CASE ReversePayment(r) \/ ReverseEntry(r) BY <1>1, <2>4, ReversePaymentStep, ReverseEntryStep
  <2>5. CASE Receive(r) \/ ReverseReceipt(r) BY <1>1, <2>5, ReceiveStep, ReverseReceiptStep
  <2>6. CASE Cancel(r) \/ ReverseSource(r)
    <3>1. \A x \in Payables \ {p} : source'[x] = source[x] BY <1>1, <2>6, VoidStep
    <3>2. /\ p \in Payables /\ source[p] = "COMPLETED" /\ source'[p] = "REVERSED"
          /\ payable[p].paid = 0 /\ payable[p].offset = 0 /\ settlement[p].received = 0
      BY <2>6, VoidedWhole
    <3> HIDE DEF p
    <3> QED BY <3>1, <3>2
  <2> QED BY <1>4, <2>1, <2>2, <2>3, <2>4, <2>5, <2>6 DEF Commit
<1> QED BY <1>1, <1>2, <1>3, <1>4, TableSteps

(* Every step of the shop is a step of every amount owed.                  *)
LEMMA ItemStep ==
  ASSUME Books, [Next]_vars, NEW i \in Items, ItemStands(i), ItemStands(i)'
  PROVE  \/ /\ StateOf(i) = "none" /\ AmountOf(i)' \in Nat /\ StateOf(i)' = "owed"
            /\ SettledOf(i)' \in 0..AmountOf(i)' /\ RowOf(i).remaining' = AmountOf(i)' - SettledOf(i)'
         \/ /\ StateOf(i) = "owed" /\ (SettledOf(i)' > SettledOf(i) \/ SettledOf(i)' < SettledOf(i))
            /\ AmountOf(i)' = AmountOf(i) /\ StateOf(i)' = "owed"
            /\ SettledOf(i)' \in 0..AmountOf(i)' /\ RowOf(i).remaining' = AmountOf(i)' - SettledOf(i)'
         \/ /\ StateOf(i) = "owed" /\ SettledOf(i) = 0 /\ StateOf(i)' = "void"
            /\ RowOf(i).remaining' = 0 /\ AmountOf(i)' = AmountOf(i) /\ SettledOf(i)' = 0
         \/ /\ StateOf(i)' = StateOf(i) /\ AmountOf(i)' = AmountOf(i)
            /\ SettledOf(i)' = SettledOf(i) /\ RowOf(i).remaining' = RowOf(i).remaining
<1> DEFINE p == i[2]
<1>1. p \in Payables /\ DueOf(i)' = DueOf(i) BY DEF Items, DueOf
<1>2. \/ source'[p] = source[p]
      \/ source[p] = "ABSENT" /\ source'[p] = "COMPLETED"
      \/ /\ source[p] = "COMPLETED" /\ source'[p] = "REVERSED"
         /\ payable[p].paid = 0 /\ payable[p].offset = 0 /\ settlement[p].received = 0
  BY <1>1, SwipeSteps
<1>3. CASE source'[p] = source[p]
  <2>1. CASE source[p] # "COMPLETED" BY <1>1, <1>3, <2>1 DEF ItemStands
  <2>2. CASE source[p] = "COMPLETED"
    <3>1. /\ StateOf(i) = "owed" /\ AmountOf(i) = DueOf(i) /\ SettledOf(i) \in 0..DueOf(i)
          /\ RowOf(i).remaining = DueOf(i) - SettledOf(i)
          /\ StateOf(i)' = "owed" /\ AmountOf(i)' = DueOf(i) /\ SettledOf(i)' \in 0..DueOf(i)
          /\ RowOf(i).remaining' = DueOf(i) - SettledOf(i)' /\ DueOf(i) \in Nat
      BY <1>1, <1>3, <2>2 DEF ItemStands
    <3>2. \/ SettledOf(i)' > SettledOf(i) \/ SettledOf(i)' < SettledOf(i) \/ SettledOf(i)' = SettledOf(i)
      BY <3>1
    <3> QED BY <3>1, <3>2
  <2> QED BY <2>1, <2>2
<1>4. CASE source[p] = "ABSENT" /\ source'[p] = "COMPLETED" BY <1>1, <1>4 DEF ItemStands
<1>5. CASE /\ source[p] = "COMPLETED" /\ source'[p] = "REVERSED"
           /\ payable[p].paid = 0 /\ payable[p].offset = 0 /\ settlement[p].received = 0
  <2>1. SettledOf(i) = 0 BY <1>5 DEF SettledOf
  <2> QED BY <1>1, <1>5, <2>1 DEF ItemStands
<1> QED BY <1>2, <1>3, <1>4, <1>5

(* The payables and the settlements of the shop implement amounts owed:    *)
(* whatever its documents do to them at the same time, they are never      *)
(* settled beyond their amount, voided only while nothing is settled, and  *)
(* never taken up again.                                                   *)
THEOREM DuesRefineObligations ==
  ASSUME PaymentsReversedApart, SwipesVoidedApart, MatchesUndoneOneWay
  PROVE  Spec => DuesAreObligations
<1>1. Init => Abstract!Init
  <2> SUFFICES ASSUME Init PROVE Abstract!Init OBVIOUS
  <2>1. ItemsStand BY BooksInitially, ItemsStandAlways
  <2>2. \A i \in Items : /\ StateOf(i) = "none" /\ AmountOf(i) = 0 /\ SettledOf(i) = 0
                         /\ RowOf(i).remaining = 0
    <3> SUFFICES ASSUME NEW i \in Items
                 PROVE  /\ StateOf(i) = "none" /\ AmountOf(i) = 0 /\ SettledOf(i) = 0
                        /\ RowOf(i).remaining = 0
      OBVIOUS
    <3>1. source[i[2]] = "ABSENT" BY DEF Init, Items
    <3> QED BY <2>1, <3>1 DEF ItemsStand, ItemStands
  <2> QED BY <2>2 DEF Abstract!Init
<1>2. Books /\ ItemsStand /\ ItemsStand' /\ [Next]_vars => [Abstract!Next]_(Abstract!vars)
  <2> SUFFICES ASSUME Books, ItemsStand, ItemsStand', [Next]_vars, NEW i \in Items
               PROVE  \/ Abstract!Incur(i) \/ Abstract!Settle(i) \/ Abstract!Unsettle(i)
                      \/ Abstract!Adjust(i) \/ Abstract!Void(i) \/ Abstract!Keep(i)
    BY DEF Abstract!Next
  <2>1. ItemStands(i) /\ ItemStands(i)' BY DEF ItemsStand
  <2> QED BY <2>1, ItemStep
          DEF Abstract!Incur, Abstract!Settle, Abstract!Unsettle, Abstract!Void, Abstract!Keep, Abstract!Owed
<1> QED BY <1>1, <1>2, BooksInvariant, ItemsStandAlways, PTL DEF Spec, DuesAreObligations, Abstract!Spec

---------------------------------------------------------------------------

(* The control accounts.                                                   *)

(* What of a Pay Out is charged to payables and not matched yet, and what  *)
(* of it the customer still owes back.                                     *)
ToMatch ==
    [d \in Document |-> IF d.status = "COMPLETED" /\ d.kind = "payout" THEN d.toPayable - Matched(d) ELSE 0]

ToApply ==
    [d \in Document |-> IF d.status = "COMPLETED" /\ d.kind = "payout" THEN d.toReceivable - d.applied ELSE 0]

StillOwed == SumFunction([p \in Payables |-> payable[p].remaining])
StillDue == SumFunction([p \in Payables |-> settlement[p].remaining])

PayableBalance == ledger["PAYABLE"] + StillOwed = Tally(ToMatch, doc)
ReceivableBalance == ledger["RECEIVABLE"] = Tally(ToApply, doc)
ClearingBalance == ledger["CLEARING"] = StillDue

\* What of a document is still to match or to apply is an integer, and nothing
\* unless it is a Pay Out that stands.
LEMMA ToMatchTypes ==
  /\ ToMatch \in [Document -> Int] /\ ToApply \in [Document -> Int]
  /\ \A d \in Document : /\ d.status # "COMPLETED" \/ d.kind # "payout" => ToMatch[d] = 0 /\ ToApply[d] = 0
                         /\ d.status = "COMPLETED" /\ d.kind = "payout" =>
                              /\ ToMatch[d] = d.toPayable - Matched(d)
                              /\ ToApply[d] = d.toReceivable - d.applied
<1>1. ASSUME NEW d \in Document
      PROVE  /\ Matched(d) \in Int /\ d.toPayable \in Int /\ d.toReceivable \in Int /\ d.applied \in Int
  <2>1. d.matched \in [Payables -> Int] BY DEF Document
  <2>2. Matched(d) \in Int BY <2>1, ConstantsAssumption, SumType DEF Matched
  <2> QED BY <2>2 DEF Document
<1> QED BY <1>1 DEF ToMatch, ToApply

(* What the journals post to the control accounts.                         *)
LEMMA OnControls ==
  /\ {"PAYABLE", "RECEIVABLE", "CLEARING"} \subseteq Ledgers
  /\ \A d : /\ OffsetJournal(d)["PAYABLE"] = d.amount
            /\ OffsetJournal(d)["RECEIVABLE"] = -d.amount
            /\ OffsetJournal(d)["CLEARING"] = 0
            /\ d.account \in Accounts =>
                 /\ PaymentJournal(d)["PAYABLE"] = d.amount
                 /\ PaymentJournal(d)["RECEIVABLE"] = 0 /\ PaymentJournal(d)["CLEARING"] = 0
                 /\ PayOutJournal(d)["PAYABLE"] = d.toPayable
                 /\ PayOutJournal(d)["RECEIVABLE"] = d.toReceivable /\ PayOutJournal(d)["CLEARING"] = 0
                 /\ ReceiptJournal(d)["PAYABLE"] = 0
                 /\ ReceiptJournal(d)["RECEIVABLE"] = 0 /\ ReceiptJournal(d)["CLEARING"] = -d.amount
  /\ \A p : /\ SourceJournal(p)["PAYABLE"] = -Original[p] /\ SourceJournal(p)["RECEIVABLE"] = 0
            /\ SourceJournal(p)["CLEARING"] = Expected[p]
<1>1. /\ "PAYABLE" \in Ledgers /\ "RECEIVABLE" \in Ledgers /\ "CLEARING" \in Ledgers
      /\ \A a \in Accounts : a # "PAYABLE" /\ a # "RECEIVABLE" /\ a # "CLEARING"
  BY ConstantsAssumption DEF Ledgers, SystemLedgers
<1>2. ASSUME NEW d, d.account \in Accounts
      PROVE  /\ PaymentJournal(d)["PAYABLE"] = d.amount
             /\ PaymentJournal(d)["RECEIVABLE"] = 0 /\ PaymentJournal(d)["CLEARING"] = 0
  BY <1>1, <1>2 DEF PaymentJournal
<1>3. ASSUME NEW d, d.account \in Accounts
      PROVE  /\ PayOutJournal(d)["PAYABLE"] = d.toPayable
             /\ PayOutJournal(d)["RECEIVABLE"] = d.toReceivable /\ PayOutJournal(d)["CLEARING"] = 0
  BY <1>1, <1>3 DEF PayOutJournal
<1>4. ASSUME NEW d, d.account \in Accounts
      PROVE  /\ ReceiptJournal(d)["PAYABLE"] = 0
             /\ ReceiptJournal(d)["RECEIVABLE"] = 0 /\ ReceiptJournal(d)["CLEARING"] = -d.amount
  BY <1>1, <1>4 DEF ReceiptJournal
<1>5. ASSUME NEW d
      PROVE  /\ OffsetJournal(d)["PAYABLE"] = d.amount /\ OffsetJournal(d)["RECEIVABLE"] = -d.amount
             /\ OffsetJournal(d)["CLEARING"] = 0
  BY <1>1 DEF OffsetJournal
<1>6. ASSUME NEW p
      PROVE  /\ SourceJournal(p)["PAYABLE"] = -Original[p] /\ SourceJournal(p)["RECEIVABLE"] = 0
             /\ SourceJournal(p)["CLEARING"] = Expected[p]
  BY <1>1 DEF SourceJournal
<1> QED BY <1>1, <1>2, <1>3, <1>4, <1>5, <1>6

(* What is still owed after a step that changes one row.                   *)
LEMMA StillChange ==
  ASSUME TablesOK, TablesOK', NEW p \in Payables
  PROVE  /\ StillOwed \in Int /\ StillDue \in Int
         /\ payable[p].remaining \in Int /\ payable'[p].remaining \in Int
         /\ settlement[p].remaining \in Int /\ settlement'[p].remaining \in Int
         /\ OtherPayables({p}) => StillOwed' = StillOwed - payable[p].remaining + payable'[p].remaining
         /\ (\A q \in Payables \ {p} : settlement'[q] = settlement[q]) =>
              StillDue' = StillDue - settlement[p].remaining + settlement'[p].remaining
<1> DEFINE f == [q \in Payables |-> payable[q].remaining]
           h == [q \in Payables |-> payable'[q].remaining]
           g == [q \in Payables |-> settlement[q].remaining]
           k == [q \in Payables |-> settlement'[q].remaining]
<1>1. IsFiniteSet(Payables) BY ConstantsAssumption
<1>2. f \in [Payables -> Int] /\ h \in [Payables -> Int] BY DEF TablesOK, PayableRow
<1>3. g \in [Payables -> Int] /\ k \in [Payables -> Int] BY DEF TablesOK, SettlementRow
<1>4. /\ f[p] = payable[p].remaining /\ h[p] = payable'[p].remaining
      /\ g[p] = settlement[p].remaining /\ k[p] = settlement'[p].remaining
      /\ OtherPayables({p}) => \A q \in Payables \ {p} : h[q] = f[q]
      /\ (\A q \in Payables \ {p} : settlement'[q] = settlement[q]) =>
           \A q \in Payables \ {p} : k[q] = g[q]
  BY DEF OtherPayables
<1>5. /\ StillOwed = SumFunction(f) /\ StillOwed' = SumFunction(h)
      /\ StillDue = SumFunction(g) /\ StillDue' = SumFunction(k)
  BY DEF StillOwed, StillDue
<1> HIDE DEF f, h, g, k
<1>6. SumFunction(f) \in Int /\ SumFunction(g) \in Int BY <1>1, <1>2, <1>3, SumType
<1>7. (\A q \in Payables \ {p} : h[q] = f[q]) => SumFunction(h) = SumFunction(f) - f[p] + h[p]
  BY <1>1, <1>2, SumChange
<1>8. (\A q \in Payables \ {p} : k[q] = g[q]) => SumFunction(k) = SumFunction(g) - g[p] + k[p]
  BY <1>1, <1>3, SumChange
<1>9. f[p] \in Int /\ h[p] \in Int /\ g[p] \in Int /\ k[p] \in Int BY <1>2, <1>3
<1> QED BY <1>4, <1>5, <1>6, <1>7, <1>8, <1>9

(* A reversed payout gives back what it paid.                              *)
LEMMA PaymentGivenBack ==
  ASSUME Books, NEW r \in Requests, ReversePayment(r)
  PROVE  payable'[op[r].payable].remaining = payable[op[r].payable].remaining + doc[op[r].target].amount
<1> DEFINE p == op[r].payable
           t == op[r].target
           n == doc[t].amount
<1>1. /\ p \in Payables /\ t \in Requests /\ doc[t].kind = "payment" /\ doc[t].status = "COMPLETED"
      /\ doc[t].payable = p
      /\ payable'[p].remaining = Original[p] - Larger(0, payable[p].paid - n) - payable[p].offset
  BY ReversedPayment DEF Books
<1>2. 0 < n /\ n <= payable[p].paid BY <1>1, Counted DEF Books
<1>3. /\ payable[p] \in PayableRow /\ doc[t] \in Document /\ RowOK(p) /\ Original[p] \in Int
  BY <1>1, ShapeTables, ConstantsAssumption DEF Books, Known, TablesOK, RowsOK
<1>4. /\ payable[p].paid \in Int /\ payable[p].offset \in Int /\ payable[p].remaining \in Int /\ n \in Int
  BY <1>3 DEF PayableRow, Document
<1> HIDE DEF n, t, p
<1>5. payable[p].paid > 0 BY <1>2, <1>4
<1>6. source[p] # "ABSENT" /\ payable[p].status \notin Void BY <1>1, <1>5, PaidIsLive DEF Books, Columns
<1>7. payable[p].paid + payable[p].offset + payable[p].remaining = Original[p] BY <1>3, <1>6 DEF RowOK
<1>8. Larger(0, payable[p].paid - n) = payable[p].paid - n BY <1>2, <1>4 DEF Larger
<1>9. payable'[p].remaining = payable[p].remaining + n BY <1>1, <1>3, <1>4, <1>7, <1>8
<1> QED BY <1>9 DEF n, t, p

(* And a reversed Pay Out what was matched to it.                          *)
LEMMA AllocationsGivenBack ==
  ASSUME Books, NEW r \in Requests, ReverseEntry(r), NEW p \in Payables
  PROVE  payable'[p].remaining = payable[p].remaining + doc[op[r].entry].matched[p]
<1> DEFINE e == op[r].entry
           n == doc[e].matched[p]
<1>1. /\ e \in Requests /\ doc[e].kind = "payout" /\ doc[e].status = "COMPLETED"
      /\ IF n > 0
         THEN payable'[p].remaining =
                Larger(0, Original[p] - Larger(0, payable[p].paid - n) - payable[p].offset)
         ELSE payable'[p] = payable[p]
  BY ReverseEntryStep DEF Books
<1>2. 0 <= n /\ n <= payable[p].paid BY <1>1, Counted DEF Books
<1>3. /\ payable[p] \in PayableRow /\ doc[e] \in Document /\ RowOK(p) /\ Original[p] \in Int
  BY <1>1, ShapeTables, ConstantsAssumption DEF Books, Known, TablesOK, RowsOK
<1>4. /\ payable[p].paid \in Int /\ payable[p].offset \in Int /\ payable[p].remaining \in Int /\ n \in Int
  BY <1>3 DEF PayableRow, Document
<1> HIDE DEF n, e
<1>5. CASE n > 0
  <2>1. payable[p].paid > 0 BY <1>2, <1>4, <1>5
  <2>2. source[p] # "ABSENT" /\ payable[p].status \notin Void BY <2>1, PaidIsLive DEF Books, Columns
  <2>3. /\ payable[p].paid + payable[p].offset + payable[p].remaining = Original[p]
        /\ payable[p].remaining >= 0
    BY <1>3, <2>2 DEF RowOK
  <2>4. Larger(0, payable[p].paid - n) = payable[p].paid - n BY <1>2, <1>4 DEF Larger
  <2>5. Original[p] - (payable[p].paid - n) - payable[p].offset = payable[p].remaining + n
    BY <1>3, <1>4, <2>3
  <2>6. Larger(0, payable[p].remaining + n) = payable[p].remaining + n BY <1>4, <1>5, <2>3 DEF Larger
  <2>7. payable'[p].remaining = payable[p].remaining + n BY <1>1, <1>5, <2>4, <2>5, <2>6
  <2> QED BY <2>7 DEF n, e
<1>6. CASE ~(n > 0)
  <2>1. n = 0 BY <1>2, <1>4, <1>6
  <2>2. payable'[p].remaining = payable[p].remaining + n BY <1>1, <1>4, <1>6, <2>1
  <2> QED BY <2>2 DEF n, e
<1> QED BY <1>5, <1>6

(* All it gives back is all that was matched.                              *)
LEMMA MatchedGivenBack ==
  ASSUME Books, NEW r \in Requests, ReverseEntry(r), TablesOK, TablesOK'
  PROVE  StillOwed' = StillOwed + Matched(doc[op[r].entry]) /\ StillOwed \in Int
<1> DEFINE e == op[r].entry
           f == [p \in Payables |-> payable[p].remaining]
           g == doc[e].matched
           h == [p \in Payables |-> payable'[p].remaining]
<1>1. e \in Requests BY ReverseEntryStep DEF Books
<1>2. g \in [Payables -> Int] BY <1>1 DEF TablesOK, Document
<1>3. f \in [Payables -> Int] /\ h \in [Payables -> Int] BY DEF TablesOK, PayableRow
<1>4. \A p \in Payables : h[p] = f[p] + g[p] BY AllocationsGivenBack
<1>5. StillOwed = SumFunction(f) /\ StillOwed' = SumFunction(h) /\ Matched(doc[e]) = SumFunction(g)
  BY DEF StillOwed, Matched
<1>6. IsFiniteSet(Payables) BY ConstantsAssumption
<1> HIDE DEF f, g, h, e
<1>7. SumFunction(h) = SumFunction(f) + SumFunction(g) /\ SumFunction(f) \in Int
  BY <1>2, <1>3, <1>4, <1>6, SumAdd, SumType
<1> QED BY <1>5, <1>7 DEF e

(* What customers are owed is what their control account carries and what  *)
(* is still to be matched, whatever commits.                               *)
LEMMA PayableBalanceCommit ==
  ASSUME MatchesUndoneOneWay, Books, PayableBalance, NEW r \in Requests, Commit(r)
  PROVE  PayableBalance'
<1> DEFINE F == ToMatch
           p == op[r].payable
           e == op[r].entry
           t == op[r].target
           L == ledger["PAYABLE"]
<1>1. /\ Known /\ TablesOK /\ TablesOK' /\ doc[r].kind = "none"
      /\ \A d \in Requests : doc[d] \in Document /\ doc'[d] \in Document
  BY CommonStep DEF Books, TablesOK
<1>2. F \in [Document -> Int] BY ToMatchTypes
<1>3. L + StillOwed = Tally(F, doc) /\ L \in Int /\ Tally(F, doc) \in Int
  <2>1. L \in Int BY <1>1, OnControls DEF TablesOK
  <2>2. Tally(F, doc) \in Int BY <1>1, <1>2, TallyOne DEF TablesOK
  <2> QED BY <2>1, <2>2 DEF PayableBalance
<1>4. ASSUME NEW x \in Requests
      PROVE  /\ OtherDocuments({x}) => Tally(F, doc') = Tally(F, doc) - F[doc[x]] + F[doc'[x]]
             /\ F[doc[x]] \in Int /\ F[doc'[x]] \in Int
  BY <1>1, <1>2, TallyStep
<1>5. ASSUME NEW d \in Document
      PROVE  /\ d.kind # "payout" => F[d] = 0
             /\ d.status # "COMPLETED" => F[d] = 0
             /\ d.status = "COMPLETED" /\ d.kind = "payout" => F[d] = d.toPayable - Matched(d)
             /\ d.toPayable \in Int
  BY ToMatchTypes DEF Document
<1>6. F[doc[r]] = 0 BY <1>1, <1>5
<1>7. \A j : /\ Post(j) => ledger'["PAYABLE"] = L + j["PAYABLE"]
             /\ PostReversal(j) => ledger'["PAYABLE"] = L - j["PAYABLE"]
  <2>1. "PAYABLE" \in Ledgers BY OnControls
  <2> QED BY <1>1, <2>1, Posted
<1>8. ASSUME ledger'["PAYABLE"] + StillOwed' = Tally(F, doc') PROVE PayableBalance'
  BY <1>8 DEF PayableBalance
<1>9. ASSUME NEW x \in Payables
      PROVE  /\ StillOwed \in Int /\ payable[x].remaining \in Int /\ payable'[x].remaining \in Int
             /\ OtherPayables({x}) => StillOwed' = StillOwed - payable[x].remaining + payable'[x].remaining
  BY <1>1, StillChange
<1> HIDE DEF F, L, p, e, t
<1>10. CASE Pay(r)
  <2> DEFINE n == doc'[r].amount
  <2>1. /\ p \in Payables /\ OtherDocuments({r}) /\ OtherPayables({p})
        /\ payable'[p].remaining = payable[p].remaining - n
        /\ doc'[r].kind = "payment" /\ doc'[r].account \in Accounts
        /\ Post(PaymentJournal(doc'[r]))
    BY <1>1, <1>10, PayStep DEF Recorded, PaidMore, p
  <2>2. ledger'["PAYABLE"] = L + n BY <1>7, <2>1, OnControls
  <2>3. Tally(F, doc') = Tally(F, doc) BY <1>1, <1>3, <1>4, <1>5, <1>6, <2>1
  <2>4. n \in Int BY <1>1 DEF Document
  <2> HIDE DEF n
  <2>5. StillOwed' = StillOwed - n BY <1>9, <2>1, <2>4
  <2>6. ledger'["PAYABLE"] + StillOwed' = Tally(F, doc')
    <3>1. StillOwed \in Int BY <1>9, <2>1
    <3> QED BY <1>3, <2>2, <2>3, <2>4, <2>5, <3>1
  <2> QED BY <1>8, <2>6
<1>11. CASE PayOut(r)
  <2> DEFINE n == op[r].part
             d == doc'[r]
  <2>1. /\ n \in Nat /\ (p \notin Payables => n = 0)
        /\ Recorded(d, "payout", None, op[r].account, None, op[r].amount, op[r].amount)
        /\ op[r].account \in Accounts
        /\ \A q \in Payables : d.matched[q] = IF q = p THEN n ELSE 0
        /\ OtherDocuments({r}) /\ OtherPayables({p})
        /\ p \in Payables => PaidMore(p, n)
        /\ Post(PayOutJournal(d))
    BY <1>1, <1>11, PayOutStep DEF p
  <2>2. d \in Document BY <1>1
  <2>3. Matched(d) = n
    <3>1. Matched(d) = IF p \in Payables THEN n ELSE 0 BY <2>1, <2>2, MatchedOne
    <3> QED BY <2>1, <3>1
  <2>4. ledger'["PAYABLE"] = L + d.toPayable /\ d.kind = "payout" /\ d.status = "COMPLETED"
    <3>1. d.account \in Accounts /\ d.kind = "payout" /\ d.status = "COMPLETED" BY <2>1 DEF Recorded
    <3> QED BY <1>7, <2>1, <3>1, OnControls
  <2>5. Tally(F, doc') = Tally(F, doc) + d.toPayable - n /\ d.toPayable \in Int
    <3>1. F[d] = d.toPayable - n /\ d.toPayable \in Int BY <1>5, <2>2, <2>3, <2>4
    <3>2. Tally(F, doc') = Tally(F, doc) - F[doc[r]] + F[d] BY <1>4, <2>1
    <3> HIDE DEF d, n
    <3> QED BY <1>3, <1>6, <2>1, <3>1, <3>2
  <2>6. StillOwed' = StillOwed - n /\ StillOwed \in Int
    <3>1. CASE p \in Payables
      <4>1. payable'[p].remaining = payable[p].remaining - n BY <2>1, <3>1 DEF PaidMore
      <4> HIDE DEF n
      <4> QED BY <1>9, <2>1, <3>1, <4>1
    <3>2. CASE p \notin Payables
      <4>1. \A q \in Payables : payable'[q].remaining = payable[q].remaining BY <2>1, <3>2 DEF OtherPayables
      <4>2. StillOwed' = StillOwed BY <4>1 DEF StillOwed
      <4>3. StillOwed \in Int
        <5>1. [q \in Payables |-> payable[q].remaining] \in [Payables -> Int]
          BY <1>1 DEF TablesOK, PayableRow
        <5> QED BY <5>1, ConstantsAssumption, SumType DEF StillOwed
      <4> HIDE DEF n
      <4> QED BY <2>1, <3>2, <4>2, <4>3
    <3> QED BY <3>1, <3>2
  <2>7. ledger'["PAYABLE"] + StillOwed' = Tally(F, doc')
    <3> HIDE DEF d, n
    <3> QED BY <1>3, <2>1, <2>4, <2>5, <2>6
  <2> QED BY <1>8, <2>7
<1>12. CASE Match(r) \/ Unmatch(r)
  <2>1. /\ e \in Requests /\ p \in Payables /\ doc[e].kind = "payout"
        /\ SameTerms(doc'[e], doc[e]) /\ doc'[e].status = doc[e].status
        /\ \A q \in Payables \ {p} : doc'[e].matched[q] = doc[e].matched[q]
        /\ OtherDocuments({e}) /\ OtherPayables({p}) /\ UNCHANGED ledger
    BY <1>1, <1>12, MatchStep, UnmatchStep DEF e, p
  <2>2. doc[e] \in Document /\ doc'[e] \in Document /\ doc'[e].kind = "payout"
        /\ doc'[e].toPayable = doc[e].toPayable
    BY <1>1, <2>1 DEF SameTerms
  <2>3. doc[e].status = "COMPLETED"
    <3>1. CASE Match(r) BY <1>1, <3>1, MatchStep DEF e
    <3>2. CASE Unmatch(r)
      <4>1. op[r].kind = "unmatch" BY <3>2 DEF Unmatch, Commits
      <4>2. op[r].kind \in Workload BY <1>1, CommonStep DEF Known, Shape, SessionsOK, SessionOK
      <4> QED BY <2>1, <4>1, <4>2 DEF MatchesUndoneOneWay, PayOutsStand, Books, Columns
    <3> QED BY <1>12, <3>1, <3>2
  <2>4. /\ Matched(doc[e]) \in Int /\ Matched(doc'[e]) \in Int
        /\ doc[e].matched[p] \in Int /\ doc'[e].matched[p] \in Int
        /\ Matched(doc'[e]) = Matched(doc[e]) - doc[e].matched[p] + doc'[e].matched[p]
    BY <2>1, <2>2, MatchedChange DEF Document
  <2>5. payable'[p].remaining = payable[p].remaining + doc[e].matched[p] - doc'[e].matched[p]
    <3>1. payable[p].remaining \in Int BY <1>9, <2>1
    <3>2. CASE Match(r)
      <4>1. /\ doc[e].matched[p] = 0 /\ payable'[p].remaining = payable[p].remaining - doc'[e].matched[p]
        BY <1>1, <3>2, MatchStep DEF PaidMore, e, p
      <4> QED BY <2>4, <3>1, <4>1
    <3>3. CASE Unmatch(r)
      <4>1. /\ doc'[e].matched[p] = 0 /\ payable'[p].remaining = payable[p].remaining + doc[e].matched[p]
        BY <1>1, <3>3, UnmatchStep DEF PaidLess, e, p
      <4> QED BY <2>4, <3>1, <4>1
    <3> QED BY <1>12, <3>2, <3>3
  <2>6. /\ F[doc[e]] = doc[e].toPayable - Matched(doc[e]) /\ F[doc'[e]] = doc[e].toPayable - Matched(doc'[e])
        /\ doc[e].toPayable \in Int
    BY <1>5, <2>1, <2>2, <2>3
  <2>7. Tally(F, doc') = Tally(F, doc) - F[doc[e]] + F[doc'[e]] BY <1>4, <2>1
  <2>8. /\ StillOwed' = StillOwed - payable[p].remaining + payable'[p].remaining
        /\ StillOwed \in Int /\ payable[p].remaining \in Int
    BY <1>9, <2>1
  <2>9. ledger'["PAYABLE"] = L BY <2>1 DEF L
  <2>10. ledger'["PAYABLE"] + StillOwed' = Tally(F, doc')
    <3>1. StillOwed' = StillOwed + doc[e].matched[p] - doc'[e].matched[p] BY <2>4, <2>5, <2>8
    <3>2. F[doc'[e]] - F[doc[e]] = Matched(doc[e]) - Matched(doc'[e]) BY <2>4, <2>6
    <3>3. Matched(doc[e]) - Matched(doc'[e]) = doc[e].matched[p] - doc'[e].matched[p] BY <2>4
    <3>4. F[doc[e]] \in Int /\ F[doc'[e]] \in Int BY <1>4, <2>1
    <3>5. Tally(F, doc') = Tally(F, doc) + (F[doc'[e]] - F[doc[e]]) BY <1>3, <2>7, <3>4
    <3>6. Tally(F, doc') = Tally(F, doc) + doc[e].matched[p] - doc'[e].matched[p]
      BY <1>3, <2>4, <3>2, <3>3, <3>5
    <3> QED BY <1>3, <2>4, <2>8, <2>9, <3>1, <3>6
  <2> QED BY <1>8, <2>10
<1>13. CASE Apply(r)
  <2> DEFINE n == op[r].amount
  <2>1. /\ e \in Requests /\ p \in Payables /\ doc[e].kind = "payout" /\ n \in Nat
        /\ Recorded(doc'[r], "offset", p, None, e, n, 0)
        /\ SameTerms(doc'[e], doc[e]) /\ doc'[e].status = doc[e].status /\ doc'[e].matched = doc[e].matched
        /\ OtherDocuments({r, e}) /\ OffsetMore(p, n) /\ OtherPayables({p})
        /\ Post(OffsetJournal(doc'[r]))
    BY <1>1, <1>13, ApplyStep DEF e, p
  <2>2. /\ doc'[r].kind = "offset" /\ doc'[r].amount = n
        /\ payable'[p].remaining = payable[p].remaining - n
        /\ doc'[e].kind = "payout" /\ doc'[e].toPayable = doc[e].toPayable
    BY <2>1 DEF Recorded, OffsetMore, SameTerms
  <2>3. ledger'["PAYABLE"] = L + n BY <1>7, <2>1, <2>2, OnControls
  <2>4. Tally(F, doc') = Tally(F, doc)
    <3>1. F[doc'[r]] = F[doc[r]] BY <1>1, <1>5, <1>6, <2>2
    <3>2. F[doc'[e]] = F[doc[e]]
      <4>1. doc[e] \in Document /\ doc'[e] \in Document BY <1>1, <2>1
      <4>2. Matched(doc'[e]) = Matched(doc[e]) BY <2>1 DEF Matched
      <4>3. CASE doc[e].status = "COMPLETED" BY <1>5, <2>1, <2>2, <4>1, <4>2, <4>3
      <4>4. CASE doc[e].status # "COMPLETED" BY <1>5, <2>1, <4>1, <4>4
      <4> QED BY <4>3, <4>4
    <3>3. \A x \in Requests : F[doc'[x]] = F[doc[x]] BY <2>1, <3>1, <3>2 DEF OtherDocuments
    <3> QED BY <3>3, TallySame
  <2> HIDE DEF n
  <2>5. StillOwed' = StillOwed - n /\ StillOwed \in Int BY <1>9, <2>1, <2>2
  <2>6. ledger'["PAYABLE"] + StillOwed' = Tally(F, doc') BY <1>3, <2>1, <2>3, <2>4, <2>5
  <2> QED BY <1>8, <2>6
<1>14. CASE Unapply(r)
  <2> DEFINE n == doc[t].amount
  <2>1. /\ e \in Requests /\ t \in Requests /\ p \in Payables /\ doc[e].kind = "payout"
        /\ doc[t].kind = "offset" /\ n \in Int
        /\ SameTerms(doc'[t], doc[t]) /\ SameTerms(doc'[e], doc[e])
        /\ doc'[e].status = doc[e].status /\ doc'[e].matched = doc[e].matched
        /\ OtherDocuments({t, e}) /\ OffsetLess(p, n) /\ OtherPayables({p})
        /\ PostReversal(OffsetJournal(doc[t]))
    BY <1>1, <1>14, UnapplyStep DEF e, p, t
  <2>2. /\ doc'[t].kind = "offset" /\ payable'[p].remaining = payable[p].remaining + n
        /\ doc'[e].kind = "payout" /\ doc'[e].toPayable = doc[e].toPayable
    BY <2>1 DEF OffsetLess, SameTerms
  <2>3. ledger'["PAYABLE"] = L - n BY <1>7, <2>1, OnControls
  <2>4. Tally(F, doc') = Tally(F, doc)
    <3>1. F[doc'[t]] = F[doc[t]]
      <4>1. doc[t] \in Document /\ doc'[t] \in Document BY <1>1, <2>1
      <4> QED BY <1>5, <2>1, <2>2, <4>1
    <3>2. F[doc'[e]] = F[doc[e]]
      <4>1. doc[e] \in Document /\ doc'[e] \in Document BY <1>1, <2>1
      <4>2. Matched(doc'[e]) = Matched(doc[e]) BY <2>1 DEF Matched
      <4>3. CASE doc[e].status = "COMPLETED" BY <1>5, <2>1, <2>2, <4>1, <4>2, <4>3
      <4>4. CASE doc[e].status # "COMPLETED" BY <1>5, <2>1, <4>1, <4>4
      <4> QED BY <4>3, <4>4
    <3>3. \A x \in Requests : F[doc'[x]] = F[doc[x]] BY <2>1, <3>1, <3>2 DEF OtherDocuments
    <3> QED BY <3>3, TallySame
  <2> HIDE DEF n
  <2>5. StillOwed' = StillOwed + n /\ StillOwed \in Int BY <1>9, <2>1, <2>2
  <2>6. ledger'["PAYABLE"] + StillOwed' = Tally(F, doc') BY <1>3, <2>1, <2>3, <2>4, <2>5
  <2> QED BY <1>8, <2>6
<1>15. CASE Cancel(r) \/ ReverseSource(r)
  <2>1. /\ p \in Payables /\ doc' = doc /\ OtherPayables({p}) /\ payable'[p].remaining = 0
        /\ PostReversal(SourceJournal(p))
    BY <1>1, <1>15, VoidStep DEF p
  <2>2. payable[p].remaining = Original[p] /\ Original[p] \in Int
    BY <1>15, <2>1, VoidedWhole, ConstantsAssumption DEF p
  <2>3. ledger'["PAYABLE"] = L - (-Original[p]) BY <1>7, <2>1, OnControls
  <2>4. StillOwed' = StillOwed - Original[p] /\ StillOwed \in Int BY <1>9, <2>1, <2>2
  <2>5. Tally(F, doc') = Tally(F, doc) BY <2>1
  <2>6. ledger'["PAYABLE"] + StillOwed' = Tally(F, doc') BY <1>3, <2>2, <2>3, <2>4, <2>5
  <2> QED BY <1>8, <2>6
<1>16. CASE ReversePayment(r)
  <2> DEFINE n == doc[t].amount
  <2>1. /\ t \in Requests /\ p \in Payables /\ doc[t].kind = "payment" /\ doc[t].account \in Accounts
        /\ SameTerms(doc'[t], doc[t]) /\ OtherDocuments({t}) /\ OtherPayables({p})
        /\ PostReversal(PaymentJournal(doc[t]))
    BY <1>16, ReversedPayment DEF Books, p, t
  <2>2. payable'[p].remaining = payable[p].remaining + n BY <1>16, PaymentGivenBack DEF p, t
  <2>3. ledger'["PAYABLE"] = L - n BY <1>7, <2>1, OnControls
  <2>4. doc[t] \in Document /\ doc'[t] \in Document /\ doc'[t].kind = "payment"
    BY <1>1, <2>1 DEF SameTerms
  <2>5. n \in Int /\ F[doc[t]] = 0 /\ F[doc'[t]] = 0 BY <1>5, <2>1, <2>4 DEF Document
  <2>6. Tally(F, doc') = Tally(F, doc) BY <1>3, <1>4, <2>1, <2>5
  <2> HIDE DEF n
  <2>7. StillOwed' = StillOwed + n /\ StillOwed \in Int BY <1>9, <2>1, <2>2, <2>5
  <2>8. ledger'["PAYABLE"] + StillOwed' = Tally(F, doc') BY <1>3, <2>3, <2>5, <2>6, <2>7
  <2> QED BY <1>8, <2>8
<1>17. CASE ReverseEntry(r)
  <2>1. /\ e \in Requests /\ doc[e].kind = "payout" /\ doc[e].status = "COMPLETED"
        /\ doc[e].account \in Accounts /\ doc'[e].status = "REVERSED" /\ OtherDocuments({e})
        /\ PostReversal(PayOutJournal(doc[e]))
    BY <1>1, <1>17, ReverseEntryStep DEF e
  <2>2. ledger'["PAYABLE"] = L - doc[e].toPayable BY <1>7, <2>1, OnControls
  <2>3. StillOwed' = StillOwed + Matched(doc[e]) /\ StillOwed \in Int
    BY <1>1, <1>17, MatchedGivenBack DEF e
  <2>4. doc[e] \in Document /\ doc'[e] \in Document BY <1>1, <2>1
  <2>5. F[doc[e]] = doc[e].toPayable - Matched(doc[e]) /\ F[doc'[e]] = 0 /\ doc[e].toPayable \in Int
    BY <1>5, <2>1, <2>4
  <2>6. Matched(doc[e]) \in Int
    <3>1. doc[e].matched \in [Payables -> Int] BY <2>4 DEF Document
    <3> QED BY <3>1, ConstantsAssumption, SumType DEF Matched
  <2>7. Tally(F, doc') = Tally(F, doc) - F[doc[e]] + F[doc'[e]] BY <1>4, <2>1
  <2>8. ledger'["PAYABLE"] + StillOwed' = Tally(F, doc') BY <1>3, <2>2, <2>3, <2>5, <2>6, <2>7
  <2> QED BY <1>8, <2>8
<1>18. CASE Receive(r) \/ ReverseReceipt(r)
  <2>1. PICK x \in Requests : /\ OtherDocuments({x}) /\ F[doc[x]] = 0 /\ F[doc'[x]] = 0
                              /\ payable' = payable /\ ledger'["PAYABLE"] = L
    <3>1. CASE Receive(r)
      <4>1. /\ OtherDocuments({r}) /\ payable' = payable /\ op[r].account \in Accounts
            /\ Recorded(doc'[r], "receipt", p, op[r].account, None, op[r].amount, op[r].amount)
            /\ Post(ReceiptJournal(doc'[r]))
        BY <1>1, <3>1, ReceiveStep DEF p
      <4>2. doc'[r].kind = "receipt" /\ doc'[r].account \in Accounts BY <4>1 DEF Recorded
      <4>3. ledger'["PAYABLE"] = L BY <1>3, <1>7, <4>1, <4>2, OnControls
      <4>4. F[doc'[r]] = 0 BY <1>1, <1>5, <4>2
      <4> QED BY <1>6, <4>1, <4>3, <4>4
    <3>2. CASE ReverseReceipt(r)
      <4>1. /\ t \in Requests /\ OtherDocuments({t}) /\ payable' = payable /\ doc[t].account \in Accounts
            /\ doc[t].kind = "receipt" /\ SameTerms(doc'[t], doc[t])
            /\ PostReversal(ReceiptJournal(doc[t]))
        BY <1>1, <3>2, ReverseReceiptStep DEF t
      <4>2. doc'[t].kind = "receipt" /\ doc[t] \in Document /\ doc'[t] \in Document
        BY <1>1, <4>1 DEF SameTerms
      <4>3. ledger'["PAYABLE"] = L BY <1>3, <1>7, <4>1, OnControls
      <4>4. F[doc[t]] = 0 /\ F[doc'[t]] = 0 BY <1>5, <4>1, <4>2
      <4> QED BY <4>1, <4>3, <4>4
    <3> QED BY <1>18, <3>1, <3>2
  <2>2. Tally(F, doc') = Tally(F, doc) BY <1>3, <1>4, <2>1
  <2>3. StillOwed' = StillOwed BY <2>1 DEF StillOwed
  <2>4. ledger'["PAYABLE"] + StillOwed' = Tally(F, doc') BY <1>3, <2>1, <2>2, <2>3
  <2> QED BY <1>8, <2>4
<1> QED BY <1>10, <1>11, <1>12, <1>13, <1>14, <1>15, <1>16, <1>17, <1>18 DEF Commit

(* What customers owe back is what of their Pay Outs is not applied yet.   *)
LEMMA ReceivableBalanceCommit ==
  ASSUME Books, ReceivableBalance, NEW r \in Requests, Commit(r)
  PROVE  ReceivableBalance'
<1> DEFINE F == ToApply
           p == op[r].payable
           e == op[r].entry
           t == op[r].target
           L == ledger["RECEIVABLE"]
<1>1. /\ Known /\ TablesOK /\ TablesOK' /\ doc[r].kind = "none"
      /\ \A d \in Requests : doc[d] \in Document /\ doc'[d] \in Document
  BY CommonStep DEF Books, TablesOK
<1>2. F \in [Document -> Int] BY ToMatchTypes
<1>3. L = Tally(F, doc) /\ L \in Int
  <2>1. L \in Int BY <1>1, OnControls DEF TablesOK
  <2> QED BY <2>1 DEF ReceivableBalance
<1>4. ASSUME NEW x \in Requests
      PROVE  /\ OtherDocuments({x}) => Tally(F, doc') = Tally(F, doc) - F[doc[x]] + F[doc'[x]]
             /\ \A y \in Requests \ {x} : OtherDocuments({x, y}) =>
                  Tally(F, doc') = Tally(F, doc) - F[doc[x]] + F[doc'[x]] - F[doc[y]] + F[doc'[y]]
             /\ F[doc[x]] \in Int /\ F[doc'[x]] \in Int
  BY <1>1, <1>2, TallyStep
<1>5. ASSUME NEW d \in Document
      PROVE  /\ d.kind # "payout" => F[d] = 0
             /\ d.status # "COMPLETED" => F[d] = 0
             /\ d.status = "COMPLETED" /\ d.kind = "payout" => F[d] = d.toReceivable - d.applied
             /\ d.toReceivable \in Int /\ d.applied \in Int
  BY ToMatchTypes DEF Document
<1>6. F[doc[r]] = 0 BY <1>1, <1>5
<1>7. \A j : /\ Post(j) => ledger'["RECEIVABLE"] = L + j["RECEIVABLE"]
             /\ PostReversal(j) => ledger'["RECEIVABLE"] = L - j["RECEIVABLE"]
  <2>1. "RECEIVABLE" \in Ledgers BY OnControls
  <2> QED BY <1>1, <2>1, Posted
<1>8. ASSUME ledger'["RECEIVABLE"] = Tally(F, doc') PROVE ReceivableBalance'
  BY <1>8 DEF ReceivableBalance
<1>9. ASSUME \E x \in Requests : OtherDocuments({x}) /\ F[doc'[x]] = F[doc[x]],
             ledger'["RECEIVABLE"] = L
      PROVE  ReceivableBalance'
  <2>1. PICK x \in Requests : OtherDocuments({x}) /\ F[doc'[x]] = F[doc[x]] BY <1>9
  <2>2. Tally(F, doc') = Tally(F, doc) BY <1>3, <1>4, <2>1
  <2> QED BY <1>3, <1>8, <1>9, <2>2
<1> HIDE DEF F, L, p, e, t
<1>10. CASE Pay(r)
  <2>1. /\ OtherDocuments({r}) /\ doc'[r].kind = "payment" /\ doc'[r].account \in Accounts
        /\ Post(PaymentJournal(doc'[r]))
    BY <1>1, <1>10, PayStep DEF Recorded
  <2>2. ledger'["RECEIVABLE"] = L BY <1>3, <1>7, <2>1, OnControls
  <2>3. F[doc'[r]] = F[doc[r]] BY <1>1, <1>5, <1>6, <2>1
  <2> QED BY <1>9, <2>1, <2>2, <2>3
<1>11. CASE PayOut(r)
  <2> DEFINE d == doc'[r]
  <2>1. /\ Recorded(d, "payout", None, op[r].account, None, op[r].amount, op[r].amount)
        /\ op[r].account \in Accounts /\ OtherDocuments({r}) /\ Post(PayOutJournal(d))
    BY <1>1, <1>11, PayOutStep
  <2>2. /\ d \in Document /\ d.account \in Accounts /\ d.kind = "payout" /\ d.status = "COMPLETED"
        /\ d.applied = 0
    BY <1>1, <2>1 DEF Recorded
  <2>3. ledger'["RECEIVABLE"] = L + d.toReceivable BY <1>7, <2>1, <2>2, OnControls
  <2>4. F[d] = d.toReceivable /\ d.toReceivable \in Int BY <1>5, <2>2
  <2>5. Tally(F, doc') = Tally(F, doc) - F[doc[r]] + F[d] BY <1>4, <2>1
  <2> HIDE DEF d
  <2>6. ledger'["RECEIVABLE"] = Tally(F, doc') BY <1>3, <1>6, <2>3, <2>4, <2>5
  <2> QED BY <1>8, <2>6
<1>12. CASE Match(r) \/ Unmatch(r)
  <2>1. /\ e \in Requests /\ SameTerms(doc'[e], doc[e])
        /\ doc'[e].status = doc[e].status /\ doc'[e].applied = doc[e].applied
        /\ OtherDocuments({e}) /\ UNCHANGED ledger
    BY <1>1, <1>12, MatchStep, UnmatchStep DEF e
  <2>2. /\ doc[e] \in Document /\ doc'[e] \in Document
        /\ doc'[e].kind = doc[e].kind /\ doc'[e].toReceivable = doc[e].toReceivable
    BY <1>1, <2>1 DEF SameTerms
  <2>3. F[doc'[e]] = F[doc[e]] BY <1>5, <2>1, <2>2
  <2>4. ledger'["RECEIVABLE"] = L BY <2>1 DEF L
  <2> QED BY <1>9, <2>1, <2>3, <2>4
<1>13. CASE Apply(r)
  <2> DEFINE n == op[r].amount
  <2>1. /\ e \in Requests /\ e # r /\ doc[e].kind = "payout" /\ doc[e].status = "COMPLETED" /\ n \in Nat
        /\ Recorded(doc'[r], "offset", p, None, e, n, 0)
        /\ SameTerms(doc'[e], doc[e]) /\ doc'[e].status = doc[e].status
        /\ doc'[e].applied = doc[e].applied + n
        /\ OtherDocuments({r, e}) /\ Post(OffsetJournal(doc'[r]))
    BY <1>1, <1>13, ApplyStep DEF e, p
  <2>2. /\ doc'[r].kind = "offset" /\ doc'[r].amount = n
        /\ doc'[e].kind = "payout" /\ doc'[e].toReceivable = doc[e].toReceivable
        /\ doc[e] \in Document /\ doc'[e] \in Document
    BY <1>1, <2>1 DEF Recorded, SameTerms
  <2>3. ledger'["RECEIVABLE"] = L + (-n) BY <1>7, <2>1, <2>2, OnControls
  <2>4. F[doc'[r]] = 0 BY <1>1, <1>5, <2>2
  <2>5. F[doc'[e]] = F[doc[e]] - n
    <3>1. F[doc[e]] = doc[e].toReceivable - doc[e].applied BY <1>5, <2>1, <2>2
    <3>2. F[doc'[e]] = doc[e].toReceivable - (doc[e].applied + n) BY <1>5, <2>1, <2>2
    <3>3. doc[e].toReceivable \in Int /\ doc[e].applied \in Int BY <1>5, <2>2
    <3> HIDE DEF n
    <3> QED BY <2>1, <3>1, <3>2, <3>3
  <2> HIDE DEF n
  <2>6. Tally(F, doc') = Tally(F, doc) - F[doc[r]] + F[doc'[r]] - F[doc[e]] + F[doc'[e]]
    <3>1. e \in Requests \ {r} BY <2>1
    <3> QED BY <1>4, <2>1, <3>1
  <2>7. F[doc[e]] \in Int BY <1>4, <2>1
  <2>8. ledger'["RECEIVABLE"] = Tally(F, doc') BY <1>3, <1>6, <2>1, <2>3, <2>4, <2>5, <2>6, <2>7
  <2> QED BY <1>8, <2>8
<1>14. CASE Unapply(r)
  <2> DEFINE n == doc[t].amount
  <2>1. /\ e \in Requests /\ t \in Requests /\ e # t
        /\ doc[e].kind = "payout" /\ doc[e].status = "COMPLETED" /\ doc[t].kind = "offset" /\ n \in Int
        /\ SameTerms(doc'[t], doc[t]) /\ SameTerms(doc'[e], doc[e])
        /\ doc'[e].status = doc[e].status /\ doc'[e].applied = doc[e].applied - n
        /\ OtherDocuments({t, e}) /\ PostReversal(OffsetJournal(doc[t]))
    BY <1>1, <1>14, UnapplyStep DEF e, t
  <2>2. /\ doc'[t].kind = "offset" /\ doc[t] \in Document /\ doc'[t] \in Document
        /\ doc'[e].kind = "payout" /\ doc'[e].toReceivable = doc[e].toReceivable
        /\ doc[e] \in Document /\ doc'[e] \in Document
    BY <1>1, <2>1 DEF SameTerms
  <2>3. ledger'["RECEIVABLE"] = L - (-n) BY <1>7, <2>1, OnControls
  <2>4. F[doc'[t]] = 0 /\ F[doc[t]] = 0 BY <1>5, <2>1, <2>2
  <2>5. F[doc'[e]] = F[doc[e]] + n
    <3>1. F[doc[e]] = doc[e].toReceivable - doc[e].applied BY <1>5, <2>1, <2>2
    <3>2. F[doc'[e]] = doc[e].toReceivable - (doc[e].applied - n) BY <1>5, <2>1, <2>2
    <3>3. doc[e].toReceivable \in Int /\ doc[e].applied \in Int BY <1>5, <2>2
    <3> HIDE DEF n
    <3> QED BY <2>1, <3>1, <3>2, <3>3
  <2> HIDE DEF n
  <2>6. Tally(F, doc') = Tally(F, doc) - F[doc[t]] + F[doc'[t]] - F[doc[e]] + F[doc'[e]]
    <3>1. e \in Requests \ {t} BY <2>1
    <3> QED BY <1>4, <2>1, <3>1
  <2>7. F[doc[e]] \in Int BY <1>4, <2>1
  <2>8. ledger'["RECEIVABLE"] = Tally(F, doc') BY <1>3, <2>1, <2>3, <2>4, <2>5, <2>6, <2>7
  <2> QED BY <1>8, <2>8
<1>15. CASE Cancel(r) \/ ReverseSource(r)
  <2>1. doc' = doc /\ PostReversal(SourceJournal(p)) BY <1>1, <1>15, VoidStep DEF p
  <2>2. ledger'["RECEIVABLE"] = L BY <1>3, <1>7, <2>1, OnControls
  <2> QED BY <1>3, <1>8, <2>1, <2>2
<1>16. CASE ReversePayment(r)
  <2>1. /\ t \in Requests /\ doc[t].kind = "payment" /\ doc[t].account \in Accounts
        /\ SameTerms(doc'[t], doc[t]) /\ OtherDocuments({t}) /\ PostReversal(PaymentJournal(doc[t]))
    BY <1>1, <1>16, ReversePaymentStep DEF t
  <2>2. doc[t] \in Document /\ doc'[t] \in Document /\ doc'[t].kind = "payment"
    BY <1>1, <2>1 DEF SameTerms
  <2>3. F[doc'[t]] = F[doc[t]] BY <1>5, <2>1, <2>2
  <2>4. ledger'["RECEIVABLE"] = L BY <1>3, <1>7, <2>1, OnControls
  <2> QED BY <1>9, <2>1, <2>3, <2>4
<1>17. CASE ReverseEntry(r)
  <2>1. /\ e \in Requests /\ doc[e].kind = "payout" /\ doc[e].status = "COMPLETED" /\ doc[e].applied = 0
        /\ doc[e].account \in Accounts /\ doc'[e].status = "REVERSED" /\ OtherDocuments({e})
        /\ PostReversal(PayOutJournal(doc[e]))
    BY <1>1, <1>17, ReverseEntryStep DEF e
  <2>2. doc[e] \in Document /\ doc'[e] \in Document BY <1>1, <2>1
  <2>3. F[doc[e]] = doc[e].toReceivable /\ F[doc'[e]] = 0 /\ doc[e].toReceivable \in Int
    BY <1>5, <2>1, <2>2
  <2>4. ledger'["RECEIVABLE"] = L - doc[e].toReceivable BY <1>7, <2>1, OnControls
  <2>5. Tally(F, doc') = Tally(F, doc) - F[doc[e]] + F[doc'[e]] BY <1>4, <2>1
  <2>6. ledger'["RECEIVABLE"] = Tally(F, doc') BY <1>3, <2>3, <2>4, <2>5
  <2> QED BY <1>8, <2>6
<1>18. CASE Receive(r)
  <2>1. /\ OtherDocuments({r}) /\ op[r].account \in Accounts
        /\ Recorded(doc'[r], "receipt", p, op[r].account, None, op[r].amount, op[r].amount)
        /\ Post(ReceiptJournal(doc'[r]))
    BY <1>1, <1>18, ReceiveStep DEF p
  <2>2. doc'[r].kind = "receipt" /\ doc'[r].account \in Accounts BY <2>1 DEF Recorded
  <2>3. ledger'["RECEIVABLE"] = L BY <1>3, <1>7, <2>1, <2>2, OnControls
  <2>4. F[doc'[r]] = F[doc[r]] BY <1>1, <1>5, <1>6, <2>2
  <2> QED BY <1>9, <2>1, <2>3, <2>4
<1>19. CASE ReverseReceipt(r)
  <2>1. /\ t \in Requests /\ OtherDocuments({t}) /\ doc[t].account \in Accounts
        /\ doc[t].kind = "receipt" /\ SameTerms(doc'[t], doc[t])
        /\ PostReversal(ReceiptJournal(doc[t]))
    BY <1>1, <1>19, ReverseReceiptStep DEF t
  <2>2. doc[t] \in Document /\ doc'[t] \in Document /\ doc'[t].kind = "receipt"
    BY <1>1, <2>1 DEF SameTerms
  <2>3. ledger'["RECEIVABLE"] = L BY <1>3, <1>7, <2>1, OnControls
  <2>4. F[doc'[t]] = F[doc[t]] BY <1>5, <2>1, <2>2
  <2> QED BY <1>9, <2>1, <2>3, <2>4
<1> QED BY <1>10, <1>11, <1>12, <1>13, <1>14, <1>15, <1>16, <1>17, <1>18, <1>19 DEF Commit

(* What the provider still has to settle is what its account carries.      *)
LEMMA ClearingBalanceCommit ==
  ASSUME Books, ClearingBalance, NEW r \in Requests, Commit(r)
  PROVE  ClearingBalance'
<1> DEFINE p == op[r].payable
           e == op[r].entry
           t == op[r].target
           L == ledger["CLEARING"]
<1>1. Known /\ TablesOK /\ TablesOK' BY CommonStep DEF Books
<1>2. L = StillDue /\ L \in Int
  <2>1. L \in Int BY <1>1, OnControls DEF TablesOK
  <2> QED BY <2>1 DEF ClearingBalance
<1>3. \A j : /\ Post(j) => ledger'["CLEARING"] = L + j["CLEARING"]
             /\ PostReversal(j) => ledger'["CLEARING"] = L - j["CLEARING"]
  <2>1. "CLEARING" \in Ledgers BY OnControls
  <2> QED BY <1>1, <2>1, Posted
<1>4. ASSUME ledger'["CLEARING"] = L, settlement' = settlement PROVE ClearingBalance'
  <2>1. StillDue' = StillDue BY <1>4 DEF StillDue
  <2> QED BY <1>2, <1>4, <2>1 DEF ClearingBalance
<1>5. ASSUME NEW x \in Payables, \A q \in Payables \ {x} : settlement'[q] = settlement[q]
      PROVE  /\ StillDue' = StillDue - settlement[x].remaining + settlement'[x].remaining
             /\ settlement[x].remaining \in Int /\ settlement'[x].remaining \in Int
  BY <1>1, <1>5, StillChange
<1> HIDE DEF L, p, e, t
<1>6. CASE Pay(r)
  <2>1. /\ settlement' = settlement /\ doc'[r].account \in Accounts /\ Post(PaymentJournal(doc'[r]))
    BY <1>1, <1>6, PayStep DEF Recorded
  <2> QED BY <1>2, <1>3, <1>4, <2>1, OnControls
<1>7. CASE PayOut(r)
  <2>1. /\ settlement' = settlement /\ doc'[r].account \in Accounts /\ Post(PayOutJournal(doc'[r]))
    BY <1>1, <1>7, PayOutStep DEF Recorded
  <2> QED BY <1>2, <1>3, <1>4, <2>1, OnControls
<1>8. CASE Match(r) \/ Unmatch(r)
  <2>1. UNCHANGED <<settlement, ledger>> BY <1>1, <1>8, MatchStep, UnmatchStep
  <2> QED BY <1>4, <2>1 DEF L
<1>9. CASE Apply(r)
  <2>1. settlement' = settlement /\ Post(OffsetJournal(doc'[r])) BY <1>1, <1>9, ApplyStep
  <2> QED BY <1>2, <1>3, <1>4, <2>1, OnControls
<1>10. CASE Unapply(r)
  <2>1. settlement' = settlement /\ PostReversal(OffsetJournal(doc[t])) BY <1>1, <1>10, UnapplyStep DEF t
  <2> QED BY <1>2, <1>3, <1>4, <2>1, OnControls
<1>11. CASE Cancel(r) \/ ReverseSource(r)
  <2>1. /\ p \in Payables /\ settlement'[p].remaining = 0
        /\ \A q \in Payables \ {p} : settlement'[q] = settlement[q]
        /\ PostReversal(SourceJournal(p))
    BY <1>1, <1>11, VoidStep DEF p
  <2>2. settlement[p].remaining = Expected[p] BY <1>11, VoidedWhole DEF p
  <2>3. ledger'["CLEARING"] = L - Expected[p] BY <1>3, <2>1, OnControls
  <2>4. StillDue' = StillDue - Expected[p] BY <1>2, <1>5, <2>1, <2>2
  <2> QED BY <1>2, <2>3, <2>4 DEF ClearingBalance
<1>12. CASE ReversePayment(r)
  <2>1. settlement' = settlement /\ doc[t].account \in Accounts /\ PostReversal(PaymentJournal(doc[t]))
    BY <1>1, <1>12, ReversePaymentStep DEF t
  <2> QED BY <1>2, <1>3, <1>4, <2>1, OnControls
<1>13. CASE ReverseEntry(r)
  <2>1. settlement' = settlement /\ doc[e].account \in Accounts /\ PostReversal(PayOutJournal(doc[e]))
    BY <1>1, <1>13, ReverseEntryStep DEF e
  <2> QED BY <1>2, <1>3, <1>4, <2>1, OnControls
<1>14. CASE Receive(r)
  <2> DEFINE n == op[r].amount
  <2>1. /\ p \in Payables /\ op[r].account \in Accounts /\ n \in Nat
        /\ settlement'[p].remaining = settlement[p].remaining - n
        /\ \A q \in Payables \ {p} : settlement'[q] = settlement[q]
        /\ Recorded(doc'[r], "receipt", p, op[r].account, None, n, n)
        /\ Post(ReceiptJournal(doc'[r]))
    BY <1>1, <1>14, ReceiveStep DEF p
  <2>2. doc'[r].account \in Accounts /\ doc'[r].amount = n BY <2>1 DEF Recorded
  <2>3. ledger'["CLEARING"] = L + (-n) BY <1>3, <2>1, <2>2, OnControls
  <2> HIDE DEF n
  <2>4. StillDue' = StillDue - n BY <1>2, <1>5, <2>1
  <2> QED BY <1>2, <2>1, <2>3, <2>4 DEF ClearingBalance
<1>15. CASE ReverseReceipt(r)
  <2> DEFINE n == doc[t].amount
  <2>1. /\ p \in Payables /\ t \in Requests /\ doc[t].account \in Accounts /\ source[p] # "ABSENT"
        /\ doc[t].kind = "receipt" /\ doc[t].status = "COMPLETED" /\ doc[t].payable = p
        /\ settlement'[p].remaining =
             Larger(0, Expected[p] - Larger(0, settlement[p].received - n))
        /\ \A q \in Payables \ {p} : settlement'[q] = settlement[q]
        /\ PostReversal(ReceiptJournal(doc[t]))
    BY <1>1, <1>15, ReverseReceiptStep DEF p, t
  <2>2. /\ doc[t] \in Document /\ Agreed(p) /\ settlement[p] \in SettlementRow /\ Expected[p] \in Int
        /\ source[p] \in {"ABSENT", "COMPLETED", "REVERSED"}
    BY <1>1, <2>1, ConstantsAssumption DEF TablesOK, Books, AllAgreed
  <2>3. 0 < n /\ n <= settlement[p].received BY <2>1, Counted DEF Books
  <2>4. n \in Int /\ settlement[p].received \in Int /\ settlement[p].remaining \in Int
    BY <2>2 DEF Document, SettlementRow
  <2>5. ledger'["CLEARING"] = L - (-n) BY <1>3, <2>1, OnControls
  <2> HIDE DEF n
  <2>6. source[p] = "COMPLETED" BY <2>1, <2>2, <2>3, <2>4 DEF Agreed
  <2>7. /\ settlement[p].received + settlement[p].remaining = Expected[p] /\ settlement[p].remaining >= 0
    BY <2>2, <2>6 DEF Agreed
  <2>8. Larger(0, settlement[p].received - n) = settlement[p].received - n BY <2>3, <2>4 DEF Larger
  <2>9. Expected[p] - (settlement[p].received - n) = settlement[p].remaining + n BY <2>2, <2>4, <2>7
  <2>10. Larger(0, settlement[p].remaining + n) = settlement[p].remaining + n
    BY <2>3, <2>4, <2>7 DEF Larger
  <2>11. settlement'[p].remaining = settlement[p].remaining + n BY <2>1, <2>8, <2>9, <2>10
  <2>12. StillDue' = StillDue + n BY <1>2, <1>5, <2>1, <2>4, <2>11
  <2> QED BY <1>2, <2>4, <2>5, <2>12 DEF ClearingBalance
<1> QED BY <1>6, <1>7, <1>8, <1>9, <1>10, <1>11, <1>12, <1>13, <1>14, <1>15 DEF Commit

(* The three balances, and the invariants they need.                       *)
Balances == PayableBalance /\ ReceivableBalance /\ ClearingBalance

\* The control accounts agree with the rows after every step.
LEMMA BalancesNext ==
  ASSUME MatchesUndoneOneWay, Books, Balances, [Next]_vars
  PROVE  Balances'
<1>1. Known /\ TablesOK /\ TablesOK'
  <2>1. Shape /\ Shape' BY ShapeNext DEF Books, Known
  <2>2. TablesOK BY <2>1, ShapeTables
  <2>3. TablesOK' BY <2>1 DEF Shape, TypeOK, TablesOK
  <2> QED BY <2>2, <2>3 DEF Books
<1>2. CASE UNCHANGED tables
  BY <1>2 DEF tables, Balances, PayableBalance, ReceivableBalance, ClearingBalance, StillOwed, StillDue
<1>3. ASSUME NEW p \in Payables, RecordSwipe(p) PROVE Balances'
  <2>1. /\ source[p] = "ABSENT" /\ doc' = doc /\ Post(SourceJournal(p))
        /\ payable' = [payable EXCEPT ![p] = [NoPayableRow EXCEPT !.remaining = Original[p]]]
        /\ settlement' = [settlement EXCEPT ![p] = [NoSettlementRow EXCEPT !.remaining = Expected[p]]]
    BY <1>3 DEF RecordSwipe
  <2>2. payable[p].remaining = 0 /\ settlement[p].remaining = 0
    BY <2>1 DEF Books, Columns, AllBlank, Blank, NoPayableRow, NoSettlementRow
  <2>3. /\ payable'[p].remaining = Original[p] /\ settlement'[p].remaining = Expected[p]
        /\ OtherPayables({p}) /\ \A q \in Payables \ {p} : settlement'[q] = settlement[q]
    BY <1>1, <2>1 DEF TablesOK, NoPayableRow, NoSettlementRow, OtherPayables
  <2>4. /\ ledger'["PAYABLE"] = ledger["PAYABLE"] + (-Original[p])
        /\ ledger'["RECEIVABLE"] = ledger["RECEIVABLE"] + 0
        /\ ledger'["CLEARING"] = ledger["CLEARING"] + Expected[p]
        /\ ledger["PAYABLE"] \in Int /\ ledger["RECEIVABLE"] \in Int /\ ledger["CLEARING"] \in Int
    <3>1. "PAYABLE" \in Ledgers /\ "RECEIVABLE" \in Ledgers /\ "CLEARING" \in Ledgers BY OnControls
    <3>2. \A l \in Ledgers : ledger[l] \in Int /\ ledger'[l] = ledger[l] + SourceJournal(p)[l]
      BY <1>1, <2>1 DEF TablesOK, Post
    <3> QED BY <3>1, <3>2, OnControls
  <2>5. Original[p] \in Int /\ Expected[p] \in Int BY ConstantsAssumption
  <2>6. /\ StillOwed' = StillOwed - payable[p].remaining + payable'[p].remaining
        /\ StillDue' = StillDue - settlement[p].remaining + settlement'[p].remaining
        /\ StillOwed \in Int /\ StillDue \in Int
    BY <1>1, <2>3, StillChange
  <2>7. StillOwed' = StillOwed + Original[p] /\ StillDue' = StillDue + Expected[p]
    BY <2>2, <2>3, <2>5, <2>6
  <2>8. PayableBalance' BY <2>1, <2>4, <2>5, <2>6, <2>7 DEF Balances, PayableBalance
  <2>9. ReceivableBalance' BY <2>1, <2>4 DEF Balances, ReceivableBalance
  <2>10. ClearingBalance' BY <2>4, <2>7 DEF Balances, ClearingBalance
  <2> QED BY <2>8, <2>9, <2>10 DEF Balances
<1>4. ASSUME NEW r \in Requests, Commit(r) PROVE Balances'
  BY <1>4, PayableBalanceCommit, ReceivableBalanceCommit, ClearingBalanceCommit DEF Balances
<1> QED BY <1>1, <1>2, <1>3, <1>4, TableSteps

(* Nothing is open when the system starts.                                 *)
LEMMA BalancesInitially == Init => Balances
<1> SUFFICES ASSUME Init PROVE Balances OBVIOUS
<1>1. doc \in [Requests -> Document] BY ShapeInit DEF Shape, TypeOK
<1>2. Tally(ToMatch, doc) = 0 /\ Tally(ToApply, doc) = 0
  <2>1. \A x \in Requests : doc[x] \in Document /\ doc[x].kind # "payout"
    BY <1>1 DEF Init, NoDocument
  <2>2. \A x \in Requests : ToMatch[doc[x]] = 0 /\ ToApply[doc[x]] = 0 BY <2>1, ToMatchTypes
  <2> QED BY <1>1, <2>2, ToMatchTypes, TallyNone
<1>3. StillOwed = 0 /\ StillDue = 0
  <2> DEFINE f == [p \in Payables |-> payable[p].remaining]
             g == [p \in Payables |-> settlement[p].remaining]
  <2>1. /\ f \in [Payables -> Int] /\ g \in [Payables -> Int]
        /\ \A p \in Payables : f[p] = 0 /\ g[p] = 0
    BY DEF Init, NoPayableRow, NoSettlementRow
  <2> HIDE DEF f, g
  <2>2. SumFunction(f) = 0 /\ SumFunction(g) = 0 BY <2>1, ConstantsAssumption, SumZero
  <2> QED BY <2>2 DEF StillOwed, StillDue, f, g
<1>4. ledger["PAYABLE"] = 0 /\ ledger["RECEIVABLE"] = 0 /\ ledger["CLEARING"] = 0
  <2>1. /\ "PAYABLE" \in Ledgers \ Accounts /\ "RECEIVABLE" \in Ledgers \ Accounts
        /\ "CLEARING" \in Ledgers \ Accounts
    BY ConstantsAssumption DEF Ledgers, SystemLedgers
  <2> QED BY <2>1 DEF Init
<1> QED BY <1>2, <1>3, <1>4 DEF Balances, PayableBalance, ReceivableBalance, ClearingBalance

(* The control accounts carry what the rows say is open, whatever is       *)
(* settled, taken back and classified at the same time, where the unlocked *)
(* reads of reverse() and cancel() stand.                                  *)
THEOREM ControlAccountsInvariant ==
  ASSUME PaymentsReversedApart, SwipesVoidedApart, MatchesUndoneOneWay
  PROVE  Spec => []ControlAccounts
<1> DEFINE Inv == Books /\ Balances
<1>1. Init => Inv BY BooksInitially, BalancesInitially
<1>2. Inv /\ [Next]_vars => Inv' BY BooksNext, BalancesNext
<1>3. Inv => ControlAccounts
  <2> SUFFICES ASSUME Inv PROVE PayableControl /\ ReceivableControl /\ ClearingControl
    BY DEF ControlAccounts
  <2>1. TablesOK BY ShapeTables DEF Books, Known
  <2>2. \A x \in Requests :
          /\ ToMatch[doc[x]] = IF x \in Active("payout") THEN doc[x].toPayable - Matched(doc[x]) ELSE 0
          /\ ToApply[doc[x]] = IF x \in Active("payout") THEN doc[x].toReceivable - doc[x].applied ELSE 0
    <3>1. \A x \in Requests : doc[x] \in Document BY <2>1 DEF TablesOK
    <3> QED BY <3>1, ToMatchTypes DEF Active
  <2>3. /\ Tally(ToMatch, doc) =
             SumFunction([e \in Requests |-> IF e \in Active("payout")
                                             THEN doc[e].toPayable - Matched(doc[e]) ELSE 0])
        /\ Tally(ToApply, doc) =
             SumFunction([e \in Requests |-> IF e \in Active("payout")
                                             THEN doc[e].toReceivable - doc[e].applied ELSE 0])
    BY <2>2 DEF Tally
  <2>4. /\ ledger["PAYABLE"] \in Int /\ StillOwed \in Int /\ Tally(ToMatch, doc) \in Int
    <3>1. ledger["PAYABLE"] \in Int BY <2>1, OnControls DEF TablesOK
    <3>2. [p \in Payables |-> payable[p].remaining] \in [Payables -> Int] BY <2>1 DEF TablesOK, PayableRow
    <3>3. StillOwed \in Int BY <3>2, ConstantsAssumption, SumType DEF StillOwed
    <3> QED BY <3>1, <3>3 DEF Balances, PayableBalance
  <2>5. -ledger["PAYABLE"] = StillOwed - Tally(ToMatch, doc) BY <2>4 DEF Balances, PayableBalance
  <2>6. PayableControl BY <2>3, <2>5 DEF PayableControl, StillOwed
  <2>7. ReceivableControl BY <2>3 DEF Balances, ReceivableBalance, ReceivableControl
  <2>8. ClearingControl BY DEF Balances, ClearingBalance, ClearingControl, StillDue
  <2> QED BY <2>6, <2>7, <2>8
<1> HIDE DEF Inv
<1> QED BY <1>1, <1>2, <1>3, PTL DEF Spec

---------------------------------------------------------------------------
(* Why the transactions never wait for each other in a circle: every plan  *)
(* asks for its rows in one order of their kinds, so that whoever is       *)
(* waited for wants a row further up.                                      *)


(* cancel() updates the swipe's transaction after it has locked the        *)
(* payable, reverse() of the swipe locks the transaction before the        *)
(* payable: the one pair of operations whose orders disagree.              *)
SwipesEndApart ==
    {"cancel", "reverseSource"} \subseteq Workload => NeverTogether("cancel", "reverseSource")

(* The order of the locks.  The row of a swipe's transaction comes after   *)
(* its payable in cancel() and before it in reverse().                     *)
Level(row, swipeFirst) ==
    CASE row[1] = "document"           -> 1
      [] row[1] = "payable"            -> 2
      [] row[1] = "source"             -> IF swipeFirst THEN 1 ELSE 3
      [] row[1] \in {"account", "entry"} -> 3
      [] row[1] = "settlement"         -> 4

SwipeFirst == \A s \in Requests : op[s].kind # "cancel"

(* A step of a plan asks for rows above all the rows of earlier steps.     *)
LEMMA PlanRises ==
  ASSUME NEW o, NEW v, o.kind \in Kinds, NEW first \in BOOLEAN,
         o.kind = "cancel" => ~first, o.kind = "reverseSource" => first,
         NEW i \in 1..Len(Plan(o, v)), NEW j \in 1..Len(Plan(o, v)), i < j,
         NEW row \in Plan(o, v)[i].rows, NEW above \in Plan(o, v)[j].rows
  PROVE  Level(row, first) < Level(above, first)
<1> USE DEF Step, PayableLock, SettlementLock, SourceLock, DocumentLock, EntryLock, AccountLock
<1>1. CASE o.kind = "payout"
  <2>1. Plan(o, v) = PayOutPlan(o) BY <1>1 DEF Plan
  <2>2. CASE o.payable = None BY <2>1, <2>2 DEF PayOutPlan, Level
  <2>3. CASE o.payable # None BY <2>1, <2>3 DEF PayOutPlan, Level
  <2> QED BY <2>2, <2>3
<1>2. CASE o.kind \in {"match", "unmatch", "apply", "unapply"}
  <2>1. PICK looks : Plan(o, v) = AdvancePlan(o, looks)
    <3>1. CASE o.kind = "unapply" BY <3>1 DEF Plan
    <3>2. CASE o.kind \in {"match", "unmatch", "apply"} BY <3>2 DEF Plan
    <3> QED BY <1>2, <3>1, <3>2
  <2>2. /\ Plan(o, v)[1].rows = {DocumentLock(o.entry)} /\ Plan(o, v)[2].rows = {PayableLock(o.payable)}
        /\ Plan(o, v)[3].rows = {EntryLock(o.entry)} /\ Len(Plan(o, v)) = 3
    BY <2>1 DEF AdvancePlan
  <2> QED BY <2>2 DEF Level
<1>3. CASE o.kind = "pay"
  <2>1. /\ Plan(o, v)[1].rows = {PayableLock(o.payable)} /\ Plan(o, v)[2].rows = {}
        /\ Plan(o, v)[3].rows = {AccountLock(o.account)} /\ Len(Plan(o, v)) = 3
    BY <1>3 DEF Plan, PayPlan
  <2> QED BY <2>1 DEF Level
<1>4. CASE o.kind = "cancel"
  <2>1. /\ Plan(o, v)[1].rows = {PayableLock(o.payable)} /\ Plan(o, v)[2].rows = {SourceLock(o.payable)}
        /\ Plan(o, v)[3].rows = {SettlementLock(o.payable)} /\ Len(Plan(o, v)) = 3
    BY <1>4 DEF Plan, CancelPlan
  <2> QED BY <1>4, <2>1 DEF Level
<1>5. CASE o.kind = "reverseSource"
  <2>1. /\ Plan(o, v)[1].rows = {SourceLock(o.payable)} /\ Plan(o, v)[2].rows = {PayableLock(o.payable)}
        /\ Plan(o, v)[3].rows = {SettlementLock(o.payable)} /\ Len(Plan(o, v)) = 3
    BY <1>5 DEF Plan, ReverseSourcePlan
  <2> QED BY <1>5, <2>1 DEF Level
<1>6. CASE o.kind = "reversePayment"
  <2>1. /\ Plan(o, v)[1].rows = {DocumentLock(o.target)} /\ Plan(o, v)[2].rows = {}
        /\ Plan(o, v)[3].rows = {PayableLock(o.payable)} /\ Len(Plan(o, v)) = 3
    BY <1>6 DEF Plan, ReversePaymentPlan
  <2> QED BY <2>1 DEF Level
<1>7. CASE o.kind = "reverseEntry"
  <2>1. /\ Plan(o, v)[1].rows = {DocumentLock(o.entry)}
        /\ Plan(o, v)[2].rows = {PayableLock(p) : p \in MatchedPayables(v.entry)}
        /\ Len(Plan(o, v)) = 2
    BY <1>7 DEF Plan, ReverseEntryPlan
  <2> QED BY <2>1 DEF Level
<1>8. CASE o.kind = "receive" BY <1>8 DEF Plan, ReceivePlan
<1>9. CASE o.kind = "reverseReceipt"
  <2>1. /\ Plan(o, v)[1].rows = {DocumentLock(o.target)} /\ Plan(o, v)[2].rows = {AccountLock(o.account)}
        /\ Plan(o, v)[3].rows = {SettlementLock(o.payable)} /\ Len(Plan(o, v)) = 3
    BY <1>9 DEF Plan, ReverseReceiptPlan
  <2> QED BY <2>1 DEF Level
<1> QED BY <1>1, <1>2, <1>3, <1>4, <1>5, <1>6, <1>7, <1>8, <1>9 DEF Kinds

(* Every row has one of four levels.                                       *)
LEMMA Levels == ASSUME NEW row \in Rows, NEW first \in BOOLEAN PROVE Level(row, first) \in 1..4
BY DEF Rows, Level

(* A lock is held for a running transaction, and its plan has asked for it. *)
HeldByPlan ==
    \A row \in Rows, s \in Requests : holder[row] = s =>
        /\ Running(s)
        /\ \E i \in 1..Len(PlanOf(s)) : i < stage[s] /\ row \in PlanOf(s)[i].rows

(* A session that nothing happened to keeps what its plan accounts for.    *)
LEMMA HeldStays ==
  ASSUME HeldByPlan, NEW s \in Requests, NEW row \in Rows, holder[row] = s,
         op'[s] = op[s], view'[s] = view[s], stage'[s] = stage[s]
  PROVE  Running(s)' /\ \E i \in 1..Len(PlanOf(s)') : i < stage'[s] /\ row \in PlanOf(s)'[i].rows
<1>1. PlanOf(s)' = PlanOf(s) /\ Running(s)' = Running(s) BY DEF PlanOf, Running
<1> QED BY <1>1 DEF HeldByPlan

\* Every lock that is held is one its holder's plan has asked for, after every step.
LEMMA HeldByPlanNext == Shape /\ HeldByPlan /\ [Next]_vars => HeldByPlan'
<1> SUFFICES ASSUME Shape, HeldByPlan, [Next]_vars, NEW row \in Rows, NEW s \in Requests, holder'[row] = s
             PROVE  Running(s)' /\ \E i \in 1..Len(PlanOf(s)') : i < stage'[s] /\ row \in PlanOf(s)'[i].rows
  BY DEF HeldByPlan, Rows
<1>0. DOMAIN holder = Rows /\ s # Nobody BY RequestsAssumption DEF Shape, TypeOK, LocksTypeOK
<1>1. CASE (\E p \in Payables : RecordSwipe(p)) \/ UNCHANGED vars
  <2>1. UNCHANGED <<op, stage, view, holder>> BY <1>1 DEF RecordSwipe, vars
  <2> QED BY <2>1, HeldStays
<1>2. ASSUME NEW r \in Requests, Begin(r) PROVE Running(s)' /\ \E i \in 1..Len(PlanOf(s)') : i < stage'[s] /\ row \in PlanOf(s)'[i].rows
  <2>1. UNCHANGED <<view, holder>> /\ op[r] = Idle
        /\ \A t \in Requests \ {r} : op'[t] = op[t] /\ stage'[t] = stage[t]
    BY <1>2 DEF Begin, Shape, TypeOK
  <2>2. ~Running(r) BY <2>1 DEF Running, Idle, Call, Kinds
  <2>3. s # r BY <2>1, <2>2 DEF HeldByPlan
  <2> QED BY <2>1, <2>3, HeldStays
<1>3. ASSUME NEW r \in Requests, Advance(r) PROVE Running(s)' /\ \E i \in 1..Len(PlanOf(s)') : i < stage'[s] /\ row \in PlanOf(s)'[i].rows
  <2>1. Running(r) /\ ~AtEnd(r) BY <1>3 DEF Advance
  <2>2. /\ stage[r] \in 1..Len(PlanOf(r)) /\ stage'[r] = stage[r] + 1 /\ op' = op
        /\ \A t \in Requests \ {r} : stage'[t] = stage[t] /\ view'[t] = view[t]
        /\ Len(PlanOf(r)') = Len(PlanOf(r))
        /\ \A i \in 1..stage[r] : PlanOf(r)'[i] = PlanOf(r)[i]
    BY <1>3, AdvanceFacts
  <2>3. Wanted(r) = PlanOf(r)[stage[r]].rows BY <2>1 DEF Wanted
  <2>4. holder'[row] = IF row \in Wanted(r) THEN r ELSE holder[row] BY <1>0, <1>3 DEF Advance, Acquire
  <2>5. CASE s # r BY <2>2, <2>4, <2>5, HeldStays
  <2>6. CASE s = r
    <3>1. Running(r)' BY <2>1, <2>2 DEF Running
    <3>2. CASE row \in Wanted(r)
      <4>1. stage[r] \in 1..Len(PlanOf(r)') /\ stage[r] < stage'[r] /\ row \in PlanOf(r)'[stage[r]].rows
        BY <2>2, <2>3, <3>2
      <4> QED BY <2>6, <3>1, <4>1
    <3>3. CASE row \notin Wanted(r)
      <4>1. PICK i \in 1..Len(PlanOf(r)) : i < stage[r] /\ row \in PlanOf(r)[i].rows
        BY <2>4, <2>6, <3>3 DEF HeldByPlan
      <4>2. i \in 1..stage[r] /\ i < stage'[r] BY <2>2, <4>1
      <4>3. i \in 1..Len(PlanOf(r)') /\ row \in PlanOf(r)'[i].rows BY <2>2, <4>1, <4>2
      <4> QED BY <2>6, <3>1, <4>2, <4>3
    <3> QED BY <3>2, <3>3
  <2> QED BY <2>5, <2>6
<1>4. ASSUME NEW r \in Requests, NEW o \in {Idle, Done}, Finish(r, o)
      PROVE  Running(s)' /\ \E i \in 1..Len(PlanOf(s)') : i < stage'[s] /\ row \in PlanOf(s)'[i].rows
  <2>1. holder'[row] = IF holder[row] = r THEN Nobody ELSE holder[row] BY <1>0, <1>4 DEF Finish, ReleaseAll
  <2>2. s # r /\ holder[row] = s BY <1>0, <2>1
  <2>3. op'[s] = op[s] /\ view'[s] = view[s] /\ stage'[s] = stage[s] BY <1>4, <2>2, FinishTypes
  <2> QED BY <2>2, <2>3, HeldStays
<1>5. CASE \E r \in Requests : Reject(r) \/ Abort(r) BY <1>4, <1>5 DEF Reject, Abort
<1>6. CASE \E r \in Requests : Commit(r) BY <1>4, <1>6, CommitEnds
<1> QED BY <1>1, <1>2, <1>3, <1>5, <1>6 DEF Next

\* No lock is held at first.
LEMMA HeldByPlanInitially == Init => HeldByPlan
BY RequestsAssumption DEF Init, LocksInit, HeldByPlan

(* A set of levels has a greatest one.                                     *)
LEMMA HighestLevel ==
  ASSUME NEW H \in SUBSET (1..4), H # {}
  PROVE  \E n \in H : \A m \in H : m <= n
<1>1. CASE 4 \in H BY <1>1
<1>2. CASE 4 \notin H /\ 3 \in H BY <1>2
<1>3. CASE 4 \notin H /\ 3 \notin H /\ 2 \in H BY <1>3
<1>4. CASE 4 \notin H /\ 3 \notin H /\ 2 \notin H
  <2>1. \A m \in H : m = 1 BY <1>4
  <2>2. PICK h \in H : TRUE OBVIOUS
  <2>3. \A m \in H : m <= h BY <2>1
  <2> QED BY <2>2, <2>3
<1> QED BY <1>1, <1>2, <1>3, <1>4

(* cancel() and reverse() of a swipe do not run at the same time.          *)
EndedApart ==
    \A r, s \in Requests : Running(r) /\ Running(s) => {op[r].kind, op[s].kind} # {"cancel", "reverseSource"}

\* No swipe is cancelled while another call reverses one.
LEMMA SwipesEndedApart == ASSUME SwipesEndApart PROVE Shape /\ KeptApart => EndedApart
<1> SUFFICES ASSUME Shape, KeptApart, NEW r \in Requests, NEW s \in Requests, Running(r), Running(s),
                    {op[r].kind, op[s].kind} = {"cancel", "reverseSource"}
             PROVE  FALSE
  BY DEF EndedApart
<1>1. r # s /\ ~NeverTogether(op[r].kind, op[s].kind)
  <2>1. op[r].kind # op[s].kind OBVIOUS
  <2> QED BY <2>1 DEF KeptApart
<1>2. op[r].kind \in Workload /\ op[s].kind \in Workload BY DEF Shape, SessionsOK, SessionOK
<1>3. {"cancel", "reverseSource"} \subseteq Workload BY <1>2
<1>4. NeverTogether("cancel", "reverseSource") BY <1>3 DEF SwipesEndApart
<1> QED BY <1>1, <1>4 DEF NeverTogether

(* Among requests that wait for each other, the one whose wanted row is    *)
(* highest waits for a request that wants a higher one.                    *)
LEMMA NoneInACircle == Shape /\ HeldByPlan /\ EndedApart => NoWaitCycle
<1> SUFFICES ASSUME Shape, HeldByPlan, EndedApart, NEW group \in SUBSET Requests, group # {},
                    \A r \in group : \E s \in group : WaitsFor(r, Wanted(r), s)
             PROVE  FALSE
  BY DEF NoWaitCycle, WaitCycle
<1> DEFINE H == {n \in 1..4 : \E r \in group, s \in group : \E row \in Wanted(r) :
                                holder[row] = s /\ n = Level(row, SwipeFirst)}
<1>1. ASSUME NEW r \in group PROVE Running(r) /\ ~AtEnd(r) /\ Wanted(r) = PlanOf(r)[stage[r]].rows
  <2>1. Wanted(r) # {} BY <1>1 DEF WaitsFor
  <2> QED BY <2>1 DEF Wanted
<1>2. ASSUME NEW r \in group
      PROVE  stage[r] \in 1..Len(PlanOf(r)) /\ Wanted(r) \subseteq Rows /\ op[r].kind \in Kinds
  <2>1. Running(r) /\ ~AtEnd(r) BY <1>1
  <2>2. op[r] \in Operation /\ op[r].kind \in Kinds /\ view[r] \in View /\ CallOK(op[r]) BY <2>1, CallFacts
  <2>3. stage[r] \in 1..(Len(PlanOf(r)) + 1) BY <2>1 DEF Shape, SessionsOK, SessionOK
  <2>4. Len(PlanOf(r)) \in Nat BY <2>2, PlanLength DEF PlanOf
  <2>5. stage[r] \in 1..Len(PlanOf(r)) BY <2>1, <2>3, <2>4 DEF AtEnd
  <2>6. PlanOf(r)[stage[r]].rows \subseteq Rows BY <2>2, <2>5, PlanStepsOK DEF PlanOf, StepOK
  <2> QED BY <1>1, <2>2, <2>5, <2>6
<1>3. ASSUME NEW r \in group, NEW s \in group, NEW row \in Wanted(r), holder[row] = s
      PROVE  Level(row, SwipeFirst) \in H
  <2>1. Level(row, SwipeFirst) \in 1..4 BY <1>2, <1>3, Levels DEF SwipeFirst
  <2> QED BY <1>3, <2>1
<1>4. H # {}
  <2>1. PICK r \in group : TRUE OBVIOUS
  <2>2. PICK s \in group : WaitsFor(r, Wanted(r), s) OBVIOUS
  <2>3. PICK row \in Wanted(r) : holder[row] = s BY <2>2 DEF WaitsFor
  <2> QED BY <1>3, <2>3
<1>5. PICK n \in H : \A m \in H : m <= n
  <2>1. H \in SUBSET (1..4) OBVIOUS
  <2> HIDE DEF H
  <2> QED BY <1>4, <2>1, HighestLevel
<1>6. PICK r \in group, s \in group : \E row \in Wanted(r) : holder[row] = s /\ n = Level(row, SwipeFirst)
  OBVIOUS
<1>7. PICK row \in Wanted(r) : holder[row] = s /\ n = Level(row, SwipeFirst) BY <1>6
<1>8. PICK t \in group : WaitsFor(s, Wanted(s), t) OBVIOUS
<1>9. PICK above \in Wanted(s) : holder[above] = t BY <1>8 DEF WaitsFor
<1>10. Level(above, SwipeFirst) \in H BY <1>3, <1>9
<1>11. Level(row, SwipeFirst) < Level(above, SwipeFirst)
  <2>1. row \in Rows BY <1>2
  <2>2. PICK i \in 1..Len(PlanOf(s)) : i < stage[s] /\ row \in PlanOf(s)[i].rows
    BY <1>7, <2>1 DEF HeldByPlan
  <2>3. stage[s] \in 1..Len(PlanOf(s)) /\ above \in PlanOf(s)[stage[s]].rows BY <1>1, <1>2, <1>9
  <2>4. op[s].kind = "cancel" => ~SwipeFirst BY DEF SwipeFirst
  <2>5. op[s].kind = "reverseSource" => SwipeFirst
    <3>1. SUFFICES ASSUME op[s].kind = "reverseSource", NEW x \in Requests, op[x].kind = "cancel" PROVE FALSE
      BY DEF SwipeFirst
    <3>2. Running(x) /\ Running(s) BY <3>1 DEF Running, Kinds
    <3> QED BY <3>1, <3>2 DEF EndedApart
  <2>6. SwipeFirst \in BOOLEAN BY DEF SwipeFirst
  <2>7. op[s].kind \in Kinds BY <1>2
  <2> HIDE DEF H
  <2> QED BY <2>2, <2>3, <2>4, <2>5, <2>6, <2>7, PlanRises DEF PlanOf
<1>12. n \in 1..4 /\ Level(above, SwipeFirst) \in 1..4 BY <1>10
<1>13. Level(above, SwipeFirst) <= n BY <1>5, <1>10
<1> QED BY <1>7, <1>11, <1>12, <1>13

(* Whatever the requests, they never wait for each other in a circle, so   *)
(* that PostgreSQL has no transaction of these services to break off: the  *)
(* rows of a Pay Out, of its payables, of accounts and of settlements are  *)
(* asked for in one order.  Only the cancellation and the reversal of the  *)
(* same swipe, which ask for its two rows in opposite orders, have to be   *)
(* kept apart.                                                             *)
THEOREM NoWaitCycleInvariant == ASSUME SwipesEndApart PROVE Spec => []NoWaitCycle
<1> DEFINE Inv == Shape /\ KeptApart /\ HeldByPlan
<1>1. Init => Inv BY ShapeInit, ReadsStandInitially, HeldByPlanInitially
<1>2. Inv /\ [Next]_vars => Inv' BY ShapeNext, KeptApartNext, HeldByPlanNext
<1>3. Inv => NoWaitCycle BY SwipesEndedApart, NoneInACircle
<1> HIDE DEF Inv
<1> QED BY <1>1, <1>2, <1>3, PTL DEF Spec

=============================================================================
