----------------------- MODULE PayableReports_proofs -----------------------
(***************************************************************************)
(* Proofs that the reports on the payables add up, each in its own way, to *)
(* what the books say, for any number of swipes, Pay Outs and requests:    *)
(* the reconciliation has nothing to complain of, the customer's page      *)
(* shows the claim that Pay Outs are split by, the lists of payouts due    *)
(* are the same list, and what the screens advise can be done.  They rest  *)
(* on the invariants of PayableControl_proofs, under its assumptions.      *)
(***************************************************************************)
EXTENDS PayableReports, PayableControl_proofs

---------------------------------------------------------------------------
(* Sums.                                                                   *)

(* A sum of two.                                                           *)
LEMMA SumOfTwo ==
  ASSUME NEW f \in [1..2 -> Int]
  PROVE  SumFunction(f) = f[1] + f[2]
<1> DEFINE g == [x \in 1..2 |-> IF x = 1 THEN f[1] ELSE 0]
           h == [x \in 1..2 |-> IF x = 2 THEN f[2] ELSE 0]
<1>1. g \in [1..2 -> Int] /\ h \in [1..2 -> Int] /\ (\A x \in 1..2 : f[x] = g[x] + h[x])
      /\ g[1] = f[1] /\ h[2] = f[2] /\ (\A x \in 1..2 \ {1} : g[x] = 0) /\ (\A x \in 1..2 \ {2} : h[x] = 0)
  OBVIOUS
<1>2. IsFiniteSet(1..2) /\ 1 \in 1..2 /\ 2 \in 1..2
  <2>1. \A n \in Int : IsFiniteSet(1..n) BY FS_Interval
  <2>2. 2 \in Int OBVIOUS
  <2>3. IsFiniteSet(1..2) BY <2>1, <2>2, Zenon
  <2>4. 1 \in 1..2 /\ 2 \in 1..2 OBVIOUS
  <2> QED BY <2>3, <2>4, Zenon
<1> HIDE DEF g, h
<1>3. SumFunction(g) = g[1] /\ SumFunction(h) = h[2] BY <1>1, <1>2, SumOfOne
<1> QED BY <1>1, <1>2, <1>3, SumAdd

---------------------------------------------------------------------------
(* The claim of the customer.                                              *)

(* What the customer has had of his claim with a document.                 *)
Claiming ==
    [d \in Document |-> IF d.status = "COMPLETED" /\ d.kind \in {"payment", "payout"} THEN d.amount ELSE 0]

(* The swipes that count.                                                  *)
Claimed == SumFunction([p \in Payables |-> IF source[p] = "COMPLETED" THEN Original[p] ELSE 0])

(* A Pay Out counts for the money that left.                               *)
PayOutsWhole == \A r \in Requests : doc[r].kind = "payout" => doc[r].amount = doc[r].cash

(* The two control accounts together carry the claim.                      *)
ClaimBalance == ledger["PAYABLE"] + ledger["RECEIVABLE"] = Tally(Claiming, doc) - Claimed

\* What the customer has had with a document is an integer.
LEMMA ClaimingTypes ==
  /\ Claiming \in [Document -> Int]
  /\ \A d \in Document : /\ d.amount \in Int /\ d.toPayable \in Int /\ d.toReceivable \in Int /\ d.cash \in Int
                         /\ Claiming[d] = IF d.status = "COMPLETED" /\ d.kind \in {"payment", "payout"}
                                          THEN d.amount ELSE 0
<1>1. \A d \in Document : d.amount \in Int /\ d.toPayable \in Int /\ d.toReceivable \in Int /\ d.cash \in Int
  BY DEF Document
<1> QED BY <1>1 DEF Claiming

(* A Pay Out is recorded for what was paid out, and stays that way.        *)
LEMMA WholeNext == Known /\ PayOutsWhole /\ [Next]_vars => PayOutsWhole'
<1> SUFFICES ASSUME Known, PayOutsWhole, [Next]_vars, NEW x \in Requests, doc'[x].kind = "payout"
             PROVE  doc'[x].amount = doc'[x].cash
  BY DEF PayOutsWhole
<1>1. CASE doc'[x] = doc[x] BY <1>1 DEF PayOutsWhole
<1>2. ASSUME NEW r \in Requests, Commit(r), doc'[x] # doc[x]
      PROVE  doc'[x].amount = doc'[x].cash
  <2>1. CASE Pay(r)
    <3>1. doc'[r].kind = "payment" /\ OtherDocuments({r}) BY <2>1, PayStep DEF Recorded
    <3> QED BY <1>2, <3>1 DEF OtherDocuments
  <2>2. CASE PayOut(r)
    <3>1. doc'[r].amount = doc'[r].cash /\ OtherDocuments({r}) BY <2>2, PayOutStep DEF Recorded
    <3> QED BY <1>2, <3>1 DEF OtherDocuments
  <2>3. CASE Match(r) \/ Unmatch(r)
    <3>1. SameTerms(doc'[op[r].entry], doc[op[r].entry]) /\ OtherDocuments({op[r].entry})
      BY <2>3, MatchStep, UnmatchStep
    <3> QED BY <1>2, <3>1 DEF OtherDocuments, SameTerms, PayOutsWhole
  <2>4. CASE Apply(r)
    <3>1. /\ SameTerms(doc'[op[r].entry], doc[op[r].entry]) /\ OtherDocuments({r, op[r].entry})
          /\ doc'[r].kind = "offset"
      BY <2>4, ApplyStep DEF Recorded
    <3> QED BY <1>2, <3>1 DEF OtherDocuments, SameTerms, PayOutsWhole
  <2>5. CASE Unapply(r)
    <3>1. /\ SameTerms(doc'[op[r].entry], doc[op[r].entry]) /\ OtherDocuments({op[r].target, op[r].entry})
          /\ SameTerms(doc'[op[r].target], doc[op[r].target])
      BY <2>5, UnapplyStep
    <3> QED BY <1>2, <3>1 DEF OtherDocuments, SameTerms, PayOutsWhole
  <2>6. CASE Cancel(r) \/ ReverseSource(r) BY <1>2, <2>6, VoidStep
  <2>7. CASE ReversePayment(r) \/ ReverseReceipt(r)
    <3>1. SameTerms(doc'[op[r].target], doc[op[r].target]) /\ OtherDocuments({op[r].target})
      BY <2>7, ReversePaymentStep, ReverseReceiptStep
    <3> QED BY <1>2, <3>1 DEF OtherDocuments, SameTerms, PayOutsWhole
  <2>8. CASE ReverseEntry(r)
    <3>1. SameTerms(doc'[op[r].entry], doc[op[r].entry]) /\ OtherDocuments({op[r].entry})
      BY <2>8, ReverseEntryStep
    <3> QED BY <1>2, <3>1 DEF OtherDocuments, SameTerms, PayOutsWhole
  <2>9. CASE Receive(r)
    <3>1. doc'[r].kind = "receipt" /\ OtherDocuments({r}) BY <2>9, ReceiveStep DEF Recorded
    <3> QED BY <1>2, <3>1 DEF OtherDocuments
  <2> QED BY <1>2, <2>1, <2>2, <2>3, <2>4, <2>5, <2>6, <2>7, <2>8, <2>9 DEF Commit
<1>3. UNCHANGED tables \/ (\E p \in Payables : RecordSwipe(p)) => doc' = doc
  BY DEF tables, RecordSwipe
<1> QED BY <1>1, <1>2, <1>3, TableSteps

(* The swipes that count, as one of them changes.                          *)
LEMMA ClaimedChange ==
  ASSUME TablesOK, TablesOK', NEW p \in Payables, \A q \in Payables \ {p} : source'[q] = source[q]
  PROVE  /\ Claimed \in Int
         /\ Claimed' = Claimed - (IF source[p] = "COMPLETED" THEN Original[p] ELSE 0)
                               + (IF source'[p] = "COMPLETED" THEN Original[p] ELSE 0)
<1> DEFINE f == [q \in Payables |-> IF source[q] = "COMPLETED" THEN Original[q] ELSE 0]
           h == [q \in Payables |-> IF source'[q] = "COMPLETED" THEN Original[q] ELSE 0]
<1>1. /\ f \in [Payables -> Int] /\ h \in [Payables -> Int] /\ IsFiniteSet(Payables)
      /\ \A q \in Payables \ {p} : h[q] = f[q]
      /\ f[p] = (IF source[p] = "COMPLETED" THEN Original[p] ELSE 0)
      /\ h[p] = (IF source'[p] = "COMPLETED" THEN Original[p] ELSE 0)
  BY ConstantsAssumption
<1>2. Claimed = SumFunction(f) /\ Claimed' = SumFunction(h) BY DEF Claimed
<1> HIDE DEF f, h
<1>3. SumFunction(h) = SumFunction(f) - f[p] + h[p] /\ SumFunction(f) \in Int BY <1>1, SumChange, SumType
<1> QED BY <1>1, <1>2, <1>3

(* The control accounts carry the claim after every commit: what is posted *)
(* to them is what the claim loses or gains.                               *)
LEMMA ClaimCommit ==
  ASSUME Books, PayOutsWhole, ClaimBalance, NEW r \in Requests, Commit(r)
  PROVE  ClaimBalance'
<1> DEFINE F == Claiming
           p == op[r].payable
           e == op[r].entry
           t == op[r].target
           P == ledger["PAYABLE"]
           R == ledger["RECEIVABLE"]
<1>1. /\ Known /\ TablesOK /\ TablesOK' /\ doc[r].kind = "none"
      /\ \A d \in Requests : doc[d] \in Document /\ doc'[d] \in Document /\ DocumentSound(doc[d])
  BY CommonStep DEF Books, TablesOK, Known, DocumentsSound
<1>2. F \in [Document -> Int] BY ClaimingTypes
<1>3. P + R = Tally(F, doc) - Claimed /\ P \in Int /\ R \in Int /\ Tally(F, doc) \in Int /\ Claimed \in Int
  <2>1. P \in Int /\ R \in Int BY <1>1, OnControls DEF TablesOK
  <2>2. Tally(F, doc) \in Int BY <1>1, <1>2, TallyOne DEF TablesOK
  <2>3. [q \in Payables |-> IF source[q] = "COMPLETED" THEN Original[q] ELSE 0] \in [Payables -> Int]
    BY ConstantsAssumption
  <2>4. Claimed \in Int BY <2>3, ConstantsAssumption, SumType DEF Claimed
  <2> QED BY <2>1, <2>2, <2>4 DEF ClaimBalance
<1>4. ASSUME NEW x \in Requests
      PROVE  /\ OtherDocuments({x}) => Tally(F, doc') = Tally(F, doc) - F[doc[x]] + F[doc'[x]]
             /\ F[doc[x]] \in Int /\ F[doc'[x]] \in Int
  BY <1>1, <1>2, TallyStep
<1>5. ASSUME NEW d \in Document
      PROVE  /\ d.kind \notin {"payment", "payout"} => F[d] = 0
             /\ d.status # "COMPLETED" => F[d] = 0
             /\ d.status = "COMPLETED" /\ d.kind \in {"payment", "payout"} => F[d] = d.amount
             /\ d.amount \in Int /\ d.toPayable \in Int /\ d.toReceivable \in Int /\ d.cash \in Int
  BY ClaimingTypes
<1>6. F[doc[r]] = 0 BY <1>1, <1>5
<1>7. \A j : /\ Post(j) => ledger'["PAYABLE"] = P + j["PAYABLE"] /\ ledger'["RECEIVABLE"] = R + j["RECEIVABLE"]
             /\ PostReversal(j) => ledger'["PAYABLE"] = P - j["PAYABLE"] /\ ledger'["RECEIVABLE"] = R - j["RECEIVABLE"]
  <2>1. "PAYABLE" \in Ledgers /\ "RECEIVABLE" \in Ledgers BY OnControls
  <2> QED BY <1>1, <2>1, Posted
<1>8. ASSUME ledger'["PAYABLE"] + ledger'["RECEIVABLE"] = Tally(F, doc') - Claimed' PROVE ClaimBalance'
  BY <1>8 DEF ClaimBalance
<1>9. source' = source => Claimed' = Claimed BY DEF Claimed
<1>10. \A c, d \in Document : SameTerms(d, c) /\ d.status = c.status => F[d] = F[c] BY <1>5 DEF SameTerms
<1> HIDE DEF F, P, R, p, e, t
<1>11. CASE Pay(r)
  <2> DEFINE n == doc'[r].amount
  <2>1. /\ OtherDocuments({r}) /\ doc'[r].kind = "payment" /\ doc'[r].status = "COMPLETED"
        /\ doc'[r].account \in Accounts /\ Post(PaymentJournal(doc'[r])) /\ source' = source
    BY <1>1, <1>11, PayStep DEF Recorded
  <2>2. ledger'["PAYABLE"] = P + n /\ ledger'["RECEIVABLE"] = R + 0 BY <1>7, <2>1, OnControls
  <2>3. F[doc'[r]] = n /\ n \in Int BY <1>1, <1>5, <2>1
  <2>4. Tally(F, doc') = Tally(F, doc) - F[doc[r]] + F[doc'[r]] BY <1>4, <2>1
  <2> HIDE DEF n
  <2> QED BY <1>3, <1>6, <1>8, <1>9, <2>1, <2>2, <2>3, <2>4
<1>12. CASE PayOut(r)
  <2> DEFINE d == doc'[r]
  <2>1. /\ OtherDocuments({r}) /\ d.kind = "payout" /\ d.status = "COMPLETED"
        /\ d.account \in Accounts /\ Post(PayOutJournal(d)) /\ source' = source
        /\ d.amount = d.cash
    BY <1>1, <1>12, PayOutStep DEF Recorded
  <2>2. ledger'["PAYABLE"] = P + d.toPayable /\ ledger'["RECEIVABLE"] = R + d.toReceivable
    BY <1>7, <2>1, OnControls
  <2>3. d.toPayable + d.toReceivable = d.cash
    <3>1. DocumentSound(d) BY <1>1, SoundCommit DEF Known
    <3> QED BY <2>1, <3>1 DEF DocumentSound
  <2>4. F[d] = d.amount /\ d.amount \in Int /\ d.toPayable \in Int /\ d.toReceivable \in Int
    BY <1>1, <1>5, <2>1
  <2>5. Tally(F, doc') = Tally(F, doc) - F[doc[r]] + F[d] BY <1>4, <2>1
  <2> HIDE DEF d
  <2>6. ledger'["PAYABLE"] + ledger'["RECEIVABLE"] = P + R + d.amount BY <1>3, <2>1, <2>2, <2>3, <2>4
  <2> QED BY <1>3, <1>6, <1>8, <1>9, <2>1, <2>4, <2>5, <2>6
<1>13. CASE Match(r) \/ Unmatch(r)
  <2>1. /\ e \in Requests /\ SameTerms(doc'[e], doc[e]) /\ doc'[e].status = doc[e].status
        /\ OtherDocuments({e}) /\ UNCHANGED <<ledger, source>>
    BY <1>1, <1>13, MatchStep, UnmatchStep DEF e
  <2>2. F[doc'[e]] = F[doc[e]] BY <1>1, <1>10, <2>1
  <2>3. Tally(F, doc') = Tally(F, doc) BY <1>3, <1>4, <2>1, <2>2
  <2> QED BY <1>3, <1>8, <1>9, <2>1, <2>3 DEF P, R
<1>14. CASE Apply(r)
  <2> DEFINE n == op[r].amount
  <2>1. /\ e \in Requests /\ n \in Nat /\ SameTerms(doc'[e], doc[e]) /\ doc'[e].status = doc[e].status
        /\ OtherDocuments({r, e}) /\ source' = source /\ Post(OffsetJournal(doc'[r]))
        /\ doc'[r].kind = "offset" /\ doc'[r].amount = n
    BY <1>1, <1>14, ApplyStep DEF e, Recorded
  <2>2. ledger'["PAYABLE"] = P + n /\ ledger'["RECEIVABLE"] = R + (-n) BY <1>7, <2>1, OnControls
  <2>3. F[doc'[e]] = F[doc[e]] /\ F[doc'[r]] = F[doc[r]] BY <1>1, <1>5, <1>6, <1>10, <2>1
  <2>4. \A x \in Requests : F[doc'[x]] = F[doc[x]] BY <2>1, <2>3 DEF OtherDocuments
  <2>5. Tally(F, doc') = Tally(F, doc) BY <2>4, TallySame
  <2> HIDE DEF n
  <2> QED BY <1>3, <1>8, <1>9, <2>1, <2>2, <2>5
<1>15. CASE Unapply(r)
  <2> DEFINE n == doc[t].amount
  <2>1. /\ e \in Requests /\ t \in Requests /\ n \in Int /\ doc[t].kind = "offset"
        /\ SameTerms(doc'[e], doc[e]) /\ doc'[e].status = doc[e].status /\ SameTerms(doc'[t], doc[t])
        /\ OtherDocuments({t, e}) /\ source' = source /\ PostReversal(OffsetJournal(doc[t]))
    BY <1>1, <1>15, UnapplyStep DEF e, t
  <2>2. ledger'["PAYABLE"] = P - n /\ ledger'["RECEIVABLE"] = R - (-n) BY <1>7, <2>1, OnControls
  <2>3. doc'[t].kind = "offset" BY <2>1 DEF SameTerms
  <2>4. F[doc'[e]] = F[doc[e]] /\ F[doc'[t]] = F[doc[t]] BY <1>1, <1>5, <1>10, <2>1, <2>3
  <2>5. \A x \in Requests : F[doc'[x]] = F[doc[x]] BY <2>1, <2>4 DEF OtherDocuments
  <2>6. Tally(F, doc') = Tally(F, doc) BY <2>5, TallySame
  <2> HIDE DEF n
  <2> QED BY <1>3, <1>8, <1>9, <2>1, <2>2, <2>6
<1>16. CASE Cancel(r) \/ ReverseSource(r)
  <2>1. /\ p \in Payables /\ doc' = doc /\ PostReversal(SourceJournal(p))
        /\ source[p] = "COMPLETED" /\ source'[p] = "REVERSED"
        /\ \A q \in Payables \ {p} : source'[q] = source[q]
    BY <1>1, <1>16, VoidStep, VoidedWhole DEF p
  <2>2. ledger'["PAYABLE"] = P - (-Original[p]) /\ ledger'["RECEIVABLE"] = R - 0
    <3>1. SourceJournal(p)["PAYABLE"] = -Original[p] /\ SourceJournal(p)["RECEIVABLE"] = 0 BY OnControls
    <3> QED BY <1>7, <2>1, <3>1
  <2>3. Original[p] \in Int BY <2>1, ConstantsAssumption
  <2>4. Claimed' = Claimed - Original[p] + 0 BY <1>1, <2>1, ClaimedChange
  <2> QED BY <1>3, <1>8, <2>1, <2>2, <2>3, <2>4
<1>17. CASE ReversePayment(r)
  <2> DEFINE n == doc[t].amount
  <2>1. /\ t \in Requests /\ doc[t].kind = "payment" /\ doc[t].status = "COMPLETED"
        /\ doc[t].account \in Accounts /\ doc'[t].status = "REVERSED"
        /\ OtherDocuments({t}) /\ source' = source /\ PostReversal(PaymentJournal(doc[t]))
    BY <1>1, <1>17, ReversePaymentStep DEF t
  <2>2. ledger'["PAYABLE"] = P - n /\ ledger'["RECEIVABLE"] = R - 0 BY <1>7, <2>1, OnControls
  <2>3. F[doc[t]] = n /\ F[doc'[t]] = 0 /\ n \in Int BY <1>1, <1>5, <2>1
  <2>4. Tally(F, doc') = Tally(F, doc) - F[doc[t]] + F[doc'[t]] BY <1>4, <2>1
  <2> HIDE DEF n
  <2> QED BY <1>3, <1>8, <1>9, <2>1, <2>2, <2>3, <2>4
<1>18. CASE ReverseEntry(r)
  <2> DEFINE d == doc[e]
  <2>1. /\ e \in Requests /\ d.kind = "payout" /\ d.status = "COMPLETED" /\ d.account \in Accounts
        /\ doc'[e].status = "REVERSED" /\ OtherDocuments({e}) /\ source' = source
        /\ PostReversal(PayOutJournal(d))
    BY <1>1, <1>18, ReverseEntryStep DEF e
  <2>2. ledger'["PAYABLE"] = P - d.toPayable /\ ledger'["RECEIVABLE"] = R - d.toReceivable
    BY <1>7, <2>1, OnControls
  <2>3. d.toPayable + d.toReceivable = d.cash /\ d.amount = d.cash
    BY <1>1, <2>1 DEF DocumentSound, PayOutsWhole
  <2>4. F[d] = d.amount /\ F[doc'[e]] = 0
        /\ d.amount \in Int /\ d.toPayable \in Int /\ d.toReceivable \in Int
    BY <1>1, <1>5, <2>1
  <2>5. Tally(F, doc') = Tally(F, doc) - F[d] + F[doc'[e]] BY <1>4, <2>1
  <2> HIDE DEF d
  <2>6. ledger'["PAYABLE"] + ledger'["RECEIVABLE"] = P + R - d.amount BY <1>3, <2>2, <2>3, <2>4
  <2> QED BY <1>3, <1>8, <1>9, <2>1, <2>4, <2>5, <2>6
<1>19. CASE Receive(r)
  <2>1. /\ OtherDocuments({r}) /\ source' = source /\ Post(ReceiptJournal(doc'[r]))
        /\ doc'[r].kind = "receipt" /\ doc'[r].account \in Accounts
    BY <1>1, <1>19, ReceiveStep DEF Recorded
  <2>2. ledger'["PAYABLE"] = P + 0 /\ ledger'["RECEIVABLE"] = R + 0 BY <1>7, <2>1, OnControls
  <2>3. F[doc'[r]] = 0 BY <1>1, <1>5, <2>1
  <2>4. Tally(F, doc') = Tally(F, doc) BY <1>3, <1>4, <1>6, <2>1, <2>3
  <2> QED BY <1>3, <1>8, <1>9, <2>1, <2>2, <2>4
<1>20. CASE ReverseReceipt(r)
  <2>1. /\ t \in Requests /\ OtherDocuments({t}) /\ source' = source /\ doc[t].kind = "receipt"
        /\ doc[t].account \in Accounts /\ doc'[t].status = "REVERSED" /\ PostReversal(ReceiptJournal(doc[t]))
    BY <1>1, <1>20, ReverseReceiptStep DEF t
  <2>2. ledger'["PAYABLE"] = P - 0 /\ ledger'["RECEIVABLE"] = R - 0 BY <1>7, <2>1, OnControls
  <2>3. F[doc[t]] = 0 /\ F[doc'[t]] = 0 BY <1>1, <1>5, <2>1
  <2>4. Tally(F, doc') = Tally(F, doc) BY <1>3, <1>4, <2>1, <2>3
  <2> QED BY <1>3, <1>8, <1>9, <2>1, <2>2, <2>4
<1> QED BY <1>11, <1>12, <1>13, <1>14, <1>15, <1>16, <1>17, <1>18, <1>19, <1>20 DEF Commit

\* The control accounts carry the claim after every step.
LEMMA ClaimNext ==
  ASSUME Books, PayOutsWhole, ClaimBalance, [Next]_vars
  PROVE  ClaimBalance'
<1>1. TablesOK /\ TablesOK'
  <2>1. Shape /\ Shape' BY ShapeNext DEF Books, Known
  <2> QED BY <2>1, ShapeTables DEF Shape, TypeOK, TablesOK
<1>2. CASE UNCHANGED tables BY <1>2 DEF tables, ClaimBalance, Claimed
<1>3. ASSUME NEW p \in Payables, RecordSwipe(p) PROVE ClaimBalance'
  <2>1. /\ source[p] = "ABSENT" /\ source'[p] = "COMPLETED" /\ doc' = doc /\ Post(SourceJournal(p))
        /\ \A q \in Payables \ {p} : source'[q] = source[q]
    BY <1>1, <1>3 DEF RecordSwipe, TablesOK
  <2>2. /\ ledger'["PAYABLE"] = ledger["PAYABLE"] + (-Original[p])
        /\ ledger'["RECEIVABLE"] = ledger["RECEIVABLE"] + 0
        /\ ledger["PAYABLE"] \in Int /\ ledger["RECEIVABLE"] \in Int
    <3>1. SourceJournal(p)["PAYABLE"] = -Original[p] /\ SourceJournal(p)["RECEIVABLE"] = 0
          /\ "PAYABLE" \in Ledgers /\ "RECEIVABLE" \in Ledgers
      BY OnControls
    <3> QED BY <1>1, <2>1, <3>1, Posted
  <2>3. Claimed \in Int /\ Claimed' = Claimed - 0 + Original[p] BY <1>1, <2>1, ClaimedChange
  <2>4. Original[p] \in Int BY ConstantsAssumption
  <2>5. Tally(Claiming, doc) \in Int
    <3>1. [x \in Requests |-> Claiming[doc[x]]] \in [Requests -> Int] BY <1>1, ClaimingTypes DEF TablesOK
    <3> QED BY <3>1, ConstantsAssumption, SumType DEF Tally
  <2>6. ledger["PAYABLE"] + ledger["RECEIVABLE"] = Tally(Claiming, doc) - Claimed BY DEF ClaimBalance
  <2>7. Tally(Claiming, doc') = Tally(Claiming, doc) BY <2>1
  <2>8. ledger'["PAYABLE"] + ledger'["RECEIVABLE"] = Tally(Claiming, doc') - Claimed'
    BY <2>2, <2>3, <2>4, <2>5, <2>6, <2>7
  <2> QED BY <2>8 DEF ClaimBalance
<1>4. ASSUME NEW r \in Requests, Commit(r) PROVE ClaimBalance' BY <1>4, ClaimCommit
<1> QED BY <1>2, <1>3, <1>4, TableSteps

\* Nothing is claimed when the system starts.
LEMMA ClaimInitially == Init => PayOutsWhole /\ ClaimBalance
<1> SUFFICES ASSUME Init PROVE PayOutsWhole /\ ClaimBalance OBVIOUS
<1>1. doc \in [Requests -> Document] BY ShapeInit DEF Shape, TypeOK
<1>2. PayOutsWhole BY DEF Init, PayOutsWhole, NoDocument
<1>3. Tally(Claiming, doc) = 0
  <2>1. \A x \in Requests : doc[x] \in Document /\ doc[x].kind = "none" BY <1>1 DEF Init, NoDocument
  <2>2. \A x \in Requests : Claiming[doc[x]] = 0 BY <2>1, ClaimingTypes
  <2> QED BY <1>1, <2>2, ClaimingTypes, TallyNone
<1>4. Claimed = 0
  <2> DEFINE f == [p \in Payables |-> IF source[p] = "COMPLETED" THEN Original[p] ELSE 0]
  <2>1. f \in [Payables -> Int] /\ \A p \in Payables : f[p] = 0 BY DEF Init
  <2> HIDE DEF f
  <2>2. SumFunction(f) = 0 BY <2>1, ConstantsAssumption, SumZero
  <2> QED BY <2>2 DEF Claimed, f
<1>5. ledger["PAYABLE"] = 0 /\ ledger["RECEIVABLE"] = 0
  <2>1. "PAYABLE" \in Ledgers \ Accounts /\ "RECEIVABLE" \in Ledgers \ Accounts
    BY ConstantsAssumption DEF Ledgers, SystemLedgers
  <2> QED BY <2>1 DEF Init
<1> QED BY <1>2, <1>3, <1>4, <1>5 DEF ClaimBalance

(* All that the reports are drawn from.                                    *)
Sheet == Books /\ Balances /\ AllUsedOnce /\ PayOutsWhole /\ ClaimBalance /\ TrialBalance

\* What the reports rest on always holds.
LEMMA SheetInvariant ==
  ASSUME PaymentsReversedApart, SwipesVoidedApart, MatchesUndoneOneWay
  PROVE  Spec => []Sheet
<1>1. Init => Sheet
  BY BooksInitially, BalancesInitially, UsedOnceInitially, ClaimInitially, BalanceInitially DEF Sheet
<1>2. Sheet /\ [Next]_vars => Sheet'
  <2> SUFFICES ASSUME Sheet, [Next]_vars PROVE Sheet' OBVIOUS
  <2>1. Known BY DEF Sheet, Books
  <2>2. Books' /\ Balances' BY BooksNext, BalancesNext DEF Sheet
  <2>3. AllUsedOnce' /\ TrialBalance' BY <2>1, UsedOnceNext, BalanceNext DEF Sheet
  <2>4. PayOutsWhole' /\ ClaimBalance' BY <2>1, WholeNext, ClaimNext DEF Sheet
  <2> QED BY <2>2, <2>3, <2>4 DEF Sheet
<1> QED BY <1>1, <1>2, PTL DEF Spec

(* The claim, by what the customer has had of it: payouts count only on    *)
(* swipes that count.                                                      *)
LEMMA ClaimIs == ASSUME Books PROVE Claim = Claimed - Tally(Claiming, doc)
<1>1. Known /\ TablesOK /\ RowsOK /\ Columns /\ AllBlank /\ AllAgreed BY ShapeTables DEF Books, Known, Columns
<1>2. ASSUME NEW r \in Requests
      PROVE  Claiming[doc[r]] = IF r \in Active("payout") \/ (r \in Active("payment")
                                                            /\ source[doc[r].payable] = "COMPLETED")
                                THEN doc[r].amount ELSE 0
  <2>1. doc[r] \in Document BY <1>1 DEF TablesOK
  <2>2. ASSUME doc[r].kind = "payment", doc[r].status = "COMPLETED"
        PROVE  source[doc[r].payable] = "COMPLETED"
    <3> DEFINE p == doc[r].payable
    <3>1. p \in Payables BY <1>1, <2>2 DEF Known, Shape, DocumentsOK, DocumentOK
    <3>2. 0 < doc[r].amount /\ doc[r].amount <= payable[p].paid BY <1>1, <2>2, <3>1, Counted
    <3>3. payable[p].paid > 0
      <4>1. payable[p].paid \in Int /\ doc[r].amount \in Int
        BY <1>1, <2>1, <3>1 DEF TablesOK, PayableRow, Document
      <4> QED BY <3>2, <4>1
    <3>4. source[p] # "ABSENT" /\ payable[p].status \notin Void BY <1>1, <3>1, <3>3, PaidIsLive
    <3>5. source[p] # "REVERSED" BY <1>1, <3>1, <3>4 DEF AllAgreed, Agreed
    <3>6. source[p] \in {"ABSENT", "COMPLETED", "REVERSED"} BY <1>1, <3>1 DEF TablesOK
    <3> QED BY <3>4, <3>5, <3>6
  <2>3. r \in Active("payout") <=> doc[r].kind = "payout" /\ doc[r].status = "COMPLETED" BY DEF Active
  <2>4. r \in Active("payment") <=> doc[r].kind = "payment" /\ doc[r].status = "COMPLETED" BY DEF Active
  <2> QED BY <2>1, <2>2, <2>3, <2>4, ClaimingTypes
<1>3. Tally(Claiming, doc) =
        SumFunction([r \in Requests |->
          IF r \in Active("payout") \/ (r \in Active("payment") /\ source[doc[r].payable] = "COMPLETED")
          THEN doc[r].amount ELSE 0])
  BY <1>2 DEF Tally
<1> QED BY <1>3 DEF Claim, Claimed

---------------------------------------------------------------------------
(* The customer's page.                                                    *)

(* What was paid on a payable, by the payouts that count.                  *)
PaidOn(p) == Total({r \in Active("payment") : doc[r].payable = p}, LAMBDA r : doc[r].amount)

\* The payouts on a payable, as a sum over all documents.
LEMMA PaidOnIs ==
  ASSUME TablesOK, NEW p
  PROVE  /\ PaidOn(p) = SumFunction([r \in Requests |->
                          IF r \in Active("payment") /\ doc[r].payable = p THEN doc[r].amount ELSE 0])
         /\ PaidOn(p) \in Int
<1> DEFINE A == {r \in Active("payment") : doc[r].payable = p}
           f == [r \in A |-> doc[r].amount]
<1>1. A \in SUBSET Requests /\ IsFiniteSet(Requests) BY ConstantsAssumption DEF Active
<1>2. f \in [A -> Int] BY <1>1 DEF TablesOK, Document
<1>3. PaidOn(p) = SumFunction(f) BY DEF PaidOn, Total
<1>4. [x \in Requests |-> IF x \in A THEN f[x] ELSE 0] =
      [x \in Requests |-> IF x \in Active("payment") /\ doc[x].payable = p THEN doc[x].amount ELSE 0]
  OBVIOUS
<1> HIDE DEF A, f
<1>5. /\ SumFunction(f) = SumFunction([x \in Requests |-> IF x \in A THEN f[x] ELSE 0])
      /\ SumFunction(f) \in Int
  BY <1>1, <1>2, SumWhere
<1> QED BY <1>3, <1>4, <1>5

\* What a swipe moves on the customer's page, in either column.
LEMMA SwipeColumns ==
  ASSUME TablesOK, NEW p \in Payables
  PROVE  /\ SumFunction([i \in DOMAIN SwipeMovements(p) |-> SwipeMovements(p)[i]["credit"]]) = Original[p]
         /\ SumFunction([i \in DOMAIN SwipeMovements(p) |-> SwipeMovements(p)[i]["debit"]]) = PaidOn(p)
<1> DEFINE g(c) == [i \in DOMAIN SwipeMovements(p) |-> SwipeMovements(p)[i][c]]
<1>1. SwipeMovements(p) = << [debit |-> 0, credit |-> Original[p]], [debit |-> PaidOn(p), credit |-> 0] >>
  BY DEF SwipeMovements, Movement, PaidOn
<1>2. PaidOn(p) \in Int /\ Original[p] \in Int
  <2>1. PaidOn(p) \in Int BY PaidOnIs
  <2> QED BY <2>1, ConstantsAssumption
<1>3. /\ g("credit") \in [1..2 -> Int] /\ g("credit")[1] = Original[p] /\ g("credit")[2] = 0
      /\ g("debit") \in [1..2 -> Int] /\ g("debit")[1] = 0 /\ g("debit")[2] = PaidOn(p)
  BY <1>1, <1>2
<1> HIDE DEF g
<1>4. SumFunction(g("credit")) = Original[p] + 0 /\ SumFunction(g("debit")) = 0 + PaidOn(p)
  BY <1>3, SumOfTwo
<1> QED BY <1>2, <1>4 DEF g

(* The balance of the customer's page is the claim that Pay Outs are split *)
(* by: the one adds up swipe by swipe, the other document by document.     *)
LEMMA PageIsClaim == ASSUME Known PROVE CardLedgerBalance = Claim
<1> DEFINE counts(p, r) == p \in Swipes /\ r \in Active("payment") /\ doc[r].payable = p
           table == [p \in Payables |-> [r \in Requests |-> IF counts(p, r) THEN doc[r].amount ELSE 0]]
           had == [r \in Requests |-> IF r \in Active("payment") /\ source[doc[r].payable] = "COMPLETED"
                                      THEN doc[r].amount ELSE 0]
           sent == [r \in Requests |-> IF r \in Active("payout") THEN doc[r].amount ELSE 0]
           both == [r \in Requests |-> IF r \in Active("payout") \/ (r \in Active("payment")
                                                                    /\ source[doc[r].payable] = "COMPLETED")
                                       THEN doc[r].amount ELSE 0]
           owed == [p \in Payables |-> IF source[p] = "COMPLETED" THEN Original[p] ELSE 0]
<1>1. /\ TablesOK /\ IsFiniteSet(Requests) /\ IsFiniteSet(Payables)
      /\ \A r \in Requests : doc[r].amount \in Int /\ doc[r] \in Document
  BY ShapeTables, ConstantsAssumption DEF Known, TablesOK, Document
<1>2. Swipes \in SUBSET Payables /\ Active("payout") \in SUBSET Requests BY DEF Swipes, Active
<1>3. SumFunction([p \in Swipes |-> Original[p]]) = SumFunction(owed)
  <2> DEFINE f == [p \in Swipes |-> Original[p]]
  <2>1. f \in [Swipes -> Int] BY <1>2, ConstantsAssumption
  <2>2. owed = [p \in Payables |-> IF p \in Swipes THEN f[p] ELSE 0] BY DEF Swipes
  <2> HIDE DEF f, owed
  <2>3. SumFunction(f) = SumFunction([p \in Payables |-> IF p \in Swipes THEN f[p] ELSE 0])
    BY <1>1, <1>2, <2>1, SumWhere
  <2> QED BY <2>2, <2>3 DEF f
<1>4. SumFunction([e \in Active("payout") |-> doc[e].amount]) = SumFunction(sent)
  <2> DEFINE f == [e \in Active("payout") |-> doc[e].amount]
  <2>1. f \in [Active("payout") -> Int] BY <1>1, <1>2
  <2>2. sent = [e \in Requests |-> IF e \in Active("payout") THEN f[e] ELSE 0] OBVIOUS
  <2> HIDE DEF f, sent
  <2>3. SumFunction(f) = SumFunction([e \in Requests |-> IF e \in Active("payout") THEN f[e] ELSE 0])
    BY <1>1, <1>2, <2>1, SumWhere
  <2> QED BY <2>2, <2>3 DEF f
<1>5. SumFunction([e \in Active("payout") |-> 0]) = 0
  <2> DEFINE f == [e \in Active("payout") |-> 0]
  <2>1. f \in [Active("payout") -> Int] /\ \A e \in Active("payout") : f[e] = 0 OBVIOUS
  <2>2. IsFiniteSet(Active("payout")) BY <1>1, <1>2, FS_Subset
  <2> HIDE DEF f
  <2>3. SumFunction(f) = 0 BY <2>1, <2>2, SumZero
  <2> QED BY <2>3 DEF f
<1>6. SumFunction([p \in Swipes |-> PaidOn(p)]) = SumFunction(had)
  <2> DEFINE f == [p \in Swipes |-> PaidOn(p)]
             rows == [p \in Payables |-> SumFunction(table[p])]
             columns == [r \in Requests |-> SumFunction([p \in Payables |-> table[p][r]])]
  <2>1. table \in [Payables -> [Requests -> Int]] BY <1>1
  <2>2. SumFunction(rows) = SumFunction(columns)
    <3> HIDE DEF table
    <3> QED BY <1>1, <2>1, SumSwap
  <2>3. rows = [p \in Payables |-> IF p \in Swipes THEN f[p] ELSE 0]
    <3> SUFFICES ASSUME NEW p \in Payables
                 PROVE  SumFunction(table[p]) = IF p \in Swipes THEN PaidOn(p) ELSE 0
      OBVIOUS
    <3>1. CASE p \in Swipes
      <4>1. table[p] = [r \in Requests |->
                          IF r \in Active("payment") /\ doc[r].payable = p THEN doc[r].amount ELSE 0]
        BY <3>1
      <4>2. SumFunction(table[p]) = PaidOn(p) BY <1>1, <4>1, PaidOnIs
      <4> QED BY <3>1, <4>2
    <3>2. CASE p \notin Swipes
      <4>1. table[p] \in [Requests -> Int] /\ \A r \in Requests : table[p][r] = 0 BY <3>2
      <4> HIDE DEF table
      <4>2. SumFunction(table[p]) = 0 BY <1>1, <4>1, SumZero
      <4> QED BY <3>2, <4>2
    <3> QED BY <3>1, <3>2
  <2>4. columns = had
    <3> SUFFICES ASSUME NEW r \in Requests PROVE SumFunction([p \in Payables |-> table[p][r]]) = had[r]
      OBVIOUS
    <3> DEFINE k == [p \in Payables |-> table[p][r]]
    <3>1. k \in [Payables -> Int] BY <1>1
    <3>2. CASE r \in Active("payment")
      <4>1. doc[r].payable \in Payables BY <3>2 DEF Known, Shape, DocumentsOK, DocumentOK, Active
      <4>2. \A p \in Payables \ {doc[r].payable} : k[p] = 0 OBVIOUS
      <4>3. k[doc[r].payable] = had[r] BY <3>2, <4>1 DEF Swipes
      <4> HIDE DEF k, had
      <4>4. SumFunction(k) = k[doc[r].payable] BY <1>1, <3>1, <4>1, <4>2, SumOfOne
      <4> QED BY <4>3, <4>4 DEF k
    <3>3. CASE r \notin Active("payment")
      <4>1. (\A p \in Payables : k[p] = 0) /\ had[r] = 0 BY <3>3
      <4> HIDE DEF k, had
      <4>2. SumFunction(k) = 0 BY <1>1, <3>1, <4>1, SumZero
      <4> QED BY <4>1, <4>2 DEF k
    <3> QED BY <3>2, <3>3
  <2>5. f \in [Swipes -> Int] BY <1>1, PaidOnIs
  <2> HIDE DEF f, rows, columns, table, had
  <2>6. SumFunction(f) = SumFunction(rows) BY <1>1, <1>2, <2>3, <2>5, SumWhere
  <2> QED BY <2>2, <2>4, <2>6 DEF f
<1>7. SumFunction(both) = SumFunction(had) + SumFunction(sent) /\ SumFunction(had) \in Int /\ SumFunction(sent) \in Int
  <2>1. had \in [Requests -> Int] /\ sent \in [Requests -> Int] /\ both \in [Requests -> Int] BY <1>1
  <2>2. \A r \in Requests : both[r] = had[r] + sent[r] BY <1>1 DEF Active
  <2> HIDE DEF had, sent, both
  <2> QED BY <1>1, <2>1, <2>2, SumAdd, SumType
<1>8. SumFunction(owed) \in Int
  <2>1. owed \in [Payables -> Int] BY ConstantsAssumption
  <2> HIDE DEF owed
  <2> QED BY <1>1, <2>1, SumType
<1>9. Claim = SumFunction(owed) - SumFunction(both) BY DEF Claim
<1>10. CardLedgerBalance = SumFunction([p \in Swipes |-> Original[p]]) + SumFunction([e \in Active("payout") |-> 0])
                           - SumFunction([p \in Swipes |-> PaidOn(p)])
                           - SumFunction([e \in Active("payout") |-> doc[e].amount])
  <2> DEFINE column(p, c) == SumFunction([i \in DOMAIN SwipeMovements(p) |-> SwipeMovements(p)[i][c]])
  <2>1. CardLedgerBalance =
          SumFunction([p \in Swipes |-> column(p, "credit")])
          + SumFunction([e \in Active("payout") |-> PayOutMovement(e)["credit"]])
          - SumFunction([p \in Swipes |-> column(p, "debit")])
          - SumFunction([e \in Active("payout") |-> PayOutMovement(e)["debit"]])
    BY DEF CardLedgerBalance, Total
  <2>2. \A p \in Swipes : column(p, "credit") = Original[p] /\ column(p, "debit") = PaidOn(p)
    BY <1>1, <1>2, SwipeColumns
  <2>3. \A e : PayOutMovement(e)["credit"] = 0 /\ PayOutMovement(e)["debit"] = doc[e].amount
    BY DEF PayOutMovement, Movement
  <2> HIDE DEF column
  <2>4. /\ [p \in Swipes |-> column(p, "credit")] = [p \in Swipes |-> Original[p]]
        /\ [p \in Swipes |-> column(p, "debit")] = [p \in Swipes |-> PaidOn(p)]
    BY <2>2
  <2>5. /\ [e \in Active("payout") |-> PayOutMovement(e)["credit"]] = [e \in Active("payout") |-> 0]
        /\ [e \in Active("payout") |-> PayOutMovement(e)["debit"]] = [e \in Active("payout") |-> doc[e].amount]
    BY <2>3
  <2> QED BY <2>1, <2>4, <2>5
<1> HIDE DEF owed, had, sent, both
<1> QED BY <1>3, <1>4, <1>5, <1>6, <1>7, <1>8, <1>9, <1>10

(* A payable as the reports find it, by the state of its swipe.            *)
LEMMA RowsByState ==
  ASSUME Books, NEW p \in Payables
  PROVE  /\ payable[p] \in PayableRow /\ source[p] \in {"ABSENT", "COMPLETED", "REVERSED"}
         /\ Original[p] \in Nat \ {0}
         /\ payable[p].paid >= 0 /\ payable[p].offset >= 0 /\ payable[p].remaining >= 0
         /\ source[p] # "COMPLETED" => payable[p].remaining = 0
         /\ source[p] = "COMPLETED" =>
              /\ payable[p].status \notin Void /\ (payable[p].status = "PAID" <=> payable[p].remaining = 0)
              /\ payable[p].paid + payable[p].offset + payable[p].remaining = Original[p]
         /\ source[p] # "ABSENT" /\ payable[p].status \notin Void => source[p] = "COMPLETED"
<1>1. TablesOK /\ RowOK(p) /\ Agreed(p) /\ Blank(p)
  BY ShapeTables DEF Books, Known, RowsOK, AllAgreed, Columns, AllBlank
<1>2. payable[p] \in PayableRow /\ source[p] \in {"ABSENT", "COMPLETED", "REVERSED"} BY <1>1 DEF TablesOK
<1>3. Original[p] \in Nat \ {0} BY ConstantsAssumption
<1>4. CASE source[p] = "ABSENT" BY <1>1, <1>2, <1>3, <1>4 DEF Blank, NoPayableRow
<1>5. CASE source[p] = "COMPLETED" BY <1>1, <1>2, <1>3, <1>5 DEF RowOK, Agreed, PayableRow, Void
<1>6. CASE source[p] = "REVERSED" BY <1>1, <1>2, <1>3, <1>6 DEF RowOK, Agreed, PayableRow, Void
<1> QED BY <1>2, <1>4, <1>5, <1>6

(* The worklist, the dashboard, the register of swipes and the items of    *)
(* the customer's page name the same payables.                             *)
LEMMA SameLists ==
  ASSUME Books
  PROVE  /\ Outstanding = {p \in Payables : payable[p].remaining > 0}
         /\ OnDashboard = Outstanding /\ PendingPayouts = Outstanding /\ OpenPayOutItems = Outstanding
<1>1. ASSUME NEW p \in Payables
      PROVE  /\ payable[p].remaining \in Int /\ payable[p].status \in {"OPEN", "PAID", "CANCELLED", "REVERSED"}
             /\ payable[p].remaining > 0 =>
                  source[p] = "COMPLETED" /\ payable[p].status \notin Void \cup {"PAID"}
  BY RowsByState DEF PayableRow
<1>2. \A p \in Payables : payable[p].remaining > 0 =>
        source[p] = "COMPLETED" /\ source[p] # "REVERSED" /\ payable[p].status = "OPEN"
  BY <1>1 DEF Void
<1> QED BY <1>1, <1>2 DEF Outstanding, OnDashboard, PendingPayouts, OpenPayOutItems, Swipes

(* What is owed on some of the payables.                                   *)
OwedOn(A) == SumFunction([p \in A |-> payable[p].remaining])

\* The open payables are owed all that is owed.
LEMMA AllOwed == ASSUME Books PROVE OwedOn(Outstanding) = StillOwed
<1> DEFINE f == [p \in Outstanding |-> payable[p].remaining]
           h == [p \in Payables |-> payable[p].remaining]
<1>1. /\ IsFiniteSet(Payables) /\ Outstanding \in SUBSET Payables
      /\ h \in [Payables -> Int] /\ \A p \in Payables : h[p] >= 0
  BY ConstantsAssumption, RowsByState DEF Outstanding, PayableRow
<1>2. f \in [Outstanding -> Int] /\ (\A p \in Outstanding : h[p] = f[p]) BY <1>1
<1>3. \A p \in Payables \ Outstanding : h[p] = 0 BY <1>1, SameLists
<1> HIDE DEF f, h
<1>4. SumFunction(h) = SumFunction(f) BY <1>1, <1>2, <1>3, SumExtend
<1> QED BY <1>4 DEF OwedOn, StillOwed, f, h

(* What is left of a Pay Out that counts, in either part.                  *)
LEMMA LeftOfPayOuts ==
  ASSUME Sheet, NEW e \in Active("payout")
  PROVE  /\ e \in Requests /\ doc[e] \in Document
         /\ RemainingUnallocated(e) \in Nat /\ RemainingAdvance(e) \in Nat
         /\ ToMatch[doc[e]] = RemainingUnallocated(e) /\ ToApply[doc[e]] = RemainingAdvance(e)
<1>1. e \in Requests /\ doc[e].kind = "payout" /\ doc[e].status = "COMPLETED" BY DEF Active
<1>2. doc[e] \in Document BY <1>1, ShapeTables DEF Sheet, Books, Known, TablesOK
<1>3. Matched(doc[e]) <= doc[e].toPayable /\ doc[e].applied <= doc[e].toReceivable
  BY <1>1 DEF Sheet, AllUsedOnce, UsedOnce
<1>4. /\ ToMatch[doc[e]] = RemainingUnallocated(e) /\ ToApply[doc[e]] = RemainingAdvance(e)
      /\ ToMatch[doc[e]] \in Int /\ ToApply[doc[e]] \in Int
  BY <1>1, <1>2, ToMatchTypes DEF RemainingUnallocated, RemainingAdvance
<1>5. Matched(doc[e]) \in Int /\ doc[e].toPayable \in Int /\ doc[e].applied \in Int /\ doc[e].toReceivable \in Int
  <2>1. doc[e].matched \in [Payables -> Int] BY <1>2 DEF Document
  <2>2. Matched(doc[e]) \in Int BY <2>1, ConstantsAssumption, SumType DEF Matched
  <2> QED BY <1>2, <2>2 DEF Document
<1> QED BY <1>1, <1>2, <1>3, <1>4, <1>5 DEF RemainingUnallocated, RemainingAdvance

(* The Pay Outs on offer are what is still to match and to apply.          *)
LEMMA OffersTally ==
  ASSUME Sheet
  PROVE  /\ Total(AvailableUnallocated, RemainingUnallocated) = Tally(ToMatch, doc)
         /\ Total(AvailableAdvances, RemainingAdvance) = Tally(ToApply, doc)
<1> DEFINE m == [e \in AvailableUnallocated |-> RemainingUnallocated(e)]
           a == [e \in AvailableAdvances |-> RemainingAdvance(e)]
           M == [e \in Requests |-> ToMatch[doc[e]]]
           A == [e \in Requests |-> ToApply[doc[e]]]
<1>1. /\ IsFiniteSet(Requests)
      /\ AvailableUnallocated \in SUBSET Requests /\ AvailableAdvances \in SUBSET Requests
  BY ConstantsAssumption DEF AvailableUnallocated, AvailableAdvances, Active
<1>2. \A e \in Requests : doc[e] \in Document BY ShapeTables DEF Sheet, Books, Known, TablesOK
<1>3. M \in [Requests -> Int] /\ A \in [Requests -> Int] BY <1>2, ToMatchTypes
<1>4. \A e \in Active("payout") : /\ RemainingUnallocated(e) \in Nat /\ RemainingAdvance(e) \in Nat
                                  /\ M[e] = RemainingUnallocated(e) /\ A[e] = RemainingAdvance(e)
  BY LeftOfPayOuts
<1>5. \A e \in Requests \ Active("payout") : M[e] = 0 /\ A[e] = 0 BY <1>2, ToMatchTypes DEF Active
<1> HIDE DEF M, A
<1>6. /\ m \in [AvailableUnallocated -> Int] /\ a \in [AvailableAdvances -> Int]
      /\ \A e \in AvailableUnallocated : M[e] = m[e]
      /\ \A e \in AvailableAdvances : A[e] = a[e]
  BY <1>4 DEF AvailableUnallocated, AvailableAdvances
<1>7. /\ \A e \in Requests \ AvailableUnallocated : M[e] = 0
      /\ \A e \in Requests \ AvailableAdvances : A[e] = 0
  BY <1>4, <1>5 DEF AvailableUnallocated, AvailableAdvances
<1> HIDE DEF m, a
<1>8. SumFunction(M) = SumFunction(m) BY <1>1, <1>3, <1>6, <1>7, SumExtend
<1>9. SumFunction(A) = SumFunction(a) BY <1>1, <1>3, <1>6, <1>7, SumExtend
<1> QED BY <1>8, <1>9 DEF Tally, Total, m, a, M, A

(* The customer's page, the books and the open items agree.                *)
LEMMA PageAgrees == Sheet => CardLedgerAgrees
<1> SUFFICES ASSUME Sheet PROVE CardLedgerAgrees OBVIOUS
<1> DEFINE balance == CardLedgerBalance
           P == ledger["PAYABLE"]
           R == ledger["RECEIVABLE"]
           M == Tally(ToMatch, doc)
           A == Tally(ToApply, doc)
<1>1. Books /\ Known /\ TablesOK BY ShapeTables DEF Sheet, Books, Known
<1>2. balance = Claim BY <1>1, PageIsClaim
<1>3. P \in Int /\ R \in Int /\ StillOwed \in Int /\ Claimed \in Int /\ Tally(Claiming, doc) \in Int
  <2>1. P \in Int /\ R \in Int BY <1>1, OnControls DEF TablesOK
  <2>2. [x \in Requests |-> Claiming[doc[x]]] \in [Requests -> Int] BY <1>1, ClaimingTypes DEF TablesOK
  <2>3. [p \in Payables |-> payable[p].remaining] \in [Payables -> Int] BY <1>1 DEF TablesOK, PayableRow
  <2>4. [p \in Payables |-> IF source[p] = "COMPLETED" THEN Original[p] ELSE 0] \in [Payables -> Int]
    BY ConstantsAssumption
  <2> QED BY <2>1, <2>2, <2>3, <2>4, ConstantsAssumption, SumType DEF Tally, StillOwed, Claimed
<1>4. balance = -(P + R)
  <2>1. Claim = Claimed - Tally(Claiming, doc) BY <1>1, ClaimIs
  <2>2. P + R = Tally(Claiming, doc) - Claimed BY DEF Sheet, ClaimBalance
  <2> HIDE DEF P, R, balance
  <2> QED BY <1>2, <1>3, <2>1, <2>2
<1>5. P + StillOwed = M /\ R = A BY DEF Sheet, Balances, PayableBalance, ReceivableBalance
<1>6. balance = StillOwed - M - A
  <2> HIDE DEF P, R, balance, M, A
  <2> QED BY <1>3, <1>4, <1>5
<1>7. Total(OpenPayOutItems, Remaining) = StillOwed
  <2>1. Total(OpenPayOutItems, Remaining) = OwedOn(OpenPayOutItems) BY DEF Total, Remaining, OwedOn
  <2> QED BY <1>1, <2>1, SameLists, AllOwed
<1>8. /\ Total(AvailableUnallocated, RemainingUnallocated) = M
      /\ Total(AvailableAdvances, RemainingAdvance) = A
  BY OffersTally
<1>9. ASSUME Position(balance) = "SETTLED", AvailableAdvances = {}, AvailableUnallocated = {}
      PROVE  Outstanding = {}
  <2>1. balance = 0
    <3>1. balance \in Int
      <4> HIDE DEF P, R, balance
      <4> QED BY <1>3, <1>4
    <3> HIDE DEF balance
    <3> QED BY <1>9, <3>1 DEF Position
  <2>2. M = 0 /\ A = 0
    <3>1. /\ Total(AvailableUnallocated, RemainingUnallocated) = SumFunction([e \in {} |-> RemainingUnallocated(e)])
          /\ Total(AvailableAdvances, RemainingAdvance) = SumFunction([e \in {} |-> RemainingAdvance(e)])
      BY <1>9 DEF Total
    <3> DEFINE u == [e \in {} |-> RemainingUnallocated(e)]
               v == [e \in {} |-> RemainingAdvance(e)]
    <3>2. u \in [{} -> Int] /\ v \in [{} -> Int] /\ IsFiniteSet({}) BY FS_EmptySet
    <3> HIDE DEF u, v
    <3>3. SumFunction(u) = 0 /\ SumFunction(v) = 0 BY <3>2, SumZero
    <3> QED BY <1>8, <3>1, <3>3 DEF u, v
  <2>3. StillOwed = 0
    <3> HIDE DEF balance, M, A
    <3> QED BY <1>3, <1>6, <2>1, <2>2
  <2>4. ASSUME NEW p \in Outstanding PROVE FALSE
    <3> DEFINE f == [q \in Payables |-> payable[q].remaining]
    <3>1. f \in [Payables -> Nat] /\ p \in Payables /\ f[p] > 0
      BY <1>1, <2>4, RowsByState DEF PayableRow, Outstanding
    <3> HIDE DEF f
    <3>2. f[p] <= SumFunction(f) /\ SumFunction(f) \in Nat BY <3>1, ConstantsAssumption, SumBound, SumNat
    <3>3. SumFunction(f) = 0 BY <2>3 DEF StillOwed, f
    <3> QED BY <3>1, <3>2, <3>3
  <2> QED BY <2>4
<1> QED BY <1>2, <1>4, <1>6, <1>7, <1>8, <1>9 DEF CardLedgerAgrees

---------------------------------------------------------------------------
(* The reconciliation.                                                     *)

\* The documents of a kind that are about one payable, as a tally.
LEMMA SettledOn ==
  ASSUME TablesOK, NEW kind, NEW p
  PROVE  SumFunction([r \in {x \in Active(kind) : doc[x].payable = p} |-> doc[r].amount])
           = Tally(Settling(kind, p), doc)
<1> DEFINE S == {x \in Active(kind) : doc[x].payable = p}
           f == [r \in S |-> doc[r].amount]
<1>1. /\ S \in SUBSET Requests /\ IsFiniteSet(Requests) /\ doc \in [Requests -> Document]
      /\ Active(kind) = {q \in Requests : doc[q].kind = kind /\ doc[q].status = "COMPLETED"}
  BY ConstantsAssumption DEF Active, TablesOK
<1>2. f \in [S -> Int] BY <1>1 DEF Document
<1>3. [x \in Requests |-> IF x \in S THEN f[x] ELSE 0] =
      [x \in Requests |-> IF x \in Active(kind) /\ doc[x].payable = p THEN doc[x].amount ELSE 0]
  OBVIOUS
<1>4. SumFunction([x \in Requests |-> IF x \in Active(kind) /\ doc[x].payable = p THEN doc[x].amount ELSE 0])
        = Tally(Settling(kind, p), doc)
  BY <1>1, SettlementsTally
<1> HIDE DEF S, f
<1>5. SumFunction(f) = SumFunction([x \in Requests |-> IF x \in S THEN f[x] ELSE 0]) BY <1>1, <1>2, SumWhere
<1> QED BY <1>3, <1>4, <1>5 DEF S, f

\* What Pay Outs were matched to one payable, as a tally.
LEMMA MatchedTo ==
  ASSUME TablesOK, NEW p \in Payables
  PROVE  SumFunction([e \in Active("payout") |-> doc[e].matched[p]]) = Tally(Allocating(p), doc)
<1> DEFINE f == [e \in Active("payout") |-> doc[e].matched[p]]
<1>1. /\ Active("payout") \in SUBSET Requests /\ IsFiniteSet(Requests) /\ doc \in [Requests -> Document]
      /\ Active("payout") = {q \in Requests : doc[q].kind = "payout" /\ doc[q].status = "COMPLETED"}
  BY ConstantsAssumption DEF Active, TablesOK
<1>2. f \in [Active("payout") -> Int] BY <1>1 DEF Document
<1>3. [x \in Requests |-> IF x \in Active("payout") THEN f[x] ELSE 0] =
      [x \in Requests |-> IF x \in Active("payout") THEN doc[x].matched[p] ELSE 0]
  OBVIOUS
<1>4. SumFunction([x \in Requests |-> IF x \in Active("payout") THEN doc[x].matched[p] ELSE 0])
        = Tally(Allocating(p), doc)
  BY <1>1, AllocationsTally
<1> HIDE DEF f
<1>5. SumFunction(f) = SumFunction([x \in Requests |-> IF x \in Active("payout") THEN f[x] ELSE 0])
  BY <1>1, <1>2, SumWhere
<1> QED BY <1>3, <1>4, <1>5 DEF f

(* What was posted for a payable is what its row says.                     *)
LEMMA PostedIs ==
  ASSUME Books, NEW p \in Payables
  PROVE  PostedPaid(p) = payable[p].paid /\ PostedOffset(p) = payable[p].offset
<1>1. TablesOK /\ doc \in [Requests -> Document] BY ShapeTables DEF Books, Known, TablesOK
<1>2. payable[p].paid = Tally(Paying(p), doc) /\ payable[p].offset = Tally(Settling("offset", p), doc)
  BY DEF Books, Columns, AllPaid, AllOffset
<1>3. Tally(Paying(p), doc) = Tally(Settling("payment", p), doc) + Tally(Allocating(p), doc)
  BY <1>1, PayingTally
<1>4. PostedPaid(p) = SumFunction([r \in {x \in Active("payment") : doc[x].payable = p} |-> doc[r].amount])
                      + SumFunction([e \in Active("payout") |-> doc[e].matched[p]])
  BY DEF PostedPaid, Total
<1>5. PostedOffset(p) = SumFunction([r \in {x \in Active("offset") : doc[x].payable = p} |-> doc[r].amount])
  BY DEF PostedOffset, Total
<1>6. /\ PostedPaid(p) = Tally(Settling("payment", p), doc) + Tally(Allocating(p), doc)
      /\ PostedOffset(p) = Tally(Settling("offset", p), doc)
  BY <1>1, <1>4, <1>5, SettledOn, MatchedTo
<1> QED BY <1>2, <1>3, <1>6

\* What the reconciliation expects to be left is what is left.
LEMMA ExpectedIs ==
  ASSUME Books, NEW p \in Payables, source[p] = "COMPLETED"
  PROVE  ExpectedRemaining(p) = payable[p].remaining
<1>1. /\ payable[p] \in PayableRow /\ payable[p].remaining >= 0 /\ Original[p] \in Nat
      /\ payable[p].paid + payable[p].offset + payable[p].remaining = Original[p]
  BY RowsByState
<1>2. payable[p].paid \in Int /\ payable[p].offset \in Int /\ payable[p].remaining \in Int
  BY <1>1 DEF PayableRow
<1>3. Original[p] - PostedPaid(p) - PostedOffset(p) = payable[p].remaining BY <1>1, <1>2, PostedIs
<1> QED BY <1>1, <1>2, <1>3 DEF ExpectedRemaining, Larger

(* The reconciliation has nothing to complain of.                          *)
LEMMA Reconciled == Books => NothingToReconcile
<1> SUFFICES ASSUME Books, NEW p \in Inspected PROVE Reasons(p) = {} BY DEF NothingToReconcile
<1>1. p \in Payables /\ source[p] # "ABSENT" /\ payable[p].status \notin Void BY DEF Inspected
<1>2. source[p] = "COMPLETED" BY <1>1, RowsByState
<1>3. /\ payable[p].paid = PostedPaid(p) /\ payable[p].offset = PostedOffset(p)
      /\ payable[p].remaining = ExpectedRemaining(p)
  BY <1>1, <1>2, PostedIs, ExpectedIs
<1>4. (payable[p].status = "PAID" <=> payable[p].remaining = 0) /\ payable[p].remaining \in Int
      /\ payable[p].remaining >= 0
  BY <1>1, <1>2, RowsByState DEF PayableRow
<1>5. ASSUME NEW reason \in Reasons(p) PROVE FALSE
  <2>1. /\ reason \in {"paid", "offset", "remaining", "unpaid", "outstanding", "inactive"}
        /\ CASE reason = "paid"        -> payable[p].paid # PostedPaid(p)
             [] reason = "offset"      -> payable[p].offset # PostedOffset(p)
             [] reason = "remaining"   -> payable[p].remaining # ExpectedRemaining(p)
             [] reason = "unpaid"      -> ExpectedRemaining(p) = 0 /\ payable[p].status # "PAID"
             [] reason = "outstanding" -> ExpectedRemaining(p) > 0 /\ payable[p].status = "PAID"
             [] reason = "inactive"    -> source[p] = "REVERSED"
    BY <1>5 DEF Reasons
  <2>2. reason # "paid" /\ reason # "offset" /\ reason # "remaining" BY <1>3, <2>1
  <2>3. reason # "unpaid" BY <1>3, <1>4, <2>1
  <2>4. reason # "outstanding"
    <3>1. reason = "outstanding" => ExpectedRemaining(p) > 0 /\ payable[p].status = "PAID" BY <2>1
    <3> QED BY <1>3, <1>4, <3>1
  <2>5. reason # "inactive" BY <1>2, <2>1
  <2> QED BY <2>1, <2>2, <2>3, <2>4, <2>5
<1> QED BY <1>5

(* Journals balance, the reconciliation is clean and the customer's page   *)
(* shows the claim, whatever was paid, matched, applied and taken back and *)
(* in whatever order.                                                      *)
THEOREM BooksAgreeInvariant ==
  ASSUME PaymentsReversedApart, SwipesVoidedApart, MatchesUndoneOneWay
  PROVE  Spec => []BooksAgree
<1>1. Spec => []Sheet BY SheetInvariant
<1>2. Sheet => BooksAgree BY PageAgrees, Reconciled DEF Sheet, BooksAgree
<1> QED BY <1>1, <1>2, PTL

---------------------------------------------------------------------------
(* What is due.                                                            *)

\* What is owed on some payables is an integer.
LEMMA OwedTypes ==
  ASSUME Books, NEW A \in SUBSET Payables
  PROVE  IsFiniteSet(A) /\ [p \in A |-> payable[p].remaining] \in [A -> Int] /\ OwedOn(A) \in Int
<1> DEFINE f == [p \in A |-> payable[p].remaining]
<1>1. IsFiniteSet(A) BY ConstantsAssumption, FS_Subset
<1>2. f \in [A -> Int] BY RowsByState DEF PayableRow
<1>3. OwedOn(A) \in Int
  <2> HIDE DEF f
  <2>1. SumFunction(f) \in Int BY <1>1, <1>2, SumType
  <2> QED BY <2>1 DEF OwedOn, f
<1> QED BY <1>1, <1>2, <1>3

\* What is owed adds up over two parts.
LEMMA OwedParts ==
  ASSUME Books, NEW A \in SUBSET Payables, NEW B \in SUBSET A, NEW C \in SUBSET A,
         B \cup C = A, B \cap C = {}
  PROVE  OwedOn(A) = OwedOn(B) + OwedOn(C)
<1> DEFINE f == [p \in A |-> payable[p].remaining]
           b == [p \in B |-> payable[p].remaining]
           c == [p \in C |-> payable[p].remaining]
           g == [p \in A |-> IF p \in B THEN b[p] ELSE 0]
           h == [p \in A |-> IF p \in C THEN c[p] ELSE 0]
<1>1. IsFiniteSet(A) /\ f \in [A -> Int] BY OwedTypes
<1>2. b \in [B -> Int] /\ c \in [C -> Int] BY <1>1
<1>3. g \in [A -> Int] /\ h \in [A -> Int] /\ \A p \in A : f[p] = g[p] + h[p] BY <1>1
<1>4. SumFunction(b) = SumFunction(g)
  <2> HIDE DEF b
  <2> QED BY <1>1, <1>2, SumWhere
<1>5. SumFunction(c) = SumFunction(h)
  <2> HIDE DEF c
  <2> QED BY <1>1, <1>2, SumWhere
<1> HIDE DEF f, b, c, g, h
<1>6. SumFunction(f) = SumFunction(g) + SumFunction(h) BY <1>1, <1>3, SumAdd
<1> QED BY <1>4, <1>5, <1>6 DEF OwedOn, f, b, c

(* The open payables that are due on one day, and what was promised, paid  *)
(* and set off on them.                                                    *)
DueAt(n) == {p \in Outstanding : DueOn[p] = n}
NetAt(n) == SumFunction([p \in DueAt(n) |-> Original[p]])
PaidAt(n) == SumFunction([p \in DueAt(n) |-> payable[p].paid])
OffsetAt(n) == SumFunction([p \in DueAt(n) |-> payable[p].offset])

\* The totals of the list of payouts due.
LEMMA TotalsAre ==
  ASSUME NEW day
  PROVE  /\ DueTotals(day).outstanding = OwedOn(Outstanding)
         /\ DueTotals(day).overdue = OwedOn({p \in Outstanding : DueOn[p] < day})
         /\ DueTotals(day).today = OwedOn({p \in Outstanding : DueOn[p] = day})
         /\ DueTotals(day).upcoming = OwedOn({p \in Outstanding : DueOn[p] > day})
<1> DEFINE rows == DueRows(day)
           sum(S) == SumFunction([p \in S |-> rows[p].remaining])
<1>1. \A p \in Outstanding : rows[p].remaining = payable[p].remaining /\ rows[p].date = DueOn[p]
  BY DEF DueRows, DueRow
<1>2. ASSUME NEW S \in SUBSET Outstanding PROVE sum(S) = OwedOn(S)
  <2>1. [p \in S |-> rows[p].remaining] = [p \in S |-> payable[p].remaining] BY <1>1
  <2> QED BY <2>1 DEF OwedOn
<1>3. /\ DueTotals(day).outstanding = sum(Outstanding)
      /\ DueTotals(day).overdue = sum({p \in Outstanding : rows[p].date < day})
      /\ DueTotals(day).today = sum({p \in Outstanding : rows[p].date = day})
      /\ DueTotals(day).upcoming = sum({p \in Outstanding : rows[p].date > day})
  BY DEF DueTotals, Total
<1> HIDE DEF rows, sum
<1>4. /\ {p \in Outstanding : rows[p].date < day} = {p \in Outstanding : DueOn[p] < day}
      /\ {p \in Outstanding : rows[p].date = day} = {p \in Outstanding : DueOn[p] = day}
      /\ {p \in Outstanding : rows[p].date > day} = {p \in Outstanding : DueOn[p] > day}
  BY <1>1
<1> QED BY <1>2, <1>3, <1>4

\* The buckets of the dashboard.
LEMMA BucketsAre ==
  ASSUME Books, NEW day \in Nat
  PROVE  /\ Insights(day).overdue = OwedOn({p \in Outstanding : DueOn[p] < day})
         /\ Insights(day).today = OwedOn({p \in Outstanding : DueOn[p] = day})
         /\ Insights(day).next7 = OwedOn({p \in Outstanding : DueOn[p] > day /\ DueOn[p] <= day + 7})
         /\ Insights(day).later = OwedOn({p \in Outstanding : DueOn[p] > day + 7})
<1> DEFINE in(S) == {p \in OnDashboard : DueOn[p] \in S}
<1>1. /\ OnDashboard = Outstanding /\ Outstanding \in SUBSET Payables
      /\ \A p \in Payables : DueOn[p] \in Nat
  BY SameLists, DueOnAssumption DEF Outstanding
<1>2. /\ Insights(day).overdue = OwedOn(in(0..day - 1)) /\ Insights(day).today = OwedOn(in({day}))
      /\ Insights(day).next7 = OwedOn(in(day + 1..day + 7))
      /\ Insights(day).later = OwedOn(in({n \in {DueOn[p] : p \in Payables} : n > day + 7}))
  BY DEF Insights, Total, Remaining, OwedOn
<1>3. in(0..day - 1) = {p \in Outstanding : DueOn[p] < day} BY <1>1
<1>4. in({day}) = {p \in Outstanding : DueOn[p] = day} BY <1>1
<1>5. in(day + 1..day + 7) = {p \in Outstanding : DueOn[p] > day /\ DueOn[p] <= day + 7} BY <1>1
<1>6. in({n \in {DueOn[p] : p \in Payables} : n > day + 7}) = {p \in Outstanding : DueOn[p] > day + 7} BY <1>1
<1> QED BY <1>2, <1>3, <1>4, <1>5, <1>6

\* What is owed, day by day of the due dates, is what is owed.
LEMMA OwedByDate ==
  ASSUME Books
  PROVE  SumFunction([n \in {DueOn[p] : p \in Outstanding} |-> OwedOn(DueAt(n))]) = OwedOn(Outstanding)
<1> DEFINE D == {DueOn[p] : p \in Outstanding}
           T == Outstanding
           f == [p \in T |-> payable[p].remaining]
           table == [n \in D |-> [p \in T |-> IF DueOn[p] = n THEN payable[p].remaining ELSE 0]]
<1>1. T \in SUBSET Payables BY DEF Outstanding
<1>2. IsFiniteSet(T) /\ f \in [T -> Int] BY <1>1, OwedTypes
<1>3. IsFiniteSet(D)
  <2> DEFINE due == [p \in T |-> DueOn[p]]
  <2>1. due \in Surjection(T, D) BY DEF Surjection
  <2> HIDE DEF T, D, due
  <2> QED BY <1>2, <2>1, FS_Surjection
<1>4. table \in [D -> [T -> Int]] BY <1>2
<1>5. ASSUME NEW n \in D PROVE SumFunction(table[n]) = OwedOn(DueAt(n))
  <2> DEFINE A == DueAt(n)
             g == [p \in A |-> payable[p].remaining]
  <2>1. A \in SUBSET T BY DEF DueAt
  <2>2. g \in [A -> Int] BY <1>2, <2>1
  <2>3. table[n] = [p \in T |-> IF p \in A THEN g[p] ELSE 0] BY DEF DueAt
  <2> HIDE DEF g, A, T, table
  <2>4. SumFunction(g) = SumFunction([p \in T |-> IF p \in A THEN g[p] ELSE 0]) BY <1>2, <2>1, <2>2, SumWhere
  <2> QED BY <2>3, <2>4 DEF OwedOn, g, A
<1>6. ASSUME NEW p \in T PROVE SumFunction([n \in D |-> table[n][p]]) = f[p]
  <2> DEFINE k == [n \in D |-> table[n][p]]
  <2>1. k \in [D -> Int] /\ DueOn[p] \in D /\ k[DueOn[p]] = f[p] /\ \A n \in D \ {DueOn[p]} : k[n] = 0
    BY <1>2
  <2> HIDE DEF k, D
  <2>2. SumFunction(k) = k[DueOn[p]] BY <1>3, <2>1, SumOfOne
  <2> QED BY <2>1, <2>2 DEF k
<1>7. SumFunction([n \in D |-> SumFunction(table[n])]) = SumFunction([p \in T |-> SumFunction([n \in D |-> table[n][p]])])
  <2> HIDE DEF table, D, T
  <2> QED BY <1>2, <1>3, <1>4, SumSwap
<1>8. [n \in D |-> SumFunction(table[n])] = [n \in D |-> OwedOn(DueAt(n))] BY <1>5
<1>9. [p \in T |-> SumFunction([n \in D |-> table[n][p]])] = f BY <1>6
<1> QED BY <1>7, <1>8, <1>9 DEF OwedOn

\* What one date of the list says.
LEMMA DatesAre ==
  ASSUME NEW day
  PROVE  /\ DOMAIN DateRows(day) = {DueOn[p] : p \in Outstanding}
         /\ \A n \in DOMAIN DateRows(day) :
              /\ DateRows(day)[n].netPayable = NetAt(n) /\ DateRows(day)[n].paid = PaidAt(n)
              /\ DateRows(day)[n].advance = OffsetAt(n) /\ DateRows(day)[n].remaining = OwedOn(DueAt(n))
<1> DEFINE rows == DueRows(day)
           group(n) == {p \in Outstanding : rows[p].date = n}
           R == DateRows(day)
<1>1. \A p \in Outstanding : /\ rows[p].date = DueOn[p] /\ rows[p].netPayable = Original[p]
                             /\ rows[p].paid = payable[p].paid /\ rows[p].advance = payable[p].offset
                             /\ rows[p].remaining = payable[p].remaining
  BY DEF DueRows, DueRow
<1>2. /\ DOMAIN R = {rows[p].date : p \in Outstanding}
      /\ \A n \in DOMAIN R :
           /\ R[n].netPayable = SumFunction([p \in group(n) |-> rows[p].netPayable])
           /\ R[n].paid = SumFunction([p \in group(n) |-> rows[p].paid])
           /\ R[n].advance = SumFunction([p \in group(n) |-> rows[p].advance])
           /\ R[n].remaining = SumFunction([p \in group(n) |-> rows[p].remaining])
  BY DEF DateRows, Total
<1> HIDE DEF rows, R
<1>3. \A n : group(n) = DueAt(n) BY <1>1 DEF DueAt
<1>4. \A n : /\ [p \in DueAt(n) |-> rows[p].netPayable] = [p \in DueAt(n) |-> Original[p]]
             /\ [p \in DueAt(n) |-> rows[p].paid] = [p \in DueAt(n) |-> payable[p].paid]
             /\ [p \in DueAt(n) |-> rows[p].advance] = [p \in DueAt(n) |-> payable[p].offset]
             /\ [p \in DueAt(n) |-> rows[p].remaining] = [p \in DueAt(n) |-> payable[p].remaining]
  BY <1>1 DEF DueAt
<1>5. {rows[p].date : p \in Outstanding} = {DueOn[p] : p \in Outstanding} BY <1>1
<1> HIDE DEF group
<1> QED BY <1>2, <1>3, <1>4, <1>5 DEF OwedOn, NetAt, PaidAt, OffsetAt, R

\* Each date of the list accounts for the net payable.
LEMMA DateAccounts ==
  ASSUME Books, NEW n
  PROVE  NetAt(n) = PaidAt(n) + OffsetAt(n) + OwedOn(DueAt(n))
<1> DEFINE A == DueAt(n)
           f == [p \in A |-> Original[p]]
           x == [p \in A |-> payable[p].paid]
           y == [p \in A |-> payable[p].offset]
           z == [p \in A |-> payable[p].remaining]
           xy == [p \in A |-> payable[p].paid + payable[p].offset]
<1>1. A \in SUBSET Payables /\ IsFiniteSet(A)
  <2>1. A \in SUBSET Payables BY DEF DueAt, Outstanding
  <2> QED BY <2>1, ConstantsAssumption, FS_Subset
<1>2. \A p \in A : /\ payable[p].paid \in Int /\ payable[p].offset \in Int /\ payable[p].remaining \in Int
                   /\ Original[p] = payable[p].paid + payable[p].offset + payable[p].remaining
  <2> SUFFICES ASSUME NEW p \in A
               PROVE  /\ payable[p].paid \in Int /\ payable[p].offset \in Int /\ payable[p].remaining \in Int
                      /\ Original[p] = payable[p].paid + payable[p].offset + payable[p].remaining
    OBVIOUS
  <2>1. p \in Payables /\ payable[p].remaining > 0 BY <1>1 DEF DueAt, Outstanding
  <2>2. source[p] = "COMPLETED"
    <3>1. p \in PendingPayouts BY SameLists DEF DueAt
    <3> QED BY <3>1 DEF PendingPayouts
  <2> QED BY <2>1, <2>2, RowsByState DEF PayableRow
<1>3. f \in [A -> Int] /\ xy \in [A -> Int] /\ z \in [A -> Int] /\ (\A p \in A : f[p] = xy[p] + z[p])
  BY <1>2
<1>4. x \in [A -> Int] /\ y \in [A -> Int] /\ (\A p \in A : xy[p] = x[p] + y[p])
  BY <1>2
<1>5. xy \in [A -> Int] /\ IsFiniteSet(A) BY <1>1, <1>3
<1> HIDE DEF f, x, y, z, xy, A
<1>6. SumFunction(f) = SumFunction(xy) + SumFunction(z) BY <1>1, <1>3, SumAdd
<1>7. SumFunction(xy) = SumFunction(x) + SumFunction(y) BY <1>4, <1>5, SumAdd
<1> QED BY <1>6, <1>7 DEF OwedOn, NetAt, PaidAt, OffsetAt, f, x, y, z, A

(* The lists of payouts due agree with each other and with the books.      *)
LEMMA ReportsAgree == Sheet => DueReportsAgree
<1> SUFFICES ASSUME Sheet PROVE DueReportsAgree OBVIOUS
<1>1. Books BY DEF Sheet
<1>2. Outstanding = OnDashboard /\ Outstanding = PendingPayouts /\ Outstanding \in SUBSET Payables
  BY <1>1, SameLists DEF Outstanding
<1>3. -ledger["PAYABLE"] = OwedOn(Outstanding) - Total(AvailableUnallocated, RemainingUnallocated)
  <2> DEFINE P == ledger["PAYABLE"]
             M == Tally(ToMatch, doc)
  <2>1. P \in Int BY <1>1, ShapeTables, OnControls DEF Books, Known, TablesOK
  <2>2. StillOwed \in Int /\ OwedOn(Outstanding) = StillOwed BY <1>1, <1>2, AllOwed, OwedTypes
  <2>3. P + StillOwed = M BY DEF Sheet, Balances, PayableBalance
  <2>4. Total(AvailableUnallocated, RemainingUnallocated) = M BY OffersTally
  <2> HIDE DEF P, M
  <2>5. -P = StillOwed - M BY <2>1, <2>2, <2>3
  <2> QED BY <2>2, <2>4, <2>5 DEF P
<1>4. ASSUME NEW day \in Days
      PROVE  /\ Insights(day).overdue = DueTotals(day).overdue /\ Insights(day).today = DueTotals(day).today
             /\ Insights(day).next7 + Insights(day).later = DueTotals(day).upcoming
             /\ Total(DOMAIN DateRows(day), LAMBDA n : DateRows(day)[n].remaining) = DueTotals(day).outstanding
             /\ \A n \in DOMAIN DateRows(day) :
                  DateRows(day)[n].netPayable =
                    DateRows(day)[n].paid + DateRows(day)[n].advance + DateRows(day)[n].remaining
  <2>1. day \in Nat BY DEF Days
  <2>2. Insights(day).overdue = DueTotals(day).overdue /\ Insights(day).today = DueTotals(day).today
    BY <1>1, <2>1, BucketsAre, TotalsAre
  <2>3. Insights(day).next7 + Insights(day).later = DueTotals(day).upcoming
    <3> DEFINE A == {p \in Outstanding : DueOn[p] > day}
               B == {p \in Outstanding : DueOn[p] > day /\ DueOn[p] <= day + 7}
               C == {p \in Outstanding : DueOn[p] > day + 7}
    <3>1. \A p \in Outstanding : DueOn[p] \in Nat BY <1>2, DueOnAssumption
    <3>2. A \in SUBSET Payables /\ B \in SUBSET A /\ C \in SUBSET A /\ B \cup C = A /\ B \cap C = {}
      BY <1>2, <2>1, <3>1
    <3> HIDE DEF A, B, C
    <3>3. OwedOn(A) = OwedOn(B) + OwedOn(C) BY <1>1, <3>2, OwedParts
    <3> QED BY <1>1, <2>1, <3>3, BucketsAre, TotalsAre DEF A, B, C
  <2>4. Total(DOMAIN DateRows(day), LAMBDA n : DateRows(day)[n].remaining) = DueTotals(day).outstanding
    <3>1. Total(DOMAIN DateRows(day), LAMBDA n : DateRows(day)[n].remaining)
            = SumFunction([n \in DOMAIN DateRows(day) |-> DateRows(day)[n].remaining])
      BY DEF Total
    <3>2. [n \in DOMAIN DateRows(day) |-> DateRows(day)[n].remaining]
            = [n \in {DueOn[p] : p \in Outstanding} |-> OwedOn(DueAt(n))]
      BY DatesAre
    <3> QED BY <1>1, <3>1, <3>2, OwedByDate, TotalsAre
  <2>5. ASSUME NEW n \in DOMAIN DateRows(day)
        PROVE  DateRows(day)[n].netPayable =
                 DateRows(day)[n].paid + DateRows(day)[n].advance + DateRows(day)[n].remaining
    BY <1>1, <2>5, DatesAre, DateAccounts
  <2> QED BY <2>2, <2>3, <2>4, <2>5
<1>5. \A day \in Days : DueTotals(day).outstanding = OwedOn(Outstanding) BY TotalsAre
<1> QED BY <1>2, <1>3, <1>4, <1>5 DEF DueReportsAgree

(* The list of payouts due, the dashboard and the register of swipes name  *)
(* the same payables, and their sums are what the books carry, on every    *)
(* day and after any history.                                              *)
THEOREM DueReportsAgreeInvariant ==
  ASSUME PaymentsReversedApart, SwipesVoidedApart, MatchesUndoneOneWay
  PROVE  Spec => []DueReportsAgree
<1>1. Spec => []Sheet BY SheetInvariant
<1> QED BY <1>1, ReportsAgree, PTL

---------------------------------------------------------------------------
(* What the screens advise.                                                *)

(* An open payable may be matched, applied to or unmatched.                *)
LEMMA OpenRow ==
  ASSUME Books, NEW p \in Outstanding
  PROVE  /\ p \in Payables /\ payable[p] \in PayableRow /\ payable[p].remaining > 0
         /\ payable[p].status = "OPEN" /\ source[p] = "COMPLETED"
<1>1. p \in OnDashboard /\ p \in PendingPayouts BY SameLists
<1> QED BY <1>1, RowsByState DEF OnDashboard, PendingPayouts

\* What the checks of applyAdvance() see when they run on their own.
LEMMA ApplyPasses ==
  ASSUME Sheet, NEW p \in Outstanding, NEW e \in Active("payout"), NEW n \in Nat,
         n <= payable[p].remaining, n <= RemainingAdvance(e)
  PROVE  ApplyChecks(Call("apply", p, None, n, 0, e, None), FreshFor(p, e))
<1> DEFINE o == Call("apply", p, None, n, 0, e, None)
           v == FreshFor(p, e)
<1>1. o.payable = p /\ o.amount = n BY DEF Call
<1>2. v.payable = payable /\ v.entry = doc[e] BY DEF FreshFor, NoView
<1>3. payable[p].status = "OPEN" /\ payable[p].remaining \in Int BY OpenRow DEF Sheet, PayableRow
<1>4. doc[e].status = "COMPLETED" BY DEF Active
<1>5. RemainingAdvance(e) = doc[e].toReceivable - doc[e].applied /\ RemainingAdvance(e) \in Nat
  BY LeftOfPayOuts DEF RemainingAdvance
<1> HIDE DEF o, v
<1>6. ApplyChecks(o, v) BY <1>1, <1>2, <1>3, <1>4, <1>5 DEF ApplyChecks
<1> QED BY <1>6 DEF o, v

(* A Pay Out that stands in the way of a payment can be used for it.       *)
LEMMA BlockedResolve == Sheet => BlockedPaymentsResolve
<1> SUFFICES ASSUME Sheet, UnmatchedPayOut
             PROVE  /\ AvailableUnallocated \cup AvailableAdvances # {}
                    /\ \A p \in Outstanding : \E e \in AvailableUnallocated \cup AvailableAdvances :
                         \/ \E n \in 1..RemainingUnallocated(e) :
                              MatchChecks(Call("match", p, None, n, 0, e, None), FreshFor(p, e))
                         \/ \E n \in 1..RemainingAdvance(e) :
                              ApplyChecks(Call("apply", p, None, n, 0, e, None), FreshFor(p, e))
                         \/ UnmatchChecks(Call("unmatch", p, None, 0, 0, e, None), FreshFor(p, e))
  BY DEF BlockedPaymentsResolve
<1>1. PICK e \in Active("payout") : \/ doc[e].toPayable > Matched(doc[e])
                                    \/ doc[e].toReceivable > doc[e].applied
  BY DEF UnmatchedPayOut
<1>2. /\ e \in Requests /\ doc[e] \in Document /\ doc[e].kind = "payout" /\ doc[e].status = "COMPLETED"
      /\ RemainingUnallocated(e) \in Nat /\ RemainingAdvance(e) \in Nat
      /\ RemainingUnallocated(e) = doc[e].toPayable - Matched(doc[e])
      /\ RemainingAdvance(e) = doc[e].toReceivable - doc[e].applied
  BY LeftOfPayOuts DEF Active, RemainingUnallocated, RemainingAdvance
<1>3. doc[e].toPayable \in Int /\ doc[e].toReceivable \in Int /\ doc[e].applied \in Int /\ Matched(doc[e]) \in Int
  <2>1. doc[e].matched \in [Payables -> Int] BY <1>2 DEF Document
  <2>2. Matched(doc[e]) \in Int BY <2>1, ConstantsAssumption, SumType DEF Matched
  <2> QED BY <1>2, <2>2 DEF Document
<1>4. RemainingUnallocated(e) > 0 \/ RemainingAdvance(e) > 0 BY <1>1, <1>2, <1>3
<1>5. e \in AvailableUnallocated \cup AvailableAdvances BY <1>4 DEF AvailableUnallocated, AvailableAdvances
<1>6. ASSUME NEW p \in Outstanding
      PROVE  \/ \E n \in 1..RemainingUnallocated(e) :
                  MatchChecks(Call("match", p, None, n, 0, e, None), FreshFor(p, e))
             \/ \E n \in 1..RemainingAdvance(e) :
                  ApplyChecks(Call("apply", p, None, n, 0, e, None), FreshFor(p, e))
             \/ UnmatchChecks(Call("unmatch", p, None, 0, 0, e, None), FreshFor(p, e))
  <2> DEFINE v == FreshFor(p, e)
  <2>1. /\ p \in Payables /\ payable[p] \in PayableRow /\ payable[p].remaining > 0
        /\ payable[p].status = "OPEN" /\ source[p] = "COMPLETED" /\ payable[p].remaining \in Int
        /\ payable[p].paid \in Int
    BY OpenRow DEF Sheet, PayableRow
  <2>2. v.payable = payable /\ v.entry = doc[e] /\ v.source = source[p] BY DEF FreshFor, NoView
  <2>3. CASE RemainingAdvance(e) > 0
    <3>1. 1 \in 1..RemainingAdvance(e) BY <1>2, <2>3
    <3>2. 1 <= payable[p].remaining /\ 1 <= RemainingAdvance(e) /\ 1 \in Nat BY <1>2, <2>1, <2>3
    <3>3. ApplyChecks(Call("apply", p, None, 1, 0, e, None), FreshFor(p, e)) BY <3>2, ApplyPasses
    <3> QED BY <3>1, <3>3
  <2>4. CASE RemainingUnallocated(e) > 0 /\ doc[e].matched[p] = 0
    <3> DEFINE o == Call("match", p, None, 1, 0, e, None)
    <3>1. 1 \in 1..RemainingUnallocated(e) BY <1>2, <2>4
    <3>2. o.payable = p /\ o.amount = 1 BY DEF Call
    <3>3. MatchChecks(o, v)
      <4> HIDE DEF o, v
      <4> QED BY <1>2, <2>1, <2>2, <2>4, <3>2 DEF MatchChecks
    <3> QED BY <3>1, <3>3
  <2>5. CASE RemainingUnallocated(e) > 0 /\ doc[e].matched[p] # 0
    <3> DEFINE o == Call("unmatch", p, None, 0, 0, e, None)
    <3>1. o.payable = p BY DEF Call
    <3>2. 0 <= doc[e].matched[p] /\ doc[e].matched[p] <= payable[p].paid
      BY <1>2, <2>1, Counted DEF Sheet, Books
    <3>3. doc[e].matched[p] \in Int BY <1>2, <2>1 DEF Document
    <3>4. UnmatchChecks(o, v)
      <4> HIDE DEF o, v
      <4> QED BY <2>1, <2>2, <2>5, <3>1, <3>2, <3>3 DEF UnmatchChecks, Void
    <3> QED BY <3>4
  <2> QED BY <1>4, <2>3, <2>4, <2>5
<1> QED BY <1>5, <1>6

\* The smaller of a number and a sum is no more than the sum of the smaller.
LEMMA SmallerSum ==
  ASSUME NEW S, IsFiniteSet(S), NEW c \in Nat, NEW f \in [S -> Nat], NEW g \in [S -> Nat],
         \A x \in S : g[x] = Smaller(c, f[x])
  PROVE  Smaller(c, SumFunction(f)) <= SumFunction(g)
<1>1. SumFunction(f) \in Nat /\ SumFunction(g) \in Nat BY SumNat
<1>2. CASE \A x \in S : f[x] <= c
  <2>1. \A x \in S : g[x] = f[x] BY <1>2 DEF Smaller
  <2>2. g = f BY <2>1
  <2> QED BY <1>1, <2>2 DEF Smaller
<1>3. ASSUME NEW x \in S, ~(f[x] <= c) PROVE Smaller(c, SumFunction(f)) <= SumFunction(g)
  <2>1. g[x] = c BY <1>3 DEF Smaller
  <2>2. c <= SumFunction(g) BY <2>1, SumBound
  <2> QED BY <1>1, <2>2 DEF Smaller
<1> QED BY <1>2, <1>3

(* What the reconciliation suggests to match can be applied as it says.    *)
LEMMA SuggestionsPass == Sheet => SuggestionsHold
<1> SUFFICES ASSUME Sheet, NEW p \in Outstanding, NEW earlier \in SUBSET Active("payout")
             PROVE  LET usable == earlier \cap AvailableAdvances
                        part(e) == Smaller(payable[p].remaining, RemainingAdvance(e))
                    IN  /\ Suggestion(p, earlier) <= Total(usable, part)
                        /\ \A e \in usable :
                             ApplyChecks(Call("apply", p, None, part(e), 0, e, None), FreshFor(p, e))
  BY DEF SuggestionsHold
<1> DEFINE usable == earlier \cap AvailableAdvances
           part(e) == Smaller(payable[p].remaining, RemainingAdvance(e))
           f == [e \in usable |-> Larger(0, RemainingAdvance(e))]
           g == [e \in usable |-> part(e)]
           left == payable[p].remaining
<1>1. p \in Payables /\ source[p] = "COMPLETED" /\ left \in Nat BY OpenRow DEF Sheet, PayableRow
<1>2. usable \in SUBSET Active("payout") /\ IsFiniteSet(usable)
  <2>1. usable \in SUBSET Requests /\ usable \in SUBSET Active("payout") BY DEF Active
  <2> QED BY <2>1, ConstantsAssumption, FS_Subset
<1>3. \A e \in usable : RemainingAdvance(e) \in Nat BY <1>2, LeftOfPayOuts
<1>4. \A e \in usable : Larger(0, RemainingAdvance(e)) = RemainingAdvance(e) BY <1>3 DEF Larger
<1>5. \A e \in usable : /\ part(e) \in Nat /\ part(e) <= left /\ part(e) <= RemainingAdvance(e)
  BY <1>1, <1>3 DEF Smaller
<1>6. f \in [usable -> Nat] /\ g \in [usable -> Nat] /\ \A e \in usable : g[e] = Smaller(left, f[e])
  BY <1>3, <1>4, <1>5
<1>7. Suggestion(p, earlier) <= Total(usable, part)
  <2>1. ExpectedRemaining(p) = left BY <1>1, ExpectedIs DEF Sheet
  <2>2. Suggestion(p, earlier) = Smaller(left, SumFunction(f)) BY <2>1 DEF Suggestion, Total
  <2>3. Total(usable, part) = SumFunction(g) BY DEF Total
  <2> HIDE DEF f, g, usable, left
  <2>4. Smaller(left, SumFunction(f)) <= SumFunction(g) BY <1>1, <1>2, <1>6, SmallerSum
  <2> QED BY <2>2, <2>3, <2>4
<1>8. ASSUME NEW e \in usable
      PROVE  ApplyChecks(Call("apply", p, None, part(e), 0, e, None), FreshFor(p, e))
  <2>1. e \in Active("payout") /\ part(e) \in Nat /\ part(e) <= payable[p].remaining
        /\ part(e) <= RemainingAdvance(e)
    BY <1>2, <1>5
  <2> HIDE DEF part, usable
  <2> QED BY <2>1, ApplyPasses
<1> QED BY <1>7, <1>8

(* What the screens advise is accepted: a payment that is refused is       *)
(* resolved by a Pay Out on offer, and a suggested match can be applied.   *)
THEOREM AdviceHoldsInvariant ==
  ASSUME PaymentsReversedApart, SwipesVoidedApart, MatchesUndoneOneWay
  PROVE  Spec => []AdviceHolds
<1>1. Spec => []Sheet BY SheetInvariant
<1>2. Sheet => AdviceHolds BY BlockedResolve, SuggestionsPass DEF AdviceHolds
<1> QED BY <1>1, <1>2, PTL

=============================================================================
