------------------------ MODULE CustomerReports_proofs ------------------------
(***************************************************************************)
(* Theorems about what is shown of the dues of a customer: every ledger    *)
(* account is what the documents, cases and receivables that stand have    *)
(* posted to it, and the lists, the register and the card ledger add up to *)
(* the accounts and to each other, for any number of cases, cards,         *)
(* receivables and concurrent requests.                                    *)
(*                                                                         *)
(* The first half is an invariant: a step posts exactly what it changes.   *)
(* The second half needs no further induction over steps: the reports are  *)
(* sums over the rows of a state, and they are compared by adding up one   *)
(* table, of the cases or cards and the documents, by rows and by columns. *)
(***************************************************************************)
EXTENDS CustomerReports, CustomerDues_proofs

---------------------------------------------------------------------------
(* What the ledger says.                                                   *)

(* What the documents that stand have posted to ledger account l.          *)
Posted(l) == [d \in Document |-> IF Standing(d) THEN Journal(d)[l] ELSE 0]

(* The receivables that are there.                                         *)
Lent == {b \in Debts : debt[b].source = "COMPLETED"}

(* What the creation of the cases, of the receivables of S has posted.     *)
OfCases(S, l) == SumFunction([c \in Cases |-> IF c \in S THEN CaseJournal(c)[l] ELSE 0])
OfDebts(S, l) == SumFunction([b \in Debts |-> IF b \in S THEN DebtJournal(b)[l] ELSE 0])

Start(l) == IF l = "MONEY" THEN Opening ELSE 0

(* Every account is what stands: nothing that was taken back is left in    *)
(* it, and nothing that stands is missing.                                 *)
LedgerSays ==
    \A l \in Ledgers :
        ledger[l] = Start(l) + Tally(Posted(l), doc) + OfCases(Live, l) + OfDebts(Lent, l)

(* A step posts what it changes.                                           *)
LedgerMoves ==
    \A l \in Ledgers :
        ledger'[l] - ledger[l] = Gain(Posted(l)) + (OfCases(Live', l) - OfCases(Live, l))
                                                 + (OfDebts(Lent', l) - OfDebts(Lent, l))

\* What is posted is a number, nothing for what does not stand.
LEMMA PostedTypes ==
  ASSUME NEW l \in Ledgers
  PROVE  /\ Posted(l) \in [Document -> Int]
         /\ \A d \in Document : /\ Journal(d) \in [Ledgers -> Int] /\ Journal(d)[l] \in Int
                                /\ Standing(d) => Posted(l)[d] = Journal(d)[l]
                                /\ ~Standing(d) => Posted(l)[d] = 0
<1>1. ASSUME NEW d \in Document PROVE Journal(d) \in [Ledgers -> Int]
  <2>1. /\ d.amount \in Int /\ d.charge \in Int /\ d.credit \in Int /\ d.extra \in Int
    BY DEF Document
  <2>2. Reduced(d) \in Int BY <2>1 DEF Reduced
  <2> QED BY <2>1, <2>2 DEF Journal, NoJournal, Ledgers
<1> QED BY <1>1 DEF Posted

\* So is what cases and receivables have posted.
LEMMA RowsPosted ==
  ASSUME NEW l \in Ledgers
  PROVE  /\ \A S : OfCases(S, l) \in Int /\ OfDebts(S, l) \in Int
         /\ \A c \in Cases : CaseJournal(c)[l] \in Int
         /\ \A b \in Debts : DebtJournal(b)[l] \in Int
<1>1. /\ \A c \in Cases : CaseJournal(c)[l] \in Int
      /\ \A b \in Debts : DebtJournal(b)[l] \in Int
  BY JournalTypes
<1>2. ASSUME NEW S PROVE OfCases(S, l) \in Int /\ OfDebts(S, l) \in Int
  <2> DEFINE f == [c \in Cases |-> IF c \in S THEN CaseJournal(c)[l] ELSE 0]
             g == [b \in Debts |-> IF b \in S THEN DebtJournal(b)[l] ELSE 0]
  <2>1. f \in [Cases -> Int] /\ g \in [Debts -> Int] BY <1>1
  <2> HIDE DEF f, g
  <2>2. SumFunction(f) \in Int /\ SumFunction(g) \in Int BY <2>1, SumType, DuesAssumption
  <2> QED BY <2>2 DEF f, g, OfCases, OfDebts
<1> QED BY <1>1, <1>2

\* One case more, one receivable more, and one less.
LEMMA OneMore ==
  ASSUME NEW l \in Ledgers
  PROVE  /\ \A S, c : c \in Cases \ S => OfCases(S \cup {c}, l) - OfCases(S, l) = CaseJournal(c)[l]
         /\ \A S, b : b \in Debts \ S => OfDebts(S \cup {b}, l) - OfDebts(S, l) = DebtJournal(b)[l]
<1>1. /\ \A c \in Cases : CaseJournal(c)[l] \in Int
      /\ \A b \in Debts : DebtJournal(b)[l] \in Int
  BY JournalTypes
<1>2. ASSUME NEW S, NEW c \in Cases, c \notin S
      PROVE  OfCases(S \cup {c}, l) - OfCases(S, l) = CaseJournal(c)[l]
  <2> DEFINE f == [x \in Cases |-> IF x \in S THEN CaseJournal(x)[l] ELSE 0]
             g == [x \in Cases |-> IF x \in S \cup {c} THEN CaseJournal(x)[l] ELSE 0]
  <2>1. /\ f \in [Cases -> Int] /\ g \in [Cases -> Int] /\ f[c] = 0 /\ g[c] = CaseJournal(c)[l]
        /\ \A x \in Cases \ {c} : g[x] = f[x]
    BY <1>1, <1>2
  <2> HIDE DEF f, g
  <2>2. SumFunction(g) = SumFunction(f) - f[c] + g[c] /\ SumFunction(f) \in Int
    BY <2>1, SumChange, SumType, DuesAssumption
  <2>3. OfCases(S \cup {c}, l) = SumFunction(g) /\ OfCases(S, l) = SumFunction(f) BY DEF f, g, OfCases
  <2>4. CaseJournal(c)[l] \in Int BY <1>1
  <2> QED BY <2>1, <2>2, <2>3, <2>4
<1>3. ASSUME NEW S, NEW b \in Debts, b \notin S
      PROVE  OfDebts(S \cup {b}, l) - OfDebts(S, l) = DebtJournal(b)[l]
  <2> DEFINE f == [x \in Debts |-> IF x \in S THEN DebtJournal(x)[l] ELSE 0]
             g == [x \in Debts |-> IF x \in S \cup {b} THEN DebtJournal(x)[l] ELSE 0]
  <2>1. /\ f \in [Debts -> Int] /\ g \in [Debts -> Int] /\ f[b] = 0 /\ g[b] = DebtJournal(b)[l]
        /\ \A x \in Debts \ {b} : g[x] = f[x]
    BY <1>1, <1>3
  <2> HIDE DEF f, g
  <2>2. SumFunction(g) = SumFunction(f) - f[b] + g[b] /\ SumFunction(f) \in Int
    BY <2>1, SumChange, SumType, DuesAssumption
  <2>3. OfDebts(S \cup {b}, l) = SumFunction(g) /\ OfDebts(S, l) = SumFunction(f) BY DEF f, g, OfDebts
  <2>4. DebtJournal(b)[l] \in Int BY <1>1
  <2> QED BY <2>1, <2>2, <2>3, <2>4
<1> QED BY <1>2, <1>3

\* What documents have posted adds up to a number.
LEMMA TallyInt ==
  ASSUME NEW F \in [Document -> Int], NEW docs \in [Docs -> Document]
  PROVE  Tally(F, docs) \in Int
<1> DEFINE f == [x \in Docs |-> F[docs[x]]]
<1>1. f \in [Docs -> Int] OBVIOUS
<1> HIDE DEF f
<1>2. SumFunction(f) \in Int BY <1>1, SumType, DocsFinite
<1> QED BY <1>2 DEF Tally, f

\* A step that posts what it changes keeps the ledger right.
LEMMA LedgerKept ==
  ASSUME NEW A, StepFrom(A), LedgerSays, LedgerMoves
  PROVE  LedgerSays'
<1> SUFFICES ASSUME NEW l \in Ledgers
             PROVE  ledger'[l] = Start(l) + Tally(Posted(l), doc') + OfCases(Live', l) + OfDebts(Lent', l)
  BY DEF LedgerSays, Start, Tally, Posted, OfCases, OfDebts
<1>1. doc \in [Docs -> Document] /\ ledger \in [Ledgers -> Int] BY DEF StepFrom, Known, TypeOK
<1>2. doc' \in [Docs -> Document] /\ ledger' \in [Ledgers -> Int]
  BY NewDocs DEF StepFrom, TableStep, MoneyStep
<1>3. Tally(Posted(l), doc) \in Int /\ Tally(Posted(l), doc') \in Int BY <1>1, <1>2, PostedTypes, TallyInt
<1>4. /\ OfCases(Live, l) \in Int /\ OfCases(Live', l) \in Int
      /\ OfDebts(Lent, l) \in Int /\ OfDebts(Lent', l) \in Int
  BY RowsPosted
<1>5. ledger[l] = Start(l) + Tally(Posted(l), doc) + OfCases(Live, l) + OfDebts(Lent, l) BY DEF LedgerSays
<1>6. ledger'[l] - ledger[l] = Gain(Posted(l)) + (OfCases(Live', l) - OfCases(Live, l))
                                              + (OfDebts(Lent', l) - OfDebts(Lent, l))
  BY DEF LedgerMoves
<1>7. Gain(Posted(l)) = Tally(Posted(l), doc') - Tally(Posted(l), doc) BY DEF Gain
<1>8. Start(l) \in Int /\ ledger[l] \in Int /\ ledger'[l] \in Int BY <1>1, <1>2, DuesAssumption DEF Start
<1> QED BY <1>3, <1>4, <1>5, <1>6, <1>7, <1>8

\* Where every case that changes is in use, or stays, the same cases are live.
LEMMA LiveKept ==
  ASSUME NEW A, StepFrom(A),
         \A c \in Cases : \/ case'[c] = case[c]
                          \/ case[c].status # "ABSENT" /\ (InUse(c) \/ c \in Live')
  PROVE  Live' = Live
<1>1. ASSUME NEW c \in Cases PROVE c \in Live' <=> c \in Live
  <2>1. CASE case'[c] = case[c] BY <2>1 DEF Live
  <2>2. CASE case[c].status # "ABSENT" /\ (InUse(c) \/ c \in Live')
    <3>1. /\ c \in Live => c \in Live' \/ CaseVoided(A, c)
          /\ case[c].status = "REVERSED" => case'[c] = case[c]
      BY CaseKept
    <3>2. CaseVoided(A, c) => ~InUse(c) BY DEF CaseVoided
    <3>3. c \in Live' => c \in Live BY <2>2, <3>1 DEF Live
    <3> QED BY <2>2, <3>1, <3>2, <3>3
  <2> QED BY <2>1, <2>2
<1> QED BY <1>1 DEF Live

\* What a step gains.
LEMMA GainIs ==
  ASSUME NEW l \in Ledgers, doc \in [Docs -> Document], doc' \in [Docs -> Document]
  PROVE  /\ Gain(Posted(l)) = Tally(Posted(l), doc') - Tally(Posted(l), doc)
         /\ Gain(Posted(l)) \in Int
<1>1. Gain(Posted(l)) = Tally(Posted(l), doc') - Tally(Posted(l), doc) BY DEF Gain
<1>2. Tally(Posted(l), doc) \in Int /\ Tally(Posted(l), doc') \in Int BY PostedTypes, TallyInt
<1> QED BY <1>1, <1>2

\* A document that is recorded is posted.
LEMMA RecordedMoves ==
  ASSUME NEW A, StepFrom(A), NEW x \in Docs, NEW d, doc[x] = NoDocument, d.kind # "none",
         doc' = [doc EXCEPT ![x] = d], Post(Journal(d)), Lent' = Lent,
         \A c \in Cases : \/ case'[c] = case[c]
                          \/ case[c].status # "ABSENT" /\ (d.case = c \/ c \in Settled(d))
  PROVE  LedgerMoves /\ Live' = Live
<1>1. Known /\ TypeOK /\ doc \in [Docs -> Document] /\ ledger \in [Ledgers -> Int]
  BY DEF StepFrom, Known, TypeOK
<1>2. doc' \in [Docs -> Document] BY NewDocs
<1>3. doc'[x] = d /\ \A y \in Docs \ {x} : doc'[y] = doc[y] BY <1>1
<1>4. d # NoDocument BY DEF NoDocument
<1>5. d \in Document /\ Standing(d) /\ \A c \in Cases : d.case = c \/ c \in Settled(d) => c \in Live'
  <2>1. DocStep(A, x) BY DEF StepFrom, TableStep
  <2>2. ~Standing(doc[x]) BY NoDocumentFits
  <2> QED BY <1>3, <1>4, <2>1, <2>2 DEF DocStep, DocRecorded, DocUndone
<1>6. Live' = Live BY <1>5, LiveKept
<1>7. ASSUME NEW l \in Ledgers PROVE ledger'[l] - ledger[l] = Gain(Posted(l))
  <2>1. Posted(l) \in [Document -> Int] /\ Posted(l)[d] = Journal(d)[l] /\ Journal(d)[l] \in Int
    BY <1>5, PostedTypes
  <2>2. Posted(l)[NoDocument] = 0 BY NoDocumentFits, PostedTypes
  <2>3. Gain(Posted(l)) = Posted(l)[d] - Posted(l)[doc[x]]
    <3>1. Tally(Posted(l), doc') - Tally(Posted(l), doc) = Posted(l)[d] - Posted(l)[doc[x]]
      <4>1. \A y \in Docs \ {x} : doc'[y] = doc[y] BY <1>3
      <4>2. doc \in [Docs -> Document] /\ Posted(l) \in [Document -> Int] BY <1>1, <2>1
      <4>3. Tally(Posted(l), doc') - Tally(Posted(l), doc) = Posted(l)[doc'[x]] - Posted(l)[doc[x]]
        BY ONLY <1>2, <4>1, <4>2, x \in Docs, TallyOne
      <4> QED BY <1>3, <4>3
    <3> QED BY <1>1, <1>2, <3>1, GainIs
  <2>4. ledger'[l] = ledger[l] + Journal(d)[l] BY DEF Post
  <2>5. ledger[l] \in Int BY <1>1
  <2> QED BY <2>1, <2>2, <2>3, <2>4, <2>5
<1>8. ASSUME NEW l \in Ledgers
      PROVE  OfCases(Live', l) - OfCases(Live, l) = 0 /\ OfDebts(Lent', l) - OfDebts(Lent, l) = 0
  <2>1. OfCases(Live, l) \in Int /\ OfDebts(Lent, l) \in Int BY RowsPosted
  <2> QED BY <1>6, <2>1
<1>9. ASSUME NEW l \in Ledgers PROVE Gain(Posted(l)) \in Int
  BY <1>1, <1>2, GainIs
<1> QED BY <1>6, <1>7, <1>8, <1>9 DEF LedgerMoves

\* A document that is taken back is posted in reverse.
LEMMA UndoneMoves ==
  ASSUME NEW A, StepFrom(A), NEW x \in Docs, Standing(doc[x]),
         doc' = [doc EXCEPT ![x].status = "REVERSED"], PostReversal(Journal(doc[x])), Lent' = Lent,
         \A c \in Cases : case'[c] = case[c] \/ Touches(x, c)
  PROVE  LedgerMoves /\ Live' = Live
<1> DEFINE d == doc[x]
           e == [doc[x] EXCEPT !.status = "REVERSED"]
<1>1. Known /\ TypeOK /\ doc \in [Docs -> Document] /\ ledger \in [Ledgers -> Int]
  BY DEF StepFrom, Known, TypeOK
<1>2. doc' \in [Docs -> Document] BY NewDocs
<1>3. doc'[x] = e /\ \A y \in Docs \ {x} : doc'[y] = doc[y] BY <1>1
<1>4. d \in Document /\ e \in Document /\ ~Standing(e) BY <1>1, <1>2, <1>3 DEF Document, Standing
<1>5. Live' = Live
  <2>1. ASSUME NEW c \in Cases, Touches(x, c) PROVE case[c].status # "ABSENT" /\ InUse(c)
    <3>1. Counts(x) BY DEF Standing, Counts
    <3>2. DocumentFits(x) BY <1>1 DEF Known
    <3> QED BY <2>1, <3>1, <3>2 DEF InUse, DocumentFits
  <2> QED BY <2>1, LiveKept
<1> HIDE DEF d, e
<1>6. ASSUME NEW l \in Ledgers PROVE ledger'[l] - ledger[l] = Gain(Posted(l))
  <2>1. Posted(l) \in [Document -> Int] /\ Posted(l)[d] = Journal(d)[l] /\ Journal(d)[l] \in Int
    BY <1>4, PostedTypes DEF d
  <2>2. Posted(l)[e] = 0 BY <1>4, PostedTypes
  <2>3. Gain(Posted(l)) = Posted(l)[e] - Posted(l)[d]
    <3>1. Tally(Posted(l), doc') - Tally(Posted(l), doc) = Posted(l)[e] - Posted(l)[d]
      <4>1. \A y \in Docs \ {x} : doc'[y] = doc[y] BY <1>3
      <4>2. doc \in [Docs -> Document] /\ Posted(l) \in [Document -> Int] BY <1>1, <2>1
      <4>3. Tally(Posted(l), doc') - Tally(Posted(l), doc) = Posted(l)[doc'[x]] - Posted(l)[doc[x]]
        BY ONLY <1>2, <4>1, <4>2, x \in Docs, TallyOne
      <4> QED BY <1>3, <4>3 DEF d
    <3> QED BY <1>1, <1>2, <3>1, GainIs
  <2>4. ledger'[l] = ledger[l] - Journal(d)[l] BY DEF PostReversal, d
  <2>5. ledger[l] \in Int BY <1>1
  <2> QED BY <2>1, <2>2, <2>3, <2>4, <2>5
<1>7. ASSUME NEW l \in Ledgers
      PROVE  OfCases(Live', l) - OfCases(Live, l) = 0 /\ OfDebts(Lent', l) - OfDebts(Lent, l) = 0
  <2>1. OfCases(Live, l) \in Int /\ OfDebts(Lent, l) \in Int BY RowsPosted
  <2> QED BY <1>5, <2>1
<1>8. ASSUME NEW l \in Ledgers PROVE Gain(Posted(l)) \in Int
  BY <1>1, <1>2, GainIs
<1> QED BY <1>5, <1>6, <1>7, <1>8 DEF LedgerMoves

\* No document, no gain.
LEMMA SameGain ==
  ASSUME Known, doc' = doc, NEW l \in Ledgers
  PROVE  Gain(Posted(l)) = 0
<1>1. doc \in [Docs -> Document] BY DEF Known, TypeOK
<1>2. Tally(Posted(l), doc) \in Int BY <1>1, PostedTypes, TallyInt
<1> QED BY <1>2 DEF Gain

\* Where nothing is posted and nothing that stands changes.
LEMMA NothingMoves ==
  ASSUME Known, doc' = doc, ledger' = ledger, Live' = Live, Lent' = Lent
  PROVE  LedgerMoves
<1>1. ASSUME NEW l \in Ledgers
      PROVE  ledger'[l] - ledger[l] = 0 /\ OfCases(Live', l) - OfCases(Live, l) = 0
             /\ OfDebts(Lent', l) - OfDebts(Lent, l) = 0 /\ Gain(Posted(l)) = 0
  <2>1. ledger[l] \in Int BY DEF Known, TypeOK
  <2>2. OfCases(Live, l) \in Int /\ OfDebts(Lent, l) \in Int BY RowsPosted
  <2> QED BY <2>1, <2>2, SameGain
<1> QED BY <1>1 DEF LedgerMoves

\* The receivables that are there, when their rows are not touched.
LEMMA LentSame ==
  (\A b \in Debts : debt'[b].source = debt[b].source) => Lent' = Lent
BY DEF Lent

\* A call of a case names one that is there.
LEMMA CaseThere ==
  ASSUME Known, NEW r \in Requests, NEW o, NEW v, Ready(r, o, v), o.case \in Cases
  PROVE  case[o.case].status # "ABSENT"
BY DEF Ready, CallFits

\* recordRecoveryTx().
LEMMA RecoverMoves ==
  ASSUME Known, NEW r \in Requests, Recover(r)
  PROVE  LedgerMoves
<1> DEFINE o == op[r]
           v == view[r]
           d == Recovery(o.case, o.amount, v.case[o.case].left, Now)
           row == Receive(v.case[o.case], d.principal[o.case], 0)
<1>1. /\ Running(r) /\ Ready(r, o, v) /\ o.kind = "recover"
      /\ \A x \in Docs : x[1] = r => doc[x] = NoDocument
  BY CommitFacts DEF Recover
<1>2. /\ doc' = [doc EXCEPT ![<<r, "main">>] = d] /\ case' = [case EXCEPT ![o.case] = row]
      /\ Post(Journal(d)) /\ debt' = debt
  BY DEF Recover, RecoverEffect
<1>3. d.kind = "recovery" /\ d.case = o.case BY DEF Recovery, NoDocument
<1> HIDE DEF o, v, d, row
<1>4. o.case \in Cases /\ case[o.case].status # "ABSENT" BY <1>1, OwnCase, CaseThere
<1>5. StepFrom({r}) BY RecoverKeeps
<1>6. <<r, "main">> \in Docs /\ doc[<<r, "main">>] = NoDocument BY <1>1 DEF Docs
<1>7. Lent' = Lent BY <1>2, LentSame
<1>8. \A c \in Cases : case'[c] = case[c] \/ c = o.case BY <1>2 DEF Known, TypeOK
<1> QED BY <1>2, <1>3, <1>4, <1>5, <1>6, <1>7, <1>8, RecordedMoves

\* recordCommissionTx().
LEMMA CommissionMoves ==
  ASSUME Known, NEW r \in Requests, Commission(r)
  PROVE  LedgerMoves
<1> DEFINE o == op[r]
           v == view[r]
           accrued == Smaller(Larger(v.case[o.case].unpaid, 0), o.amount)
           extra == o.amount - accrued
           d == Commissioned(o.case, o.amount, [Nothing EXCEPT ![o.case] = o.amount], extra, Now)
           row == [v.case[o.case] EXCEPT !.fee = @ + extra, !.collected = @ + o.amount,
                                         !.unpaid = Larger(0, @ - accrued),
                                         !.status = MasterStatus(v.case[o.case].recovered, v.case[o.case].left)]
<1>1. /\ Running(r) /\ Ready(r, o, v) /\ o.kind = "commission"
      /\ \A x \in Docs : x[1] = r => doc[x] = NoDocument
  BY CommitFacts DEF Commission
<1>2. /\ doc' = [doc EXCEPT ![<<r, "main">>] = d] /\ case' = [case EXCEPT ![o.case] = row]
      /\ Post(Journal(d)) /\ debt' = debt
  BY DEF Commission, CommissionEffect, Commissioned
<1>3. d.kind = "commission" /\ d.case = o.case BY DEF Commissioned, NoDocument
<1> HIDE DEF o, v, d, row
<1>4. o.case \in Cases /\ case[o.case].status # "ABSENT" BY <1>1, OwnCase, CaseThere
<1>5. StepFrom({r}) BY CommissionKeeps
<1>6. <<r, "main">> \in Docs /\ doc[<<r, "main">>] = NoDocument BY <1>1 DEF Docs
<1>7. Lent' = Lent BY <1>2, LentSame
<1>8. \A c \in Cases : case'[c] = case[c] \/ c = o.case BY <1>2 DEF Known, TypeOK
<1> QED BY <1>2, <1>3, <1>4, <1>5, <1>6, <1>7, <1>8, RecordedMoves

\* assessCommission().
LEMMA AssessMoves ==
  ASSUME Known, NEW r \in Requests, Assess(r)
  PROVE  LedgerMoves
<1> DEFINE o == op[r]
           v == view[r]
           d == Assessment(o.case, o.amount, Now)
           row == [case[o.case] EXCEPT !.fee = v.case[o.case].fee + o.amount,
                                       !.unpaid = v.case[o.case].unpaid + o.amount]
<1>1. /\ Running(r) /\ Ready(r, o, v) /\ o.kind = "assess"
      /\ \A x \in Docs : x[1] = r => doc[x] = NoDocument
  BY CommitFacts DEF Assess
<1>2. /\ doc' = [doc EXCEPT ![<<r, "main">>] = d] /\ case' = [case EXCEPT ![o.case] = row]
      /\ Post(Journal(d)) /\ debt' = debt
  BY DEF Assess, AssessEffect, Assessment
<1>3. d.kind = "assessment" /\ d.case = o.case BY DEF Assessment, NoDocument
<1> HIDE DEF o, v, d, row
<1>4. o.case \in Cases /\ case[o.case].status # "ABSENT" BY <1>1, OwnCase, CaseThere
<1>5. StepFrom({r}) BY AssessKeeps
<1>6. <<r, "main">> \in Docs /\ doc[<<r, "main">>] = NoDocument BY <1>1 DEF Docs
<1>7. Lent' = Lent BY <1>2, LentSame
<1>8. \A c \in Cases : case'[c] = case[c] \/ c = o.case BY <1>2 DEF Known, TypeOK
<1> QED BY <1>2, <1>3, <1>4, <1>5, <1>6, <1>7, <1>8, RecordedMoves

\* collect() of a receivable.
LEMMA CollectMoves ==
  ASSUME Known, NEW r \in Requests, Collect(r)
  PROVE  LedgerMoves
<1> DEFINE o == op[r]
           v == view[r]
           d == Collection(o.debt, o.amount, Now)
<1>1. /\ Running(r) /\ Ready(r, o, v) /\ o.kind = "collect"
      /\ \A x \in Docs : x[1] = r => doc[x] = NoDocument
  BY CommitFacts DEF Collect
<1>2. /\ doc' = [doc EXCEPT ![<<r, "main">>] = d] /\ case' = case /\ Post(Journal(d))
  BY DEF Collect, CollectEffect, Collection
<1>3. \A b \in Debts : debt'[b].source = debt[b].source
  <2>1. debt \in [Debts -> DebtRow] BY DEF Known, TypeOK
  <2> QED BY <2>1 DEF Collect, CollectEffect, DebtRow
<1>4. d.kind = "collection" BY DEF Collection, NoDocument
<1> HIDE DEF o, v, d
<1>5. StepFrom({r}) BY CollectKeeps
<1>6. <<r, "main">> \in Docs /\ doc[<<r, "main">>] = NoDocument BY <1>1 DEF Docs
<1>7. Lent' = Lent BY <1>3, LentSame
<1> QED BY <1>2, <1>4, <1>5, <1>6, <1>7, RecordedMoves

\* createCardLedgerEntry(), a Pay In.
LEMMA PayInMoves ==
  ASSUME Known, NEW r \in Requests, TakePayIn(r)
  PROVE  LedgerMoves
<1> DEFINE o == op[r]
           v == view[r]
           d == PayIn(o, v)
<1>1. /\ Running(r) /\ Ready(r, o, v) /\ o.kind = "payin"
      /\ \A x \in Docs : x[1] = r => doc[x] = NoDocument
  BY CommitFacts DEF TakePayIn
<1>2. /\ doc' = [doc EXCEPT ![<<r, "main">>] = d] /\ TakeReceipt(d, v)
      /\ Post(Journal(d)) /\ debt' = debt
  BY DEF TakePayIn, PayInEffect
<1>3. /\ d.kind = "payin" /\ d.commission = Nothing
      /\ d.principal = [c \in Cases |-> IF c = o.case THEN o.part ELSE 0]
  BY DEF PayIn, NoDocument
<1> HIDE DEF o, v, d
<1>4. ASSUME NEW c \in Settled(d) PROVE c \in Cases /\ case[c].status # "ABSENT"
  <2>1. c \in Cases /\ c = o.case BY <1>3 DEF Settled, Nothing
  <2> QED BY <1>1, <2>1, CaseThere
<1>5. StepFrom({r}) BY PayInKeeps
<1>6. <<r, "main">> \in Docs /\ doc[<<r, "main">>] = NoDocument BY <1>1 DEF Docs
<1>7. Lent' = Lent BY <1>2, LentSame
<1>8. \A c \in Cases : case'[c] = case[c] \/ c \in Settled(d) BY <1>2 DEF TakeReceipt
<1> QED BY <1>2, <1>3, <1>4, <1>5, <1>6, <1>7, <1>8, RecordedMoves

\* addCombinedReceipt().
LEMMA CombinedMoves ==
  ASSUME Known, NEW r \in Requests, Combined(r)
  PROVE  LedgerMoves
<1> DEFINE o == op[r]
           v == view[r]
           d == CombinedReceipt(o, v)
<1>1. /\ Running(r) /\ Ready(r, o, v) /\ o.kind = "combined"
      /\ \A x \in Docs : x[1] = r => doc[x] = NoDocument
  BY CommitFacts DEF Combined
<1>2. /\ doc' = [doc EXCEPT ![<<r, "main">>] = d] /\ TakeReceipt(d, v)
      /\ Post(Journal(d)) /\ debt' = debt
  BY DEF Combined, CombinedEffect
<1>3. d.kind = "combined" BY DEF CombinedReceipt, NoDocument
<1>4. \A c \in Cases : ~Open(c, v) => d.principal[c] = 0 /\ d.commission[c] = 0
  BY DEF CombinedReceipt, NoDocument
<1> HIDE DEF o, v, d
<1>5. ASSUME NEW c \in Settled(d) PROVE c \in Cases /\ case[c].status # "ABSENT"
  <2>1. c \in Cases /\ Open(c, v) BY <1>4 DEF Settled
  <2>2. c \in Live BY <1>1, <2>1 DEF Ready
  <2> QED BY <2>1, <2>2 DEF Live
<1>6. StepFrom({r}) BY CombinedKeeps
<1>7. <<r, "main">> \in Docs /\ doc[<<r, "main">>] = NoDocument BY <1>1 DEF Docs
<1>8. Lent' = Lent BY <1>2, LentSame
<1>9. \A c \in Cases : case'[c] = case[c] \/ c \in Settled(d) BY <1>2 DEF TakeReceipt
<1> QED BY <1>2, <1>3, <1>5, <1>6, <1>7, <1>8, <1>9, RecordedMoves

\* addCustomerRecovery().
LEMMA RecoverAllMoves ==
  ASSUME Known, NEW r \in Requests, RecoverAll(r)
  PROVE  LedgerMoves
<1> DEFINE o == op[r]
           v == view[r]
           made == AllRecoveries(r, o, v)
           D == AllDocs(r, o, v)
<1>1. /\ Running(r) /\ Ready(r, o, v) /\ o.kind = "recoverAll" /\ RecoverAllChecks(r, o, v)
      /\ \A x \in Docs : x[1] = r => doc[x] = NoDocument
  BY CommitFacts DEF RecoverAll, Checks
<1>2. /\ doc' = [x \in Docs |-> IF x \in DOMAIN made THEN made[x] ELSE doc[x]]
      /\ \A c \in Cases : case'[c] # case[c] => \E x \in DOMAIN made : made[x].case = c
      /\ ledger' = [l \in Ledgers |-> ledger[l]
                      + SumFunction([x \in DOMAIN made |-> Journal(made[x])[l]])]
      /\ debt' = debt
  BY DEF RecoverAll, RecoverAllEffect
<1>3. /\ D \in SUBSET Docs /\ made \in [D -> Document] /\ \A x \in D : made[x].case \in Live
      /\ SharedOut(r, D, made, v.targets, PartOf(o, v), Newest(v.targets), ExcessOf(o, v))
  BY <1>1, AllShared
<1> HIDE DEF o, v, made, D
<1>4. DOMAIN made = D BY <1>3
<1>5. \A x \in D : Standing(made[x]) /\ x[1] = r BY <1>3 DEF SharedOut, RecoversFrom
<1>6. \A x \in D : doc[x] = NoDocument BY <1>1, <1>3, <1>5
<1>7. StepFrom({r}) BY RecoverAllKeeps
<1>8. Live' = Live
  <2>1. ASSUME NEW c \in Cases, NEW x \in D, made[x].case = c
        PROVE  case[c].status # "ABSENT" /\ c \in Live'
    <3>1. doc'[x] = made[x] BY <1>2, <1>3, <1>4
    <3>2. DocStep({r}, x) BY <1>3, <1>7 DEF StepFrom, TableStep
    <3>3. made[x].kind # "none" /\ ~Standing(NoDocument) /\ NoDocument.kind = "none"
      BY <1>5, NoDocumentFits DEF Standing, NoDocument
    <3>4. DocRecorded(x, made[x]) BY <1>6, <3>1, <3>2, <3>3 DEF DocStep, DocUndone
    <3> QED BY <1>3, <2>1, <3>4 DEF DocRecorded, Live
  <2> QED BY <1>2, <1>4, <1>7, <2>1, LiveKept
<1>9. Lent' = Lent BY <1>2, LentSame
<1>10. doc \in [Docs -> Document] /\ ledger \in [Ledgers -> Int] BY DEF Known, TypeOK
<1>11. ASSUME NEW l \in Ledgers PROVE ledger'[l] - ledger[l] = Gain(Posted(l)) /\ Gain(Posted(l)) \in Int
  <2> DEFINE f == [x \in D |-> Posted(l)[made[x]]]
  <2>1. Posted(l) \in [Document -> Int] /\ Posted(l)[NoDocument] = 0 BY NoDocumentFits, PostedTypes
  <2>2. \A x \in D : Posted(l)[doc[x]] = 0 BY <1>6, <2>1
  <2>3. Tally(Posted(l), doc') - Tally(Posted(l), doc) = SumFunction(f)
    BY <1>2, <1>3, <1>4, <1>10, <2>1, <2>2, TallyMore
  <2>4. f = [x \in D |-> Journal(made[x])[l]] BY <1>3, <1>5, PostedTypes
  <2>5. f \in [D -> Int] /\ IsFiniteSet(D) BY <1>3, <2>1, DocsFinite, FS_Subset
  <2>6. ledger'[l] = ledger[l] + SumFunction(f) BY <1>2, <1>4, <2>4
  <2> HIDE DEF f
  <2>7. SumFunction(f) \in Int /\ ledger[l] \in Int BY <1>10, <2>5, SumType
  <2> QED BY <2>3, <2>6, <2>7 DEF Gain
<1>12. ASSUME NEW l \in Ledgers
       PROVE  OfCases(Live', l) - OfCases(Live, l) = 0 /\ OfDebts(Lent', l) - OfDebts(Lent, l) = 0
  <2>1. OfCases(Live, l) \in Int /\ OfDebts(Lent, l) \in Int BY RowsPosted
  <2> QED BY <1>8, <1>9, <2>1
<1> QED BY <1>11, <1>12 DEF LedgerMoves

\* create() of a card due, with or without a first recovery.
LEMMA CreateCaseMoves ==
  ASSUME Known, ReceiptsFindAll, NEW r \in Requests, NEW c \in Cases, NEW n \in Amounts \cup {0},
         CreateCase(r, c, n)
  PROVE  LedgerMoves
<1> DEFINE row == [NoCase EXCEPT !.left = Due[c], !.fee = Fee[c], !.unpaid = Fee[c],
                                 !.born = Now, !.status = "PENDING"]
           d == Recovery(c, n, Due[c], Now + 1)
           x == <<r, "main">>
           charges == [l \in Ledgers |-> CaseJournal(c)[l] + (IF n = 0 THEN 0 ELSE Journal(d)[l])]
           new == IF n = 0 THEN row ELSE Receive(row, d.principal[c], 0)
<1>1. /\ case[c] = NoCase /\ case' = [case EXCEPT ![c] = new] /\ Post(charges) /\ debt' = debt
      /\ IF n = 0 THEN doc' = doc ELSE stage[r] = 0 /\ doc' = [doc EXCEPT ![x] = d]
  BY DEF CreateCase
<1>2. new.status # "ABSENT"
  <2>1. row.status = "PENDING" BY DEF NoCase
  <2>2. Receive(row, d.principal[c], 0).status = MasterStatus(row.recovered + d.principal[c], row.left - d.principal[c])
    BY DEF Receive, NoCase
  <2>3. \A a, b : MasterStatus(a, b) # "ABSENT" BY DEF MasterStatus
  <2> QED BY <2>1, <2>2, <2>3
<1>3. d.kind = "recovery" /\ Standing(d) BY DEF Recovery, NoDocument, Standing
<1> HIDE DEF row, d, new
<1>4. StepFrom({}) BY CreateCaseKeeps
<1>5. /\ doc \in [Docs -> Document] /\ case \in [Cases -> CaseRow] /\ ledger \in [Ledgers -> Int]
  BY DEF Known, TypeOK
<1>6. doc' \in [Docs -> Document] BY <1>4, NewDocs
<1>7. Live' = Live \cup {c} /\ c \notin Live
  <2>1. case'[c].status # "ABSENT" /\ case[c].status = "ABSENT" BY <1>1, <1>2, <1>5 DEF NoCase
  <2>2. c \in Live' BY <1>4, <2>1, CaseOpens
  <2>3. \A y \in Cases \ {c} : case'[y] = case[y] BY <1>1
  <2> QED BY <2>1, <2>2, <2>3 DEF Live
<1>8. Lent' = Lent BY <1>1, LentSame
<1>9. ASSUME NEW l \in Ledgers
      PROVE  Gain(Posted(l)) = IF n = 0 THEN 0 ELSE Journal(d)[l]
  <2>1. CASE n = 0 BY <1>1, <2>1, SameGain
  <2>2. CASE n # 0
    <3>1. x \in Docs /\ doc[x] = NoDocument
      <4>1. Fresh(r) BY KnownParts
      <4> QED BY <1>1, <2>2, <4>1 DEF Docs, Fresh
    <3> HIDE DEF x
    <3>2. doc'[x] = d /\ d \in Document /\ \A y \in Docs \ {x} : doc'[y] = doc[y]
      BY <1>1, <1>5, <1>6, <2>2, <3>1
    <3>3. Posted(l) \in [Document -> Int] /\ Posted(l)[d] = Journal(d)[l] /\ Posted(l)[NoDocument] = 0
          /\ Journal(d)[l] \in Int
      BY <1>3, <3>2, NoDocumentFits, PostedTypes
    <3>4. Tally(Posted(l), doc') - Tally(Posted(l), doc) = Posted(l)[doc'[x]] - Posted(l)[doc[x]]
      BY ONLY <1>5, <1>6, <3>1, <3>2, <3>3, TallyOne
    <3>5. Gain(Posted(l)) = Tally(Posted(l), doc') - Tally(Posted(l), doc) BY <1>5, <1>6, GainIs
    <3> QED BY <2>2, <3>1, <3>2, <3>3, <3>4, <3>5
  <2> QED BY <2>1, <2>2
<1>10. ASSUME NEW l \in Ledgers
       PROVE  ledger'[l] - ledger[l] = Gain(Posted(l)) + (OfCases(Live', l) - OfCases(Live, l))
                                                       + (OfDebts(Lent', l) - OfDebts(Lent, l))
  <2>1. OfCases(Live', l) - OfCases(Live, l) = CaseJournal(c)[l] BY <1>7, OneMore
  <2>2. OfDebts(Lent', l) - OfDebts(Lent, l) = 0 BY <1>8, RowsPosted
  <2>3. ledger'[l] = ledger[l] + (CaseJournal(c)[l] + Gain(Posted(l))) BY <1>1, <1>9 DEF Post
  <2>4. CaseJournal(c)[l] \in Int /\ Gain(Posted(l)) \in Int /\ ledger[l] \in Int
    BY <1>5, <1>6, GainIs, RowsPosted
  <2> QED BY <2>1, <2>2, <2>3, <2>4
<1> QED BY <1>10 DEF LedgerMoves

\* reverse() of a card due.
LEMMA ReverseCaseMoves ==
  ASSUME Known, RowsReversedAlone, NEW r \in Requests, ReverseCase(r)
  PROVE  LedgerMoves
<1> DEFINE o == op[r]
           v == view[r]
           c == o.case
<1>1. /\ Ready(r, o, v) /\ o.kind = "reverseCase" /\ ReverseCaseChecks(o, v)
  BY CommitFacts DEF ReverseCase, Checks
<1>2. /\ case' = [case EXCEPT ![c].status = "REVERSED"] /\ PostReversal(CaseJournal(c))
      /\ debt' = debt /\ doc' = doc
  BY DEF ReverseCase, ReverseCaseEffect
<1> HIDE DEF o, v
<1>3. c \in Cases BY <1>1 DEF Ready, CallOK, OfCase
<1>4. v.case[c] = case[c]
  <2>1. c \in Mine(o, v) /\ o.kind \notin OfDebt BY <1>1, <1>3 DEF Mine, Many, OfDebt
  <2> QED BY <1>1, <2>1 DEF Ready
<1>5. c \in Live BY <1>1, <1>3, <1>4, OpenLive DEF ReverseCaseChecks
<1> HIDE DEF c
<1>6. case \in [Cases -> CaseRow] /\ ledger \in [Ledgers -> Int] BY DEF Known, TypeOK
<1>7. Live = Live' \cup {c} /\ c \notin Live'
  <2>1. case'[c].status = "REVERSED" /\ \A x \in Cases \ {c} : case'[x] = case[x]
    BY <1>2, <1>3, <1>6 DEF CaseRow
  <2> QED BY <1>5, <2>1 DEF Live
<1>8. Lent' = Lent BY <1>2, LentSame
<1>9. ASSUME NEW l \in Ledgers
      PROVE  ledger'[l] - ledger[l] = Gain(Posted(l)) + (OfCases(Live', l) - OfCases(Live, l))
                                                      + (OfDebts(Lent', l) - OfDebts(Lent, l))
  <2>1. OfCases(Live, l) - OfCases(Live', l) = CaseJournal(c)[l] BY <1>3, <1>7, OneMore
  <2>2. OfDebts(Lent', l) - OfDebts(Lent, l) = 0 BY <1>8, RowsPosted
  <2>3. ledger'[l] = ledger[l] - CaseJournal(c)[l] BY <1>2 DEF PostReversal
  <2>4. CaseJournal(c)[l] \in Int /\ Gain(Posted(l)) = 0 /\ ledger[l] \in Int
        /\ OfCases(Live, l) \in Int /\ OfCases(Live', l) \in Int
    BY <1>2, <1>3, <1>6, SameGain, RowsPosted
  <2> QED BY <2>1, <2>2, <2>3, <2>4
<1> QED BY <1>9 DEF LedgerMoves

\* create() of a receivable.
LEMMA CreateReceivableMoves ==
  ASSUME Known, NEW b \in Debts, CreateReceivable(b)
  PROVE  LedgerMoves
<1>1. /\ debt[b] = NoDebt /\ Post(DebtJournal(b)) /\ case' = case /\ doc' = doc
      /\ debt'[b].source = "COMPLETED" /\ \A x \in Debts \ {b} : debt'[x] = debt[x]
  BY DEF CreateReceivable, Known, TypeOK
<1>2. ledger \in [Ledgers -> Int] BY DEF Known, TypeOK
<1>3. Lent' = Lent \cup {b} /\ b \notin Lent BY <1>1 DEF Lent, NoDebt
<1>4. Live' = Live BY <1>1 DEF Live
<1>5. ASSUME NEW l \in Ledgers
      PROVE  ledger'[l] - ledger[l] = Gain(Posted(l)) + (OfCases(Live', l) - OfCases(Live, l))
                                                      + (OfDebts(Lent', l) - OfDebts(Lent, l))
  <2>1. OfDebts(Lent', l) - OfDebts(Lent, l) = DebtJournal(b)[l] BY <1>3, OneMore
  <2>2. OfCases(Live', l) - OfCases(Live, l) = 0 BY <1>4, RowsPosted
  <2>3. ledger'[l] = ledger[l] + DebtJournal(b)[l] BY <1>1 DEF Post
  <2>4. DebtJournal(b)[l] \in Int /\ Gain(Posted(l)) = 0 /\ ledger[l] \in Int
    BY <1>1, <1>2, SameGain, RowsPosted
  <2> QED BY <2>1, <2>2, <2>3, <2>4
<1> QED BY <1>5 DEF LedgerMoves

\* cancel() and reverse() of a receivable.
LEMMA CloseMoves ==
  ASSUME Known, NEW o, o.debt \in Debts, NEW status, CloseDebt(o, status), o.debt \in Lent
  PROVE  LedgerMoves
<1> DEFINE b == o.debt
<1>1. /\ PostReversal(DebtJournal(b)) /\ case' = case /\ doc' = doc
      /\ debt'[b].source = "REVERSED" /\ \A x \in Debts \ {b} : debt'[x] = debt[x]
  <2>1. debt \in [Debts -> DebtRow] BY DEF Known, TypeOK
  <2> QED BY <2>1 DEF CloseDebt, DebtRow
<1> HIDE DEF b
<1>2. ledger \in [Ledgers -> Int] /\ b \in Debts BY DEF Known, TypeOK, b
<1>3. Lent = Lent' \cup {b} /\ b \notin Lent' BY <1>1 DEF Lent, b
<1>4. Live' = Live BY <1>1 DEF Live
<1>5. ASSUME NEW l \in Ledgers
      PROVE  ledger'[l] - ledger[l] = Gain(Posted(l)) + (OfCases(Live', l) - OfCases(Live, l))
                                                      + (OfDebts(Lent', l) - OfDebts(Lent, l))
  <2>1. OfDebts(Lent, l) - OfDebts(Lent', l) = DebtJournal(b)[l] BY <1>2, <1>3, OneMore
  <2>2. OfCases(Live', l) - OfCases(Live, l) = 0 BY <1>4, RowsPosted
  <2>3. ledger'[l] = ledger[l] - DebtJournal(b)[l] BY <1>1 DEF PostReversal
  <2>4. DebtJournal(b)[l] \in Int /\ Gain(Posted(l)) = 0 /\ ledger[l] \in Int
        /\ OfDebts(Lent, l) \in Int /\ OfDebts(Lent', l) \in Int
    BY <1>1, <1>2, SameGain, RowsPosted
  <2> QED BY <2>1, <2>2, <2>3, <2>4
<1> QED BY <1>5 DEF LedgerMoves

\* Both have found the receivable there.
LEMMA DebtsClose ==
  ASSUME Known, NEW r \in Requests, Cancel(r) \/ ReverseDebt(r)
  PROVE  LedgerMoves
<1> DEFINE o == op[r]
           v == view[r]
<1>1. CASE Cancel(r)
  <2>1. Ready(r, o, v) /\ o.kind = "cancel" /\ CancelChecks(o, v) /\ CloseDebt(o, "CANCELLED")
    BY <1>1, CommitFacts DEF Cancel, CancelEffect, Checks
  <2> HIDE DEF o, v
  <2>2. o.debt \in Debts /\ v.debt.status = debt[o.debt].status /\ debt[o.debt].source # "ABSENT"
    BY <2>1 DEF Ready, OfDebt, CallFits
  <2>3. debt[o.debt] \in DebtRow /\ DebtOK(o.debt) BY <2>2 DEF Known, TypeOK, Books
  <2>4. o.debt \in Lent BY <2>1, <2>2, <2>3 DEF CancelChecks, DebtOK, DebtRow, Lent
  <2> QED BY <2>1, <2>2, <2>4, CloseMoves
<1>2. CASE ReverseDebt(r)
  <2>1. Ready(r, o, v) /\ o.kind = "reverseDebt" /\ ReverseDebtChecks(o, v) /\ CloseDebt(o, "REVERSED")
    BY <1>2, CommitFacts DEF ReverseDebt, ReverseDebtEffect, Checks
  <2> HIDE DEF o, v
  <2>2. o.debt \in Debts /\ v.debt.source = debt[o.debt].source BY <2>1 DEF Ready, OfDebt
  <2>3. o.debt \in Lent BY <2>1, <2>2 DEF ReverseDebtChecks, Lent
  <2> QED BY <2>1, <2>2, <2>3, CloseMoves
<1> QED BY <1>1, <1>2

\* reverse() of a document.
LEMMA UndoMoves ==
  ASSUME Known, NEW r \in Requests,
         \/ ReverseRecovery(r) \/ ReverseCommission(r) \/ ReverseAssessment(r)
         \/ ReverseReceipt(r) \/ ReverseCollection(r)
  PROVE  LedgerMoves
<1> DEFINE o == op[r]
           v == view[r]
           x == o.target
<1>1. /\ Running(r) /\ Ready(r, o, v) /\ o.kind \in Undo /\ ReverseChecks(o, v) /\ MarkReversed(o, v)
      /\ \/ o.kind \in CaseUndo /\ \E row : case' = [case EXCEPT ![o.case] = row]
         \/ o.kind = "reverseCollection" /\ case' = case
         \/ o.kind = "reverseReceipt" /\ \A c \in Cases : c \notin Settled(v.doc) => case'[c] = case[c]
      /\ StepFrom({r})
  <2>1. CASE ReverseRecovery(r)
    BY <2>1, CommitFacts, ReverseRecoveryKeeps
       DEF ReverseRecovery, ReverseRecoveryEffect, Checks, Undo, CaseUndo
  <2>2. CASE ReverseCommission(r)
    BY <2>2, CommitFacts, ReverseCommissionKeeps
       DEF ReverseCommission, ReverseCommissionEffect, Checks, Undo, CaseUndo
  <2>3. CASE ReverseAssessment(r)
    BY <2>3, CommitFacts, ReverseAssessmentKeeps
       DEF ReverseAssessment, ReverseAssessmentEffect, ReverseAssessmentChecks, Checks, Undo, CaseUndo
  <2>4. CASE ReverseReceipt(r)
    BY <2>4, CommitFacts, ReverseReceiptKeeps
       DEF ReverseReceipt, ReverseReceiptEffect, ReverseReceiptChecks, Checks, Undo
  <2>5. CASE ReverseCollection(r)
    BY <2>5, CommitFacts, ReverseCollectionKeeps
       DEF ReverseCollection, ReverseCollectionEffect, Checks, Undo
  <2> QED BY <2>1, <2>2, <2>3, <2>4, <2>5
<1>2. Lent' = Lent
  <2>1. debt' = debt \/ \A b \in Debts : debt'[b].source = debt[b].source
    <3>1. CASE ~ReverseCollection(r)
      BY <3>1 DEF ReverseRecovery, ReverseRecoveryEffect, ReverseCommission, ReverseCommissionEffect,
                  ReverseAssessment, ReverseAssessmentEffect, ReverseReceipt, ReverseReceiptEffect
    <3>2. CASE ReverseCollection(r)
      <4>1. debt \in [Debts -> DebtRow] BY DEF Known, TypeOK
      <4> QED BY <3>2, <4>1 DEF ReverseCollection, ReverseCollectionEffect, DebtRow
    <3> QED BY <3>1, <3>2
  <2> QED BY <2>1, LentSame
<1> HIDE DEF o, v
<1>3. TakesBack(r, o, v, x, doc[x]) BY <1>1, ReversalFacts
<1>4. /\ x \in Docs /\ Standing(doc[x]) /\ doc' = [doc EXCEPT ![x].status = "REVERSED"]
      /\ v.doc = doc[x] /\ o.case = doc[x].case
  BY <1>3 DEF TakesBack
<1>5. PostReversal(Journal(doc[x])) BY <1>1, <1>4 DEF MarkReversed
<1>6. ASSUME NEW c \in Cases PROVE case'[c] = case[c] \/ Touches(x, c)
  <2>1. CASE \E row : case' = [case EXCEPT ![o.case] = row]
    <3>1. case \in [Cases -> CaseRow] BY DEF Known, TypeOK
    <3>2. case'[c] = case[c] \/ c = o.case BY <2>1, <3>1
    <3> QED BY <1>4, <3>2 DEF Touches
  <2>2. CASE case' = case BY <2>2
  <2>3. CASE \A y \in Cases : y \notin Settled(v.doc) => case'[y] = case[y] BY <1>4, <2>3 DEF Touches
  <2> QED BY <1>1, <2>1, <2>2, <2>3
<1> HIDE DEF x
<1> QED BY <1>1, <1>2, <1>4, <1>5, <1>6, UndoneMoves

\* Every step posts what it changes.
LEMMA StepsPost ==
  ASSUME Known, RowsReversedAlone, ReceiptsFindAll, [Next]_vars
  PROVE  LedgerMoves
<1>1. ASSUME NEW r \in Requests, Acts(r) PROVE LedgerMoves
  <2>1. CASE Begin(r) BY <2>1, NothingMoves DEF Begin, Live, Lent
  <2>2. CASE Advance(r) BY <2>2, NothingMoves DEF Advance, Live, Lent
  <2>3. CASE Reject(r) \/ Abort(r) BY <2>3, NothingMoves DEF Reject, Abort, tables, Live, Lent
  <2>4. CASE Recover(r) BY <2>4, RecoverMoves
  <2>5. CASE RecoverAll(r) BY <2>5, RecoverAllMoves
  <2>6. CASE Combined(r) BY <2>6, CombinedMoves
  <2>7. CASE TakePayIn(r) BY <2>7, PayInMoves
  <2>8. CASE Commission(r) BY <2>8, CommissionMoves
  <2>9. CASE Assess(r) BY <2>9, AssessMoves
  <2>10. CASE Collect(r) BY <2>10, CollectMoves
  <2>11. CASE Cancel(r) \/ ReverseDebt(r) BY <2>11, DebtsClose
  <2>12. CASE \/ ReverseRecovery(r) \/ ReverseCommission(r) \/ ReverseAssessment(r)
              \/ ReverseReceipt(r) \/ ReverseCollection(r)
    BY <2>12, UndoMoves
  <2>13. CASE ReverseCase(r) BY <2>13, ReverseCaseMoves
  <2> QED BY <1>1, <2>1, <2>2, <2>3, <2>4, <2>5, <2>6, <2>7, <2>8, <2>9, <2>10, <2>11, <2>12, <2>13
          DEF Acts
<1>2. ASSUME NEW b \in Debts, CreateReceivable(b) PROVE LedgerMoves BY <1>2, CreateReceivableMoves
<1>3. ASSUME NEW r \in Requests, NEW c \in Cases, NEW n \in Amounts \cup {0}, CreateCase(r, c, n)
      PROVE  LedgerMoves
  BY <1>3, CreateCaseMoves
<1>4. CASE List
  <2>1. case' = case /\ doc' = doc /\ ledger' = ledger /\ \A b \in Debts : debt'[b].source = debt[b].source
    <3>1. debt \in [Debts -> DebtRow] BY DEF Known, TypeOK
    <3> QED BY <1>4, <3>1 DEF List, DebtRow
  <2>2. Lent' = Lent BY <2>1, LentSame
  <2> QED BY <2>1, <2>2, NothingMoves DEF Live
<1>5. CASE NextDay BY <1>5, NothingMoves DEF NextDay, Live, Lent
<1>6. CASE UNCHANGED vars BY <1>6, NothingMoves DEF vars, Live, Lent
<1>7. Next => \/ \E d \in Debts : CreateReceivable(d)
              \/ \E r \in Requests, c \in Cases, n \in Amounts \cup {0} : CreateCase(r, c, n)
              \/ List \/ NextDay
              \/ \E r \in Requests : Acts(r)
  BY DEF Next, Acts
<1> QED BY <1>1, <1>2, <1>3, <1>4, <1>5, <1>6, <1>7

\* In the beginning there is the opening balance.
LEMMA LedgerInit == Init => LedgerSays
<1> SUFFICES ASSUME Init, NEW l \in Ledgers
             PROVE  ledger[l] = Start(l) + Tally(Posted(l), doc) + OfCases(Live, l) + OfDebts(Lent, l)
  BY DEF LedgerSays
<1>1. Live = {} /\ Lent = {} BY DEF Init, Live, Lent, NoCase, NoDebt
<1>2. Tally(Posted(l), doc) = 0
  <2>1. doc \in [Docs -> Document] BY KnownInit DEF Known, TypeOK
  <2>2. \A x \in Docs : Posted(l)[doc[x]] = 0 BY NoDocumentFits, PostedTypes DEF Init
  <2> QED BY <2>1, <2>2, PostedTypes, TallyNone
<1>3. OfCases({}, l) = 0
  <2> DEFINE f == [c \in Cases |-> IF c \in {} THEN CaseJournal(c)[l] ELSE 0]
  <2>1. f \in [Cases -> Int] /\ \A c \in Cases : f[c] = 0 OBVIOUS
  <2>2. OfCases({}, l) = SumFunction(f) BY DEF OfCases
  <2> HIDE DEF f
  <2> QED BY <2>1, <2>2, SumZero, DuesAssumption
<1>4. OfDebts({}, l) = 0
  <2> DEFINE f == [b \in Debts |-> IF b \in {} THEN DebtJournal(b)[l] ELSE 0]
  <2>1. f \in [Debts -> Int] /\ \A b \in Debts : f[b] = 0 OBVIOUS
  <2>2. OfDebts({}, l) = SumFunction(f) BY DEF OfDebts
  <2> HIDE DEF f
  <2> QED BY <2>1, <2>2, SumZero, DuesAssumption
<1>5. ledger[l] = Start(l) /\ Start(l) \in Int BY DuesAssumption DEF Init, NoJournal, Start, Ledgers
<1> QED BY <1>1, <1>2, <1>3, <1>4, <1>5

(* A receivable that is RECEIVED is paid, one that is OVERDUE is due.      *)
StatusesStand ==
    \A b \in Debts : /\ debt[b].status = "RECEIVED" => debt[b].remaining <= 0
                     /\ debt[b].status = "OVERDUE" => DueDay[b] <= today

\* A receivable whose status stands.
LEMMA StatusStands ==
  ASSUME Known, StatusesStand, NEW b \in Debts, today <= today', today' \in Nat,
         \/ debt'[b] = debt[b]
         \/ /\ debt'[b].status = "RECEIVED" => debt'[b].remaining <= 0
            /\ debt'[b].status = "OVERDUE" => DueDay[b] <= today
  PROVE  /\ debt'[b].status = "RECEIVED" => debt'[b].remaining <= 0
         /\ debt'[b].status = "OVERDUE" => DueDay[b] <= today'
<1>1. DueDay[b] \in Nat /\ today \in Nat BY DuesAssumption DEF Known, TypeOK
<1> QED BY <1>1 DEF StatusesStand

\* What the steps do to the receivables.
LEMMA DebtsWritten ==
  ASSUME Known, StatusesStand, [Next]_vars, NEW b \in Debts
  PROVE  /\ today <= today' /\ today' \in Nat
         /\ \/ debt'[b] = debt[b]
            \/ /\ debt'[b].status = "RECEIVED" => debt'[b].remaining <= 0
               /\ debt'[b].status = "OVERDUE" => DueDay[b] <= today
<1> DEFINE Stands == /\ debt'[b].status = "RECEIVED" => debt'[b].remaining <= 0
                     /\ debt'[b].status = "OVERDUE" => DueDay[b] <= today
           Goal == today <= today' /\ today' \in Nat /\ (debt'[b] = debt[b] \/ Stands)
<1> SUFFICES Goal OBVIOUS
<1>1. /\ debt \in [Debts -> DebtRow] /\ DueDay[b] \in Nat /\ today \in Nat /\ MaxDay \in Nat
      /\ debt[b] \in DebtRow
  BY DuesAssumption DEF Known, TypeOK
<1>2. today \in 0..MaxDay BY DEF Known, TypeOK
<1>3. ASSUME NEW r \in Requests, Acts(r) PROVE Goal
  <2>1. today' = today
    BY <1>3 DEF Acts, Begin, Advance, Reject, Abort, Finish, Commits, Recover, RecoverAll, Combined,
                TakePayIn, Commission, Assess, Collect, Cancel, ReverseRecovery, ReverseReceipt,
                ReverseCommission, ReverseAssessment, ReverseCase, ReverseDebt, ReverseCollection
  <2>2. CASE Collect(r)
    <3> DEFINE o == op[r]
               v == view[r]
               remaining == Larger(0, v.debt.remaining - o.amount)
               status == IF remaining = 0 THEN "RECEIVED"
                         ELSE IF DueDay[o.debt] < today THEN "OVERDUE" ELSE "PARTIALLY_RECEIVED"
    <3>1. debt' = [debt EXCEPT ![o.debt] =
                     [@ EXCEPT !.received = v.debt.received + o.amount, !.remaining = remaining,
                               !.status = status]]
      BY <2>2 DEF Collect, CollectEffect
    <3>2. /\ status = "RECEIVED" => remaining <= 0
          /\ status = "OVERDUE" => DueDay[o.debt] <= today \/ o.debt # b
      <4> HIDE DEF remaining, o
      <4> QED BY <1>1
    <3> HIDE DEF o, v, remaining, status
    <3>3. CASE b = o.debt
      <4>1. debt'[b].status = status /\ debt'[b].remaining = remaining
        BY <1>1, <3>1, <3>3 DEF DebtRow
      <4> QED BY <1>1, <2>1, <3>2, <3>3, <4>1
    <3>4. CASE b # o.debt BY <1>1, <2>1, <3>1, <3>4
    <3> QED BY <3>3, <3>4
  <2>3. CASE ReverseCollection(r)
    <3> DEFINE o == op[r]
               v == view[r]
               received == Larger(0, v.debt.received - v.doc.amount)
               remaining == Owing[o.debt] - received
               status(late) == IF remaining <= 0 THEN "RECEIVED" ELSE IF late THEN "OVERDUE"
                               ELSE IF received <= 0 THEN "PENDING" ELSE "PARTIALLY_RECEIVED"
    <3>1. PICK s \in {status(DueDay[o.debt] < today), status(DueDay[o.debt] <= today)} :
            debt' = [debt EXCEPT ![o.debt] =
                       [@ EXCEPT !.received = received, !.remaining = remaining, !.status = s]]
      BY <2>3 DEF ReverseCollection, ReverseCollectionEffect
    <3>2. /\ s = "RECEIVED" => remaining <= 0
          /\ s = "OVERDUE" => DueDay[o.debt] <= today \/ o.debt # b
      <4> HIDE DEF remaining, o, received
      <4>1. CASE s = status(DueDay[o.debt] < today) BY <1>1, <4>1
      <4>2. CASE s = status(DueDay[o.debt] <= today) BY <1>1, <4>2
      <4> QED BY <4>1, <4>2
    <3> HIDE DEF o, v, remaining, received, status
    <3>5. CASE b = o.debt
      <4>1. debt'[b].status = s /\ debt'[b].remaining = remaining BY <1>1, <3>1, <3>5 DEF DebtRow
      <4> QED BY <1>1, <2>1, <3>2, <3>5, <4>1
    <3>6. CASE b # o.debt BY <1>1, <2>1, <3>1, <3>6
    <3> QED BY <3>5, <3>6
  <2>4. CASE Cancel(r) \/ ReverseDebt(r)
    <3>1. PICK status \in Closed : CloseDebt(op[r], status)
      BY <2>4 DEF Cancel, CancelEffect, ReverseDebt, ReverseDebtEffect, Closed
    <3>2. debt'[b] = debt[b] \/ debt'[b].status = status BY <1>1, <3>1 DEF CloseDebt, DebtRow
    <3> QED BY <1>1, <2>1, <3>2 DEF Closed
  <2>5. CASE ~(Collect(r) \/ ReverseCollection(r) \/ Cancel(r) \/ ReverseDebt(r))
    <3>1. debt' = debt
      BY <1>3, <2>5 DEF Acts, Begin, Advance, Reject, Abort, tables, Recover, RecoverEffect,
           RecoverAll, RecoverAllEffect, Combined, CombinedEffect, TakePayIn, PayInEffect,
           Commission, CommissionEffect, Assess, AssessEffect, ReverseRecovery, ReverseRecoveryEffect,
           ReverseReceipt, ReverseReceiptEffect, ReverseCommission, ReverseCommissionEffect,
           ReverseAssessment, ReverseAssessmentEffect, ReverseCase, ReverseCaseEffect
    <3> QED BY <1>1, <2>1, <3>1
  <2> QED BY <2>2, <2>3, <2>4, <2>5
<1>4. ASSUME NEW x \in Debts, CreateReceivable(x) PROVE Goal
  <2>1. /\ debt' = [debt EXCEPT ![x] =
                      [received |-> 0, remaining |-> Owing[x], source |-> "COMPLETED",
                       status |-> IF DueDay[x] < today THEN "OVERDUE" ELSE "PENDING"]]
        /\ today' = today
    BY <1>4 DEF CreateReceivable
  <2> QED BY <1>1, <2>1
<1>5. ASSUME NEW r \in Requests, NEW c \in Cases, NEW n \in Amounts \cup {0}, CreateCase(r, c, n)
      PROVE  Goal
  <2>1. debt' = debt /\ today' = today BY <1>5 DEF CreateCase
  <2> QED BY <1>1, <2>1
<1>6. CASE List
  <2>1. today' = today /\ debt'[b] = [debt[b] EXCEPT !.status = Listed(debt[b], DueDay[b])]
    BY <1>6 DEF List
  <2>2. debt'[b].remaining = debt[b].remaining /\ debt'[b].status = Listed(debt[b], DueDay[b])
    BY <1>1, <2>1 DEF DebtRow
  <2>3. /\ debt[b].status = "RECEIVED" => debt[b].remaining <= 0
        /\ debt[b].status = "OVERDUE" => DueDay[b] <= today
    BY DEF StatusesStand
  <2>4. Stands BY <1>1, <2>2, <2>3 DEF Listed
  <2> QED BY <1>1, <2>1, <2>4
<1>7. CASE NextDay BY <1>1, <1>2, <1>7 DEF NextDay
<1>8. CASE UNCHANGED vars BY <1>1, <1>8 DEF vars
<1>9. Next => \/ \E d \in Debts : CreateReceivable(d)
              \/ \E r \in Requests, c \in Cases, n \in Amounts \cup {0} : CreateCase(r, c, n)
              \/ List \/ NextDay
              \/ \E r \in Requests : Acts(r)
  BY DEF Next, Acts
<1> QED BY <1>3, <1>4, <1>5, <1>6, <1>7, <1>8, <1>9

\* What the ledger and the receivables say stays true.
LEMMA LedgerNext ==
  ASSUME RowsReversedAlone, ReceiptsFindAll, Known, LedgerSays, StatusesStand, [Next]_vars
  PROVE  LedgerSays' /\ StatusesStand'
<1>1. LedgerSays'
  <2>1. PICK A : StepFrom(A) BY StepsAre
  <2>2. LedgerMoves BY StepsPost
  <2> QED BY <2>1, <2>2, LedgerKept
<1>2. StatusesStand'
  <2>1. ASSUME NEW b \in Debts
        PROVE  /\ debt'[b].status = "RECEIVED" => debt'[b].remaining <= 0
               /\ debt'[b].status = "OVERDUE" => DueDay[b] <= today'
    BY DebtsWritten, StatusStands
  <2> QED BY <2>1 DEF StatusesStand
<1> QED BY <1>1, <1>2

(* Every ledger account is what the documents, cases and receivables that  *)
(* stand have posted to it, through every order of calls and reversals     *)
(* (postLines(), reverse()).                                               *)
THEOREM LedgerInvariant ==
  ASSUME RowsReversedAlone, ReceiptsFindAll
  PROVE  Spec => [](LedgerSays /\ StatusesStand)
<1>1. Init => LedgerSays /\ StatusesStand
  <2>1. Init => StatusesStand BY DEF Init, StatusesStand, NoDebt
  <2> QED BY <2>1, LedgerInit
<1>2. Known /\ LedgerSays /\ StatusesStand /\ [Next]_vars => (LedgerSays /\ StatusesStand)'
  BY LedgerNext
<1>3. Spec => []Known BY KnownInvariant
<1> QED BY <1>1, <1>2, <1>3, PTL DEF Spec

---------------------------------------------------------------------------
(* Sums of reports.                                                        *)

(* a and b are the parts of f over A and over B.                           *)
InParts(S, A, B, f, a, b) ==
    /\ IsFiniteSet(S) /\ S = A \cup B /\ A \cap B = {}
    /\ f \in [S -> Int] /\ a \in [A -> Int] /\ b \in [B -> Int]
    /\ (\A x \in A : a[x] = f[x]) /\ \A x \in B : b[x] = f[x]

\* The sum over two sets that have nothing in common.
LEMMA SumUnion ==
  ASSUME NEW S, NEW A, NEW B, NEW f, NEW a, NEW b, InParts(S, A, B, f, a, b)
  PROVE  SumFunction(f) = SumFunction(a) + SumFunction(b) /\ SumFunction(a) \in Int /\ SumFunction(b) \in Int
<1> DEFINE inA == [x \in S |-> IF x \in A THEN a[x] ELSE 0]
           inB == [x \in S |-> IF x \in B THEN b[x] ELSE 0]
<1>1. IsFiniteSet(S) /\ A \in SUBSET S /\ B \in SUBSET S /\ f \in [S -> Int] BY DEF InParts
<1>2. a \in [A -> Int] /\ b \in [B -> Int] BY DEF InParts
<1>3. inA \in [S -> Int] /\ inB \in [S -> Int] /\ \A x \in S : f[x] = inA[x] + inB[x] BY DEF InParts
<1>4. SumFunction(a) = SumFunction(inA) /\ SumFunction(a) \in Int BY <1>1, <1>2, SumWhere
<1>5. SumFunction(b) = SumFunction(inB) /\ SumFunction(b) \in Int BY <1>1, <1>2, SumWhere
<1> HIDE DEF inA, inB
<1>6. SumFunction(f) = SumFunction(inA) + SumFunction(inB) BY <1>1, <1>3, SumAdd
<1> QED BY <1>4, <1>5, <1>6

(* A are the rows of T, under the tag k, where g is f and not nothing.     *)
IsTagged(T, k, A, f, g) ==
    /\ IsFiniteSet(T) /\ A \in SUBSET ({k} \X T) /\ f \in [A -> Int] /\ g \in [T -> Int]
    /\ \A t \in T : g[t] = IF <<k, t>> \in A THEN f[<<k, t>>] ELSE 0

\* The sum over the rows of T that are listed under a tag.
LEMMA SumTagged ==
  ASSUME NEW T, NEW k, NEW A, NEW f, NEW g, IsTagged(T, k, A, f, g)
  PROVE  SumFunction(f) = SumFunction(g)
<1> USE DEF IsTagged
<1> DEFINE S == {k} \X T
           h == [s \in S |-> IF s \in A THEN f[s] ELSE 0]
           m == [s \in S |-> [t \in T |-> IF s = <<k, t>> THEN h[s] ELSE 0]]
<1>1. IsFiniteSet(S) /\ IsFiniteSet(T)
  <2>1. IsFiniteSet({k}) BY FS_Singleton
  <2> QED BY <2>1, FS_Product
<1>2. h \in [S -> Int] /\ m \in [S -> [T -> Int]] OBVIOUS
<1>3. SumFunction(h) = SumFunction(f) BY <1>1, SumWhere
<1>4. ASSUME NEW s \in S PROVE SumFunction(m[s]) = h[s]
  <2>1. PICK t \in T : s = <<k, t>> OBVIOUS
  <2>2. m[s] \in [T -> Int] /\ m[s][t] = h[s] /\ \A u \in T \ {t} : m[s][u] = 0 BY <2>1
  <2> HIDE DEF m, h
  <2> QED BY <2>2, SumOfOne
<1>5. ASSUME NEW t \in T PROVE SumFunction([s \in S |-> m[s][t]]) = g[t]
  <2> DEFINE c == [s \in S |-> m[s][t]]
             x == <<k, t>>
  <2>1. x \in S /\ c \in [S -> Int] /\ c[x] = g[t] /\ \A y \in S \ {x} : c[y] = 0 OBVIOUS
  <2> HIDE DEF c, x, S
  <2>2. SumFunction(c) = c[x] BY <1>1, <2>1, SumOfOne
  <2> QED BY <2>1, <2>2 DEF c
<1> HIDE DEF S, m
<1>6. SumFunction([s \in S |-> SumFunction(m[s])])
        = SumFunction([t \in T |-> SumFunction([s \in S |-> m[s][t]])])
  BY <1>1, <1>2, SumSwap
<1>7. [s \in S |-> SumFunction(m[s])] = h BY <1>2, <1>4
<1>8. [t \in T |-> SumFunction([s \in S |-> m[s][t]])] = g BY <1>5
<1> QED BY <1>3, <1>6, <1>7, <1>8

\* A sum over the elements of a set that have nothing in it but 0 elsewhere.
LEMMA SumPart ==
  ASSUME NEW S, IsFiniteSet(S), NEW A \in SUBSET S, NEW f \in [A -> Int], NEW h \in [S -> Int],
         \A x \in S : h[x] = IF x \in A THEN f[x] ELSE 0
  PROVE  SumFunction(f) = SumFunction(h) /\ SumFunction(h) \in Int
<1>1. (\A x \in A : h[x] = f[x]) /\ \A x \in S \ A : h[x] = 0 OBVIOUS
<1> QED BY <1>1, SumExtend, SumType

(* f is a table over S and T, turned is f by columns.                      *)
IsTable(S, T, f, turned, rows, columns) ==
    /\ IsFiniteSet(S) /\ IsFiniteSet(T) /\ f \in [S -> [T -> Int]] /\ turned \in [T -> [S -> Int]]
    /\ \A t \in T : \A s \in S : turned[t][s] = f[s][t]
    /\ rows \in [S -> Int] /\ \A s \in S : rows[s] = SumFunction(f[s])
    /\ columns \in [T -> Int] /\ \A t \in T : columns[t] = SumFunction(turned[t])

\* A table by rows and by columns, each of them given.
LEMMA SumTable ==
  ASSUME NEW S, NEW T, NEW f, NEW turned, NEW rows, NEW columns, IsTable(S, T, f, turned, rows, columns)
  PROVE  SumFunction(rows) = SumFunction(columns)
<1>1. [s \in S |-> SumFunction(f[s])] = rows BY DEF IsTable
<1>2. ASSUME NEW t \in T PROVE [s \in S |-> f[s][t]] = turned[t] BY DEF IsTable
<1>3. [t \in T |-> SumFunction([s \in S |-> f[s][t]])] = columns BY <1>2 DEF IsTable
<1>4. SumFunction([s \in S |-> SumFunction(f[s])])
        = SumFunction([t \in T |-> SumFunction([s \in S |-> f[s][t]])])
  <2>1. IsFiniteSet(S) /\ IsFiniteSet(T) /\ f \in [S -> [T -> Int]] BY DEF IsTable
  <2> QED BY ONLY <2>1, SumSwap
<1> QED BY <1>1, <1>3, <1>4

(* G is for every document what the measures F[t] add up to.               *)
IsTallied(T, F, docs, G, rows, sums) ==
    /\ IsFiniteSet(T) /\ F \in [T -> [Document -> Int]] /\ docs \in [Docs -> Document]
    /\ G \in [Document -> Int] /\ rows \in [Docs -> [T -> Int]] /\ sums \in [T -> Int]
    /\ \A x \in Docs : \A t \in T : rows[x][t] = F[t][docs[x]]
    /\ \A x \in Docs : G[docs[x]] = SumFunction(rows[x])
    /\ \A t \in T : sums[t] = Tally(F[t], docs)

\* What is summed over documents one by one and for each of T.
LEMMA TallyOver ==
  ASSUME NEW T, NEW F, NEW docs, NEW G, NEW rows, NEW sums, IsTallied(T, F, docs, G, rows, sums)
  PROVE  SumFunction(sums) = Tally(G, docs)
<1> DEFINE m == [t \in T |-> [x \in Docs |-> F[t][docs[x]]]]
           all == [x \in Docs |-> G[docs[x]]]
<1>1. m \in [T -> [Docs -> Int]] /\ all \in [Docs -> Int] BY DEF IsTallied
<1>2. \A t \in T : sums[t] = SumFunction(m[t]) BY DEF Tally, IsTallied
<1>3. /\ \A x \in Docs : \A t \in T : rows[x][t] = m[t][x]
      /\ \A x \in Docs : all[x] = SumFunction(rows[x])
  BY DEF IsTallied
<1>4. Tally(G, docs) = SumFunction(all) BY DEF Tally
<1> HIDE DEF m, all
<1>5. IsTable(T, Docs, m, rows, sums, all)
  BY <1>1, <1>2, <1>3, DocsFinite DEF IsTable, IsTallied
<1>6. SumFunction(sums) = SumFunction(all) BY <1>5, SumTable
<1> QED BY <1>4, <1>6

\* Tallies add up.
LEMMA TallyAdd ==
  ASSUME NEW F \in [Document -> Int], NEW G \in [Document -> Int], NEW H \in [Document -> Int],
         NEW docs \in [Docs -> Document], \A x \in Docs : H[docs[x]] = F[docs[x]] + G[docs[x]]
  PROVE  /\ Tally(H, docs) = Tally(F, docs) + Tally(G, docs)
         /\ Tally(F, docs) \in Int /\ Tally(G, docs) \in Int
<1> DEFINE f == [x \in Docs |-> F[docs[x]]]
           g == [x \in Docs |-> G[docs[x]]]
           h == [x \in Docs |-> H[docs[x]]]
<1>1. f \in [Docs -> Int] /\ g \in [Docs -> Int] /\ h \in [Docs -> Int]
      /\ \A x \in Docs : h[x] = f[x] + g[x]
  OBVIOUS
<1>2. Tally(F, docs) = SumFunction(f) /\ Tally(G, docs) = SumFunction(g) /\ Tally(H, docs) = SumFunction(h)
  BY DEF Tally
<1> HIDE DEF f, g, h
<1>3. SumFunction(h) = SumFunction(f) + SumFunction(g) BY <1>1, DocsFinite, SumAdd
<1>4. SumFunction(f) \in Int /\ SumFunction(g) \in Int BY <1>1, DocsFinite, SumType
<1> QED BY <1>2, <1>3, <1>4

\* A tally depends on the documents there are.
LEMMA TallySame ==
  ASSUME NEW F, NEW G, NEW docs, \A x \in Docs : F[docs[x]] = G[docs[x]]
  PROVE  Tally(F, docs) = Tally(G, docs)
BY DEF Tally

\* A sum over some documents as a tally.
LEMMA TallyPart ==
  ASSUME NEW S \in SUBSET Docs, NEW docs \in [Docs -> Document], NEW F \in [Document -> Int], NEW f,
         f = [x \in S |-> f[x]], \A x \in S : f[x] = F[docs[x]], \A x \in Docs \ S : F[docs[x]] = 0
  PROVE  SumFunction(f) = Tally(F, docs)
<1> DEFINE h == [x \in Docs |-> F[docs[x]]]
<1>1. h \in [Docs -> Int] /\ f \in [S -> Int] /\ \A x \in Docs : h[x] = IF x \in S THEN f[x] ELSE 0
  OBVIOUS
<1>2. Tally(F, docs) = SumFunction(h) BY DEF Tally
<1> HIDE DEF h
<1> QED BY <1>1, <1>2, DocsFinite, SumPart

---------------------------------------------------------------------------
(* What the documents that stand add up to.                                *)

PrincipalOf == [d \in Document |-> IF Standing(d) THEN SumFunction(d.principal) ELSE 0]
CommissionOf == [d \in Document |-> IF Standing(d) THEN SumFunction(d.commission) ELSE 0]
FeeOf == [d \in Document |-> IF ~Standing(d) THEN 0 ELSE IF d.kind = "assessment" THEN d.amount ELSE d.extra]
CollectedOf == [d \in Document |-> IF Standing(d) /\ d.kind = "collection" THEN d.amount ELSE 0]
GenericOf == [d \in Document |-> IF Standing(d) THEN d.generic ELSE 0]
CreditOf == [d \in Document |-> IF Standing(d) THEN d.credit ELSE 0]
ChargeOf == [d \in Document |-> IF Standing(d) THEN d.charge ELSE 0]

(* What the customer has paid on his cards, and what of it was commission. *)
Manual == {"combined", "payin"}
TakenOf == [d \in Document |-> IF Standing(d) /\ d.kind \in Manual \cup {"recovery"} THEN d.amount ELSE 0]
ReceiptCommissionOf ==
    [d \in Document |-> IF Standing(d) /\ d.kind \in Manual THEN SumFunction(d.commission) ELSE 0]

\* They are numbers.
LEMMA MeasuresOf ==
  /\ PrincipalOf \in [Document -> Int] /\ CommissionOf \in [Document -> Int]
  /\ FeeOf \in [Document -> Int] /\ CollectedOf \in [Document -> Int]
  /\ GenericOf \in [Document -> Int] /\ CreditOf \in [Document -> Int]
  /\ ChargeOf \in [Document -> Int] /\ TakenOf \in [Document -> Int]
  /\ ReceiptCommissionOf \in [Document -> Int]
<1>1. ASSUME NEW d \in Document
      PROVE  SumFunction(d.principal) \in Int /\ SumFunction(d.commission) \in Int
  <2>1. d.principal \in [Cases -> Int] /\ d.commission \in [Cases -> Int] BY DEF Document
  <2> QED BY <2>1, SumType, DuesAssumption
<1>2. \A d \in Document : /\ d.amount \in Int /\ d.extra \in Int /\ d.generic \in Int
                          /\ d.credit \in Int /\ d.charge \in Int
  BY DEF Document
<1> QED BY <1>1, <1>2 DEF PrincipalOf, CommissionOf, FeeOf, CollectedOf, GenericOf, CreditOf, ChargeOf,
                          TakenOf, ReceiptCommissionOf

\* The sum of what a document settles of one case.
LEMMA SumOfOnly ==
  ASSUME NEW c \in Cases, NEW f \in [Cases -> Nat], Only(c, f)
  PROVE  SumFunction(f) = f[c]
<1>1. f \in [Cases -> Int] /\ \A y \in Cases \ {c} : f[y] = 0 BY DEF Only
<1> QED BY <1>1, SumOfOne, DuesAssumption

\* Nothing adds up to nothing.
LEMMA SumOfNothing == SumFunction(Nothing) = 0
<1>1. Nothing \in [Cases -> Int] /\ \A c \in Cases : Nothing[c] = 0 BY DEF Nothing
<1> QED BY <1>1, SumZero, DuesAssumption

\* What a document posts, and what it consists of.
LEMMA DocumentSays ==
  ASSUME NEW d \in Document, DocumentOK(d)
  PROVE  /\ Posted("RECEIVABLE")[d]
              = FeeOf[d] - PrincipalOf[d] - CommissionOf[d] - CollectedOf[d] - GenericOf[d]
         /\ Posted("INCOME")[d] = -FeeOf[d]
         /\ Posted("CHARGE")[d] = ChargeOf[d]
         /\ TakenOf[d] = PrincipalOf[d] + ReceiptCommissionOf[d] + GenericOf[d] + CreditOf[d]
<1>1. CASE ~Standing(d)
  BY <1>1, MinusZero DEF Posted, Ledgers, FeeOf, PrincipalOf, CommissionOf, CollectedOf, GenericOf, ChargeOf,
                TakenOf, ReceiptCommissionOf, CreditOf
<1>2. CASE Standing(d)
  <2> DEFINE P == SumFunction(d.principal)
             K == SumFunction(d.commission)
  <2>1. /\ d.principal \in [Cases -> Nat] /\ d.commission \in [Cases -> Nat] /\ d.amount \in Nat
        /\ d.charge \in Nat /\ d.generic \in Nat /\ d.extra \in Nat /\ d.credit \in Nat
        /\ d.kind \in {"none", "recovery", "combined", "payin", "commission", "assessment", "collection"}
        /\ d.kind # "none"
    BY <1>2 DEF Document, Standing
  <2>2. d.principal = Nothing => P = 0 BY SumOfNothing
  <2>3. d.commission = Nothing => K = 0 BY SumOfNothing
  <2>4. d.kind = "recovery" => P = d.amount - d.credit BY <2>1, SumOfOnly DEF DocumentOK
  <2>5. d.kind = "commission" => K = d.amount BY <2>1, SumOfOnly DEF DocumentOK
  <2>6. /\ PrincipalOf[d] = P /\ CommissionOf[d] = K /\ GenericOf[d] = d.generic /\ CreditOf[d] = d.credit
        /\ ChargeOf[d] = d.charge
        /\ FeeOf[d] = (IF d.kind = "assessment" THEN d.amount ELSE d.extra)
        /\ CollectedOf[d] = (IF d.kind = "collection" THEN d.amount ELSE 0)
        /\ TakenOf[d] = (IF d.kind \in Manual \cup {"recovery"} THEN d.amount ELSE 0)
        /\ ReceiptCommissionOf[d] = (IF d.kind \in Manual THEN K ELSE 0)
    BY <1>2 DEF FeeOf, PrincipalOf, CommissionOf, CollectedOf, GenericOf, ChargeOf, TakenOf,
                ReceiptCommissionOf, CreditOf
  <2>7. P \in Int /\ K \in Int
    <3>1. d.principal \in [Cases -> Int] /\ d.commission \in [Cases -> Int] BY <2>1
    <3> QED BY <3>1, SumType, DuesAssumption
  <2>8. /\ d.kind # "recovery" => d.charge = 0
        /\ d.kind # "payin" => d.generic = 0
        /\ d.kind \notin {"recovery", "payin"} => d.credit = 0
        /\ d.kind = "payin" => d.amount = P + d.generic + d.credit
        /\ d.kind = "combined" => d.amount = P + K
        /\ d.kind \in {"collection", "assessment", "commission"} => P = 0
        /\ d.kind \notin {"combined", "commission"} => K = 0
        /\ d.kind # "commission" => d.extra = 0
    BY <2>1, <2>2, <2>3 DEF DocumentOK, AddsUp
  <2> DEFINE posted == IF d.kind = "assessment" THEN d.amount ELSE -(d.amount - d.credit - d.extra)
             income == IF d.kind = "assessment" THEN -d.amount ELSE -d.extra
             cost == IF d.kind = "assessment" THEN 0 ELSE d.charge
  <2>9. /\ Posted("RECEIVABLE")[d] = posted /\ Posted("INCOME")[d] = income
        /\ Posted("CHARGE")[d] = cost
    BY <1>2 DEF Posted, Journal, NoJournal, Ledgers, Reduced
  <2> HIDE DEF P, K
  <2>10. posted = FeeOf[d] - PrincipalOf[d] - CommissionOf[d] - CollectedOf[d] - GenericOf[d]
    <3>1. CASE d.kind = "recovery" BY <3>1, <2>1, <2>4, <2>6, <2>7, <2>8
    <3>2. CASE d.kind = "combined" BY <3>2, <2>1, <2>6, <2>7, <2>8
    <3>3. CASE d.kind = "payin" BY <3>3, <2>1, <2>6, <2>7, <2>8
    <3>4. CASE d.kind = "commission" BY <3>4, <2>1, <2>5, <2>6, <2>7, <2>8
    <3>5. CASE d.kind = "assessment" BY <3>5, <2>1, <2>6, <2>7, <2>8
    <3>6. CASE d.kind = "collection" BY <3>6, <2>1, <2>6, <2>7, <2>8
    <3> QED BY <2>1, <3>1, <3>2, <3>3, <3>4, <3>5, <3>6
  <2>11. income = -FeeOf[d] /\ cost = ChargeOf[d] BY <2>1, <2>6, <2>8
  <2>12. TakenOf[d] = PrincipalOf[d] + ReceiptCommissionOf[d] + GenericOf[d] + CreditOf[d]
    BY <2>1, <2>4, <2>5, <2>6, <2>7, <2>8 DEF Manual
  <2> QED BY <2>9, <2>10, <2>11, <2>12
<1> QED BY <1>1, <1>2

\* What a document settles of the live cases, it settles.
LEMMA SettlesLive ==
  ASSUME Known, NEW x \in Docs, NEW d, d = doc[x]
  PROVE  /\ PrincipalOf[d] = SumFunction([c \in Live |-> Principal(c)[d]])
         /\ CommissionOf[d] = SumFunction([c \in Live |-> CommissionPaid(c)[d]])
         /\ FeeOf[d] = SumFunction([c \in Live |-> FeeAdded(c)[d]])
         /\ CollectedOf[d] = SumFunction([b \in Debts |-> Collected(b)[d]])
<1>1. d \in Document /\ DocumentOK(d) /\ DocumentFits(x) BY DEF Known, TypeOK, DocumentFits
<1>2. /\ d.principal \in [Cases -> Nat] /\ d.commission \in [Cases -> Nat] /\ d.amount \in Nat
      /\ d.extra \in Nat /\ d.case \in Cases \cup {None} /\ d.debt \in Debts \cup {None}
  BY <1>1 DEF Document
<1>3. Live \in SUBSET Cases /\ IsFiniteSet(Live) /\ IsFiniteSet(Cases) /\ IsFiniteSet(Debts)
  BY DuesAssumption, FS_Subset DEF Live
<1>4. /\ \A c \in Live : Principal(c)[d] \in Int /\ CommissionPaid(c)[d] \in Int /\ FeeAdded(c)[d] \in Int
      /\ \A b \in Debts : Collected(b)[d] \in Int
  BY <1>1, <1>2, <1>3 DEF Principal, CommissionPaid, FeeAdded, Collected
<1> DEFINE p == [c \in Live |-> Principal(c)[d]]
           k == [c \in Live |-> CommissionPaid(c)[d]]
           f == [c \in Live |-> FeeAdded(c)[d]]
           n == [b \in Debts |-> Collected(b)[d]]
<1>5. p \in [Live -> Int] /\ k \in [Live -> Int] /\ f \in [Live -> Int] /\ n \in [Debts -> Int] BY <1>4
<1>6. CASE ~Standing(d)
  <2>1. /\ \A c \in Live : p[c] = 0 /\ k[c] = 0 /\ f[c] = 0
        /\ \A b \in Debts : n[b] = 0
    BY <1>1, <1>6 DEF Principal, CommissionPaid, FeeAdded, Collected
  <2> HIDE DEF p, k, f, n
  <2>2. SumFunction(p) = 0 /\ SumFunction(k) = 0 /\ SumFunction(f) = 0 /\ SumFunction(n) = 0
    BY <1>3, <1>5, <2>1, SumZero
  <2> QED BY <1>1, <1>6, <2>2 DEF PrincipalOf, CommissionOf, FeeOf, CollectedOf, p, k, f, n
<1>7. CASE Standing(d)
  <2>1. \A c \in Cases : c \notin Live => d.case # c /\ d.principal[c] = 0 /\ d.commission[c] = 0
    BY <1>1, <1>2, <1>7 DEF DocumentFits, Touches, Settled, Counts, Standing
  <2>2. /\ d.principal \in [Cases -> Int] /\ d.commission \in [Cases -> Int]
        /\ \A c \in Live : d.principal[c] = p[c] /\ d.commission[c] = k[c]
    BY <1>1, <1>2, <1>3, <1>7 DEF Principal, CommissionPaid
  <2>3. \A c \in Live : f[c] = IF d.case # c THEN 0 ELSE IF d.kind = "assessment" THEN d.amount ELSE d.extra
    BY <1>1, <1>3, <1>7 DEF FeeAdded
  <2>4. \A b \in Debts : n[b] = IF d.debt = b THEN d.amount ELSE 0 BY <1>1, <1>7 DEF Collected
  <2> HIDE DEF p, k, f, n
  <2>5. SumFunction(d.principal) = SumFunction(p)
    <3>1. \A c \in Cases \ Live : d.principal[c] = 0 BY <2>1
    <3> QED BY <1>3, <1>5, <2>2, <3>1, SumExtend
  <2>6. SumFunction(d.commission) = SumFunction(k)
    <3>1. \A c \in Cases \ Live : d.commission[c] = 0 BY <2>1
    <3> QED BY <1>3, <1>5, <2>2, <3>1, SumExtend
  <2>7. FeeOf[d] = SumFunction(f)
    <3> DEFINE fee == IF d.kind = "assessment" THEN d.amount ELSE d.extra
    <3>1. FeeOf[d] = fee BY <1>1, <1>7 DEF FeeOf
    <3>2. CASE d.case \in Cases
      <4>1. d.case \in Live BY <2>1, <3>2
      <4>2. f[d.case] = fee /\ \A c \in Live \ {d.case} : f[c] = 0 BY <2>3, <4>1
      <4>3. SumFunction(f) = f[d.case] BY <1>3, <1>5, <4>1, <4>2, SumOfOne
      <4> QED BY <3>1, <4>2, <4>3
    <3>3. CASE d.case \notin Cases
      <4>1. fee = 0 BY <1>1, <3>3 DEF DocumentOK
      <4>2. \A c \in Live : f[c] = 0 BY <1>3, <2>3, <3>3
      <4>3. SumFunction(f) = 0 BY <1>3, <1>5, <4>2, SumZero
      <4> QED BY <3>1, <4>1, <4>3
    <3> QED BY <3>2, <3>3
  <2>8. CollectedOf[d] = SumFunction(n)
    <3>1. CollectedOf[d] = IF d.kind = "collection" THEN d.amount ELSE 0 BY <1>1, <1>7 DEF CollectedOf
    <3>2. CASE d.kind = "collection"
      <4>1. d.debt \in Debts BY <1>1, <3>2 DEF DocumentOK
      <4>2. n[d.debt] = d.amount /\ \A b \in Debts \ {d.debt} : n[b] = 0 BY <2>4, <4>1
      <4>3. SumFunction(n) = n[d.debt] BY <1>3, <1>5, <4>1, <4>2, SumOfOne
      <4> QED BY <3>1, <3>2, <4>2, <4>3
    <3>3. CASE d.kind # "collection"
      <4>1. d.debt = None /\ None \notin Debts BY <1>1, <3>3, DuesAssumption DEF DocumentOK
      <4>2. \A b \in Debts : n[b] = 0 BY <2>4, <4>1
      <4>3. SumFunction(n) = 0 BY <1>3, <1>5, <4>2, SumZero
      <4> QED BY <3>1, <3>3, <4>3
    <3> QED BY <3>2, <3>3
  <2>9. PrincipalOf[d] = SumFunction(d.principal) /\ CommissionOf[d] = SumFunction(d.commission)
    BY <1>1, <1>7 DEF PrincipalOf, CommissionOf
  <2> QED BY <2>5, <2>6, <2>7, <2>8, <2>9 DEF p, k, f, n
<1> QED BY <1>6, <1>7

---------------------------------------------------------------------------
(* What the rows add up to.                                                *)

LiveDue == SumFunction([c \in Live |-> Due[c]])
LiveFee == SumFunction([c \in Live |-> Fee[c]])
LiveCharge == SumFunction([c \in Live |-> PayoutCharge])
LiveRecovered == SumFunction([c \in Live |-> case[c].recovered])
LiveLeft == SumFunction([c \in Live |-> case[c].left])
LiveUnpaid == SumFunction([c \in Live |-> case[c].unpaid])
LentOwing == SumFunction([b \in Lent |-> Owing[b]])
DebtsRemaining == SumFunction([b \in Debts |-> debt[b].remaining])

Plus(F, G) == [d \in Document |-> F[d] + G[d]]

\* The tally of two measures together.
LEMMA TallyPlus ==
  ASSUME NEW F \in [Document -> Int], NEW G \in [Document -> Int], NEW docs \in [Docs -> Document]
  PROVE  /\ Plus(F, G) \in [Document -> Int]
         /\ Tally(Plus(F, G), docs) = Tally(F, docs) + Tally(G, docs)
         /\ Tally(F, docs) \in Int /\ Tally(G, docs) \in Int
<1> DEFINE H == Plus(F, G)
<1>1. H \in [Document -> Int] /\ \A x \in Docs : H[docs[x]] = F[docs[x]] + G[docs[x]] BY DEF Plus
<1> HIDE DEF H
<1>2. Tally(H, docs) = Tally(F, docs) + Tally(G, docs) /\ Tally(F, docs) \in Int /\ Tally(G, docs) \in Int
  BY <1>1, TallyAdd
<1> QED BY <1>1, <1>2 DEF H

\* The sums over the live cases of what the documents have settled.
LEMMA LiveTallies ==
  ASSUME Known
  PROVE  /\ SumFunction([c \in Live |-> Tally(Principal(c), doc)]) = Tally(PrincipalOf, doc)
         /\ SumFunction([c \in Live |-> Tally(CommissionPaid(c), doc)]) = Tally(CommissionOf, doc)
         /\ SumFunction([c \in Live |-> Tally(FeeAdded(c), doc)]) = Tally(FeeOf, doc)
         /\ SumFunction([b \in Debts |-> Tally(Collected(b), doc)]) = Tally(CollectedOf, doc)
<1> DEFINE p == [c \in Live |-> Principal(c)]
           k == [c \in Live |-> CommissionPaid(c)]
           f == [c \in Live |-> FeeAdded(c)]
           n == [b \in Debts |-> Collected(b)]
<1>1. doc \in [Docs -> Document] /\ IsFiniteSet(Live) /\ IsFiniteSet(Debts) /\ Live \in SUBSET Cases
  BY DuesAssumption, FS_Subset DEF Known, TypeOK, Live
<1>2. /\ \A c \in Live : /\ Principal(c) \in [Document -> Int] /\ CommissionPaid(c) \in [Document -> Int]
                         /\ FeeAdded(c) \in [Document -> Int]
      /\ \A b \in Debts : Collected(b) \in [Document -> Int]
  BY <1>1 DEF Principal, CommissionPaid, FeeAdded, Collected, Document
<1>3. /\ p \in [Live -> [Document -> Int]] /\ k \in [Live -> [Document -> Int]]
      /\ f \in [Live -> [Document -> Int]] /\ n \in [Debts -> [Document -> Int]]
  BY <1>2
<1> DEFINE pp == [x \in Docs |-> [c \in Live |-> p[c][doc[x]]]]
           kk == [x \in Docs |-> [c \in Live |-> k[c][doc[x]]]]
           ff == [x \in Docs |-> [c \in Live |-> f[c][doc[x]]]]
           nn == [x \in Docs |-> [b \in Debts |-> n[b][doc[x]]]]
           ps == [c \in Live |-> Tally(p[c], doc)]
           ks == [c \in Live |-> Tally(k[c], doc)]
           fs == [c \in Live |-> Tally(f[c], doc)]
           ns == [b \in Debts |-> Tally(n[b], doc)]
<1>4. ASSUME NEW x \in Docs
      PROVE  /\ PrincipalOf[doc[x]] = SumFunction(pp[x])
             /\ CommissionOf[doc[x]] = SumFunction(kk[x])
             /\ FeeOf[doc[x]] = SumFunction(ff[x])
             /\ CollectedOf[doc[x]] = SumFunction(nn[x])
  <2>1. PICK d : d = doc[x] OBVIOUS
  <2>2. /\ pp[x] = [c \in Live |-> Principal(c)[d]]
        /\ kk[x] = [c \in Live |-> CommissionPaid(c)[d]]
        /\ ff[x] = [c \in Live |-> FeeAdded(c)[d]]
        /\ nn[x] = [b \in Debts |-> Collected(b)[d]]
    BY <2>1
  <2> HIDE DEF pp, kk, ff, nn, p, k, f, n
  <2>3. /\ PrincipalOf[d] = SumFunction([c \in Live |-> Principal(c)[d]])
        /\ CommissionOf[d] = SumFunction([c \in Live |-> CommissionPaid(c)[d]])
        /\ FeeOf[d] = SumFunction([c \in Live |-> FeeAdded(c)[d]])
        /\ CollectedOf[d] = SumFunction([b \in Debts |-> Collected(b)[d]])
    BY <2>1, SettlesLive
  <2> QED BY <2>1, <2>2, <2>3
<1>5. /\ ps = [c \in Live |-> Tally(Principal(c), doc)]
      /\ ks = [c \in Live |-> Tally(CommissionPaid(c), doc)]
      /\ fs = [c \in Live |-> Tally(FeeAdded(c), doc)]
      /\ ns = [b \in Debts |-> Tally(Collected(b), doc)]
  OBVIOUS
<1>6. /\ pp \in [Docs -> [Live -> Int]] /\ kk \in [Docs -> [Live -> Int]]
      /\ ff \in [Docs -> [Live -> Int]] /\ nn \in [Docs -> [Debts -> Int]]
      /\ \A x \in Docs : /\ \A c \in Live : /\ pp[x][c] = p[c][doc[x]] /\ kk[x][c] = k[c][doc[x]]
                                            /\ ff[x][c] = f[c][doc[x]]
                         /\ \A b \in Debts : nn[x][b] = n[b][doc[x]]
  <2> HIDE DEF p, k, f, n
  <2> QED BY <1>1, <1>3
<1>7. /\ ps \in [Live -> Int] /\ ks \in [Live -> Int] /\ fs \in [Live -> Int] /\ ns \in [Debts -> Int]
      /\ \A c \in Live : /\ ps[c] = Tally(p[c], doc) /\ ks[c] = Tally(k[c], doc)
                         /\ fs[c] = Tally(f[c], doc)
      /\ \A b \in Debts : ns[b] = Tally(n[b], doc)
  <2> HIDE DEF p, k, f, n
  <2> QED BY <1>1, <1>3, TallyInt
<1> HIDE DEF p, k, f, n, pp, kk, ff, nn, ps, ks, fs, ns
<1>8. SumFunction(ps) = Tally(PrincipalOf, doc)
  <2>1. /\ IsFiniteSet(Live) /\ doc \in [Docs -> Document]
        /\ p \in [Live -> [Document -> Int]] /\ PrincipalOf \in [Document -> Int]
    BY <1>1, <1>3, MeasuresOf
  <2>2. /\ pp \in [Docs -> [Live -> Int]] /\ ps \in [Live -> Int]
        /\ \A x \in Docs : \A c \in Live : pp[x][c] = p[c][doc[x]]
        /\ \A c \in Live : ps[c] = Tally(p[c], doc)
    BY <1>6, <1>7
  <2>3. \A x \in Docs : PrincipalOf[doc[x]] = SumFunction(pp[x]) BY <1>4
  <2>4. IsTallied(Live, p, doc, PrincipalOf, pp, ps) BY <2>1, <2>2, <2>3 DEF IsTallied
  <2> QED BY <2>4, TallyOver
<1>9. SumFunction(ks) = Tally(CommissionOf, doc)
  <2>1. /\ IsFiniteSet(Live) /\ doc \in [Docs -> Document]
        /\ k \in [Live -> [Document -> Int]] /\ CommissionOf \in [Document -> Int]
    BY <1>1, <1>3, MeasuresOf
  <2>2. /\ kk \in [Docs -> [Live -> Int]] /\ ks \in [Live -> Int]
        /\ \A x \in Docs : \A c \in Live : kk[x][c] = k[c][doc[x]]
        /\ \A c \in Live : ks[c] = Tally(k[c], doc)
    BY <1>6, <1>7
  <2>3. \A x \in Docs : CommissionOf[doc[x]] = SumFunction(kk[x]) BY <1>4
  <2>4. IsTallied(Live, k, doc, CommissionOf, kk, ks) BY <2>1, <2>2, <2>3 DEF IsTallied
  <2> QED BY <2>4, TallyOver
<1>10. SumFunction(fs) = Tally(FeeOf, doc)
  <2>1. /\ IsFiniteSet(Live) /\ doc \in [Docs -> Document]
        /\ f \in [Live -> [Document -> Int]] /\ FeeOf \in [Document -> Int]
    BY <1>1, <1>3, MeasuresOf
  <2>2. /\ ff \in [Docs -> [Live -> Int]] /\ fs \in [Live -> Int]
        /\ \A x \in Docs : \A c \in Live : ff[x][c] = f[c][doc[x]]
        /\ \A c \in Live : fs[c] = Tally(f[c], doc)
    BY <1>6, <1>7
  <2>3. \A x \in Docs : FeeOf[doc[x]] = SumFunction(ff[x]) BY <1>4
  <2>4. IsTallied(Live, f, doc, FeeOf, ff, fs) BY <2>1, <2>2, <2>3 DEF IsTallied
  <2> QED BY <2>4, TallyOver
<1>11. SumFunction(ns) = Tally(CollectedOf, doc)
  <2>1. /\ IsFiniteSet(Debts) /\ doc \in [Docs -> Document]
        /\ n \in [Debts -> [Document -> Int]] /\ CollectedOf \in [Document -> Int]
    BY <1>1, <1>3, MeasuresOf
  <2>2. /\ nn \in [Docs -> [Debts -> Int]] /\ ns \in [Debts -> Int]
        /\ \A x \in Docs : \A b \in Debts : nn[x][b] = n[b][doc[x]]
        /\ \A b \in Debts : ns[b] = Tally(n[b], doc)
    BY <1>6, <1>7
  <2>3. \A x \in Docs : CollectedOf[doc[x]] = SumFunction(nn[x]) BY <1>4
  <2>4. IsTallied(Debts, n, doc, CollectedOf, nn, ns) BY <2>1, <2>2, <2>3 DEF IsTallied
  <2> QED BY <2>4, TallyOver
<1> QED BY <1>5, <1>8, <1>9, <1>10, <1>11

\* The rows add up to what the cases and receivables were for, less what
\* the documents have settled of them.
LEMMA RowsSum ==
  ASSUME Known
  PROVE  /\ LiveRecovered = Tally(PrincipalOf, doc)
         /\ LiveLeft = LiveDue - Tally(PrincipalOf, doc)
         /\ LiveUnpaid = LiveFee + Tally(FeeOf, doc) - Tally(CommissionOf, doc)
         /\ DebtsRemaining = LentOwing - Tally(CollectedOf, doc)
         /\ LiveDue \in Int /\ LiveFee \in Int /\ LiveCharge \in Int /\ LentOwing \in Int
         /\ LiveRecovered \in Int /\ LiveLeft \in Int /\ LiveUnpaid \in Int /\ DebtsRemaining \in Int
<1> DEFINE due == [c \in Live |-> Due[c]]
           fee == [c \in Live |-> Fee[c]]
           cost == [c \in Live |-> PayoutCharge]
           recovered == [c \in Live |-> case[c].recovered]
           left == [c \in Live |-> case[c].left]
           unpaid == [c \in Live |-> case[c].unpaid]
           fees == [c \in Live |-> case[c].fee]
           collected == [c \in Live |-> case[c].collected]
           added == [c \in Live |-> Tally(FeeAdded(c), doc)]
           owing == [b \in Lent |-> Owing[b]]
           lent == [b \in Debts |-> IF b \in Lent THEN Owing[b] ELSE 0]
           remaining == [b \in Debts |-> debt[b].remaining]
           received == [b \in Debts |-> Tally(Collected(b), doc)]
<1>1. /\ doc \in [Docs -> Document] /\ case \in [Cases -> CaseRow] /\ debt \in [Debts -> DebtRow]
      /\ IsFiniteSet(Live) /\ IsFiniteSet(Debts) /\ Live \in SUBSET Cases /\ Lent \in SUBSET Debts
  BY DuesAssumption, FS_Subset DEF Known, TypeOK, Live, Lent
<1>2. /\ \A c \in Live : FeeAdded(c) \in [Document -> Int]
      /\ \A b \in Debts : Collected(b) \in [Document -> Int]
  BY <1>1 DEF FeeAdded, Collected, Document
<1>3. /\ \A c \in Live : Tally(FeeAdded(c), doc) \in Int
      /\ \A b \in Debts : Tally(Collected(b), doc) \in Int
  BY <1>1, <1>2, TallyInt
<1>4. /\ due \in [Live -> Int] /\ fee \in [Live -> Int] /\ cost \in [Live -> Int]
      /\ owing \in [Lent -> Int] /\ lent \in [Debts -> Int]
  BY <1>1, DuesAssumption
<1>5. /\ recovered \in [Live -> Int] /\ left \in [Live -> Int] /\ unpaid \in [Live -> Int]
      /\ fees \in [Live -> Int] /\ collected \in [Live -> Int] /\ remaining \in [Debts -> Int]
  BY <1>1 DEF CaseRow, DebtRow
<1>6. added \in [Live -> Int] /\ received \in [Debts -> Int] BY <1>3
<1>7. ASSUME NEW c \in Live
      PROVE  /\ due[c] = recovered[c] + left[c] /\ fees[c] = collected[c] + unpaid[c]
             /\ fees[c] = fee[c] + added[c]
             /\ recovered[c] = Tally(Principal(c), doc)
             /\ collected[c] = Tally(CommissionPaid(c), doc)
  <2>1. CaseOK(c) /\ CaseBacked(c) BY <1>1 DEF Known, Books
  <2>2. case[c] \in CaseRow BY <1>1
  <2>3. Due[c] \in Int /\ Fee[c] \in Int BY <1>1, DuesAssumption
  <2>4. /\ case[c].left = Due[c] - case[c].recovered /\ case[c].unpaid = case[c].fee - case[c].collected
        /\ case[c].recovered = Tally(Principal(c), doc) /\ case[c].collected = Tally(CommissionPaid(c), doc)
        /\ case[c].fee = Fee[c] + Tally(FeeAdded(c), doc)
    BY <2>1 DEF CaseOK, CaseBacked
  <2>5. case[c].left \in Int /\ case[c].recovered \in Int /\ case[c].unpaid \in Int
        /\ case[c].fee \in Int /\ case[c].collected \in Int
    BY <2>2 DEF CaseRow
  <2> QED BY <2>3, <2>4, <2>5
<1>8. ASSUME NEW b \in Debts PROVE lent[b] = remaining[b] + received[b]
  <2>1. DebtOK(b) /\ DebtBacked(b) BY DEF Known, Books
  <2>2. debt[b] \in DebtRow BY <1>1
  <2>3. Owing[b] \in Int BY DuesAssumption
  <2>4. debt[b].received = Tally(Collected(b), doc) BY <2>1 DEF DebtBacked
  <2>5. debt[b].source \in {"ABSENT", "COMPLETED", "REVERSED"} /\ debt[b].received \in Int
        /\ debt[b].remaining \in Int
    BY <2>2 DEF DebtRow
  <2>6. CASE debt[b].source = "COMPLETED"
    BY <2>6, <2>1, <2>3, <2>4, <2>5 DEF DebtOK, Lent
  <2>7. CASE debt[b].source # "COMPLETED"
    <3>1. debt[b].received = 0 /\ debt[b].remaining = 0 BY <2>7, <2>1, <2>5 DEF DebtOK, NoDebt
    <3>2. b \notin Lent BY <2>7 DEF Lent
    <3>3. lent[b] = 0 BY <3>2
    <3>4. remaining[b] = 0 BY <3>1
    <3>5. received[b] = 0
      <4>1. received[b] = Tally(Collected(b), doc) OBVIOUS
      <4> QED BY <2>4, <3>1, <4>1
    <3> HIDE DEF lent, remaining, received
    <3> QED BY <3>3, <3>4, <3>5
  <2> QED BY <2>6, <2>7
<1>9. \A b \in Debts : lent[b] = IF b \in Lent THEN owing[b] ELSE 0 OBVIOUS
<1>10. /\ recovered = [c \in Live |-> Tally(Principal(c), doc)]
       /\ collected = [c \in Live |-> Tally(CommissionPaid(c), doc)]
  BY <1>7
<1>11. /\ LiveDue = SumFunction(due) /\ LiveFee = SumFunction(fee) /\ LiveCharge = SumFunction(cost)
       /\ LiveRecovered = SumFunction(recovered) /\ LiveLeft = SumFunction(left)
       /\ LiveUnpaid = SumFunction(unpaid) /\ LentOwing = SumFunction(owing)
       /\ DebtsRemaining = SumFunction(remaining)
  BY DEF LiveDue, LiveFee, LiveCharge, LiveRecovered, LiveLeft, LiveUnpaid, LentOwing, DebtsRemaining
<1>12. /\ SumFunction(recovered) = Tally(PrincipalOf, doc)
       /\ SumFunction(collected) = Tally(CommissionOf, doc)
       /\ SumFunction(added) = Tally(FeeOf, doc)
       /\ SumFunction(received) = Tally(CollectedOf, doc)
  BY <1>10, LiveTallies
<1> HIDE DEF due, fee, cost, recovered, left, unpaid, fees, collected, added, owing, lent, remaining, received
<1>13. SumFunction(due) = SumFunction(recovered) + SumFunction(left) BY <1>1, <1>4, <1>5, <1>7, SumAdd
<1>14. SumFunction(fees) = SumFunction(collected) + SumFunction(unpaid) BY <1>1, <1>5, <1>7, SumAdd
<1>15. SumFunction(fees) = SumFunction(fee) + SumFunction(added) BY <1>1, <1>4, <1>5, <1>6, <1>7, SumAdd
<1>16. SumFunction(lent) = SumFunction(remaining) + SumFunction(received)
  BY <1>1, <1>4, <1>5, <1>6, <1>8, SumAdd
<1>17. SumFunction(owing) = SumFunction(lent) BY <1>1, <1>4, <1>9, SumPart
<1>18. /\ SumFunction(due) \in Int /\ SumFunction(fee) \in Int /\ SumFunction(cost) \in Int
       /\ SumFunction(recovered) \in Int /\ SumFunction(left) \in Int /\ SumFunction(unpaid) \in Int
       /\ SumFunction(collected) \in Int /\ SumFunction(added) \in Int
  BY <1>1, <1>4, <1>5, <1>6, SumType
<1>19. SumFunction(lent) \in Int /\ SumFunction(remaining) \in Int /\ SumFunction(received) \in Int
  BY <1>1, <1>4, <1>5, <1>6, SumType
<1> QED BY <1>11, <1>12, <1>13, <1>14, <1>15, <1>16, <1>17, <1>18, <1>19

\* What the creations of the live cases and of the receivables have posted.
LEMMA CreationsPosted ==
  ASSUME Known
  PROVE  /\ OfCases(Live, "RECEIVABLE") = LiveDue + LiveFee
         /\ OfCases(Live, "INCOME") = -LiveFee
         /\ OfCases(Live, "CHARGE") = LiveCharge
         /\ OfDebts(Lent, "RECEIVABLE") = LentOwing
         /\ OfDebts(Lent, "INCOME") = 0 /\ OfDebts(Lent, "CHARGE") = 0
<1> DEFINE due == [c \in Live |-> Due[c]]
           fee == [c \in Live |-> Fee[c]]
           cost == [c \in Live |-> PayoutCharge]
           dues == [c \in Cases |-> IF c \in Live THEN Due[c] ELSE 0]
           fees == [c \in Cases |-> IF c \in Live THEN Fee[c] ELSE 0]
           both == [c \in Cases |-> IF c \in Live THEN Due[c] + Fee[c] ELSE 0]
           income == [c \in Cases |-> IF c \in Live THEN -Fee[c] ELSE 0]
           none == [c \in Cases |-> 0]
           costs == [c \in Cases |-> IF c \in Live THEN PayoutCharge ELSE 0]
           owing == [b \in Lent |-> Owing[b]]
           lent == [b \in Debts |-> IF b \in Lent THEN Owing[b] ELSE 0]
           zero == [b \in Debts |-> 0]
<1>1. /\ IsFiniteSet(Cases) /\ IsFiniteSet(Debts) /\ Live \in SUBSET Cases /\ Lent \in SUBSET Debts
  BY DuesAssumption DEF Live, Lent
<1>2. ASSUME NEW c \in Cases
      PROVE  /\ CaseJournal(c)["RECEIVABLE"] = Due[c] + Fee[c] /\ CaseJournal(c)["INCOME"] = -Fee[c]
             /\ CaseJournal(c)["CHARGE"] = PayoutCharge
  BY DEF CaseJournal, NoJournal, Ledgers
<1>3. ASSUME NEW b \in Debts
      PROVE  /\ DebtJournal(b)["RECEIVABLE"] = Owing[b] /\ DebtJournal(b)["INCOME"] = 0
             /\ DebtJournal(b)["CHARGE"] = 0
  BY DEF DebtJournal, NoJournal, Ledgers
<1>4. /\ OfCases(Live, "RECEIVABLE") = SumFunction(both) /\ OfCases(Live, "INCOME") = SumFunction(income)
      /\ OfCases(Live, "CHARGE") = SumFunction(costs)
  <2>1. /\ both = [c \in Cases |-> IF c \in Live THEN CaseJournal(c)["RECEIVABLE"] ELSE 0]
        /\ income = [c \in Cases |-> IF c \in Live THEN CaseJournal(c)["INCOME"] ELSE 0]
        /\ costs = [c \in Cases |-> IF c \in Live THEN CaseJournal(c)["CHARGE"] ELSE 0]
    BY <1>2
  <2> QED BY <2>1 DEF OfCases
<1>5. /\ OfDebts(Lent, "RECEIVABLE") = SumFunction(lent) /\ OfDebts(Lent, "INCOME") = SumFunction(zero)
      /\ OfDebts(Lent, "CHARGE") = SumFunction(zero)
  <2>1. /\ lent = [b \in Debts |-> IF b \in Lent THEN DebtJournal(b)["RECEIVABLE"] ELSE 0]
        /\ zero = [b \in Debts |-> IF b \in Lent THEN DebtJournal(b)["INCOME"] ELSE 0]
        /\ zero = [b \in Debts |-> IF b \in Lent THEN DebtJournal(b)["CHARGE"] ELSE 0]
    BY <1>3
  <2> QED BY <2>1 DEF OfDebts
<1>6. /\ due \in [Live -> Int] /\ fee \in [Live -> Int] /\ cost \in [Live -> Int]
      /\ dues \in [Cases -> Int] /\ fees \in [Cases -> Int] /\ both \in [Cases -> Int]
      /\ income \in [Cases -> Int] /\ costs \in [Cases -> Int] /\ none \in [Cases -> Int]
      /\ owing \in [Lent -> Int] /\ lent \in [Debts -> Int] /\ zero \in [Debts -> Int]
  BY <1>1, DuesAssumption
<1>7. \A c \in Cases : dues[c] = IF c \in Live THEN due[c] ELSE 0 BY <1>1
<1>19. \A c \in Cases : fees[c] = IF c \in Live THEN fee[c] ELSE 0 BY <1>1
<1>20. \A c \in Cases : costs[c] = IF c \in Live THEN cost[c] ELSE 0 BY <1>1
<1>21. \A b \in Debts : lent[b] = IF b \in Lent THEN owing[b] ELSE 0 BY <1>1
<1>17. \A c \in Cases : both[c] = dues[c] + fees[c] BY DuesAssumption
<1>18. \A c \in Cases : none[c] = income[c] + fees[c] BY DuesAssumption
<1>22. (\A c \in Cases : none[c] = 0) /\ \A b \in Debts : zero[b] = 0 OBVIOUS
<1>8. /\ LiveDue = SumFunction(due) /\ LiveFee = SumFunction(fee) /\ LiveCharge = SumFunction(cost)
      /\ LentOwing = SumFunction(owing)
  BY DEF LiveDue, LiveFee, LiveCharge, LentOwing
<1> HIDE DEF due, fee, cost, dues, fees, both, income, costs, owing, lent, zero, none
<1>9. SumFunction(due) = SumFunction(dues) /\ SumFunction(dues) \in Int
  <2>1. IsFiniteSet(Cases) /\ Live \in SUBSET Cases /\ due \in [Live -> Int] /\ dues \in [Cases -> Int] BY <1>1, <1>6
  <2> QED BY ONLY <1>7, <2>1, SumPart
<1>10. SumFunction(fee) = SumFunction(fees) /\ SumFunction(fees) \in Int
  <2>1. IsFiniteSet(Cases) /\ Live \in SUBSET Cases /\ fee \in [Live -> Int] /\ fees \in [Cases -> Int] BY <1>1, <1>6
  <2> QED BY ONLY <1>19, <2>1, SumPart
<1>11. SumFunction(cost) = SumFunction(costs) /\ SumFunction(costs) \in Int
  <2>1. IsFiniteSet(Cases) /\ Live \in SUBSET Cases /\ cost \in [Live -> Int] /\ costs \in [Cases -> Int] BY <1>1, <1>6
  <2> QED BY ONLY <1>20, <2>1, SumPart
<1>12. SumFunction(owing) = SumFunction(lent) /\ SumFunction(lent) \in Int
  <2>1. IsFiniteSet(Debts) /\ Lent \in SUBSET Debts /\ owing \in [Lent -> Int] /\ lent \in [Debts -> Int] BY <1>1, <1>6
  <2> QED BY ONLY <1>21, <2>1, SumPart
<1>13. SumFunction(both) = SumFunction(dues) + SumFunction(fees) BY <1>1, <1>6, <1>17, SumAdd
<1>14. SumFunction(none) = SumFunction(income) + SumFunction(fees) BY <1>1, <1>6, <1>18, SumAdd
<1>15. SumFunction(none) = 0 /\ SumFunction(zero) = 0 BY <1>1, <1>6, <1>22, SumZero
<1>16. SumFunction(income) \in Int BY <1>1, <1>6, SumType
<1> QED BY <1>4, <1>5, <1>8, <1>9, <1>10, <1>11, <1>12, <1>13, <1>14, <1>15, <1>16

\* The accounts in terms of what the rows and the documents add up to.
LEMMA AccountsAre ==
  ASSUME Known, LedgerSays
  PROVE  /\ ledger["RECEIVABLE"] = LiveLeft + LiveUnpaid + DebtsRemaining - Tally(GenericOf, doc)
         /\ ledger["INCOME"] = -(LiveFee + Tally(FeeOf, doc))
         /\ ledger["CHARGE"] = LiveCharge + Tally(ChargeOf, doc)
         /\ Tally(TakenOf, doc) = Tally(PrincipalOf, doc) + Tally(ReceiptCommissionOf, doc)
                                  + Tally(GenericOf, doc) + Tally(CreditOf, doc)
<1>1. doc \in [Docs -> Document] /\ \A x \in Docs : doc[x] \in Document /\ DocumentOK(doc[x])
  BY DEF Known, TypeOK, DocumentFits
<1> DEFINE R == Posted("RECEIVABLE")
           N == Posted("INCOME")
           C == Posted("CHARGE")
           R1 == Plus(R, GenericOf)
           R2 == Plus(R1, CollectedOf)
           R3 == Plus(R2, CommissionOf)
           R4 == Plus(R3, PrincipalOf)
           T1 == Plus(PrincipalOf, ReceiptCommissionOf)
           T2 == Plus(T1, GenericOf)
           T3 == Plus(T2, CreditOf)
           N1 == Plus(N, FeeOf)
<1>2. R \in [Document -> Int] /\ N \in [Document -> Int] /\ C \in [Document -> Int]
  BY PostedTypes DEF Ledgers
<1>3. \A x \in Docs : /\ R[doc[x]] = FeeOf[doc[x]] - PrincipalOf[doc[x]] - CommissionOf[doc[x]]
                                     - CollectedOf[doc[x]] - GenericOf[doc[x]]
                      /\ N[doc[x]] = -FeeOf[doc[x]] /\ C[doc[x]] = ChargeOf[doc[x]]
                      /\ TakenOf[doc[x]] = PrincipalOf[doc[x]] + ReceiptCommissionOf[doc[x]]
                                           + GenericOf[doc[x]] + CreditOf[doc[x]]
  BY <1>1, DocumentSays
<1> HIDE DEF R, N, C
<1>4. /\ R1 \in [Document -> Int] /\ Tally(R1, doc) = Tally(R, doc) + Tally(GenericOf, doc)
      /\ Tally(R, doc) \in Int /\ Tally(GenericOf, doc) \in Int
  BY <1>1, <1>2, MeasuresOf, TallyPlus
<1> HIDE DEF R1
<1>5. /\ R2 \in [Document -> Int] /\ Tally(R2, doc) = Tally(R1, doc) + Tally(CollectedOf, doc)
      /\ Tally(CollectedOf, doc) \in Int
  BY <1>1, <1>4, MeasuresOf, TallyPlus
<1> HIDE DEF R2
<1>6. /\ R3 \in [Document -> Int] /\ Tally(R3, doc) = Tally(R2, doc) + Tally(CommissionOf, doc)
      /\ Tally(CommissionOf, doc) \in Int
  BY <1>1, <1>5, MeasuresOf, TallyPlus
<1> HIDE DEF R3
<1>7. /\ R4 \in [Document -> Int] /\ Tally(R4, doc) = Tally(R3, doc) + Tally(PrincipalOf, doc)
      /\ Tally(PrincipalOf, doc) \in Int
  BY <1>1, <1>6, MeasuresOf, TallyPlus
<1>8. Tally(R4, doc) = Tally(FeeOf, doc)
  <2>1. ASSUME NEW d \in Document
        PROVE  R4[d] = R[d] + GenericOf[d] + CollectedOf[d] + CommissionOf[d] + PrincipalOf[d]
    BY DEF R1, R2, R3, Plus
  <2> HIDE DEF R4
  <2>2. ASSUME NEW x \in Docs PROVE R4[doc[x]] = FeeOf[doc[x]]
    <3>1. doc[x] \in Document BY <1>1
    <3>2. /\ FeeOf[doc[x]] \in Int /\ PrincipalOf[doc[x]] \in Int /\ CommissionOf[doc[x]] \in Int
          /\ CollectedOf[doc[x]] \in Int /\ GenericOf[doc[x]] \in Int
      BY <3>1, MeasuresOf
    <3> QED BY <1>3, <2>1, <3>1, <3>2
  <2> QED BY <2>2, TallySame
<1> HIDE DEF R4
<1>9. /\ N1 \in [Document -> Int] /\ Tally(N1, doc) = Tally(N, doc) + Tally(FeeOf, doc)
      /\ Tally(N, doc) \in Int /\ Tally(FeeOf, doc) \in Int
  BY <1>1, <1>2, MeasuresOf, TallyPlus
<1>10. \A x \in Docs : N1[doc[x]] = 0
  <2>1. ASSUME NEW x \in Docs PROVE N1[doc[x]] = 0
    <3>1. doc[x] \in Document BY <1>1
    <3>2. FeeOf[doc[x]] \in Int BY <3>1, MeasuresOf
    <3> QED BY <1>3, <3>1, <3>2 DEF Plus
  <2> QED BY <2>1
<1> HIDE DEF N1
<1>11. Tally(N1, doc) = 0
  <2> DEFINE f == [x \in Docs |-> N1[doc[x]]]
  <2>1. f \in [Docs -> Int] /\ \A x \in Docs : f[x] = 0 BY <1>10
  <2> HIDE DEF f
  <2>2. SumFunction(f) = 0 BY <2>1, DocsFinite, SumZero
  <2> QED BY <2>2 DEF f, Tally
<1>12. Tally(C, doc) = Tally(ChargeOf, doc) BY <1>3, TallySame
<1>13. /\ T1 \in [Document -> Int]
       /\ Tally(T1, doc) = Tally(PrincipalOf, doc) + Tally(ReceiptCommissionOf, doc)
  BY <1>1, MeasuresOf, TallyPlus
<1> HIDE DEF T1
<1>14. T2 \in [Document -> Int] /\ Tally(T2, doc) = Tally(T1, doc) + Tally(GenericOf, doc)
  BY <1>1, <1>13, MeasuresOf, TallyPlus
<1> HIDE DEF T2
<1>15. T3 \in [Document -> Int] /\ Tally(T3, doc) = Tally(T2, doc) + Tally(CreditOf, doc)
  BY <1>1, <1>14, MeasuresOf, TallyPlus
<1>16. Tally(T3, doc) = Tally(TakenOf, doc)
  <2>1. ASSUME NEW d \in Document
        PROVE  T3[d] = PrincipalOf[d] + ReceiptCommissionOf[d] + GenericOf[d] + CreditOf[d]
    BY DEF T1, T2, Plus
  <2> HIDE DEF T3
  <2>2. \A x \in Docs : T3[doc[x]] = TakenOf[doc[x]] BY <1>1, <1>3, <2>1
  <2> QED BY <2>2, TallySame
<1> HIDE DEF T3
<1>17. /\ ledger["RECEIVABLE"] = Start("RECEIVABLE") + Tally(R, doc) + OfCases(Live, "RECEIVABLE")
                                 + OfDebts(Lent, "RECEIVABLE")
       /\ ledger["INCOME"] = Start("INCOME") + Tally(N, doc) + OfCases(Live, "INCOME") + OfDebts(Lent, "INCOME")
       /\ ledger["CHARGE"] = Start("CHARGE") + Tally(C, doc) + OfCases(Live, "CHARGE") + OfDebts(Lent, "CHARGE")
  BY DEF LedgerSays, Ledgers, R, N, C
<1>18. Start("RECEIVABLE") = 0 /\ Start("INCOME") = 0 /\ Start("CHARGE") = 0 BY DEF Start
<1>19. Tally(ChargeOf, doc) \in Int BY <1>1, MeasuresOf, TallyInt
<1> QED BY <1>4, <1>5, <1>6, <1>7, <1>8, <1>9, <1>11, <1>12, <1>13, <1>14, <1>15, <1>16, <1>17, <1>18, <1>19,
           CreationsPosted, RowsSum

---------------------------------------------------------------------------
(* The unified list and the ages.                                          *)

OpenItems == {i \in DOMAIN UnifiedItems : /\ UnifiedItems[i].remaining > 0
                                          /\ UnifiedItems[i].status \notin {"CANCELLED", "REVERSED"}}
WithStatus(s) == {i \in OpenItems : UnifiedItems[i].status = s}
OfKind(k) == {i \in OpenItems : UnifiedItems[i].kind = k}
OpenAmount(S) == SumFunction([i \in S |-> UnifiedItems[i].remaining])

OpenDebts == {b \in Debts : debt[b].remaining > 0}
DebtAmount(S) == SumFunction([b \in S |-> debt[b].remaining])

(* A, B and C are the parts of S.                                          *)
Parts(S, A, B, C) ==
    /\ S = A \cup B \cup C
    /\ A \cap B = {} /\ A \cap C = {} /\ B \cap C = {}

\* A sum over three parts.
LEMMA SumThree ==
  ASSUME NEW S, IsFiniteSet(S), NEW A, NEW B, NEW C, Parts(S, A, B, C), NEW f \in [S -> Int]
  PROVE  SumFunction(f) = SumFunction([x \in A |-> f[x]]) + SumFunction([x \in B |-> f[x]])
                          + SumFunction([x \in C |-> f[x]])
<1> DEFINE D == A \cup B
           a == [x \in A |-> f[x]]
           b == [x \in B |-> f[x]]
           c == [x \in C |-> f[x]]
           d == [x \in D |-> f[x]]
<1>1. A \in SUBSET S /\ B \in SUBSET S /\ C \in SUBSET S /\ S = D \cup C /\ D \cap C = {} /\ A \cap B = {}
  BY DEF Parts
<1>2. IsFiniteSet(D) BY <1>1, FS_Subset
<1>3. InParts(S, D, C, f, d, c) BY <1>1 DEF InParts
<1>4. InParts(D, A, B, d, a, b) BY <1>1, <1>2 DEF InParts
<1> HIDE DEF a, b, c, d
<1>5. SumFunction(f) = SumFunction(d) + SumFunction(c) /\ SumFunction(c) \in Int BY <1>3, SumUnion
<1>6. /\ SumFunction(d) = SumFunction(a) + SumFunction(b) /\ SumFunction(a) \in Int /\ SumFunction(b) \in Int
  BY <1>4, SumUnion
<1>7. SumFunction(f) = SumFunction(a) + SumFunction(b) + SumFunction(c) BY <1>5, <1>6
<1> QED BY <1>7 DEF a, b, c

\* What the list shows of a receivable.
LEMMA DebtItem ==
  ASSUME Known, StatusesStand, NEW b \in Debts, NEW i, i = <<"debt", b>>
  PROVE  /\ i \in DOMAIN UnifiedItems <=> debt[b] # NoDebt
         /\ i \in OpenItems <=> debt[b].remaining > 0
         /\ debt[b].remaining \in Int /\ debt[b].remaining >= 0 /\ DueDay[b] \in Int /\ today \in Int
         /\ debt[b].remaining > 0 => debt[b].status \in Collectable
         /\ i \in DOMAIN UnifiedItems =>
              /\ UnifiedItems[i].kind = "OTHER" /\ UnifiedItems[i].remaining = debt[b].remaining
              /\ UnifiedItems[i].status \notin {"CANCELLED", "REVERSED"} =>
                   UnifiedItems[i].original = UnifiedItems[i].received + UnifiedItems[i].remaining
         /\ i \in OpenItems =>
              /\ UnifiedItems[i].status \in {"PENDING", "PARTIALLY_RECEIVED", "OVERDUE"}
              /\ UnifiedItems[i].status = "OVERDUE" <=> DueDay[b] < today
<1> DEFINE row == debt[b]
           s == Listed(row, DueDay[b])
           items == UnifiedItems
<1>1. row \in DebtRow /\ DebtOK(b) /\ today \in Int /\ DueDay[b] \in Nat /\ Owing[b] \in Nat \ {0}
  BY DuesAssumption DEF Known, TypeOK, Books
<1>2. /\ row.remaining \in Int /\ row.received \in Int
      /\ row.source \in {"ABSENT", "COMPLETED", "REVERSED"}
      /\ row.status \in {"PENDING", "PARTIALLY_RECEIVED", "OVERDUE", "RECEIVED", "CANCELLED", "REVERSED"}
  BY <1>1 DEF DebtRow
<1>3. /\ row.source = "ABSENT" => row = NoDebt
      /\ row.source = "COMPLETED" => /\ row.remaining = Owing[b] - row.received /\ row.remaining >= 0
                                     /\ row.status \notin {"CANCELLED", "REVERSED"}
      /\ row.source = "REVERSED" => row.remaining = 0 /\ row.status \in {"CANCELLED", "REVERSED"}
      /\ row = NoDebt => row.remaining = 0
  BY <1>1, <1>2 DEF DebtOK, NoDebt
<1>4. /\ row.status = "RECEIVED" => row.remaining <= 0
      /\ row.status = "OVERDUE" => DueDay[b] <= today
  BY DEF StatusesStand
<1>5. i \in Items /\ i[1] = "debt" /\ i[2] = b BY DEF Items
<1>6. i \in DOMAIN items <=> row # NoDebt BY <1>5 DEF UnifiedItems
<1>7. i \in DOMAIN items => items[i] = Item("OTHER", Owing[b], row.received, row.remaining, s)
  BY <1>5 DEF UnifiedItems
<1>8. i \in DOMAIN items => /\ items[i].kind = "OTHER" /\ items[i].original = Owing[b]
                            /\ items[i].received = row.received /\ items[i].remaining = row.remaining
                            /\ items[i].status = s
  BY <1>7 DEF Item
<1>9. row.remaining > 0 => /\ row.source = "COMPLETED" /\ row # NoDebt
                           /\ row.status \in {"PENDING", "PARTIALLY_RECEIVED", "OVERDUE"}
  BY <1>2, <1>3, <1>4
<1>10. /\ row.remaining > 0 => /\ s \in {"PENDING", "PARTIALLY_RECEIVED", "OVERDUE"}
                               /\ s = "OVERDUE" <=> DueDay[b] < today
       /\ row.remaining <= 0 => s = row.status
  <2>1. CASE row.remaining <= 0 BY <2>1, <1>2 DEF Listed
  <2>2. CASE row.remaining > 0
    <3>1. CASE DueDay[b] < today BY <3>1, <2>2, <1>1, <1>2, <1>9 DEF Listed
    <3>2. CASE DueDay[b] = today BY <3>2, <2>2, <1>1, <1>2, <1>9 DEF Listed
    <3>3. CASE DueDay[b] > today BY <3>3, <2>2, <1>1, <1>2, <1>4, <1>9 DEF Listed
    <3> QED BY <1>1, <3>1, <3>2, <3>3
  <2> QED BY <1>2, <2>1, <2>2
<1> HIDE DEF s, items
<1>11. i \in OpenItems <=> i \in DOMAIN items /\ items[i].remaining > 0
                           /\ items[i].status \notin {"CANCELLED", "REVERSED"}
  BY DEF OpenItems, items
<1>12. i \in OpenItems <=> row.remaining > 0 BY <1>6, <1>8, <1>9, <1>10, <1>11
<1>13. i \in DOMAIN items /\ items[i].status \notin {"CANCELLED", "REVERSED"} =>
         items[i].original = items[i].received + items[i].remaining
  BY <1>1, <1>2, <1>3, <1>6, <1>8, <1>10
<1> QED BY <1>1, <1>2, <1>3, <1>6, <1>8, <1>9, <1>10, <1>11, <1>12, <1>13 DEF items, Collectable

\* What the list shows of a case.
LEMMA CaseItems ==
  ASSUME Known, NEW c \in Live, NEW i, i = <<"principal", c>>, NEW j, j = <<"commission", c>>
  PROVE  /\ i \in DOMAIN UnifiedItems
         /\ i \in OpenItems <=> case[c].left > 0
         /\ j \in OpenItems <=> case[c].unpaid > 0
         /\ case[c].left \in Int /\ case[c].left >= 0 /\ case[c].unpaid \in Int /\ case[c].unpaid >= 0
         /\ UnifiedItems[i].kind = "CARD_PRINCIPAL" /\ UnifiedItems[i].remaining = case[c].left
         /\ UnifiedItems[i].original = UnifiedItems[i].received + UnifiedItems[i].remaining
         /\ j \in DOMAIN UnifiedItems =>
              /\ UnifiedItems[j].kind = "CARD_COMMISSION" /\ UnifiedItems[j].remaining = case[c].unpaid
              /\ UnifiedItems[j].original = UnifiedItems[j].received + UnifiedItems[j].remaining
         /\ i \in OpenItems => UnifiedItems[i].status \in {"PENDING", "PARTIALLY_RECEIVED"}
         /\ j \in OpenItems => UnifiedItems[j].status \in {"PENDING", "PARTIALLY_RECEIVED"}
<1> DEFINE row == case[c]
           s == StatusFor(row.left, row.recovered)
           t == StatusFor(row.unpaid, row.collected)
           items == UnifiedItems
<1>1. c \in Cases BY DEF Live
<1>2. row \in CaseRow /\ CaseOK(c) /\ Due[c] \in Nat BY <1>1, DuesAssumption DEF Known, TypeOK, Books
<1>3. /\ row.recovered \in Int /\ row.left \in Int /\ row.fee \in Int /\ row.collected \in Int
      /\ row.unpaid \in Int
  BY <1>2 DEF CaseRow
<1>4. /\ row.left = Due[c] - row.recovered /\ row.left >= 0 /\ row.unpaid = row.fee - row.collected
      /\ row.unpaid >= 0 /\ row.collected >= 0
  BY <1>2, <1>3 DEF CaseOK
<1>5. /\ i \in Items /\ i[1] = "principal" /\ i[2] = c
      /\ j \in Items /\ j[1] = "commission" /\ j[2] = c
  BY <1>1 DEF Items
<1>6. i \in DOMAIN items /\ (j \in DOMAIN items <=> row.fee > 0) BY <1>5 DEF UnifiedItems
<1>7. items[i] = Item("CARD_PRINCIPAL", Due[c], row.recovered, row.left, s) BY <1>5, <1>6 DEF UnifiedItems
<1>8. j \in DOMAIN items => items[j] = Item("CARD_COMMISSION", row.fee, row.collected, row.unpaid, t)
  BY <1>5 DEF UnifiedItems
<1>9. /\ items[i].kind = "CARD_PRINCIPAL" /\ items[i].original = Due[c]
      /\ items[i].received = row.recovered /\ items[i].remaining = row.left /\ items[i].status = s
  BY <1>7 DEF Item
<1>10. j \in DOMAIN items => /\ items[j].kind = "CARD_COMMISSION" /\ items[j].original = row.fee
                             /\ items[j].received = row.collected /\ items[j].remaining = row.unpaid
                             /\ items[j].status = t
  BY <1>8 DEF Item
<1>11. /\ s \in {"RECEIVED", "PENDING", "PARTIALLY_RECEIVED"} /\ (row.left > 0 => s # "RECEIVED")
       /\ t \in {"RECEIVED", "PENDING", "PARTIALLY_RECEIVED"} /\ (row.unpaid > 0 => t # "RECEIVED")
  BY <1>3 DEF StatusFor
<1> HIDE DEF s, t, items
<1>12. /\ i \in OpenItems <=> i \in DOMAIN items /\ items[i].remaining > 0
                              /\ items[i].status \notin {"CANCELLED", "REVERSED"}
       /\ j \in OpenItems <=> j \in DOMAIN items /\ items[j].remaining > 0
                              /\ items[j].status \notin {"CANCELLED", "REVERSED"}
  BY DEF OpenItems, items
<1>13. /\ i \in OpenItems <=> row.left > 0 
       /\ j \in OpenItems <=> row.unpaid > 0
  BY <1>3, <1>4, <1>6, <1>9, <1>10, <1>11, <1>12
<1> QED BY <1>2, <1>3, <1>4, <1>6, <1>9, <1>10, <1>11, <1>12, <1>13 DEF items

\* Every item is one of these.
LEMMA ItemIs ==
  ASSUME NEW i \in DOMAIN UnifiedItems
  PROVE  \/ \E b \in Debts : i = <<"debt", b>>
         \/ \E c \in Live : i = <<"principal", c>> \/ i = <<"commission", c>>
<1>1. /\ i \in Items /\ (i[1] = "principal" => i[2] \in Live) /\ (i[1] = "commission" => i[2] \in Live)
  BY DEF UnifiedItems
<1> QED BY <1>1 DEF Items

\* The list by status, by kind and in all.
LEMMA ListSums ==
  ASSUME Known, StatusesStand
  PROVE  /\ IsFiniteSet(OpenItems)
         /\ OpenAmount(OpenItems) = OpenAmount(WithStatus("PENDING"))
              + OpenAmount(WithStatus("PARTIALLY_RECEIVED")) + OpenAmount(WithStatus("OVERDUE"))
         /\ OpenAmount(OpenItems) = OpenAmount(OfKind("CARD_PRINCIPAL"))
              + OpenAmount(OfKind("CARD_COMMISSION")) + OpenAmount(OfKind("OTHER"))
<1> DEFINE f == [i \in OpenItems |-> UnifiedItems[i].remaining]
<1>1. IsFiniteSet(OpenItems)
  <2>1. IsFiniteSet({"debt"} \X Debts)
    BY FS_Singleton, FS_Product, DuesAssumption
  <2>2. IsFiniteSet({"principal"} \X Cases) BY FS_Singleton, FS_Product, DuesAssumption
  <2>3. IsFiniteSet({"commission"} \X Cases) BY FS_Singleton, FS_Product, DuesAssumption
  <2>4. Items = ({"debt"} \X Debts) \cup (({"principal"} \X Cases) \cup ({"commission"} \X Cases)) BY DEF Items
  <2>5. IsFiniteSet(Items) BY <2>1, <2>2, <2>3, <2>4, FS_Union
  <2>6. OpenItems \in SUBSET Items BY DEF OpenItems, UnifiedItems
  <2> QED BY <2>5, <2>6, FS_Subset
<1>2. ASSUME NEW i \in OpenItems
      PROVE  /\ UnifiedItems[i].remaining \in Int
             /\ UnifiedItems[i].status \in {"PENDING", "PARTIALLY_RECEIVED", "OVERDUE"}
             /\ UnifiedItems[i].kind \in {"CARD_PRINCIPAL", "CARD_COMMISSION", "OTHER"}
  <2>1. i \in DOMAIN UnifiedItems BY DEF OpenItems
  <2>2. CASE \E b \in Debts : i = <<"debt", b>>
    <3>1. PICK b \in Debts : i = <<"debt", b>> BY <2>2
    <3> QED BY <2>1, <3>1, DebtItem
  <2>3. CASE \E c \in Live : i = <<"principal", c>> \/ i = <<"commission", c>>
    <3>1. PICK c \in Live : i = <<"principal", c>> \/ i = <<"commission", c>> BY <2>3
    <3> QED BY <2>1, <3>1, CaseItems
  <2> QED BY <2>1, <2>2, <2>3, ItemIs
<1>3. f \in [OpenItems -> Int] BY <1>2
<1>4. Parts(OpenItems, WithStatus("PENDING"), WithStatus("PARTIALLY_RECEIVED"), WithStatus("OVERDUE"))
  BY <1>2 DEF Parts, WithStatus
<1>5. Parts(OpenItems, OfKind("CARD_PRINCIPAL"), OfKind("CARD_COMMISSION"), OfKind("OTHER"))
  BY <1>2 DEF Parts, OfKind
<1>6. ASSUME NEW S \in SUBSET OpenItems PROVE [i \in S |-> f[i]] = [i \in S |-> UnifiedItems[i].remaining]
  OBVIOUS
<1>7. OpenAmount(OpenItems) = SumFunction(f) BY DEF OpenAmount
<1>8. ASSUME NEW S \in SUBSET OpenItems PROVE SumFunction([i \in S |-> f[i]]) = OpenAmount(S)
  BY <1>6 DEF OpenAmount
<1>9. /\ \A s : WithStatus(s) \in SUBSET OpenItems
      /\ \A k : OfKind(k) \in SUBSET OpenItems
  BY DEF WithStatus, OfKind
<1> HIDE DEF f
<1>10. SumFunction(f) = SumFunction([i \in WithStatus("PENDING") |-> f[i]])
         + SumFunction([i \in WithStatus("PARTIALLY_RECEIVED") |-> f[i]])
         + SumFunction([i \in WithStatus("OVERDUE") |-> f[i]])
  BY <1>1, <1>3, <1>4, SumThree
<1>11. SumFunction(f) = SumFunction([i \in OfKind("CARD_PRINCIPAL") |-> f[i]])
         + SumFunction([i \in OfKind("CARD_COMMISSION") |-> f[i]])
         + SumFunction([i \in OfKind("OTHER") |-> f[i]])
  BY <1>1, <1>3, <1>5, SumThree
<1> QED BY <1>1, <1>7, <1>8, <1>9, <1>10, <1>11

\* The kinds of the list are the rows, and what is overdue on it are the
\* receivables that were due before today.
LEMMA KindSums ==
  ASSUME Known, StatusesStand
  PROVE  /\ OpenAmount(OfKind("OTHER")) = DebtsRemaining
         /\ OpenAmount(OfKind("CARD_PRINCIPAL")) = LiveLeft
         /\ OpenAmount(OfKind("CARD_COMMISSION")) = LiveUnpaid
         /\ OpenAmount(WithStatus("OVERDUE"))
              = SumFunction([b \in Debts |-> IF debt[b].remaining > 0 /\ DueDay[b] < today
                                             THEN debt[b].remaining ELSE 0])
<1>1. IsFiniteSet(Live) /\ IsFiniteSet(Debts) /\ Live \in SUBSET Cases BY DuesAssumption, FS_Subset DEF Live
<1>2. ASSUME NEW i \in OpenItems
      PROVE  /\ UnifiedItems[i].remaining \in Int
             /\ UnifiedItems[i].kind = "OTHER" => \E b \in Debts : i = <<"debt", b>>
             /\ UnifiedItems[i].status = "OVERDUE" => \E b \in Debts : i = <<"debt", b>>
             /\ UnifiedItems[i].kind = "CARD_PRINCIPAL" => \E c \in Live : i = <<"principal", c>>
             /\ UnifiedItems[i].kind = "CARD_COMMISSION" => \E c \in Live : i = <<"commission", c>>
  <2>1. i \in DOMAIN UnifiedItems BY DEF OpenItems
  <2>2. CASE \E b \in Debts : i = <<"debt", b>>
    <3>1. PICK b \in Debts : i = <<"debt", b>> BY <2>2
    <3> QED BY <2>1, <3>1, DebtItem
  <2>3. CASE \E c \in Live : i = <<"principal", c>>
    <3>1. PICK c \in Live : i = <<"principal", c>> BY <2>3
    <3> QED BY <2>1, <3>1, CaseItems
  <2>4. CASE \E c \in Live : i = <<"commission", c>>
    <3>1. PICK c \in Live : i = <<"commission", c>> BY <2>4
    <3> QED BY <2>1, <3>1, CaseItems
  <2> QED BY <2>1, <2>2, <2>3, <2>4, ItemIs
<1>3. OpenAmount(OfKind("OTHER")) = DebtsRemaining
  <2> DEFINE A == OfKind("OTHER")
             f == [i \in A |-> UnifiedItems[i].remaining]
             g == [b \in Debts |-> debt[b].remaining]
  <2>1. A \in SUBSET ({"debt"} \X Debts) BY <1>2 DEF OfKind
  <2>2. f \in [A -> Int] BY <1>2 DEF OfKind
  <2>3. ASSUME NEW b \in Debts
        PROVE  g[b] \in Int /\ g[b] = IF <<"debt", b>> \in A THEN f[<<"debt", b>>] ELSE 0
    <3> DEFINE i == <<"debt", b>>
    <3>1. /\ i \in OpenItems <=> debt[b].remaining > 0
          /\ i \in DOMAIN UnifiedItems =>
               UnifiedItems[i].kind = "OTHER" /\ UnifiedItems[i].remaining = debt[b].remaining
          /\ debt[b].remaining \in Int /\ debt[b].remaining >= 0
      BY DebtItem
    <3>2. i \in OpenItems => i \in DOMAIN UnifiedItems BY DEF OpenItems
    <3> HIDE DEF i
    <3>3. i \in A <=> debt[b].remaining > 0 BY <3>1, <3>2 DEF OfKind
    <3>4. i \in A => f[i] = debt[b].remaining BY <3>1, <3>2 DEF OfKind
    <3>5. g[b] = debt[b].remaining OBVIOUS
    <3> HIDE DEF A, f, g
    <3>6. g[b] = IF i \in A THEN f[i] ELSE 0 BY <3>1, <3>3, <3>4, <3>5
    <3> QED BY <3>1, <3>5, <3>6 DEF i
  <2>4. g \in [Debts -> Int] BY <2>3
  <2>5. OpenAmount(A) = SumFunction(f) /\ DebtsRemaining = SumFunction(g) BY DEF OpenAmount, DebtsRemaining
  <2> HIDE DEF A, f, g
  <2>7. IsTagged(Debts, "debt", A, f, g) BY <1>1, <2>1, <2>2, <2>3, <2>4 DEF IsTagged
  <2>6. SumFunction(f) = SumFunction(g) BY <2>7, SumTagged
  <2> QED BY <2>5, <2>6 DEF A
<1>4. OpenAmount(OfKind("CARD_PRINCIPAL")) = LiveLeft
  <2> DEFINE A == OfKind("CARD_PRINCIPAL")
             f == [i \in A |-> UnifiedItems[i].remaining]
             g == [c \in Live |-> case[c].left]
  <2>1. A \in SUBSET ({"principal"} \X Live) BY <1>2 DEF OfKind
  <2>2. f \in [A -> Int] BY <1>2 DEF OfKind
  <2>3. ASSUME NEW c \in Live
        PROVE  g[c] \in Int /\ g[c] = IF <<"principal", c>> \in A THEN f[<<"principal", c>>] ELSE 0
    <3> DEFINE i == <<"principal", c>>
    <3>1. /\ i \in OpenItems <=> case[c].left > 0
          /\ UnifiedItems[i].kind = "CARD_PRINCIPAL" /\ UnifiedItems[i].remaining = case[c].left
          /\ case[c].left \in Int /\ case[c].left >= 0
      BY CaseItems
    <3> HIDE DEF i
    <3>3. i \in A <=> case[c].left > 0 BY <3>1 DEF OfKind
    <3>4. i \in A => f[i] = case[c].left BY <3>1
    <3>5. g[c] = case[c].left OBVIOUS
    <3> HIDE DEF A, f, g
    <3>6. g[c] = IF i \in A THEN f[i] ELSE 0 BY <3>1, <3>3, <3>4, <3>5
    <3> QED BY <3>1, <3>5, <3>6 DEF i
  <2>4. g \in [Live -> Int] BY <2>3
  <2>5. OpenAmount(A) = SumFunction(f) /\ LiveLeft = SumFunction(g) BY DEF OpenAmount, LiveLeft
  <2> HIDE DEF A, f, g
  <2>7. IsTagged(Live, "principal", A, f, g) BY <1>1, <2>1, <2>2, <2>3, <2>4 DEF IsTagged
  <2>6. SumFunction(f) = SumFunction(g) BY <2>7, SumTagged
  <2> QED BY <2>5, <2>6 DEF A
<1>5. OpenAmount(OfKind("CARD_COMMISSION")) = LiveUnpaid
  <2> DEFINE A == OfKind("CARD_COMMISSION")
             f == [i \in A |-> UnifiedItems[i].remaining]
             g == [c \in Live |-> case[c].unpaid]
  <2>1. A \in SUBSET ({"commission"} \X Live) BY <1>2 DEF OfKind
  <2>2. f \in [A -> Int] BY <1>2 DEF OfKind
  <2>3. ASSUME NEW c \in Live
        PROVE  g[c] \in Int /\ g[c] = IF <<"commission", c>> \in A THEN f[<<"commission", c>>] ELSE 0
    <3> DEFINE i == <<"commission", c>>
    <3>1. /\ i \in OpenItems <=> case[c].unpaid > 0
          /\ i \in DOMAIN UnifiedItems =>
               UnifiedItems[i].kind = "CARD_COMMISSION" /\ UnifiedItems[i].remaining = case[c].unpaid
          /\ case[c].unpaid \in Int /\ case[c].unpaid >= 0
      BY CaseItems
    <3>2. i \in OpenItems => i \in DOMAIN UnifiedItems BY DEF OpenItems
    <3> HIDE DEF i
    <3>3. i \in A <=> case[c].unpaid > 0 BY <3>1, <3>2 DEF OfKind
    <3>4. i \in A => f[i] = case[c].unpaid BY <3>1, <3>2 DEF OfKind
    <3>5. g[c] = case[c].unpaid OBVIOUS
    <3> HIDE DEF A, f, g
    <3>6. g[c] = IF i \in A THEN f[i] ELSE 0 BY <3>1, <3>3, <3>4, <3>5
    <3> QED BY <3>1, <3>5, <3>6 DEF i
  <2>4. g \in [Live -> Int] BY <2>3
  <2>5. OpenAmount(A) = SumFunction(f) /\ LiveUnpaid = SumFunction(g) BY DEF OpenAmount, LiveUnpaid
  <2> HIDE DEF A, f, g
  <2>7. IsTagged(Live, "commission", A, f, g) BY <1>1, <2>1, <2>2, <2>3, <2>4 DEF IsTagged
  <2>6. SumFunction(f) = SumFunction(g) BY <2>7, SumTagged
  <2> QED BY <2>5, <2>6 DEF A
<1>6. OpenAmount(WithStatus("OVERDUE"))
        = SumFunction([b \in Debts |-> IF debt[b].remaining > 0 /\ DueDay[b] < today
                                       THEN debt[b].remaining ELSE 0])
  <2> DEFINE A == WithStatus("OVERDUE")
             f == [i \in A |-> UnifiedItems[i].remaining]
             g == [b \in Debts |-> IF debt[b].remaining > 0 /\ DueDay[b] < today
                                   THEN debt[b].remaining ELSE 0]
  <2>1. A \in SUBSET ({"debt"} \X Debts) BY <1>2 DEF WithStatus
  <2>2. f \in [A -> Int] BY <1>2 DEF WithStatus
  <2>3. ASSUME NEW b \in Debts
        PROVE  g[b] \in Int /\ g[b] = IF <<"debt", b>> \in A THEN f[<<"debt", b>>] ELSE 0
    <3> DEFINE i == <<"debt", b>>
    <3>1. /\ i \in OpenItems <=> debt[b].remaining > 0
          /\ i \in DOMAIN UnifiedItems => UnifiedItems[i].remaining = debt[b].remaining
          /\ i \in OpenItems => (UnifiedItems[i].status = "OVERDUE" <=> DueDay[b] < today)
          /\ debt[b].remaining \in Int
      BY DebtItem
    <3>2. i \in OpenItems => i \in DOMAIN UnifiedItems BY DEF OpenItems
    <3> HIDE DEF i
    <3>3. i \in A <=> debt[b].remaining > 0 /\ DueDay[b] < today BY <3>1 DEF WithStatus
    <3>4. i \in A => f[i] = debt[b].remaining BY <3>1, <3>2 DEF WithStatus
    <3>5. g[b] = IF debt[b].remaining > 0 /\ DueDay[b] < today THEN debt[b].remaining ELSE 0 OBVIOUS
    <3> HIDE DEF A, f, g
    <3>6. g[b] = IF i \in A THEN f[i] ELSE 0 BY <3>3, <3>4, <3>5
    <3>7. g[b] \in Int BY <3>1, <3>5
    <3> QED BY <3>6, <3>7 DEF i
  <2>4. g \in [Debts -> Int] BY <2>3
  <2>5. OpenAmount(A) = SumFunction(f) BY DEF OpenAmount
  <2> HIDE DEF A, f, g
  <2>7. IsTagged(Debts, "debt", A, f, g) BY <1>1, <2>1, <2>2, <2>3, <2>4 DEF IsTagged
  <2>6. SumFunction(f) = SumFunction(g) BY <2>7, SumTagged
  <2> QED BY <2>5, <2>6 DEF A, g
<1> QED BY <1>3, <1>4, <1>5, <1>6

(* The three ages.                                                         *)
NotDue == {b \in OpenDebts : DueDay[b] >= today}
DueThisMonth == {b \in OpenDebts : DueDay[b] < today /\ DueDay[b] >= today - 30}
DueBefore == {b \in OpenDebts : DueDay[b] < today - 30}

\* What the dashboard ages is what is open, and what it shows as due is
\* what the list shows as overdue.
LEMMA AgesSum ==
  ASSUME Known, StatusesStand
  PROVE  /\ DebtAmount(NotDue) + DebtAmount(DueThisMonth) + DebtAmount(DueBefore) = DebtsRemaining
         /\ DebtAmount(DueThisMonth) + DebtAmount(DueBefore) = OpenAmount(WithStatus("OVERDUE"))
<1> DEFINE D == DueThisMonth \cup DueBefore
           a == [b \in NotDue |-> debt[b].remaining]
           m == [b \in DueThisMonth |-> debt[b].remaining]
           o == [b \in DueBefore |-> debt[b].remaining]
           f == [b \in OpenDebts |-> debt[b].remaining]
           d == [b \in D |-> debt[b].remaining]
           g == [b \in Debts |-> debt[b].remaining]
           h == [b \in Debts |-> IF debt[b].remaining > 0 /\ DueDay[b] < today
                                 THEN debt[b].remaining ELSE 0]
<1>1. \A b \in Debts : /\ debt[b].remaining \in Int /\ debt[b].remaining >= 0
                       /\ DueDay[b] \in Int /\ today \in Int
  BY DebtItem
<1>2. IsFiniteSet(Debts) /\ OpenDebts \in SUBSET Debts /\ IsFiniteSet(OpenDebts) /\ D \in SUBSET OpenDebts
      /\ D \in SUBSET Debts /\ IsFiniteSet(D)
  BY DuesAssumption, FS_Subset DEF OpenDebts, DueThisMonth, DueBefore
<1>3. Parts(OpenDebts, NotDue, DueThisMonth, DueBefore)
  <2>1. \A b \in OpenDebts : DueDay[b] \in Int /\ today \in Int BY <1>1, <1>2
  <2> QED BY <2>1 DEF Parts, NotDue, DueThisMonth, DueBefore
<1>4. /\ f \in [OpenDebts -> Int] /\ d \in [D -> Int] /\ g \in [Debts -> Int] /\ h \in [Debts -> Int]
      /\ m \in [DueThisMonth -> Int] /\ o \in [DueBefore -> Int]
  BY <1>1, <1>2
<1>5. /\ [b \in NotDue |-> f[b]] = a /\ [b \in DueThisMonth |-> f[b]] = m /\ [b \in DueBefore |-> f[b]] = o
  BY DEF NotDue, DueThisMonth, DueBefore
<1>6. InParts(D, DueThisMonth, DueBefore, d, m, o) BY <1>2, <1>3, <1>4 DEF InParts, Parts
<1>7. ASSUME NEW b \in Debts PROVE g[b] = IF b \in OpenDebts THEN f[b] ELSE 0 BY <1>1 DEF OpenDebts
<1>8. ASSUME NEW b \in Debts PROVE h[b] = IF b \in D THEN d[b] ELSE 0
  <2>1. b \in D <=> debt[b].remaining > 0 /\ DueDay[b] < today
    BY <1>1 DEF OpenDebts, DueThisMonth, DueBefore
  <2> QED BY <2>1
<1>9. /\ DebtAmount(NotDue) = SumFunction(a) /\ DebtAmount(DueThisMonth) = SumFunction(m)
      /\ DebtAmount(DueBefore) = SumFunction(o) /\ DebtsRemaining = SumFunction(g)
  BY DEF DebtAmount, DebtsRemaining
<1>10. OpenAmount(WithStatus("OVERDUE")) = SumFunction(h) BY KindSums
<1> HIDE DEF D, a, m, o, f, d, g, h
<1>11. SumFunction(f) = SumFunction(a) + SumFunction(m) + SumFunction(o)
  <2>1. SumFunction(f) = SumFunction([b \in NotDue |-> f[b]]) + SumFunction([b \in DueThisMonth |-> f[b]])
                         + SumFunction([b \in DueBefore |-> f[b]])
    BY <1>2, <1>3, <1>4, SumThree
  <2> QED BY <1>5, <2>1
<1>12. SumFunction(d) = SumFunction(m) + SumFunction(o) BY <1>6, SumUnion
<1>13. SumFunction(f) = SumFunction(g)
  <2>1. f \in [OpenDebts -> Int] /\ g \in [Debts -> Int] BY <1>4
  <2> QED BY ONLY <1>2, <1>7, <2>1, SumPart
<1>14. SumFunction(d) = SumFunction(h)
  <2>1. d \in [D -> Int] /\ h \in [Debts -> Int] BY <1>4
  <2> QED BY ONLY <1>2, <1>8, <2>1, SumPart
<1> QED BY <1>9, <1>10, <1>11, <1>12, <1>13, <1>14

\* The figures above the list and those of the dashboard, by name.
LEMMA FiguresAre ==
  ASSUME Known, StatusesStand
  PROVE  /\ Summary.pending = OpenAmount(WithStatus("PENDING"))
         /\ Summary.partial = OpenAmount(WithStatus("PARTIALLY_RECEIVED"))
         /\ Summary.overdue = OpenAmount(WithStatus("OVERDUE"))
         /\ Summary.principal = OpenAmount(OfKind("CARD_PRINCIPAL"))
         /\ Summary.commission = OpenAmount(OfKind("CARD_COMMISSION"))
         /\ Summary.other = OpenAmount(OfKind("OTHER"))
         /\ Summary.total = OpenAmount(OpenItems)
         /\ Ageing.current = DebtAmount(NotDue) /\ Ageing.month = DebtAmount(DueThisMonth)
         /\ Ageing.older = DebtAmount(DueBefore)
<1>1. \A s : WithStatus(s) = {i \in OpenItems : UnifiedItems[i]["status"] = s} BY DEF WithStatus
<1>2. \A k : OfKind(k) = {i \in OpenItems : UnifiedItems[i]["kind"] = k} BY DEF OfKind
<1>3. /\ Summary.pending = OpenAmount(WithStatus("PENDING"))
      /\ Summary.partial = OpenAmount(WithStatus("PARTIALLY_RECEIVED"))
      /\ Summary.overdue = OpenAmount(WithStatus("OVERDUE"))
  BY DEF Summary, Total, OpenAmount, WithStatus, OpenItems
<1>4. /\ Summary.principal = OpenAmount(OfKind("CARD_PRINCIPAL"))
      /\ Summary.commission = OpenAmount(OfKind("CARD_COMMISSION"))
      /\ Summary.other = OpenAmount(OfKind("OTHER"))
  BY DEF Summary, Total, OpenAmount, OfKind, OpenItems
<1>5. Summary.total = OpenAmount(OpenItems) BY DEF Summary, Total, OpenAmount, OpenItems
<1>6. {d \in Debts : debt[d].remaining > 0 /\ debt[d].status \in Collectable} = OpenDebts
  <2>1. \A b \in Debts : debt[b].remaining > 0 => debt[b].status \in Collectable BY DebtItem
  <2> QED BY <2>1 DEF OpenDebts
<1>7. /\ Ageing.current = DebtAmount(NotDue) /\ Ageing.month = DebtAmount(DueThisMonth)
      /\ Ageing.older = DebtAmount(DueBefore)
  BY <1>6 DEF Ageing, Total, DebtAmount, NotDue, DueThisMonth, DueBefore
<1> QED BY <1>3, <1>4, <1>5, <1>7

\* The lists add up.
LEMMA ListsHold ==
  ASSUME Known, LedgerSays, StatusesStand
  PROVE  ListsAddUp
<1>1. /\ Summary.pending + Summary.partial + Summary.overdue = Summary.total
      /\ Summary.principal + Summary.commission + Summary.other = Summary.total
      /\ Ageing.current + Ageing.month + Ageing.older = Summary.other
      /\ Summary.overdue = Ageing.month + Ageing.older
  BY FiguresAre, ListSums, KindSums, AgesSum
<1>2. ledger["RECEIVABLE"] = Summary.total - SumDocs(LAMBDA d : d.generic)
  <2>1. SumDocs(LAMBDA d : d.generic) = Tally(GenericOf, doc)
    <3>1. ASSUME NEW x \in Docs
          PROVE  GenericOf[doc[x]] = IF Counts(x) THEN doc[x].generic ELSE 0
      BY DEF Known, TypeOK, GenericOf, Counts, Standing
    <3> QED BY <3>1 DEF SumDocs, Tally
  <2>2. Summary.total = LiveLeft + LiveUnpaid + DebtsRemaining
    BY FiguresAre, ListSums, KindSums
  <2>3. ledger["RECEIVABLE"] = LiveLeft + LiveUnpaid + DebtsRemaining - Tally(GenericOf, doc)
    BY AccountsAre
  <2>4. ledger["RECEIVABLE"] = Summary.total - Tally(GenericOf, doc)
    <3>1. doc \in [Docs -> Document] BY DEF Known, TypeOK
    <3>2. Tally(GenericOf, doc) \in Int BY <3>1, MeasuresOf, TallyInt
    <3> QED BY <2>2, <2>3, <3>2, RowsSum
  <2> QED BY <2>1, <2>4
<1>3. ASSUME NEW i \in DOMAIN UnifiedItems, UnifiedItems[i].status \notin {"CANCELLED", "REVERSED"}
      PROVE  UnifiedItems[i].original = UnifiedItems[i].received + UnifiedItems[i].remaining
  <2>1. CASE \E b \in Debts : i = <<"debt", b>>
    <3>1. PICK b \in Debts : i = <<"debt", b>> BY <2>1
    <3> QED BY <1>3, <3>1, DebtItem
  <2>2. CASE \E c \in Live : i = <<"principal", c>> \/ i = <<"commission", c>>
    <3>1. PICK c \in Live : i = <<"principal", c>> \/ i = <<"commission", c>> BY <2>2
    <3> QED BY <1>3, <3>1, CaseItems
  <2> QED BY <2>1, <2>2, ItemIs
<1> QED BY <1>1, <1>2, <1>3 DEF ListsAddUp

---------------------------------------------------------------------------
(* The register.                                                           *)

Registered == {d \in Docs : /\ doc[d].status = "COMPLETED"
                            /\ doc[d].kind \in {"recovery", "assessment", "commission", "combined"}}

(* What the register shows as recovered, what of it is owed to the         *)
(* customer, and what it does not show.                                    *)
ShownOf == [d \in Document |->
    IF ~Standing(d) THEN 0
    ELSE IF d.kind = "recovery" THEN d.amount
    ELSE IF d.kind = "combined" THEN SumFunction(d.principal) ELSE 0]
OverpaidOf == [d \in Document |-> IF Standing(d) /\ d.kind = "recovery" THEN d.credit ELSE 0]
PaidInOf == [d \in Document |-> IF Standing(d) /\ d.kind = "payin" THEN SumFunction(d.principal) ELSE 0]

\* What a document settles adds up to numbers.
LEMMA DocumentSums ==
  ASSUME NEW d \in Document
  PROVE  /\ SumFunction(d.principal) \in Int /\ SumFunction(d.commission) \in Int
         /\ d.amount \in Nat /\ d.charge \in Nat /\ d.generic \in Nat /\ d.extra \in Nat /\ d.credit \in Nat
         /\ d.principal \in [Cases -> Nat] /\ d.commission \in [Cases -> Nat]
<1>1. /\ d.amount \in Nat /\ d.charge \in Nat /\ d.generic \in Nat /\ d.extra \in Nat /\ d.credit \in Nat
      /\ d.principal \in [Cases -> Nat] /\ d.commission \in [Cases -> Nat]
  BY DEF Document
<1>2. d.principal \in [Cases -> Int] /\ d.commission \in [Cases -> Int] BY <1>1
<1>3. SumFunction(d.principal) \in Int /\ SumFunction(d.commission) \in Int
  BY <1>2, SumType, DuesAssumption
<1> QED BY <1>1, <1>3

\* What is shown and what is not, is the principal and the excess.
LEMMA ShownSays ==
  ASSUME NEW d \in Document, DocumentOK(d)
  PROVE  Plus(ShownOf, PaidInOf)[d] = Plus(PrincipalOf, OverpaidOf)[d]
<1> DEFINE P == SumFunction(d.principal)
<1>1. P \in Int /\ d.amount \in Int /\ d.credit \in Int BY DocumentSums
<1>2. /\ d.principal = Nothing => P = 0
      /\ d.kind = "recovery" => P = d.amount - d.credit
  <2>1. d.principal = Nothing => P = 0 BY SumOfNothing
  <2>2. d.kind = "recovery" => P = d.amount - d.credit BY DocumentSums, SumOfOnly DEF DocumentOK
  <2> QED BY <2>1, <2>2
<1>3. d.kind \in {"none", "collection", "assessment", "commission"} => d.principal = Nothing
  BY DEF DocumentOK
<1>4. d.kind \in {"none", "recovery", "combined", "payin", "commission", "assessment", "collection"}
  BY DEF Document
<1>5. /\ ShownOf[d] = (IF ~Standing(d) THEN 0 ELSE IF d.kind = "recovery" THEN d.amount
                       ELSE IF d.kind = "combined" THEN P ELSE 0)
      /\ OverpaidOf[d] = (IF Standing(d) /\ d.kind = "recovery" THEN d.credit ELSE 0)
      /\ PaidInOf[d] = (IF Standing(d) /\ d.kind = "payin" THEN P ELSE 0)
      /\ PrincipalOf[d] = (IF Standing(d) THEN P ELSE 0)
  BY DEF ShownOf, OverpaidOf, PaidInOf, PrincipalOf
<1>6. /\ Plus(ShownOf, PaidInOf)[d] = ShownOf[d] + PaidInOf[d]
      /\ Plus(PrincipalOf, OverpaidOf)[d] = PrincipalOf[d] + OverpaidOf[d]
  BY DEF Plus
<1> HIDE DEF P
<1>7. ShownOf[d] + PaidInOf[d] = PrincipalOf[d] + OverpaidOf[d]
  <2>1. CASE ~Standing(d) BY <2>1, <1>5
  <2>2. CASE Standing(d) BY <2>2, <1>1, <1>2, <1>3, <1>4, <1>5
  <2> QED BY <2>1, <2>2
<1> QED BY <1>6, <1>7

\* These are numbers too.
LEMMA MoreMeasures ==
  /\ ShownOf \in [Document -> Int] /\ OverpaidOf \in [Document -> Int] /\ PaidInOf \in [Document -> Int]
BY DocumentSums DEF ShownOf, OverpaidOf, PaidInOf

\* What is shown as recovered.
LEMMA ShownTally ==
  ASSUME Known
  PROVE  /\ Tally(ShownOf, doc) + Tally(PaidInOf, doc) = LiveRecovered + Tally(OverpaidOf, doc)
         /\ Tally(ShownOf, doc) \in Int /\ Tally(PaidInOf, doc) \in Int /\ Tally(OverpaidOf, doc) \in Int
<1>1. doc \in [Docs -> Document] BY DEF Known, TypeOK
<1>2. /\ Tally(Plus(ShownOf, PaidInOf), doc) = Tally(ShownOf, doc) + Tally(PaidInOf, doc)
      /\ Tally(ShownOf, doc) \in Int /\ Tally(PaidInOf, doc) \in Int
  BY <1>1, MoreMeasures, TallyPlus
<1>3. /\ Tally(Plus(PrincipalOf, OverpaidOf), doc) = Tally(PrincipalOf, doc) + Tally(OverpaidOf, doc)
      /\ Tally(OverpaidOf, doc) \in Int
  <2>1. PrincipalOf \in [Document -> Int] /\ OverpaidOf \in [Document -> Int] BY MoreMeasures, MeasuresOf
  <2> QED BY <1>1, <2>1, TallyPlus
<1>4. Tally(Plus(ShownOf, PaidInOf), doc) = Tally(Plus(PrincipalOf, OverpaidOf), doc)
  <2>1. \A x \in Docs : doc[x] \in Document /\ DocumentOK(doc[x]) BY <1>1 DEF Known, DocumentFits
  <2>2. \A x \in Docs : Plus(ShownOf, PaidInOf)[doc[x]] = Plus(PrincipalOf, OverpaidOf)[doc[x]]
    BY <2>1, ShownSays
  <2> QED BY <2>2, TallySame
<1> QED BY <1>2, <1>3, <1>4, RowsSum

\* The register row by row.
LEMMA RegisterRows ==
  ASSUME Known
  PROVE  /\ DOMAIN Register = Live \cup Registered /\ Live \cap Registered = {}
         /\ Registered \in SUBSET Docs /\ IsFiniteSet(Registered) /\ IsFiniteSet(Live)
         /\ \A c \in Live : Register[c] = Activity("opened", Due[c], 0, Fee[c], 0, PayoutCharge)
         /\ \A x \in Registered :
              /\ Register[x].earned = FeeOf[doc[x]] /\ Register[x].providerCost = ChargeOf[doc[x]]
              /\ Register[x].payoutCost = 0 /\ Register[x].kind = doc[x].kind
              /\ doc[x].kind \in {"recovery", "combined"} => Register[x].principal = ShownOf[doc[x]]
         /\ \A x \in Docs \ Registered : FeeOf[doc[x]] = 0 /\ ChargeOf[doc[x]] = 0 /\ ShownOf[doc[x]] = 0
<1>1. doc \in [Docs -> Document] /\ \A x \in Docs : doc[x] \in Document /\ DocumentOK(doc[x])
  BY DEF Known, TypeOK, DocumentFits
<1>2. /\ Live \in SUBSET Cases /\ Registered \in SUBSET Docs /\ IsFiniteSet(Registered) /\ IsFiniteSet(Live)
      /\ Live \cap Registered = {}
  <2>1. Live \in SUBSET Cases /\ Registered \in SUBSET Docs BY DEF Live, Registered
  <2> QED BY <2>1, DocsFinite, DuesAssumption, CardOfAssumption, FS_Subset
<1>3. DOMAIN Register = Live \cup Registered BY DEF Register, Registered
<1>4. ASSUME NEW c \in Live PROVE Register[c] = Activity("opened", Due[c], 0, Fee[c], 0, PayoutCharge)
  BY <1>2 DEF Register
<1>5. ASSUME NEW x \in Registered
      PROVE  /\ Register[x].earned = FeeOf[doc[x]] /\ Register[x].providerCost = ChargeOf[doc[x]]
             /\ Register[x].payoutCost = 0 /\ Register[x].kind = doc[x].kind
             /\ doc[x].kind \in {"recovery", "combined"} => Register[x].principal = ShownOf[doc[x]]
  <2> DEFINE d == doc[x]
             row == Register[x]
  <2>1. x \notin Cases /\ x \in Docs BY <1>2, CardOfAssumption
  <2>2. /\ d \in Document /\ DocumentOK(d) /\ Standing(d)
        /\ d.kind \in {"recovery", "assessment", "commission", "combined"}
    BY <1>1, <2>1 DEF Registered, Standing
  <2>3. row = CASE d.kind = "recovery"   -> Activity("recovery", d.amount, 0, 0, d.charge, 0)
                [] d.kind = "assessment" -> Activity("assessment", 0, 0, d.amount, 0, 0)
                [] d.kind = "commission" -> Activity("commission", 0, d.amount, d.extra, 0, 0)
                [] d.kind = "combined"   -> Activity("combined", SumFunction(d.principal),
                                                     SumFunction(d.commission), 0, 0, 0)
    BY <1>3, <2>1 DEF Register, Registered
  <2>4. /\ FeeOf[d] = (IF d.kind = "assessment" THEN d.amount ELSE d.extra) /\ ChargeOf[d] = d.charge
        /\ d.kind = "recovery" => ShownOf[d] = d.amount
        /\ d.kind = "combined" => ShownOf[d] = SumFunction(d.principal)
    BY <2>2 DEF FeeOf, ChargeOf, ShownOf
  <2>5. (d.kind # "commission" => d.extra = 0) /\ (d.kind # "recovery" => d.charge = 0)
    BY <2>2 DEF DocumentOK, AddsUp
  <2> HIDE DEF d, row
  <2>6. CASE d.kind = "recovery"
    <3>1. row = Activity("recovery", d.amount, 0, 0, d.charge, 0) BY <2>3, <2>6
    <3> QED BY <2>4, <2>5, <2>6, <3>1 DEF Activity, d, row
  <2>7. CASE d.kind = "assessment"
    <3>1. row = Activity("assessment", 0, 0, d.amount, 0, 0) BY <2>3, <2>7
    <3> QED BY <2>4, <2>5, <2>7, <3>1 DEF Activity, d, row
  <2>8. CASE d.kind = "commission"
    <3>1. row = Activity("commission", 0, d.amount, d.extra, 0, 0) BY <2>3, <2>8
    <3> QED BY <2>4, <2>5, <2>8, <3>1 DEF Activity, d, row
  <2>9. CASE d.kind = "combined"
    <3>1. row = Activity("combined", SumFunction(d.principal), SumFunction(d.commission), 0, 0, 0)
      BY <2>3, <2>9
    <3> QED BY <2>4, <2>5, <2>9, <3>1 DEF Activity, d, row
  <2> QED BY <2>2, <2>6, <2>7, <2>8, <2>9
<1>6. ASSUME NEW x \in Docs \ Registered
      PROVE  FeeOf[doc[x]] = 0 /\ ChargeOf[doc[x]] = 0 /\ ShownOf[doc[x]] = 0
  <2> DEFINE d == doc[x]
  <2>1. /\ d \in Document /\ DocumentOK(d)
        /\ Standing(d) => d.kind \notin {"recovery", "assessment", "commission", "combined"}
    BY <1>1 DEF Registered, Standing
  <2>2. Standing(d) => d.extra = 0 /\ d.charge = 0 BY <2>1 DEF DocumentOK, AddsUp
  <2> QED BY <2>1, <2>2 DEF FeeOf, ChargeOf, ShownOf
<1> QED BY <1>2, <1>3, <1>4, <1>5, <1>6

\* The sums of the register.
LEMMA RegisterSums ==
  ASSUME Known
  PROVE  /\ RegisterSummary.earned = LiveFee + Tally(FeeOf, doc)
         /\ RegisterSummary.providerCost = Tally(ChargeOf, doc)
         /\ RegisterSummary.payoutCost = LiveCharge
         /\ RegisterSummary.netProfit
              = RegisterSummary.earned - RegisterSummary.providerCost - RegisterSummary.payoutCost
         /\ RegisterSummary.principalRecovered = Tally(ShownOf, doc)
<1> DEFINE S == Live \cup Registered
           Lists == {x \in DOMAIN Register : Register[x].kind \in {"recovery", "combined"}}
           earned == [x \in S |-> Register[x].earned]
           provider == [x \in S |-> Register[x].providerCost]
           payout == [x \in S |-> Register[x].payoutCost]
           fee == [c \in Live |-> Fee[c]]
           none == [c \in Live |-> 0]
           cost == [c \in Live |-> PayoutCharge]
           fees == [x \in Registered |-> FeeOf[doc[x]]]
           charges == [x \in Registered |-> ChargeOf[doc[x]]]
           zero == [x \in Registered |-> 0]
           shown == [x \in Lists |-> Register[x].principal]
<1>1. /\ DOMAIN Register = S /\ Live \cap Registered = {} /\ IsFiniteSet(Live) /\ IsFiniteSet(Registered)
      /\ IsFiniteSet(S) /\ Registered \in SUBSET Docs /\ Live \in SUBSET Cases
  BY RegisterRows, FS_Union DEF Live
<1>2. doc \in [Docs -> Document] /\ \A x \in Docs : doc[x] \in Document BY DEF Known, TypeOK
<1>3. /\ fee \in [Live -> Int] /\ none \in [Live -> Int] /\ cost \in [Live -> Int]
      /\ fees \in [Registered -> Int] /\ charges \in [Registered -> Int] /\ zero \in [Registered -> Int]
  BY <1>1, <1>2, MeasuresOf, DuesAssumption
<1>4. ASSUME NEW c \in Live
      PROVE  /\ earned[c] = fee[c] /\ provider[c] = none[c] /\ payout[c] = cost[c] /\ c \notin Lists
  BY <1>1, RegisterRows DEF Activity
<1>5. ASSUME NEW x \in Registered
      PROVE  /\ earned[x] = fees[x] /\ provider[x] = charges[x] /\ payout[x] = zero[x]
  BY <1>1, RegisterRows
<1>6. /\ RegisterSummary.earned = SumFunction(earned)
      /\ RegisterSummary.providerCost = SumFunction(provider)
      /\ RegisterSummary.payoutCost = SumFunction(payout)
      /\ RegisterSummary.netProfit
           = RegisterSummary.earned - RegisterSummary.providerCost - RegisterSummary.payoutCost
      /\ RegisterSummary.principalRecovered = SumFunction(shown)
  BY <1>1 DEF RegisterSummary, Total
<1>7. /\ \A x \in Lists : x \in Docs /\ shown[x] = ShownOf[doc[x]]
      /\ \A x \in Docs \ Lists : ShownOf[doc[x]] = 0
      /\ shown = [x \in Lists |-> shown[x]]
  <2>1. ASSUME NEW x \in Lists PROVE x \in Docs /\ shown[x] = ShownOf[doc[x]]
    <3>1. x \in Registered BY <1>1, <1>4
    <3> QED BY <1>1, <3>1, RegisterRows
  <2>2. ASSUME NEW x \in Docs \ Lists PROVE ShownOf[doc[x]] = 0
    <3>1. CASE x \in Registered
      <4>1. doc[x].kind \notin {"recovery", "combined"} BY <1>1, <3>1, RegisterRows
      <4> QED BY <1>2, <4>1 DEF ShownOf
    <3> QED BY <3>1, RegisterRows
  <2> QED BY <2>1, <2>2
<1>8. /\ LiveFee = SumFunction(fee) /\ LiveCharge = SumFunction(cost) BY DEF LiveFee, LiveCharge
<1>9. /\ \A x \in Registered : fees[x] = FeeOf[doc[x]] /\ charges[x] = ChargeOf[doc[x]]
      /\ \A x \in Docs \ Registered : FeeOf[doc[x]] = 0 /\ ChargeOf[doc[x]] = 0
      /\ \A x \in Registered : zero[x] = 0
      /\ \A c \in Live : none[c] = 0
      /\ fees = [x \in Registered |-> fees[x]] /\ charges = [x \in Registered |-> charges[x]]
  BY RegisterRows
<1>10. /\ earned \in [S -> Int] /\ provider \in [S -> Int] /\ payout \in [S -> Int]
  <2> HIDE DEF fee, none, cost, fees, charges, zero
  <2>1. ASSUME NEW x \in S PROVE earned[x] \in Int /\ provider[x] \in Int /\ payout[x] \in Int
    <3>1. CASE x \in Live
      <4>1. fee[x] \in Int /\ none[x] \in Int /\ cost[x] \in Int BY <1>3, <3>1
      <4> HIDE DEF earned, provider, payout
      <4> QED BY <1>4, <3>1, <4>1
    <3>2. CASE x \in Registered
      <4>1. fees[x] \in Int /\ charges[x] \in Int /\ zero[x] \in Int BY <1>3, <3>2
      <4> HIDE DEF earned, provider, payout
      <4> QED BY <1>5, <3>2, <4>1
    <3> QED BY <3>1, <3>2
  <2> QED BY <2>1
<1> HIDE DEF earned, provider, payout, fee, none, cost, fees, charges, zero, shown, Lists
<1>11. /\ InParts(S, Live, Registered, earned, fee, fees)
       /\ InParts(S, Live, Registered, provider, none, charges)
       /\ InParts(S, Live, Registered, payout, cost, zero)
  BY <1>1, <1>3, <1>4, <1>5, <1>10 DEF InParts
<1>12. SumFunction(earned) = SumFunction(fee) + SumFunction(fees) BY <1>11, SumUnion
<1>13. SumFunction(provider) = SumFunction(none) + SumFunction(charges) /\ SumFunction(charges) \in Int
  BY <1>11, SumUnion
<1>14. SumFunction(payout) = SumFunction(cost) + SumFunction(zero) /\ SumFunction(cost) \in Int
  BY <1>11, SumUnion
<1>15. SumFunction(none) = 0 BY <1>1, <1>3, <1>9, SumZero
<1>16. SumFunction(zero) = 0 BY <1>1, <1>3, <1>9, SumZero
<1>17. SumFunction(fees) = Tally(FeeOf, doc)
  <2>1. /\ Registered \in SUBSET Docs /\ doc \in [Docs -> Document] /\ FeeOf \in [Document -> Int]
        /\ fees = [x \in Registered |-> fees[x]] /\ \A x \in Registered : fees[x] = FeeOf[doc[x]]
        /\ \A x \in Docs \ Registered : FeeOf[doc[x]] = 0
    BY <1>1, <1>2, <1>9, MeasuresOf
  <2> QED BY ONLY <2>1, TallyPart
<1>18. SumFunction(charges) = Tally(ChargeOf, doc)
  <2>1. /\ Registered \in SUBSET Docs /\ doc \in [Docs -> Document] /\ ChargeOf \in [Document -> Int]
        /\ charges = [x \in Registered |-> charges[x]] /\ \A x \in Registered : charges[x] = ChargeOf[doc[x]]
        /\ \A x \in Docs \ Registered : ChargeOf[doc[x]] = 0
    BY <1>1, <1>2, <1>9, MeasuresOf
  <2> QED BY ONLY <2>1, TallyPart
<1>19. SumFunction(shown) = Tally(ShownOf, doc)
  <2>1. Lists \in SUBSET Docs BY <1>7
  <2> QED BY <1>2, <1>7, <2>1, MoreMeasures, TallyPart
<1> QED BY <1>6, <1>8, <1>12, <1>13, <1>14, <1>15, <1>16, <1>17, <1>18, <1>19

\* Documents that stand by kind, and the cases that recoveries settle.
LEMMA StandingDocs ==
  ASSUME Known
  PROVE  /\ \A k : Active(k) \in SUBSET Docs
         /\ \A k : \A x \in Docs : k # "none" => (x \in Active(k) <=> Standing(doc[x]) /\ doc[x].kind = k)
         /\ \A x \in Active("recovery") : doc[x].case \in Live
         /\ RecoveriesOf(None) = Active("recovery")
<1>1. /\ \A k : Active(k) \in SUBSET Docs
      /\ \A k : \A x \in Docs : k # "none" => (x \in Active(k) <=> Standing(doc[x]) /\ doc[x].kind = k)
  BY DEF Active, Standing
<1>2. ASSUME NEW x \in Active("recovery") PROVE doc[x].case \in Live
  <2>1. x \in Docs /\ DocumentFits(x) /\ doc[x].kind = "recovery" /\ Counts(x)
    BY DEF Known, Active, Counts
  <2>2. doc[x].case \in Cases BY <2>1 DEF DocumentFits, DocumentOK
  <2> QED BY <2>1, <2>2 DEF DocumentFits, Touches
<1>3. Clearings(None) = Live BY DEF Clearings, OnCard
<1>4. RecoveriesOf(None) = Active("recovery") BY <1>2, <1>3 DEF RecoveriesOf
<1> QED BY <1>1, <1>2, <1>4

\* The register agrees with the ledger and the cases.
LEMMA RegisterHolds ==
  ASSUME Known, LedgerSays
  PROVE  RegisterAgrees
<1>1. doc \in [Docs -> Document] /\ \A x \in Docs : doc[x] \in Document BY DEF Known, TypeOK
<1> DEFINE credit == [d \in ExcessItems |-> doc[d].credit]
           principal == [d \in Active("payin") |-> SumFunction(doc[d].principal)]
<1>2. /\ Tally(FeeOf, doc) \in Int /\ Tally(ChargeOf, doc) \in Int BY <1>1, MeasuresOf, TallyInt
<1>3. RegisterSummary.earned = -ledger["INCOME"]
  BY <1>2, RegisterSums, AccountsAre, RowsSum
<1>4. RegisterSummary.netProfit = -ledger["INCOME"] - ledger["CHARGE"]
  BY <1>2, RegisterSums, AccountsAre, RowsSum
<1>5. SumFunction(credit) = Tally(OverpaidOf, doc)
  <2>1. ExcessItems \in SUBSET Docs BY StandingDocs DEF ExcessItems
  <2>2. \A x \in ExcessItems : credit[x] = OverpaidOf[doc[x]]
    BY <1>1, <2>1, StandingDocs DEF ExcessItems, OverpaidOf
  <2>3. ASSUME NEW x \in Docs \ ExcessItems PROVE OverpaidOf[doc[x]] = 0
    <3>1. doc[x] \in Document /\ doc[x].credit \in Nat BY <1>1, DocumentSums
    <3> QED BY <3>1, StandingDocs DEF ExcessItems, OverpaidOf
  <2>4. credit = [x \in ExcessItems |-> credit[x]] OBVIOUS
  <2> HIDE DEF credit
  <2> QED BY <1>1, <2>1, <2>2, <2>3, <2>4, MoreMeasures, TallyPart
<1>6. SumFunction(principal) = Tally(PaidInOf, doc)
  <2>1. Active("payin") \in SUBSET Docs BY StandingDocs
  <2>2. \A x \in Active("payin") : principal[x] = PaidInOf[doc[x]]
    BY <1>1, <2>1, StandingDocs DEF PaidInOf
  <2>3. \A x \in Docs \ Active("payin") : PaidInOf[doc[x]] = 0
    BY <1>1, StandingDocs DEF PaidInOf
  <2>4. principal = [x \in Active("payin") |-> principal[x]] OBVIOUS
  <2> HIDE DEF principal
  <2> QED BY <1>1, <2>1, <2>2, <2>3, <2>4, MoreMeasures, TallyPart
<1>7. /\ Total(Live, LAMBDA c : case[c].recovered) = LiveRecovered
      /\ Total(ExcessItems, LAMBDA d : doc[d].credit) = SumFunction(credit)
      /\ Total(Active("payin"), LAMBDA d : SumFunction(doc[d].principal)) = SumFunction(principal)
  BY DEF Total, LiveRecovered
<1> HIDE DEF credit, principal
<1>8. RegisterSummary.principalRecovered
        = LiveRecovered + SumFunction(credit) - SumFunction(principal)
  BY <1>5, <1>6, RegisterSums, ShownTally, RowsSum
<1> QED BY <1>3, <1>4, <1>7, <1>8 DEF RegisterAgrees

---------------------------------------------------------------------------
(* The card ledger.                                                        *)

(* What a card's ledger takes from each document, and what it shows as     *)
(* paid to the card.                                                       *)
Taken(card) == [x \in Docs |-> IF x \in RecoveriesOf(card) THEN doc[x].amount
                               ELSE IF x \in ManualEntries THEN EntryAmount(x, card) ELSE 0]
DueOn(card) == [c \in Live |-> IF OnCard(c, card) THEN Due[c] ELSE 0]

(* What a document settles.                                                *)
SettledSum(d) == SumFunction(d.principal) + SumFunction(d.commission)

(* What all cards together take from each document, and what none does.    *)
Allocated == [x \in Docs |->
    IF x \in Active("recovery") THEN doc[x].amount
    ELSE IF x \notin ManualEntries THEN 0
    ELSE IF EntryCard(x) = None THEN SettledSum(doc[x]) ELSE doc[x].amount]
Unallocated == [x \in Docs |->
    IF x \in ManualEntries /\ EntryCard(x) = None THEN doc[x].amount - SettledSum(doc[x]) ELSE 0]

\* There are finitely many cards, and each case is on one.
LEMMA CardsFinite ==
  /\ IsFiniteSet(Cards) /\ None \notin Cards
  /\ \A c \in Cases : CardOf[c] \in Cards
<1>1. None \notin Cards /\ \A c \in Cases : CardOf[c] \in Cards BY CardOfAssumption DEF Cards
<1>2. IsFiniteSet(Cards)
  <2> DEFINE f == [c \in Cases |-> CardOf[c]]
  <2>1. f \in Surjection(Cases, Cards) BY <1>1 DEF Surjection, Cards
  <2> HIDE DEF f
  <2> QED BY <2>1, DuesAssumption, FS_Surjection
<1> QED BY <1>1, <1>2

(* rows is, for every card, what of g is on it.                            *)
IsByCard(S, g, rows) ==
    /\ S \in SUBSET Cases /\ g \in [S -> Int] /\ rows \in [Cards -> Int]
    /\ \A k \in Cards : rows[k] = SumFunction([c \in S |-> IF CardOf[c] = k THEN g[c] ELSE 0])

\* The cards together are all cases.
LEMMA SumByCard ==
  ASSUME NEW S, NEW g, NEW rows, IsByCard(S, g, rows)
  PROVE  SumFunction(rows) = SumFunction(g)
<1> DEFINE f == [k \in Cards |-> [c \in S |-> IF CardOf[c] = k THEN g[c] ELSE 0]]
           turned == [c \in S |-> [k \in Cards |-> IF CardOf[c] = k THEN g[c] ELSE 0]]
<1>1. IsFiniteSet(S) /\ IsFiniteSet(Cards) /\ S \in SUBSET Cases
  BY CardsFinite, DuesAssumption, FS_Subset DEF IsByCard
<1>2. /\ f \in [Cards -> [S -> Int]] /\ turned \in [S -> [Cards -> Int]]
      /\ \A c \in S : \A k \in Cards : turned[c][k] = f[k][c]
  BY DEF IsByCard
<1>3. rows \in [Cards -> Int] /\ \A k \in Cards : rows[k] = SumFunction(f[k]) BY DEF IsByCard
<1>4. ASSUME NEW c \in S PROVE g[c] = SumFunction(turned[c])
  <2> DEFINE t == turned[c]
  <2>1. CardOf[c] \in Cards BY <1>1, CardsFinite
  <2>2. t \in [Cards -> Int] /\ t[CardOf[c]] = g[c] /\ \A k \in Cards \ {CardOf[c]} : t[k] = 0
    BY <2>1 DEF IsByCard
  <2> HIDE DEF t, turned
  <2>3. SumFunction(t) = t[CardOf[c]] BY <1>1, <2>1, <2>2, SumOfOne
  <2> QED BY <2>2, <2>3 DEF t
<1>5. g \in [S -> Int] BY DEF IsByCard
<1> HIDE DEF f, turned
<1>6. IsTable(Cards, S, f, turned, rows, g) BY <1>1, <1>2, <1>3, <1>4, <1>5 DEF IsTable
<1> QED BY <1>6, SumTable

\* The card of a manual entry, and what the ledger of a card shows of it.
LEMMA EntryIs ==
  ASSUME Known, NEW x \in ManualEntries
  PROVE  /\ x \in Docs /\ doc[x] \in Document /\ Standing(doc[x]) /\ doc[x].kind \in Manual
         /\ x \notin Active("recovery")
         /\ EntryCard(x) \in Cards \cup {None}
         /\ EntryAmount(x, None) = doc[x].amount
         /\ \A k \in Cards :
              /\ EntryCard(x) = k => EntryAmount(x, k) = doc[x].amount
              /\ EntryCard(x) \notin {k, None} => EntryAmount(x, k) = 0
              /\ EntryCard(x) = None => EntryAmount(x, k) =
                   SumFunction([c \in Cases |-> IF CardOf[c] = k
                                                THEN doc[x].principal[c] + doc[x].commission[c] ELSE 0])
              /\ EntryAmount(x, k) \in Nat
<1> DEFINE d == doc[x]
<1>1. x \in Docs /\ d \in Document /\ Standing(d) /\ d.kind \in Manual /\ x \notin Active("recovery")
  BY StandingDocs DEF ManualEntries, Manual, Known, TypeOK, Active, Standing
<1>2. /\ d.amount \in Nat /\ d.principal \in [Cases -> Nat] /\ d.commission \in [Cases -> Nat]
  BY <1>1, DocumentSums
<1>3. EntryCard(x) \in Cards \cup {None}
  <2>1. CASE d.kind = "combined" /\ Cardinality(Settled(d)) = 1
    <3>1. Settled(d) \in SUBSET Cases BY DEF Settled
    <3>2. Settled(d) # {} BY <2>1, FS_EmptySet
    <3>3. PICK c : c = (CHOOSE y \in Settled(d) : TRUE) OBVIOUS
    <3>4. c \in Settled(d) BY <3>2, <3>3
    <3>5. EntryCard(x) = CardOf[c] BY <2>1, <3>3 DEF EntryCard
    <3> QED BY <3>1, <3>4, <3>5, CardsFinite
  <2>2. CASE ~(d.kind = "combined" /\ Cardinality(Settled(d)) = 1) BY <2>2 DEF EntryCard
  <2> QED BY <2>1, <2>2
<1>4. EntryAmount(x, None) = d.amount BY DEF EntryAmount
<1>5. ASSUME NEW k \in Cards
      PROVE  /\ EntryCard(x) = k => EntryAmount(x, k) = d.amount
             /\ EntryCard(x) \notin {k, None} => EntryAmount(x, k) = 0
             /\ EntryCard(x) = None => EntryAmount(x, k) =
                  SumFunction([c \in Cases |-> IF CardOf[c] = k THEN d.principal[c] + d.commission[c] ELSE 0])
             /\ EntryAmount(x, k) \in Nat
  <2> DEFINE A == {c \in Settled(d) : CardOf[c] = k}
             f == [c \in A |-> d.principal[c] + d.commission[c]]
             h == [c \in Cases |-> IF CardOf[c] = k THEN d.principal[c] + d.commission[c] ELSE 0]
  <2>1. k # None BY CardsFinite
  <2>2. A \in SUBSET Cases /\ f \in [A -> Int] /\ h \in [Cases -> Int] /\ h \in [Cases -> Nat]
    BY <1>2 DEF Settled
  <2>3. ASSUME NEW c \in Cases PROVE h[c] = IF c \in A THEN f[c] ELSE 0
    <3>1. d.principal[c] \in Nat /\ d.commission[c] \in Nat BY <1>2
    <3>2. c \in A <=> CardOf[c] = k /\ d.principal[c] + d.commission[c] > 0 BY DEF Settled
    <3>3. c \in A => f[c] = d.principal[c] + d.commission[c] OBVIOUS
    <3>4. h[c] = IF CardOf[c] = k THEN d.principal[c] + d.commission[c] ELSE 0 OBVIOUS
    <3> HIDE DEF A, f, h, d
    <3> QED BY <3>1, <3>2, <3>3, <3>4
  <2>4. EntryCard(x) = k => EntryAmount(x, k) = d.amount BY DEF EntryAmount
  <2>5. EntryCard(x) \notin {k, None} => EntryAmount(x, k) = 0 BY <2>1 DEF EntryAmount
  <2>6. EntryCard(x) = None => EntryAmount(x, k) = SumFunction(f) BY <2>1 DEF EntryAmount, Total
  <2> HIDE DEF A, f, h, d
  <2>7. SumFunction(f) = SumFunction(h)
    <3>1. IsFiniteSet(Cases) BY DuesAssumption
    <3> QED BY ONLY <2>2, <2>3, <3>1, SumPart
  <2>8. SumFunction(h) \in Nat BY <2>2, DuesAssumption, SumNat
  <2>9. EntryAmount(x, k) \in Nat BY <1>2, <1>3, <2>4, <2>5, <2>6, <2>7, <2>8
  <2> QED BY <2>4, <2>5, <2>6, <2>7, <2>9 DEF h, d
<1> QED BY <1>1, <1>3, <1>4, <1>5

\* The balance of a card, and of all.
LEMMA BalanceIs ==
  ASSUME Known, NEW card \in Cards \cup {None}
  PROVE  /\ LedgerBalance(card) = SumFunction(Taken(card)) - SumFunction(DueOn(card))
         /\ Taken(card) \in [Docs -> Int] /\ DueOn(card) \in [Live -> Int]
         /\ SumFunction(Taken(card)) \in Int /\ SumFunction(DueOn(card)) \in Int
<1> DEFINE A == Clearings(card)
           E == {d \in ManualEntries : EntryAmount(d, card) > 0}
           D == RecoveriesOf(card) \cup E
           S == A \cup D
           moves == Movements(card)
           f == [m \in S |-> moves[m].credit - moves[m].debit]
           a == [c \in A |-> 0 - Due[c]]
           d == [x \in D |-> Taken(card)[x]]
           neg == [c \in Live |-> IF OnCard(c, card) THEN 0 - Due[c] ELSE 0]
           zero == [c \in Live |-> 0]
           t == Taken(card)
           u == DueOn(card)
<1>1. doc \in [Docs -> Document] /\ \A x \in Docs : doc[x] \in Document /\ doc[x].amount \in Int
  BY DocumentSums DEF Known, TypeOK
<1>2. /\ A \in SUBSET Live /\ Live \in SUBSET Cases /\ IsFiniteSet(Live)
      /\ RecoveriesOf(card) \in SUBSET Docs /\ RecoveriesOf(card) \in SUBSET Active("recovery")
      /\ ManualEntries \in SUBSET Docs /\ E \in SUBSET ManualEntries
  BY StandingDocs, DuesAssumption, FS_Subset DEF Clearings, Live, RecoveriesOf, ManualEntries
<1>3. \A x \in ManualEntries : EntryAmount(x, card) \in Int /\ EntryAmount(x, card) >= 0
  <2>1. ASSUME NEW x \in ManualEntries PROVE EntryAmount(x, card) \in Nat
    <3>1. doc[x].amount \in Nat BY EntryIs, DocumentSums
    <3> QED BY <3>1, EntryIs
  <2> QED BY <2>1
<1>4. D \in SUBSET Docs /\ A \cap D = {} /\ IsFiniteSet(S) /\ \A x \in D : x \notin Cases
  <2>1. D \in SUBSET Docs BY <1>2
  <2>2. IsFiniteSet(D) /\ IsFiniteSet(A) BY <1>2, <2>1, DocsFinite, FS_Subset
  <2> HIDE DEF A, D
  <2> QED BY <1>2, <2>1, <2>2, CardOfAssumption, FS_Union
<1>5. t \in [Docs -> Int] BY <1>1, <1>3 DEF Taken
<1>6. u \in [Live -> Int] /\ a \in [A -> Int] /\ neg \in [Live -> Int] /\ zero \in [Live -> Int]
  BY <1>2, DuesAssumption DEF DueOn
<1>7. DOMAIN moves = S BY DEF Movements
<1>8. LedgerBalance(card) = SumFunction(f) BY <1>7 DEF LedgerBalance, Total
<1>9. ASSUME NEW c \in A PROVE f[c] = a[c]
  <2>1. moves[c] = Movement(Due[c], 0) BY <1>2 DEF Movements
  <2> QED BY <2>1 DEF Movement
<1>10. ASSUME NEW x \in D PROVE f[x] = d[x] /\ d[x] = t[x]
  <2>1. x \in Docs /\ x \notin Cases BY <1>4
  <2>2. CASE x \in RecoveriesOf(card)
    <3>1. x \notin ManualEntries BY <1>2, <2>2, EntryIs
    <3>2. moves[x] = Movement(0, doc[x].amount) BY <1>7, <2>1, <2>2, <3>1 DEF Movements
    <3>3. moves[x].credit - moves[x].debit = doc[x].amount BY <1>1, <2>1, <3>2 DEF Movement
    <3>4. t[x] = doc[x].amount BY <2>1, <2>2 DEF Taken
    <3> QED BY <3>3, <3>4
  <2>3. CASE x \in E /\ x \notin RecoveriesOf(card)
    <3>1. x \in ManualEntries BY <2>3
    <3>2. moves[x] = Movement(0, EntryAmount(x, card)) BY <1>7, <2>1, <2>3, <3>1 DEF Movements
    <3>3. moves[x].credit - moves[x].debit = EntryAmount(x, card) BY <1>3, <3>1, <3>2 DEF Movement
    <3>4. t[x] = EntryAmount(x, card) BY <2>1, <2>3, <3>1 DEF Taken
    <3> QED BY <3>3, <3>4
  <2> QED BY <2>2, <2>3
<1>11. \A x \in Docs : t[x] = IF x \in D THEN d[x] ELSE 0
  <2>1. ASSUME NEW x \in Docs, x \notin D PROVE t[x] = 0
    <3>1. CASE x \in ManualEntries
      <4>1. EntryAmount(x, card) = 0 BY <1>3, <2>1, <3>1
      <4> QED BY <2>1, <3>1, <4>1 DEF Taken
    <3>2. CASE x \notin ManualEntries BY <2>1, <3>2 DEF Taken
    <3> QED BY <3>1, <3>2
  <2>2. ASSUME NEW x \in Docs, x \in D PROVE t[x] = d[x] BY <2>2
  <2> QED BY <2>1, <2>2
<1>12. \A c \in Live : neg[c] = IF c \in A THEN a[c] ELSE 0 BY DEF Clearings
<1>13. \A c \in Live : zero[c] = neg[c] + u[c] /\ zero[c] = 0 BY <1>2, DuesAssumption DEF DueOn
<1>14. d \in [D -> Int] /\ f \in [S -> Int]
  <2>1. d \in [D -> Int] BY <1>4, <1>5
  <2> HIDE DEF d, a
  <2>2. \A m \in S : f[m] \in Int
    <3>1. \A m \in A : f[m] \in Int BY <1>6, <1>9
    <3>2. \A m \in D : f[m] \in Int BY <1>10, <2>1
    <3> QED BY <3>1, <3>2
  <2>3. f = [m \in S |-> f[m]] OBVIOUS
  <2> HIDE DEF f
  <2> QED BY <2>1, <2>2, <2>3
<1> HIDE DEF A, E, D, moves, f, a, d, neg, zero, t, u
<1>15. InParts(S, A, D, f, a, d) BY <1>4, <1>6, <1>9, <1>10, <1>14 DEF InParts
<1>16. SumFunction(f) = SumFunction(a) + SumFunction(d) BY <1>15, SumUnion
<1>17. SumFunction(d) = SumFunction(t) /\ SumFunction(t) \in Int
  <2>1. D \in SUBSET Docs /\ d \in [D -> Int] BY <1>4, <1>14
  <2> QED BY ONLY <1>5, <1>11, <2>1, DocsFinite, SumPart
<1>18. SumFunction(a) = SumFunction(neg) /\ SumFunction(neg) \in Int
  <2>1. IsFiniteSet(Live) /\ A \in SUBSET Live /\ a \in [A -> Int] /\ neg \in [Live -> Int] BY <1>2, <1>6
  <2> QED BY ONLY <1>12, <2>1, SumPart
<1>19. SumFunction(zero) = SumFunction(neg) + SumFunction(u)
  <2>1. /\ IsFiniteSet(Live) /\ zero \in [Live -> Int] /\ neg \in [Live -> Int] /\ u \in [Live -> Int]
        /\ \A c \in Live : zero[c] = neg[c] + u[c]
    BY <1>2, <1>6, <1>13
  <2> QED BY ONLY <2>1, SumAdd
<1>20. SumFunction(zero) = 0 BY <1>2, <1>6, <1>13, SumZero
<1>21. SumFunction(u) \in Int BY <1>2, <1>6, SumType
<1>22. SumFunction(f) = SumFunction(t) - SumFunction(u) BY <1>16, <1>17, <1>18, <1>19, <1>20, <1>21
<1> QED BY <1>5, <1>6, <1>8, <1>17, <1>21, <1>22 DEF t, u

\* What the cards take from a document, and what they show as paid.
LEMMA CardsTake ==
  ASSUME Known
  PROVE  /\ Allocated \in [Docs -> Int] /\ Unallocated \in [Docs -> Int]
         /\ \A x \in Docs : TakenOf[doc[x]] = Allocated[x] + Unallocated[x]
         /\ \A x \in Docs : TakenOf[doc[x]] = Taken(None)[x]
         /\ \A x \in Docs : Allocated[x] = SumFunction([k \in Cards |-> Taken(k)[x]])
<1>1. doc \in [Docs -> Document] /\ \A x \in Docs : doc[x] \in Document BY DEF Known, TypeOK
<1>2. ASSUME NEW x \in Docs
      PROVE  doc[x].amount \in Int /\ SettledSum(doc[x]) \in Int /\ doc[x].amount - SettledSum(doc[x]) \in Int
  BY <1>1, DocumentSums DEF SettledSum
<1>3. Allocated \in [Docs -> Int] /\ Unallocated \in [Docs -> Int] BY <1>2 DEF Allocated, Unallocated
<1>4. ASSUME NEW x \in Docs
      PROVE  /\ TakenOf[doc[x]] = IF x \in Active("recovery") \cup ManualEntries THEN doc[x].amount ELSE 0
             /\ ~(x \in Active("recovery") /\ x \in ManualEntries)
  <2>1. TakenOf[doc[x]] = IF Standing(doc[x]) /\ doc[x].kind \in Manual \cup {"recovery"}
                          THEN doc[x].amount ELSE 0
    BY <1>1 DEF TakenOf
  <2>2. x \in Active("recovery") \cup ManualEntries
          <=> Standing(doc[x]) /\ doc[x].kind \in Manual \cup {"recovery"}
    BY StandingDocs DEF ManualEntries, Manual
  <2> QED BY <2>1, <2>2, EntryIs
<1>5. ASSUME NEW x \in Docs PROVE TakenOf[doc[x]] = Allocated[x] + Unallocated[x]
  <2>1. /\ doc[x].amount \in Int /\ SettledSum(doc[x]) \in Int BY <1>2
  <2> QED BY <1>4, <2>1 DEF Allocated, Unallocated
<1>6. ASSUME NEW x \in Docs PROVE TakenOf[doc[x]] = Taken(None)[x]
  <2>1. RecoveriesOf(None) = Active("recovery") BY StandingDocs
  <2>2. x \in ManualEntries => EntryAmount(x, None) = doc[x].amount BY EntryIs
  <2> QED BY <1>4, <2>1, <2>2 DEF Taken
<1>7. ASSUME NEW x \in Docs PROVE Allocated[x] = SumFunction([k \in Cards |-> Taken(k)[x]])
  <2> DEFINE t == [k \in Cards |-> Taken(k)[x]]
  <2>1. t \in [Cards -> Int] /\ \A k \in Cards : t[k] = Taken(k)[x] /\ Taken(k)[x] \in Int BY BalanceIs
  <2>2. ASSUME NEW k \in Cards
        PROVE  /\ x \in RecoveriesOf(k) <=> x \in Active("recovery") /\ CardOf[doc[x].case] = k
               /\ t[k] = IF x \in RecoveriesOf(k) THEN doc[x].amount
                         ELSE IF x \in ManualEntries THEN EntryAmount(x, k) ELSE 0
    <3>1. k # None BY CardsFinite
    <3>2. x \in Active("recovery") => doc[x].case \in Live BY StandingDocs
    <3>3. x \in RecoveriesOf(k) <=> x \in Active("recovery") /\ CardOf[doc[x].case] = k
      BY <3>1, <3>2 DEF RecoveriesOf, Clearings, OnCard
    <3>4. t[k] = IF x \in RecoveriesOf(k) THEN doc[x].amount
                 ELSE IF x \in ManualEntries THEN EntryAmount(x, k) ELSE 0
      BY DEF Taken
    <3> QED BY <3>3, <3>4
  <2> HIDE DEF t
  <2>3. IsFiniteSet(Cards) BY CardsFinite
  <2>4. CASE x \in Active("recovery")
    <3> DEFINE e == CardOf[doc[x].case]
    <3>1. doc[x].case \in Cases BY <2>4, StandingDocs DEF Live
    <3>2. e \in Cards /\ x \notin ManualEntries BY <1>4, <2>4, <3>1, CardsFinite
    <3>3. t[e] = doc[x].amount /\ \A k \in Cards \ {e} : t[k] = 0 BY <2>2, <2>4, <3>2
    <3> HIDE DEF e
    <3>4. SumFunction(t) = t[e] BY <2>1, <2>3, <3>2, <3>3, SumOfOne
    <3>5. Allocated[x] = doc[x].amount BY <2>4 DEF Allocated
    <3> QED BY <3>3, <3>4, <3>5 DEF t
  <2>5. CASE x \in ManualEntries /\ EntryCard(x) # None
    <3> DEFINE e == EntryCard(x)
    <3>1. e \in Cards /\ x \notin Active("recovery") BY <2>5, EntryIs
    <3>2. ASSUME NEW k \in Cards PROVE t[k] = IF k = e THEN doc[x].amount ELSE 0
      <4>1. t[k] = EntryAmount(x, k) BY <2>2, <2>5, <3>1
      <4> QED BY <2>5, <4>1, EntryIs
    <3>3. t[e] = doc[x].amount /\ \A k \in Cards \ {e} : t[k] = 0 BY <3>1, <3>2
    <3> HIDE DEF e
    <3>4. SumFunction(t) = t[e] BY <2>1, <2>3, <3>1, <3>3, SumOfOne
    <3>5. Allocated[x] = doc[x].amount BY <2>5, <3>1 DEF Allocated
    <3> QED BY <3>3, <3>4, <3>5 DEF t
  <2>6. CASE x \in ManualEntries /\ EntryCard(x) = None
    <3> DEFINE d == doc[x]
               g == [c \in Cases |-> d.principal[c] + d.commission[c]]
    <3>1. x \notin Active("recovery") /\ d.principal \in [Cases -> Nat] /\ d.commission \in [Cases -> Nat]
      BY <1>1, <2>6, EntryIs, DocumentSums
    <3>2. /\ d.principal \in [Cases -> Int] /\ d.commission \in [Cases -> Int] /\ g \in [Cases -> Int]
          /\ \A c \in Cases : g[c] = d.principal[c] + d.commission[c]
      BY <3>1
    <3>3. ASSUME NEW k \in Cards PROVE t[k] = SumFunction([c \in Cases |-> IF CardOf[c] = k THEN g[c] ELSE 0])
      <4>1. t[k] = EntryAmount(x, k) BY <2>2, <2>6, <3>1
      <4>2. [c \in Cases |-> IF CardOf[c] = k THEN g[c] ELSE 0]
              = [c \in Cases |-> IF CardOf[c] = k THEN doc[x].principal[c] + doc[x].commission[c] ELSE 0]
        OBVIOUS
      <4>3. EntryAmount(x, k) = SumFunction([c \in Cases |->
                IF CardOf[c] = k THEN doc[x].principal[c] + doc[x].commission[c] ELSE 0])
        BY <2>6, EntryIs
      <4> QED BY <4>1, <4>2, <4>3
    <3> HIDE DEF g, d
    <3>4. IsByCard(Cases, g, t) BY <2>1, <3>2, <3>3 DEF IsByCard
    <3>5. SumFunction(t) = SumFunction(g) BY <3>4, SumByCard
    <3>6. SumFunction(g) = SumFunction(d.principal) + SumFunction(d.commission)
      <4>1. IsFiniteSet(Cases) BY DuesAssumption
      <4> QED BY ONLY <3>2, <4>1, SumAdd
    <3>7. Allocated[x] = SettledSum(d) BY <2>6, <3>1 DEF Allocated, d
    <3> QED BY <3>5, <3>6, <3>7 DEF SettledSum, t
  <2>7. CASE x \notin Active("recovery") /\ x \notin ManualEntries
    <3>1. \A k \in Cards : t[k] = 0 BY <2>2, <2>7
    <3>2. SumFunction(t) = 0 BY <2>1, <2>3, <3>1, SumZero
    <3>3. Allocated[x] = 0 BY <2>7 DEF Allocated
    <3> QED BY <3>2, <3>3 DEF t
  <2> QED BY <2>4, <2>5, <2>6, <2>7
<1> QED BY <1>3, <1>5, <1>6, <1>7

\* The balance of the customer.
LEMMA WholeBalance ==
  ASSUME Known
  PROVE  /\ LedgerBalance(None) = Tally(TakenOf, doc) - LiveDue
         /\ LedgerBalance(None) = Claim
         /\ Tally(TakenOf, doc) \in Int
<1>1. doc \in [Docs -> Document] /\ Live \in SUBSET Cases BY DEF Known, TypeOK, Live
<1>2. SumFunction(Taken(None)) = Tally(TakenOf, doc)
  <2>1. Taken(None) \in [Docs -> Int] BY BalanceIs
  <2>2. [x \in Docs |-> TakenOf[doc[x]]] = [x \in Docs |-> Taken(None)[x]] BY CardsTake
  <2>3. [x \in Docs |-> Taken(None)[x]] = Taken(None) BY <2>1
  <2> QED BY <2>2, <2>3 DEF Tally
<1>3. SumFunction(DueOn(None)) = LiveDue
  <2>1. DueOn(None) = [c \in Live |-> Due[c]] BY DEF DueOn, OnCard
  <2> QED BY <2>1 DEF LiveDue
<1>4. LedgerBalance(None) = Tally(TakenOf, doc) - LiveDue BY <1>2, <1>3, BalanceIs
<1>5. Tally(TakenOf, doc) \in Int BY <1>1, MeasuresOf, TallyInt
<1>6. Claim = Tally(TakenOf, doc) - LiveDue
  <2> DEFINE f == [d \in Docs |->
                     IF d \in Active("combined") \cup Active("payin")
                        \/ (d \in Active("recovery") /\ doc[d].case \in Live)
                     THEN doc[d].amount ELSE 0]
             g == [c \in Cases |-> IF c \in Live THEN Due[c] ELSE 0]
             due == [c \in Live |-> Due[c]]
  <2>1. Claim = SumFunction(f) - SumFunction(g) BY DEF Claim
  <2>2. f = [x \in Docs |-> TakenOf[doc[x]]]
    <3>1. ASSUME NEW x \in Docs
          PROVE  (IF x \in Active("combined") \cup Active("payin")
                     \/ (x \in Active("recovery") /\ doc[x].case \in Live)
                  THEN doc[x].amount ELSE 0) = TakenOf[doc[x]]
      <4>1. doc[x] \in Document BY <1>1
      <4> QED BY <4>1, StandingDocs DEF TakenOf, Manual
    <3> QED BY <3>1
  <2>3. SumFunction(f) = Tally(TakenOf, doc) BY <2>2 DEF Tally
  <2>4. SumFunction(due) = SumFunction(g)
    <3>1. /\ IsFiniteSet(Cases) /\ due \in [Live -> Int] /\ g \in [Cases -> Int]
          /\ \A c \in Cases : g[c] = IF c \in Live THEN due[c] ELSE 0
      BY <1>1, DuesAssumption
    <3> HIDE DEF due, g
    <3> QED BY ONLY <1>1, <3>1, SumPart
  <2> QED BY <2>1, <2>3, <2>4 DEF LiveDue
<1> QED BY <1>4, <1>5, <1>6

\* What the balance consists of.
LEMMA BalanceConsists ==
  ASSUME Known, LedgerSays
  PROVE  LedgerBalance(None) =
           Total(ExcessItems \cup Active("payin"), LAMBDA d : doc[d].credit)
           + Total(ManualEntries, LAMBDA d : doc[d].generic + SumFunction(doc[d].commission))
           - Total(OpenPayInItems, LAMBDA c : case[c].left)
<1> DEFINE C == ExcessItems \cup Active("payin")
           credit == [d \in C |-> doc[d].credit]
           other == [d \in ManualEntries |-> doc[d].generic + SumFunction(doc[d].commission)]
           open == [c \in OpenPayInItems |-> case[c].left]
           left == [c \in Live |-> case[c].left]
           G == Plus(GenericOf, ReceiptCommissionOf)
<1>1. doc \in [Docs -> Document] /\ \A x \in Docs : doc[x] \in Document /\ DocumentOK(doc[x])
  BY DEF Known, TypeOK, DocumentFits
<1>2. /\ Total(C, LAMBDA d : doc[d].credit) = SumFunction(credit)
      /\ Total(ManualEntries, LAMBDA d : doc[d].generic + SumFunction(doc[d].commission)) = SumFunction(other)
      /\ Total(OpenPayInItems, LAMBDA c : case[c].left) = SumFunction(open)
  BY DEF Total
<1>3. /\ G \in [Document -> Int] /\ Tally(G, doc) = Tally(GenericOf, doc) + Tally(ReceiptCommissionOf, doc)
      /\ Tally(GenericOf, doc) \in Int /\ Tally(ReceiptCommissionOf, doc) \in Int
  <2>1. GenericOf \in [Document -> Int] /\ ReceiptCommissionOf \in [Document -> Int] BY MeasuresOf
  <2> QED BY <1>1, <2>1, TallyPlus
<1>4. SumFunction(credit) = Tally(CreditOf, doc)
  <2>1. C \in SUBSET Docs BY StandingDocs DEF ExcessItems
  <2>2. ASSUME NEW x \in C PROVE credit[x] = CreditOf[doc[x]]
    <3>1. x \in Docs /\ Standing(doc[x]) BY <2>1, StandingDocs DEF ExcessItems
    <3> QED BY <1>1, <3>1 DEF CreditOf
  <2>3. ASSUME NEW x \in Docs \ C PROVE CreditOf[doc[x]] = 0
    <3>1. CASE ~Standing(doc[x]) BY <1>1, <3>1 DEF CreditOf
    <3>2. CASE Standing(doc[x])
      <4>1. doc[x] \in Document /\ DocumentOK(doc[x]) /\ doc[x].credit \in Nat BY <1>1, DocumentSums
      <4>2. doc[x].kind # "payin" BY <2>3, <3>2, StandingDocs
      <4>3. doc[x].kind = "recovery" => doc[x].credit = 0
        BY <2>3, <3>2, <4>1, StandingDocs DEF ExcessItems
      <4>4. doc[x].credit = 0 BY <4>1, <4>2, <4>3 DEF DocumentOK, AddsUp
      <4> QED BY <3>2, <4>1, <4>4 DEF CreditOf
    <3> QED BY <3>1, <3>2
  <2>4. credit = [x \in C |-> credit[x]] /\ CreditOf \in [Document -> Int] BY MeasuresOf
  <2>5. doc \in [Docs -> Document] BY <1>1
  <2> HIDE DEF credit, C
  <2> QED BY ONLY <2>1, <2>2, <2>3, <2>4, <2>5, TallyPart
<1>5. SumFunction(other) = Tally(G, doc)
  <2>1. ManualEntries \in SUBSET Docs BY StandingDocs DEF ManualEntries
  <2>2. ASSUME NEW x \in ManualEntries PROVE other[x] = G[doc[x]]
    <3>1. x \in Docs /\ doc[x] \in Document /\ Standing(doc[x]) /\ doc[x].kind \in Manual BY EntryIs
    <3>2. /\ GenericOf[doc[x]] = doc[x].generic
          /\ ReceiptCommissionOf[doc[x]] = SumFunction(doc[x].commission)
      BY <3>1 DEF GenericOf, ReceiptCommissionOf
    <3> QED BY <3>1, <3>2 DEF Plus
  <2>3. ASSUME NEW x \in Docs \ ManualEntries PROVE G[doc[x]] = 0
    <3>1. doc[x] \in Document /\ DocumentOK(doc[x]) BY <1>1
    <3>2. Standing(doc[x]) => doc[x].kind \notin Manual
      BY <2>3, StandingDocs DEF ManualEntries, Manual
    <3>3. Standing(doc[x]) => doc[x].generic = 0 BY <3>1, <3>2 DEF DocumentOK, AddsUp, Manual
    <3>4. GenericOf[doc[x]] = 0 /\ ReceiptCommissionOf[doc[x]] = 0
      BY <3>1, <3>2, <3>3 DEF GenericOf, ReceiptCommissionOf
    <3> QED BY <3>1, <3>4 DEF Plus
  <2>4. other = [x \in ManualEntries |-> other[x]] OBVIOUS
  <2>5. doc \in [Docs -> Document] BY <1>1
  <2> HIDE DEF other, G
  <2> QED BY ONLY <1>3, <2>1, <2>2, <2>3, <2>4, <2>5, TallyPart
<1>6. SumFunction(open) = LiveLeft
  <2>1. \A c \in Live : case[c].left \in Int /\ case[c].left >= 0 BY CaseItems
  <2>2. IsFiniteSet(Live) /\ OpenPayInItems \in SUBSET Live
    BY DuesAssumption, FS_Subset DEF Live, OpenPayInItems
  <2>3. /\ open \in [OpenPayInItems -> Int] /\ left \in [Live -> Int]
        /\ \A c \in Live : left[c] = IF c \in OpenPayInItems THEN open[c] ELSE 0
    BY <2>1, <2>2 DEF OpenPayInItems
  <2>4. LiveLeft = SumFunction(left) BY DEF LiveLeft
  <2> HIDE DEF open, left
  <2>5. SumFunction(open) = SumFunction(left) BY ONLY <2>2, <2>3, SumPart
  <2> QED BY <2>4, <2>5
<1>7. Tally(CreditOf, doc) \in Int /\ Tally(PrincipalOf, doc) \in Int
  BY <1>1, MeasuresOf, TallyInt
<1>8. Tally(TakenOf, doc) = Tally(PrincipalOf, doc) + Tally(ReceiptCommissionOf, doc)
                            + Tally(GenericOf, doc) + Tally(CreditOf, doc)
  BY AccountsAre
<1> HIDE DEF credit, other, open, left, G, C
<1>9. LedgerBalance(None) = SumFunction(credit) + SumFunction(other) - SumFunction(open)
  BY <1>3, <1>4, <1>5, <1>6, <1>7, <1>8, WholeBalance, RowsSum
<1> QED BY <1>2, <1>9 DEF C

\* The cards add up to the balance, but for what no card takes.
LEMMA CardsAddUp ==
  ASSUME Known
  PROVE  Total(Cards, LedgerBalance) = LedgerBalance(None) - SumFunction(Unallocated)
<1> DEFINE balance == [k \in Cards |-> LedgerBalance(k)]
           taken == [k \in Cards |-> SumFunction(Taken(k))]
           due == [k \in Cards |-> SumFunction(DueOn(k))]
           f == [k \in Cards |-> Taken(k)]
           turned == [x \in Docs |-> [k \in Cards |-> Taken(k)[x]]]
           g == [c \in Live |-> Due[c]]
           all == [x \in Docs |-> TakenOf[doc[x]]]
<1>1. \A k \in Cards : /\ LedgerBalance(k) = SumFunction(Taken(k)) - SumFunction(DueOn(k))
                       /\ Taken(k) \in [Docs -> Int]
                       /\ SumFunction(Taken(k)) \in Int /\ SumFunction(DueOn(k)) \in Int
  BY BalanceIs
<1>2. /\ balance \in [Cards -> Int] /\ taken \in [Cards -> Int] /\ due \in [Cards -> Int]
      /\ \A k \in Cards : taken[k] = balance[k] + due[k]
  BY <1>1
<1>3. SumFunction(taken) = SumFunction(Allocated)
  <2>1. /\ f \in [Cards -> [Docs -> Int]] /\ turned \in [Docs -> [Cards -> Int]]
        /\ \A x \in Docs : \A k \in Cards : turned[x][k] = f[k][x]
        /\ \A k \in Cards : taken[k] = SumFunction(f[k])
    BY <1>1
  <2>2. ASSUME NEW x \in Docs PROVE Allocated[x] = SumFunction(turned[x])
    <3>1. turned[x] = [k \in Cards |-> Taken(k)[x]] OBVIOUS
    <3> QED BY <3>1, CardsTake
  <2>3. Allocated \in [Docs -> Int] BY CardsTake
  <2> HIDE DEF f, turned, taken
  <2>4. IsTable(Cards, Docs, f, turned, taken, Allocated)
    BY <1>2, <2>1, <2>2, <2>3, CardsFinite, DocsFinite DEF IsTable
  <2> QED BY <2>4, SumTable
<1>4. SumFunction(due) = LiveDue
  <2>1. Live \in SUBSET Cases /\ g \in [Live -> Int] BY DuesAssumption DEF Live
  <2>2. ASSUME NEW k \in Cards PROVE due[k] = SumFunction([c \in Live |-> IF CardOf[c] = k THEN g[c] ELSE 0])
    <3>1. k # None BY CardsFinite
    <3>2. DueOn(k) = [c \in Live |-> IF CardOf[c] = k THEN g[c] ELSE 0] BY <3>1 DEF DueOn, OnCard
    <3> QED BY <3>2
  <2>3. LiveDue = SumFunction(g) BY DEF LiveDue
  <2> HIDE DEF due, g
  <2>4. IsByCard(Live, g, due) BY <1>2, <2>1, <2>2 DEF IsByCard
  <2> QED BY <2>3, <2>4, SumByCard
<1>5. SumFunction(all) = SumFunction(Allocated) + SumFunction(Unallocated)
  <2>1. /\ all \in [Docs -> Int] /\ Allocated \in [Docs -> Int] /\ Unallocated \in [Docs -> Int]
        /\ \A x \in Docs : all[x] = Allocated[x] + Unallocated[x]
    <3>1. /\ Allocated \in [Docs -> Int] /\ Unallocated \in [Docs -> Int]
          /\ \A x \in Docs : all[x] = Allocated[x] + Unallocated[x]
      BY CardsTake
    <3>2. all \in [Docs -> Int]
      <4>1. doc \in [Docs -> Document] /\ TakenOf \in [Document -> Int] BY MeasuresOf DEF Known, TypeOK
      <4> QED BY <4>1
    <3> QED BY <3>1, <3>2
  <2> HIDE DEF all
  <2> QED BY ONLY <2>1, DocsFinite, SumAdd
<1>6. SumFunction(all) = Tally(TakenOf, doc) BY DEF Tally
<1>7. Total(Cards, LedgerBalance) = SumFunction(balance) BY DEF Total
<1>8. SumFunction(Allocated) \in Int /\ SumFunction(Unallocated) \in Int BY CardsTake, DocsFinite, SumType
<1> HIDE DEF balance, taken, due, all
<1>9. SumFunction(taken) = SumFunction(balance) + SumFunction(due)
  <2>1. IsFiniteSet(Cards) BY CardsFinite
  <2> QED BY ONLY <1>2, <2>1, SumAdd
<1>10. SumFunction(balance) \in Int
  <2>1. IsFiniteSet(Cards) BY CardsFinite
  <2> QED BY ONLY <1>2, <2>1, SumType
<1> QED BY <1>3, <1>4, <1>5, <1>6, <1>7, <1>8, <1>9, <1>10, WholeBalance, RowsSum

\* The card ledger agrees with the claim and with the rows.
LEMMA CardLedgerHolds ==
  ASSUME Known, LedgerSays
  PROVE  CardLedgerAgrees
<1> DEFINE S == {d \in ManualEntries : EntryCard(d) = None}
           rest == [d \in S |-> doc[d].amount - SumFunction(doc[d].principal) - SumFunction(doc[d].commission)]
<1>1. Total(S, LAMBDA d : doc[d].amount - SumFunction(doc[d].principal) - SumFunction(doc[d].commission))
        = SumFunction(rest)
  BY DEF Total
<1>2. SumFunction(rest) = SumFunction(Unallocated)
  <2>1. S \in SUBSET Docs BY StandingDocs DEF ManualEntries
  <2>2. ASSUME NEW x \in S
        PROVE  rest[x] = doc[x].amount - SettledSum(doc[x]) /\ rest[x] \in Int
    <3>1. x \in Docs /\ doc[x] \in Document BY <2>1 DEF Known, TypeOK
    <3>2. /\ doc[x].amount \in Int /\ SumFunction(doc[x].principal) \in Int
          /\ SumFunction(doc[x].commission) \in Int
      BY <3>1, DocumentSums
    <3> QED BY <3>2 DEF SettledSum
  <2>3. rest \in [S -> Int]
    <3>1. \A x \in S : rest[x] \in Int BY <2>2
    <3>2. rest = [x \in S |-> rest[x]] OBVIOUS
    <3> HIDE DEF rest
    <3> QED BY <3>1, <3>2
  <2>4. Unallocated \in [Docs -> Int] BY CardsTake
  <2>5. \A x \in Docs : Unallocated[x] = IF x \in S THEN rest[x] ELSE 0 BY <2>2 DEF Unallocated
  <2> HIDE DEF S, rest
  <2> QED BY ONLY <2>1, <2>3, <2>4, <2>5, DocsFinite, SumPart
<1> HIDE DEF rest
<1> QED BY <1>1, <1>2, WholeBalance, BalanceConsists, CardsAddUp DEF CardLedgerAgrees

(* The lists, the register and the card ledger agree with each other and   *)
(* with the ledger, whatever was received, assessed and reversed since     *)
(* (unifiedList(), obligationInsights(), the card due register,            *)
(* getCardLedger()).                                                       *)
THEOREM ReportsAgreeInvariant ==
  ASSUME RowsReversedAlone, ReceiptsFindAll
  PROVE  Spec => []ReportsAgree
<1>1. Known /\ LedgerSays /\ StatusesStand => ReportsAgree
  BY ListsHold, RegisterHolds, CardLedgerHolds DEF ReportsAgree
<1>2. Spec => []Known BY KnownInvariant
<1>3. Spec => [](LedgerSays /\ StatusesStand) BY LedgerInvariant
<1> QED BY <1>1, <1>2, <1>3, PTL

=============================================================================
