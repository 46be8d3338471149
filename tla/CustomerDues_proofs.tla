------------------------ MODULE CustomerDues_proofs ------------------------
(***************************************************************************)
(* Theorems about CustomerDues: cases and receivables agree with the       *)
(* documents recorded against them, they are amounts owed, nobody is       *)
(* credited while he owes and nobody waits in a circle, for any number of  *)
(* cases, receivables and concurrent requests.                             *)
(*                                                                         *)
(* One invariant carries all of it.  What a request has read under a lock  *)
(* still stands when it commits; so every commit moves the rows by exactly *)
(* what its documents say; so the rows add up, and what a request computes *)
(* from them is never negative.                                            *)
(***************************************************************************)
EXTENDS CustomerDues, SumLemmas, SequenceTheorems, TLAPS

---------------------------------------------------------------------------
(* Calls that are kept apart.                                              *)

(* The reversal of a case, and that of a receivable, which decide on what  *)
(* they read without the lock of the row, run beside nothing else.         *)
RowsReversedAlone == \A w \in Workloads : w.beside \cap {"reverseCase", "reverseDebt"} = {}

(* No case is recorded while a combined receipt, which lists the cases     *)
(* before and after it locks them, is under way.                           *)
ReceiptsFindAll == \A w \in Workloads : ~({"create", "combined"} \subseteq w.beside)

(* Two calls are under way only if both are of kinds that may overlap.     *)
BesideOnly ==
    \A r, s \in Requests : Running(r) /\ Running(s) /\ r # s => op[r].kind \in workload.beside

---------------------------------------------------------------------------
(* Documents and what they add up to.                                      *)

Standing(d) == d.kind # "none" /\ d.status = "COMPLETED"

Principal(c) == [d \in Document |-> IF Standing(d) THEN d.principal[c] ELSE 0]
CommissionPaid(c) == [d \in Document |-> IF Standing(d) THEN d.commission[c] ELSE 0]
FeeAdded(c) == [d \in Document |-> IF ~Standing(d) \/ d.case # c THEN 0
                                   ELSE IF d.kind = "assessment" THEN d.amount ELSE d.extra]
Collected(b) == [d \in Document |-> IF Standing(d) /\ d.debt = b THEN d.amount ELSE 0]

(* The sum of F over the documents docs.                                   *)
Tally(F, docs) == SumFunction([x \in Docs |-> F[docs[x]]])

Only(c, f) == \A x \in Cases : x # c => f[x] = 0

(* What its amount consists of, and what it may carry.                     *)
AddsUp(d) ==
    /\ d.kind # "recovery" => d.charge = 0
    /\ d.kind # "payin" => d.generic = 0
    /\ d.kind \notin {"recovery", "payin"} => d.credit = 0
    /\ d.kind = "payin" => d.amount = SumFunction(d.principal) + d.generic + d.credit
    /\ d.kind = "combined" => d.amount = SumFunction(d.principal) + SumFunction(d.commission)

DocumentOK(d) ==
    /\ AddsUp(d)
    /\ d.charge <= d.amount
    /\ d.kind \in {"none", "collection", "combined", "payin"} => d.case = None
    /\ d.kind # "collection" => d.debt = None
    /\ d.kind \in {"none", "collection", "assessment", "commission"} => d.principal = Nothing
    /\ d.kind \notin {"combined", "commission"} => d.commission = Nothing
    /\ d.kind # "commission" => d.extra = 0
    /\ d.kind = "recovery" => /\ d.case \in Cases /\ Only(d.case, d.principal)
                              /\ d.principal[d.case] = d.amount - d.credit
    /\ d.kind = "commission" => /\ d.case \in Cases /\ Only(d.case, d.commission)
                                /\ d.commission[d.case] = d.amount /\ d.extra <= d.amount
    /\ d.kind = "assessment" => d.case \in Cases /\ d.charge = 0
    /\ d.kind = "collection" => d.debt \in Debts /\ d.amount > 0

(* A document refers to what is there, and one that stands to what is      *)
(* live.                                                                   *)
DocumentFits(x) ==
    /\ DocumentOK(doc[x])
    /\ doc[x].kind = "none" => doc[x] = NoDocument
    /\ \A c \in Cases : Touches(x, c) => case[c].status # "ABSENT" /\ (Counts(x) => c \in Live)
    /\ doc[x].debt \in Debts => debt[doc[x].debt].source # "ABSENT"

---------------------------------------------------------------------------
(* Rows.                                                                   *)

CaseOK(c) ==
    LET row == case[c]
    IN  /\ c \in Live =>
            /\ row.recovered \in 0..Due[c] /\ row.left = Due[c] - row.recovered
            /\ row.collected >= 0 /\ row.unpaid >= 0 /\ row.unpaid = row.fee - row.collected
            /\ row.status = MasterStatus(row.recovered, row.left)
        /\ row.status = "REVERSED" => row.recovered = 0 /\ row.collected = 0
        /\ row.status = "ABSENT" => row = NoCase

CaseBacked(c) ==
    c \in Live => /\ case[c].recovered = Tally(Principal(c), doc)
                  /\ case[c].collected = Tally(CommissionPaid(c), doc)
                  /\ case[c].fee = Fee[c] + Tally(FeeAdded(c), doc)

DebtOK(b) ==
    LET row == debt[b]
    IN  /\ row.source = "ABSENT" => row = NoDebt
        /\ row.source = "COMPLETED" => row.received \in 0..Owing[b] /\ row.remaining = Owing[b] - row.received
        /\ row.source = "REVERSED" => row.received = 0 /\ row.remaining = 0
        /\ row.source = "REVERSED" <=> row.status \in {"CANCELLED", "REVERSED"}

DebtBacked(b) == debt[b].received = Tally(Collected(b), doc)

Books ==
    /\ \A c \in Cases : CaseOK(c) /\ CaseBacked(c)
    /\ \A b \in Debts : DebtOK(b) /\ DebtBacked(b)
    /\ ledger["MONEY"] >= 0

(* No two cases are of the same date.                                      *)
Dated ==
    /\ \A c \in Cases : case[c].status # "ABSENT" => case[c].born < Now
    /\ \A c, d \in Cases : case[c].status # "ABSENT" /\ case[d].status # "ABSENT" /\ c # d =>
         case[c].born # case[d].born

---------------------------------------------------------------------------
(* Calls and what they have read.                                          *)

Many == {"recoverAll", "combined"}
CaseUndo == {"reverseRecovery", "reverseCommission", "reverseAssessment"}
Undo == CaseUndo \cup {"reverseReceipt", "reverseCollection"}
OfCase == {"recover", "commission", "assess", "reverseCase"} \cup CaseUndo
OfDebt == {"collect", "cancel", "reverseDebt", "reverseCollection"}
Recording == {"recover", "commission", "assess", "recoverAll", "combined", "payin", "collect"}

UndoneKinds(kind) ==
    CASE kind = "reverseRecovery"   -> {"recovery"}
      [] kind = "reverseReceipt"    -> {"combined", "payin"}
      [] kind = "reverseCommission" -> {"commission"}
      [] kind = "reverseAssessment" -> {"assessment"}
      [] kind = "reverseCollection" -> {"collection"}

(* What a call names, and that it is there.                                *)
CallOK(o) ==
    /\ o.kind \in Kinds
    /\ o.kind \in OfCase => o.case \in Cases
    /\ o.kind \in OfDebt => o.debt \in Debts
    /\ o.kind \in Undo => o.target \in Docs
    /\ o.kind \in Recording => o.amount > 0
    /\ o.kind \in Many => o.case = None
    /\ o.kind = "payin" => o.part <= o.amount /\ (o.case = None => o.part = 0)

CallFits(o) ==
    /\ o.case \in Cases => case[o.case].status # "ABSENT"
    /\ o.debt \in Debts => debt[o.debt].source # "ABSENT"
    /\ o.kind \in Undo => /\ doc[o.target].kind \in UndoneKinds(o.kind)
                          /\ o.case = doc[o.target].case /\ o.debt = doc[o.target].debt

(* A request that may still record has recorded nothing, and one that is   *)
(* not under way knows nothing.                                            *)
SessionOK(r) ==
    /\ Running(r) => CallOK(op[r]) /\ CallFits(op[r]) /\ stage[r] \in 1..(Len(PlanOf(r)) + 1)
    /\ stage[r] # -1 => \A x \in Docs : x[1] = r => doc[x] = NoDocument
    /\ ~Running(r) => view[r] = NoView

(* The cases a call writes.                                                *)
Mine(o, v) ==
    IF o.kind \in Many THEN v.targets
    ELSE IF o.kind = "reverseReceipt" THEN Settled(v.doc)
    ELSE {o.case} \cap Cases

(* A step of the plan that looks at x is behind the n-th.                  *)
Looked(plan, n, x) == \E i \in 1..Len(plan) : i < n /\ x \in plan[i].look

(* What a recovery for all cases has found open: nothing but itself may    *)
(* have changed that, if it runs alone.                                    *)
RoomsStand(o, v) ==
    o.kind = "recoverAll" => \A c \in v.targets :
        v.room[c] > 0 /\ (o.kind \notin workload.beside => v.room[c] = case[c].left)

ReadStands(o, v, plan, n) ==
    /\ o.kind \in Undo /\ n > 1 => v.doc = doc[o.target]
    /\ Looked(plan, n, "debt") =>
         /\ v.debt.received = debt[o.debt].received /\ v.debt.remaining = debt[o.debt].remaining
         /\ v.debt.source = debt[o.debt].source
         /\ o.kind # "reverseDebt" => v.debt.status = debt[o.debt].status
    /\ Looked(plan, n, "case") =>
         /\ \A c \in Mine(o, v) : v.case[c] = case[c]
         /\ o.kind = "combined" => \A c \in Cases : Open(c, v) <=> c \in v.targets
    /\ Looked(plan, n, "funds") => v.funds <= ledger["MONEY"]
    /\ Looked(plan, n, "targets") =>
         /\ \A c \in v.targets : case[c].status # "ABSENT"
         /\ o.kind = "combined" => v.targets = Live
         /\ RoomsStand(o, v)
    /\ Looked(plan, n, "blocked") /\ o.kind = "reverseCase" => v.blocked = InUse(o.case)
    /\ n = 1 => v = NoView

ReadsStand == \A r \in Requests : Running(r) => ReadStands(op[r], view[r], PlanOf(r), stage[r])

(* A running call holds what the steps behind it have locked.              *)
LocksHeld ==
    \A r \in Requests : Running(r) =>
        \A i \in 1..Len(PlanOf(r)) : i < stage[r] =>
            \A row \in PlanOf(r)[i].rows : holder[row] = r

Known ==
    /\ TypeOK /\ Dated /\ BesideOnly /\ LocksHeld /\ ReadsStand /\ Books
    /\ \A r \in Requests : SessionOK(r)
    /\ \A x \in Docs : DocumentFits(x)

---------------------------------------------------------------------------
(* What a step of the actors A does to the rows.                           *)

Gain(F) == Tally(F, doc') - Tally(F, doc)

(* The row after p of principal, k of commission and f of new commission.  *)
Moved(row, p, k, f) ==
    [recovered |-> row.recovered + p, left |-> row.left - p, fee |-> row.fee + f,
     collected |-> row.collected + k, unpaid |-> row.unpaid + f - k, born |-> row.born,
     status |-> MasterStatus(row.recovered + p, row.left - p)]

FirstRow(c) ==
    [recovered |-> 0, left |-> Due[c], fee |-> Fee[c], collected |-> 0, unpaid |-> Fee[c],
     born |-> Now, status |-> "PENDING"]

CaseMoved(A, c, p, k, f) ==
    /\ c \in Live /\ holder[CaseLock(c)] \in A
    /\ case'[c] = Moved(case[c], p, k, f)
    /\ 0 <= case[c].recovered + p /\ p <= case[c].left
    /\ 0 <= case[c].collected + k /\ k <= case[c].unpaid + f

CaseVoided(A, c) ==
    /\ c \in Live /\ InFlight \subseteq A /\ ~InUse(c)
    /\ case'[c] = [case[c] EXCEPT !.status = "REVERSED"]

CaseOpened(c, p) ==
    /\ case[c] = NoCase /\ p \in 0..Due[c]
    /\ case'[c] = Moved(FirstRow(c), p, 0, 0)
    /\ \A x \in Cases \ {c} : case'[x] = case[x]
    /\ \A s \in Requests : Running(s) => op[s].kind # "combined"

CaseStep(A, c) ==
    LET p == Gain(Principal(c))
        k == Gain(CommissionPaid(c))
        f == Gain(FeeAdded(c))
    IN  \/ p = 0 /\ k = 0 /\ f = 0 /\ case'[c] = case[c]
        \/ CaseMoved(A, c, p, k, f)
        \/ p = 0 /\ k = 0 /\ f = 0 /\ CaseVoided(A, c)
        \/ k = 0 /\ f = 0 /\ CaseOpened(c, p)

Closed == {"CANCELLED", "REVERSED"}

DebtMoved(A, b, n) ==
    /\ debt[b].source = "COMPLETED" /\ holder[DebtLock(b)] \in A
    /\ debt'[b].received = debt[b].received + n /\ debt'[b].remaining = debt[b].remaining - n
    /\ debt'[b].source = debt[b].source /\ debt'[b].status \notin Closed
    /\ 0 <= debt[b].received + n /\ n <= debt[b].remaining

DebtVoided(A, b) ==
    /\ debt[b].source = "COMPLETED" /\ debt[b].received = 0 /\ holder[DebtLock(b)] \in A
    /\ debt'[b].received = 0 /\ debt'[b].remaining = 0
    /\ debt'[b].source = "REVERSED" /\ debt'[b].status \in Closed

DebtOpened(b) ==
    /\ debt[b] = NoDebt
    /\ debt'[b].received = 0 /\ debt'[b].remaining = Owing[b]
    /\ debt'[b].source = "COMPLETED" /\ debt'[b].status \notin Closed

DebtListed(b) ==
    /\ debt'[b].received = debt[b].received /\ debt'[b].remaining = debt[b].remaining
    /\ debt'[b].source = debt[b].source
    /\ debt'[b].status # debt[b].status =>
         /\ holder[DebtLock(b)] = Nobody
         /\ debt[b].remaining > 0 /\ {debt[b].status, debt'[b].status} \cap Closed = {}

DebtStep(A, b) ==
    LET n == Gain(Collected(b))
    IN  \/ n = 0 /\ (DebtListed(b) \/ DebtOpened(b) \/ DebtVoided(A, b))
        \/ DebtMoved(A, b, n)

DocRecorded(x, d) ==
    /\ doc[x] = NoDocument /\ d \in Document /\ Standing(d) /\ DocumentOK(d)
    /\ \A c \in Cases : d.case = c \/ c \in Settled(d) => c \in Live'
    /\ d.debt \in Debts => debt[d.debt].source # "ABSENT"

DocUndone(A, x, d) ==
    /\ Standing(doc[x]) /\ d = [doc[x] EXCEPT !.status = "REVERSED"]
    /\ holder[DocLock(x)] \in A

DocStep(A, x) ==
    \/ doc'[x] = doc[x]
    \/ /\ DocRecorded(x, doc'[x]) /\ stage'[x[1]] = -1
       /\ \A s \in InFlight \ A : op[s].kind \in workload.beside
    \/ DocUndone(A, x, doc'[x])

MoneyStep(A) ==
    /\ ledger' \in [Ledgers -> Int] /\ ledger'["MONEY"] >= 0
    /\ ledger'["MONEY"] >= ledger["MONEY"] \/ holder[MoneyLock] \in A \cup {Nobody}

(* Nothing else happens to the tables.                                     *)
TableStep(A) ==
    /\ case' = [c \in Cases |-> case'[c]] /\ doc' = [x \in Docs |-> doc'[x]]
    /\ debt' \in [Debts -> DebtRow]
    /\ MoneyStep(A)
    /\ \A c \in Cases : CaseStep(A, c)
    /\ \A b \in Debts : DebtStep(A, b)
    /\ \A x \in Docs : DocStep(A, x)

StepFrom(A) == Known /\ A \subseteq InFlight /\ TableStep(A)

---------------------------------------------------------------------------
(* The order in which cases are locked.                                    *)

IsOrder(order, S, key) ==
    /\ order \in [1..Cardinality(S) -> S]
    /\ \A i, j \in 1..Cardinality(S) : i < j => key[order[i]] < key[order[j]]

\* An initial segment is as long as its last number says.
LEMMA Segment == ASSUME NEW n \in Nat PROVE IsFiniteSet(1..n) /\ Cardinality(1..n) = n
<1>1. \A m \in Int : IsFiniteSet(1..m) /\ Cardinality(1..m) = IF 1 > m THEN 0 ELSE m - 1 + 1
  BY FS_Interval
<1>2. n \in Int OBVIOUS
<1>3. IsFiniteSet(1..n) /\ Cardinality(1..n) = IF 1 > n THEN 0 ELSE n - 1 + 1 BY <1>1, <1>2, Zenon
<1> QED BY <1>3

\* A finite set whose members have different keys can be ordered by them.
LEMMA OrderExists ==
  ASSUME NEW S, IsFiniteSet(S), NEW key \in [S -> Int], \A x, y \in S : x # y => key[x] # key[y]
  PROVE  \E order : IsOrder(order, S, key)
<1> DEFINE T == {s \in SUBSET S : \E order : IsOrder(order, s, key)}
<1>1. ASSUME NEW s \in SUBSET S, \A t \in SUBSET s : t # s => t \in T PROVE s \in T
  <2>1. IsFiniteSet(s) BY FS_Subset
  <2>2. CASE s = {}
    <3>1. Cardinality(s) = 0 BY <2>2, FS_EmptySet
    <3>2. IsOrder([i \in 1..0 |-> i], s, key) BY <2>2, <3>1 DEF IsOrder
    <3> QED BY <3>2
  <2>3. CASE s # {}
    <3>1. PICK x \in s : \A y \in s : key[y] <= key[x] BY <2>3, Greatest
    <3> DEFINE rest == s \ {x}
               n == Cardinality(rest)
    <3>2. n \in Nat /\ Cardinality(s) = n + 1
      <4>1. Cardinality(s) \in Nat /\ Cardinality(rest) \in Nat
        BY <2>1, FS_CardinalityType, FS_RemoveElement
      <4>2. Cardinality(rest) = Cardinality(s) - 1 BY <2>1, FS_RemoveElement
      <4> QED BY <4>1, <4>2
    <3>3. rest \in T BY <1>1
    <3>4. PICK order : IsOrder(order, rest, key) BY <3>3
    <3> HIDE DEF n
    <3> DEFINE longer == [i \in 1..n + 1 |-> IF i = n + 1 THEN x ELSE order[i]]
    <3>5. order \in [1..n -> rest] /\ \A i, j \in 1..n : i < j => key[order[i]] < key[order[j]]
      BY <3>4 DEF IsOrder, n
    <3>6. longer \in [1..n + 1 -> s] BY <3>2, <3>5
    <3>7. ASSUME NEW i \in 1..n + 1, NEW j \in 1..n + 1, i < j PROVE key[longer[i]] < key[longer[j]]
      <4>1. i \in 1..n /\ longer[i] = order[i] /\ order[i] \in rest BY <3>2, <3>5, <3>7
      <4>2. CASE j = n + 1
        <5>1. longer[j] = x /\ order[i] \in s /\ order[i] # x BY <4>1, <4>2
        <5>2. key[order[i]] <= key[x] /\ key[order[i]] # key[x] BY <3>1, <5>1
        <5>3. key[order[i]] \in Int /\ key[x] \in Int BY <5>1
        <5> QED BY <4>1, <5>1, <5>2, <5>3
      <4>3. CASE j # n + 1
        <5>1. j \in 1..n /\ longer[j] = order[j] BY <3>2, <4>3
        <5> QED BY <3>5, <3>7, <4>1, <5>1
      <4> QED BY <4>2, <4>3
    <3>8. IsOrder(longer, s, key)
      <4> HIDE DEF longer
      <4> QED BY <3>2, <3>6, <3>7 DEF IsOrder
    <3> QED BY <3>8
  <2> QED BY <2>2, <2>3
<1> HIDE DEF T
<1>2. S \in T BY <1>1, SubsetInduction
<1> QED BY <1>2 DEF T

(* InOrder() lists every member of the set, in the order of the keys.      *)
LEMMA InOrderLists ==
  ASSUME NEW S, IsFiniteSet(S), NEW key, \A x \in S : key[x] \in Int,
         \A x, y \in S : x # y => key[x] # key[y]
  PROVE  /\ IsOrder(InOrder(S, key), S, key)
         /\ Cardinality(S) \in Nat
         /\ \A x \in S : \E i \in 1..Cardinality(S) : InOrder(S, key)[i] = x
<1> DEFINE n == Cardinality(S)
           own == [x \in S |-> key[x]]
           order == InOrder(S, key)
<1>1. n \in Nat BY FS_CardinalityType
<1>2. PICK o : IsOrder(o, S, own) BY OrderExists
<1>3. IsOrder(o, S, key) BY <1>2 DEF IsOrder
<1>4. IsOrder(order, S, key) BY <1>3 DEF IsOrder, InOrder
<1> HIDE DEF order
<1>5. order \in [1..n -> S] BY <1>4 DEF IsOrder
<1>6. \A i, j \in 1..n : order[i] = order[j] => i = j
  <2> SUFFICES ASSUME NEW i \in 1..n, NEW j \in 1..n, i < j PROVE order[i] # order[j]
    BY <1>1
  <2>1. key[order[i]] < key[order[j]] BY <1>4 DEF IsOrder
  <2>2. key[order[i]] \in Int BY <1>5
  <2> QED BY <2>1, <2>2
<1>7. order \in Injection(1..n, S) BY <1>5, <1>6 DEF Injection, IsInjective
<1>8. Cardinality(1..n) = n BY <1>1, Segment
<1>9. order \in Surjection(1..n, S) BY <1>7, <1>8, FS_Injection
<1>10. \A x \in S : \E i \in 1..n : order[i] = x BY <1>9 DEF Surjection
<1> QED BY <1>1, <1>4, <1>10 DEF order

---------------------------------------------------------------------------
(* The plans.                                                              *)

StepIs(s, rows, look) == s.rows = rows /\ s.look = look

(* whole consists of a, b and c, one after the other.                      *)
InARow(whole, a, b, c) ==
    /\ Len(whole) = Len(a) + Len(b) + Len(c)
    /\ Len(a) \in Nat /\ Len(b) \in Nat /\ Len(c) \in Nat
    /\ \A i \in 1..Len(a) : whole[i] = a[i]
    /\ \A i \in 1..Len(b) : whole[Len(a) + i] = b[i]
    /\ \A i \in 1..Len(c) : whole[Len(a) + Len(b) + i] = c[i]

\* Three sequences put together.
LEMMA ThreeInARow ==
  ASSUME NEW S, NEW a \in Seq(S), NEW b \in Seq(S), NEW c \in Seq(S)
  PROVE  InARow(a \o b \o c, a, b, c)
<1> DEFINE ab == a \o b
<1>1. /\ ab \in Seq(S) /\ Len(ab) = Len(a) + Len(b)
      /\ \A i \in 1..Len(a) + Len(b) : ab[i] = IF i <= Len(a) THEN a[i] ELSE b[i - Len(a)]
  BY ConcatProperties
<1> HIDE DEF ab
<1>2. /\ Len(ab \o c) = Len(ab) + Len(c)
      /\ \A i \in 1..Len(ab) + Len(c) : (ab \o c)[i] = IF i <= Len(ab) THEN ab[i] ELSE c[i - Len(ab)]
  <2>1. ab \in Seq(S) BY <1>1
  <2> QED BY <2>1, ConcatProperties
<1>3. Len(a) \in Nat /\ Len(b) \in Nat /\ Len(c) \in Nat OBVIOUS
<1>4. \A i \in 1..Len(a) : (ab \o c)[i] = a[i] BY <1>1, <1>2, <1>3
<1>5. \A i \in 1..Len(b) : (ab \o c)[Len(a) + i] = b[i]
  <2> SUFFICES ASSUME NEW i \in 1..Len(b) PROVE (ab \o c)[Len(a) + i] = b[i] OBVIOUS
  <2>1. Len(a) + i \in 1..Len(a) + Len(b) /\ ~(Len(a) + i <= Len(a)) /\ Len(a) + i - Len(a) = i BY <1>3
  <2>2. ab[Len(a) + i] = b[i] BY <1>1, <2>1
  <2>3. Len(a) + i \in 1..Len(ab) + Len(c) /\ Len(a) + i <= Len(ab) BY <1>1, <1>3, <2>1
  <2> QED BY <1>2, <2>2, <2>3
<1>6. \A i \in 1..Len(c) : (ab \o c)[Len(a) + Len(b) + i] = c[i]
  <2> SUFFICES ASSUME NEW i \in 1..Len(c) PROVE (ab \o c)[Len(ab) + i] = c[i] BY <1>1
  <2>1. Len(ab) + i \in 1..Len(ab) + Len(c) /\ ~(Len(ab) + i <= Len(ab)) /\ Len(ab) + i - Len(ab) = i
    BY <1>1, <1>3
  <2> QED BY <1>2, <2>1
<1> QED BY <1>1, <1>2, <1>3, <1>4, <1>5, <1>6 DEF ab, InARow

AnyStep ==
    [rows : SUBSET Rows,
     look : SUBSET {"case", "targets", "debt", "doc", "blocked", "funds", "claim"}]

(* The locks on the cases of S, in the order of a key.                     *)
LEMMA LockCasesSteps ==
  ASSUME NEW S \in SUBSET Cases, NEW key, \A x \in S : key[x] \in Int,
         \A x, y \in S : x # y => key[x] # key[y]
  PROVE  LET n == Cardinality(S)
             locks == LockCases(InOrder(S, key))
         IN  /\ n \in Nat /\ locks \in Seq(AnyStep) /\ Len(locks) = n
             /\ \A i \in 1..n : \E c \in S : StepIs(locks[i], {CaseLock(c)}, {})
             /\ \A c \in S : \E i \in 1..n : StepIs(locks[i], {CaseLock(c)}, {})
<1> DEFINE n == Cardinality(S)
           order == InOrder(S, key)
           locks == LockCases(order)
<1>1. IsFiniteSet(S) BY DuesAssumption, FS_Subset
<1>2. n \in Nat /\ IsOrder(order, S, key) /\ \A x \in S : \E i \in 1..n : order[i] = x
  BY <1>1, InOrderLists
<1>3. order \in [1..n -> S] BY <1>2 DEF IsOrder
<1> HIDE DEF order, n
<1>4. locks = [i \in 1..n |-> Step({CaseLock(order[i])}, {})] BY <1>3 DEF LockCases
<1>5. \A i \in 1..n : locks[i] \in AnyStep
  <2>1. \A c \in S : CaseLock(c) \in Rows BY DEF CaseLock, Rows
  <2> QED BY <1>3, <1>4, <2>1 DEF Step, AnyStep
<1>6. locks \in [1..n -> AnyStep] BY <1>4, <1>5
<1>7. locks \in Seq(AnyStep) /\ Len(locks) = n BY <1>2, <1>6
<1>8. \A i \in 1..n : StepIs(locks[i], {CaseLock(order[i])}, {}) BY <1>4 DEF Step, StepIs
<1>9. \A i \in 1..n : \E c \in S : StepIs(locks[i], {CaseLock(c)}, {}) BY <1>3, <1>8
<1>10. \A c \in S : \E i \in 1..n : StepIs(locks[i], {CaseLock(c)}, {}) BY <1>2, <1>8
<1> QED BY <1>2, <1>7, <1>9, <1>10 DEF n, order

(* A plan that locks the cases of S between its first steps and its last   *)
(* two.                                                                    *)
LocksBetween(plan, first, S, last) ==
    LET m == Len(first)
        n == Cardinality(S)
    IN  /\ m \in Nat /\ n \in Nat /\ Len(plan) = m + n + 2
        /\ \A i \in 1..m : plan[i] = first[i]
        /\ \A i \in m + 1..m + n : \E c \in S : StepIs(plan[i], {CaseLock(c)}, {})
        /\ \A c \in S : \E i \in m + 1..m + n : StepIs(plan[i], {CaseLock(c)}, {})
        /\ plan[m + n + 1] = last[1] /\ plan[m + n + 2] = last[2]

\* Such a plan, put together from its parts.
LEMMA LocksBetweenIs ==
  ASSUME NEW S \in SUBSET Cases, NEW key, \A x \in S : key[x] \in Int,
         \A x, y \in S : x # y => key[x] # key[y],
         NEW first \in Seq(AnyStep), NEW last \in Seq(AnyStep), Len(last) = 2
  PROVE  LocksBetween(first \o LockCases(InOrder(S, key)) \o last, first, S, last)
<1> DEFINE m == Len(first)
           n == Cardinality(S)
           locks == LockCases(InOrder(S, key))
           plan == first \o locks \o last
<1>1. /\ n \in Nat /\ locks \in Seq(AnyStep) /\ Len(locks) = n
      /\ \A i \in 1..n : \E c \in S : StepIs(locks[i], {CaseLock(c)}, {})
      /\ \A c \in S : \E i \in 1..n : StepIs(locks[i], {CaseLock(c)}, {})
  BY LockCasesSteps
<1> HIDE DEF locks, n
<1>2. /\ Len(plan) = m + n + 2 /\ m \in Nat
      /\ \A i \in 1..m : plan[i] = first[i]
      /\ \A i \in 1..n : plan[m + i] = locks[i]
      /\ \A i \in 1..2 : plan[m + n + i] = last[i]
  <2>1. locks \in Seq(AnyStep) /\ Len(locks) = n BY <1>1
  <2>2. InARow(plan, first, locks, last) BY <2>1, ThreeInARow
  <2> HIDE DEF plan
  <2> QED BY <2>1, <2>2 DEF InARow
<1> HIDE DEF m, plan
<1>3. \A i \in m + 1..m + n : \E c \in S : StepIs(plan[i], {CaseLock(c)}, {})
  <2> SUFFICES ASSUME NEW i \in m + 1..m + n PROVE \E c \in S : StepIs(plan[i], {CaseLock(c)}, {})
    OBVIOUS
  <2>1. i - m \in 1..n /\ m + (i - m) = i BY <1>1, <1>2
  <2>2. plan[i] = locks[i - m] BY <1>2, <2>1
  <2> QED BY <1>1, <2>1, <2>2
<1>4. \A c \in S : \E i \in m + 1..m + n : StepIs(plan[i], {CaseLock(c)}, {})
  <2> SUFFICES ASSUME NEW c \in S PROVE \E i \in m + 1..m + n : StepIs(plan[i], {CaseLock(c)}, {})
    OBVIOUS
  <2>1. PICK i \in 1..n : StepIs(locks[i], {CaseLock(c)}, {}) BY <1>1
  <2>2. m + i \in m + 1..m + n BY <1>1, <1>2
  <2>3. plan[m + i] = locks[i] BY <1>2
  <2> QED BY <2>1, <2>2, <2>3
<1>5. plan[m + n + 1] = last[1] /\ plan[m + n + 2] = last[2]
  <2>1. 1 \in 1..2 /\ 2 \in 1..2 OBVIOUS
  <2> QED BY <1>2, <2>1, Zenon
<1> QED BY <1>1, <1>2, <1>3, <1>4, <1>5 DEF LocksBetween, m, n, plan, locks

(* What the i-th step of the plan p of a call o, which has read v, asks    *)
(* for and looks at.                                                       *)
StepOK(o, v, p, i) ==
    /\ p[i].rows \subseteq Rows
    /\ "case" \in p[i].look /\ o.kind # "reverseCase" =>
         \A c \in Mine(o, v) : \E j \in 1..i : CaseLock(c) \in p[j].rows
    /\ "case" \in p[i].look /\ o.kind \in Many \cup {"reverseReceipt"} => i > 1
    /\ "doc" \in p[i].look => i = 1 /\ o.kind \in Undo /\ DocLock(o.target) \in p[i].rows
    /\ "debt" \in p[i].look =>
         o.kind \in OfDebt /\ (o.kind # "reverseDebt" => DebtLock(o.debt) \in p[i].rows)
    /\ "funds" \in p[i].look => MoneyLock \in p[i].rows
    /\ "targets" \in p[i].look => i = 1 /\ o.kind \in Many

PlanOK(o, v, p) ==
    /\ Len(p) \in Nat \ {0}
    /\ \A i \in 1..Len(p) : StepOK(o, v, p, i)
    /\ o.kind \in Many => "targets" \in p[1].look
    /\ o.kind \in Undo => "doc" \in p[1].look
    /\ o.kind \notin OfDebt /\ ~(o.kind = "payin" /\ o.case = None) =>
         \E i \in 1..Len(p) : "case" \in p[i].look
    /\ o.kind \in OfDebt => /\ \E i \in 1..Len(p) : "debt" \in p[i].look
                            /\ \E i \in 1..Len(p) : DebtLock(o.debt) \in p[i].rows
    /\ o.kind \in Undo \ {"reverseAssessment"} => \E i \in 1..Len(p) : "funds" \in p[i].look
    /\ o.kind = "reverseCase" => \E i \in 1..Len(p) : "blocked" \in p[i].look

\* The rows a plan may name exist.
LEMMA LocksAreRows ==
  /\ MoneyLock \in Rows
  /\ \A c \in Cases : CaseLock(c) \in Rows /\ MasterLock(c) \in Rows
  /\ \A b \in Debts : DebtLock(b) \in Rows /\ SourceLock(b) \in Rows
  /\ \A x \in Docs : DocLock(x) \in Rows
BY DEF Rows, MoneyLock, CaseLock, MasterLock, DebtLock, SourceLock, DocLock

\* Plans that lock what the call names.
LEMMA ShortPlan ==
  ASSUME NEW o \in Operation, NEW v \in View, CallOK(o), o.kind \notin Many \cup {"reverseReceipt"}
  PROVE  PlanOK(o, v, Plan(o, v))
<1> DEFINE p == Plan(o, v)
<1> SUFFICES PlanOK(o, v, p) OBVIOUS
<1>0. o.kind \in Kinds /\ o.case \in Cases \cup {None} BY DEF CallOK, Operation
<1>1. CASE o.kind \in {"recover", "commission"}
  <2>1. p = CasePlan(o) BY <1>1 DEF Plan
  <2>2. Len(p) = 2 /\ StepIs(p[1], {CaseLock(o.case)}, {"case"}) /\ StepIs(p[2], {MasterLock(o.case)}, {})
    BY <2>1 DEF CasePlan, Step, StepIs
  <2>3. o.case \in Cases /\ Mine(o, v) = {o.case} BY <1>1 DEF CallOK, OfCase, Mine, Many
  <2> HIDE DEF p
  <2>7. o.kind \notin OfDebt \cup Undo BY <1>1 DEF Undo, CaseUndo, OfDebt
  <2>8. \A i \in 1..Len(p) : i = 1 \/ i = 2 BY <2>2
  <2> QED BY <1>1, <2>2, <2>3, <2>7, <2>8, LocksAreRows DEF PlanOK, StepOK, StepIs
<1>2. CASE o.kind = "assess"
  <2>1. p = AssessPlan(o) BY <1>2 DEF Plan
  <2>2. Len(p) = 1 /\ StepIs(p[1], {CaseLock(o.case)}, {"case"})
    BY <2>1 DEF AssessPlan, Step, StepIs
  <2>3. o.case \in Cases /\ Mine(o, v) = {o.case} BY <1>2 DEF CallOK, OfCase, Mine, Many
  <2> HIDE DEF p
  <2>7. o.kind \notin OfDebt \cup Undo BY <1>2 DEF Undo, CaseUndo, OfDebt
  <2>8. \A i \in 1..Len(p) : i = 1 BY <2>2
  <2> QED BY <1>2, <2>2, <2>3, <2>7, <2>8, LocksAreRows DEF PlanOK, StepOK, StepIs
<1>3. CASE o.kind = "payin" /\ o.case = None
  <2>1. p = PayInPlan(o) BY <1>3 DEF Plan
  <2>2. Len(p) = 2 /\ StepIs(p[1], {MoneyLock}, {}) /\ StepIs(p[2], {}, {"claim"})
    BY <1>3, <2>1 DEF PayInPlan, Step, StepIs
  <2> HIDE DEF p
  <2>7. o.kind \notin OfDebt \cup Undo BY <1>3 DEF Undo, CaseUndo, OfDebt
  <2>8. \A i \in 1..Len(p) : i = 1 \/ i = 2 BY <2>2
  <2> QED BY <1>3, <2>2, <2>7, <2>8, LocksAreRows DEF PlanOK, StepOK, StepIs
<1>4. CASE o.kind = "payin" /\ o.case # None
  <2>1. p = PayInPlan(o) BY <1>4 DEF Plan
  <2>2. Len(p) = 4 /\ StepIs(p[1], {CaseLock(o.case)}, {}) /\ StepIs(p[2], {MoneyLock}, {})
        /\ StepIs(p[3], {}, {"claim", "case"}) /\ StepIs(p[4], {MasterLock(o.case)}, {})
    BY <1>4, <2>1 DEF PayInPlan, Step, StepIs
  <2>3. o.case \in Cases /\ Mine(o, v) = {o.case} BY <1>0, <1>4 DEF Mine, Many
  <2> HIDE DEF p
  <2>7. o.kind \notin OfDebt \cup Undo BY <1>4 DEF Undo, CaseUndo, OfDebt
  <2>8. \A i \in 1..Len(p) : i = 1 \/ i = 2 \/ i = 3 \/ i = 4 BY <2>2
  <2> QED BY <1>4, <2>2, <2>3, <2>7, <2>8, LocksAreRows DEF PlanOK, StepOK, StepIs
<1>5. CASE o.kind = "reverseRecovery"
  <2>1. p = ReverseRecoveryPlan(o) BY <1>5 DEF Plan
  <2>2. /\ Len(p) = 4 /\ StepIs(p[1], {DocLock(o.target)}, {"doc", "blocked"})
        /\ StepIs(p[2], {MoneyLock}, {"funds"})
        /\ StepIs(p[3], {CaseLock(o.case)}, {"case"}) /\ StepIs(p[4], {MasterLock(o.case)}, {})
    BY <2>1 DEF ReverseRecoveryPlan, Step, StepIs
  <2>3. o.case \in Cases /\ o.target \in Docs /\ Mine(o, v) = {o.case}
    BY <1>5 DEF CallOK, OfCase, CaseUndo, Undo, Mine, Many
  <2> HIDE DEF p
  <2>7. o.kind \in Undo \ OfDebt BY <1>5 DEF Undo, CaseUndo, OfDebt
  <2>8. \A i \in 1..Len(p) : i = 1 \/ i = 2 \/ i = 3 \/ i = 4 BY <2>2
  <2> QED BY <1>5, <2>2, <2>3, <2>7, <2>8, LocksAreRows DEF PlanOK, StepOK, StepIs
<1>6. CASE o.kind = "reverseCommission"
  <2>1. p = ReverseCommissionPlan(o) BY <1>6 DEF Plan
  <2>2. /\ Len(p) = 3 /\ StepIs(p[1], {DocLock(o.target)}, {"doc", "blocked"})
        /\ StepIs(p[2], {MoneyLock}, {"funds"}) /\ StepIs(p[3], {CaseLock(o.case)}, {"case"})
    BY <2>1 DEF ReverseCommissionPlan, Step, StepIs
  <2>3. o.case \in Cases /\ o.target \in Docs /\ Mine(o, v) = {o.case}
    BY <1>6 DEF CallOK, OfCase, CaseUndo, Undo, Mine, Many
  <2> HIDE DEF p
  <2>7. o.kind \in Undo \ OfDebt BY <1>6 DEF Undo, CaseUndo, OfDebt
  <2>8. \A i \in 1..Len(p) : i = 1 \/ i = 2 \/ i = 3 BY <2>2
  <2> QED BY <1>6, <2>2, <2>3, <2>7, <2>8, LocksAreRows DEF PlanOK, StepOK, StepIs
<1>7. CASE o.kind = "reverseAssessment"
  <2>1. p = ReverseAssessmentPlan(o) BY <1>7 DEF Plan
  <2>2. /\ Len(p) = 2 /\ StepIs(p[1], {DocLock(o.target)}, {"doc", "blocked"})
        /\ StepIs(p[2], {CaseLock(o.case)}, {"case"})
    BY <2>1 DEF ReverseAssessmentPlan, Step, StepIs
  <2>3. o.case \in Cases /\ o.target \in Docs /\ Mine(o, v) = {o.case}
    BY <1>7 DEF CallOK, OfCase, CaseUndo, Undo, Mine, Many
  <2> HIDE DEF p
  <2>7. o.kind \in Undo \ OfDebt BY <1>7 DEF Undo, CaseUndo, OfDebt
  <2>8. \A i \in 1..Len(p) : i = 1 \/ i = 2 BY <2>2
  <2> QED BY <1>7, <2>2, <2>3, <2>7, <2>8, LocksAreRows DEF PlanOK, StepOK, StepIs
<1>8. CASE o.kind = "reverseCase"
  <2>1. p = ReverseCasePlan(o) BY <1>8 DEF Plan
  <2>2. Len(p) = 1 /\ StepIs(p[1], {MasterLock(o.case)}, {"case", "blocked"})
    BY <2>1 DEF ReverseCasePlan, Step, StepIs
  <2>3. o.case \in Cases BY <1>8 DEF CallOK, OfCase
  <2> HIDE DEF p
  <2>7. o.kind \notin OfDebt \cup Undo BY <1>8 DEF Undo, CaseUndo, OfDebt
  <2>8. \A i \in 1..Len(p) : i = 1 BY <2>2
  <2> QED BY <1>8, <2>2, <2>3, <2>7, <2>8, LocksAreRows DEF PlanOK, StepOK, StepIs
<1>9. CASE o.kind = "collect"
  <2>1. p = CollectPlan(o) BY <1>9 DEF Plan
  <2>2. Len(p) = 1 /\ StepIs(p[1], {DebtLock(o.debt)}, {"debt"})
    BY <2>1 DEF CollectPlan, Step, StepIs
  <2>3. o.debt \in Debts BY <1>9 DEF CallOK, OfDebt
  <2> HIDE DEF p
  <2>7. o.kind \in OfDebt \ Undo BY <1>9 DEF Undo, CaseUndo, OfDebt
  <2>8. \A i \in 1..Len(p) : i = 1 BY <2>2
  <2> QED BY <1>9, <2>2, <2>3, <2>7, <2>8, LocksAreRows DEF PlanOK, StepOK, StepIs
<1>10. CASE o.kind = "cancel"
  <2>1. p = CancelPlan(o) BY <1>10 DEF Plan
  <2>2. Len(p) = 2 /\ StepIs(p[1], {DebtLock(o.debt)}, {"debt"}) /\ StepIs(p[2], {SourceLock(o.debt)}, {})
    BY <2>1 DEF CancelPlan, Step, StepIs
  <2>3. o.debt \in Debts BY <1>10 DEF CallOK, OfDebt
  <2> HIDE DEF p
  <2>7. o.kind \in OfDebt \ Undo BY <1>10 DEF Undo, CaseUndo, OfDebt
  <2>8. \A i \in 1..Len(p) : i = 1 \/ i = 2 BY <2>2
  <2> QED BY <1>10, <2>2, <2>3, <2>7, <2>8, LocksAreRows DEF PlanOK, StepOK, StepIs
<1>11. CASE o.kind = "reverseDebt"
  <2>1. p = ReverseDebtPlan(o) BY <1>11 DEF Plan
  <2>2. Len(p) = 2 /\ StepIs(p[1], {SourceLock(o.debt)}, {"debt"}) /\ StepIs(p[2], {DebtLock(o.debt)}, {})
    BY <2>1 DEF ReverseDebtPlan, Step, StepIs
  <2>3. o.debt \in Debts BY <1>11 DEF CallOK, OfDebt
  <2> HIDE DEF p
  <2>7. o.kind \in OfDebt \ Undo BY <1>11 DEF Undo, CaseUndo, OfDebt
  <2>8. \A i \in 1..Len(p) : i = 1 \/ i = 2 BY <2>2
  <2> QED BY <1>11, <2>2, <2>3, <2>7, <2>8, LocksAreRows DEF PlanOK, StepOK, StepIs
<1>12. CASE o.kind = "reverseCollection"
  <2>1. p = ReverseCollectionPlan(o) BY <1>12 DEF Plan
  <2>2. /\ Len(p) = 3 /\ StepIs(p[1], {DocLock(o.target)}, {"doc"})
        /\ StepIs(p[2], {MoneyLock}, {"funds"}) /\ StepIs(p[3], {DebtLock(o.debt)}, {"debt"})
    BY <2>1 DEF ReverseCollectionPlan, Step, StepIs
  <2>3. o.debt \in Debts /\ o.target \in Docs BY <1>12 DEF CallOK, OfDebt, Undo
  <2> HIDE DEF p
  <2>7. o.kind \in OfDebt \cap Undo BY <1>12 DEF Undo, CaseUndo, OfDebt
  <2>8. \A i \in 1..Len(p) : i = 1 \/ i = 2 \/ i = 3 BY <2>2
  <2> QED BY <1>12, <2>2, <2>3, <2>7, <2>8, LocksAreRows DEF PlanOK, StepOK, StepIs
<1> QED BY <1>0, <1>1, <1>2, <1>3, <1>4, <1>5, <1>6, <1>7, <1>8, <1>9, <1>10, <1>11, <1>12
        DEF Kinds, Many

(* Plans that lock the cases the call has listed, or its receipt names.    *)
LEMMA ManyPlanSteps ==
  ASSUME NEW o \in Operation, NEW v \in View, o.kind \in Many
  PROVE  \E first, last :
           /\ LocksBetween(Plan(o, v), first, v.targets, last) /\ Len(first) = 1
           /\ StepIs(first[1], {}, {"targets"}) /\ first[1] = Step({}, {"targets"})
           /\ StepIs(last[1], {}, {"case"}) /\ StepIs(last[2], {MasterLock(c) : c \in v.targets}, {})
<1> DEFINE first == << Step({}, {"targets"}) >>
           last == << Step({}, {"case"}), Step({MasterLock(c) : c \in v.targets}, {}) >>
<1>1. v.targets \in SUBSET Cases BY DEF View
<1>2. Plan(o, v) = first \o LockCases(InOrder(v.targets, ById)) \o last
  BY DEF Plan, ManyPlan, InIdOrder, Many
<1>3. /\ \A x \in v.targets : ById[x] \in Int
      /\ \A x, y \in v.targets : x # y => ById[x] # ById[y]
  <2>1. \A x \in v.targets : ById[x] \in Nat BY <1>1, DuesAssumption
  <2>2. \A x, y \in v.targets : x # y => ById[x] # ById[y] BY <1>1, DuesAssumption
  <2> QED BY <2>1, <2>2
<1>4. Len(first) = 1 /\ first[1] = Step({}, {"targets"}) /\ StepIs(first[1], {}, {"targets"})
      /\ Len(last) = 2 /\ StepIs(last[1], {}, {"case"}) /\ StepIs(last[2], {MasterLock(c) : c \in v.targets}, {})
  BY DEF Step, StepIs
<1>5. first \in Seq(AnyStep) /\ last \in Seq(AnyStep)
  <2>1. {MasterLock(c) : c \in v.targets} \subseteq Rows BY <1>1, LocksAreRows
  <2>2. Step({}, {"targets"}) \in AnyStep /\ Step({}, {"case"}) \in AnyStep BY DEF Step, AnyStep
  <2>3. Step({MasterLock(c) : c \in v.targets}, {}) \in AnyStep BY <2>1 DEF Step, AnyStep
  <2> QED BY <2>2, <2>3
<1> HIDE DEF first, last
<1>6. LocksBetween(Plan(o, v), first, v.targets, last) BY <1>1, <1>2, <1>3, <1>4, <1>5, LocksBetweenIs
<1> QED BY <1>4, <1>6

\* The cases a receipt has settled are cases of different dates.
BornApart(S) == \A x, y \in S : case[x].born \in Int /\ (x # y => case[x].born # case[y].born)

\* The plan that takes a receipt back.
LEMMA ReceiptPlanSteps ==
  ASSUME NEW o \in Operation, NEW v \in View, o.kind = "reverseReceipt", o.target \in Docs,
         BornApart(Settled(v.doc))
  PROVE  \E first, last :
           /\ LocksBetween(Plan(o, v), first, Settled(v.doc), last) /\ Len(first) = 2
           /\ StepIs(first[1], {DocLock(o.target)}, {"doc", "blocked"})
           /\ first[1] = Step({DocLock(o.target)}, {"doc", "blocked"})
           /\ StepIs(first[2], {MoneyLock}, {"funds"})
           /\ StepIs(last[1], {}, {"case"})
           /\ StepIs(last[2], {MasterLock(c) : c \in {x \in Cases : v.doc.principal[x] > 0}}, {})
<1> DEFINE S == Settled(v.doc)
           masters == {MasterLock(c) : c \in {x \in Cases : v.doc.principal[x] > 0}}
           key == [c \in S |-> case[c].born]
           first == << Step({DocLock(o.target)}, {"doc", "blocked"}), Step({MoneyLock}, {"funds"}) >>
           last == << Step({}, {"case"}), Step(masters, {}) >>
<1>1. S \in SUBSET Cases BY DEF Settled
<1>2. Plan(o, v) = first \o LockCases(InOrder(S, key)) \o last
  BY DEF Plan, ReverseReceiptPlan, InAgeOrder
<1>3. (\A x \in S : key[x] \in Int) /\ \A x, y \in S : x # y => key[x] # key[y]
  BY DEF BornApart
<1>4. /\ Len(first) = 2 /\ first[1] = Step({DocLock(o.target)}, {"doc", "blocked"})
      /\ StepIs(first[1], {DocLock(o.target)}, {"doc", "blocked"}) /\ StepIs(first[2], {MoneyLock}, {"funds"})
      /\ Len(last) = 2 /\ StepIs(last[1], {}, {"case"}) /\ StepIs(last[2], masters, {})
  BY DEF Step, StepIs
<1>5. first \in Seq(AnyStep) /\ last \in Seq(AnyStep)
  <2>1. masters \subseteq Rows BY LocksAreRows
  <2>2. {DocLock(o.target)} \subseteq Rows /\ {MoneyLock} \subseteq Rows BY LocksAreRows
  <2> HIDE DEF masters
  <2>3. Step({DocLock(o.target)}, {"doc", "blocked"}) \in AnyStep /\ Step({MoneyLock}, {"funds"}) \in AnyStep
        /\ Step({}, {"case"}) \in AnyStep /\ Step(masters, {}) \in AnyStep
    BY <2>1, <2>2 DEF Step, AnyStep
  <2> QED BY <2>3
<1> HIDE DEF first, last, key, S
<1>6. LocksBetween(Plan(o, v), first, S, last) BY <1>1, <1>2, <1>3, <1>4, <1>5, LocksBetweenIs
<1> QED BY <1>4, <1>6 DEF S

\* A step that only locks a case.
LEMMA CaseLockStep ==
  ASSUME NEW o, NEW v, NEW p, NEW i, NEW c \in Cases, StepIs(p[i], {CaseLock(c)}, {})
  PROVE  StepOK(o, v, p, i)
BY LocksAreRows DEF StepOK, StepIs

\* The plans with many cases.
LEMMA ManyPlanOK ==
  ASSUME NEW o \in Operation, NEW v \in View, CallOK(o), o.kind \in Many
  PROVE  PlanOK(o, v, Plan(o, v))
<1> DEFINE p == Plan(o, v)
           S == v.targets
           n == Cardinality(S)
<1> SUFFICES PlanOK(o, v, p) OBVIOUS
<1>1. PICK first, last :
        /\ LocksBetween(p, first, S, last) /\ Len(first) = 1 /\ StepIs(first[1], {}, {"targets"})
        /\ StepIs(last[1], {}, {"case"}) /\ StepIs(last[2], {MasterLock(c) : c \in S}, {})
  BY ManyPlanSteps
<1>2. S \in SUBSET Cases /\ Mine(o, v) = S BY DEF View, Mine
<1> HIDE DEF p, S
<1>3. /\ n \in Nat /\ Len(p) = n + 3 /\ StepIs(p[1], {}, {"targets"})
      /\ \A i \in 2..n + 1 : \E c \in S : StepIs(p[i], {CaseLock(c)}, {})
      /\ \A c \in S : \E i \in 2..n + 1 : StepIs(p[i], {CaseLock(c)}, {})
      /\ StepIs(p[n + 2], {}, {"case"}) /\ StepIs(p[n + 3], {MasterLock(c) : c \in S}, {})
  <2>1. /\ n \in Nat /\ Len(p) = 1 + n + 2
        /\ \A i \in 1..1 : p[i] = first[i]
        /\ \A i \in 1 + 1..1 + n : \E c \in S : StepIs(p[i], {CaseLock(c)}, {})
        /\ \A c \in S : \E i \in 1 + 1..1 + n : StepIs(p[i], {CaseLock(c)}, {})
        /\ p[1 + n + 1] = last[1] /\ p[1 + n + 2] = last[2]
    BY <1>1 DEF LocksBetween
  <2>2. 1 + n + 1 = n + 2 /\ 1 + n + 2 = n + 3 /\ 1 + 1 = 2 /\ 1 + n = n + 1 /\ 1 \in 1..1 BY <2>1
  <2>3. p[1] = first[1] BY <2>1, <2>2
  <2>4. p[n + 2] = last[1] /\ p[n + 3] = last[2] BY <2>1, <2>2
  <2>5. /\ \A i \in 2..n + 1 : \E c \in S : StepIs(p[i], {CaseLock(c)}, {})
        /\ \A c \in S : \E i \in 2..n + 1 : StepIs(p[i], {CaseLock(c)}, {})
    BY <2>1, <2>2
  <2>6. StepIs(p[1], {}, {"targets"}) BY <1>1, <2>3
  <2>7. StepIs(p[n + 2], {}, {"case"}) BY <1>1, <2>4
  <2>8. StepIs(p[n + 3], {MasterLock(c) : c \in S}, {}) BY <1>1, <2>4
  <2> QED BY <2>1, <2>2, <2>5, <2>6, <2>7, <2>8
<1> HIDE DEF n
<1>4. o.kind \notin OfDebt \cup Undo /\ o.kind \in Kinds BY DEF Many, Undo, CaseUndo, OfDebt, CallOK
<1>5. StepOK(o, v, p, 1)
  BY <1>3 DEF StepOK, StepIs
<1>6. \A i \in 2..n + 1 : StepOK(o, v, p, i) BY <1>2, <1>3, CaseLockStep
<1>7. StepOK(o, v, p, n + 2)
  <2>1. ASSUME NEW c \in S PROVE \E j \in 1..n + 2 : CaseLock(c) \in p[j].rows
    <3>1. PICK j \in 2..n + 1 : StepIs(p[j], {CaseLock(c)}, {}) BY <1>3
    <3>2. j \in 1..n + 2 /\ CaseLock(c) \in p[j].rows BY <1>3, <3>1 DEF StepIs
    <3> QED BY <3>2
  <2>2. n + 2 > 1 BY <1>3
  <2>3. p[n + 2].rows = {} /\ p[n + 2].look = {"case"} BY <1>3 DEF StepIs
  <2> QED BY <1>2, <2>1, <2>2, <2>3 DEF StepOK
<1>8. StepOK(o, v, p, n + 3)
  <2>1. p[n + 3].rows \subseteq Rows /\ p[n + 3].look = {}
    <3>1. p[n + 3].rows = {MasterLock(c) : c \in S} /\ p[n + 3].look = {} BY <1>3 DEF StepIs
    <3> QED BY <1>2, <3>1, LocksAreRows
  <2> QED BY <2>1 DEF StepOK
<1>9. \A i \in 1..Len(p) : StepOK(o, v, p, i)
  <2>1. \A i \in 1..Len(p) : i = 1 \/ i \in 2..n + 1 \/ i = n + 2 \/ i = n + 3 BY <1>3
  <2> QED BY <1>5, <1>6, <1>7, <1>8, <2>1
<1>10. /\ Len(p) \in Nat \ {0} /\ n + 2 \in 1..Len(p) /\ "case" \in p[n + 2].look /\ "targets" \in p[1].look
  BY <1>3 DEF StepIs
<1> QED BY <1>4, <1>9, <1>10 DEF PlanOK, Many

\* The plan that takes a receipt back.
LEMMA ReceiptPlanOK ==
  ASSUME NEW o \in Operation, NEW v \in View, CallOK(o), o.kind = "reverseReceipt",
         BornApart(Settled(v.doc))
  PROVE  PlanOK(o, v, Plan(o, v))
<1> DEFINE p == Plan(o, v)
           S == Settled(v.doc)
           n == Cardinality(S)
           masters == {MasterLock(c) : c \in {x \in Cases : v.doc.principal[x] > 0}}
<1> SUFFICES PlanOK(o, v, p) OBVIOUS
<1>0. o.target \in Docs BY DEF CallOK, Undo
<1>1. PICK first, last :
        /\ LocksBetween(p, first, S, last) /\ Len(first) = 2
        /\ StepIs(first[1], {DocLock(o.target)}, {"doc", "blocked"})
        /\ StepIs(first[2], {MoneyLock}, {"funds"})
        /\ StepIs(last[1], {}, {"case"}) /\ StepIs(last[2], masters, {})
  BY <1>0, ReceiptPlanSteps
<1>2. S \in SUBSET Cases /\ Mine(o, v) = S BY DEF Settled, Mine, Many
<1>11. masters \subseteq Rows BY LocksAreRows
<1> HIDE DEF p, S, masters
<1>3. /\ n \in Nat /\ Len(p) = n + 4 /\ StepIs(p[1], {DocLock(o.target)}, {"doc", "blocked"})
      /\ StepIs(p[2], {MoneyLock}, {"funds"})
      /\ \A i \in 3..n + 2 : \E c \in S : StepIs(p[i], {CaseLock(c)}, {})
      /\ \A c \in S : \E i \in 3..n + 2 : StepIs(p[i], {CaseLock(c)}, {})
      /\ StepIs(p[n + 3], {}, {"case"}) /\ StepIs(p[n + 4], masters, {})
  <2>1. /\ n \in Nat /\ Len(p) = 2 + n + 2
        /\ \A i \in 1..2 : p[i] = first[i]
        /\ \A i \in 2 + 1..2 + n : \E c \in S : StepIs(p[i], {CaseLock(c)}, {})
        /\ \A c \in S : \E i \in 2 + 1..2 + n : StepIs(p[i], {CaseLock(c)}, {})
        /\ p[2 + n + 1] = last[1] /\ p[2 + n + 2] = last[2]
    BY <1>1 DEF LocksBetween
  <2>2. 2 + n + 1 = n + 3 /\ 2 + n + 2 = n + 4 /\ 2 + 1 = 3 /\ 2 + n = n + 2 /\ 1 \in 1..2 /\ 2 \in 1..2
    BY <2>1
  <2>3. p[1] = first[1] /\ p[2] = first[2] BY <2>1, <2>2
  <2>4. p[n + 3] = last[1] /\ p[n + 4] = last[2] BY <2>1, <2>2
  <2>5. /\ \A i \in 3..n + 2 : \E c \in S : StepIs(p[i], {CaseLock(c)}, {})
        /\ \A c \in S : \E i \in 3..n + 2 : StepIs(p[i], {CaseLock(c)}, {})
    BY <2>1, <2>2
  <2>6. StepIs(p[1], {DocLock(o.target)}, {"doc", "blocked"}) /\ StepIs(p[2], {MoneyLock}, {"funds"})
    BY <1>1, <2>3
  <2>7. StepIs(p[n + 3], {}, {"case"}) BY <1>1, <2>4
  <2>8. StepIs(p[n + 4], masters, {}) BY <1>1, <2>4
  <2> QED BY <2>1, <2>2, <2>5, <2>6, <2>7, <2>8
<1> HIDE DEF n
<1>4. o.kind \in Undo /\ o.kind \notin OfDebt BY DEF Undo, OfDebt
<1>5. StepOK(o, v, p, 1) /\ StepOK(o, v, p, 2)
  BY <1>0, <1>3, <1>4, LocksAreRows DEF StepOK, StepIs
<1>6. \A i \in 3..n + 2 : StepOK(o, v, p, i) BY <1>2, <1>3, CaseLockStep
<1>7. StepOK(o, v, p, n + 3)
  <2>1. ASSUME NEW c \in S PROVE \E j \in 1..n + 3 : CaseLock(c) \in p[j].rows
    <3>1. PICK j \in 3..n + 2 : StepIs(p[j], {CaseLock(c)}, {}) BY <1>3
    <3>2. j \in 1..n + 3 /\ CaseLock(c) \in p[j].rows BY <1>3, <3>1 DEF StepIs
    <3> QED BY <3>2
  <2>2. n + 3 > 1 BY <1>3
  <2>3. p[n + 3].rows = {} /\ p[n + 3].look = {"case"} BY <1>3 DEF StepIs
  <2> QED BY <1>2, <2>1, <2>2, <2>3 DEF StepOK
<1>8. StepOK(o, v, p, n + 4)
  <2>1. p[n + 4].rows \subseteq Rows /\ p[n + 4].look = {} BY <1>3, <1>11 DEF StepIs
  <2> QED BY <2>1 DEF StepOK
<1>9. \A i \in 1..Len(p) : StepOK(o, v, p, i)
  <2>1. \A i \in 1..Len(p) : i = 1 \/ i = 2 \/ i \in 3..n + 2 \/ i = n + 3 \/ i = n + 4 BY <1>3
  <2> QED BY <1>5, <1>6, <1>7, <1>8, <2>1
<1>10. /\ Len(p) \in Nat \ {0} /\ n + 3 \in 1..Len(p) /\ 2 \in 1..Len(p)
       /\ "case" \in p[n + 3].look /\ "doc" \in p[1].look /\ "funds" \in p[2].look
  BY <1>3 DEF StepIs
<1> QED BY <1>4, <1>9, <1>10 DEF PlanOK, Many

\* Every plan.
LEMMA PlansOK ==
  ASSUME NEW o \in Operation, NEW v \in View, CallOK(o), BornApart(Settled(v.doc))
  PROVE  PlanOK(o, v, Plan(o, v))
BY ShortPlan, ManyPlanOK, ReceiptPlanOK

\* The first step does not depend on what was read.
LEMMA FirstStep ==
  ASSUME NEW o \in Operation, NEW v \in View, NEW w \in View, CallOK(o),
         BornApart(Settled(v.doc)), BornApart(Settled(w.doc))
  PROVE  Plan(o, v)[1] = Plan(o, w)[1]
<1>1. CASE o.kind \in Many
  <2>1. ASSUME NEW x \in View PROVE Plan(o, x)[1] = Step({}, {"targets"})
    <3>1. PICK first, last : /\ LocksBetween(Plan(o, x), first, x.targets, last) /\ Len(first) = 1
                             /\ first[1] = Step({}, {"targets"})
      BY <1>1, <2>1, ManyPlanSteps
    <3>2. 1 \in 1..Len(first) BY <3>1
    <3> QED BY <3>1, <3>2 DEF LocksBetween
  <2> QED BY <2>1
<1>2. CASE o.kind = "reverseReceipt"
  <2>1. ASSUME NEW x \in View, BornApart(Settled(x.doc))
        PROVE  Plan(o, x)[1] = Step({DocLock(o.target)}, {"doc", "blocked"})
    <3>0. o.target \in Docs BY <1>2 DEF CallOK, Undo
    <3>1. PICK first, last : /\ LocksBetween(Plan(o, x), first, Settled(x.doc), last) /\ Len(first) = 2
                             /\ first[1] = Step({DocLock(o.target)}, {"doc", "blocked"})
      BY <1>2, <2>1, <3>0, ReceiptPlanSteps
    <3>2. 1 \in 1..Len(first) BY <3>1
    <3> QED BY <3>1, <3>2 DEF LocksBetween
  <2> QED BY <2>1
<1>3. CASE o.kind \notin Many \cup {"reverseReceipt"}
  <2>1. Plan(o, v) = Plan(o, w) BY <1>3 DEF Plan, Many, CallOK, Kinds
  <2> QED BY <2>1
<1> QED BY <1>1, <1>2, <1>3

\* A plan depends on the cases a request has listed and the receipt it has read.
LEMMA SamePlan ==
  ASSUME NEW o, NEW v, NEW w, o.kind \in Kinds, v.targets = w.targets, v.doc = w.doc
  PROVE  Plan(o, v) = Plan(o, w)
BY DEF Plan, Kinds, ManyPlan, ReverseReceiptPlan

---------------------------------------------------------------------------
(* What the documents add up to.                                           *)

\* The documents a behaviour may record are finitely many.
LEMMA DocsFinite == IsFiniteSet(Docs)
<1>1. IsFiniteSet({"main", "excess"})
  <2>1. IsFiniteSet({"main"}) BY FS_Singleton
  <2>2. IsFiniteSet({"main"} \cup {"excess"}) BY <2>1, FS_AddElement
  <2>3. {"main", "excess"} = {"main"} \cup {"excess"} OBVIOUS
  <2> QED BY <2>2, <2>3
<1>2. IsFiniteSet({"main", "excess"} \cup Cases) BY <1>1, DuesAssumption, FS_Union
<1>3. IsFiniteSet(Requests) BY DuesAssumption
<1> QED BY <1>2, <1>3, FS_Product DEF Docs

\* A sum of what documents say that is never negative: no document says
\* more than the whole.
LEMMA TallyNat ==
  ASSUME NEW F \in [Document -> Nat], NEW docs \in [Docs -> Document]
  PROVE  Tally(F, docs) \in Nat /\ \A x \in Docs : F[docs[x]] <= Tally(F, docs)
<1> DEFINE f == [x \in Docs |-> F[docs[x]]]
<1>1. f \in [Docs -> Nat] OBVIOUS
<1>2. \A x \in Docs : f[x] = F[docs[x]] OBVIOUS
<1>3. Tally(F, docs) = SumFunction(f) BY DEF Tally
<1> HIDE DEF f
<1>4. SumFunction(f) \in Nat BY <1>1, DocsFinite, SumNat
<1>5. \A x \in Docs : f[x] <= SumFunction(f) BY <1>1, DocsFinite, SumBound
<1> QED BY <1>2, <1>3, <1>4, <1>5

\* One document changes: the sum changes by as much.
LEMMA TallyOne ==
  ASSUME NEW F \in [Document -> Int], NEW docs \in [Docs -> Document],
         NEW new \in [Docs -> Document], NEW x \in Docs, \A y \in Docs \ {x} : new[y] = docs[y]
  PROVE  Tally(F, new) - Tally(F, docs) = F[new[x]] - F[docs[x]]
<1> DEFINE f == [y \in Docs |-> F[docs[y]]]
           h == [y \in Docs |-> F[new[y]]]
<1>1. f \in [Docs -> Int] /\ h \in [Docs -> Int] OBVIOUS
<1>2. f[x] = F[docs[x]] /\ h[x] = F[new[x]] /\ \A y \in Docs \ {x} : h[y] = f[y] OBVIOUS
<1>3. Tally(F, docs) = SumFunction(f) /\ Tally(F, new) = SumFunction(h) BY DEF Tally
<1> HIDE DEF f, h
<1>4. SumFunction(h) = SumFunction(f) - f[x] + h[x] BY <1>1, <1>2, DocsFinite, SumChange
<1>5. SumFunction(f) \in Int /\ f[x] \in Int /\ h[x] \in Int BY <1>1, DocsFinite, SumType
<1> QED BY <1>2, <1>3, <1>4, <1>5

\* Nothing of the kind was recorded.
LEMMA TallyNone ==
  ASSUME NEW F \in [Document -> Int], NEW docs \in [Docs -> Document], \A x \in Docs : F[docs[x]] = 0
  PROVE  Tally(F, docs) = 0
<1> DEFINE f == [x \in Docs |-> F[docs[x]]]
<1>1. f \in [Docs -> Int] /\ (\A x \in Docs : f[x] = 0) OBVIOUS
<1>2. Tally(F, docs) = SumFunction(f) BY DEF Tally
<1> HIDE DEF f
<1> QED BY <1>1, <1>2, DocsFinite, SumZero

\* Several documents are recorded at once.
LEMMA TallyMore ==
  ASSUME NEW F \in [Document -> Int], NEW docs \in [Docs -> Document], NEW D \in SUBSET Docs,
         NEW made \in [D -> Document], \A x \in D : F[docs[x]] = 0
  PROVE  Tally(F, [x \in Docs |-> IF x \in D THEN made[x] ELSE docs[x]]) - Tally(F, docs)
         = SumFunction([x \in D |-> F[made[x]]])
<1> DEFINE new == [x \in Docs |-> IF x \in D THEN made[x] ELSE docs[x]]
           f == [x \in Docs |-> F[docs[x]]]
           g == [x \in Docs |-> IF x \in D THEN F[made[x]] ELSE 0]
           h == [x \in Docs |-> F[new[x]]]
           m == [x \in D |-> F[made[x]]]
<1> SUFFICES Tally(F, new) - Tally(F, docs) = SumFunction(m) OBVIOUS
<1>1. f \in [Docs -> Int] /\ g \in [Docs -> Int] /\ m \in [D -> Int]
  <2>1. \A x \in D : F[made[x]] \in Int OBVIOUS
  <2> QED BY <2>1
<1>2. h \in [Docs -> Int] /\ \A x \in Docs : h[x] = f[x] + g[x]
  <2>1. ASSUME NEW x \in Docs PROVE F[new[x]] \in Int /\ F[new[x]] = f[x] + g[x]
    <3>1. CASE x \in D
      <4>1. F[new[x]] = F[made[x]] /\ F[made[x]] \in Int /\ f[x] = 0 /\ g[x] = F[made[x]] BY <3>1
      <4> QED BY <4>1
    <3>2. CASE x \notin D
      <4>1. F[new[x]] = F[docs[x]] /\ F[docs[x]] \in Int /\ f[x] = F[docs[x]] /\ g[x] = 0 BY <3>2
      <4> QED BY <4>1
    <3> QED BY <3>1, <3>2
  <2> QED BY <2>1
<1>3. (\A x \in D : g[x] = m[x]) /\ \A x \in Docs \ D : g[x] = 0 OBVIOUS
<1>4. Tally(F, docs) = SumFunction(f) /\ Tally(F, new) = SumFunction(h) BY DEF Tally
<1> HIDE DEF f, g, h, m, new
<1>5. SumFunction(h) = SumFunction(f) + SumFunction(g) BY <1>1, <1>2, DocsFinite, SumAdd
<1>6. SumFunction(g) = SumFunction(m)
  <2> HIDE <1>2
  <2> QED BY <1>1, <1>3, DocsFinite, SumExtend
<1>7. SumFunction(f) \in Int /\ SumFunction(g) \in Int BY <1>1, DocsFinite, SumType
<1> QED BY <1>4, <1>5, <1>6, <1>7

\* What is added up over documents is of the expected type, and nothing
\* for a request that has recorded nothing.
LEMMA Measures ==
  ASSUME NEW c \in Cases, NEW b \in Debts
  PROVE  /\ Principal(c) \in [Document -> Nat] /\ CommissionPaid(c) \in [Document -> Nat]
         /\ FeeAdded(c) \in [Document -> Nat] /\ Collected(b) \in [Document -> Nat]
         /\ Principal(c) \in [Document -> Int] /\ CommissionPaid(c) \in [Document -> Int]
         /\ FeeAdded(c) \in [Document -> Int] /\ Collected(b) \in [Document -> Int]
BY DEF Document, Principal, CommissionPaid, FeeAdded, Collected

\* The empty document, and what it adds.
LEMMA NoDocumentFits ==
  /\ NoDocument \in Document /\ DocumentOK(NoDocument) /\ ~Standing(NoDocument)
  /\ \A c \in Cases : /\ Principal(c)[NoDocument] = 0 /\ CommissionPaid(c)[NoDocument] = 0
                      /\ FeeAdded(c)[NoDocument] = 0
  /\ \A b \in Debts : Collected(b)[NoDocument] = 0
<1>1. Nothing \in [Cases -> Nat] BY DEF Nothing
<1>2. NoDocument \in Document BY <1>1 DEF NoDocument, Document
<1>3. ~Standing(NoDocument) BY DEF Standing, NoDocument
<1>4. DocumentOK(NoDocument) BY DuesAssumption DEF DocumentOK, AddsUp, NoDocument
<1> QED BY <1>2, <1>3, <1>4 DEF Principal, CommissionPaid, FeeAdded, Collected

---------------------------------------------------------------------------
(* What such a step keeps.                                                 *)

\* The next date is a number.
LEMMA NowType ==
  ASSUME TypeOK
  PROVE  /\ Now \in Nat
         /\ IsFiniteSet({x \in Docs : doc[x].kind # "none"})
         /\ IsFiniteSet({c \in Cases : case[c].status # "ABSENT"})
<1> DEFINE D == {x \in Docs : doc[x].kind # "none"}
           C == {c \in Cases : case[c].status # "ABSENT"}
<1>1. D \in SUBSET Docs /\ C \in SUBSET Cases OBVIOUS
<1>2. IsFiniteSet(D) BY <1>1, DocsFinite, FS_Subset
<1>3. IsFiniteSet(C) BY <1>1, DuesAssumption, FS_Subset
<1>4. Cardinality(D) \in Nat /\ Cardinality(C) \in Nat BY <1>2, <1>3, FS_CardinalityType
<1> QED BY <1>2, <1>3, <1>4 DEF Now

\* A row stays a row.
LEMMA MovedType ==
  ASSUME NEW row \in CaseRow, NEW p \in Int, NEW k \in Int, NEW f \in Int
  PROVE  /\ Moved(row, p, k, f) \in CaseRow
         /\ MasterStatus(row.recovered + p, row.left - p) \notin {"ABSENT", "REVERSED"}
         /\ Moved(row, p, k, f).status \notin {"ABSENT", "REVERSED"}
         /\ Moved(row, p, k, f).born = row.born
<1>1. MasterStatus(row.recovered + p, row.left - p) \in {"PENDING", "PARTIALLY_PAID", "COMPLETED"}
  BY DEF MasterStatus
<1> QED BY <1>1 DEF Moved, CaseRow

\* The row a case starts with.
LEMMA FirstRowType ==
  ASSUME TypeOK, NEW c \in Cases
  PROVE  /\ FirstRow(c) \in CaseRow /\ FirstRow(c).born = Now
         /\ FirstRow(c).recovered = 0 /\ FirstRow(c).left = Due[c] /\ FirstRow(c).collected = 0
         /\ FirstRow(c).fee = Fee[c] /\ FirstRow(c).unpaid = Fee[c] /\ FirstRow(c).status = "PENDING"
<1>1. Now \in Nat BY NowType
<1>2. Due[c] \in Int /\ Fee[c] \in Int BY DuesAssumption
<1> QED BY <1>1, <1>2 DEF FirstRow, CaseRow

\* Documents stay documents.
LEMMA NewDocs ==
  ASSUME NEW A, StepFrom(A)
  PROVE  doc' \in [Docs -> Document]
<1>1. doc \in [Docs -> Document] /\ doc' = [x \in Docs |-> doc'[x]] /\ \A x \in Docs : DocStep(A, x)
  BY DEF StepFrom, Known, TypeOK, TableStep
<1>2. ASSUME NEW x \in Docs PROVE doc'[x] \in Document
  <2>1. CASE doc'[x] = doc[x] BY <1>1, <2>1
  <2>2. CASE DocRecorded(x, doc'[x]) BY <2>2 DEF DocRecorded
  <2>3. CASE DocUndone(A, x, doc'[x])
    <3>1. doc[x] \in Document /\ doc'[x] = [doc[x] EXCEPT !.status = "REVERSED"]
      BY <1>1, <2>3 DEF DocUndone
    <3> QED BY <3>1 DEF Document
  <2> QED BY <1>1, <2>1, <2>2, <2>3 DEF DocStep
<1> QED BY <1>1, <1>2

\* What was added up stays a number.
LEMMA GainType ==
  ASSUME NEW A, StepFrom(A), NEW F \in [Document -> Nat]
  PROVE  /\ Tally(F, doc) \in Nat /\ Tally(F, doc') \in Nat /\ Gain(F) \in Int
         /\ Tally(F, doc') = Tally(F, doc) + Gain(F)
<1>1. doc \in [Docs -> Document] BY DEF StepFrom, Known, TypeOK
<1>2. doc' \in [Docs -> Document] BY NewDocs
<1>3. Tally(F, doc) \in Nat BY <1>1, TallyNat
<1>4. Tally(F, doc') \in Nat BY <1>2, TallyNat
<1> QED BY <1>3, <1>4 DEF Gain

\* Rows stay rows.
LEMMA NewCases ==
  ASSUME NEW A, StepFrom(A)
  PROVE  case' \in [Cases -> CaseRow]
<1>1. TypeOK /\ case' = [c \in Cases |-> case'[c]] /\ \A c \in Cases : CaseStep(A, c)
  BY DEF StepFrom, Known, TableStep
<1>2. ASSUME NEW c \in Cases PROVE case'[c] \in CaseRow
  <2> DEFINE p == Gain(Principal(c))
             k == Gain(CommissionPaid(c))
             f == Gain(FeeAdded(c))
  <2>1. p \in Int /\ k \in Int /\ f \in Int
    <3>1. Principal(c) \in [Document -> Nat] /\ CommissionPaid(c) \in [Document -> Nat]
          /\ FeeAdded(c) \in [Document -> Nat]
      BY DEF Document, Principal, CommissionPaid, FeeAdded
    <3> QED BY <3>1, GainType
  <2>2. case[c] \in CaseRow BY <1>1 DEF TypeOK
  <2>3. \/ case'[c] = case[c] \/ CaseMoved(A, c, p, k, f) \/ CaseVoided(A, c)
        \/ k = 0 /\ f = 0 /\ CaseOpened(c, p)
    BY <1>1 DEF CaseStep
  <2> HIDE DEF p, k, f
  <2>4. CASE CaseMoved(A, c, p, k, f) BY <2>1, <2>2, <2>4, MovedType DEF CaseMoved
  <2>5. CASE CaseVoided(A, c) BY <2>2, <2>5 DEF CaseVoided, CaseRow
  <2>6. CASE CaseOpened(c, p)
    <3>1. FirstRow(c) \in CaseRow BY <1>1, FirstRowType
    <3>2. case'[c] = Moved(FirstRow(c), p, 0, 0) BY <2>6 DEF CaseOpened
    <3> QED BY <2>1, <3>1, <3>2, MovedType
  <2> QED BY <2>2, <2>3, <2>4, <2>5, <2>6
<1> QED BY <1>1, <1>2

\* Nothing that stands has settled anything of a case that is not in use.
LEMMA NotInUse ==
  ASSUME TypeOK, NEW c \in Cases, ~InUse(c)
  PROVE  Tally(Principal(c), doc) = 0 /\ Tally(CommissionPaid(c), doc) = 0
         /\ Tally(FeeAdded(c), doc) = 0
<1>1. doc \in [Docs -> Document] BY DEF TypeOK
<1>2. Principal(c) \in [Document -> Int] /\ CommissionPaid(c) \in [Document -> Int]
      /\ FeeAdded(c) \in [Document -> Int]
  BY DEF Document, Principal, CommissionPaid, FeeAdded
<1>3. ASSUME NEW x \in Docs
      PROVE  Principal(c)[doc[x]] = 0 /\ CommissionPaid(c)[doc[x]] = 0 /\ FeeAdded(c)[doc[x]] = 0
  <2>1. doc[x] \in Document BY <1>1
  <2>2. doc[x].principal[c] \in Nat /\ doc[x].commission[c] \in Nat BY <2>1 DEF Document
  <2>3. CASE Standing(doc[x])
    <3>1. ~Touches(x, c) BY <2>3 DEF InUse, Counts, Standing
    <3>2. doc[x].case # c /\ doc[x].principal[c] = 0 /\ doc[x].commission[c] = 0
      BY <2>2, <3>1 DEF Touches, Settled
    <3> QED BY <2>1, <3>2 DEF Principal, CommissionPaid, FeeAdded
  <2>4. CASE ~Standing(doc[x]) BY <2>1, <2>4 DEF Principal, CommissionPaid, FeeAdded
  <2> QED BY <2>3, <2>4
<1> QED BY <1>1, <1>2, <1>3, TallyNone

\* What happens to the status and the date of a case.
LEMMA CaseKept ==
  ASSUME NEW A, StepFrom(A), NEW c \in Cases
  PROVE  /\ case[c].status # "ABSENT" => case'[c].status # "ABSENT" /\ case'[c].born = case[c].born
         /\ c \in Live => c \in Live' \/ CaseVoided(A, c)
         /\ case[c].status = "REVERSED" => case'[c] = case[c]
<1> DEFINE p == Gain(Principal(c))
           k == Gain(CommissionPaid(c))
           f == Gain(FeeAdded(c))
<1>1. p \in Int /\ k \in Int /\ f \in Int
  <2>1. Principal(c) \in [Document -> Nat] /\ CommissionPaid(c) \in [Document -> Nat]
        /\ FeeAdded(c) \in [Document -> Nat]
    BY DEF Document, Principal, CommissionPaid, FeeAdded
  <2> QED BY <2>1, GainType
<1>2. case[c] \in CaseRow /\ CaseStep(A, c) BY DEF StepFrom, Known, TypeOK, TableStep
<1>3. \/ case'[c] = case[c] \/ CaseMoved(A, c, p, k, f) \/ CaseVoided(A, c) \/ CaseOpened(c, p)
  BY <1>2 DEF CaseStep
<1> HIDE DEF p, k, f
<1>4. CASE case'[c] = case[c] BY <1>4 DEF Live
<1>5. CASE CaseMoved(A, c, p, k, f)
  <2>1. c \in Live /\ case'[c] = Moved(case[c], p, k, f) BY <1>5 DEF CaseMoved
  <2>2. case'[c].status \notin {"ABSENT", "REVERSED"} /\ case'[c].born = case[c].born
    BY <1>1, <1>2, <2>1, MovedType
  <2> QED BY <2>1, <2>2 DEF Live
<1>6. CASE CaseVoided(A, c)
  <2>1. c \in Live /\ case'[c].status = "REVERSED" /\ case'[c].born = case[c].born
    BY <1>2, <1>6 DEF CaseVoided, CaseRow
  <2> QED BY <1>6, <2>1 DEF Live
<1>7. CASE CaseOpened(c, p)
  <2>1. case[c].status = "ABSENT" BY <1>7 DEF CaseOpened, NoCase
  <2> QED BY <2>1 DEF Live
<1> QED BY <1>3, <1>4, <1>5, <1>6, <1>7

\* A case that is opened goes on from a row of the moment.
LEMMA CaseOpens ==
  ASSUME NEW A, StepFrom(A), NEW c \in Cases, case[c].status = "ABSENT", case'[c].status # "ABSENT"
  PROVE  CaseOpened(c, Gain(Principal(c))) /\ case'[c].born = Now /\ c \in Live'
<1> DEFINE p == Gain(Principal(c))
<1> SUFFICES CaseOpened(c, p) /\ case'[c].born = Now /\ c \in Live' OBVIOUS
<1>1. case[c] \in CaseRow /\ CaseStep(A, c) /\ TypeOK BY DEF StepFrom, Known, TypeOK, TableStep
<1>2. CaseOpened(c, p) BY <1>1 DEF CaseStep, CaseMoved, CaseVoided, Live
<1>3. p \in Int /\ case'[c] = Moved(FirstRow(c), p, 0, 0)
  <2>1. Due[c] \in Nat BY DuesAssumption
  <2> QED BY <1>2, <2>1 DEF CaseOpened
<1> HIDE DEF p
<1>4. FirstRow(c) \in CaseRow /\ FirstRow(c).born = Now BY <1>1, FirstRowType
<1>5. case'[c].status \notin {"ABSENT", "REVERSED"} /\ case'[c].born = FirstRow(c).born
  BY <1>3, <1>4, MovedType
<1> QED BY <1>2, <1>4, <1>5 DEF Live

\* Cases agree with the documents after the step.
LEMMA CasesBacked ==
  ASSUME NEW A, StepFrom(A), NEW c \in Cases
  PROVE  CaseOK(c)' /\ CaseBacked(c)'
<1> DEFINE P == Principal(c)
           K == CommissionPaid(c)
           F == FeeAdded(c)
           p == Gain(P)
           k == Gain(K)
           f == Gain(F)
<1>1. P \in [Document -> Nat] /\ K \in [Document -> Nat] /\ F \in [Document -> Nat]
  BY DEF Document, Principal, CommissionPaid, FeeAdded
<1>2. /\ case[c] \in CaseRow /\ CaseStep(A, c) /\ TypeOK /\ CaseOK(c) /\ CaseBacked(c)
      /\ \A x \in Docs : DocumentFits(x)
  BY DEF StepFrom, Known, TypeOK, TableStep, Books
<1>3. /\ Tally(P, doc) \in Nat /\ Tally(P, doc') = Tally(P, doc) + p /\ p \in Int
      /\ Tally(K, doc) \in Nat /\ Tally(K, doc') = Tally(K, doc) + k /\ k \in Int
      /\ Tally(F, doc) \in Nat /\ Tally(F, doc') = Tally(F, doc) + f /\ f \in Int
  <2> HIDE DEF P, K, F
  <2> QED BY <1>1, GainType
<1>4. Due[c] \in Nat /\ Fee[c] \in Nat BY DuesAssumption
<1>5. \/ p = 0 /\ k = 0 /\ f = 0 /\ case'[c] = case[c]
      \/ CaseMoved(A, c, p, k, f)
      \/ p = 0 /\ k = 0 /\ f = 0 /\ CaseVoided(A, c)
      \/ k = 0 /\ f = 0 /\ CaseOpened(c, p)
  BY <1>2 DEF CaseStep
<1>6. c \in Live => /\ case[c].recovered = Tally(P, doc) /\ case[c].collected = Tally(K, doc)
                    /\ case[c].fee = Fee[c] + Tally(F, doc)
  BY <1>2 DEF CaseBacked
<1>7. CaseBacked(c)' <=> (c \in Live' => /\ case'[c].recovered = Tally(P, doc')
                                         /\ case'[c].collected = Tally(K, doc')
                                         /\ case'[c].fee = Fee[c] + Tally(F, doc'))
  BY DEF CaseBacked
<1>8. ~InUse(c) => Tally(P, doc) = 0 /\ Tally(K, doc) = 0 /\ Tally(F, doc) = 0
  BY <1>2, NotInUse
<1> HIDE DEF P, K, F, p, k, f
<1>9. CASE p = 0 /\ k = 0 /\ f = 0 /\ case'[c] = case[c]
  <2>1. c \in Live' <=> c \in Live BY <1>9 DEF Live
  <2>2. CaseOK(c)' BY <1>2, <1>9, <2>1 DEF CaseOK
  <2>3. Tally(P, doc') = Tally(P, doc) /\ Tally(K, doc') = Tally(K, doc) /\ Tally(F, doc') = Tally(F, doc)
    BY <1>3, <1>9
  <2> QED BY <1>6, <1>7, <1>9, <2>1, <2>2, <2>3
<1>10. CASE CaseMoved(A, c, p, k, f)
  <2> DEFINE row == case[c]
  <2>1. /\ c \in Live /\ case'[c] = Moved(row, p, k, f)
        /\ 0 <= row.recovered + p /\ p <= row.left /\ 0 <= row.collected + k /\ k <= row.unpaid + f
    BY <1>10 DEF CaseMoved
  <2>2. /\ row.recovered \in 0..Due[c] /\ row.left = Due[c] - row.recovered
        /\ row.collected >= 0 /\ row.unpaid >= 0 /\ row.unpaid = row.fee - row.collected
    BY <1>2, <2>1 DEF CaseOK
  <2>3. row.collected \in Int /\ row.unpaid \in Int /\ row.fee \in Int BY <1>2 DEF CaseRow
  <2>4. case'[c].status \notin {"ABSENT", "REVERSED"} BY <1>2, <1>3, <2>1, MovedType
  <2>5. /\ case'[c].recovered = row.recovered + p /\ case'[c].left = row.left - p
        /\ case'[c].collected = row.collected + k /\ case'[c].fee = row.fee + f
        /\ case'[c].unpaid = row.unpaid + f - k
        /\ case'[c].status = MasterStatus(row.recovered + p, row.left - p)
    BY <2>1 DEF Moved
  <2> HIDE DEF row
  <2>6. /\ case'[c].recovered \in 0..Due[c] /\ case'[c].left = Due[c] - case'[c].recovered
        /\ case'[c].collected >= 0 /\ case'[c].unpaid >= 0
        /\ case'[c].unpaid = case'[c].fee - case'[c].collected
        /\ case'[c].status = MasterStatus(case'[c].recovered, case'[c].left)
    BY <1>3, <1>4, <2>1, <2>2, <2>3, <2>5
  <2>7. CaseOK(c)' BY <2>4, <2>6 DEF CaseOK
  <2>8. row.recovered = Tally(P, doc) /\ row.collected = Tally(K, doc) /\ row.fee = Fee[c] + Tally(F, doc)
    BY <1>6, <2>1 DEF row
  <2>9. /\ case'[c].recovered = Tally(P, doc') /\ case'[c].collected = Tally(K, doc')
        /\ case'[c].fee = Fee[c] + Tally(F, doc')
    BY <1>3, <1>4, <2>5, <2>8
  <2> QED BY <1>7, <2>7, <2>9
<1>11. CASE p = 0 /\ k = 0 /\ f = 0 /\ CaseVoided(A, c)
  <2>1. c \in Live /\ ~InUse(c) /\ case'[c] = [case[c] EXCEPT !.status = "REVERSED"]
    BY <1>11 DEF CaseVoided
  <2>2. case[c].recovered = 0 /\ case[c].collected = 0 BY <1>6, <1>8, <2>1
  <2>3. case'[c].status = "REVERSED" /\ case'[c].recovered = 0 /\ case'[c].collected = 0
    BY <1>2, <2>1, <2>2 DEF CaseRow
  <2>4. c \notin Live' BY <2>3 DEF Live
  <2> QED BY <1>7, <2>3, <2>4 DEF CaseOK
<1>12. CASE k = 0 /\ f = 0 /\ CaseOpened(c, p)
  <2>1. case[c] = NoCase /\ p \in 0..Due[c] /\ case'[c] = Moved(FirstRow(c), p, 0, 0)
    BY <1>12 DEF CaseOpened
  <2>2. ~InUse(c)
    <3>1. case[c].status = "ABSENT" BY <2>1 DEF NoCase
    <3> QED BY <1>2, <3>1 DEF InUse, DocumentFits
  <2>3. Tally(P, doc') = p /\ Tally(K, doc') = 0 /\ Tally(F, doc') = 0
    BY <1>3, <1>8, <1>12, <2>2
  <2>4. /\ FirstRow(c).recovered = 0 /\ FirstRow(c).left = Due[c] /\ FirstRow(c).collected = 0
        /\ FirstRow(c).fee = Fee[c] /\ FirstRow(c).unpaid = Fee[c] /\ FirstRow(c) \in CaseRow
    BY <1>2, FirstRowType
  <2>5. case'[c].status \notin {"ABSENT", "REVERSED"} BY <1>3, <2>1, <2>4, MovedType
  <2>6. /\ case'[c].recovered = p /\ case'[c].left = Due[c] - p /\ case'[c].collected = 0
        /\ case'[c].fee = Fee[c] /\ case'[c].unpaid = Fee[c] /\ case'[c].status = MasterStatus(p, Due[c] - p)
    BY <1>3, <1>4, <2>1, <2>4 DEF Moved
  <2>7. CaseOK(c)' BY <1>4, <2>1, <2>5, <2>6 DEF CaseOK
  <2> QED BY <1>4, <1>7, <2>3, <2>6, <2>7
<1> QED BY <1>5, <1>9, <1>10, <1>11, <1>12

\* Receivables agree with the documents after the step.
LEMMA DebtsBacked ==
  ASSUME NEW A, StepFrom(A), NEW b \in Debts
  PROVE  /\ DebtOK(b)' /\ DebtBacked(b)'
         /\ debt[b].source # "ABSENT" => debt'[b].source # "ABSENT"
<1> DEFINE F == Collected(b)
           n == Gain(F)
<1>1. F \in [Document -> Nat] BY DEF Document, Collected
<1>2. /\ debt[b] \in DebtRow /\ debt'[b] \in DebtRow /\ DebtStep(A, b) /\ DebtOK(b) /\ DebtBacked(b)
  BY DEF StepFrom, Known, TypeOK, TableStep, Books
<1>3. Tally(F, doc) \in Nat /\ Tally(F, doc') = Tally(F, doc) + n /\ n \in Int
  <2> HIDE DEF F
  <2> QED BY <1>1, GainType
<1>4. Owing[b] \in Nat BY DuesAssumption
<1>5. \/ n = 0 /\ (DebtListed(b) \/ DebtOpened(b) \/ DebtVoided(A, b))
      \/ DebtMoved(A, b, n)
  <2>1. DebtStep(A, b) BY <1>2
  <2> QED BY <2>1 DEF DebtStep
<1>6. debt[b].received = Tally(F, doc) BY <1>2 DEF DebtBacked
<1>7. DebtBacked(b)' <=> debt'[b].received = Tally(F, doc') BY DEF DebtBacked
<1> HIDE DEF F, n
<1>8. CASE n = 0 /\ DebtListed(b)
  <2>1. /\ debt'[b].received = debt[b].received /\ debt'[b].remaining = debt[b].remaining
        /\ debt'[b].source = debt[b].source
        /\ debt'[b].status # debt[b].status =>
             debt[b].remaining > 0 /\ {debt[b].status, debt'[b].status} \cap Closed = {}
    BY <1>8 DEF DebtListed
  <2>2. debt'[b].received = Tally(F, doc') BY <1>3, <1>6, <1>8, <2>1
  <2>3. debt[b].source = "ABSENT" => debt'[b] = NoDebt
    <3>1. CASE debt[b].source = "ABSENT"
      <4>1. debt[b] = NoDebt BY <1>2, <3>1 DEF DebtOK
      <4>2. debt'[b].status = debt[b].status BY <2>1, <4>1 DEF NoDebt
      <4>3. debt'[b] = debt[b] BY <1>2, <2>1, <4>2 DEF DebtRow
      <4> QED BY <4>1, <4>3
    <3> QED BY <3>1
  <2>4. DebtOK(b)'
    <3>1. debt'[b].source = "COMPLETED" =>
            debt'[b].received \in 0..Owing[b] /\ debt'[b].remaining = Owing[b] - debt'[b].received
      BY <1>2, <2>1 DEF DebtOK
    <3>2. debt'[b].source = "REVERSED" => debt'[b].received = 0 /\ debt'[b].remaining = 0
      BY <1>2, <2>1 DEF DebtOK
    <3>3. debt'[b].source = "REVERSED" <=> debt'[b].status \in Closed
      <4>1. debt[b].source = "REVERSED" <=> debt[b].status \in Closed BY <1>2 DEF DebtOK, Closed
      <4>2. debt'[b].status \in Closed <=> debt[b].status \in Closed BY <2>1
      <4> QED BY <2>1, <4>1, <4>2
    <3>4. debt'[b].source = "ABSENT" => debt'[b] = NoDebt BY <2>1, <2>3
    <3> QED BY <3>1, <3>2, <3>3, <3>4 DEF DebtOK, Closed
  <2> QED BY <1>7, <2>1, <2>2, <2>4
<1>9. CASE n = 0 /\ DebtOpened(b)
  <2>1. /\ debt[b] = NoDebt /\ debt'[b].received = 0 /\ debt'[b].remaining = Owing[b]
        /\ debt'[b].source = "COMPLETED" /\ debt'[b].status \notin Closed
    BY <1>9 DEF DebtOpened
  <2>2. Tally(F, doc') = 0 BY <1>3, <1>6, <1>9, <2>1 DEF NoDebt
  <2>3. DebtOK(b)' BY <1>4, <2>1 DEF DebtOK, Closed
  <2> QED BY <1>7, <2>1, <2>2, <2>3
<1>10. CASE n = 0 /\ DebtVoided(A, b)
  <2>1. /\ debt[b].received = 0 /\ debt'[b].received = 0 /\ debt'[b].remaining = 0
        /\ debt'[b].source = "REVERSED" /\ debt'[b].status \in Closed
    BY <1>10 DEF DebtVoided
  <2>2. Tally(F, doc') = 0 BY <1>3, <1>6, <1>10, <2>1
  <2>3. DebtOK(b)' BY <2>1 DEF DebtOK, Closed
  <2> QED BY <1>7, <2>1, <2>2, <2>3
<1>11. CASE DebtMoved(A, b, n)
  <2>1. /\ debt[b].source = "COMPLETED" /\ debt'[b].received = debt[b].received + n
        /\ debt'[b].remaining = debt[b].remaining - n /\ debt'[b].source = debt[b].source
        /\ debt'[b].status \notin Closed /\ 0 <= debt[b].received + n /\ n <= debt[b].remaining
    BY <1>11 DEF DebtMoved
  <2>2. debt[b].received \in 0..Owing[b] /\ debt[b].remaining = Owing[b] - debt[b].received
    BY <1>2, <2>1 DEF DebtOK
  <2>3. debt'[b].received \in 0..Owing[b] /\ debt'[b].remaining = Owing[b] - debt'[b].received
    BY <1>3, <1>4, <2>1, <2>2
  <2>4. debt'[b].received = Tally(F, doc') BY <1>3, <1>6, <2>1
  <2>5. DebtOK(b)' BY <2>1, <2>3 DEF DebtOK, Closed
  <2> QED BY <1>7, <2>1, <2>4, <2>5
<1> QED BY <1>5, <1>8, <1>9, <1>10, <1>11

\* The books after the step.
LEMMA BooksKept ==
  ASSUME NEW A, StepFrom(A)
  PROVE  Books'
<1>1. \A c \in Cases : CaseOK(c)' /\ CaseBacked(c)' BY CasesBacked
<1>2. \A b \in Debts : DebtOK(b)' /\ DebtBacked(b)' BY DebtsBacked
<1>3. ledger'["MONEY"] >= 0 BY DEF StepFrom, TableStep, MoneyStep
<1> QED BY <1>1, <1>2, <1>3 DEF Books

\* Dates stay apart.
LEMMA DatedKept ==
  ASSUME NEW A, StepFrom(A)
  PROVE  Dated' /\ Now' \in Nat /\ Now' >= Now
<1> DEFINE D == {x \in Docs : doc[x].kind # "none"}
           C == {c \in Cases : case[c].status # "ABSENT"}
           D1 == {x \in Docs : doc'[x].kind # "none"}
           C1 == {c \in Cases : case'[c].status # "ABSENT"}
<1>1. TypeOK /\ Dated /\ \A x \in Docs : DocStep(A, x) BY DEF StepFrom, Known, TableStep
<1>2. C \subseteq C1 BY CaseKept
<1>3. D \subseteq D1
  <2>1. ASSUME NEW x \in Docs, doc[x].kind # "none" PROVE doc'[x].kind # "none"
    <3>1. ~DocRecorded(x, doc'[x]) BY <2>1 DEF DocRecorded, NoDocument
    <3>2. doc[x] \in Document BY <1>1 DEF TypeOK
    <3>3. DocUndone(A, x, doc'[x]) => doc'[x].kind = doc[x].kind BY <3>2 DEF DocUndone, Document
    <3> QED BY <1>1, <2>1, <3>1, <3>3 DEF DocStep
  <2> QED BY <2>1
<1>4. IsFiniteSet(D) /\ IsFiniteSet(C) BY <1>1, NowType
<1>5. IsFiniteSet(D1) /\ IsFiniteSet(C1)
  <2>1. D1 \in SUBSET Docs /\ C1 \in SUBSET Cases OBVIOUS
  <2>2. IsFiniteSet(D1) BY <2>1, DocsFinite, FS_Subset
  <2>3. IsFiniteSet(C1) BY <2>1, DuesAssumption, FS_Subset
  <2> QED BY <2>2, <2>3
<1>6. Now = 1 + Cardinality(D) + Cardinality(C) BY DEF Now
<1>7. Now' = 1 + Cardinality(D1) + Cardinality(C1) BY DEF Now
<1>8. C1 # C => \E c \in Cases : c \in C1 /\ c \notin C BY <1>2
<1> HIDE DEF D, C, D1, C1
<1>9. /\ Cardinality(D) \in Nat /\ Cardinality(D1) \in Nat /\ Cardinality(D) <= Cardinality(D1)
      /\ Cardinality(C) \in Nat /\ Cardinality(C1) \in Nat /\ Cardinality(C) <= Cardinality(C1)
      /\ (C # C1 => Cardinality(C) # Cardinality(C1))
  <2>1. D \in SUBSET D1 /\ C \in SUBSET C1 BY <1>2, <1>3
  <2>2. Cardinality(D) <= Cardinality(D1) BY <1>5, <2>1, FS_Subset
  <2>3. Cardinality(C) <= Cardinality(C1) /\ (Cardinality(C1) = Cardinality(C) => C1 = C)
    BY <1>5, <2>1, FS_Subset
  <2> QED BY <1>4, <1>5, <2>2, <2>3, FS_CardinalityType
<1>10. Now' \in Nat /\ Now \in Nat /\ Now' >= Now /\ (C # C1 => Now' > Now) BY <1>6, <1>7, <1>9
<1> USE DEF C, C1
<1>11. \A c \in C : case'[c].born = case[c].born /\ case[c].born < Now /\ case[c].born \in Nat
  <2>1. ASSUME NEW c \in C PROVE case'[c].born = case[c].born BY <2>1, CaseKept
  <2>2. ASSUME NEW c \in C PROVE case[c].born < Now BY <1>1, <2>2 DEF Dated
  <2>3. ASSUME NEW c \in C PROVE case[c].born \in Nat
    <3>1. case[c] \in CaseRow BY <1>1 DEF TypeOK
    <3> QED BY <3>1 DEF CaseRow
  <2> QED BY <2>1, <2>2, <2>3
<1>12. \A c \in C1 \ C : case'[c].born = Now BY CaseOpens
<1>13. ASSUME NEW c \in C1 \ C, NEW d \in C1 \ C PROVE c = d
  <2>1. CaseOpened(c, Gain(Principal(c))) BY <1>13, CaseOpens
  <2>2. case'[d] = case[d] \/ d = c BY <2>1 DEF CaseOpened
  <2> QED BY <2>2
<1>14. \A c \in C1 : case'[c].born < Now'
  <2>1. ASSUME NEW c \in C1 PROVE case'[c].born < Now'
    <3>1. CASE c \in C
      <4>1. case'[c].born < Now /\ case'[c].born \in Nat BY <1>11, <3>1
      <4> QED BY <1>10, <4>1
    <3>2. CASE c \notin C
      <4>1. C # C1 BY <3>2
      <4>2. case'[c].born = Now BY <1>12, <3>2
      <4> HIDE DEF C, C1
      <4> QED BY <1>10, <4>1, <4>2
    <3> QED BY <3>1, <3>2
  <2> QED BY <2>1
<1>15. \A c, d \in C : c # d => case[c].born # case[d].born BY <1>1 DEF Dated
<1>16. ASSUME NEW c \in C1, NEW d \in C1, c # d PROVE case'[c].born # case'[d].born
  <2>1. CASE c \in C /\ d \in C BY <1>11, <1>15, <1>16, <2>1
  <2>2. CASE c \in C /\ d \notin C
    <3>1. case'[c].born < Now /\ case'[c].born \in Nat /\ case'[d].born = Now BY <1>11, <1>12, <2>2
    <3> QED BY <1>10, <3>1
  <2>3. CASE c \notin C /\ d \in C
    <3>1. case'[d].born < Now /\ case'[d].born \in Nat /\ case'[c].born = Now BY <1>11, <1>12, <2>3
    <3> QED BY <1>10, <3>1
  <2>4. CASE c \notin C /\ d \notin C BY <1>13, <1>16, <2>4
  <2> QED BY <2>1, <2>2, <2>3, <2>4
<1>17. Dated'
  <2>1. \A c \in Cases : case'[c].status # "ABSENT" => case'[c].born < Now' BY <1>14
  <2>2. \A c, d \in Cases : case'[c].status # "ABSENT" /\ case'[d].status # "ABSENT" /\ c # d =>
          case'[c].born # case'[d].born
    BY <1>16
  <2> QED BY <2>1, <2>2 DEF Dated
<1> QED BY <1>10, <1>17

\* Documents keep referring to what is there.
LEMMA DocumentsFit ==
  ASSUME NEW A, StepFrom(A), NEW x \in Docs
  PROVE  DocumentFits(x)'
<1>1. /\ doc \in [Docs -> Document] /\ DocStep(A, x) /\ DocumentFits(x)
  BY DEF StepFrom, Known, TypeOK, TableStep
<1>2. doc[x] \in Document /\ doc'[x] \in Document BY <1>1, NewDocs
<1>3. /\ \A c \in Cases : case[c].status # "ABSENT" => case'[c].status # "ABSENT"
      /\ \A c \in Cases : c \in Live => c \in Live' \/ CaseVoided(A, c)
  BY CaseKept
<1>4. \A b \in Debts : debt[b].source # "ABSENT" => debt'[b].source # "ABSENT" BY DebtsBacked
<1>5. /\ \A c \in Cases : Touches(x, c)' <=> doc'[x].case = c \/ c \in Settled(doc'[x])
      /\ \A c \in Cases : Touches(x, c) <=> doc[x].case = c \/ c \in Settled(doc[x])
      /\ Counts(x)' <=> Standing(doc'[x])
      /\ Counts(x) <=> Standing(doc[x])
  BY DEF Touches, Counts, Standing
<1>6. /\ DocumentOK(doc[x]) /\ (doc[x].kind = "none" => doc[x] = NoDocument)
      /\ \A c \in Cases : Touches(x, c) => case[c].status # "ABSENT" /\ (Counts(x) => c \in Live)
      /\ doc[x].debt \in Debts => debt[doc[x].debt].source # "ABSENT"
  BY <1>1 DEF DocumentFits
<1>7. CASE doc'[x] = doc[x]
  <2>1. ASSUME NEW c \in Cases, Touches(x, c)'
        PROVE  case'[c].status # "ABSENT" /\ (Counts(x)' => c \in Live')
    <3>1. Touches(x, c) BY <1>5, <1>7, <2>1
    <3>2. case'[c].status # "ABSENT" BY <1>3, <1>6, <3>1
    <3>3. CASE Counts(x)'
      <4>1. Counts(x) BY <1>5, <1>7, <3>3
      <4>2. InUse(c) BY <3>1, <4>1 DEF InUse
      <4>3. c \in Live /\ ~CaseVoided(A, c) BY <1>6, <3>1, <4>1, <4>2 DEF CaseVoided
      <4> QED BY <1>3, <3>2, <4>3
    <3> QED BY <3>2, <3>3
  <2>2. doc'[x].debt \in Debts => debt'[doc'[x].debt].source # "ABSENT" BY <1>4, <1>6, <1>7
  <2>3. DocumentOK(doc'[x]) /\ (doc'[x].kind = "none" => doc'[x] = NoDocument) BY <1>6, <1>7
  <2> QED BY <2>1, <2>2, <2>3 DEF DocumentFits
<1>8. CASE DocRecorded(x, doc'[x])
  <2> DEFINE d == doc'[x]
  <2>1. /\ Standing(d) /\ DocumentOK(d) /\ (d.debt \in Debts => debt[d.debt].source # "ABSENT")
        /\ \A c \in Cases : d.case = c \/ c \in Settled(d) => c \in Live'
    BY <1>8 DEF DocRecorded
  <2>2. d.kind # "none" BY <2>1 DEF Standing
  <2>3. \A c \in Cases : c \in Live' => case'[c].status # "ABSENT" BY DEF Live
  <2>4. d.debt \in Debts => debt'[d.debt].source # "ABSENT" BY <1>4, <2>1
  <2>5. \A c \in Cases : Touches(x, c)' => case'[c].status # "ABSENT" /\ c \in Live'
    BY <1>5, <2>1, <2>3
  <2> QED BY <2>1, <2>2, <2>4, <2>5 DEF DocumentFits
<1>9. CASE DocUndone(A, x, doc'[x])
  <2> DEFINE d == doc[x]
             e == doc'[x]
  <2>1. Standing(d) /\ e = [d EXCEPT !.status = "REVERSED"] BY <1>9 DEF DocUndone
  <2>2. /\ e.kind = d.kind /\ e.case = d.case /\ e.debt = d.debt /\ e.amount = d.amount
        /\ e.charge = d.charge /\ e.principal = d.principal /\ e.commission = d.commission
        /\ e.generic = d.generic
        /\ e.extra = d.extra /\ e.credit = d.credit /\ e.status = "REVERSED"
    BY <1>2, <2>1 DEF Document
  <2> HIDE DEF d, e
  <2>3. ~Standing(e) /\ e.kind # "none" BY <2>1, <2>2 DEF Standing
  <2>4. DocumentOK(e)
    <3>1. DocumentOK(d) BY <1>6 DEF d
    <3>2. /\ e.kind = d.kind /\ e.amount = d.amount /\ e.charge = d.charge /\ e.generic = d.generic
          /\ e.credit = d.credit /\ e.principal = d.principal /\ e.commission = d.commission
      BY <2>2
    <3>3. AddsUp(e) BY <3>1, <3>2 DEF DocumentOK, AddsUp
    <3> QED BY <2>2, <3>1, <3>3 DEF DocumentOK
  <2>5. Settled(e) = Settled(d) BY <2>2 DEF Settled
  <2>6. \A c \in Cases : Touches(x, c)' => case'[c].status # "ABSENT"
    <3>1. \A c \in Cases : Touches(x, c)' <=> Touches(x, c) BY <1>5, <2>2, <2>5 DEF d, e
    <3> QED BY <1>3, <1>6, <3>1
  <2>7. ~Counts(x)' BY <1>5, <2>3 DEF e
  <2>8. e.debt \in Debts => debt'[e.debt].source # "ABSENT" BY <1>4, <1>6, <2>2 DEF d
  <2>9. /\ DocumentOK(doc'[x]) /\ doc'[x].kind # "none"
        /\ doc'[x].debt \in Debts => debt'[doc'[x].debt].source # "ABSENT"
    BY <2>3, <2>4, <2>8 DEF e
  <2> QED BY <2>6, <2>7, <2>9 DEF DocumentFits
<1> QED BY <1>1, <1>7, <1>8, <1>9 DEF DocStep

---------------------------------------------------------------------------
(* What the others have read still stands.                                 *)

\* The cases of a receipt have been recorded one after the other.
LEMMA SettledApart ==
  ASSUME Known, NEW x \in Docs
  PROVE  /\ \A c \in Settled(doc[x]) : case[c].status # "ABSENT"
         /\ BornApart(Settled(doc[x]))
<1>1. DocumentFits(x) /\ Dated /\ case \in [Cases -> CaseRow] BY DEF Known, TypeOK
<1>2. \A c \in Settled(doc[x]) : c \in Cases /\ case[c].status # "ABSENT"
  BY <1>1 DEF DocumentFits, Touches, Settled
<1>3. \A c \in Cases : case[c].born \in Int BY <1>1 DEF CaseRow
<1> QED BY <1>1, <1>2, <1>3 DEF Dated, BornApart

\* The plan of a running call.
LEMMA RunningPlan ==
  ASSUME Known, NEW s \in Requests, Running(s)
  PROVE  /\ op[s] \in Operation /\ view[s] \in View /\ stage[s] \in Nat \ {0}
         /\ CallOK(op[s]) /\ CallFits(op[s]) /\ stage[s] \in 1..(Len(PlanOf(s)) + 1)
         /\ ReadStands(op[s], view[s], PlanOf(s), stage[s])
         /\ op[s].kind \in Undo => op[s].target \in Docs
         /\ op[s].kind \in Undo => view[s].doc \in {NoDocument, doc[op[s].target]}
         /\ op[s].kind \in Undo => \A c \in Settled(view[s].doc) : case[c].status # "ABSENT"
         /\ op[s].kind \in Undo => BornApart(Settled(view[s].doc))
         /\ PlanOK(op[s], view[s], PlanOf(s))
<1> DEFINE o == op[s]
           v == view[s]
<1>1. /\ op[s] \in Operation /\ view[s] \in View /\ stage[s] \in Nat \cup {-1} /\ SessionOK(s)
      /\ ReadStands(op[s], view[s], PlanOf(s), stage[s])
  BY DEF Known, TypeOK, ReadsStand
<1>2. stage[s] \in Nat \ {0} BY <1>1 DEF Running
<1>3. CallOK(op[s]) /\ CallFits(op[s]) /\ stage[s] \in 1..(Len(PlanOf(s)) + 1) BY <1>1 DEF SessionOK
<1>4. op[s].kind \in Undo => op[s].target \in Docs BY <1>3 DEF CallOK
<1>5. op[s].kind \in Undo => view[s].doc \in {NoDocument, doc[op[s].target]}
  <2>1. CASE stage[s] = 1 BY <1>1, <2>1 DEF ReadStands, NoView
  <2>2. CASE stage[s] # 1
    <3>1. stage[s] > 1 BY <1>2, <2>2
    <3> QED BY <1>1, <3>1 DEF ReadStands
  <2> QED BY <2>1, <2>2
<1>6. Settled(NoDocument) = {} BY DEF Settled, NoDocument, Nothing
<1>7. op[s].kind \in Undo => \A c \in Settled(view[s].doc) : case[c].status # "ABSENT"
  BY <1>4, <1>5, <1>6, SettledApart
<1>8. op[s].kind \in Undo => BornApart(Settled(view[s].doc))
  <2>1. BornApart({}) BY DEF BornApart
  <2> QED BY <1>4, <1>5, <1>6, <2>1, SettledApart
<1>9. PlanOK(op[s], view[s], PlanOf(s))
  <2>1. PlanOK(o, v, Plan(o, v))
    <3>1. o \in Operation /\ v \in View /\ CallOK(o) BY <1>1, <1>3
    <3>2. o.kind = "reverseReceipt" => BornApart(Settled(v.doc)) BY <1>8 DEF Undo
    <3> HIDE DEF o, v
    <3>3. CASE o.kind = "reverseReceipt" BY <3>1, <3>2, <3>3, ReceiptPlanOK
    <3>4. CASE o.kind \in Many BY <3>1, <3>4, ManyPlanOK
    <3>5. CASE o.kind \notin Many \cup {"reverseReceipt"} BY <3>1, <3>5, ShortPlan
    <3> QED BY <3>3, <3>4, <3>5
  <2> QED BY <2>1 DEF PlanOf
<1> QED BY <1>1, <1>2, <1>3, <1>4, <1>5, <1>7, <1>8, <1>9

\* Beside a reversal that decides without the lock nobody commits.
LEMMA Alone ==
  ASSUME NEW A, StepFrom(A), RowsReversedAlone, NEW s \in InFlight \ A,
         op[s].kind \in {"reverseCase", "reverseDebt"}
  PROVE  A = {} /\ op[s].kind \notin workload.beside
<1>1. BesideOnly /\ workload \in Workloads /\ A \subseteq InFlight BY DEF StepFrom, Known, TypeOK
<1>2. op[s].kind \notin workload.beside BY <1>1 DEF RowsReversedAlone
<1>3. \A a \in A : FALSE BY <1>1, <1>2 DEF BesideOnly, InFlight
<1> QED BY <1>2, <1>3

\* What a running call refers to stays there.
LEMMA CallsFit ==
  ASSUME NEW A, StepFrom(A), NEW o, CallFits(o), CallOK(o)
  PROVE  CallFits(o)'
<1>1. o.case \in Cases => case'[o.case].status # "ABSENT" BY CaseKept DEF CallFits
<1>2. o.debt \in Debts => debt'[o.debt].source # "ABSENT" BY DebtsBacked DEF CallFits
<1>3. CASE o.kind \in Undo
  <2> DEFINE d == doc[o.target]
             e == doc'[o.target]
  <2>1. o.target \in Docs /\ d.kind \in UndoneKinds(o.kind) /\ o.case = d.case /\ o.debt = d.debt
    BY <1>3 DEF CallFits, CallOK
  <2>2. "none" \notin UndoneKinds(o.kind) BY <1>3 DEF UndoneKinds, Undo, CaseUndo
  <2>3. d.kind # "none" BY <2>1, <2>2
  <2>4. d \in Document /\ DocStep(A, o.target) BY <2>1 DEF StepFrom, Known, TypeOK, TableStep
  <2>5. e = d \/ e = [d EXCEPT !.status = "REVERSED"]
    BY <2>3, <2>4 DEF DocStep, DocRecorded, DocUndone, NoDocument
  <2>6. e.kind = d.kind /\ e.case = d.case /\ e.debt = d.debt BY <2>4, <2>5 DEF Document
  <2> HIDE DEF d, e
  <2>7. e.kind \in UndoneKinds(o.kind) /\ o.case = e.case /\ o.debt = e.debt BY <2>1, <2>6
  <2> QED BY <1>1, <1>2, <2>7 DEF CallFits, e
<1>4. CASE o.kind \notin Undo BY <1>1, <1>2, <1>4 DEF CallFits
<1> QED BY <1>3, <1>4

\* The plan of a running call does not change while the cases of its
\* receipt keep their dates.
LEMMA PlansStand ==
  ASSUME NEW A, StepFrom(A), NEW s \in InFlight, NEW o, o = op[s], NEW v, v = view[s]
  PROVE  Plan(o, v)' = Plan(o, v)
<1>1. s \in Requests /\ Running(s) /\ Known BY DEF InFlight, StepFrom
<1>2. o.kind \in Undo => \A c \in Settled(v.doc) : case[c].status # "ABSENT" BY <1>1, RunningPlan
<1>3. o.kind = "reverseReceipt" => \A c \in Settled(v.doc) : case'[c].born = case[c].born
  BY <1>2, CaseKept DEF Undo, Settled
<1>4. o.kind = "reverseReceipt" =>
        [c \in Settled(v.doc) |-> case'[c].born] = [c \in Settled(v.doc) |-> case[c].born]
  BY <1>3
<1>5. CASE o.kind = "reverseReceipt"
  <2>1. InAgeOrder(Settled(v.doc))' = InAgeOrder(Settled(v.doc)) BY <1>4, <1>5 DEF InAgeOrder
  <2>2. ReverseReceiptPlan(o, v)' = ReverseReceiptPlan(o, v) BY <2>1 DEF ReverseReceiptPlan
  <2> QED BY <1>5, <2>2 DEF Plan
<1>6. CASE o.kind # "reverseReceipt" BY <1>6 DEF Plan
<1> QED BY <1>5, <1>6

\* Nobody writes a case that somebody else has locked, or has decided to
\* reverse.
LEMMA CaseStays ==
  ASSUME NEW A, StepFrom(A), NEW s \in InFlight \ A, NEW c \in Cases, case[c].status # "ABSENT",
         holder[CaseLock(c)] = s \/ A = {}
  PROVE  case'[c] = case[c]
<1>1. CaseStep(A, c) BY DEF StepFrom, TableStep
<1>2. \A p, k, f : ~CaseMoved(A, c, p, k, f) BY DEF CaseMoved
<1>3. ~CaseVoided(A, c) BY DEF CaseVoided
<1>4. \A p : ~CaseOpened(c, p) BY DEF CaseOpened, NoCase
<1> QED BY <1>1, <1>2, <1>3, <1>4 DEF CaseStep

\* The same of a receivable.
LEMMA DebtStays ==
  ASSUME NEW A, StepFrom(A), NEW s \in InFlight \ A, NEW b \in Debts, debt[b].source # "ABSENT",
         holder[DebtLock(b)] = s \/ A = {}
  PROVE  /\ debt'[b].received = debt[b].received /\ debt'[b].remaining = debt[b].remaining
         /\ debt'[b].source = debt[b].source
         /\ holder[DebtLock(b)] = s => debt'[b].status = debt[b].status
<1>1. DebtStep(A, b) /\ s # Nobody
  BY RequestsAssumption DEF StepFrom, TableStep, InFlight
<1>2. \A n : ~DebtMoved(A, b, n) BY DEF DebtMoved
<1>3. ~DebtVoided(A, b) BY DEF DebtVoided
<1>4. ~DebtOpened(b) BY DEF DebtOpened, NoDebt
<1>5. DebtListed(b) BY <1>1, <1>2, <1>3, <1>4 DEF DebtStep
<1> QED BY <1>1, <1>5 DEF DebtListed

\* The same of a document.
LEMMA DocStays ==
  ASSUME NEW A, StepFrom(A), NEW s \in InFlight \ A, NEW x \in Docs,
         \/ doc[x].kind # "none" /\ holder[DocLock(x)] = s
         \/ A = {} /\ op[s].kind \notin workload.beside
  PROVE  doc'[x] = doc[x]
<1>1. DocStep(A, x) BY DEF StepFrom, TableStep
<1>2. ~DocUndone(A, x, doc'[x]) BY DEF DocUndone
<1>3. CASE doc[x].kind # "none"
  <2>1. ~DocRecorded(x, doc'[x]) BY <1>3 DEF DocRecorded, NoDocument
  <2> QED BY <1>1, <1>2, <2>1 DEF DocStep
<1>4. CASE op[s].kind \notin workload.beside BY <1>1, <1>2, <1>4 DEF DocStep
<1> QED BY <1>3, <1>4

\* What a running call has read still stands after a step of the others.
LEMMA OthersStand ==
  ASSUME NEW A, StepFrom(A), workload' = workload, RowsReversedAlone, NEW s \in InFlight \ A,
         NEW o, o = op[s], NEW v, v = view[s], NEW p, p = Plan(o, v), NEW n, n = stage[s]
  PROVE  ReadStands(o, v, p, n)'
<1>1. s \in Requests /\ Running(s) /\ Known /\ p = PlanOf(s) BY DEF InFlight, StepFrom, PlanOf
<1>2. /\ o \in Operation /\ v \in View /\ n \in Nat \ {0} /\ CallOK(o) /\ CallFits(o)
      /\ n \in 1..(Len(p) + 1) /\ ReadStands(o, v, p, n) /\ PlanOK(o, v, p)
      /\ o.kind \in Undo => \A c \in Settled(v.doc) : case[c].status # "ABSENT"
  BY <1>1, RunningPlan
<1>3. /\ Len(p) \in Nat /\ \A i \in 1..Len(p) : StepOK(o, v, p, i)
      /\ o.kind \in Many => "targets" \in p[1].look
      /\ o.kind \in Undo => "doc" \in p[1].look
  BY <1>2 DEF PlanOK
<1>4. \A i \in 1..Len(p) : i < n => \A row \in p[i].rows : holder[row] = s
  BY <1>1 DEF Known, LocksHeld
<1>5. o.kind \in {"reverseCase", "reverseDebt"} => A = {} /\ o.kind \notin workload.beside
  BY Alone
<1>6. ASSUME o.kind \in Undo, n > 1 PROVE v.doc = doc'[o.target]
  <2>1. v.doc = doc[o.target] BY <1>2, <1>6 DEF ReadStands
  <2>2. o.target \in Docs BY <1>2, <1>6 DEF CallOK
  <2>3. doc[o.target].kind # "none" BY <1>2, <1>6 DEF CallFits, UndoneKinds, Undo, CaseUndo
  <2>4. 1 \in 1..Len(p) /\ StepOK(o, v, p, 1) BY <1>2, <1>3, <1>6
  <2>5. DocLock(o.target) \in p[1].rows BY <1>3, <1>6, <2>4 DEF StepOK
  <2>6. holder[DocLock(o.target)] = s BY <1>4, <1>6, <2>4, <2>5
  <2>7. doc'[o.target] = doc[o.target] BY <2>2, <2>3, <2>6, DocStays
  <2> QED BY <2>1, <2>7
<1>7. ASSUME Looked(p, n, "debt")
      PROVE  /\ v.debt.received = debt'[o.debt].received /\ v.debt.remaining = debt'[o.debt].remaining
             /\ v.debt.source = debt'[o.debt].source
             /\ o.kind # "reverseDebt" => v.debt.status = debt'[o.debt].status
  <2>1. PICK i \in 1..Len(p) : i < n /\ "debt" \in p[i].look BY <1>7 DEF Looked
  <2>2. StepOK(o, v, p, i) BY <1>3
  <2>3. o.kind \in OfDebt /\ (o.kind # "reverseDebt" => DebtLock(o.debt) \in p[i].rows)
    BY <2>1, <2>2 DEF StepOK
  <2>4. o.debt \in Debts /\ debt[o.debt].source # "ABSENT" BY <1>2, <2>3 DEF CallOK, CallFits
  <2>5. o.kind # "reverseDebt" => holder[DebtLock(o.debt)] = s BY <1>4, <2>1, <2>3
  <2>6. holder[DebtLock(o.debt)] = s \/ A = {} BY <1>5, <2>5
  <2>7. /\ debt'[o.debt].received = debt[o.debt].received /\ debt'[o.debt].remaining = debt[o.debt].remaining
        /\ debt'[o.debt].source = debt[o.debt].source
        /\ holder[DebtLock(o.debt)] = s => debt'[o.debt].status = debt[o.debt].status
    BY <2>4, <2>6, DebtStays
  <2>8. /\ v.debt.received = debt[o.debt].received /\ v.debt.remaining = debt[o.debt].remaining
        /\ v.debt.source = debt[o.debt].source
        /\ o.kind # "reverseDebt" => v.debt.status = debt[o.debt].status
    BY <1>2, <1>7 DEF ReadStands
  <2> QED BY <2>5, <2>7, <2>8
<1>8. ASSUME Looked(p, n, "case"), NEW c \in Mine(o, v) PROVE v.case[c] = case'[c]
  <2>1. PICK i \in 1..Len(p) : i < n /\ "case" \in p[i].look BY <1>8 DEF Looked
  <2>2. StepOK(o, v, p, i) BY <1>3
  <2>3. v.case[c] = case[c] BY <1>2, <1>8 DEF ReadStands
  <2>4. c \in Cases BY <1>2, <1>8 DEF Mine, View, Settled
  <2>5. case[c].status # "ABSENT"
    <3>1. CASE o.kind \in Many
      <4>1. i > 1 BY <2>1, <2>2, <3>1 DEF StepOK
      <4>2. 1 \in 1..Len(p) /\ 1 < n BY <1>2, <1>3, <2>1, <4>1
      <4>3. Looked(p, n, "targets") BY <1>3, <3>1, <4>2 DEF Looked
      <4>4. c \in v.targets BY <1>8, <3>1 DEF Mine
      <4> QED BY <1>2, <4>3, <4>4 DEF ReadStands
    <3>2. CASE o.kind = "reverseReceipt"
      <4>1. c \in Settled(v.doc) BY <1>8, <3>2 DEF Mine, Many
      <4> QED BY <1>2, <3>2, <4>1 DEF Undo
    <3>3. CASE o.kind \notin Many \cup {"reverseReceipt"}
      <4>1. c = o.case BY <1>8, <3>3 DEF Mine
      <4> QED BY <1>2, <2>4, <4>1 DEF CallFits
    <3> QED BY <3>1, <3>2, <3>3
  <2>6. holder[CaseLock(c)] = s \/ A = {}
    <3>1. CASE o.kind = "reverseCase" BY <1>5, <3>1
    <3>2. CASE o.kind # "reverseCase"
      <4>1. PICK j \in 1..i : CaseLock(c) \in p[j].rows BY <1>8, <2>1, <2>2, <3>2 DEF StepOK
      <4>2. j \in 1..Len(p) /\ j < n BY <1>2, <1>3, <2>1, <4>1
      <4> QED BY <1>4, <4>1, <4>2
    <3> QED BY <3>1, <3>2
  <2>7. case'[c] = case[c] BY <2>4, <2>5, <2>6, CaseStays
  <2> QED BY <2>3, <2>7
<1>9. ASSUME Looked(p, n, "case"), o.kind = "combined", NEW c \in Cases
      PROVE  Open(c, v) <=> c \in v.targets
  BY <1>2, <1>9 DEF ReadStands
<1>10. ASSUME Looked(p, n, "funds") PROVE v.funds <= ledger'["MONEY"]
  <2>1. PICK i \in 1..Len(p) : i < n /\ "funds" \in p[i].look BY <1>10 DEF Looked
  <2>2. MoneyLock \in p[i].rows BY <1>3, <2>1 DEF StepOK
  <2>3. holder[MoneyLock] = s BY <1>4, <2>1, <2>2
  <2>4. holder[MoneyLock] \notin A \cup {Nobody} BY <1>1, <2>3, RequestsAssumption
  <2>5. v.funds <= ledger["MONEY"] BY <1>2, <1>10 DEF ReadStands
  <2>6. MoneyStep(A) BY DEF StepFrom, TableStep
  <2>7. ledger'["MONEY"] >= ledger["MONEY"] /\ ledger'["MONEY"] \in Int BY <2>4, <2>6 DEF MoneyStep, Ledgers
  <2>8. ledger["MONEY"] \in Int /\ v.funds \in Int BY <1>1, <1>2 DEF Known, TypeOK, Ledgers, View
  <2> QED BY <2>5, <2>7, <2>8
<1>11. ASSUME Looked(p, n, "targets")
       PROVE  /\ \A c \in v.targets : case'[c].status # "ABSENT"
              /\ o.kind = "combined" => v.targets = Live'
              /\ RoomsStand(o, v)'
  <2>1. \A c \in v.targets : c \in Cases /\ case[c].status # "ABSENT" BY <1>2, <1>11 DEF ReadStands, View
  <2>2. \A c \in v.targets : case'[c].status # "ABSENT" BY <2>1, CaseKept
  <2>3. ASSUME o.kind = "combined" PROVE v.targets = Live'
    <3>1. v.targets = Live BY <1>2, <1>11, <2>3 DEF ReadStands
    <3>2. ASSUME NEW c \in Live PROVE c \in Live'
      <4>1. ~CaseVoided(A, c) BY DEF CaseVoided
      <4>2. c \in Cases BY DEF Live
      <4> QED BY <4>1, <4>2, CaseKept
    <3>3. ASSUME NEW c \in Live' PROVE c \in Live
      <4>1. c \in Cases /\ case'[c].status \notin {"ABSENT", "REVERSED"} BY DEF Live
      <4>2. \A q : ~CaseOpened(c, q) BY <1>1, <2>3 DEF CaseOpened
      <4>3. case[c].status # "ABSENT" BY <4>1, <4>2, CaseOpens
      <4>4. case[c].status # "REVERSED" BY <4>1, CaseKept
      <4> QED BY <4>1, <4>3, <4>4 DEF Live
    <3> QED BY <3>1, <3>2, <3>3
  <2>4. RoomsStand(o, v)'
    <3>1. RoomsStand(o, v) BY <1>2, <1>11 DEF ReadStands
    <3>2. ASSUME o.kind = "recoverAll", o.kind \notin workload.beside, NEW c \in v.targets
          PROVE  case'[c] = case[c]
      <4>1. \A a \in A : FALSE BY <1>1, <3>2 DEF StepFrom, Known, BesideOnly, InFlight
      <4>2. A = {} BY <4>1
      <4> QED BY <2>1, <4>2, CaseStays
    <3> QED BY <3>1, <3>2 DEF RoomsStand
  <2> QED BY <2>2, <2>3, <2>4
<1>12. ASSUME Looked(p, n, "blocked"), o.kind = "reverseCase" PROVE v.blocked = InUse(o.case)'
  <2>1. v.blocked = InUse(o.case) BY <1>2, <1>12 DEF ReadStands
  <2>2. \A x \in Docs : doc'[x] = doc[x] BY <1>5, <1>12, DocStays
  <2>3. InUse(o.case)' = InUse(o.case) BY <2>2 DEF InUse, Counts, Touches, Settled
  <2> QED BY <2>1, <2>3
<1>13. ASSUME n = 1 PROVE v = NoView BY <1>2, <1>13 DEF ReadStands
<1>14. \A x : Looked(p, n, x)' <=> Looked(p, n, x) BY DEF Looked
<1>15. /\ o.kind \in Undo /\ n > 1 => v.doc = doc'[o.target]
       /\ Looked(p, n, "debt") =>
             /\ v.debt.received = debt'[o.debt].received /\ v.debt.remaining = debt'[o.debt].remaining
             /\ v.debt.source = debt'[o.debt].source
             /\ o.kind # "reverseDebt" => v.debt.status = debt'[o.debt].status
       /\ Looked(p, n, "case") =>
             /\ \A c \in Mine(o, v) : v.case[c] = case'[c]
             /\ o.kind = "combined" => \A c \in Cases : Open(c, v) <=> c \in v.targets
       /\ Looked(p, n, "funds") => v.funds <= ledger'["MONEY"]
       /\ Looked(p, n, "targets") =>
             /\ \A c \in v.targets : case'[c].status # "ABSENT"
             /\ o.kind = "combined" => v.targets = Live'
             /\ RoomsStand(o, v)'
       /\ Looked(p, n, "blocked") /\ o.kind = "reverseCase" => v.blocked = InUse(o.case)'
       /\ n = 1 => v = NoView
  BY <1>6, <1>7, <1>8, <1>9, <1>10, <1>11, <1>12, <1>13
<1> QED BY <1>15 DEF ReadStands

---------------------------------------------------------------------------
(* The calls that go on.                                                   *)

(* A running call is where its plan says, holds what it has locked, and    *)
(* what it has read still stands.                                          *)
RunOK(s) ==
    Running(s) =>
        /\ CallOK(op[s]) /\ CallFits(op[s]) /\ stage[s] \in 1..(Len(PlanOf(s)) + 1)
        /\ ReadStands(op[s], view[s], PlanOf(s), stage[s])
        /\ \A i \in 1..Len(PlanOf(s)) : i < stage[s] =>
             \A row \in PlanOf(s)[i].rows : holder[row] = s

Fresh(r) ==
    /\ stage[r] # -1 => \A x \in Docs : x[1] = r => doc[x] = NoDocument
    /\ ~Running(r) => view[r] = NoView

\* The invariant, one call at a time.
LEMMA KnownParts ==
  Known <=> /\ TypeOK /\ Dated /\ BesideOnly /\ Books
            /\ \A s \in Requests : RunOK(s) /\ Fresh(s)
            /\ \A x \in Docs : DocumentFits(x)
BY DEF Known, LocksHeld, ReadsStand, SessionOK, RunOK, Fresh

\* The calls of the others go on as they were.
LEMMA OthersRun ==
  ASSUME NEW A, StepFrom(A), workload' = workload, RowsReversedAlone, NEW s \in InFlight \ A,
         op'[s] = op[s], view'[s] = view[s], stage'[s] = stage[s],
         \A row \in Rows : holder[row] = s => holder'[row] = s
  PROVE  RunOK(s)'
<1> DEFINE o == op[s]
           v == view[s]
           p == PlanOf(s)
           n == stage[s]
<1>1. s \in Requests /\ Running(s) /\ Known BY DEF InFlight, StepFrom
<1>2. /\ CallOK(o) /\ CallFits(o) /\ n \in 1..(Len(p) + 1) /\ PlanOK(o, v, p) BY <1>1, RunningPlan
<1>3. p = Plan(o, v) BY DEF PlanOf
<1>4. PlanOf(s)' = p
  <2>1. \A w, u : w = op[s] /\ u = view[s] => Plan(w, u)' = Plan(w, u) BY PlansStand
  <2>2. PlanOf(s)' = p
    <3> SUFFICES ASSUME NEW w, w = op[s], NEW u, u = view[s] PROVE PlanOf(s)' = p OBVIOUS
    <3>1. Plan(w, u)' = Plan(w, u) BY <2>1
    <3>2. op[s]' = w /\ view[s]' = u OBVIOUS
    <3>3. PlanOf(s)' = Plan(w, u)' BY <3>2 DEF PlanOf
    <3> QED BY <3>1, <3>3 DEF PlanOf
  <2> QED BY <2>2
<1>5. ASSUME NEW w, w = op[s], NEW u, u = view[s], NEW q, q = Plan(w, u), NEW m, m = stage[s]
      PROVE  ReadStands(op[s], view[s], PlanOf(s), stage[s])' /\ CallFits(op[s])'
  <2>1. ReadStands(w, u, q, m)' BY <1>5, OthersStand
  <2>2. CallFits(w)' BY <1>2, <1>5, CallsFit
  <2>3. op[s]' = w /\ view[s]' = u /\ stage[s]' = m BY <1>5
  <2>4. PlanOf(s)' = q BY <1>3, <1>4, <1>5
  <2> QED BY <2>1, <2>2, <2>3, <2>4 DEF ReadStands, RoomsStand, CallFits
<1>6. ReadStands(op[s], view[s], PlanOf(s), stage[s])' /\ CallFits(op[s])' BY <1>5, <1>3
<1>7. \A i \in 1..Len(p) : i < n => \A row \in p[i].rows : holder'[row] = s
  <2>1. ASSUME NEW i \in 1..Len(p), i < n, NEW row \in p[i].rows PROVE holder'[row] = s
    <3>1. holder[row] = s BY <1>1, <2>1 DEF Known, LocksHeld
    <3>2. row \in Rows BY <1>2, <2>1 DEF PlanOK, StepOK
    <3> QED BY <3>1, <3>2
  <2> QED BY <2>1
<1>8. CallOK(op[s])' BY <1>2 DEF CallOK
<1> HIDE DEF o, v, p, n
<1>9. stage[s]' \in 1..(Len(PlanOf(s)') + 1) BY <1>2, <1>4 DEF n
<1>10. \A i \in 1..Len(PlanOf(s)') : i < stage'[s] => \A row \in PlanOf(s)'[i].rows : holder'[row] = s
  BY <1>4, <1>7 DEF n
<1> QED BY <1>6, <1>8, <1>9, <1>10 DEF RunOK

\* A call that may still record has recorded nothing, after the step.
LEMMA FreshKept ==
  ASSUME NEW A, StepFrom(A), NEW r \in Requests, stage[r] = -1 => stage'[r] = -1,
         ~Running(r)' => view'[r] = NoView
  PROVE  Fresh(r)'
<1>1. ASSUME stage'[r] # -1, NEW x \in Docs, x[1] = r PROVE doc'[x] = NoDocument
  <2>1. SessionOK(r) /\ DocStep(A, x) BY DEF StepFrom, Known, TableStep
  <2>2. doc[x] = NoDocument BY <1>1, <2>1 DEF SessionOK
  <2>3. ~DocUndone(A, x, doc'[x]) BY <2>2, NoDocumentFits DEF DocUndone
  <2> QED BY <1>1, <2>1, <2>2, <2>3 DEF DocStep
<1> QED BY <1>1 DEF Fresh

(* The requests of A end, the others stay where they are or go on.         *)
SessionStep(A) ==
    /\ workload' = workload /\ today' \in 0..MaxDay
    /\ op' \in [Requests -> Operation] /\ view' \in [Requests -> View]
    /\ stage' \in [Requests -> Nat \cup {-1}] /\ LocksTypeOK(Rows)'
    /\ BesideOnly'
    /\ \A s \in Requests :
         /\ stage[s] = -1 => stage'[s] = -1
         /\ Running(s)' => \/ /\ s \in InFlight \ A
                              /\ op'[s] = op[s] /\ view'[s] = view[s] /\ stage'[s] = stage[s]
                           \/ RunOK(s)'
         /\ ~Running(s)' => view'[s] = NoView
         /\ s \notin A => \A row \in Rows : holder[row] = s => holder'[row] = s

\* Such a step keeps the invariant.
LEMMA KnownKept ==
  ASSUME NEW A, StepFrom(A), SessionStep(A), RowsReversedAlone
  PROVE  Known'
<1>1. Known /\ TypeOK /\ BesideOnly BY DEF StepFrom, Known
<1>2. TypeOK'
  <2>1. doc' \in [Docs -> Document] /\ case' \in [Cases -> CaseRow] BY NewDocs, NewCases
  <2>2. debt' \in [Debts -> DebtRow] /\ ledger' \in [Ledgers -> Int] BY DEF StepFrom, TableStep, MoneyStep
  <2> QED BY <1>1, <2>1, <2>2 DEF SessionStep, TypeOK
<1>3. Dated' /\ Books' BY DatedKept, BooksKept
<1>4. \A x \in Docs : DocumentFits(x)' BY DocumentsFit
<1>5. ASSUME NEW s \in Requests PROVE RunOK(s)' /\ Fresh(s)'
  <2>1. Fresh(s)' BY FreshKept DEF SessionStep
  <2>2. CASE Running(s)' /\ ~RunOK(s)'
    <3>1. s \in InFlight \ A /\ op'[s] = op[s] /\ view'[s] = view[s] /\ stage'[s] = stage[s]
          /\ \A row \in Rows : holder[row] = s => holder'[row] = s
      BY <2>2 DEF SessionStep
    <3>2. workload' = workload BY DEF SessionStep
    <3>3. RunOK(s)' BY <3>1, <3>2, OthersRun
    <3> QED BY <2>1, <3>3
  <2>3. CASE ~Running(s)' BY <2>1, <2>3 DEF RunOK
  <2> QED BY <2>1, <2>2, <2>3
<1>6. BesideOnly' BY DEF SessionStep
<1>7. Known' <=> /\ TypeOK' /\ Dated' /\ BesideOnly' /\ Books'
                 /\ \A s \in Requests : RunOK(s)' /\ Fresh(s)'
                 /\ \A x \in Docs : DocumentFits(x)'
  BY DEF Known, LocksHeld, ReadsStand, SessionOK, RunOK, Fresh
<1> QED BY <1>2, <1>3, <1>4, <1>5, <1>6, <1>7

\* The empty view and the idle call.
LEMMA IdleTypes == NoView \in View /\ Idle \in Operation
<1>1. Nothing \in [Cases -> Int] /\ Nothing \in [Cases -> Nat] BY DEF Nothing
<1>2. NoCase \in CaseRow BY DEF NoCase, CaseRow
<1>3. NoDebt \in DebtRow BY DEF NoDebt, DebtRow
<1>4. NoDocument \in Document BY NoDocumentFits
<1>5. NoView \in View BY <1>1, <1>2, <1>3, <1>4 DEF NoView, View
<1> QED BY <1>5 DEF Idle, Call, Operation

\* A transaction that ends gives back its locks and nobody else's.
LEMMA FinishEnds ==
  ASSUME Known, NEW r \in Requests, Running(r), NEW next \in {0, -1}, Finish(r, next)
  PROVE  SessionStep({r}) /\ stage'[r] = next
<1>1. /\ op' = [op EXCEPT ![r] = Idle] /\ stage' = [stage EXCEPT ![r] = next]
      /\ view' = [view EXCEPT ![r] = NoView] /\ today' = today /\ workload' = workload
      /\ holder' = [row \in DOMAIN holder |-> IF holder[row] = r THEN Nobody ELSE holder[row]]
  BY DEF Finish, ReleaseAll
<1>2. /\ op \in [Requests -> Operation] /\ stage \in [Requests -> Nat \cup {-1}]
      /\ view \in [Requests -> View] /\ holder \in [Rows -> Requests \cup {Nobody}]
      /\ today \in 0..MaxDay
  BY DEF Known, TypeOK, LocksTypeOK
<1>3. op' \in [Requests -> Operation] BY <1>1, <1>2, IdleTypes
<1>4. view' \in [Requests -> View] BY <1>1, <1>2, IdleTypes
<1>5. stage' \in [Requests -> Nat \cup {-1}] BY <1>1, <1>2
<1>6. LocksTypeOK(Rows)' BY <1>1, <1>2 DEF LocksTypeOK
<1>7. ASSUME NEW s \in Requests
      PROVE  /\ stage[s] = -1 => stage'[s] = -1
             /\ Running(s)' => /\ s \in InFlight \ {r}
                               /\ op'[s] = op[s] /\ view'[s] = view[s] /\ stage'[s] = stage[s]
             /\ ~Running(s)' => view'[s] = NoView
             /\ s \notin {r} => \A row \in Rows : holder[row] = s => holder'[row] = s
  <2>1. stage[r] # -1 BY DEF Running
  <2>2. ~Running(r)' BY <1>1, <1>2 DEF Running
  <2>3. s # r => op'[s] = op[s] /\ view'[s] = view[s] /\ stage'[s] = stage[s] BY <1>1, <1>2
  <2>4. s # r => (Running(s)' => s \in InFlight \ {r}) BY <2>3 DEF Running, InFlight
  <2>5. s \notin {r} => \A row \in Rows : holder[row] = s => holder'[row] = s BY <1>1, <1>2
  <2>6. s # r => (~Running(s)' => view'[s] = NoView)
    <3>1. ~Running(s) => view[s] = NoView BY DEF Known, SessionOK
    <3> QED BY <2>3, <3>1 DEF Running
  <2>7. view'[r] = NoView BY <1>1, <1>2
  <2> QED BY <2>1, <2>2, <2>3, <2>4, <2>5, <2>6, <2>7
<1>9. BesideOnly'
  <2>1. ASSUME NEW s \in Requests, NEW t \in Requests, Running(s)', Running(t)', s # t
        PROVE  op'[s].kind \in workload'.beside
    <3>1. Running(s) /\ Running(t) /\ op'[s] = op[s] BY <1>7, <2>1 DEF InFlight
    <3> QED BY <1>1, <2>1, <3>1 DEF Known, BesideOnly
  <2> QED BY <2>1 DEF BesideOnly
<1>8. stage'[r] = next BY <1>1, <1>2
<1> QED BY <1>1, <1>2, <1>3, <1>4, <1>5, <1>6, <1>7, <1>8, <1>9 DEF SessionStep

\* Nobody moves.
LEMMA NobodyMoves ==
  ASSUME Known, UNCHANGED <<op, stage, view, workload, holder>>, today' \in 0..MaxDay
  PROVE  SessionStep({})
<1>1. TypeOK /\ BesideOnly BY DEF Known
<1>2. \A s \in Requests : ~Running(s) => view[s] = NoView BY DEF Known, SessionOK
<1>3. BesideOnly' BY <1>1 DEF BesideOnly, Running
<1> QED BY <1>1, <1>2, <1>3 DEF SessionStep, TypeOK, LocksTypeOK, Running, InFlight

\* Nothing happens to the tables.
LEMMA TablesStay ==
  ASSUME Known, UNCHANGED tables
  PROVE  \A A \in SUBSET InFlight : StepFrom(A)
<1>1. debt' = debt /\ case' = case /\ doc' = doc /\ ledger' = ledger BY DEF tables
<1>2. /\ TypeOK /\ Books /\ debt \in [Debts -> DebtRow] /\ case \in [Cases -> CaseRow]
      /\ doc \in [Docs -> Document] /\ ledger \in [Ledgers -> Int]
  BY DEF Known, TypeOK
<1>3. ASSUME NEW A \in SUBSET InFlight PROVE StepFrom(A)
  <2>1. \A F \in [Document -> Nat] : Gain(F) = 0
    <3>1. ASSUME NEW F \in [Document -> Nat] PROVE Gain(F) = 0
      <4>1. Tally(F, doc) \in Nat BY <1>2, TallyNat
      <4> QED BY <1>1, <4>1 DEF Gain
    <3> QED BY <3>1
  <2>2. ASSUME NEW c \in Cases PROVE CaseStep(A, c)
    <3>1. Principal(c) \in [Document -> Nat] /\ CommissionPaid(c) \in [Document -> Nat]
          /\ FeeAdded(c) \in [Document -> Nat]
      BY DEF Document, Principal, CommissionPaid, FeeAdded
    <3>2. Gain(Principal(c)) = 0 /\ Gain(CommissionPaid(c)) = 0 /\ Gain(FeeAdded(c)) = 0
      BY <2>1, <3>1
    <3> QED BY <1>1, <3>2 DEF CaseStep
  <2>3. ASSUME NEW b \in Debts PROVE DebtStep(A, b)
    <3>1. Collected(b) \in [Document -> Nat] BY DEF Document, Collected
    <3>2. Gain(Collected(b)) = 0 BY <2>1, <3>1
    <3> QED BY <1>1, <3>2 DEF DebtStep, DebtListed
  <2>4. \A x \in Docs : DocStep(A, x) BY <1>1 DEF DocStep
  <2>5. MoneyStep(A)
    <3>1. ledger["MONEY"] \in Int BY <1>2 DEF Ledgers
    <3>2. ledger["MONEY"] >= ledger["MONEY"] BY <3>1
    <3> QED BY <1>1, <1>2, <3>2 DEF MoneyStep, Books
  <2>6. case' = [c \in Cases |-> case'[c]] /\ doc' = [x \in Docs |-> doc'[x]] BY <1>1, <1>2
  <2>7. TableStep(A) BY <1>1, <1>2, <2>2, <2>3, <2>4, <2>5, <2>6 DEF TableStep
  <2> QED BY <2>7 DEF StepFrom
<1> QED BY <1>3

---------------------------------------------------------------------------
(* A call begins.                                                          *)

\* What may be called names what is there.
LEMMA CallsOK ==
  ASSUME Known, NEW o \in Calls, o.part <= o.amount
  PROVE  o \in Operation /\ CallOK(o) /\ CallFits(o)
<1> DEFINE cases == {c \in Cases : case[c].status # "ABSENT"}
           debts == {d \in Debts : debt[d].source # "ABSENT"}
           made(kinds) == {d \in Docs : doc[d].kind \in kinds}
           undo(kind, kinds) == {Call(kind, doc[d].case, doc[d].debt, 0, 0, d) : d \in made(kinds)}
<1>1. Amounts \subseteq Nat \ {0} /\ None \notin Cases \cup Debts BY DuesAssumption
<1>2. CASE o \in {Call(k, c, None, n, 0, None) : k \in {"recover", "commission", "assess"},
                    c \in cases, n \in Amounts}
  <2>1. PICK k \in {"recover", "commission", "assess"}, c \in cases, n \in Amounts :
          o = Call(k, c, None, n, 0, None)
    BY <1>2
  <2>2. o.kind = k /\ o.case = c /\ o.debt = None /\ o.amount = n /\ o.part = 0 /\ o.target = None
    BY <2>1 DEF Call
  <2>3. o \in Operation BY <1>1, <2>1 DEF Call, Operation, Kinds
  <2> QED BY <1>1, <2>2, <2>3
      DEF CallOK, CallFits, Kinds, OfCase, OfDebt, Undo, CaseUndo, Recording, Many
<1>3. CASE o \in {Call(k, None, None, n, 0, None) : k \in {"recoverAll", "combined", "payin"}, n \in Amounts}
  <2>1. PICK k \in {"recoverAll", "combined", "payin"}, n \in Amounts :
          o = Call(k, None, None, n, 0, None)
    BY <1>3
  <2>2. o.kind = k /\ o.case = None /\ o.debt = None /\ o.amount = n /\ o.part = 0 /\ o.target = None
    BY <2>1 DEF Call
  <2>3. o \in Operation BY <1>1, <2>1 DEF Call, Operation, Kinds
  <2> QED BY <1>1, <2>2, <2>3
      DEF CallOK, CallFits, Kinds, OfCase, OfDebt, Undo, CaseUndo, Recording, Many
<1>4. CASE o \in {Call("payin", c, None, n, m, None) : c \in cases, n \in Amounts, m \in Amounts}
  <2>1. PICK c \in cases, n \in Amounts, m \in Amounts : o = Call("payin", c, None, n, m, None)
    BY <1>4
  <2>2. o.kind = "payin" /\ o.case = c /\ o.debt = None /\ o.amount = n /\ o.part = m /\ o.target = None
    BY <2>1 DEF Call
  <2>3. o \in Operation BY <1>1, <2>1 DEF Call, Operation, Kinds
  <2> QED BY <1>1, <2>2, <2>3
      DEF CallOK, CallFits, Kinds, OfCase, OfDebt, Undo, CaseUndo, Recording, Many
<1>5. CASE o \in {Call("reverseCase", c, None, 0, 0, None) : c \in cases}
  <2>1. PICK c \in cases : o = Call("reverseCase", c, None, 0, 0, None) BY <1>5
  <2>2. o.kind = "reverseCase" /\ o.case = c /\ o.debt = None BY <2>1 DEF Call
  <2>3. o \in Operation BY <1>1, <2>1 DEF Call, Operation, Kinds
  <2> QED BY <1>1, <2>2, <2>3
      DEF CallOK, CallFits, Kinds, OfCase, OfDebt, Undo, CaseUndo, Recording, Many
<1>6. CASE o \in {Call("collect", None, d, n, 0, None) : d \in debts, n \in Amounts}
  <2>1. PICK d \in debts, n \in Amounts : o = Call("collect", None, d, n, 0, None) BY <1>6
  <2>2. o.kind = "collect" /\ o.case = None /\ o.debt = d /\ o.amount = n BY <2>1 DEF Call
  <2>3. o \in Operation BY <1>1, <2>1 DEF Call, Operation, Kinds
  <2> QED BY <1>1, <2>2, <2>3
      DEF CallOK, CallFits, Kinds, OfCase, OfDebt, Undo, CaseUndo, Recording, Many
<1>7. CASE o \in {Call(k, None, d, 0, 0, None) : k \in {"cancel", "reverseDebt"}, d \in debts}
  <2>1. PICK k \in {"cancel", "reverseDebt"}, d \in debts : o = Call(k, None, d, 0, 0, None) BY <1>7
  <2>2. o.kind = k /\ o.case = None /\ o.debt = d BY <2>1 DEF Call
  <2>3. o \in Operation BY <1>1, <2>1 DEF Call, Operation, Kinds
  <2> QED BY <1>1, <2>2, <2>3
      DEF CallOK, CallFits, Kinds, OfCase, OfDebt, Undo, CaseUndo, Recording, Many
<1>8. ASSUME NEW k \in Undo, o \in undo(k, UndoneKinds(k))
      PROVE  o \in Operation /\ CallOK(o) /\ CallFits(o)
  <2>1. PICK x \in Docs : /\ doc[x].kind \in UndoneKinds(k)
                          /\ o = Call(k, doc[x].case, doc[x].debt, 0, 0, x)
    BY <1>8
  <2> DEFINE d == doc[x]
  <2>2. d \in Document /\ DocumentFits(x) BY DEF Known, TypeOK
  <2>3. /\ DocumentOK(d)
        /\ \A c \in Cases : d.case = c => case[c].status # "ABSENT"
        /\ d.debt \in Debts => debt[d.debt].source # "ABSENT"
    BY <2>2 DEF DocumentFits, Touches
  <2>4. /\ d.case \in Cases \cup {None} /\ d.debt \in Debts \cup {None}
        /\ d.kind \in UndoneKinds(k)
    BY <2>1, <2>2 DEF Document
  <2>5. /\ o.kind = k /\ o.case = d.case /\ o.debt = d.debt /\ o.target = x /\ o.part = 0
    BY <2>1 DEF Call
  <2>6. o \in Operation BY <1>8, <2>1, <2>4 DEF Call, Operation, Kinds, Undo, CaseUndo
  <2>7. CallFits(o) BY <2>3, <2>4, <2>5 DEF CallFits
  <2>8. k \in OfCase => d.case \in Cases
    BY <1>8, <2>3, <2>4 DEF UndoneKinds, Undo, CaseUndo, OfCase, DocumentOK
  <2>9. k \in OfDebt => d.debt \in Debts
    BY <1>8, <2>3, <2>4 DEF UndoneKinds, Undo, CaseUndo, OfDebt, DocumentOK
  <2>10. k \in Kinds /\ k \notin Recording \cup Many /\ k # "payin"
    BY <1>8 DEF Undo, CaseUndo, Kinds, Recording, Many
  <2> QED BY <2>5, <2>6, <2>7, <2>8, <2>9, <2>10 DEF CallOK
<1>9. /\ UndoneKinds("reverseRecovery") = {"recovery"}
      /\ UndoneKinds("reverseReceipt") = {"combined", "payin"}
      /\ UndoneKinds("reverseCommission") = {"commission"}
      /\ UndoneKinds("reverseAssessment") = {"assessment"}
      /\ UndoneKinds("reverseCollection") = {"collection"}
  BY DEF UndoneKinds
<1>10. CASE \E k \in Undo : o \in undo(k, UndoneKinds(k)) BY <1>8, <1>10
<1>11. \/ o \in {Call(k, c, None, n, 0, None) : k \in {"recover", "commission", "assess"},
                    c \in cases, n \in Amounts}
       \/ o \in {Call(k, None, None, n, 0, None) : k \in {"recoverAll", "combined", "payin"}, n \in Amounts}
       \/ o \in {Call("payin", c, None, n, m, None) : c \in cases, n \in Amounts, m \in Amounts}
       \/ o \in {Call("reverseCase", c, None, 0, 0, None) : c \in cases}
       \/ o \in {Call("collect", None, d, n, 0, None) : d \in debts, n \in Amounts}
       \/ o \in {Call(k, None, d, 0, 0, None) : k \in {"cancel", "reverseDebt"}, d \in debts}
       \/ \E k \in Undo : o \in undo(k, UndoneKinds(k))
  BY <1>9 DEF Calls, Undo, CaseUndo
<1> QED BY <1>2, <1>3, <1>4, <1>5, <1>6, <1>7, <1>10, <1>11

\* A call that begins has read nothing and locked nothing.
LEMMA BeginKeeps ==
  ASSUME Known, NEW r \in Requests, Begin(r)
  PROVE  StepFrom({}) /\ SessionStep({})
<1>1. PICK o \in Calls : Allowed(o.kind) /\ o.part <= o.amount /\ op' = [op EXCEPT ![r] = o]
  BY DEF Begin
<1>2. /\ stage[r] = 0 /\ stage' = [stage EXCEPT ![r] = 1]
      /\ UNCHANGED <<debt, case, doc, ledger, today, view, workload, holder>>
  BY DEF Begin
<1>3. /\ TypeOK /\ BesideOnly /\ op \in [Requests -> Operation] /\ stage \in [Requests -> Nat \cup {-1}]
      /\ view \in [Requests -> View] /\ today \in 0..MaxDay /\ LocksTypeOK(Rows) /\ view[r] = NoView
  BY <1>2 DEF Known, TypeOK, SessionOK, Running
<1>4. o \in Operation /\ CallOK(o) /\ CallFits(o) BY <1>1, CallsOK
<1>5. StepFrom({})
  <2>1. UNCHANGED tables BY <1>2 DEF tables
  <2> QED BY <2>1, TablesStay
<1>6. op' \in [Requests -> Operation] /\ stage' \in [Requests -> Nat \cup {-1}] BY <1>1, <1>2, <1>3, <1>4
<1>7. op'[r] = o /\ stage'[r] = 1 /\ view'[r] = NoView BY <1>1, <1>2, <1>3
<1>8. \A s \in Requests : s # r => op'[s] = op[s] /\ stage'[s] = stage[s] BY <1>1, <1>2, <1>3
<1>9. RunOK(r)'
  <2>1. CallOK(op[r])' /\ CallFits(op[r])' BY <1>2, <1>4, <1>7 DEF CallOK, CallFits
  <2>2. BornApart(Settled(NoView.doc))
    <3>1. Settled(NoView.doc) = {} BY DEF Settled, NoView, NoDocument, Nothing
    <3> QED BY <3>1 DEF BornApart
  <2>3. PlanOK(o, NoView, Plan(o, NoView)) BY <1>4, <2>2, IdleTypes, PlansOK
  <2>4. PlanOf(r)' = Plan(o, NoView)'
    <3> SUFFICES ASSUME NEW w, w = o, NEW u, u = NoView PROVE PlanOf(r)' = Plan(w, u)' OBVIOUS
    <3>1. op'[r] = w /\ view'[r] = u BY <1>7
    <3> QED BY <3>1 DEF PlanOf
  <2>5. Plan(o, NoView)' = Plan(o, NoView)
    <3> SUFFICES ASSUME NEW w, w = o, NEW u, u = NoView PROVE Plan(w, u)' = Plan(w, u) OBVIOUS
    <3>1. case' = case BY <1>2
    <3> QED BY <3>1 DEF Plan, ReverseReceiptPlan, InAgeOrder
  <2>6. PlanOf(r)' = Plan(o, NoView) BY <2>4, <2>5
  <2>7. Len(PlanOf(r)') \in Nat \ {0} BY <2>3, <2>6 DEF PlanOK
  <2>8. stage'[r] \in 1..(Len(PlanOf(r)') + 1) BY <1>7, <2>7
  <2>9. ReadStands(op[r], view[r], PlanOf(r), stage[r])'
    <3>1. \A x : ~Looked(PlanOf(r)', 1, x) BY <2>7 DEF Looked
    <3> QED BY <1>7, <3>1 DEF ReadStands, Looked
  <2>10. \A i \in 1..Len(PlanOf(r)') : ~(i < stage'[r]) BY <1>7, <2>7
  <2> QED BY <2>1, <2>8, <2>9, <2>10 DEF RunOK
<1>10. BesideOnly'
  <2>1. ASSUME NEW s \in Requests, NEW t \in Requests, Running(s)', Running(t)', s # t
        PROVE  op'[s].kind \in workload.beside
    <3>1. CASE InFlight = {}
      <4>1. s = r BY <1>8, <2>1, <3>1 DEF InFlight, Running
      <4>2. t = r BY <1>8, <2>1, <3>1 DEF InFlight, Running
      <4> QED BY <2>1, <4>1, <4>2
    <3>2. CASE InFlight # {}
      <4>1. o.kind \in workload.beside /\ \A q \in InFlight : op[q].kind \in workload.beside
        BY <1>1, <3>2 DEF Allowed
      <4>2. CASE s = r BY <1>7, <4>1, <4>2
      <4>3. CASE s # r
        <5>1. s \in InFlight /\ op'[s] = op[s] BY <1>8, <2>1, <4>3 DEF InFlight, Running
        <5> QED BY <4>1, <5>1
      <4> QED BY <4>2, <4>3
    <3> QED BY <3>1, <3>2
  <2> QED BY <1>2, <2>1 DEF BesideOnly
<1>11. ASSUME NEW s \in Requests
       PROVE  /\ stage[s] = -1 => stage'[s] = -1
              /\ Running(s)' => \/ /\ s \in InFlight \ {}
                                   /\ op'[s] = op[s] /\ view'[s] = view[s] /\ stage'[s] = stage[s]
                                \/ RunOK(s)'
              /\ ~Running(s)' => view'[s] = NoView
              /\ \A row \in Rows : holder[row] = s => holder'[row] = s
  <2>1. CASE s = r BY <1>2, <1>7, <1>9, <2>1
  <2>2. CASE s # r
    <3>1. op'[s] = op[s] /\ stage'[s] = stage[s] /\ view'[s] = view[s] BY <1>2, <1>8, <2>2
    <3>2. Running(s)' <=> Running(s) BY <3>1 DEF Running
    <3>3. ~Running(s) => view[s] = NoView BY DEF Known, SessionOK
    <3> QED BY <1>2, <3>1, <3>2, <3>3 DEF InFlight
  <2> QED BY <2>1, <2>2
<1>12. LocksTypeOK(Rows)' BY <1>2, <1>3 DEF LocksTypeOK
<1> QED BY <1>2, <1>3, <1>5, <1>6, <1>10, <1>11, <1>12 DEF SessionStep

---------------------------------------------------------------------------
(* A call takes the next step of its plan.                                 *)

\* What the customer may claim is a number.
LEMMA ClaimType == ASSUME TypeOK PROVE Claim \in Int
<1> DEFINE D == {d \in Docs : d \in Active("combined") \cup Active("payin")
                               \/ (d \in Active("recovery") /\ doc[d].case \in Live)}
           f == [d \in Docs |->
                   IF d \in Active("combined") \cup Active("payin")
                      \/ (d \in Active("recovery") /\ doc[d].case \in Live)
                   THEN doc[d].amount ELSE 0]
           g == [c \in Cases |-> IF c \in Live THEN Due[c] ELSE 0]
<1>1. f \in [Docs -> Int]
  <2>1. \A d \in Docs : doc[d].amount \in Int BY DEF TypeOK, Document
  <2> QED BY <2>1
<1>2. g \in [Cases -> Int] BY DuesAssumption
<1>3. Claim = SumFunction(f) - SumFunction(g) BY DEF Claim
<1> HIDE DEF f, g
<1>4. SumFunction(f) \in Int BY <1>1, DocsFinite, SumType
<1>5. SumFunction(g) \in Int BY <1>2, DuesAssumption, SumType
<1> QED BY <1>3, <1>4, <1>5

\* What is read is of the type of a view.
LEMMA LookType ==
  ASSUME TypeOK, NEW o \in Operation, NEW v \in View, NEW look,
         "debt" \in look => o.debt \in Debts, "doc" \in look => o.target \in Docs
  PROVE  LET w == Look(o, v, look)
         IN  /\ w \in View
             /\ w.case = IF "case" \in look THEN case ELSE v.case
             /\ w.targets = IF "targets" \in look THEN Targets(o) ELSE v.targets
             /\ "targets" \in look => \A c \in Cases : w.room[c] = case[c].left
             /\ "targets" \notin look => w.room = v.room
             /\ w.debt = IF "debt" \in look THEN debt[o.debt] ELSE v.debt
             /\ w.doc = IF "doc" \in look THEN doc[o.target] ELSE v.doc
             /\ w.funds = IF "funds" \in look THEN ledger["MONEY"] ELSE v.funds
             /\ "blocked" \in look /\ o.kind = "reverseCase" => w.blocked = InUse(o.case)
             /\ "blocked" \notin look => w.blocked = v.blocked
<1> DEFINE w == Look(o, v, look)
           room == IF "targets" \in look THEN [c \in Cases |-> case[c].left] ELSE v.room
           blocked == IF "blocked" \notin look THEN v.blocked
                      ELSE IF o.kind = "reverseCase" THEN InUse(o.case) ELSE Blocked(o.target)
           claim == IF "claim" \in look THEN Claim ELSE v.claim
           cases == IF "case" \in look THEN case ELSE v.case
           targets == IF "targets" \in look THEN Targets(o) ELSE v.targets
           debts == IF "debt" \in look THEN debt[o.debt] ELSE v.debt
           docs == IF "doc" \in look THEN doc[o.target] ELSE v.doc
           funds == IF "funds" \in look THEN ledger["MONEY"] ELSE v.funds
<1>1. room \in [Cases -> Int]
  <2>1. \A c \in Cases : case[c].left \in Int BY DEF TypeOK, CaseRow
  <2>2. v.room \in [Cases -> Int] BY DEF View
  <2> QED BY <2>1, <2>2
<1>2. blocked \in BOOLEAN
  <2>1. v.blocked \in BOOLEAN BY DEF View
  <2>2. InUse(o.case) \in BOOLEAN BY DEF InUse
  <2>3. Blocked(o.target) \in BOOLEAN BY DEF Blocked
  <2> QED BY <2>1, <2>2, <2>3
<1>3. claim \in Int BY ClaimType DEF View
<1>4. cases \in [Cases -> CaseRow] BY DEF TypeOK, View
<1>5. targets \in SUBSET Cases BY DEF View, Targets, Live
<1>6. debts \in DebtRow BY DEF View, TypeOK
<1>7. docs \in Document BY DEF View, TypeOK
<1>8. funds \in Int BY DEF View, TypeOK, Ledgers
<1>9. w = [case |-> cases, targets |-> targets, room |-> room, debt |-> debts, doc |-> docs,
           blocked |-> blocked, funds |-> funds, claim |-> claim]
  BY DEF Look
<1> HIDE DEF room, blocked, claim, cases, targets, debts, docs, funds, w
<1>10. w \in View BY <1>1, <1>2, <1>3, <1>4, <1>5, <1>6, <1>7, <1>8, <1>9 DEF View
<1>11. /\ w.case = cases /\ w.targets = targets /\ w.debt = debts /\ w.doc = docs
       /\ w.funds = funds /\ w.blocked = blocked /\ w.room = room
  BY <1>9
<1> QED BY <1>10, <1>11 DEF cases, targets, debts, docs, funds, blocked, room, w

\* The next step of a running call, and the plan as it goes on from there.
LEMMA AdvanceFacts ==
  ASSUME Known, NEW r \in Requests, Advance(r),
         NEW o, o = op[r], NEW v, v = view[r], NEW p, p = PlanOf(r), NEW i, i = stage[r]
  PROVE  LET w == Look(o, v, p[i].look)
             q == Plan(o, w)
         IN  /\ i \in 1..Len(p) /\ w \in View /\ op' = op /\ view'[r] = w /\ stage'[r] = i + 1
             /\ PlanOf(r)' = q /\ PlanOK(o, w, q)
             /\ i \in 1..Len(q) /\ \A j \in 1..i : q[j] = p[j]
             /\ i # 1 => w.targets = v.targets /\ w.doc = v.doc
<1> DEFINE w == Look(o, v, p[i].look)
           q == Plan(o, w)
<1>1. /\ Running(r) /\ ~AtEnd(r) /\ stage' = [stage EXCEPT ![r] = @ + 1]
      /\ view' = [view EXCEPT ![r] = Look(op[r], view[r], PlanOf(r)[stage[r]].look)]
      /\ UNCHANGED <<debt, case, doc, ledger, today, op, workload>>
  BY DEF Advance
<1>2. TypeOK /\ stage \in [Requests -> Nat \cup {-1}] /\ view \in [Requests -> View] BY DEF Known, TypeOK
<1>3. /\ o \in Operation /\ v \in View /\ i \in Nat \ {0} /\ CallOK(o) /\ CallFits(o)
      /\ i \in 1..(Len(p) + 1) /\ PlanOK(o, v, p)
      /\ o.kind \in Undo => o.target \in Docs
      /\ o.kind \in Undo => BornApart(Settled(v.doc))
  BY <1>1, RunningPlan
<1>4. i \in 1..Len(p) /\ p = Plan(o, v)
  <2>1. ~(i > Len(p)) /\ Len(p) \in Nat BY <1>1, <1>3 DEF AtEnd, PlanOK
  <2> QED BY <1>3, <2>1 DEF PlanOf
<1>5. StepOK(o, v, p, i) BY <1>3, <1>4 DEF PlanOK
<1>6. /\ "debt" \in p[i].look => o.debt \in Debts
      /\ "doc" \in p[i].look => i = 1 /\ o.kind \in Undo /\ o.target \in Docs
      /\ "targets" \in p[i].look => i = 1
  BY <1>3, <1>5 DEF StepOK, CallOK
<1>7. /\ w \in View
      /\ w.targets = IF "targets" \in p[i].look THEN Targets(o) ELSE v.targets
      /\ w.doc = IF "doc" \in p[i].look THEN doc[o.target] ELSE v.doc
  BY <1>2, <1>3, <1>6, LookType
<1>8. op' = op /\ view'[r] = w /\ stage'[r] = i + 1 BY <1>1, <1>2
<1>9. i # 1 => w.targets = v.targets /\ w.doc = v.doc BY <1>6, <1>7
<1>10. o.kind \in Undo => BornApart(Settled(w.doc)) BY <1>3, <1>6, <1>7, SettledApart
<1> HIDE DEF w
<1>11. PlanOK(o, w, q)
  <2>1. CASE o.kind = "reverseReceipt" BY <1>3, <1>7, <1>10, <2>1, ReceiptPlanOK DEF Undo
  <2>2. CASE o.kind \in Many BY <1>3, <1>7, <2>2, ManyPlanOK
  <2>3. CASE o.kind \notin Many \cup {"reverseReceipt"} BY <1>3, <1>7, <2>3, ShortPlan
  <2> QED BY <2>1, <2>2, <2>3
<1>12. PlanOf(r)' = q
  <2> SUFFICES ASSUME NEW x, x = op[r], NEW y, y = w PROVE PlanOf(r)' = Plan(x, y) OBVIOUS
  <2>1. op'[r] = x /\ view'[r] = y /\ case' = case BY <1>1, <1>8
  <2>2. PlanOf(r)' = Plan(x, y)' BY <2>1 DEF PlanOf
  <2>3. Plan(x, y)' = Plan(x, y) BY <2>1 DEF Plan, ReverseReceiptPlan, InAgeOrder
  <2> QED BY <2>2, <2>3
<1>13. i # 1 => q = p
  <2>1. o.kind \in Kinds BY <1>3 DEF CallOK
  <2> QED BY <1>4, <1>9, <2>1, SamePlan
<1>14. q[1] = p[1]
  <2>1. CASE o.kind = "reverseReceipt"
    <3>1. BornApart(Settled(v.doc)) /\ BornApart(Settled(w.doc)) BY <1>3, <1>10, <2>1 DEF Undo
    <3> QED BY <1>3, <1>4, <1>7, <3>1, FirstStep
  <2>2. CASE o.kind # "reverseReceipt"
    <3>1. CASE o.kind \in Many
      <4>1. ASSUME NEW x \in View PROVE Plan(o, x)[1] = Step({}, {"targets"})
        <5>1. PICK first, last : /\ LocksBetween(Plan(o, x), first, x.targets, last) /\ Len(first) = 1
                                 /\ first[1] = Step({}, {"targets"})
          BY <1>3, <3>1, <4>1, ManyPlanSteps
        <5>2. 1 \in 1..Len(first) BY <5>1
        <5> QED BY <5>1, <5>2 DEF LocksBetween
      <4> QED BY <1>3, <1>4, <1>7, <4>1
    <3>2. CASE o.kind \notin Many
      <4>1. Plan(o, w) = Plan(o, v) BY <2>2, <3>2 DEF Plan, Many
      <4> QED BY <1>4, <4>1
    <3> QED BY <3>1, <3>2
  <2> QED BY <2>1, <2>2
<1>15. i \in 1..Len(q) /\ \A j \in 1..i : q[j] = p[j]
  <2>1. Len(q) \in Nat \ {0} BY <1>11 DEF PlanOK
  <2>2. CASE i = 1 BY <1>14, <2>1, <2>2
  <2>3. CASE i # 1 BY <1>4, <1>13, <2>3
  <2> QED BY <2>2, <2>3
<1> QED BY <1>4, <1>7, <1>8, <1>9, <1>11, <1>12, <1>15 DEF w

\* What a call has read after its next step stands.
LEMMA AdvanceReads ==
  ASSUME Known, NEW o \in Operation, NEW v \in View, NEW p, NEW i \in 1..Len(p), NEW q,
         CallOK(o), PlanOK(o, v, p), ReadStands(o, v, p, i), NEW w, w = Look(o, v, p[i].look),
         Len(p) \in Nat, Len(q) \in Nat, i \in 1..Len(q), \A j \in 1..i : q[j] = p[j]
  PROVE  ReadStands(o, w, q, i + 1)
<1>1. /\ StepOK(o, v, p, i) /\ TypeOK
      /\ o.kind \in Many => "targets" \in p[1].look
      /\ o.kind \in Undo => "doc" \in p[1].look
  BY DEF PlanOK, Known
<1>2. /\ "debt" \in p[i].look => o.debt \in Debts
      /\ "doc" \in p[i].look => i = 1 /\ o.target \in Docs
      /\ "targets" \in p[i].look => i = 1
  BY <1>1 DEF StepOK, CallOK
<1>3. /\ w \in View
      /\ w.case = IF "case" \in p[i].look THEN case ELSE v.case
      /\ w.targets = IF "targets" \in p[i].look THEN Targets(o) ELSE v.targets
      /\ "targets" \in p[i].look => \A c \in Cases : w.room[c] = case[c].left
      /\ "targets" \notin p[i].look => w.room = v.room
      /\ w.debt = IF "debt" \in p[i].look THEN debt[o.debt] ELSE v.debt
      /\ w.doc = IF "doc" \in p[i].look THEN doc[o.target] ELSE v.doc
      /\ w.funds = IF "funds" \in p[i].look THEN ledger["MONEY"] ELSE v.funds
      /\ "blocked" \in p[i].look /\ o.kind = "reverseCase" => w.blocked = InUse(o.case)
      /\ "blocked" \notin p[i].look => w.blocked = v.blocked
  BY <1>1, <1>2, LookType
<1>4. ASSUME NEW x, Looked(q, i + 1, x), x \notin p[i].look PROVE Looked(p, i, x) /\ i > 1
  <2>1. PICK j \in 1..Len(q) : j < i + 1 /\ x \in q[j].look BY <1>4 DEF Looked
  <2>2. j \in 1..i /\ q[j] = p[j] BY <2>1
  <2>3. j # i BY <1>4, <2>1, <2>2
  <2>4. j \in 1..Len(p) /\ j < i BY <2>2, <2>3
  <2> QED BY <2>1, <2>2, <2>4 DEF Looked
<1>5. ASSUME o.kind \in Undo PROVE w.doc = doc[o.target]
  <2>1. CASE i = 1 BY <1>1, <1>3, <1>5, <2>1
  <2>2. CASE i # 1
    <3>1. i > 1 /\ "doc" \notin p[i].look BY <1>2, <2>2
    <3>2. v.doc = doc[o.target] BY <1>5, <3>1 DEF ReadStands
    <3> QED BY <1>3, <3>1, <3>2
  <2> QED BY <2>1, <2>2
<1>6. ASSUME Looked(q, i + 1, "debt")
      PROVE  /\ w.debt.received = debt[o.debt].received /\ w.debt.remaining = debt[o.debt].remaining
             /\ w.debt.source = debt[o.debt].source
             /\ o.kind # "reverseDebt" => w.debt.status = debt[o.debt].status
  <2>1. CASE "debt" \in p[i].look BY <1>3, <2>1
  <2>2. CASE "debt" \notin p[i].look
    <3>1. Looked(p, i, "debt") BY <1>4, <1>6, <2>2
    <3> QED BY <1>3, <2>2, <3>1 DEF ReadStands
  <2> QED BY <2>1, <2>2
<1>7. ASSUME Looked(q, i + 1, "targets")
      PROVE  /\ \A c \in w.targets : case[c].status # "ABSENT"
             /\ o.kind = "combined" => w.targets = Live
             /\ RoomsStand(o, w)
  <2>1. CASE "targets" \in p[i].look
    <3>1. w.targets = Targets(o) /\ \A c \in Cases : w.room[c] = case[c].left BY <1>3, <2>1
    <3> QED BY <3>1 DEF Targets, Live, RoomsStand
  <2>2. CASE "targets" \notin p[i].look
    <3>1. Looked(p, i, "targets") /\ w.targets = v.targets /\ w.room = v.room
      BY <1>3, <1>4, <1>7, <2>2
    <3> QED BY <3>1 DEF ReadStands, RoomsStand
  <2> QED BY <2>1, <2>2
<1>8. ASSUME Looked(q, i + 1, "case")
      PROVE  /\ \A c \in Mine(o, w) : w.case[c] = case[c]
             /\ o.kind = "combined" => \A c \in Cases : Open(c, w) <=> c \in w.targets
  <2>1. CASE "case" \in p[i].look
    <3>1. w.case = case BY <1>3, <2>1
    <3>2. CASE o.kind = "combined"
      <4>1. i > 1 BY <1>1, <2>1, <3>2 DEF StepOK, Many
      <4>2. Looked(q, i + 1, "targets")
        <5>1. 1 \in 1..Len(q) /\ 1 < i + 1 /\ q[1] = p[1] BY <4>1
        <5> QED BY <1>1, <3>2, <5>1 DEF Looked, Many
      <4>3. w.targets = Live BY <1>7, <3>2, <4>2
      <4> QED BY <3>1, <4>3 DEF Open, Live
    <3> QED BY <3>1, <3>2
  <2>2. CASE "case" \notin p[i].look
    <3>1. Looked(p, i, "case") /\ i > 1 /\ w.case = v.case BY <1>3, <1>4, <1>8, <2>2
    <3>2. w.targets = v.targets /\ w.doc = v.doc BY <1>2, <1>3, <3>1
    <3>3. Mine(o, w) = Mine(o, v) BY <3>2 DEF Mine
    <3>4. \A c \in Cases : Open(c, w) <=> Open(c, v) BY <3>1 DEF Open
    <3> QED BY <3>1, <3>2, <3>3, <3>4 DEF ReadStands
  <2> QED BY <2>1, <2>2
<1>9. ASSUME Looked(q, i + 1, "funds") PROVE w.funds <= ledger["MONEY"]
  <2>1. CASE "funds" \in p[i].look
    <3>1. ledger["MONEY"] \in Int BY <1>1 DEF TypeOK, Ledgers
    <3> QED BY <1>3, <2>1, <3>1
  <2>2. CASE "funds" \notin p[i].look
    <3>1. Looked(p, i, "funds") BY <1>4, <1>9, <2>2
    <3> QED BY <1>3, <2>2, <3>1 DEF ReadStands
  <2> QED BY <2>1, <2>2
<1>10. ASSUME Looked(q, i + 1, "blocked"), o.kind = "reverseCase" PROVE w.blocked = InUse(o.case)
  <2>1. CASE "blocked" \in p[i].look BY <1>3, <1>10, <2>1
  <2>2. CASE "blocked" \notin p[i].look
    <3>1. Looked(p, i, "blocked") BY <1>4, <1>10, <2>2
    <3> QED BY <1>3, <1>10, <2>2, <3>1 DEF ReadStands
  <2> QED BY <2>1, <2>2
<1>11. i + 1 # 1 OBVIOUS
<1> QED BY <1>5, <1>6, <1>7, <1>8, <1>9, <1>10, <1>11 DEF ReadStands

\* A call that goes on has locked and read as its plan says.
LEMMA AdvanceKeeps ==
  ASSUME Known, NEW r \in Requests, Advance(r)
  PROVE  StepFrom({}) /\ SessionStep({})
<1>1. /\ Running(r) /\ ~AtEnd(r) /\ Acquire(r, Wanted(r))
      /\ stage' = [stage EXCEPT ![r] = @ + 1]
      /\ view' = [view EXCEPT ![r] = Look(op[r], view[r], PlanOf(r)[stage[r]].look)]
      /\ UNCHANGED <<debt, case, doc, ledger, today, op, workload>>
  BY DEF Advance
<1>2. /\ TypeOK /\ BesideOnly /\ op \in [Requests -> Operation] /\ stage \in [Requests -> Nat \cup {-1}]
      /\ view \in [Requests -> View] /\ today \in 0..MaxDay /\ LocksTypeOK(Rows)
  BY DEF Known, TypeOK
<1>3. StepFrom({})
  <2>1. UNCHANGED tables BY <1>1 DEF tables
  <2> QED BY <2>1, TablesStay
<1> DEFINE i == stage[r]
           p == PlanOf(r)
           v == view[r]
           o == op[r]
           w == Look(o, v, p[i].look)
           q == Plan(o, w)
<1>4. /\ i \in 1..Len(p) /\ w \in View /\ op' = op /\ view'[r] = w /\ stage'[r] = i + 1
      /\ PlanOf(r)' = q /\ PlanOK(o, w, q) /\ i \in 1..Len(q) /\ \A j \in 1..i : q[j] = p[j]
  BY AdvanceFacts
<1>5. /\ o \in Operation /\ v \in View /\ CallOK(o) /\ CallFits(o) /\ PlanOK(o, v, p)
      /\ ReadStands(o, v, p, i)
  BY <1>1, RunningPlan
<1>6. Len(p) \in Nat /\ Len(q) \in Nat BY <1>4, <1>5 DEF PlanOK
<1>7. holder' = [row \in DOMAIN holder |-> IF row \in p[i].rows THEN r ELSE holder[row]]
      /\ \A row \in p[i].rows : holder[row] \in {Nobody, r}
  <2>1. Wanted(r) = p[i].rows BY <1>1 DEF Wanted
  <2> QED BY <1>1, <2>1 DEF Acquire, Grantable
<1>8. holder \in [Rows -> Requests \cup {Nobody}] /\ p[i].rows \subseteq Rows
  BY <1>2, <1>4, <1>5 DEF LocksTypeOK, PlanOK, StepOK
<1>9. LocksTypeOK(Rows)' BY <1>7, <1>8 DEF LocksTypeOK
<1>10. ReadStands(o, w, q, i + 1)
  <2>1. w = Look(o, v, p[i].look) OBVIOUS
  <2> HIDE DEF w, o, v, p, i, q
  <2> QED BY <1>4, <1>5, <1>6, <2>1, AdvanceReads
<1>11. \A j \in 1..Len(q) : j < i + 1 => \A row \in q[j].rows : holder'[row] = r
  <2>1. ASSUME NEW j \in 1..Len(q), j < i + 1, NEW row \in q[j].rows PROVE holder'[row] = r
    <3>1. j \in 1..i /\ q[j] = p[j] /\ j \in 1..Len(p) BY <1>4, <1>6, <2>1
    <3>2. row \in p[j].rows BY <2>1, <3>1
    <3>3. row \in Rows BY <1>5, <3>1, <3>2 DEF PlanOK, StepOK
    <3>4. CASE j = i
      <4>1. row \in p[i].rows BY <3>2, <3>4
      <4>2. row \in DOMAIN holder BY <1>8, <3>3
      <4> QED BY <1>7, <4>1, <4>2
    <3>5. CASE j # i
      <4>1. j < stage[r]
        <5>1. i \in Nat BY <1>4, <1>6
        <5> HIDE DEF i
        <5>2. j < i BY <3>1, <3>5, <5>1
        <5> QED BY <5>2 DEF i
      <4>2. holder[row] = r BY <1>1, <3>1, <3>2, <4>1 DEF Known, LocksHeld
      <4> QED BY <1>7, <1>8, <3>3, <4>2
    <3> QED BY <3>4, <3>5
  <2> QED BY <2>1
<1>12. RunOK(r)'
  <2>1. ASSUME NEW x, x = o, NEW y, y = w, NEW z, z = q, NEW k, k = i + 1 PROVE RunOK(r)'
    <3>1. op'[r] = x /\ view'[r] = y /\ PlanOf(r)' = z /\ stage'[r] = k BY <1>4, <2>1
    <3>2. ReadStands(x, y, z, k) /\ CallOK(x) /\ CallFits(x) BY <1>5, <1>10, <2>1
    <3>3. k \in 1..(Len(z) + 1) BY <1>4, <1>6, <2>1
    <3>4. \A j \in 1..Len(z) : j < k => \A row \in z[j].rows : holder'[row] = r BY <1>11, <2>1
    <3>5. CallOK(op[r])' /\ CallFits(op[r])' BY <1>1, <3>1, <3>2 DEF CallOK, CallFits
    <3>6. ReadStands(op[r], view[r], PlanOf(r), stage[r])'
      <4>1. ReadStands(x, y, z, k)'
        <5>1. InUse(x.case)' = InUse(x.case) BY <1>1 DEF InUse, Counts, Touches, Settled
        <5>2. Live' = Live BY <1>1 DEF Live
        <5>3. \A u : Looked(z, k, u)' <=> Looked(z, k, u) BY DEF Looked
        <5>4. \A c \in Cases : Open(c, y)' <=> Open(c, y) BY DEF Open
        <5>5. RoomsStand(x, y)' <=> RoomsStand(x, y) BY <1>1 DEF RoomsStand
        <5> QED BY <1>1, <3>2, <5>1, <5>2, <5>3, <5>4, <5>5 DEF ReadStands
      <4> QED BY <3>1, <4>1 DEF ReadStands, RoomsStand
    <3> QED BY <3>1, <3>3, <3>4, <3>5, <3>6 DEF RunOK
  <2> QED BY <2>1
<1>13. BesideOnly'
  <2>1. \A s \in Requests : Running(s)' => Running(s) BY <1>1, <1>2 DEF Running
  <2> QED BY <1>1, <1>2, <2>1 DEF BesideOnly
<1>14. view' \in [Requests -> View] /\ stage' \in [Requests -> Nat \cup {-1}]
  <2>1. w \in View BY <1>4
  <2> QED BY <1>1, <1>2, <2>1
<1> HIDE DEF w, o, v, p, i, q
<1>15. ASSUME NEW s \in Requests
       PROVE  /\ stage[s] = -1 => stage'[s] = -1
              /\ Running(s)' => \/ /\ s \in InFlight \ {}
                                   /\ op'[s] = op[s] /\ view'[s] = view[s] /\ stage'[s] = stage[s]
                                \/ RunOK(s)'
              /\ ~Running(s)' => view'[s] = NoView
              /\ \A row \in Rows : holder[row] = s => holder'[row] = s
  <2>1. \A row \in Rows : holder[row] = s => holder'[row] = s
    <3>1. ASSUME NEW row \in Rows, holder[row] = s PROVE holder'[row] = s
      <4>1. row \in p[i].rows => s = r
        <5>1. s # Nobody BY RequestsAssumption
        <5> QED BY <1>7, <3>1, <5>1
      <4> QED BY <1>7, <1>8, <3>1, <4>1
    <3> QED BY <3>1
  <2>2. CASE s = r
    <3>1. stage[r] # -1 /\ Running(r)' BY <1>1, <1>2 DEF Running
    <3> QED BY <1>12, <2>1, <2>2, <3>1
  <2>3. CASE s # r
    <3>1. op'[s] = op[s] /\ stage'[s] = stage[s] /\ view'[s] = view[s] BY <1>1, <1>2, <2>3
    <3>2. Running(s)' <=> Running(s) BY <3>1 DEF Running
    <3>3. ~Running(s) => view[s] = NoView BY DEF Known, SessionOK
    <3> QED BY <2>1, <3>1, <3>2, <3>3 DEF InFlight
  <2> QED BY <2>2, <2>3
<1> QED BY <1>1, <1>2, <1>3, <1>9, <1>13, <1>14, <1>15 DEF SessionStep

---------------------------------------------------------------------------
(* A call at the end of its plan.                                          *)

(* What a call knows before it commits.                                    *)
Ready(r, o, v) ==
    /\ r \in Requests /\ Running(r) /\ r \in InFlight /\ o = op[r] /\ v = view[r]
    /\ o \in Operation /\ v \in View /\ CallOK(o) /\ CallFits(o)
    /\ o.kind \in Undo => /\ o.target \in Docs /\ v.doc = doc[o.target]
                          /\ holder[DocLock(o.target)] = r
    /\ o.kind \in OfDebt =>
         /\ o.debt \in Debts /\ holder[DebtLock(o.debt)] = r
         /\ v.debt.received = debt[o.debt].received /\ v.debt.remaining = debt[o.debt].remaining
         /\ v.debt.source = debt[o.debt].source
         /\ o.kind # "reverseDebt" => v.debt.status = debt[o.debt].status
    /\ o.kind \notin OfDebt =>
         \A c \in Mine(o, v) : /\ c \in Cases /\ v.case[c] = case[c]
                               /\ o.kind # "reverseCase" => holder[CaseLock(c)] = r
    /\ o.kind = "combined" => v.targets = Live /\ \A c \in Cases : Open(c, v) <=> c \in v.targets
    /\ RoomsStand(o, v)
    /\ o.kind = "recoverAll" => \A c \in v.targets : case[c].status # "ABSENT"
    /\ o.kind \in Undo \ {"reverseAssessment"} => v.funds <= ledger["MONEY"] /\ holder[MoneyLock] = r
    /\ o.kind = "reverseCase" => v.blocked = InUse(o.case)
    /\ \A x \in Docs : x[1] = r => doc[x] = NoDocument

\* At the end of the plan everything has been locked and read.
LEMMA AtEndReady ==
  ASSUME Known, NEW r \in Requests, Running(r), AtEnd(r)
  PROVE  Ready(r, op[r], view[r])
<1> SUFFICES ASSUME NEW o, o = op[r], NEW v, v = view[r], NEW p, p = PlanOf(r), NEW n, n = stage[r]
             PROVE  Ready(r, o, v)
  OBVIOUS
<1>1. /\ o \in Operation /\ v \in View /\ n \in Nat \ {0} /\ CallOK(o) /\ CallFits(o)
      /\ ReadStands(o, v, p, n) /\ PlanOK(o, v, p) /\ n > Len(p)
      /\ o.kind \in Undo => o.target \in Docs
  BY RunningPlan DEF AtEnd
<1>2. /\ Len(p) \in Nat \ {0} /\ \A i \in 1..Len(p) : i < n /\ StepOK(o, v, p, i)
      /\ n > 1 /\ 1 \in 1..Len(p)
  BY <1>1 DEF PlanOK
<1>3. \A i \in 1..Len(p) : \A row \in p[i].rows : holder[row] = r
  BY <1>2 DEF Known, LocksHeld
<1>4. \A x : (\E i \in 1..Len(p) : x \in p[i].look) => Looked(p, n, x) BY <1>2 DEF Looked
<1>5. ASSUME o.kind \in Undo
      PROVE  o.target \in Docs /\ v.doc = doc[o.target] /\ holder[DocLock(o.target)] = r
  <2>1. "doc" \in p[1].look BY <1>1, <1>5 DEF PlanOK
  <2>2. DocLock(o.target) \in p[1].rows BY <1>2, <2>1 DEF StepOK
  <2>3. v.doc = doc[o.target] BY <1>1, <1>2, <1>5 DEF ReadStands
  <2> QED BY <1>1, <1>2, <1>3, <1>5, <2>2, <2>3
<1>6. ASSUME o.kind \in OfDebt
      PROVE  /\ o.debt \in Debts /\ holder[DebtLock(o.debt)] = r
             /\ v.debt.received = debt[o.debt].received /\ v.debt.remaining = debt[o.debt].remaining
             /\ v.debt.source = debt[o.debt].source
             /\ o.kind # "reverseDebt" => v.debt.status = debt[o.debt].status
  <2>1. /\ \E i \in 1..Len(p) : "debt" \in p[i].look
        /\ \E i \in 1..Len(p) : DebtLock(o.debt) \in p[i].rows
    BY <1>1, <1>6 DEF PlanOK
  <2>2. Looked(p, n, "debt") BY <1>4, <2>1
  <2>3. o.debt \in Debts BY <1>1, <1>6 DEF CallOK
  <2> QED BY <1>1, <1>3, <2>1, <2>2, <2>3 DEF ReadStands
<1>7. ASSUME o.kind \notin OfDebt, NEW c \in Mine(o, v)
      PROVE  /\ c \in Cases /\ v.case[c] = case[c]
             /\ o.kind # "reverseCase" => holder[CaseLock(c)] = r
  <2>1. c \in Cases BY <1>1, <1>7 DEF Mine, View, Settled
  <2>2. ~(o.kind = "payin" /\ o.case = None)
    <3>1. "payin" \notin Many \cup {"reverseReceipt"} /\ None \notin Cases BY DuesAssumption DEF Many
    <3> QED BY <1>7, <3>1 DEF Mine
  <2>3. PICK i \in 1..Len(p) : "case" \in p[i].look BY <1>1, <1>7, <2>2 DEF PlanOK
  <2>4. v.case[c] = case[c]
    <3>1. Looked(p, n, "case") BY <1>4, <2>3
    <3> QED BY <1>1, <1>7, <3>1 DEF ReadStands
  <2>5. ASSUME o.kind # "reverseCase" PROVE holder[CaseLock(c)] = r
    <3>1. PICK j \in 1..i : CaseLock(c) \in p[j].rows BY <1>2, <1>7, <2>3, <2>5 DEF StepOK
    <3>2. j \in 1..Len(p) BY <1>2, <2>3, <3>1
    <3> QED BY <1>3, <3>1, <3>2
  <2> QED BY <2>1, <2>4, <2>5
<1>8. ASSUME o.kind = "combined"
      PROVE  v.targets = Live /\ \A c \in Cases : Open(c, v) <=> c \in v.targets
  <2>1. o.kind \notin OfDebt /\ o.kind # "payin" /\ o.kind \in Many BY <1>8 DEF OfDebt, Many
  <2>2. Looked(p, n, "targets") /\ Looked(p, n, "case") BY <1>1, <1>2, <1>4, <2>1 DEF PlanOK
  <2> QED BY <1>1, <1>8, <2>2 DEF ReadStands
<1>9. ASSUME o.kind \in Undo \ {"reverseAssessment"}
      PROVE  v.funds <= ledger["MONEY"] /\ holder[MoneyLock] = r
  <2>1. PICK i \in 1..Len(p) : "funds" \in p[i].look BY <1>1, <1>9 DEF PlanOK
  <2>2. MoneyLock \in p[i].rows BY <1>2, <2>1 DEF StepOK
  <2>3. Looked(p, n, "funds") BY <1>4, <2>1
  <2> QED BY <1>1, <1>3, <2>2, <2>3 DEF ReadStands
<1>10. ASSUME o.kind = "reverseCase" PROVE v.blocked = InUse(o.case)
  <2>1. Looked(p, n, "blocked") BY <1>1, <1>4, <1>10 DEF PlanOK
  <2> QED BY <1>1, <1>10, <2>1 DEF ReadStands
<1>11. \A x \in Docs : x[1] = r => doc[x] = NoDocument BY DEF Known, SessionOK, Running
<1>12. r \in InFlight BY DEF InFlight
<1>13. RoomsStand(o, v) /\ (o.kind = "recoverAll" => \A c \in v.targets : case[c].status # "ABSENT")
  <2>1. CASE o.kind = "recoverAll"
    <3>1. Looked(p, n, "targets") BY <1>1, <1>2, <1>4, <2>1 DEF PlanOK, Many
    <3> QED BY <1>1, <3>1 DEF ReadStands
  <2>2. CASE o.kind # "recoverAll" BY <2>2 DEF RoomsStand
  <2> QED BY <2>1, <2>2
<1> QED BY <1>1, <1>5, <1>6, <1>7, <1>8, <1>9, <1>10, <1>11, <1>12, <1>13 DEF Ready

---------------------------------------------------------------------------
(* One document is recorded, or taken back.                                *)

(* A row by its fields.                                                    *)
Row(recovered, left, fee, collected, unpaid, born, status) ==
    [recovered |-> recovered, left |-> left, fee |-> fee, collected |-> collected,
     unpaid |-> unpaid, born |-> born, status |-> status]

\* The row EXCEPT what Receive() assigns.
Received(row, a, b, k, u, s) ==
    [row EXCEPT !.recovered = a, !.left = b, !.collected = k, !.unpaid = u, !.status = s]

\* The row that Receive() writes, field by field.
LEMMA ReceiveRow ==
  ASSUME NEW row \in CaseRow, NEW a, NEW b, NEW k, NEW u, NEW s
  PROVE  Received(row, a, b, k, u, s) = Row(a, b, row.fee, k, u, row.born, s)
<1> DEFINE r1 == [row EXCEPT !.recovered = a]
           r2 == [r1 EXCEPT !.left = b]
           r3 == [r2 EXCEPT !.collected = k]
           r4 == [r3 EXCEPT !.unpaid = u]
           r5 == [r4 EXCEPT !.status = s]
<1>1. r1 = Row(a, row.left, row.fee, row.collected, row.unpaid, row.born, row.status) BY DEF CaseRow, Row
<1> HIDE DEF r1
<1>2. r2 = Row(a, b, row.fee, row.collected, row.unpaid, row.born, row.status) BY <1>1 DEF Row
<1> HIDE DEF r2
<1>3. r3 = Row(a, b, row.fee, k, row.unpaid, row.born, row.status) BY <1>2 DEF Row
<1> HIDE DEF r3
<1>4. r4 = Row(a, b, row.fee, k, u, row.born, row.status) BY <1>3 DEF Row
<1> HIDE DEF r4
<1>5. r5 = Row(a, b, row.fee, k, u, row.born, s) BY <1>4 DEF Row
<1>6. Received(row, a, b, k, u, s) = r5 BY DEF Received, r1, r2, r3, r4, r5
<1> QED BY <1>5, <1>6

\* The row EXCEPT what GiveBack() assigns.
GivenBack(row, a, b, s) ==
    [row EXCEPT !.recovered = a, !.left = b, !.status = s]

\* The row that GiveBack() writes.
LEMMA GiveBackRow ==
  ASSUME NEW row \in CaseRow, NEW a, NEW b, NEW s
  PROVE  GivenBack(row, a, b, s) = Row(a, b, row.fee, row.collected, row.unpaid, row.born, s)
<1> DEFINE r1 == [row EXCEPT !.recovered = a]
           r2 == [r1 EXCEPT !.left = b]
           r3 == [r2 EXCEPT !.status = s]
<1>1. r1 = Row(a, row.left, row.fee, row.collected, row.unpaid, row.born, row.status) BY DEF CaseRow, Row
<1> HIDE DEF r1
<1>2. r2 = Row(a, b, row.fee, row.collected, row.unpaid, row.born, row.status) BY <1>1 DEF Row
<1> HIDE DEF r2
<1>3. r3 = Row(a, b, row.fee, row.collected, row.unpaid, row.born, s) BY <1>2 DEF Row
<1>4. GivenBack(row, a, b, s) = r3 BY DEF GivenBack, r1, r2, r3
<1> QED BY <1>3, <1>4

\* The row EXCEPT what a collection of commission assigns.
Paid(row, f, k, u, s) ==
    [row EXCEPT !.fee = f, !.collected = k, !.unpaid = u, !.status = s]

\* The row that a collection of commission writes.
LEMMA CommissionRow ==
  ASSUME NEW row \in CaseRow, NEW f, NEW k, NEW u, NEW s
  PROVE  Paid(row, f, k, u, s) = Row(row.recovered, row.left, f, k, u, row.born, s)
<1> DEFINE r1 == [row EXCEPT !.fee = f]
           r2 == [r1 EXCEPT !.collected = k]
           r3 == [r2 EXCEPT !.unpaid = u]
           r4 == [r3 EXCEPT !.status = s]
<1>1. r1 = Row(row.recovered, row.left, f, row.collected, row.unpaid, row.born, row.status) BY DEF CaseRow, Row
<1> HIDE DEF r1
<1>2. r2 = Row(row.recovered, row.left, f, k, row.unpaid, row.born, row.status) BY <1>1 DEF Row
<1> HIDE DEF r2
<1>3. r3 = Row(row.recovered, row.left, f, k, u, row.born, row.status) BY <1>2 DEF Row
<1> HIDE DEF r3
<1>4. r4 = Row(row.recovered, row.left, f, k, u, row.born, s) BY <1>3 DEF Row
<1>5. Paid(row, f, k, u, s) = r4 BY DEF Paid, r1, r2, r3, r4
<1> QED BY <1>4, <1>5

\* The row EXCEPT what the reversal of a collection assigns.
Unpaid(row, f, k, u) ==
    [row EXCEPT !.fee = f, !.collected = k, !.unpaid = u]

\* The row that the reversal of a collection writes.
LEMMA UncollectRow ==
  ASSUME NEW row \in CaseRow, NEW f, NEW k, NEW u
  PROVE  Unpaid(row, f, k, u) = Row(row.recovered, row.left, f, k, u, row.born, row.status)
<1> DEFINE r1 == [row EXCEPT !.fee = f]
           r2 == [r1 EXCEPT !.collected = k]
           r3 == [r2 EXCEPT !.unpaid = u]
<1>1. r1 = Row(row.recovered, row.left, f, row.collected, row.unpaid, row.born, row.status) BY DEF CaseRow, Row
<1> HIDE DEF r1
<1>2. r2 = Row(row.recovered, row.left, f, k, row.unpaid, row.born, row.status) BY <1>1 DEF Row
<1> HIDE DEF r2
<1>3. r3 = Row(row.recovered, row.left, f, k, u, row.born, row.status) BY <1>2 DEF Row
<1>4. Unpaid(row, f, k, u) = r3 BY DEF Unpaid, r1, r2, r3
<1> QED BY <1>3, <1>4

\* The row EXCEPT what an assessment assigns.
Assessed(row, f, u) ==
    [row EXCEPT !.fee = f, !.unpaid = u]

\* The row that an assessment and its reversal write.
LEMMA AssessRow ==
  ASSUME NEW row \in CaseRow, NEW f, NEW u
  PROVE  Assessed(row, f, u) = Row(row.recovered, row.left, f, row.collected, u, row.born, row.status)
<1> DEFINE r1 == [row EXCEPT !.fee = f]
           r2 == [r1 EXCEPT !.unpaid = u]
<1>1. r1 = Row(row.recovered, row.left, f, row.collected, row.unpaid, row.born, row.status) BY DEF CaseRow, Row
<1> HIDE DEF r1
<1>2. r2 = Row(row.recovered, row.left, f, row.collected, u, row.born, row.status) BY <1>1 DEF Row
<1>3. Assessed(row, f, u) = r2 BY DEF Assessed, r1, r2
<1> QED BY <1>2, <1>3

\* The row EXCEPT what the commission taken back of a receipt assigns.
Refunded(row, k, u) ==
    [row EXCEPT !.collected = k, !.unpaid = u]

\* The row that a receipt leaves as its commission is taken back.
LEMMA RefundRow ==
  ASSUME NEW row \in CaseRow, NEW k, NEW u
  PROVE  Refunded(row, k, u) = Row(row.recovered, row.left, row.fee, k, u, row.born, row.status)
<1> DEFINE r1 == [row EXCEPT !.collected = k]
           r2 == [r1 EXCEPT !.unpaid = u]
<1>1. r1 = Row(row.recovered, row.left, row.fee, k, row.unpaid, row.born, row.status) BY DEF CaseRow, Row
<1> HIDE DEF r1
<1>2. r2 = Row(row.recovered, row.left, row.fee, k, u, row.born, row.status) BY <1>1 DEF Row
<1>3. Refunded(row, k, u) = r2 BY DEF Refunded, r1, r2
<1> QED BY <1>2, <1>3

\* The row of a case that receives something.
LEMMA ReceiveMoves ==
  ASSUME NEW row \in CaseRow, NEW p \in Int, NEW k \in Int, p <= row.left
  PROVE  Receive(row, p, k) = Moved(row, p, k, 0)
<1>1. row.left \in Int /\ row.fee \in Int /\ row.unpaid \in Int BY DEF CaseRow
<1>2. Larger(0, row.left - p) = row.left - p BY <1>1 DEF Larger
<1>3. row.fee + 0 = row.fee /\ row.unpaid + 0 - k = row.unpaid - k BY <1>1
<1> DEFINE status == MasterStatus(row.recovered + p, row.left - p)
<1>4. Receive(row, p, k) = Row(row.recovered + p, Larger(0, row.left - p), row.fee,
                               row.collected + k, row.unpaid - k, row.born, status)
  <2>1. Receive(row, p, k) =
          Received(row, row.recovered + p, Larger(0, row.left - p), row.collected + k,
                   row.unpaid - k, status)
    BY DEF Receive, Received
  <2> HIDE DEF status
  <2> QED BY <2>1, ReceiveRow
<1> QED BY <1>2, <1>3, <1>4 DEF Moved, Row

\* What a reversal gives back.
LEMMA GiveBackMoves ==
  ASSUME NEW c \in Cases, NEW row \in CaseRow, NEW p \in Nat, p <= row.recovered,
         row.recovered \in 0..Due[c], row.left = Due[c] - row.recovered
  PROVE  GiveBack(c, row, p) = Moved(row, -p, 0, 0)
<1>1. row.left \in Int /\ row.fee \in Int /\ row.recovered \in Int /\ row.collected \in Int
      /\ row.unpaid \in Int /\ Due[c] \in Nat
  BY DuesAssumption DEF CaseRow
<1>2. /\ Larger(0, row.recovered - p) = row.recovered + (-p)
      /\ Larger(0, Due[c] - (row.recovered + (-p))) = row.left - (-p)
  BY <1>1 DEF Larger
<1>3. row.fee + 0 = row.fee /\ row.unpaid + 0 - 0 = row.unpaid /\ row.collected + 0 = row.collected
  BY <1>1
<1> DEFINE recovered == Larger(0, row.recovered - p)
           left == Larger(0, Due[c] - recovered)
           status == MasterStatus(recovered, left)
<1>4. GiveBack(c, row, p) = Row(recovered, left, row.fee, row.collected, row.unpaid, row.born, status)
  <2>1. GiveBack(c, row, p) = GivenBack(row, recovered, left, status) BY DEF GiveBack, GivenBack
  <2> HIDE DEF recovered, left, status
  <2> QED BY <2>1, GiveBackRow
<1>5. recovered = row.recovered + (-p) /\ left = row.left - (-p) BY <1>2
<1> HIDE DEF recovered, left
<1> QED BY <1>3, <1>4, <1>5 DEF Moved, Row

(* What document d says of case c: what changes is the case.               *)
CaseFollows(r, c, p, k, f) ==
    \/ p = 0 /\ k = 0 /\ f = 0 /\ case'[c] = case[c]
    \/ CaseMoved({r}, c, p, k, f)

DebtFollows(r, b, n) ==
    \/ n = 0 /\ debt'[b] = debt[b]
    \/ DebtMoved({r}, b, n)

\* A case that moves stays live.
LEMMA FollowsLive ==
  ASSUME TypeOK, NEW r, NEW c \in Live, NEW p \in Int, NEW k \in Int, NEW f \in Int,
         CaseFollows(r, c, p, k, f)
  PROVE  c \in Live'
<1>1. c \in Cases /\ case[c] \in CaseRow BY DEF Live, TypeOK
<1>2. CASE case'[c] = case[c] BY <1>1, <1>2 DEF Live
<1>3. CASE CaseMoved({r}, c, p, k, f)
  <2>1. case'[c] = Moved(case[c], p, k, f) BY <1>3 DEF CaseMoved
  <2>2. case'[c].status \notin {"ABSENT", "REVERSED"} BY <1>1, <2>1, MovedType
  <2> QED BY <1>1, <2>2 DEF Live
<1> QED BY <1>2, <1>3 DEF CaseFollows

\* A commit that records one document.
LEMMA Recorded ==
  ASSUME Known, NEW r \in Requests, Running(r), NEW d \in Document, Standing(d), DocumentOK(d),
         \A x \in Docs : x[1] = r => doc[x] = NoDocument,
         doc' = [doc EXCEPT ![<<r, "main">>] = d], stage'[r] = -1,
         case' = [c \in Cases |-> case'[c]], debt' \in [Debts -> DebtRow], MoneyStep({r}),
         \A c \in Cases : d.case = c \/ c \in Settled(d) => c \in Live,
         d.debt \in Debts => debt[d.debt].source # "ABSENT",
         \A c \in Cases : CaseFollows(r, c, Principal(c)[d], CommissionPaid(c)[d], FeeAdded(c)[d]),
         \A b \in Debts : DebtFollows(r, b, Collected(b)[d])
  PROVE  StepFrom({r})
<1> DEFINE m == <<r, "main">>
<1>1. m \in Docs /\ m[1] = r BY DEF Docs
<1>2. doc[m] = NoDocument BY <1>1
<1>3. doc \in [Docs -> Document] /\ TypeOK BY DEF Known, TypeOK
<1>4. doc' \in [Docs -> Document] BY <1>3
<1>5. doc'[m] = d /\ \A x \in Docs \ {m} : doc'[x] = doc[x] BY <1>1, <1>3
<1> HIDE DEF m
<1>6. ASSUME NEW F \in [Document -> Int], F[NoDocument] = 0 PROVE Gain(F) = F[d]
  <2>1. Tally(F, doc') - Tally(F, doc) = F[doc'[m]] - F[doc[m]]
    <3>1. \A y \in Docs \ {m} : doc'[y] = doc[y] BY <1>5
    <3>2. doc \in [Docs -> Document] BY <1>3
    <3> HIDE <1>3, <1>5
    <3> QED BY ONLY <1>1, <3>2, <1>4, <3>1, F \in [Document -> Int], TallyOne
  <2>2. F[d] \in Int OBVIOUS
  <2> QED BY <1>2, <1>5, <1>6, <2>1, <2>2 DEF Gain
<1>7. ASSUME NEW c \in Cases
      PROVE  /\ Gain(Principal(c)) = Principal(c)[d] /\ Gain(CommissionPaid(c)) = CommissionPaid(c)[d]
             /\ Gain(FeeAdded(c)) = FeeAdded(c)[d]
             /\ Principal(c)[d] \in Int /\ CommissionPaid(c)[d] \in Int /\ FeeAdded(c)[d] \in Int
  <2>1. /\ Principal(c) \in [Document -> Int] /\ CommissionPaid(c) \in [Document -> Int]
        /\ FeeAdded(c) \in [Document -> Int]
    BY DEF Document, Principal, CommissionPaid, FeeAdded
  <2>2. /\ Principal(c)[NoDocument] = 0 /\ CommissionPaid(c)[NoDocument] = 0
        /\ FeeAdded(c)[NoDocument] = 0
    BY NoDocumentFits
  <2> QED BY <1>6, <2>1, <2>2
<1>8. ASSUME NEW c \in Cases PROVE CaseStep({r}, c)
  <2>1. CaseFollows(r, c, Gain(Principal(c)), Gain(CommissionPaid(c)), Gain(FeeAdded(c))) BY <1>7
  <2> QED BY <2>1 DEF CaseFollows, CaseStep
<1>9. ASSUME NEW b \in Debts PROVE DebtStep({r}, b)
  <2>1. Collected(b) \in [Document -> Int] BY DEF Document, Collected
  <2>2. Collected(b)[NoDocument] = 0 BY NoDocumentFits
  <2>3. Gain(Collected(b)) = Collected(b)[d] BY <1>6, <2>1, <2>2
  <2>4. DebtFollows(r, b, Gain(Collected(b))) BY <2>3
  <2> QED BY <2>4 DEF DebtFollows, DebtStep, DebtListed
<1>10. \A s \in InFlight \ {r} : op[s].kind \in workload.beside
  BY DEF Known, BesideOnly, InFlight
<1>11. ASSUME NEW x \in Docs PROVE DocStep({r}, x)
  <2>1. CASE x # m BY <1>5, <2>1 DEF DocStep
  <2>2. CASE x = m
    <3>1. \A c \in Cases : d.case = c \/ c \in Settled(d) => c \in Live'
      BY <1>3, <1>7, FollowsLive
    <3>2. DocRecorded(x, doc'[x]) BY <1>2, <1>5, <2>2, <3>1 DEF DocRecorded
    <3> QED BY <1>1, <1>10, <2>2, <3>2 DEF DocStep
  <2> QED BY <2>1, <2>2
<1>12. doc' = [x \in Docs |-> doc'[x]] BY <1>4
<1>13. {r} \subseteq InFlight BY DEF InFlight
<1>14. TableStep({r}) BY <1>8, <1>9, <1>11, <1>12 DEF TableStep
<1> QED BY <1>13, <1>14 DEF StepFrom

\* A commit that takes one document back.
LEMMA Undone ==
  ASSUME Known, NEW r \in Requests, Running(r), NEW x \in Docs, Standing(doc[x]), holder[DocLock(x)] = r,
         doc' = [doc EXCEPT ![x].status = "REVERSED"],
         case' = [c \in Cases |-> case'[c]], debt' \in [Debts -> DebtRow], MoneyStep({r}),
         \A c \in Cases : CaseFollows(r, c, -Principal(c)[doc[x]], -CommissionPaid(c)[doc[x]],
                                      -FeeAdded(c)[doc[x]]),
         \A b \in Debts : DebtFollows(r, b, -Collected(b)[doc[x]])
  PROVE  StepFrom({r})
<1> DEFINE d == doc[x]
           e == [d EXCEPT !.status = "REVERSED"]
<1>1. doc \in [Docs -> Document] /\ d \in Document BY DEF Known, TypeOK
<1>2. e \in Document /\ ~Standing(e) BY <1>1 DEF Document, Standing
<1>3. doc'[x] = e /\ \A y \in Docs \ {x} : doc'[y] = doc[y] BY <1>1
<1>4. doc' \in [Docs -> Document]
  <2>1. doc' = [doc EXCEPT ![x] = e] OBVIOUS
  <2> HIDE DEF e
  <2> QED BY <1>1, <1>2, <2>1
<1> HIDE DEF e, d
<1>6. ASSUME NEW F \in [Document -> Int], F[e] = 0 PROVE Gain(F) = -F[d]
  <2>1. Tally(F, doc') - Tally(F, doc) = F[doc'[x]] - F[doc[x]]
    <3>1. \A y \in Docs \ {x} : doc'[y] = doc[y] BY <1>3
    <3>2. doc \in [Docs -> Document] BY <1>1
    <3> QED BY ONLY <3>2, <1>4, <3>1, F \in [Document -> Int], x \in Docs, TallyOne
  <2>2. F[d] \in Int BY <1>1
  <2> QED BY <1>3, <1>6, <2>1, <2>2 DEF Gain, d
<1>7. ASSUME NEW c \in Cases
      PROVE  /\ Gain(Principal(c)) = -Principal(c)[d] /\ Gain(CommissionPaid(c)) = -CommissionPaid(c)[d]
             /\ Gain(FeeAdded(c)) = -FeeAdded(c)[d]
  <2>1. /\ Principal(c) \in [Document -> Int] /\ CommissionPaid(c) \in [Document -> Int]
        /\ FeeAdded(c) \in [Document -> Int]
    BY DEF Document, Principal, CommissionPaid, FeeAdded
  <2>2. Principal(c)[e] = 0 /\ CommissionPaid(c)[e] = 0 /\ FeeAdded(c)[e] = 0
    BY <1>2 DEF Principal, CommissionPaid, FeeAdded
  <2> QED BY <1>6, <2>1, <2>2
<1>8. ASSUME NEW c \in Cases PROVE CaseStep({r}, c)
  <2>1. CaseFollows(r, c, Gain(Principal(c)), Gain(CommissionPaid(c)), Gain(FeeAdded(c)))
    BY <1>7 DEF d
  <2> QED BY <2>1 DEF CaseFollows, CaseStep
<1>9. ASSUME NEW b \in Debts PROVE DebtStep({r}, b)
  <2>1. Collected(b) \in [Document -> Int] BY DEF Document, Collected
  <2>2. Collected(b)[e] = 0 BY <1>2 DEF Collected
  <2>3. Gain(Collected(b)) = -Collected(b)[d] BY <1>6, <2>1, <2>2
  <2>4. DebtFollows(r, b, Gain(Collected(b))) BY <2>3 DEF d
  <2> QED BY <2>4 DEF DebtFollows, DebtStep, DebtListed
<1>11. ASSUME NEW y \in Docs PROVE DocStep({r}, y)
  <2>1. CASE y # x BY <1>3, <2>1 DEF DocStep
  <2>2. CASE y = x
    <3>1. DocUndone({r}, y, doc'[y]) BY <1>3, <2>2 DEF DocUndone, e, d
    <3> QED BY <3>1 DEF DocStep
  <2> QED BY <2>1, <2>2
<1>12. doc' = [y \in Docs |-> doc'[y]] BY <1>4
<1>13. {r} \subseteq InFlight BY DEF InFlight
<1>14. TableStep({r}) BY <1>8, <1>9, <1>11, <1>12 DEF TableStep
<1> QED BY <1>13, <1>14 DEF StepFrom

\* Money comes in.
LEMMA MoneyIn ==
  ASSUME Known, NEW A, NEW d \in Document, d.charge <= d.amount, Post(Journal(d))
  PROVE  MoneyStep(A)
<1>1. /\ ledger \in [Ledgers -> Int] /\ ledger["MONEY"] >= 0 BY DEF Known, TypeOK, Books
<1>2. d.amount \in Nat /\ d.charge \in Nat /\ d.credit \in Nat /\ d.extra \in Nat BY DEF Document
<1>3. Journal(d) \in [Ledgers -> Int] /\ Journal(d)["MONEY"] \in Nat
  <2>1. CASE d.kind = "assessment" BY <1>2, <2>1 DEF Journal, NoJournal, Ledgers
  <2>2. CASE d.kind # "assessment" BY <1>2, <2>2 DEF Journal, NoJournal, Ledgers, Reduced
  <2> QED BY <2>1, <2>2
<1>4. ledger' = [l \in Ledgers |-> ledger[l] + Journal(d)[l]] BY DEF Post
<1>5. \A l \in Ledgers : ledger[l] + Journal(d)[l] \in Int BY <1>1, <1>3
<1>6. "MONEY" \in Ledgers BY DEF Ledgers
<1>7. ledger' \in [Ledgers -> Int] BY <1>4, <1>5
<1>8. ledger'["MONEY"] = ledger["MONEY"] + Journal(d)["MONEY"] BY <1>4, <1>6
<1>9. ledger["MONEY"] \in Int BY <1>1, <1>6
<1> QED BY <1>1, <1>3, <1>7, <1>8, <1>9 DEF MoneyStep

\* Money is given back, which was read to be there.
LEMMA MoneyOut ==
  ASSUME Known, NEW A, NEW d \in Document, d.charge <= d.amount, PostReversal(Journal(d)),
         CashOut(d) > 0 => CashOut(d) <= ledger["MONEY"] /\ holder[MoneyLock] \in A
  PROVE  MoneyStep(A)
<1>1. /\ ledger \in [Ledgers -> Int] /\ ledger["MONEY"] >= 0 BY DEF Known, TypeOK, Books
<1>2. d.amount \in Nat /\ d.charge \in Nat /\ d.credit \in Nat /\ d.extra \in Nat BY DEF Document
<1>3. Journal(d) \in [Ledgers -> Int] /\ Journal(d)["MONEY"] = CashOut(d) /\ CashOut(d) \in Nat
  <2>1. CASE d.kind = "assessment" BY <1>2, <2>1 DEF Journal, NoJournal, Ledgers, CashOut
  <2>2. CASE d.kind # "assessment" BY <1>2, <2>2 DEF Journal, NoJournal, Ledgers, Reduced, CashOut
  <2> QED BY <2>1, <2>2
<1>4. ledger' = [l \in Ledgers |-> ledger[l] - Journal(d)[l]] BY DEF PostReversal
<1>5. \A l \in Ledgers : ledger[l] - Journal(d)[l] \in Int BY <1>1, <1>3
<1>6. "MONEY" \in Ledgers BY DEF Ledgers
<1>7. ledger' \in [Ledgers -> Int] BY <1>4, <1>5
<1>8. ledger'["MONEY"] = ledger["MONEY"] - CashOut(d) BY <1>3, <1>4, <1>6
<1>9. ledger["MONEY"] \in Int BY <1>1, <1>6
<1> HIDE DEF MoneyStep
<1>10. CASE CashOut(d) > 0
  <2>1. ledger'["MONEY"] >= 0 BY <1>3, <1>8, <1>9, <1>10
  <2> QED BY <1>7, <1>10, <2>1 DEF MoneyStep
<1>11. CASE ~(CashOut(d) > 0)
  <2>1. ledger'["MONEY"] >= 0 /\ ledger'["MONEY"] >= ledger["MONEY"] BY <1>1, <1>3, <1>8, <1>9, <1>11
  <2> QED BY <1>7, <2>1 DEF MoneyStep
<1> QED BY <1>10, <1>11

---------------------------------------------------------------------------
(* The documents of the calls, field by field.                             *)

(* A document that has just been recorded.                                 *)
Made(kind, c, b, amount, charge, principal, commission, generic, extra, credit, at) ==
    [kind |-> kind, case |-> c, debt |-> b, amount |-> amount, charge |-> charge,
     principal |-> principal, commission |-> commission, generic |-> generic,
     extra |-> extra, credit |-> credit, at |-> at, status |-> "COMPLETED"]

\* The document of a swipe, field by field.
Swipe(c, n, charge, principal, credit, at) ==
    [NoDocument EXCEPT !.kind = "recovery", !.case = c, !.amount = n, !.charge = charge,
                       !.principal = principal, !.credit = credit, !.at = at]

\* What a swipe on a case records.
LEMMA RecoveryMade ==
  ASSUME NEW c, NEW n, NEW charge, NEW principal, NEW credit, NEW at
  PROVE  Swipe(c, n, charge, principal, credit, at)
         = Made("recovery", c, None, n, charge, principal, Nothing, 0, 0, credit, at)
<1> DEFINE d1 == [NoDocument EXCEPT !.kind = "recovery"]
           d2 == [d1 EXCEPT !.case = c]
           d3 == [d2 EXCEPT !.amount = n]
           d4 == [d3 EXCEPT !.charge = charge]
           d5 == [d4 EXCEPT !.principal = principal]
           d6 == [d5 EXCEPT !.credit = credit]
           d7 == [d6 EXCEPT !.at = at]
<1>0. NoDocument = Made("none", None, None, 0, 0, Nothing, Nothing, 0, 0, 0, 0) BY DEF NoDocument, Made
<1>1. d1 = Made("recovery", None, None, 0, 0, Nothing, Nothing, 0, 0, 0, 0) BY <1>0 DEF Made
<1> HIDE DEF d1
<1>2. d2 = Made("recovery", c, None, 0, 0, Nothing, Nothing, 0, 0, 0, 0) BY <1>1 DEF Made
<1> HIDE DEF d2
<1>3. d3 = Made("recovery", c, None, n, 0, Nothing, Nothing, 0, 0, 0, 0) BY <1>2 DEF Made
<1> HIDE DEF d3
<1>4. d4 = Made("recovery", c, None, n, charge, Nothing, Nothing, 0, 0, 0, 0) BY <1>3 DEF Made
<1> HIDE DEF d4
<1>5. d5 = Made("recovery", c, None, n, charge, principal, Nothing, 0, 0, 0, 0) BY <1>4 DEF Made
<1> HIDE DEF d5
<1>6. d6 = Made("recovery", c, None, n, charge, principal, Nothing, 0, 0, credit, 0) BY <1>5 DEF Made
<1> HIDE DEF d6
<1>7. d7 = Made("recovery", c, None, n, charge, principal, Nothing, 0, 0, credit, at) BY <1>6 DEF Made
<1> QED BY <1>7 DEF Swipe, d1, d2, d3, d4, d5, d6, d7

\* The document of a collection of commission, field by field.
Commissioned(c, n, commission, extra, at) ==
    [NoDocument EXCEPT !.kind = "commission", !.case = c, !.amount = n,
                       !.commission = commission, !.extra = extra, !.at = at]

\* What a collection of commission records.
LEMMA CommissionMade ==
  ASSUME NEW c, NEW n, NEW commission, NEW extra, NEW at
  PROVE  Commissioned(c, n, commission, extra, at)
         = Made("commission", c, None, n, 0, Nothing, commission, 0, extra, 0, at)
<1> DEFINE d1 == [NoDocument EXCEPT !.kind = "commission"]
           d2 == [d1 EXCEPT !.case = c]
           d3 == [d2 EXCEPT !.amount = n]
           d4 == [d3 EXCEPT !.commission = commission]
           d5 == [d4 EXCEPT !.extra = extra]
           d6 == [d5 EXCEPT !.at = at]
<1>0. NoDocument = Made("none", None, None, 0, 0, Nothing, Nothing, 0, 0, 0, 0) BY DEF NoDocument, Made
<1>1. d1 = Made("commission", None, None, 0, 0, Nothing, Nothing, 0, 0, 0, 0) BY <1>0 DEF Made
<1> HIDE DEF d1
<1>2. d2 = Made("commission", c, None, 0, 0, Nothing, Nothing, 0, 0, 0, 0) BY <1>1 DEF Made
<1> HIDE DEF d2
<1>3. d3 = Made("commission", c, None, n, 0, Nothing, Nothing, 0, 0, 0, 0) BY <1>2 DEF Made
<1> HIDE DEF d3
<1>4. d4 = Made("commission", c, None, n, 0, Nothing, commission, 0, 0, 0, 0) BY <1>3 DEF Made
<1> HIDE DEF d4
<1>5. d5 = Made("commission", c, None, n, 0, Nothing, commission, 0, extra, 0, 0) BY <1>4 DEF Made
<1> HIDE DEF d5
<1>6. d6 = Made("commission", c, None, n, 0, Nothing, commission, 0, extra, 0, at) BY <1>5 DEF Made
<1> QED BY <1>6 DEF Commissioned, d1, d2, d3, d4, d5, d6

\* The document of an assessment, field by field.
Assessment(c, n, at) ==
    [NoDocument EXCEPT !.kind = "assessment", !.case = c, !.amount = n, !.at = at]

\* What an assessment records.
LEMMA AssessmentMade ==
  ASSUME NEW c, NEW n, NEW at
  PROVE  Assessment(c, n, at) = Made("assessment", c, None, n, 0, Nothing, Nothing, 0, 0, 0, at)
<1> DEFINE d1 == [NoDocument EXCEPT !.kind = "assessment"]
           d2 == [d1 EXCEPT !.case = c]
           d3 == [d2 EXCEPT !.amount = n]
           d4 == [d3 EXCEPT !.at = at]
<1>0. NoDocument = Made("none", None, None, 0, 0, Nothing, Nothing, 0, 0, 0, 0) BY DEF NoDocument, Made
<1>1. d1 = Made("assessment", None, None, 0, 0, Nothing, Nothing, 0, 0, 0, 0) BY <1>0 DEF Made
<1> HIDE DEF d1
<1>2. d2 = Made("assessment", c, None, 0, 0, Nothing, Nothing, 0, 0, 0, 0) BY <1>1 DEF Made
<1> HIDE DEF d2
<1>3. d3 = Made("assessment", c, None, n, 0, Nothing, Nothing, 0, 0, 0, 0) BY <1>2 DEF Made
<1> HIDE DEF d3
<1>4. d4 = Made("assessment", c, None, n, 0, Nothing, Nothing, 0, 0, 0, at) BY <1>3 DEF Made
<1> QED BY <1>4 DEF Assessment, d1, d2, d3, d4

\* The document of a combined receipt, field by field.
Receipt(n, at, principal, commission) ==
    [NoDocument EXCEPT !.kind = "combined", !.amount = n, !.at = at,
                       !.principal = principal, !.commission = commission]

\* What a combined receipt records.
LEMMA ReceiptMade ==
  ASSUME NEW n, NEW at, NEW principal, NEW commission
  PROVE  Receipt(n, at, principal, commission)
         = Made("combined", None, None, n, 0, principal, commission, 0, 0, 0, at)
<1> DEFINE d1 == [NoDocument EXCEPT !.kind = "combined"]
           d2 == [d1 EXCEPT !.amount = n]
           d3 == [d2 EXCEPT !.at = at]
           d4 == [d3 EXCEPT !.principal = principal]
           d5 == [d4 EXCEPT !.commission = commission]
<1>0. NoDocument = Made("none", None, None, 0, 0, Nothing, Nothing, 0, 0, 0, 0) BY DEF NoDocument, Made
<1>1. d1 = Made("combined", None, None, 0, 0, Nothing, Nothing, 0, 0, 0, 0) BY <1>0 DEF Made
<1> HIDE DEF d1
<1>2. d2 = Made("combined", None, None, n, 0, Nothing, Nothing, 0, 0, 0, 0) BY <1>1 DEF Made
<1> HIDE DEF d2
<1>3. d3 = Made("combined", None, None, n, 0, Nothing, Nothing, 0, 0, 0, at) BY <1>2 DEF Made
<1> HIDE DEF d3
<1>4. d4 = Made("combined", None, None, n, 0, principal, Nothing, 0, 0, 0, at) BY <1>3 DEF Made
<1> HIDE DEF d4
<1>5. d5 = Made("combined", None, None, n, 0, principal, commission, 0, 0, 0, at) BY <1>4 DEF Made
<1> QED BY <1>5 DEF Receipt, d1, d2, d3, d4, d5

\* The document of a Pay In, field by field.
PaidIn(n, at, principal, generic, credit) ==
    [NoDocument EXCEPT !.kind = "payin", !.amount = n, !.at = at,
                       !.principal = principal, !.generic = generic, !.credit = credit]

\* What a Pay In records.
LEMMA PayInMade ==
  ASSUME NEW n, NEW at, NEW principal, NEW generic, NEW credit
  PROVE  PaidIn(n, at, principal, generic, credit)
         = Made("payin", None, None, n, 0, principal, Nothing, generic, 0, credit, at)
<1> DEFINE d1 == [NoDocument EXCEPT !.kind = "payin"]
           d2 == [d1 EXCEPT !.amount = n]
           d3 == [d2 EXCEPT !.at = at]
           d4 == [d3 EXCEPT !.principal = principal]
           d5 == [d4 EXCEPT !.generic = generic]
           d6 == [d5 EXCEPT !.credit = credit]
<1>0. NoDocument = Made("none", None, None, 0, 0, Nothing, Nothing, 0, 0, 0, 0) BY DEF NoDocument, Made
<1>1. d1 = Made("payin", None, None, 0, 0, Nothing, Nothing, 0, 0, 0, 0) BY <1>0 DEF Made
<1> HIDE DEF d1
<1>2. d2 = Made("payin", None, None, n, 0, Nothing, Nothing, 0, 0, 0, 0) BY <1>1 DEF Made
<1> HIDE DEF d2
<1>3. d3 = Made("payin", None, None, n, 0, Nothing, Nothing, 0, 0, 0, at) BY <1>2 DEF Made
<1> HIDE DEF d3
<1>4. d4 = Made("payin", None, None, n, 0, principal, Nothing, 0, 0, 0, at) BY <1>3 DEF Made
<1> HIDE DEF d4
<1>5. d5 = Made("payin", None, None, n, 0, principal, Nothing, generic, 0, 0, at) BY <1>4 DEF Made
<1> HIDE DEF d5
<1>6. d6 = Made("payin", None, None, n, 0, principal, Nothing, generic, 0, credit, at) BY <1>5 DEF Made
<1> QED BY <1>6 DEF PaidIn, d1, d2, d3, d4, d5, d6

\* The document of a collection, field by field.
Collection(b, n, at) ==
    [NoDocument EXCEPT !.kind = "collection", !.debt = b, !.amount = n, !.at = at]

\* What the collection of a receivable records.
LEMMA CollectionMade ==
  ASSUME NEW b, NEW n, NEW at
  PROVE  Collection(b, n, at) = Made("collection", None, b, n, 0, Nothing, Nothing, 0, 0, 0, at)
<1> DEFINE d1 == [NoDocument EXCEPT !.kind = "collection"]
           d2 == [d1 EXCEPT !.debt = b]
           d3 == [d2 EXCEPT !.amount = n]
           d4 == [d3 EXCEPT !.at = at]
<1>0. NoDocument = Made("none", None, None, 0, 0, Nothing, Nothing, 0, 0, 0, 0) BY DEF NoDocument, Made
<1>1. d1 = Made("collection", None, None, 0, 0, Nothing, Nothing, 0, 0, 0, 0) BY <1>0 DEF Made
<1> HIDE DEF d1
<1>2. d2 = Made("collection", None, b, 0, 0, Nothing, Nothing, 0, 0, 0, 0) BY <1>1 DEF Made
<1> HIDE DEF d2
<1>3. d3 = Made("collection", None, b, n, 0, Nothing, Nothing, 0, 0, 0, 0) BY <1>2 DEF Made
<1> HIDE DEF d3
<1>4. d4 = Made("collection", None, b, n, 0, Nothing, Nothing, 0, 0, 0, at) BY <1>3 DEF Made
<1> QED BY <1>4 DEF Collection, d1, d2, d3, d4

\* A document by its fields.
LEMMA MadeType ==
  ASSUME NEW kind \in {"recovery", "combined", "payin", "commission", "assessment", "collection"},
         NEW c \in Cases \cup {None}, NEW b \in Debts \cup {None}, NEW amount \in Nat, NEW charge \in Nat,
         NEW principal \in [Cases -> Nat], NEW commission \in [Cases -> Nat], NEW generic \in Nat,
         NEW extra \in Nat, NEW credit \in Nat, NEW at \in Nat
  PROVE  LET d == Made(kind, c, b, amount, charge, principal, commission, generic, extra, credit, at)
         IN  d \in Document /\ Standing(d)
BY DEF Made, Document, Standing

\* What the gateway takes is an amount.
LEMMA ChargeType ==
  ASSUME NEW n \in Nat
  PROVE  GatewayCharge(n) \in Nat
<1>1. GatewayRate \in Nat BY DuesAssumption
<1>2. n * GatewayRate \in Nat BY <1>1
<1>3. 2 * n * GatewayRate = 2 * (n * GatewayRate) BY <1>1
<1> DEFINE x == n * GatewayRate
<1> HIDE DEF x
<1>4. \A y \in Nat : (2 * y + 100) \div 200 \in Nat OBVIOUS
<1>5. 2 * n * GatewayRate + 100 = 2 * (n * GatewayRate) + 100 BY <1>3
<1> QED BY <1>2, <1>4, <1>5 DEF GatewayCharge

---------------------------------------------------------------------------
(* The commits that settle one case.                                       *)

\* What is known of a call that commits.
LEMMA CommitFacts ==
  ASSUME Known, NEW r \in Requests, NEW kind, Commits(r, kind)
  PROVE  /\ Running(r) /\ Ready(r, op[r], view[r]) /\ op[r].kind = kind
         /\ Checks(r, op[r], view[r]) /\ SessionStep({r}) /\ stage'[r] = -1
         /\ \A x \in Docs : x[1] = r => doc[x] = NoDocument
<1>1. Running(r) /\ op[r].kind = kind /\ AtEnd(r) /\ Checks(r, op[r], view[r]) /\ Finish(r, -1)
  BY DEF Commits
<1>2. Ready(r, op[r], view[r]) BY <1>1, AtEndReady
<1>3. SessionStep({r}) /\ stage'[r] = -1 BY <1>1, FinishEnds
<1> QED BY <1>1, <1>2, <1>3 DEF Ready

\* What is known of the row of a live case.
LEMMA LiveRow ==
  ASSUME Known, NEW c \in Live
  PROVE  /\ c \in Cases /\ case[c] \in CaseRow /\ Due[c] \in Nat
         /\ case[c].recovered \in 0..Due[c] /\ case[c].left = Due[c] - case[c].recovered
         /\ case[c].left \in Nat /\ case[c].recovered \in Nat
         /\ case[c].collected \in Nat /\ case[c].unpaid \in Nat /\ case[c].fee \in Int
         /\ case[c].unpaid = case[c].fee - case[c].collected
         /\ case[c].status = MasterStatus(case[c].recovered, case[c].left)
<1>1. c \in Cases /\ case[c] \in CaseRow /\ Due[c] \in Nat /\ CaseOK(c)
  BY DuesAssumption DEF Known, TypeOK, Books, Live
<1>2. /\ case[c].recovered \in Int /\ case[c].left \in Int /\ case[c].collected \in Int
      /\ case[c].unpaid \in Int /\ case[c].fee \in Int
  BY <1>1 DEF CaseRow
<1> QED BY <1>1, <1>2 DEF CaseOK

\* A case that was open as it was read is live.
LEMMA OpenLive ==
  ASSUME NEW c \in Cases, NEW v, v.case[c] = case[c]
  PROVE  Open(c, v) <=> c \in Live
BY DEF Open, Live

\* One case moves, the others stay.
LEMMA OneCase ==
  ASSUME Known, NEW r, NEW c \in Live, NEW p \in Int, NEW k \in Int, NEW f \in Int,
         holder[CaseLock(c)] = r, NEW row, case' = [case EXCEPT ![c] = row],
         row = Moved(case[c], p, k, f),
         0 <= case[c].recovered + p, p <= case[c].left,
         0 <= case[c].collected + k, k <= case[c].unpaid + f
  PROVE  /\ case' = [x \in Cases |-> case'[x]]
         /\ CaseFollows(r, c, p, k, f)
         /\ \A x \in Cases \ {c} : CaseFollows(r, x, 0, 0, 0)
<1>1. case \in [Cases -> CaseRow] /\ c \in Cases BY DEF Known, TypeOK, Live
<1>2. case'[c] = row /\ \A x \in Cases \ {c} : case'[x] = case[x] BY <1>1
<1>3. case' = [x \in Cases |-> case'[x]] BY <1>1
<1>4. CaseMoved({r}, c, p, k, f) BY <1>2 DEF CaseMoved
<1> QED BY <1>2, <1>3, <1>4 DEF CaseFollows

(* What a document says of the one case it is about.                       *)
SaysOf(d, c, p, k, f) ==
    /\ Principal(c)[d] = p /\ CommissionPaid(c)[d] = k /\ FeeAdded(c)[d] = f
    /\ \A x \in Cases \ {c} :
         Principal(x)[d] = 0 /\ CommissionPaid(x)[d] = 0 /\ FeeAdded(x)[d] = 0

(* The commit of r records d, which settles something of case c.           *)
Settles(r, d, c, p, k, f, row) ==
    /\ d \in Document /\ Standing(d) /\ DocumentOK(d) /\ SaysOf(d, c, p, k, f)
    /\ d.case \in {None, c} /\ d.debt = None /\ Settled(d) \subseteq {c}
    /\ doc' = [doc EXCEPT ![<<r, "main">>] = d] /\ stage'[r] = -1 /\ debt' = debt
    /\ Post(Journal(d))
    /\ c \in Live /\ holder[CaseLock(c)] = r /\ p \in Int /\ k \in Int /\ f \in Int
    /\ case' = [case EXCEPT ![c] = row] /\ row = Moved(case[c], p, k, f)
    /\ 0 <= case[c].recovered + p /\ p <= case[c].left
    /\ 0 <= case[c].collected + k /\ k <= case[c].unpaid + f

\* Such a document is recorded.
LEMMA CaseRecorded ==
  ASSUME Known, NEW r \in Requests, Running(r), \A x \in Docs : x[1] = r => doc[x] = NoDocument,
         NEW d, NEW c, NEW p, NEW k, NEW f, NEW row, Settles(r, d, c, p, k, f, row)
  PROVE  StepFrom({r})
<1>0. c \in Live /\ p \in Int /\ k \in Int /\ f \in Int /\ d \in Document BY DEF Settles
<1>1. /\ case' = [x \in Cases |-> case'[x]] /\ CaseFollows(r, c, p, k, f)
      /\ \A x \in Cases \ {c} : CaseFollows(r, x, 0, 0, 0)
  BY <1>0, OneCase DEF Settles
<1>2. debt' \in [Debts -> DebtRow] BY DEF Known, TypeOK, Settles
<1>3. MoneyStep({r})
  <2>1. d.charge <= d.amount BY DEF DocumentOK, Settles
  <2> QED BY <1>0, <2>1, MoneyIn DEF Settles
<1>4. \A x \in Cases : d.case = x \/ x \in Settled(d) => x \in Live
  <2>1. d.case \in {None, c} /\ Settled(d) \subseteq {c} BY DEF Settles
  <2>2. None \notin Cases BY DuesAssumption
  <2> QED BY <1>0, <2>1, <2>2
<1>5. d.debt \notin Debts BY DuesAssumption DEF Settles
<1>6. ASSUME NEW x \in Cases
      PROVE  CaseFollows(r, x, Principal(x)[d], CommissionPaid(x)[d], FeeAdded(x)[d])
  <2>1. SaysOf(d, c, p, k, f) BY DEF Settles
  <2>2. CASE x = c BY <1>1, <2>1, <2>2 DEF SaysOf
  <2>3. CASE x # c
    <3>1. Principal(x)[d] = 0 /\ CommissionPaid(x)[d] = 0 /\ FeeAdded(x)[d] = 0
      BY <2>1, <2>3 DEF SaysOf
    <3> QED BY <1>1, <2>3, <3>1
  <2> QED BY <2>2, <2>3
<1>7. ASSUME NEW b \in Debts PROVE DebtFollows(r, b, Collected(b)[d])
  <2>1. Collected(b)[d] = 0 BY <1>0, <1>5 DEF Collected
  <2> QED BY <2>1 DEF DebtFollows, Settles
<1>8. /\ Standing(d) /\ DocumentOK(d) /\ doc' = [doc EXCEPT ![<<r, "main">>] = d]
      /\ stage'[r] = -1
  BY DEF Settles
<1> QED BY <1>0, <1>1, <1>2, <1>3, <1>4, <1>5, <1>6, <1>7, <1>8, Recorded

(* A recovery of n from case c, of which `left` was to be recovered.       *)
RecoversFrom(d, c, n, left) ==
    LET p == Smaller(left, n)
    IN  /\ d \in Document /\ Standing(d) /\ DocumentOK(d) /\ SaysOf(d, c, p, 0, 0)
        /\ d.kind = "recovery" /\ d.case = c /\ d.debt = None /\ Settled(d) \subseteq {c}
        /\ d.amount = n /\ d.charge = GatewayCharge(n) /\ d.principal[c] = p
        /\ d.credit = n - p /\ p \in 0..left /\ p <= n

\* What the recovery of a case says.
LEMMA RecoverySays ==
  ASSUME NEW c \in Cases, NEW n \in Nat, NEW left \in Nat, NEW at \in Nat, GatewayCharge(n) <= n
  PROVE  RecoversFrom(Recovery(c, n, left, at), c, n, left)
<1> DEFINE p == Smaller(left, n)
           charge == GatewayCharge(n)
           principal == [Nothing EXCEPT ![c] = p]
           d == Made("recovery", c, None, n, charge, principal, Nothing, 0, 0, n - p, at)
<1>1. p \in 0..left /\ p <= n /\ p \in Nat /\ n - p \in Nat BY DEF Smaller
<1>2. charge \in Nat BY ChargeType
<1>3. /\ principal \in [Cases -> Nat] /\ principal[c] = p
      /\ \A x \in Cases \ {c} : principal[x] = 0
  <2> HIDE DEF p
  <2> QED BY <1>1 DEF Nothing
<1>4. Recovery(c, n, left, at) = d
  <2>1. Larger(left, 0) = left BY DEF Larger
  <2>2. Recovery(c, n, left, at) =
          Swipe(c, n, charge, principal, n - p, at)
    BY <2>1 DEF Recovery, Swipe
  <2> HIDE DEF p, charge, principal
  <2> QED BY <2>2, RecoveryMade
<1> HIDE DEF p, charge, principal
<1>5. Nothing \in [Cases -> Nat] /\ \A x \in Cases : Nothing[x] = 0 BY DEF Nothing
<1>6. d \in Document /\ Standing(d) BY <1>1, <1>2, <1>3, <1>5, MadeType
<1>7. /\ d.kind = "recovery" /\ d.case = c /\ d.debt = None /\ d.amount = n /\ d.charge = charge
      /\ d.principal = principal /\ d.commission = Nothing /\ d.extra = 0 /\ d.credit = n - p
      /\ d.generic = 0
  BY DEF Made
<1> HIDE DEF d
<1>8. n - (n - p) = p BY <1>1
<1>9. DocumentOK(d)
  <2>1. d.charge <= d.amount BY <1>7 DEF charge
  <2>2. Only(c, principal) BY <1>3 DEF Only
  <2>3. AddsUp(d) BY <1>7 DEF AddsUp
  <2> QED BY <1>3, <1>7, <1>8, <2>1, <2>2, <2>3 DEF DocumentOK
<1>10. Settled(d) \subseteq {c} BY <1>3, <1>5, <1>7 DEF Settled
<1>11. SaysOf(d, c, p, 0, 0)
  BY <1>3, <1>5, <1>6, <1>7 DEF SaysOf, Principal, CommissionPaid, FeeAdded
<1> QED BY <1>1, <1>3, <1>4, <1>6, <1>7, <1>9, <1>10, <1>11 DEF p, charge, RecoversFrom

\* recordRecoveryTx().
LEMMA RecoverKeeps ==
  ASSUME Known, NEW r \in Requests, Recover(r)
  PROVE  StepFrom({r}) /\ SessionStep({r})
<1> DEFINE o == op[r]
           v == view[r]
           c == o.case
           n == o.amount
           d == Recovery(c, n, v.case[c].left, Now)
           p == Smaller(case[c].left, n)
           row == Receive(v.case[c], d.principal[c], 0)
<1>1. /\ Running(r) /\ Ready(r, o, v) /\ o.kind = "recover" /\ RecoverChecks(o, v)
      /\ SessionStep({r}) /\ stage'[r] = -1 /\ \A x \in Docs : x[1] = r => doc[x] = NoDocument
  BY CommitFacts DEF Recover, Checks
<1>2. /\ doc' = [doc EXCEPT ![<<r, "main">>] = d] /\ case' = [case EXCEPT ![c] = row]
      /\ Post(Journal(d)) /\ debt' = debt
  BY DEF Recover, RecoverEffect
<1> HIDE DEF o, v
<1>3. c \in Cases /\ n \in Nat /\ v.case[c] = case[c] /\ holder[CaseLock(c)] = r
  <2>1. c \in Cases /\ n \in Nat BY <1>1 DEF Ready, CallOK, OfCase, Operation
  <2>2. c \in Mine(o, v) /\ o.kind \notin OfDebt BY <1>1, <2>1 DEF Mine, Many, OfDebt
  <2> QED BY <1>1, <2>1, <2>2 DEF Ready
<1>4. c \in Live /\ GatewayCharge(n) <= n
  <2>1. GatewayCharge(n) \in Nat BY <1>3, ChargeType
  <2> QED BY <1>1, <1>3, <2>1, OpenLive DEF RecoverChecks
<1>5. /\ case[c] \in CaseRow /\ case[c].left \in Nat /\ case[c].recovered \in Nat
      /\ case[c].collected \in Nat /\ case[c].unpaid \in Nat
  BY <1>4, LiveRow
<1>6. Now \in Nat BY NowType DEF Known
<1> HIDE DEF c, n
<1>7. RecoversFrom(d, c, n, case[c].left) BY <1>3, <1>4, <1>5, <1>6, RecoverySays
<1> HIDE DEF d
<1>8. p \in Int /\ p <= case[c].left /\ 0 <= case[c].recovered + p /\ d.principal[c] = p
  BY <1>5, <1>7 DEF RecoversFrom
<1> HIDE DEF p
<1>9. row = Moved(case[c], p, 0, 0) BY <1>3, <1>5, <1>8, ReceiveMoves
<1>10. 0 <= case[c].collected + 0 /\ 0 <= case[c].unpaid + 0 BY <1>5
<1> HIDE DEF row
<1>11. Settles(r, d, c, p, 0, 0, row)
  BY <1>1, <1>2, <1>3, <1>4, <1>7, <1>8, <1>9, <1>10 DEF Settles, RecoversFrom, p
<1>12. StepFrom({r}) BY <1>1, <1>11, CaseRecorded
<1> QED BY <1>1, <1>12

\* The call of a case, as it commits: the case has been locked and read.
LEMMA OwnCase ==
  ASSUME Known, NEW r \in Requests, NEW o, NEW v, Ready(r, o, v),
         o.kind \in {"recover", "commission", "assess"} \cup CaseUndo
  PROVE  /\ o.case \in Cases /\ o.amount \in Nat
         /\ v.case[o.case] = case[o.case] /\ holder[CaseLock(o.case)] = r
<1>1. o.case \in Cases /\ o.amount \in Nat BY DEF Ready, CallOK, OfCase, Operation
<1>2. o.case \in Mine(o, v) /\ o.kind \notin OfDebt /\ o.kind # "reverseCase"
  BY <1>1 DEF Mine, Many, OfDebt, CaseUndo
<1> QED BY <1>1, <1>2 DEF Ready

\* recordCommissionTx().
LEMMA CommissionKeeps ==
  ASSUME Known, NEW r \in Requests, Commission(r)
  PROVE  StepFrom({r}) /\ SessionStep({r})
<1> DEFINE o == op[r]
           v == view[r]
           c == o.case
           n == o.amount
           old == v.case[c]
           accrued == Smaller(Larger(old.unpaid, 0), n)
           extra == n - accrued
           commission == [Nothing EXCEPT ![c] = n]
           d == Commissioned(c, n, commission, extra, Now)
           status == MasterStatus(old.recovered, old.left)
           row == Paid(old, old.fee + extra, old.collected + n, Larger(0, old.unpaid - accrued), status)
<1>1. /\ Running(r) /\ Ready(r, o, v) /\ o.kind = "commission" /\ CommissionChecks(o, v)
      /\ SessionStep({r}) /\ stage'[r] = -1 /\ \A x \in Docs : x[1] = r => doc[x] = NoDocument
  BY CommitFacts DEF Commission, Checks
<1>2. /\ doc' = [doc EXCEPT ![<<r, "main">>] = d] /\ case' = [case EXCEPT ![c] = row]
      /\ Post(Journal(d)) /\ debt' = debt
  BY DEF Commission, CommissionEffect, Commissioned, Paid
<1> HIDE DEF o, v, row, d
<1>3. c \in Cases /\ n \in Nat /\ old = case[c] /\ holder[CaseLock(c)] = r BY <1>1, OwnCase
<1>4. c \in Live BY <1>1, <1>3, OpenLive DEF CommissionChecks
<1>5. /\ old \in CaseRow /\ old.left \in Nat /\ old.recovered \in Nat /\ old.fee \in Int
      /\ old.collected \in Nat /\ old.unpaid \in Nat
  BY <1>3, <1>4, LiveRow
<1> HIDE DEF old, c, n
<1>6. Now \in Nat BY NowType DEF Known
<1>7. accrued \in Nat /\ accrued <= n /\ accrued <= old.unpaid /\ extra \in Nat /\ extra <= n
  BY <1>3, <1>5 DEF Smaller, Larger
<1>8. Larger(0, old.unpaid - accrued) = old.unpaid + extra - n BY <1>3, <1>5, <1>7 DEF Larger
<1>9. n <= old.unpaid + extra BY <1>3, <1>5, <1>7
<1> HIDE DEF accrued, extra, status
<1>10. row = Row(old.recovered, old.left, old.fee + extra, old.collected + n,
                 Larger(0, old.unpaid - accrued), old.born, status)
  BY <1>5, CommissionRow DEF row
<1>11. row = Moved(old, 0, n, extra)
  <2>1. old.recovered + 0 = old.recovered /\ old.left - 0 = old.left BY <1>5
  <2> QED BY <1>8, <1>10, <2>1 DEF Moved, Row, status
<1>12. /\ commission \in [Cases -> Nat] /\ commission[c] = n
       /\ \A x \in Cases \ {c} : commission[x] = 0
  BY <1>3 DEF Nothing
<1> HIDE DEF commission
<1>13. d = Made("commission", c, None, n, 0, Nothing, commission, 0, extra, 0, Now)
  BY CommissionMade DEF d
<1>14. Nothing \in [Cases -> Nat] /\ \A x \in Cases : Nothing[x] = 0 BY DEF Nothing
<1>15. d \in Document /\ Standing(d)
  BY <1>3, <1>6, <1>7, <1>12, <1>13, <1>14, MadeType
<1>16. /\ d.kind = "commission" /\ d.case = c /\ d.debt = None /\ d.amount = n /\ d.charge = 0
       /\ d.principal = Nothing /\ d.commission = commission /\ d.extra = extra
       /\ d.generic = 0 /\ d.credit = 0
  BY <1>13 DEF Made
<1>17. DocumentOK(d)
  <2>1. d.charge <= d.amount BY <1>3, <1>16
  <2>2. Only(c, commission) BY <1>12 DEF Only
  <2>3. AddsUp(d) BY <1>16 DEF AddsUp
  <2> QED BY <1>3, <1>7, <1>12, <1>16, <2>1, <2>2, <2>3 DEF DocumentOK
<1>18. Settled(d) \subseteq {c} BY <1>12, <1>14, <1>16 DEF Settled
<1>19. SaysOf(d, c, 0, n, extra)
  BY <1>3, <1>12, <1>14, <1>15, <1>16 DEF SaysOf, Principal, CommissionPaid, FeeAdded
<1>20. 0 <= old.recovered + 0 /\ 0 <= old.left /\ 0 <= old.collected + n BY <1>3, <1>5
<1>21. Settles(r, d, c, 0, n, extra, row)
  BY <1>1, <1>2, <1>3, <1>4, <1>7, <1>9, <1>11, <1>15, <1>16, <1>17, <1>18, <1>19, <1>20 DEF Settles
<1>22. StepFrom({r}) BY <1>1, <1>21, CaseRecorded
<1> QED BY <1>1, <1>22

\* assessCommission().
LEMMA AssessKeeps ==
  ASSUME Known, NEW r \in Requests, Assess(r)
  PROVE  StepFrom({r}) /\ SessionStep({r})
<1> DEFINE o == op[r]
           v == view[r]
           c == o.case
           n == o.amount
           old == case[c]
           d == Assessment(c, n, Now)
           row == Assessed(old, v.case[c].fee + n, v.case[c].unpaid + n)
<1>1. /\ Running(r) /\ Ready(r, o, v) /\ o.kind = "assess" /\ AssessChecks(o, v)
      /\ SessionStep({r}) /\ stage'[r] = -1 /\ \A x \in Docs : x[1] = r => doc[x] = NoDocument
  BY CommitFacts DEF Assess, Checks
<1>2. /\ doc' = [doc EXCEPT ![<<r, "main">>] = d] /\ case' = [case EXCEPT ![c] = row]
      /\ Post(Journal(d)) /\ debt' = debt
  BY DEF Assess, AssessEffect, Assessment, Assessed
<1> HIDE DEF o, v, d
<1>3. c \in Cases /\ n \in Nat /\ v.case[c] = old /\ holder[CaseLock(c)] = r BY <1>1, OwnCase
<1>4. c \in Live BY <1>1, <1>3, OpenLive DEF AssessChecks
<1>5. /\ old \in CaseRow /\ old.left \in Nat /\ old.recovered \in Nat /\ old.fee \in Int
      /\ old.collected \in Nat /\ old.unpaid \in Nat
      /\ old.status = MasterStatus(old.recovered, old.left)
  BY <1>4, LiveRow
<1>6. row = Assessed(old, old.fee + n, old.unpaid + n) BY <1>3
<1> HIDE DEF old, c, n, row
<1>7. Now \in Nat BY NowType DEF Known
<1>8. row = Row(old.recovered, old.left, old.fee + n, old.collected, old.unpaid + n, old.born, old.status)
  BY <1>5, <1>6, AssessRow
<1>9. row = Moved(old, 0, 0, n)
  <2>1. /\ old.recovered + 0 = old.recovered /\ old.left - 0 = old.left
        /\ old.collected + 0 = old.collected /\ old.unpaid + n - 0 = old.unpaid + n
    BY <1>3, <1>5
  <2> QED BY <1>5, <1>8, <2>1 DEF Moved, Row
<1>10. d = Made("assessment", c, None, n, 0, Nothing, Nothing, 0, 0, 0, Now)
  BY AssessmentMade DEF d
<1>11. Nothing \in [Cases -> Nat] /\ \A x \in Cases : Nothing[x] = 0 BY DEF Nothing
<1>12. d \in Document /\ Standing(d) BY <1>3, <1>7, <1>10, <1>11, MadeType
<1>13. /\ d.kind = "assessment" /\ d.case = c /\ d.debt = None /\ d.amount = n /\ d.charge = 0
       /\ d.principal = Nothing /\ d.commission = Nothing /\ d.extra = 0
       /\ d.generic = 0 /\ d.credit = 0
  BY <1>10 DEF Made
<1>14. DocumentOK(d)
  <2>1. d.charge <= d.amount BY <1>3, <1>13
  <2>2. AddsUp(d) BY <1>13 DEF AddsUp
  <2> QED BY <1>3, <1>13, <2>1, <2>2 DEF DocumentOK
<1>15. Settled(d) \subseteq {c} BY <1>11, <1>13 DEF Settled
<1>16. SaysOf(d, c, 0, 0, n)
  BY <1>3, <1>11, <1>12, <1>13 DEF SaysOf, Principal, CommissionPaid, FeeAdded
<1>17. 0 <= old.recovered + 0 /\ 0 <= old.left /\ 0 <= old.collected + 0 /\ 0 <= old.unpaid + n
  BY <1>3, <1>5
<1>18. Settles(r, d, c, 0, 0, n, row)
  BY <1>1, <1>2, <1>3, <1>4, <1>9, <1>12, <1>13, <1>14, <1>15, <1>16, <1>17 DEF Settles, old
<1>19. StepFrom({r}) BY <1>1, <1>18, CaseRecorded
<1> QED BY <1>1, <1>19

\* collect().
LEMMA CollectKeeps ==
  ASSUME Known, NEW r \in Requests, Collect(r)
  PROVE  StepFrom({r}) /\ SessionStep({r})
<1> DEFINE o == op[r]
           v == view[r]
           b == o.debt
           n == o.amount
           d == Collection(b, n, Now)
           remaining == Larger(0, v.debt.remaining - n)
           status == IF remaining = 0 THEN "RECEIVED"
                     ELSE IF DueDay[b] < today THEN "OVERDUE" ELSE "PARTIALLY_RECEIVED"
           row == [debt[b] EXCEPT !.received = v.debt.received + n, !.remaining = remaining,
                                  !.status = status]
<1>1. /\ Running(r) /\ Ready(r, o, v) /\ o.kind = "collect" /\ CollectChecks(o, v)
      /\ SessionStep({r}) /\ stage'[r] = -1 /\ \A x \in Docs : x[1] = r => doc[x] = NoDocument
  BY CommitFacts DEF Collect, Checks
<1>2. /\ doc' = [doc EXCEPT ![<<r, "main">>] = d] /\ debt' = [debt EXCEPT ![b] = row]
      /\ Post(Journal(d)) /\ case' = case
  BY DEF Collect, CollectEffect, Collection
<1> HIDE DEF o, v, d
<1>3. /\ b \in Debts /\ n \in Nat \ {0} /\ holder[DebtLock(b)] = r
      /\ v.debt.received = debt[b].received /\ v.debt.remaining = debt[b].remaining
      /\ v.debt.source = debt[b].source /\ v.debt.status = debt[b].status
  <2>1. o.kind \in OfDebt /\ o.kind \in Recording /\ o.kind # "reverseDebt"
    BY <1>1 DEF OfDebt, Recording
  <2>2. n \in Nat /\ n > 0 BY <1>1, <2>1 DEF Ready, Operation, CallOK
  <2> QED BY <1>1, <2>1, <2>2 DEF Ready
<1>4. debt[b] \in DebtRow /\ DebtOK(b) /\ debt[b].source # "ABSENT" /\ Owing[b] \in Nat
  <2>1. CallFits(o) BY <1>1 DEF Ready
  <2> QED BY <1>3, <2>1, DuesAssumption DEF Known, TypeOK, Books, CallFits
<1>5. debt[b].status \in Collectable /\ n <= debt[b].remaining BY <1>1, <1>3 DEF CollectChecks
<1>6. /\ debt[b].source = "COMPLETED" /\ debt[b].received \in Nat /\ debt[b].remaining \in Nat
  <2>1. debt[b].source = "COMPLETED" BY <1>4, <1>5 DEF DebtOK, Collectable, DebtRow
  <2>2. debt[b].received \in Int /\ debt[b].remaining \in Int BY <1>4 DEF DebtRow
  <2> QED BY <1>4, <2>1, <2>2 DEF DebtOK
<1>7. remaining = debt[b].remaining - n /\ remaining \in Nat BY <1>3, <1>5, <1>6 DEF Larger
<1>8. status \in {"RECEIVED", "OVERDUE", "PARTIALLY_RECEIVED"} OBVIOUS
<1> HIDE DEF remaining, status
<1>9. /\ row.received = debt[b].received + n /\ row.remaining = debt[b].remaining - n
      /\ row.source = debt[b].source /\ row.status = status /\ row \in DebtRow
  <2>1. v.debt.received + n \in Int /\ remaining \in Int BY <1>3, <1>6, <1>7
  <2> QED BY <1>3, <1>4, <1>7, <1>8, <2>1 DEF DebtRow
<1> HIDE DEF row, b, n
<1>10. debt' \in [Debts -> DebtRow] /\ debt'[b] = row /\ \A x \in Debts \ {b} : debt'[x] = debt[x]
  BY <1>2, <1>3, <1>9 DEF Known, TypeOK
<1>11. DebtMoved({r}, b, n)
  BY <1>3, <1>5, <1>6, <1>8, <1>9, <1>10 DEF DebtMoved, Closed
<1>12. Now \in Nat BY NowType DEF Known
<1>13. d = Made("collection", None, b, n, 0, Nothing, Nothing, 0, 0, 0, Now)
  BY CollectionMade DEF d
<1>14. Nothing \in [Cases -> Nat] /\ \A x \in Cases : Nothing[x] = 0 BY DEF Nothing
<1>15. d \in Document /\ Standing(d) BY <1>3, <1>12, <1>13, <1>14, MadeType
<1>16. /\ d.kind = "collection" /\ d.case = None /\ d.debt = b /\ d.amount = n /\ d.charge = 0
       /\ d.principal = Nothing /\ d.commission = Nothing /\ d.extra = 0
       /\ d.generic = 0 /\ d.credit = 0
  BY <1>13 DEF Made
<1>17. DocumentOK(d)
  <2>1. d.charge <= d.amount /\ d.amount > 0 BY <1>3, <1>16
  <2>2. AddsUp(d) BY <1>16 DEF AddsUp
  <2> QED BY <1>3, <1>16, <2>1, <2>2 DEF DocumentOK
<1>18. None \notin Cases /\ Settled(d) = {} BY <1>14, <1>16, DuesAssumption DEF Settled
<1>19. ASSUME NEW x \in Cases
       PROVE  CaseFollows(r, x, Principal(x)[d], CommissionPaid(x)[d], FeeAdded(x)[d])
  <2>1. Principal(x)[d] = 0 /\ CommissionPaid(x)[d] = 0 /\ FeeAdded(x)[d] = 0
    BY <1>14, <1>15, <1>16, <1>18 DEF Principal, CommissionPaid, FeeAdded
  <2> QED BY <1>2, <2>1 DEF CaseFollows
<1>20. ASSUME NEW x \in Debts PROVE DebtFollows(r, x, Collected(x)[d])
  <2>1. Collected(x)[d] = IF x = b THEN n ELSE 0 BY <1>15, <1>16 DEF Collected
  <2>2. CASE x = b BY <1>11, <2>1, <2>2 DEF DebtFollows
  <2>3. CASE x # b BY <1>10, <2>1, <2>3 DEF DebtFollows
  <2> QED BY <2>2, <2>3
<1>21. MoneyStep({r})
  <2>1. d.charge <= d.amount BY <1>17 DEF DocumentOK
  <2> QED BY <1>2, <1>15, <2>1, MoneyIn
<1>22. case' = [x \in Cases |-> case'[x]] BY <1>2 DEF Known, TypeOK
<1>23. StepFrom({r})
  <2>1. \A x \in Cases : d.case = x \/ x \in Settled(d) => x \in Live BY <1>16, <1>18
  <2>2. d.debt \in Debts => debt[d.debt].source # "ABSENT" BY <1>4, <1>16
  <2> QED BY <1>1, <1>2, <1>10, <1>15, <1>17, <1>19, <1>20, <1>21, <1>22, <2>1, <2>2, Recorded
<1> QED BY <1>1, <1>23

---------------------------------------------------------------------------
(* Receipts that settle several cases.                                     *)

\* The sum over a part of a finite set is a number.
LEMMA PartSum ==
  ASSUME NEW S, IsFiniteSet(S), NEW f \in [S -> Int], NEW A \in SUBSET S
  PROVE  SumFunctionOnSet(f, A) = PartialSums(f, S)[A] /\ SumFunctionOnSet(f, A) \in Int
<1>1. IsPartialSums(f, S, PartialSums(f, S)) /\ PartialSums(f, S) \in [SUBSET S -> Int] BY PartialSumsOf
<1>2. PICK g \in [SUBSET A -> Int] : IsPartialSums(f, A, g) BY PartialSumsExist
<1>3. IsPartialSums(f, A, PartialSums(f, A)) BY <1>2 DEF IsPartialSums, PartialSums
<1>4. PartialSums(f, S)[A] = PartialSums(f, A)[A] BY <1>1, <1>3, PartialSumsUnique
<1>5. SumFunctionOnSet(f, A) = PartialSums(f, A)[A]
  BY DEF SumFunctionOnSet, FoldFunctionOnSet, MapThenFoldSet, PartialSums, FirstOf
<1> QED BY <1>1, <1>4, <1>5

\* What falls to a case is at most its room.
LEMMA ShareFits ==
  ASSUME NEW n \in Int, NEW S \in SUBSET Cases, NEW room \in [S -> Nat], NEW c \in S
  PROVE  Share(n, c, S, room) \in 0..room[c] /\ Excess(n, S, room) \in Nat
<1>1. IsFiniteSet(S) BY DuesAssumption, FS_Subset
<1>2. room \in [S -> Int] /\ Older(c, S) \in SUBSET S BY DEF Older
<1>3. SumFunctionOnSet(room, Older(c, S)) \in Int BY <1>1, <1>2, PartSum
<1>4. SumFunctionOnSet(room, S) \in Int BY <1>1, <1>2, PartSum
<1>5. room[c] \in Nat OBVIOUS
<1>6. Larger(0, n - SumFunctionOnSet(room, Older(c, S))) \in Nat
      /\ Larger(0, n - SumFunctionOnSet(room, S)) \in Nat
  BY <1>3, <1>4 DEF Larger
<1>7. \A m \in Nat : Smaller(room[c], m) \in 0..room[c] BY <1>5 DEF Smaller
<1> QED BY <1>6, <1>7 DEF Share, Excess

(* What a receipt settles of the cases has been read and is locked.        *)
ReceiptCovered(r, d, v) ==
    \A c \in Settled(d) :
        /\ c \in Live /\ v.case[c] = case[c] /\ holder[CaseLock(c)] = r
        /\ d.principal[c] <= case[c].left /\ d.commission[c] <= case[c].unpaid

\* A receipt is recorded.
LEMMA ReceiptRecorded ==
  ASSUME Known, NEW r \in Requests, Running(r), \A x \in Docs : x[1] = r => doc[x] = NoDocument,
         NEW d \in Document, Standing(d), DocumentOK(d), d.kind \in {"combined", "payin"},
         NEW v, TakeReceipt(d, v), ReceiptCovered(r, d, v),
         doc' = [doc EXCEPT ![<<r, "main">>] = d], stage'[r] = -1, debt' = debt, Post(Journal(d))
  PROVE  StepFrom({r})
<1>1. d.case = None /\ d.debt = None /\ d.extra = 0 /\ d.charge <= d.amount
      /\ None \notin Cases /\ None \notin Debts
  BY DuesAssumption DEF DocumentOK
<1>2. case' = [x \in Cases |-> case'[x]] BY DEF TakeReceipt
<1>3. ASSUME NEW c \in Cases
      PROVE  CaseFollows(r, c, Principal(c)[d], CommissionPaid(c)[d], FeeAdded(c)[d])
  <2>1. /\ Principal(c)[d] = d.principal[c] /\ CommissionPaid(c)[d] = d.commission[c]
        /\ FeeAdded(c)[d] = 0
    BY <1>1 DEF Principal, CommissionPaid, FeeAdded
  <2>2. d.principal[c] \in Nat /\ d.commission[c] \in Nat BY DEF Document
  <2>3. CASE c \in Settled(d)
    <3>1. /\ c \in Live /\ v.case[c] = case[c] /\ holder[CaseLock(c)] = r
          /\ d.principal[c] <= case[c].left /\ d.commission[c] <= case[c].unpaid
      BY <2>3 DEF ReceiptCovered
    <3>2. /\ case[c] \in CaseRow /\ case[c].recovered \in Nat /\ case[c].collected \in Nat
          /\ case[c].unpaid \in Nat
      BY <3>1, LiveRow
    <3>3. case'[c] = Receive(case[c], d.principal[c], d.commission[c])
      BY <2>3, <3>1 DEF TakeReceipt
    <3>4. @ = Moved(case[c], d.principal[c], d.commission[c], 0)
      BY <2>2, <3>1, <3>2, ReceiveMoves
    <3>5. /\ 0 <= case[c].recovered + d.principal[c] /\ 0 <= case[c].collected + d.commission[c]
          /\ d.commission[c] <= case[c].unpaid + 0
      BY <2>2, <3>1, <3>2
    <3>6. CaseMoved({r}, c, d.principal[c], d.commission[c], 0)
      BY <3>1, <3>3, <3>4, <3>5 DEF CaseMoved
    <3> QED BY <2>1, <3>6 DEF CaseFollows
  <2>4. CASE c \notin Settled(d)
    <3>1. d.principal[c] = 0 /\ d.commission[c] = 0 BY <2>2, <2>4 DEF Settled
    <3>2. case'[c] = case[c] BY <2>4 DEF TakeReceipt
    <3> QED BY <2>1, <3>1, <3>2 DEF CaseFollows
  <2> QED BY <2>3, <2>4
<1>4. ASSUME NEW b \in Debts PROVE DebtFollows(r, b, Collected(b)[d])
  <2>1. Collected(b)[d] = 0 BY <1>1 DEF Collected
  <2> QED BY <2>1 DEF DebtFollows
<1>5. MoneyStep({r}) BY <1>1, MoneyIn
<1>6. \A c \in Cases : d.case = c \/ c \in Settled(d) => c \in Live BY <1>1 DEF ReceiptCovered
<1>7. debt' \in [Debts -> DebtRow] BY DEF Known, TypeOK
<1> QED BY <1>1, <1>2, <1>3, <1>4, <1>5, <1>6, <1>7, Recorded

\* createCardLedgerEntry(), a Pay In.
LEMMA PayInKeeps ==
  ASSUME Known, NEW r \in Requests, TakePayIn(r)
  PROVE  StepFrom({r}) /\ SessionStep({r})
<1> DEFINE o == op[r]
           v == view[r]
           n == o.amount
           unmatched == n - o.part
           generic == Smaller(unmatched, Larger(-(v.claim + o.part), 0))
           principal == [c \in Cases |-> IF c = o.case THEN o.part ELSE 0]
           d == PaidIn(n, Now, principal, generic, unmatched - generic)
<1>1. /\ Running(r) /\ Ready(r, o, v) /\ o.kind = "payin" /\ PayInChecks(o, v)
      /\ SessionStep({r}) /\ stage'[r] = -1 /\ \A x \in Docs : x[1] = r => doc[x] = NoDocument
  BY CommitFacts DEF TakePayIn, Checks
<1>2. d = PayIn(o, v) BY DEF PayIn, PaidIn
<1>3. /\ doc' = [doc EXCEPT ![<<r, "main">>] = PayIn(o, v)] /\ TakeReceipt(PayIn(o, v), v)
      /\ Post(Journal(PayIn(o, v))) /\ debt' = debt
  BY DEF TakePayIn, PayInEffect
<1> HIDE DEF o, v, d
<1>4. /\ o \in Operation /\ v \in View /\ CallOK(o) /\ o.kind \notin OfDebt
      /\ Mine(o, v) = {o.case} \cap Cases
  BY <1>1 DEF Ready, OfDebt, Mine, Many
<1>5. n \in Nat /\ o.part \in Nat /\ o.part <= n /\ v.claim \in Int
  BY <1>1, <1>4 DEF Operation, View, CallOK
<1> HIDE DEF n
<1>6. generic \in Nat /\ unmatched - generic \in Nat BY <1>5 DEF Smaller, Larger
<1>7. principal \in [Cases -> Nat] BY <1>5
<1>8. Now \in Nat BY NowType DEF Known
<1>9. Nothing \in [Cases -> Nat] /\ \A x \in Cases : Nothing[x] = 0 BY DEF Nothing
<1>17. SumFunction(principal) = o.part
  <2>1. principal \in [Cases -> Int] /\ IsFiniteSet(Cases) BY <1>7, DuesAssumption
  <2>2. CASE o.case \in Cases
    <3>1. principal[o.case] = o.part /\ \A c \in Cases \ {o.case} : principal[c] = 0 BY <2>2
    <3> HIDE DEF principal
    <3>2. SumFunction(principal) = principal[o.case] BY <2>1, <2>2, <3>1, SumOfOne
    <3> QED BY <3>1, <3>2
  <2>3. CASE o.case \notin Cases
    <3>1. \A c \in Cases : principal[c] = 0 BY <2>3
    <3>2. o.case = None BY <1>4, <2>3 DEF Operation
    <3>3. o.part = 0 BY <1>1, <1>4, <3>2 DEF CallOK
    <3> HIDE DEF principal
    <3>4. SumFunction(principal) = 0 BY <2>1, <3>1, SumZero
    <3> QED BY <3>3, <3>4
  <2> QED BY <2>2, <2>3
<1>18. n = o.part + generic + (unmatched - generic) BY <1>5, <1>6
<1> HIDE DEF principal, generic, unmatched
<1>10. d = Made("payin", None, None, n, 0, principal, Nothing, generic, 0, unmatched - generic, Now)
  BY PayInMade DEF d
<1>11. d \in Document /\ Standing(d) BY <1>5, <1>6, <1>7, <1>8, <1>9, <1>10, MadeType
<1>12. /\ d.kind = "payin" /\ d.case = None /\ d.debt = None /\ d.charge = 0 /\ d.amount = n
       /\ d.principal = principal /\ d.commission = Nothing /\ d.extra = 0
       /\ d.generic = generic /\ d.credit = unmatched - generic
  BY <1>10 DEF Made
<1>13. DocumentOK(d)
  <2>1. d.charge <= d.amount BY <1>5, <1>12
  <2>2. AddsUp(d) BY <1>12, <1>17, <1>18 DEF AddsUp
  <2> QED BY <1>12, <2>1, <2>2 DEF DocumentOK
<1>14. ASSUME NEW c \in Settled(d)
       PROVE  /\ c \in Live /\ v.case[c] = case[c] /\ holder[CaseLock(c)] = r
              /\ d.principal[c] <= case[c].left /\ d.commission[c] <= case[c].unpaid
  <2>1. c \in Cases /\ d.principal[c] + d.commission[c] > 0 BY DEF Settled
  <2>2. principal[c] > 0 BY <1>7, <1>9, <1>12, <2>1
  <2>3. c = o.case /\ principal[c] = o.part BY <2>1, <2>2 DEF principal
  <2>4. v.case[c] = case[c] /\ holder[CaseLock(c)] = r BY <1>1, <1>4, <2>1, <2>3 DEF Ready
  <2>5. o.case # None BY <2>1, <2>3, DuesAssumption
  <2>6. Open(c, v) /\ o.part <= v.case[c].left BY <1>1, <2>3, <2>5 DEF PayInChecks
  <2>7. c \in Live BY <2>1, <2>4, <2>6, OpenLive
  <2>8. case[c].unpaid >= 0 BY <2>7, LiveRow
  <2> QED BY <1>9, <1>12, <2>1, <2>3, <2>4, <2>6, <2>7, <2>8
<1>15. ReceiptCovered(r, d, v) BY <1>14 DEF ReceiptCovered
<1>16. StepFrom({r})
  BY <1>1, <1>2, <1>3, <1>11, <1>12, <1>13, <1>15, ReceiptRecorded
<1> QED BY <1>1, <1>16

\* addCombinedReceipt().
LEMMA CombinedKeeps ==
  ASSUME Known, NEW r \in Requests, Combined(r)
  PROVE  StepFrom({r}) /\ SessionStep({r})
<1> DEFINE o == op[r]
           v == view[r]
           n == o.amount
           open == {c \in Cases : Open(c, v)}
           left == [c \in open |-> v.case[c].left]
           unpaid == [c \in open |-> v.case[c].unpaid]
           rest == Excess(n, open, left)
           principal == [c \in Cases |-> IF c \in open THEN Share(n, c, open, left) ELSE 0]
           commission == [c \in Cases |-> IF c \in open THEN Share(rest, c, open, unpaid) ELSE 0]
           d == Receipt(n, Now, principal, commission)
<1>1. /\ Running(r) /\ Ready(r, o, v) /\ o.kind = "combined" /\ CombinedChecks(o, v)
      /\ SessionStep({r}) /\ stage'[r] = -1 /\ \A x \in Docs : x[1] = r => doc[x] = NoDocument
  BY CommitFacts DEF Combined, Checks
<1>2. d = CombinedReceipt(o, v) BY DEF CombinedReceipt, Receipt
<1>3. /\ doc' = [doc EXCEPT ![<<r, "main">>] = CombinedReceipt(o, v)]
      /\ TakeReceipt(CombinedReceipt(o, v), v)
      /\ Post(Journal(CombinedReceipt(o, v))) /\ debt' = debt
  BY DEF Combined, CombinedEffect
<1> HIDE DEF o, v, d
<1>4. /\ o \in Operation /\ o.kind \notin OfDebt /\ o.kind # "reverseCase" /\ Mine(o, v) = v.targets
      /\ v.targets = Live /\ \A c \in Cases : Open(c, v) <=> c \in v.targets
  BY <1>1 DEF Ready, OfDebt, Mine, Many
<1>5. open = Live BY <1>4 DEF Live
<1>6. n \in Nat BY <1>4 DEF Operation
<1>22. o.amount = n OBVIOUS
<1> HIDE DEF n, open
<1>7. ASSUME NEW c \in open
      PROVE  /\ c \in Cases /\ c \in Live /\ v.case[c] = case[c] /\ holder[CaseLock(c)] = r
             /\ case[c].left \in Nat /\ case[c].unpaid \in Nat
             /\ left[c] = case[c].left /\ unpaid[c] = case[c].unpaid
  <2>1. c \in Mine(o, v) /\ c \in Live BY <1>4, <1>5, <1>7
  <2>2. c \in Cases /\ v.case[c] = case[c] /\ holder[CaseLock(c)] = r BY <1>1, <1>4, <2>1 DEF Ready
  <2>3. case[c].left \in Nat /\ case[c].unpaid \in Nat BY <2>1, LiveRow
  <2> QED BY <1>7, <2>1, <2>2, <2>3
<1>8. open \in SUBSET Cases /\ left \in [open -> Nat] /\ unpaid \in [open -> Nat] BY <1>7
<1> HIDE DEF left, unpaid
<1>9. ASSUME NEW c \in open PROVE rest \in Nat /\ Share(n, c, open, left) \in 0..left[c]
  BY <1>6, <1>8, ShareFits
<1>10. ASSUME NEW c \in open PROVE Share(rest, c, open, unpaid) \in 0..unpaid[c]
  <2>1. rest \in Int BY <1>9
  <2> HIDE DEF rest
  <2> QED BY <1>8, <2>1, ShareFits
<1>11. ASSUME NEW c \in Cases
       PROVE  /\ principal[c] \in Nat /\ commission[c] \in Nat
              /\ c \in open => principal[c] <= left[c] /\ commission[c] <= unpaid[c]
              /\ c \notin open => principal[c] = 0 /\ commission[c] = 0
  <2>1. CASE c \in open
    <3>1. principal[c] = Share(n, c, open, left) /\ commission[c] = Share(rest, c, open, unpaid)
      BY <2>1
    <3>2. left[c] \in Nat /\ unpaid[c] \in Nat BY <1>8, <2>1
    <3> HIDE DEF principal, commission, rest
    <3> QED BY <1>9, <1>10, <2>1, <3>1, <3>2
  <2>2. CASE c \notin open
    <3>1. principal[c] = 0 /\ commission[c] = 0 BY <2>2
    <3> HIDE DEF principal, commission
    <3> QED BY <2>2, <3>1
  <2> QED BY <2>1, <2>2
<1>12. principal = [c \in Cases |-> principal[c]] /\ commission = [c \in Cases |-> commission[c]]
  OBVIOUS
<1> HIDE DEF principal, commission
<1>13. principal \in [Cases -> Nat] /\ commission \in [Cases -> Nat] BY <1>11, <1>12
<1>14. Now \in Nat BY NowType DEF Known
<1>15. d = Made("combined", None, None, n, 0, principal, commission, 0, 0, 0, Now)
  BY ReceiptMade DEF d
<1>16. d \in Document /\ Standing(d) BY <1>6, <1>13, <1>14, <1>15, MadeType
<1>17. /\ d.kind = "combined" /\ d.case = None /\ d.debt = None /\ d.charge = 0 /\ d.amount = n
       /\ d.principal = principal /\ d.commission = commission /\ d.extra = 0
       /\ d.generic = 0 /\ d.credit = 0
  BY <1>15 DEF Made
<1>18. DocumentOK(d)
  <2>1. d.charge <= d.amount BY <1>6, <1>17
  <2>2. SumFunction(d.principal) + SumFunction(d.commission) = n BY <1>1, <1>2, <1>22 DEF CombinedChecks
  <2>3. AddsUp(d) BY <1>17, <2>2 DEF AddsUp
  <2> QED BY <1>17, <2>1, <2>3 DEF DocumentOK
<1>19. ASSUME NEW c \in Settled(d)
       PROVE  /\ c \in Live /\ v.case[c] = case[c] /\ holder[CaseLock(c)] = r
              /\ d.principal[c] <= case[c].left /\ d.commission[c] <= case[c].unpaid
  <2>1. c \in Cases /\ d.principal[c] + d.commission[c] > 0 BY DEF Settled
  <2>2. c \in open BY <1>11, <1>17, <2>1
  <2> QED BY <1>7, <1>11, <1>17, <2>1, <2>2
<1>20. ReceiptCovered(r, d, v) BY <1>19 DEF ReceiptCovered
<1>21. StepFrom({r})
  BY <1>1, <1>2, <1>3, <1>16, <1>17, <1>18, <1>20, ReceiptRecorded
<1> QED BY <1>1, <1>21

---------------------------------------------------------------------------
(* Documents that are taken back.                                          *)

\* Minus zero is zero.
LEMMA MinusZero == -0 = 0
<1>1. ASSUME NEW n \in Int PROVE 0 + (-n) = -n OBVIOUS
<1>2. 0 + (-0) = 0 OBVIOUS
<1>3. 0 \in Int OBVIOUS
<1>4. 0 + (-0) = -0 BY <1>1, <1>3, Zenon
<1> QED BY <1>2, <1>4, Zenon

\* No document says more than the rows it stands behind.
LEMMA BackedBound ==
  ASSUME Known, NEW x \in Docs
  PROVE  /\ \A c \in Live : /\ Principal(c)[doc[x]] <= case[c].recovered
                            /\ CommissionPaid(c)[doc[x]] <= case[c].collected
         /\ \A b \in Debts : Collected(b)[doc[x]] <= debt[b].received
<1>1. doc \in [Docs -> Document] /\ Books BY DEF Known, TypeOK
<1>2. ASSUME NEW c \in Live
      PROVE  /\ Principal(c)[doc[x]] <= case[c].recovered
             /\ CommissionPaid(c)[doc[x]] <= case[c].collected
  <2>1. c \in Cases /\ CaseBacked(c) BY <1>1 DEF Live, Books
  <2>2. Principal(c) \in [Document -> Nat] /\ CommissionPaid(c) \in [Document -> Nat]
    BY <2>1 DEF Document, Principal, CommissionPaid
  <2>3. Principal(c)[doc[x]] <= Tally(Principal(c), doc) BY <1>1, <2>2, TallyNat
  <2>4. CommissionPaid(c)[doc[x]] <= Tally(CommissionPaid(c), doc) BY <1>1, <2>2, TallyNat
  <2> QED BY <2>1, <2>3, <2>4 DEF CaseBacked
<1>3. ASSUME NEW b \in Debts PROVE Collected(b)[doc[x]] <= debt[b].received
  <2>1. DebtBacked(b) BY <1>1 DEF Books
  <2>2. Collected(b) \in [Document -> Nat] BY DEF Document, Collected
  <2>3. Collected(b)[doc[x]] <= Tally(Collected(b), doc) BY <1>1, <2>2, TallyNat
  <2> QED BY <2>1, <2>3 DEF DebtBacked
<1> QED BY <1>2, <1>3

(* The call of r takes back document x, which is d.                        *)
TakesBack(r, o, v, x, d) ==
    /\ Running(r) /\ Ready(r, o, v) /\ o.kind \in Undo
    /\ x = o.target /\ x \in Docs /\ d = doc[x] /\ d = v.doc /\ d \in Document
    /\ Standing(d) /\ DocumentOK(d) /\ d.kind \in UndoneKinds(o.kind)
    /\ o.case = d.case /\ o.debt = d.debt
    /\ holder[DocLock(x)] = r /\ doc' = [doc EXCEPT ![x].status = "REVERSED"] /\ MoneyStep({r})
    /\ \A c \in Cases : d.case = c \/ c \in Settled(d) => c \in Live
    /\ d.debt \in Debts => debt[d.debt].source # "ABSENT"

\* What every reversal of a document checks and does.
LEMMA ReversalFacts ==
  ASSUME Known, NEW r \in Requests, NEW o, NEW v, Running(r), Ready(r, o, v), o.kind \in Undo,
         ReverseChecks(o, v), MarkReversed(o, v)
  PROVE  TakesBack(r, o, v, o.target, doc[o.target])
<1> DEFINE x == o.target
           d == doc[x]
<1>1. /\ x \in Docs /\ v.doc = d /\ holder[DocLock(x)] = r /\ CallFits(o) /\ v \in View
  BY DEF Ready
<1>2. d \in Document /\ DocumentFits(x) BY <1>1 DEF Known, TypeOK
<1>3. d.kind \in UndoneKinds(o.kind) /\ o.case = d.case /\ o.debt = d.debt BY <1>1 DEF CallFits
<1>4. d.status = "COMPLETED" /\ (CashOut(d) > 0 => v.funds >= CashOut(d)) BY <1>1 DEF ReverseChecks
<1>5. "none" \notin UndoneKinds(o.kind) BY DEF UndoneKinds, Undo, CaseUndo
<1>6. Standing(d) BY <1>3, <1>4, <1>5 DEF Standing
<1>7. DocumentOK(d) /\ d.charge <= d.amount BY <1>2 DEF DocumentFits, DocumentOK
<1>8. CashOut(d) > 0 => CashOut(d) <= ledger["MONEY"] /\ holder[MoneyLock] \in {r}
  <2>1. CASE o.kind = "reverseAssessment"
    <3>1. d.kind = "assessment" BY <1>3, <2>1 DEF UndoneKinds
    <3> QED BY <3>1 DEF CashOut
  <2>2. CASE o.kind # "reverseAssessment"
    <3>1. v.funds <= ledger["MONEY"] /\ holder[MoneyLock] = r BY <2>2 DEF Ready
    <3>2. v.funds \in Int /\ ledger["MONEY"] \in Int
      BY <1>1 DEF View, Known, TypeOK, Ledgers
    <3>3. CashOut(d) \in Int BY <1>2 DEF CashOut, Document
    <3> QED BY <1>4, <3>1, <3>2, <3>3
  <2> QED BY <2>1, <2>2
<1>9. PostReversal(Journal(d)) /\ doc' = [doc EXCEPT ![x].status = "REVERSED"]
  BY <1>1 DEF MarkReversed
<1>10. MoneyStep({r}) BY <1>2, <1>7, <1>8, <1>9, MoneyOut
<1>11. \A c \in Cases : d.case = c \/ c \in Settled(d) => c \in Live
  <2>1. Counts(x) BY <1>6 DEF Standing, Counts
  <2> QED BY <1>2, <2>1 DEF DocumentFits, Touches
<1>12. d.debt \in Debts => debt[d.debt].source # "ABSENT" BY <1>2 DEF DocumentFits
<1> QED BY <1>1, <1>2, <1>3, <1>6, <1>7, <1>9, <1>10, <1>11, <1>12 DEF TakesBack

(* The reversal of d takes back what it had settled of case c.             *)
Unsettles(r, d, c, p, k, f, row) ==
    /\ SaysOf(d, c, p, k, f) /\ d.debt = None /\ debt' = debt
    /\ c \in Live /\ holder[CaseLock(c)] = r /\ p \in Nat /\ k \in Nat /\ f \in Nat
    /\ case' = [case EXCEPT ![c] = row] /\ row = Moved(case[c], -p, -k, -f)
    /\ f <= case[c].unpaid + k

\* Such a document is taken back.
LEMMA CaseUndone ==
  ASSUME Known, NEW r \in Requests, NEW o, NEW v, NEW x, NEW d, TakesBack(r, o, v, x, d),
         NEW c, NEW p, NEW k, NEW f, NEW row, Unsettles(r, d, c, p, k, f, row)
  PROVE  StepFrom({r})
<1>1. /\ c \in Live /\ p \in Nat /\ k \in Nat /\ f \in Nat /\ d \in Document /\ x \in Docs /\ d = doc[x]
      /\ SaysOf(d, c, p, k, f) /\ f <= case[c].unpaid + k
  BY DEF Unsettles, TakesBack
<1>2. /\ case[c] \in CaseRow /\ case[c].recovered \in Nat /\ case[c].left \in Nat
      /\ case[c].collected \in Nat /\ case[c].unpaid \in Nat
  BY <1>1, LiveRow
<1>3. p <= case[c].recovered /\ k <= case[c].collected BY <1>1, BackedBound DEF SaysOf
<1>4. /\ 0 <= case[c].recovered + (-p) /\ -p <= case[c].left /\ 0 <= case[c].collected + (-k)
      /\ -k <= case[c].unpaid + (-f) /\ -p \in Int /\ -k \in Int /\ -f \in Int
  BY <1>1, <1>2, <1>3
<1>5. /\ case' = [y \in Cases |-> case'[y]] /\ CaseFollows(r, c, -p, -k, -f)
      /\ \A y \in Cases \ {c} : CaseFollows(r, y, 0, 0, 0)
  <2>1. holder[CaseLock(c)] = r /\ case' = [case EXCEPT ![c] = row] /\ row = Moved(case[c], -p, -k, -f)
    BY DEF Unsettles
  <2> QED BY <1>1, <1>4, <2>1, OneCase
<1>6. ASSUME NEW y \in Cases
      PROVE  CaseFollows(r, y, -Principal(y)[doc[x]], -CommissionPaid(y)[doc[x]], -FeeAdded(y)[doc[x]])
  <2>1. CASE y = c BY <1>1, <1>5, <2>1 DEF SaysOf
  <2>2. CASE y # c
    <3>1. Principal(y)[d] = 0 /\ CommissionPaid(y)[d] = 0 /\ FeeAdded(y)[d] = 0
      BY <1>1, <2>2 DEF SaysOf
    <3>2. -0 = 0 BY MinusZero
    <3>3. CaseFollows(r, y, 0, 0, 0) BY <1>5, <2>2
    <3> QED BY <1>1, <3>1, <3>2, <3>3
  <2> QED BY <2>1, <2>2
<1>7. ASSUME NEW b \in Debts PROVE DebtFollows(r, b, -Collected(b)[doc[x]])
  <2>1. Collected(b)[d] = 0 BY <1>1, DuesAssumption DEF Collected, Unsettles
  <2>2. -0 = 0 BY MinusZero
  <2>3. DebtFollows(r, b, 0) BY DEF DebtFollows, Unsettles
  <2> QED BY <1>1, <2>1, <2>2, <2>3
<1>8. debt' \in [Debts -> DebtRow] BY DEF Known, TypeOK, Unsettles
<1>9. /\ Running(r) /\ Standing(doc[x]) /\ holder[DocLock(x)] = r
      /\ doc' = [doc EXCEPT ![x].status = "REVERSED"] /\ MoneyStep({r})
  BY <1>1 DEF TakesBack
<1> QED BY <1>1, <1>5, <1>6, <1>7, <1>8, <1>9, Undone

\* reverse() of a recovery.
LEMMA ReverseRecoveryKeeps ==
  ASSUME Known, NEW r \in Requests, ReverseRecovery(r)
  PROVE  StepFrom({r}) /\ SessionStep({r})
<1> DEFINE o == op[r]
           v == view[r]
           x == o.target
           d == doc[x]
           c == o.case
           row == GiveBack(c, v.case[c], v.doc.amount - v.doc.credit)
           p == d.principal[c]
<1>1. /\ Running(r) /\ Ready(r, o, v) /\ o.kind = "reverseRecovery" /\ ReverseChecks(o, v)
      /\ SessionStep({r})
  BY CommitFacts DEF ReverseRecovery, Checks
<1>2. case' = [case EXCEPT ![c] = row] /\ MarkReversed(o, v) /\ debt' = debt
  BY DEF ReverseRecovery, ReverseRecoveryEffect
<1> HIDE DEF o, v
<1>3. o.kind \in Undo /\ o.kind \in CaseUndo BY <1>1 DEF Undo, CaseUndo
<1>4. TakesBack(r, o, v, x, d) BY <1>1, <1>2, <1>3, ReversalFacts
<1>5. c \in Cases /\ v.case[c] = case[c] /\ holder[CaseLock(c)] = r BY <1>1, <1>3, OwnCase
<1>6. /\ d.kind = "recovery" /\ d.case = c /\ d = v.doc /\ d \in Document /\ Standing(d) /\ x \in Docs
      /\ c \in Live /\ DocumentOK(d)
  BY <1>1, <1>4, <1>5 DEF TakesBack, UndoneKinds
<1>7. /\ d.debt = None /\ d.commission = Nothing /\ d.extra = 0 /\ Only(c, d.principal)
      /\ p = d.amount - d.credit /\ p \in Nat
  BY <1>5, <1>6 DEF DocumentOK, Document
<1>8. Nothing \in [Cases -> Nat] /\ \A y \in Cases : Nothing[y] = 0 BY DEF Nothing
<1>9. SaysOf(d, c, p, 0, 0)
  BY <1>5, <1>6, <1>7, <1>8 DEF SaysOf, Principal, CommissionPaid, FeeAdded, Only
<1>10. row = Moved(case[c], -p, 0, 0)
  <2>1. /\ case[c] \in CaseRow /\ case[c].recovered \in 0..Due[c]
        /\ case[c].left = Due[c] - case[c].recovered
    BY <1>6, LiveRow
  <2>2. p <= case[c].recovered BY <1>6, <1>9, BackedBound DEF SaysOf
  <2>3. row = GiveBack(c, case[c], p) BY <1>5, <1>6, <1>7
  <2> HIDE DEF row, p, c, d
  <2> QED BY <1>5, <1>7, <2>1, <2>2, <2>3, GiveBackMoves
<1>11. case[c].unpaid \in Nat BY <1>6, LiveRow
<1>12. Unsettles(r, d, c, p, 0, 0, row)
  <2>1. -0 = 0 /\ 0 <= case[c].unpaid + 0 BY <1>11, MinusZero
  <2> HIDE DEF row, p, c, d
  <2> QED BY <1>2, <1>5, <1>6, <1>7, <1>9, <1>10, <2>1 DEF Unsettles
<1> HIDE DEF row, p, c, d, x
<1>13. StepFrom({r}) BY <1>4, <1>12, CaseUndone
<1> QED BY <1>1, <1>13

\* reverse() of a collection of commission.
LEMMA ReverseCommissionKeeps ==
  ASSUME Known, NEW r \in Requests, ReverseCommission(r)
  PROVE  StepFrom({r}) /\ SessionStep({r})
<1> DEFINE o == op[r]
           v == view[r]
           x == o.target
           d == doc[x]
           c == o.case
           old == v.case[c]
           collected == Larger(0, old.collected - v.doc.amount)
           fee == old.fee - v.doc.extra
           row == Unpaid(old, fee, collected, Larger(0, fee - collected))
           k == d.amount
           f == d.extra
<1>1. /\ Running(r) /\ Ready(r, o, v) /\ o.kind = "reverseCommission" /\ ReverseChecks(o, v)
      /\ SessionStep({r})
  BY CommitFacts DEF ReverseCommission, Checks
<1>2. case' = [case EXCEPT ![c] = row] /\ MarkReversed(o, v) /\ debt' = debt
  BY DEF ReverseCommission, ReverseCommissionEffect, Unpaid
<1> HIDE DEF o, v, row
<1>3. o.kind \in Undo /\ o.kind \in CaseUndo BY <1>1 DEF Undo, CaseUndo
<1>4. TakesBack(r, o, v, x, d) BY <1>1, <1>2, <1>3, ReversalFacts
<1>5. c \in Cases /\ old = case[c] /\ holder[CaseLock(c)] = r BY <1>1, <1>3, OwnCase
<1>6. /\ d.kind = "commission" /\ d.case = c /\ d = v.doc /\ d \in Document /\ Standing(d) /\ x \in Docs
      /\ c \in Live /\ DocumentOK(d)
  BY <1>1, <1>4, <1>5 DEF TakesBack, UndoneKinds
<1>7. /\ d.debt = None /\ d.principal = Nothing /\ Only(c, d.commission) /\ d.commission[c] = k
      /\ k \in Nat /\ f \in Nat /\ f <= k
  BY <1>5, <1>6 DEF DocumentOK, Document
<1>8. Nothing \in [Cases -> Nat] /\ \A y \in Cases : Nothing[y] = 0 BY DEF Nothing
<1>9. SaysOf(d, c, 0, k, f)
  BY <1>5, <1>6, <1>7, <1>8 DEF SaysOf, Principal, CommissionPaid, FeeAdded, Only
<1>10. /\ case[c] \in CaseRow /\ case[c].recovered \in Nat /\ case[c].left \in Nat
       /\ case[c].collected \in Nat /\ case[c].unpaid \in Nat /\ case[c].fee \in Int
       /\ case[c].unpaid = case[c].fee - case[c].collected
       /\ case[c].status = MasterStatus(case[c].recovered, case[c].left)
  BY <1>6, LiveRow
<1>11. k <= case[c].collected BY <1>6, <1>9, BackedBound DEF SaysOf
<1>12. /\ collected = case[c].collected + (-k) /\ fee = case[c].fee + (-f)
       /\ Larger(0, fee - collected) = case[c].unpaid + (-f) - (-k)
  <2>1. v.doc = d BY <1>6
  <2>2. collected = Larger(0, case[c].collected - k) /\ fee = case[c].fee - f BY <1>5, <2>1
  <2>3. Larger(0, case[c].collected - k) = case[c].collected + (-k)
    BY <1>7, <1>10, <1>11 DEF Larger
  <2>4. case[c].fee - f = case[c].fee + (-f) BY <1>7, <1>10
  <2> HIDE DEF collected, fee, k, f, d, old
  <2>5. /\ fee - collected = case[c].unpaid + (-f) - (-k) /\ fee - collected >= 0
        /\ fee - collected \in Int
    BY <1>7, <1>10, <2>2, <2>3, <2>4
  <2> QED BY <2>2, <2>3, <2>4, <2>5 DEF Larger
<1> HIDE DEF collected, fee, k, f, d, old, c
<1>13. row = Row(old.recovered, old.left, fee, collected, Larger(0, fee - collected), old.born, old.status)
  BY <1>5, <1>10, UncollectRow DEF row
<1>14. row = Moved(case[c], -0, -k, -f)
  <2>1. case[c].recovered + (-0) = case[c].recovered /\ case[c].left - (-0) = case[c].left BY <1>10
  <2> QED BY <1>5, <1>10, <1>12, <1>13, <2>1 DEF Moved, Row
<1>15. Unsettles(r, d, c, 0, k, f, row)
  <2>1. f <= case[c].unpaid + k BY <1>7, <1>10
  <2> QED BY <1>2, <1>5, <1>6, <1>7, <1>9, <1>14, <2>1 DEF Unsettles
<1>16. StepFrom({r}) BY <1>4, <1>15, CaseUndone
<1> QED BY <1>1, <1>16

\* reverse() of an assessment.
LEMMA ReverseAssessmentKeeps ==
  ASSUME Known, NEW r \in Requests, ReverseAssessment(r)
  PROVE  StepFrom({r}) /\ SessionStep({r})
<1> DEFINE o == op[r]
           v == view[r]
           x == o.target
           d == doc[x]
           c == o.case
           old == v.case[c]
           row == Assessed(old, old.fee - v.doc.amount, old.unpaid - v.doc.amount)
           f == d.amount
<1>1. /\ Running(r) /\ Ready(r, o, v) /\ o.kind = "reverseAssessment"
      /\ ReverseChecks(o, v) /\ old.unpaid >= v.doc.amount /\ SessionStep({r})
  BY CommitFacts DEF ReverseAssessment, Checks, ReverseAssessmentChecks
<1>2. case' = [case EXCEPT ![c] = row] /\ MarkReversed(o, v) /\ debt' = debt
  BY DEF ReverseAssessment, ReverseAssessmentEffect, Assessed
<1> HIDE DEF o, v, row
<1>3. o.kind \in Undo /\ o.kind \in CaseUndo BY <1>1 DEF Undo, CaseUndo
<1>4. TakesBack(r, o, v, x, d) BY <1>1, <1>2, <1>3, ReversalFacts
<1>5. c \in Cases /\ old = case[c] /\ holder[CaseLock(c)] = r BY <1>1, <1>3, OwnCase
<1>6. /\ d.kind = "assessment" /\ d.case = c /\ d = v.doc /\ d \in Document /\ Standing(d) /\ x \in Docs
      /\ c \in Live /\ DocumentOK(d)
  BY <1>1, <1>4, <1>5 DEF TakesBack, UndoneKinds
<1>7. /\ d.debt = None /\ d.principal = Nothing /\ d.commission = Nothing /\ d.extra = 0 /\ f \in Nat
  BY <1>5, <1>6 DEF DocumentOK, Document
<1>8. Nothing \in [Cases -> Nat] /\ \A y \in Cases : Nothing[y] = 0 BY DEF Nothing
<1>9. SaysOf(d, c, 0, 0, f)
  BY <1>5, <1>6, <1>7, <1>8 DEF SaysOf, Principal, CommissionPaid, FeeAdded
<1>10. /\ case[c] \in CaseRow /\ case[c].recovered \in Nat /\ case[c].left \in Nat
       /\ case[c].collected \in Nat /\ case[c].unpaid \in Nat /\ case[c].fee \in Int
       /\ case[c].status = MasterStatus(case[c].recovered, case[c].left)
  BY <1>6, LiveRow
<1>11. f <= case[c].unpaid BY <1>1, <1>5, <1>6, <1>7, <1>10
<1>12. row = Assessed(old, old.fee - f, old.unpaid - f) BY <1>6 DEF row
<1> HIDE DEF f, d, old, c
<1>13. row = Row(old.recovered, old.left, old.fee - f, old.collected, old.unpaid - f, old.born, old.status)
  BY <1>5, <1>10, <1>12, AssessRow
<1>14. row = Moved(case[c], -0, -0, -f)
  <2>1. /\ case[c].recovered + (-0) = case[c].recovered /\ case[c].left - (-0) = case[c].left
        /\ case[c].collected + (-0) = case[c].collected /\ case[c].fee + (-f) = case[c].fee - f
        /\ case[c].unpaid + (-f) - (-0) = case[c].unpaid - f
    BY <1>7, <1>10
  <2> QED BY <1>5, <1>10, <1>13, <2>1 DEF Moved, Row
<1>15. Unsettles(r, d, c, 0, 0, f, row)
  <2>1. f <= case[c].unpaid + 0 BY <1>7, <1>10, <1>11
  <2> QED BY <1>2, <1>5, <1>6, <1>7, <1>9, <1>14, <2>1 DEF Unsettles
<1>16. StepFrom({r}) BY <1>4, <1>15, CaseUndone
<1> QED BY <1>1, <1>16

\* A row is the record of its fields.
LEMMA RowIs ==
  ASSUME NEW row \in CaseRow
  PROVE  row = Row(row.recovered, row.left, row.fee, row.collected, row.unpaid, row.born, row.status)
BY DEF CaseRow, Row

\* The principal of a receipt is taken back.
LEMMA BackMoves ==
  ASSUME NEW c \in Cases, NEW row \in CaseRow, NEW p \in Nat, p <= row.recovered,
         row.recovered \in 0..Due[c], row.left = Due[c] - row.recovered,
         row.status = MasterStatus(row.recovered, row.left)
  PROVE  (IF p = 0 THEN row ELSE GiveBack(c, row, p)) = Moved(row, -p, 0, 0)
<1>1. CASE p = 0
  <2>1. row = Row(row.recovered, row.left, row.fee, row.collected, row.unpaid, row.born, row.status)
    BY RowIs
  <2>2. /\ row.left \in Int /\ row.fee \in Int /\ row.recovered \in Int /\ row.collected \in Int
        /\ row.unpaid \in Int
    BY DEF CaseRow
  <2>3. /\ row.recovered + (-p) = row.recovered /\ row.left - (-p) = row.left
        /\ row.fee + 0 = row.fee /\ row.collected + 0 = row.collected /\ row.unpaid + 0 - 0 = row.unpaid
    BY <1>1, <2>2
  <2>4. row = Moved(row, -p, 0, 0) BY <2>1, <2>3 DEF Moved, Row
  <2> QED BY <1>1, <2>4
<1>2. CASE p # 0
  <2>1. GiveBack(c, row, p) = Moved(row, -p, 0, 0) BY GiveBackMoves
  <2> QED BY <1>2, <2>1
<1> QED BY <1>1, <1>2

\* Its commission is taken back.
LEMMA RefundMoves ==
  ASSUME NEW row \in CaseRow, NEW p \in Int, NEW k \in Nat, row.unpaid = row.fee - row.collected,
         NEW b, b = Moved(row, p, 0, 0)
  PROVE  (IF k = 0 THEN b ELSE Refunded(b, b.collected - k, b.fee - (b.collected - k)))
         = Moved(row, p, -k, 0)
<1>1. /\ row.left \in Int /\ row.fee \in Int /\ row.recovered \in Int /\ row.collected \in Int
      /\ row.unpaid \in Int
  BY DEF CaseRow
<1>2. /\ row.fee + 0 = row.fee /\ row.collected + 0 = row.collected /\ row.unpaid + 0 - 0 = row.unpaid
      /\ row.fee - (row.collected - k) = row.unpaid + 0 - (-k) /\ row.collected - k = row.collected + (-k)
  BY <1>1
<1> DEFINE status == MasterStatus(row.recovered + p, row.left - p)
<1>3. /\ b.recovered = row.recovered + p /\ b.left = row.left - p /\ b.fee = row.fee
      /\ b.collected = row.collected /\ b.unpaid = row.unpaid /\ b.born = row.born /\ b.status = status
  <2> HIDE DEF status
  <2> QED BY <1>2 DEF Moved, status
<1>4. b \in CaseRow BY <1>3, MovedType
<1> HIDE DEF status
<1>5. CASE k = 0
  <2>1. row.collected + (-k) = row.collected /\ row.unpaid + 0 - (-k) = row.unpaid BY <1>1, <1>5
  <2>2. Moved(row, p, 0, 0) = Moved(row, p, -k, 0) BY <1>2, <2>1 DEF Moved
  <2> QED BY <1>5, <2>2
<1>6. CASE k # 0
  <2>1. Refunded(b, b.collected - k, b.fee - (b.collected - k))
          = Row(b.recovered, b.left, b.fee, b.collected - k, b.fee - (b.collected - k), b.born, b.status)
    BY <1>4, RefundRow
  <2>2. @ = Moved(row, p, -k, 0) BY <1>2, <1>3 DEF Moved, Row, status
  <2> QED BY <1>6, <2>1, <2>2
<1> QED BY <1>5, <1>6

\* reverse() of a combined receipt or a Pay In.
LEMMA ReverseReceiptKeeps ==
  ASSUME Known, NEW r \in Requests, ReverseReceipt(r)
  PROVE  StepFrom({r}) /\ SessionStep({r})
<1> DEFINE o == op[r]
           v == view[r]
           x == o.target
           d == doc[x]
           back(c, row) == IF v.doc.principal[c] = 0 THEN row ELSE GiveBack(c, row, v.doc.principal[c])
           refund(c, row) == IF v.doc.commission[c] = 0 THEN row
                             ELSE Refunded(row, row.collected - v.doc.commission[c],
                                           row.fee - (row.collected - v.doc.commission[c]))
<1>1. /\ Running(r) /\ Ready(r, o, v) /\ o.kind = "reverseReceipt" /\ ReverseChecks(o, v)
      /\ SessionStep({r})
  BY CommitFacts DEF ReverseReceipt, Checks, ReverseReceiptChecks
<1>2. /\ case' = [c \in Cases |-> IF c \in Settled(v.doc) THEN refund(c, back(c, v.case[c])) ELSE case[c]]
      /\ MarkReversed(o, v) /\ debt' = debt
  BY DEF ReverseReceipt, ReverseReceiptEffect, Refunded
<1> HIDE DEF o, v
<1>3. o.kind \in Undo /\ o.kind \notin OfDebt /\ o.kind \notin Many /\ o.kind # "reverseCase"
  BY <1>1 DEF Undo, OfDebt, Many
<1>4. TakesBack(r, o, v, x, d) BY <1>1, <1>2, <1>3, ReversalFacts
<1>5. /\ d.kind \in {"combined", "payin"} /\ d = v.doc /\ d \in Document /\ Standing(d) /\ x \in Docs
      /\ DocumentOK(d) /\ \A c \in Cases : c \in Settled(d) => c \in Live
  BY <1>1, <1>4 DEF TakesBack, UndoneKinds
<1>6. d.debt = None /\ d.case = None /\ d.extra = 0 /\ None \notin Cases /\ None \notin Debts
  BY <1>5, DuesAssumption DEF DocumentOK
<1>7. ASSUME NEW c \in Cases
      PROVE  CaseFollows(r, c, -Principal(c)[d], -CommissionPaid(c)[d], -FeeAdded(c)[d])
  <2> DEFINE p == d.principal[c]
             k == d.commission[c]
  <2>1. /\ Principal(c)[d] = p /\ CommissionPaid(c)[d] = k /\ FeeAdded(c)[d] = 0
        /\ p \in Nat /\ k \in Nat
    BY <1>5, <1>6 DEF Principal, CommissionPaid, FeeAdded, Document
  <2>2. CASE c \in Settled(d)
    <3>1. c \in Live /\ v.case[c] = case[c] /\ holder[CaseLock(c)] = r
      <4>1. c \in Mine(o, v) BY <1>1, <1>3, <1>5, <2>2 DEF Mine
      <4> QED BY <1>1, <1>3, <1>5, <2>2, <4>1 DEF Ready
    <3>2. /\ case[c] \in CaseRow /\ case[c].recovered \in 0..Due[c] /\ Due[c] \in Nat
          /\ case[c].recovered \in Nat /\ case[c].left \in Nat
          /\ case[c].left = Due[c] - case[c].recovered
          /\ case[c].collected \in Nat /\ case[c].unpaid \in Nat
          /\ case[c].unpaid = case[c].fee - case[c].collected
          /\ case[c].status = MasterStatus(case[c].recovered, case[c].left)
      BY <3>1, LiveRow
    <3>3. p <= case[c].recovered /\ k <= case[c].collected BY <1>5, <2>1, <3>1, BackedBound
    <3> DEFINE b == back(c, case[c])
    <3>4. b = IF p = 0 THEN case[c] ELSE GiveBack(c, case[c], p) BY <1>5
    <3> HIDE DEF b, p, k
    <3>5. b = Moved(case[c], -p, 0, 0) BY <2>1, <3>2, <3>3, <3>4, BackMoves
    <3>6. case'[c] = IF k = 0 THEN b ELSE Refunded(b, b.collected - k, b.fee - (b.collected - k))
      BY <1>2, <1>5, <2>2, <3>1 DEF b, k
    <3>7. @ = Moved(case[c], -p, -k, 0)
      <4>1. -p \in Int BY <2>1
      <4> QED BY <2>1, <3>2, <3>5, <4>1, RefundMoves
    <3>8. CaseMoved({r}, c, -p, -k, 0)
      <4>1. /\ 0 <= case[c].recovered + (-p) /\ -p <= case[c].left
            /\ 0 <= case[c].collected + (-k) /\ -k <= case[c].unpaid + 0
        BY <2>1, <3>2, <3>3
      <4> QED BY <3>1, <3>6, <3>7, <4>1 DEF CaseMoved
    <3> QED BY <2>1, <3>8, MinusZero DEF CaseFollows
  <2>3. CASE c \notin Settled(d)
    <3>1. p = 0 /\ k = 0 BY <2>1, <2>3 DEF Settled
    <3>2. case'[c] = case[c] BY <1>2, <1>5, <2>3
    <3> QED BY <2>1, <3>1, <3>2, MinusZero DEF CaseFollows
  <2> QED BY <2>2, <2>3
<1>8. ASSUME NEW b \in Debts PROVE DebtFollows(r, b, -Collected(b)[d])
  <2>1. Collected(b)[d] = 0 BY <1>5, <1>6 DEF Collected
  <2> QED BY <1>2, <2>1, MinusZero DEF DebtFollows
<1>9. case' = [c \in Cases |-> case'[c]] BY <1>2
<1>10. debt' \in [Debts -> DebtRow] BY <1>2 DEF Known, TypeOK
<1>11. /\ holder[DocLock(x)] = r /\ doc' = [doc EXCEPT ![x].status = "REVERSED"] /\ MoneyStep({r})
  BY <1>4 DEF TakesBack
<1>12. StepFrom({r}) BY <1>1, <1>5, <1>7, <1>8, <1>9, <1>10, <1>11, Undone
<1> QED BY <1>1, <1>12

\* reverse() of the collection of a receivable.
LEMMA ReverseCollectionKeeps ==
  ASSUME Known, NEW r \in Requests, ReverseCollection(r)
  PROVE  StepFrom({r}) /\ SessionStep({r})
<1> DEFINE o == op[r]
           v == view[r]
           x == o.target
           d == doc[x]
           b == o.debt
           n == d.amount
           received == Larger(0, v.debt.received - v.doc.amount)
           remaining == Owing[b] - received
           status(late) == IF remaining <= 0 THEN "RECEIVED" ELSE IF late THEN "OVERDUE"
                           ELSE IF received <= 0 THEN "PENDING" ELSE "PARTIALLY_RECEIVED"
<1>1. /\ Running(r) /\ Ready(r, o, v) /\ o.kind = "reverseCollection" /\ ReverseChecks(o, v)
      /\ SessionStep({r})
  BY CommitFacts DEF ReverseCollection, Checks
<1>2. MarkReversed(o, v) /\ case' = case BY DEF ReverseCollection, ReverseCollectionEffect
<1>3. PICK late : debt' = [debt EXCEPT ![b] = [debt[b] EXCEPT !.received = received,
                             !.remaining = remaining, !.status = status(late)]]
  BY DEF ReverseCollection, ReverseCollectionEffect
<1> DEFINE row == [debt[b] EXCEPT !.received = received, !.remaining = remaining, !.status = status(late)]
<1>4. debt' = [debt EXCEPT ![b] = row] BY <1>3
<1> HIDE DEF o, v
<1>5. o.kind \in Undo /\ o.kind \in OfDebt /\ o.kind # "reverseDebt" BY <1>1 DEF Undo, OfDebt
<1>6. TakesBack(r, o, v, x, d) BY <1>1, <1>2, <1>5, ReversalFacts
<1>7. /\ d.kind = "collection" /\ d.debt = b /\ d = v.doc /\ d \in Document /\ Standing(d) /\ x \in Docs
      /\ DocumentOK(d)
      /\ b \in Debts => debt[b].source # "ABSENT"
  BY <1>1, <1>6 DEF TakesBack, UndoneKinds
<1>8. /\ b \in Debts /\ holder[DebtLock(b)] = r /\ v.debt.received = debt[b].received
  BY <1>1, <1>5 DEF Ready
<1>9. /\ d.principal = Nothing /\ d.commission = Nothing /\ d.case = None /\ d.extra = 0
      /\ n \in Nat /\ n > 0 /\ None \notin Cases
  BY <1>7, DuesAssumption DEF DocumentOK, Document
<1>10. debt[b] \in DebtRow /\ DebtOK(b) /\ Owing[b] \in Nat
  BY <1>8, DuesAssumption DEF Known, TypeOK, Books
<1>11. n <= debt[b].received
  <2>1. Collected(b)[d] = n BY <1>7 DEF Collected
  <2> QED BY <1>7, <1>8, <2>1, BackedBound
<1>12. /\ debt[b].source = "COMPLETED" /\ debt[b].received \in Nat /\ debt[b].remaining \in Nat
       /\ debt[b].remaining = Owing[b] - debt[b].received
  <2>1. debt[b].received \in Int /\ debt[b].remaining \in Int
        /\ debt[b].source \in {"ABSENT", "COMPLETED", "REVERSED"}
    BY <1>10 DEF DebtRow
  <2>2. debt[b].source # "REVERSED" BY <1>9, <1>10, <1>11, <2>1 DEF DebtOK
  <2>3. debt[b].source = "COMPLETED" BY <1>7, <1>8, <2>1, <2>2
  <2> QED BY <1>10, <2>1, <2>3 DEF DebtOK
<1> HIDE DEF n, b
<1>13. received = debt[b].received + (-n) /\ received \in Nat
  <2>1. v.doc.amount = n BY <1>7 DEF n
  <2> QED BY <1>8, <1>9, <1>11, <1>12, <2>1 DEF Larger
<1>14. remaining = debt[b].remaining - (-n) /\ remaining \in Int BY <1>9, <1>10, <1>12, <1>13
<1>15. status(late) \in {"RECEIVED", "OVERDUE", "PENDING", "PARTIALLY_RECEIVED"} OBVIOUS
<1> DEFINE s == status(late)
<1> HIDE DEF received, remaining, status, s
<1>16. row = [debt[b] EXCEPT !.received = received, !.remaining = remaining, !.status = s] BY DEF s
<1>17. /\ row.received = debt[b].received + (-n) /\ row.remaining = debt[b].remaining - (-n)
       /\ row.source = debt[b].source /\ row.status = s /\ row \in DebtRow
  <2> HIDE DEF row
  <2>1. s \in {"RECEIVED", "OVERDUE", "PENDING", "PARTIALLY_RECEIVED"} BY <1>15 DEF s
  <2>2. received \in Int BY <1>13
  <2>3. /\ row.received = received /\ row.remaining = remaining /\ row.source = debt[b].source
        /\ row.status = s
    BY <1>10, <1>16 DEF DebtRow
  <2>4. row \in DebtRow BY <1>10, <1>14, <1>16, <2>1, <2>2 DEF DebtRow
  <2> QED BY <1>13, <1>14, <2>3, <2>4
<1> HIDE DEF row
<1>18. debt' \in [Debts -> DebtRow] /\ debt'[b] = row /\ \A y \in Debts \ {b} : debt'[y] = debt[y]
  BY <1>4, <1>8, <1>17 DEF Known, TypeOK
<1>19. DebtMoved({r}, b, -n)
  <2>1. 0 <= debt[b].received + (-n) /\ -n <= debt[b].remaining BY <1>9, <1>11, <1>12
  <2> QED BY <1>8, <1>12, <1>15, <1>17, <1>18, <2>1 DEF DebtMoved, Closed, s
<1>20. ASSUME NEW c \in Cases
       PROVE  CaseFollows(r, c, -Principal(c)[d], -CommissionPaid(c)[d], -FeeAdded(c)[d])
  <2>1. Principal(c)[d] = 0 /\ CommissionPaid(c)[d] = 0 /\ FeeAdded(c)[d] = 0
    BY <1>7, <1>9 DEF Principal, CommissionPaid, FeeAdded, Nothing
  <2> QED BY <1>2, <2>1, MinusZero DEF CaseFollows
<1>21. ASSUME NEW y \in Debts PROVE DebtFollows(r, y, -Collected(y)[d])
  <2>1. Collected(y)[d] = IF y = b THEN n ELSE 0 BY <1>7 DEF Collected, n
  <2>2. CASE y = b BY <1>19, <2>1, <2>2 DEF DebtFollows
  <2>3. CASE y # b BY <1>18, <2>1, <2>3, MinusZero DEF DebtFollows
  <2> QED BY <2>2, <2>3
<1>22. case' = [c \in Cases |-> case'[c]] BY <1>2 DEF Known, TypeOK
<1>23. /\ holder[DocLock(x)] = r /\ doc' = [doc EXCEPT ![x].status = "REVERSED"] /\ MoneyStep({r})
  BY <1>6 DEF TakesBack
<1>24. StepFrom({r}) BY <1>1, <1>7, <1>18, <1>20, <1>21, <1>22, <1>23, Undone
<1> QED BY <1>1, <1>24

---------------------------------------------------------------------------
(* The steps that record no document.                                      *)

\* While no document changes, nothing is gained.
LEMMA NoGain ==
  ASSUME Known, doc' = doc
  PROVE  /\ \A c \in Cases : /\ Gain(Principal(c)) = 0 /\ Gain(CommissionPaid(c)) = 0
                             /\ Gain(FeeAdded(c)) = 0
         /\ \A b \in Debts : Gain(Collected(b)) = 0
         /\ doc' = [x \in Docs |-> doc'[x]]
<1>1. doc \in [Docs -> Document] BY DEF Known, TypeOK
<1>2. ASSUME NEW F \in [Document -> Nat] PROVE Gain(F) = 0
  <2>1. Tally(F, doc) \in Nat BY <1>1, TallyNat
  <2> QED BY <2>1 DEF Gain
<1>3. ASSUME NEW c \in Cases
      PROVE  /\ Gain(Principal(c)) = 0 /\ Gain(CommissionPaid(c)) = 0 /\ Gain(FeeAdded(c)) = 0
  <2>1. /\ Principal(c) \in [Document -> Nat] /\ CommissionPaid(c) \in [Document -> Nat]
        /\ FeeAdded(c) \in [Document -> Nat]
    BY DEF Document, Principal, CommissionPaid, FeeAdded
  <2> QED BY <1>2, <2>1
<1>4. ASSUME NEW b \in Debts PROVE Gain(Collected(b)) = 0
  <2>1. Collected(b) \in [Document -> Nat] BY DEF Document, Collected
  <2> QED BY <1>2, <2>1
<1> QED BY <1>1, <1>3, <1>4

\* What only the receivables and the money see.
LEMMA DebtsOnly ==
  ASSUME Known, NEW A \in SUBSET InFlight, doc' = doc, case' = case, debt' \in [Debts -> DebtRow],
         MoneyStep(A),
         \A b \in Debts : DebtListed(b) \/ DebtOpened(b) \/ DebtVoided(A, b)
  PROVE  StepFrom(A)
<1>1. \A c \in Cases : CaseStep(A, c) BY NoGain DEF CaseStep
<1>2. \A b \in Debts : DebtStep(A, b) BY NoGain DEF DebtStep
<1>3. \A x \in Docs : DocStep(A, x) BY DEF DocStep
<1>4. case' = [c \in Cases |-> case'[c]] /\ doc' = [x \in Docs |-> doc'[x]] BY DEF Known, TypeOK
<1>5. TableStep(A) BY <1>1, <1>2, <1>3, <1>4 DEF TableStep
<1> QED BY <1>5 DEF StepFrom

\* The journals of a case and of a receivable.
LEMMA JournalTypes ==
  /\ \A c \in Cases : /\ CaseJournal(c) \in [Ledgers -> Int]
                      /\ CaseJournal(c)["MONEY"] = -(Due[c] + PayoutCharge)
  /\ \A b \in Debts : /\ DebtJournal(b) \in [Ledgers -> Int]
                      /\ DebtJournal(b)["MONEY"] = IF b \in FromAccount THEN -Owing[b] ELSE 0
<1>1. ASSUME NEW c \in Cases
      PROVE  /\ CaseJournal(c) \in [Ledgers -> Int]
             /\ CaseJournal(c)["MONEY"] = -(Due[c] + PayoutCharge)
  <2>1. Due[c] \in Nat /\ Fee[c] \in Nat /\ PayoutCharge \in Nat BY DuesAssumption
  <2> QED BY <2>1 DEF CaseJournal, NoJournal, Ledgers
<1>2. ASSUME NEW b \in Debts
      PROVE  /\ DebtJournal(b) \in [Ledgers -> Int]
             /\ DebtJournal(b)["MONEY"] = IF b \in FromAccount THEN -Owing[b] ELSE 0
  <2>1. Owing[b] \in Nat BY DuesAssumption
  <2>2. CASE b \in FromAccount BY <2>1, <2>2 DEF DebtJournal, NoJournal, Ledgers
  <2>3. CASE b \notin FromAccount BY <2>1, <2>3 DEF DebtJournal, NoJournal, Ledgers
  <2> QED BY <2>2, <2>3
<1> QED BY <1>1, <1>2

\* Money that was paid comes back.
LEMMA MoneyBack ==
  ASSUME Known, NEW A, NEW J \in [Ledgers -> Int], J["MONEY"] <= 0, PostReversal(J)
  PROVE  MoneyStep(A)
<1>1. ledger \in [Ledgers -> Int] /\ ledger["MONEY"] >= 0 BY DEF Known, TypeOK, Books
<1>2. "MONEY" \in Ledgers BY DEF Ledgers
<1>3. ledger' = [l \in Ledgers |-> ledger[l] - J[l]] BY DEF PostReversal
<1>4. \A l \in Ledgers : ledger[l] - J[l] \in Int BY <1>1
<1>5. ledger' \in [Ledgers -> Int] /\ ledger'["MONEY"] = ledger["MONEY"] - J["MONEY"] BY <1>2, <1>3, <1>4
<1>6. ledger["MONEY"] \in Int /\ J["MONEY"] \in Int BY <1>1, <1>2
<1>7. ledger'["MONEY"] >= 0 /\ ledger'["MONEY"] >= ledger["MONEY"] BY <1>1, <1>5, <1>6
<1> QED BY <1>5, <1>7 DEF MoneyStep

\* Money is paid that is there.
LEMMA MoneyPaid ==
  ASSUME Known, NEW A, NEW J \in [Ledgers -> Int], ledger' = [l \in Ledgers |-> ledger[l] + J[l]],
         J["MONEY"] < 0 => holder[MoneyLock] = Nobody /\ ledger["MONEY"] + J["MONEY"] >= 0
  PROVE  MoneyStep(A)
<1>1. ledger \in [Ledgers -> Int] /\ ledger["MONEY"] >= 0 BY DEF Known, TypeOK, Books
<1>2. "MONEY" \in Ledgers BY DEF Ledgers
<1>3. \A l \in Ledgers : ledger[l] + J[l] \in Int BY <1>1
<1>4. ledger' \in [Ledgers -> Int] /\ ledger'["MONEY"] = ledger["MONEY"] + J["MONEY"] BY <1>2, <1>3
<1>5. ledger["MONEY"] \in Int /\ J["MONEY"] \in Int BY <1>1, <1>2
<1>6. CASE J["MONEY"] < 0 BY <1>4, <1>6 DEF MoneyStep
<1>7. CASE ~(J["MONEY"] < 0)
  <2>1. ledger'["MONEY"] >= 0 /\ ledger'["MONEY"] >= ledger["MONEY"] BY <1>1, <1>4, <1>5, <1>7
  <2> QED BY <1>4, <2>1 DEF MoneyStep
<1> QED BY <1>6, <1>7

\* reverse() of a card due.
LEMMA ReverseCaseKeeps ==
  ASSUME Known, RowsReversedAlone, NEW r \in Requests, ReverseCase(r)
  PROVE  StepFrom({r}) /\ SessionStep({r})
<1> DEFINE o == op[r]
           v == view[r]
           c == o.case
<1>1. /\ Running(r) /\ Ready(r, o, v) /\ o.kind = "reverseCase" /\ ReverseCaseChecks(o, v)
      /\ SessionStep({r})
  BY CommitFacts DEF ReverseCase, Checks
<1>2. /\ case' = [case EXCEPT ![c].status = "REVERSED"] /\ PostReversal(CaseJournal(c))
      /\ debt' = debt /\ doc' = doc
  BY DEF ReverseCase, ReverseCaseEffect
<1>3. c \in Cases BY <1>1 DEF Ready, CallOK, OfCase
<1>4. v.case[c] = case[c]
  <2>1. c \in Mine(o, v) /\ o.kind \notin OfDebt BY <1>1, <1>3 DEF Mine, Many, OfDebt
  <2> HIDE DEF o, v
  <2> QED BY <1>1, <2>1 DEF Ready
<1>5. c \in Live /\ ~InUse(c) BY <1>1, <1>3, <1>4, OpenLive DEF ReverseCaseChecks, Ready
<1>6. InFlight \subseteq {r}
  <2>1. workload \in Workloads /\ BesideOnly BY DEF Known, TypeOK
  <2>2. o.kind \notin workload.beside BY <1>1, <2>1 DEF RowsReversedAlone
  <2> QED BY <1>1, <2>1, <2>2 DEF BesideOnly, InFlight
<1>7. case \in [Cases -> CaseRow] BY DEF Known, TypeOK
<1>8. /\ case' = [x \in Cases |-> case'[x]] /\ case'[c] = [case[c] EXCEPT !.status = "REVERSED"]
      /\ \A x \in Cases \ {c} : case'[x] = case[x]
  BY <1>2, <1>3, <1>7
<1>9. CaseVoided({r}, c) BY <1>5, <1>6, <1>8 DEF CaseVoided
<1> HIDE DEF c
<1>10. ASSUME NEW x \in Cases PROVE CaseStep({r}, x)
  <2>1. Gain(Principal(x)) = 0 /\ Gain(CommissionPaid(x)) = 0 /\ Gain(FeeAdded(x)) = 0
    BY <1>2, NoGain
  <2>2. CASE x = c BY <1>9, <2>1, <2>2 DEF CaseStep
  <2>3. CASE x # c BY <1>8, <2>1, <2>3 DEF CaseStep
  <2> QED BY <2>2, <2>3
<1>11. ASSUME NEW b \in Debts PROVE DebtStep({r}, b)
  <2>1. Gain(Collected(b)) = 0 BY <1>2, NoGain
  <2> QED BY <1>2, <2>1 DEF DebtStep, DebtListed
<1>12. MoneyStep({r})
  <2>1. Due[c] \in Nat /\ PayoutCharge \in Nat BY <1>3, DuesAssumption
  <2>2. CaseJournal(c) \in [Ledgers -> Int] /\ CaseJournal(c)["MONEY"] = -(Due[c] + PayoutCharge)
    BY <1>3, JournalTypes
  <2>3. CaseJournal(c)["MONEY"] <= 0 BY <2>1, <2>2
  <2> QED BY <1>2, <2>2, <2>3, MoneyBack
<1>13. debt' \in [Debts -> DebtRow] /\ doc' = [x \in Docs |-> doc'[x]] BY <1>2 DEF Known, TypeOK
<1>14. \A x \in Docs : DocStep({r}, x) BY <1>2 DEF DocStep
<1>15. TableStep({r}) BY <1>8, <1>10, <1>11, <1>12, <1>13, <1>14 DEF TableStep
<1>16. {r} \subseteq InFlight BY <1>1 DEF InFlight
<1> QED BY <1>1, <1>15, <1>16 DEF StepFrom

\* A receivable is closed before anything is received.
LEMMA DebtCloses ==
  ASSUME Known, NEW r \in Requests, Running(r), NEW o, o.debt \in Debts, NEW status \in Closed,
         CloseDebt(o, status), holder[DebtLock(o.debt)] = r,
         debt[o.debt].source = "COMPLETED", debt[o.debt].received = 0
  PROVE  StepFrom({r})
<1> DEFINE b == o.debt
           row == [debt[b] EXCEPT !.status = status, !.remaining = 0, !.source = "REVERSED"]
<1>1. /\ debt' = [debt EXCEPT ![b] = row] /\ PostReversal(DebtJournal(b)) /\ case' = case /\ doc' = doc
  BY DEF CloseDebt
<1>2. debt \in [Debts -> DebtRow] /\ debt[b] \in DebtRow BY DEF Known, TypeOK
<1>3. /\ row \in DebtRow /\ row.received = 0 /\ row.remaining = 0 /\ row.source = "REVERSED"
      /\ row.status = status
  BY <1>2 DEF DebtRow, Closed
<1> HIDE DEF row, b
<1>4. debt' \in [Debts -> DebtRow] /\ debt'[b] = row /\ \A x \in Debts \ {b} : debt'[x] = debt[x]
  BY <1>1, <1>2, <1>3 DEF b
<1>5. DebtVoided({r}, b) BY <1>3, <1>4 DEF DebtVoided, b
<1>6. \A x \in Debts \ {b} : DebtListed(x) BY <1>4 DEF DebtListed
<1>7. MoneyStep({r})
  <2>1. Owing[b] \in Nat BY DuesAssumption DEF b
  <2>2. DebtJournal(b) \in [Ledgers -> Int]
        /\ DebtJournal(b)["MONEY"] = IF b \in FromAccount THEN -Owing[b] ELSE 0
    BY JournalTypes DEF b
  <2>3. DebtJournal(b)["MONEY"] <= 0 BY <2>1, <2>2
  <2> QED BY <1>1, <2>2, <2>3, MoneyBack
<1>8. {r} \in SUBSET InFlight BY DEF InFlight
<1> QED BY <1>1, <1>4, <1>5, <1>6, <1>7, <1>8, DebtsOnly

\* cancel().
LEMMA CancelKeeps ==
  ASSUME Known, NEW r \in Requests, Cancel(r)
  PROVE  StepFrom({r}) /\ SessionStep({r})
<1> DEFINE o == op[r]
           v == view[r]
<1>1. /\ Running(r) /\ Ready(r, o, v) /\ o.kind = "cancel" /\ CancelChecks(o, v)
      /\ SessionStep({r})
  BY CommitFacts DEF Cancel, Checks
<1>2. CloseDebt(o, "CANCELLED") BY DEF Cancel, CancelEffect
<1> HIDE DEF o, v
<1>3. /\ o.debt \in Debts /\ holder[DebtLock(o.debt)] = r /\ v.debt.received = debt[o.debt].received
      /\ v.debt.status = debt[o.debt].status /\ debt[o.debt].source # "ABSENT"
  BY <1>1 DEF Ready, OfDebt, CallFits
<1>4. debt[o.debt] \in DebtRow /\ DebtOK(o.debt) BY <1>3 DEF Known, TypeOK, Books
<1>5. debt[o.debt].source = "COMPLETED" /\ debt[o.debt].received = 0
  BY <1>1, <1>3, <1>4 DEF CancelChecks, DebtOK, DebtRow
<1>6. "CANCELLED" \in Closed BY DEF Closed
<1> QED BY <1>1, <1>2, <1>3, <1>5, <1>6, DebtCloses

\* reverse() of a receivable.
LEMMA ReverseDebtKeeps ==
  ASSUME Known, NEW r \in Requests, ReverseDebt(r)
  PROVE  StepFrom({r}) /\ SessionStep({r})
<1> DEFINE o == op[r]
           v == view[r]
<1>1. /\ Running(r) /\ Ready(r, o, v) /\ o.kind = "reverseDebt" /\ ReverseDebtChecks(o, v)
      /\ SessionStep({r})
  BY CommitFacts DEF ReverseDebt, Checks
<1>2. CloseDebt(o, "REVERSED") BY DEF ReverseDebt, ReverseDebtEffect
<1> HIDE DEF o, v
<1>3. /\ o.debt \in Debts /\ holder[DebtLock(o.debt)] = r /\ v.debt.received = debt[o.debt].received
      /\ v.debt.source = debt[o.debt].source
  BY <1>1 DEF Ready, OfDebt
<1>4. debt[o.debt].source = "COMPLETED" /\ debt[o.debt].received = 0
  BY <1>1, <1>3 DEF ReverseDebtChecks
<1>5. "REVERSED" \in Closed BY DEF Closed
<1> QED BY <1>1, <1>2, <1>3, <1>4, <1>5, DebtCloses

\* A receivable is recorded.
LEMMA CreateReceivableKeeps ==
  ASSUME Known, NEW b \in Debts, CreateReceivable(b)
  PROVE  StepFrom({}) /\ SessionStep({})
<1> DEFINE status == IF DueDay[b] < today THEN "OVERDUE" ELSE "PENDING"
           row == [received |-> 0, remaining |-> Owing[b], source |-> "COMPLETED", status |-> status]
<1>1. /\ debt[b] = NoDebt /\ debt' = [debt EXCEPT ![b] = row] /\ Post(DebtJournal(b))
      /\ b \in FromAccount => holder[MoneyLock] = Nobody /\ ledger["MONEY"] >= Owing[b]
      /\ UNCHANGED <<case, doc, today, op, stage, view, workload, holder>>
  BY DEF CreateReceivable
<1>2. debt \in [Debts -> DebtRow] /\ today \in 0..MaxDay /\ Owing[b] \in Nat
  BY DuesAssumption DEF Known, TypeOK
<1>3. status \in {"OVERDUE", "PENDING"} OBVIOUS
<1> HIDE DEF status
<1>4. row \in DebtRow BY <1>2, <1>3 DEF DebtRow
<1>5. debt' \in [Debts -> DebtRow] /\ debt'[b] = row /\ \A x \in Debts \ {b} : debt'[x] = debt[x]
  BY <1>1, <1>2, <1>4
<1>6. DebtOpened(b) BY <1>1, <1>3, <1>5 DEF DebtOpened, Closed
<1>7. \A x \in Debts \ {b} : DebtListed(x) BY <1>5 DEF DebtListed
<1>8. MoneyStep({})
  <2>1. /\ DebtJournal(b) \in [Ledgers -> Int]
        /\ DebtJournal(b)["MONEY"] = IF b \in FromAccount THEN -Owing[b] ELSE 0
    BY JournalTypes
  <2>2. ledger["MONEY"] \in Int BY DEF Known, TypeOK, Ledgers
  <2>3. DebtJournal(b)["MONEY"] < 0 =>
          holder[MoneyLock] = Nobody /\ ledger["MONEY"] + DebtJournal(b)["MONEY"] >= 0
    BY <1>1, <1>2, <2>1, <2>2
  <2>4. ledger' = [l \in Ledgers |-> ledger[l] + DebtJournal(b)[l]] BY <1>1 DEF Post
  <2> QED BY <2>1, <2>3, <2>4, MoneyPaid
<1>9. SessionStep({}) BY <1>1, <1>2, NobodyMoves
<1>10. {} \in SUBSET InFlight OBVIOUS
<1> QED BY <1>1, <1>5, <1>6, <1>7, <1>8, <1>9, <1>10, DebtsOnly

\* The calendar is caught up with.
LEMMA ListKeeps ==
  ASSUME Known, List
  PROVE  StepFrom({}) /\ SessionStep({})
<1>1. /\ \A b \in Debts : debt[b].status # Listed(debt[b], DueDay[b]) => holder[DebtLock(b)] = Nobody
      /\ debt' = [b \in Debts |-> [debt[b] EXCEPT !.status = Listed(debt[b], DueDay[b])]]
      /\ UNCHANGED <<case, doc, ledger, today, op, stage, view, workload, holder>>
  BY DEF List
<1>2. debt \in [Debts -> DebtRow] /\ today \in 0..MaxDay /\ ledger \in [Ledgers -> Int] /\ Books
  BY DEF Known, TypeOK
<1>3. ASSUME NEW b \in Debts PROVE debt'[b] \in DebtRow /\ DebtListed(b)
  <2> DEFINE s == Listed(debt[b], DueDay[b])
  <2>1. debt[b] \in DebtRow BY <1>2
  <2>2. /\ s = debt[b].status
        \/ /\ debt[b].remaining > 0 /\ s \in {"PENDING", "PARTIALLY_RECEIVED", "OVERDUE"}
           /\ debt[b].status \in {"PENDING", "PARTIALLY_RECEIVED", "OVERDUE"}
    BY <2>1 DEF Listed, DebtRow
  <2>3. debt'[b] = [debt[b] EXCEPT !.status = s] BY <1>1
  <2>4. s # debt[b].status => holder[DebtLock(b)] = Nobody BY <1>1
  <2> HIDE DEF s
  <2>5. s \in {"PENDING", "PARTIALLY_RECEIVED", "OVERDUE", "RECEIVED", "CANCELLED", "REVERSED"}
    BY <2>1, <2>2 DEF DebtRow
  <2>6. /\ debt'[b] \in DebtRow /\ debt'[b].received = debt[b].received
        /\ debt'[b].remaining = debt[b].remaining /\ debt'[b].source = debt[b].source
        /\ debt'[b].status = s
    BY <2>1, <2>3, <2>5 DEF DebtRow
  <2> QED BY <2>2, <2>4, <2>6 DEF DebtListed, Closed
<1>4. debt' \in [Debts -> DebtRow] BY <1>1, <1>3
<1>5. MoneyStep({})
  <2>1. ledger["MONEY"] \in Int BY <1>2 DEF Ledgers
  <2>2. ledger["MONEY"] >= ledger["MONEY"] BY <2>1
  <2> QED BY <1>1, <1>2, <2>2 DEF MoneyStep, Books
<1>6. SessionStep({}) BY <1>1, <1>2, NobodyMoves
<1>7. {} \in SUBSET InFlight OBVIOUS
<1> QED BY <1>1, <1>3, <1>4, <1>5, <1>6, <1>7, DebtsOnly

---------------------------------------------------------------------------
(* Several recoveries, or the first one of a case.                         *)

(* What the recoveries `made` settle of case c.                            *)
AppliedBy(made, D, c) == SumFunction([x \in D |-> made[x].principal[c]])

(* A recovery that A records under the number x.                           *)
RecoveryAt(A, x, d) ==
    /\ doc[x] = NoDocument /\ stage'[x[1]] = -1
    /\ d \in Document /\ Standing(d) /\ DocumentOK(d) /\ d.kind = "recovery"
    /\ \A c \in Cases : d.case = c \/ c \in Settled(d) => c \in Live'
    /\ \A s \in InFlight \ A : op[s].kind \in workload.beside

\* A step that records recoveries, as many as it takes.
LEMMA RecordedAll ==
  ASSUME Known, NEW A \in SUBSET InFlight, NEW D \in SUBSET Docs, NEW made \in [D -> Document],
         \A x \in D : RecoveryAt(A, x, made[x]),
         doc' = [x \in Docs |-> IF x \in D THEN made[x] ELSE doc[x]],
         case' = [c \in Cases |-> case'[c]], debt' = debt, MoneyStep(A),
         \A c \in Cases :
             LET p == AppliedBy(made, D, c)
             IN  (p = 0 /\ case'[c] = case[c]) \/ CaseMoved(A, c, p, 0, 0) \/ CaseOpened(c, p)
  PROVE  StepFrom(A)
<1>1. doc \in [Docs -> Document] /\ debt \in [Debts -> DebtRow] BY DEF Known, TypeOK
<1>2. IsFiniteSet(D) BY DocsFinite, FS_Subset
<1>3. ASSUME NEW F \in [Document -> Int], F[NoDocument] = 0
      PROVE  Gain(F) = SumFunction([x \in D |-> F[made[x]]])
  <2>1. \A x \in D : F[doc[x]] = 0 BY <1>3 DEF RecoveryAt
  <2>2. Tally(F, [x \in Docs |-> IF x \in D THEN made[x] ELSE doc[x]]) - Tally(F, doc)
        = SumFunction([x \in D |-> F[made[x]]])
    BY ONLY <1>1, <2>1, F \in [Document -> Int], D \in SUBSET Docs, made \in [D -> Document], TallyMore
  <2> QED BY <2>2 DEF Gain
<1>4. \A x \in D : /\ made[x] \in Document /\ Standing(made[x]) /\ made[x].commission = Nothing
                   /\ made[x].extra = 0 /\ made[x].kind = "recovery" /\ made[x].debt = None
  BY DEF RecoveryAt, DocumentOK
<1>5. ASSUME NEW F \in [Document -> Int], F[NoDocument] = 0, \A x \in D : F[made[x]] = 0
      PROVE  Gain(F) = 0
  <2> DEFINE z == [x \in D |-> F[made[x]]]
  <2>1. z \in [D -> Int] /\ \A x \in D : z[x] = 0 BY <1>5
  <2>2. Gain(F) = SumFunction(z) BY <1>3, <1>5
  <2> HIDE DEF z
  <2> QED BY <1>2, <2>1, <2>2, SumZero
<1>6. ASSUME NEW c \in Cases
      PROVE  /\ Gain(Principal(c)) = AppliedBy(made, D, c) /\ Gain(CommissionPaid(c)) = 0
             /\ Gain(FeeAdded(c)) = 0
  <2>1. /\ Principal(c) \in [Document -> Int] /\ CommissionPaid(c) \in [Document -> Int]
        /\ FeeAdded(c) \in [Document -> Int]
    BY DEF Document, Principal, CommissionPaid, FeeAdded
  <2>2. /\ Principal(c)[NoDocument] = 0 /\ CommissionPaid(c)[NoDocument] = 0
        /\ FeeAdded(c)[NoDocument] = 0
    BY NoDocumentFits
  <2>3. \A x \in D : CommissionPaid(c)[made[x]] = 0 /\ FeeAdded(c)[made[x]] = 0
    BY <1>4 DEF CommissionPaid, FeeAdded, Nothing
  <2>4. [x \in D |-> Principal(c)[made[x]]] = [x \in D |-> made[x].principal[c]]
    <3>1. \A x \in D : Principal(c)[made[x]] = made[x].principal[c] BY <1>4 DEF Principal
    <3> QED BY <3>1
  <2>5. Gain(Principal(c)) = SumFunction([x \in D |-> Principal(c)[made[x]]]) BY <1>3, <2>1, <2>2
  <2>6. Gain(Principal(c)) = AppliedBy(made, D, c) BY <2>4, <2>5 DEF AppliedBy
  <2> QED BY <1>5, <2>1, <2>2, <2>3, <2>6
<1>7. \A c \in Cases : CaseStep(A, c) BY <1>6 DEF CaseStep
<1>8. ASSUME NEW b \in Debts PROVE DebtStep(A, b)
  <2>1. Collected(b) \in [Document -> Int] BY DEF Document, Collected
  <2>2. Collected(b)[NoDocument] = 0 BY NoDocumentFits
  <2>3. \A x \in D : Collected(b)[made[x]] = 0 BY <1>4, DuesAssumption DEF Collected
  <2>4. Gain(Collected(b)) = 0 BY <1>5, <2>1, <2>2, <2>3
  <2> QED BY <2>4 DEF DebtStep, DebtListed
<1>9. ASSUME NEW x \in Docs PROVE DocStep(A, x)
  <2>1. CASE x \notin D BY <2>1 DEF DocStep
  <2>2. CASE x \in D
    <3>1. doc'[x] = made[x] BY <2>2
    <3>2. made[x].debt \notin Debts BY <1>4, <2>2, DuesAssumption
    <3>3. DocRecorded(x, doc'[x]) BY <2>2, <3>1, <3>2 DEF DocRecorded, RecoveryAt
    <3> QED BY <2>2, <3>3 DEF DocStep, RecoveryAt
  <2> QED BY <2>1, <2>2
<1>10. doc' = [x \in Docs |-> doc'[x]] OBVIOUS
<1>11. TableStep(A) BY <1>1, <1>7, <1>8, <1>9, <1>10 DEF TableStep
<1> QED BY <1>11 DEF StepFrom

\* A case as create() writes it.
Opened(born, due, fee) ==
    [NoCase EXCEPT !.left = due, !.fee = fee, !.unpaid = fee, !.born = born, !.status = "PENDING"]

\* The row that create() writes.
LEMMA OpenedRow ==
  ASSUME NEW born, NEW due, NEW fee
  PROVE  Opened(born, due, fee) = Row(0, due, fee, 0, fee, born, "PENDING")
<1> DEFINE r1 == [NoCase EXCEPT !.left = due]
           r2 == [r1 EXCEPT !.fee = fee]
           r3 == [r2 EXCEPT !.unpaid = fee]
           r4 == [r3 EXCEPT !.born = born]
           r5 == [r4 EXCEPT !.status = "PENDING"]
<1>1. r1 = Row(0, due, 0, 0, 0, 0, "ABSENT") BY DEF NoCase, Row
<1> HIDE DEF r1
<1>2. r2 = Row(0, due, fee, 0, 0, 0, "ABSENT") BY <1>1 DEF Row
<1> HIDE DEF r2
<1>3. r3 = Row(0, due, fee, 0, fee, 0, "ABSENT") BY <1>2 DEF Row
<1> HIDE DEF r3
<1>4. r4 = Row(0, due, fee, 0, fee, born, "ABSENT") BY <1>3 DEF Row
<1> HIDE DEF r4
<1>5. r5 = Row(0, due, fee, 0, fee, born, "PENDING") BY <1>4 DEF Row
<1> QED BY <1>5 DEF Opened, r1, r2, r3, r4, r5

\* What may happen beside the creation of a case.
LEMMA AllowedBeside ==
  ASSUME NEW kind, Allowed(kind), NEW s \in InFlight
  PROVE  op[s].kind \in workload.beside /\ kind \in workload.beside
BY DEF Allowed

\* A row that has received nothing yet.
LEMMA FirstMoves ==
  ASSUME TypeOK, NEW c \in Cases
  PROVE  Opened(Now, Due[c], Fee[c]) = FirstRow(c) /\ Moved(FirstRow(c), 0, 0, 0) = FirstRow(c)
<1>1. Opened(Now, Due[c], Fee[c]) = FirstRow(c) BY OpenedRow DEF Row, FirstRow
<1>2. Due[c] \in Nat \ {0} /\ Fee[c] \in Nat BY DuesAssumption
<1>3. /\ 0 + 0 = 0 /\ Due[c] - 0 = Due[c] /\ Fee[c] + 0 = Fee[c] /\ Fee[c] + 0 - 0 = Fee[c]
      /\ MasterStatus(0, Due[c]) = "PENDING"
  BY <1>2 DEF MasterStatus
<1>4. Moved(FirstRow(c), 0, 0, 0) = FirstRow(c) BY <1>3 DEF Moved, FirstRow
<1> QED BY <1>1, <1>4

\* What is paid for a case, less what its first recovery brings.
LEMMA CaseCharges ==
  ASSUME Known, NEW A, NEW c \in Cases, NEW J \in [Ledgers -> Int], J["MONEY"] >= 0,
         NEW charges, charges = [l \in Ledgers |-> CaseJournal(c)[l] + J[l]], Post(charges),
         holder[MoneyLock] = Nobody, ledger["MONEY"] >= Due[c] + PayoutCharge
  PROVE  MoneyStep(A)
<1>1. Due[c] \in Nat /\ PayoutCharge \in Nat BY DuesAssumption
<1>2. CaseJournal(c) \in [Ledgers -> Int] /\ CaseJournal(c)["MONEY"] = -(Due[c] + PayoutCharge)
  BY JournalTypes
<1>3. \A l \in Ledgers : CaseJournal(c)[l] + J[l] \in Int BY <1>2
<1>4. charges \in [Ledgers -> Int] BY <1>3
<1>5. "MONEY" \in Ledgers BY DEF Ledgers
<1>6. charges["MONEY"] = J["MONEY"] - (Due[c] + PayoutCharge) /\ J["MONEY"] \in Int BY <1>1, <1>2, <1>5
<1>7. ledger["MONEY"] \in Int BY <1>5 DEF Known, TypeOK
<1>8. ledger["MONEY"] + charges["MONEY"] >= 0 BY <1>1, <1>6, <1>7
<1>9. ledger' = [l \in Ledgers |-> ledger[l] + charges[l]] BY DEF Post
<1> QED BY <1>4, <1>8, <1>9, MoneyPaid

\* A request that recorded something with its case is done.
LEMMA FirstEnds ==
  ASSUME Known, NEW r \in Requests, stage[r] = 0, stage' = [stage EXCEPT ![r] = -1],
         UNCHANGED <<today, op, view, workload, holder>>
  PROVE  SessionStep({})
<1>1. /\ TypeOK /\ BesideOnly /\ op \in [Requests -> Operation] /\ stage \in [Requests -> Nat \cup {-1}]
      /\ view \in [Requests -> View] /\ today \in 0..MaxDay /\ LocksTypeOK(Rows)
  BY DEF Known, TypeOK
<1>2. stage' \in [Requests -> Nat \cup {-1}] /\ stage'[r] = -1
      /\ \A s \in Requests : s # r => stage'[s] = stage[s]
  BY <1>1
<1>3. \A s \in Requests : Running(s)' => Running(s) /\ s # r BY <1>2 DEF Running
<1>4. \A s \in Requests : ~Running(s)' => ~Running(s) BY <1>2 DEF Running
<1>5. \A s \in Requests : ~Running(s) => view[s] = NoView BY DEF Known, SessionOK
<1>6. BesideOnly' BY <1>1, <1>3 DEF BesideOnly
<1> QED BY <1>1, <1>2, <1>3, <1>4, <1>5, <1>6 DEF SessionStep, LocksTypeOK, InFlight

\* The first recovery of a case that is recorded with it.
LEMMA FirstRecovery ==
  ASSUME Known, ReceiptsFindAll, NEW r \in Requests, NEW c \in Cases, NEW n \in Nat, n > 0,
         n > GatewayCharge(n), case[c] = NoCase, Allowed("create"), stage[r] = 0, stage'[r] = -1,
         NEW d, d = Recovery(c, n, Due[c], Now + 1), doc' = [doc EXCEPT ![<<r, "main">>] = d],
         case' = [case EXCEPT ![c] = Receive(FirstRow(c), d.principal[c], 0)],
         debt' = debt, MoneyStep({})
  PROVE  StepFrom({})
<1> DEFINE m == <<r, "main">>
           made == [x \in {m} |-> d]
           p == Smaller(Due[c], n)
<1>1. m \in Docs /\ m[1] = r BY DEF Docs
<1>2. doc[m] = NoDocument BY <1>1 DEF Known, SessionOK
<1>3. doc \in [Docs -> Document] /\ case \in [Cases -> CaseRow] /\ TypeOK BY DEF Known, TypeOK
<1>4. Due[c] \in Nat /\ GatewayCharge(n) \in Nat BY DuesAssumption, ChargeType
<1>5. Now + 1 \in Nat BY <1>3, NowType
<1>6. RecoversFrom(d, c, n, Due[c])
  <2>1. GatewayCharge(n) <= n BY <1>4
  <2> QED BY <1>4, <1>5, <2>1, RecoverySays
<1>7. /\ d \in Document /\ Standing(d) /\ DocumentOK(d) /\ d.kind = "recovery" /\ d.case = c
      /\ d.debt = None /\ Settled(d) \subseteq {c} /\ d.principal[c] = p /\ p \in 0..Due[c]
      /\ \A x \in Cases \ {c} : d.principal[x] = 0
  BY <1>6 DEF RecoversFrom, DocumentOK, Only
<1> HIDE DEF p, m
<1>8. case'[c] = Moved(FirstRow(c), p, 0, 0)
  <2>1. FirstRow(c) \in CaseRow /\ FirstRow(c).left = Due[c] BY <1>3, FirstRowType
  <2>2. p \in Int /\ p <= Due[c] BY <1>4, <1>7
  <2>3. Receive(FirstRow(c), p, 0) = Moved(FirstRow(c), p, 0, 0) BY <2>1, <2>2, ReceiveMoves
  <2> QED BY <1>3, <1>7, <2>3
<1>9. \A x \in Cases \ {c} : case'[x] = case[x] BY <1>3
<1>10. case' = [x \in Cases |-> case'[x]] BY <1>3
<1>11. c \in Live'
  <2>1. FirstRow(c) \in CaseRow BY <1>3, FirstRowType
  <2>2. Moved(FirstRow(c), p, 0, 0).status \notin {"ABSENT", "REVERSED"} BY <1>7, <2>1, MovedType
  <2> QED BY <1>8, <2>2 DEF Live
<1>12. \A s \in InFlight : op[s].kind \in workload.beside /\ op[s].kind # "combined"
  <2>1. workload \in Workloads BY DEF Known, TypeOK
  <2> QED BY <2>1, AllowedBeside DEF ReceiptsFindAll
<1>13. CaseOpened(c, p) BY <1>7, <1>8, <1>9, <1>12 DEF CaseOpened, InFlight
<1>14. made \in [{m} -> Document] /\ made[m] = d BY <1>7
<1>15. ASSUME NEW x \in {m} PROVE RecoveryAt({}, x, made[x])
  <2>1. x = m /\ made[x] = d BY <1>14
  <2>2. \A y \in Cases : d.case = y \/ y \in Settled(d) => y \in Live' BY <1>7, <1>11
  <2> QED BY <1>1, <1>2, <1>7, <1>12, <2>1, <2>2 DEF RecoveryAt
<1>16. doc' = [x \in Docs |-> IF x \in {m} THEN made[x] ELSE doc[x]] BY <1>1, <1>3, <1>14 DEF m
<1>17. ASSUME NEW y \in Cases PROVE AppliedBy(made, {m}, y) = d.principal[y] /\ d.principal[y] \in Nat
  <2> DEFINE f == [x \in {m} |-> made[x].principal[y]]
  <2>1. d.principal[y] \in Nat BY <1>7 DEF Document
  <2>2. f \in [{m} -> Int] /\ f[m] = d.principal[y] BY <1>14, <2>1
  <2>3. \A x \in {m} \ {m} : f[x] = 0 OBVIOUS
  <2>4. IsFiniteSet({m}) /\ m \in {m} BY FS_Singleton
  <2>5. AppliedBy(made, {m}, y) = SumFunction(f) BY DEF AppliedBy
  <2> HIDE DEF f
  <2>6. SumFunction(f) = f[m] BY <2>2, <2>3, <2>4, SumOfOne
  <2> QED BY <2>1, <2>2, <2>5, <2>6
<1> HIDE DEF made
<1>18. ASSUME NEW y \in Cases
       PROVE  LET q == AppliedBy(made, {m}, y)
              IN  (q = 0 /\ case'[y] = case[y]) \/ CaseMoved({}, y, q, 0, 0) \/ CaseOpened(y, q)
  <2>1. CASE y = c BY <1>7, <1>13, <1>17, <2>1
  <2>2. CASE y # c BY <1>7, <1>9, <1>17, <2>2
  <2> QED BY <2>1, <2>2
<1>19. {m} \in SUBSET Docs /\ {} \in SUBSET InFlight BY <1>1
<1> QED BY <1>10, <1>14, <1>15, <1>16, <1>18, <1>19, RecordedAll

\* create() of a card due.
LEMMA CreateCaseKeeps ==
  ASSUME Known, ReceiptsFindAll, NEW r \in Requests, NEW c \in Cases, NEW n \in Amounts \cup {0},
         CreateCase(r, c, n)
  PROVE  StepFrom({}) /\ SessionStep({})
<1> DEFINE row == [NoCase EXCEPT !.left = Due[c], !.fee = Fee[c], !.unpaid = Fee[c],
                                 !.born = Now, !.status = "PENDING"]
           d == Recovery(c, n, Due[c], Now + 1)
           charges == [l \in Ledgers |-> CaseJournal(c)[l] + (IF n = 0 THEN 0 ELSE Journal(d)[l])]
<1>1. /\ case[c] = NoCase /\ Allowed("create") /\ holder[MoneyLock] = Nobody
      /\ ledger["MONEY"] >= Due[c] + PayoutCharge
      /\ n > 0 => n > GatewayCharge(n)
      /\ case' = [case EXCEPT ![c] = IF n = 0 THEN row ELSE Receive(row, d.principal[c], 0)]
      /\ IF n = 0 THEN UNCHANGED <<doc, stage>>
         ELSE /\ stage[r] = 0 /\ stage' = [stage EXCEPT ![r] = -1]
              /\ doc' = [doc EXCEPT ![<<r, "main">>] = d]
      /\ Post(charges) /\ UNCHANGED <<debt, today, op, view, workload, holder>>
  BY DEF CreateCase
<1>2. n \in Nat BY DuesAssumption
<1>3. TypeOK /\ case \in [Cases -> CaseRow] /\ stage \in [Requests -> Nat \cup {-1}]
      /\ today \in 0..MaxDay
  BY DEF Known, TypeOK
<1>4. row = FirstRow(c)
  <2>1. row = Opened(Now, Due[c], Fee[c]) BY DEF Opened
  <2> QED BY <1>3, <2>1, FirstMoves
<1> HIDE DEF row, d, charges
<1>5. CASE n = 0
  <2> DEFINE J == [l \in Ledgers |-> 0]
             made == [x \in {} |-> NoDocument]
  <2>1. J \in [Ledgers -> Int] /\ J["MONEY"] >= 0
        /\ charges = [l \in Ledgers |-> CaseJournal(c)[l] + J[l]]
    BY <1>5 DEF charges, Ledgers
  <2> HIDE DEF J
  <2>2. MoneyStep({}) BY <1>1, <2>1, CaseCharges
  <2>3. case'[c] = Moved(FirstRow(c), 0, 0, 0) /\ \A x \in Cases \ {c} : case'[x] = case[x]
    BY <1>1, <1>3, <1>4, <1>5, FirstMoves
  <2>4. \A s \in InFlight : op[s].kind # "combined"
    <3>1. workload \in Workloads BY <1>3 DEF TypeOK
    <3> QED BY <1>1, <3>1, AllowedBeside DEF ReceiptsFindAll
  <2>5. CaseOpened(c, 0)
    <3>1. Due[c] \in Nat BY DuesAssumption
    <3> QED BY <1>1, <2>3, <2>4, <3>1 DEF CaseOpened, InFlight
  <2>6. ASSUME NEW y \in Cases PROVE AppliedBy(made, {}, y) = 0
    <3> DEFINE f == [x \in {} |-> made[x].principal[y]]
    <3>1. f \in [{} -> Int] /\ \A x \in {} : f[x] = 0 OBVIOUS
    <3>2. AppliedBy(made, {}, y) = SumFunction(f) BY DEF AppliedBy
    <3> HIDE DEF f
    <3>3. SumFunction(f) = 0 BY <3>1, FS_EmptySet, SumZero
    <3> QED BY <3>2, <3>3
  <2>7. made \in [{} -> Document] OBVIOUS
  <2> HIDE DEF made
  <2>8. ASSUME NEW y \in Cases
        PROVE  LET q == AppliedBy(made, {}, y)
               IN  (q = 0 /\ case'[y] = case[y]) \/ CaseMoved({}, y, q, 0, 0) \/ CaseOpened(y, q)
    BY <2>3, <2>5, <2>6
  <2>9. doc' = [x \in Docs |-> IF x \in {} THEN made[x] ELSE doc[x]]
    BY <1>1, <1>5 DEF Known, TypeOK
  <2>10. case' = [x \in Cases |-> case'[x]] BY <1>1, <1>3
  <2>11. {} \in SUBSET Docs /\ {} \in SUBSET InFlight /\ \A x \in {} : RecoveryAt({}, x, made[x]) OBVIOUS
  <2>12. debt' = debt BY <1>1
  <2>13. StepFrom({}) BY <2>2, <2>7, <2>8, <2>9, <2>10, <2>11, <2>12, RecordedAll
  <2>14. SessionStep({}) BY <1>1, <1>3, <1>5, NobodyMoves
  <2> QED BY <2>13, <2>14
<1>6. CASE n # 0
  <2>1. n > 0 /\ n > GatewayCharge(n) BY <1>1, <1>2, <1>6
  <2>2. GatewayCharge(n) \in Nat /\ Due[c] \in Nat /\ Now + 1 \in Nat
    BY <1>2, <1>3, ChargeType, DuesAssumption, NowType
  <2>3. RecoversFrom(d, c, n, Due[c])
    <3>1. GatewayCharge(n) <= n BY <1>2, <2>1, <2>2
    <3> QED BY <1>2, <2>2, <3>1, RecoverySays DEF d
  <2>4. Journal(d) \in [Ledgers -> Int] /\ Journal(d)["MONEY"] >= 0
    <3>1. d.kind # "assessment" /\ d.charge <= d.amount /\ d \in Document
      BY <2>3 DEF RecoversFrom, DocumentOK
    <3>2. d.amount \in Nat /\ d.charge \in Nat /\ d.credit \in Nat /\ d.extra \in Nat BY <3>1 DEF Document
    <3> QED BY <3>1, <3>2 DEF Journal, NoJournal, Ledgers, Reduced
  <2>5. charges = [l \in Ledgers |-> CaseJournal(c)[l] + Journal(d)[l]] BY <1>6 DEF charges
  <2>6. MoneyStep({}) BY <1>1, <2>4, <2>5, CaseCharges
  <2>7. /\ stage[r] = 0 /\ stage' = [stage EXCEPT ![r] = -1] /\ stage'[r] = -1
        /\ doc' = [doc EXCEPT ![<<r, "main">>] = d] /\ debt' = debt
        /\ case' = [case EXCEPT ![c] = Receive(FirstRow(c), d.principal[c], 0)]
    BY <1>1, <1>3, <1>4, <1>6
  <2>8. d = Recovery(c, n, Due[c], Now + 1) BY DEF d
  <2>9. StepFrom({}) BY <1>1, <1>2, <2>1, <2>6, <2>7, <2>8, FirstRecovery
  <2>10. SessionStep({}) BY <1>1, <2>7, FirstEnds
  <2> QED BY <2>9, <2>10
<1> QED BY <1>5, <1>6

\* A day passes, or a call ends without a trace.
LEMMA QuietKeeps ==
  ASSUME Known
  PROVE  /\ NextDay => StepFrom({}) /\ SessionStep({})
         /\ \A r \in Requests : Reject(r) \/ Abort(r) => StepFrom({r}) /\ SessionStep({r})
<1>1. ASSUME NextDay PROVE StepFrom({}) /\ SessionStep({})
  <2>1. /\ today < MaxDay /\ today' = today + 1 /\ UNCHANGED tables
        /\ UNCHANGED <<op, stage, view, workload, holder>>
    BY <1>1 DEF NextDay, tables
  <2>2. today \in 0..MaxDay /\ MaxDay \in Nat BY DuesAssumption DEF Known, TypeOK
  <2>3. today' \in 0..MaxDay BY <2>1, <2>2
  <2>4. StepFrom({}) BY <2>1, TablesStay
  <2>5. SessionStep({}) BY <2>1, <2>3, NobodyMoves
  <2> QED BY <2>4, <2>5
<1>2. ASSUME NEW r \in Requests, Reject(r) \/ Abort(r) PROVE StepFrom({r}) /\ SessionStep({r})
  <2>1. Running(r) /\ Finish(r, 0) /\ UNCHANGED tables BY <1>2 DEF Reject, Abort
  <2>2. {r} \in SUBSET InFlight BY <2>1 DEF InFlight
  <2>3. StepFrom({r}) BY <2>1, <2>2, TablesStay
  <2>4. SessionStep({r}) BY <2>1, FinishEnds
  <2> QED BY <2>3, <2>4
<1> QED BY <1>1, <1>2

---------------------------------------------------------------------------
(* A recovery for all cases.                                               *)

\* What falls to a case, of the cases that a recovery has found.
LEMMA PartFits ==
  ASSUME NEW n \in Int, NEW S \in SUBSET Cases, NEW room \in [Cases -> Int]
  PROVE  /\ \A c \in S : room[c] \in Nat => Share(n, c, S, room) \in 0..room[c]
         /\ Excess(n, S, room) \in Nat
<1>1. IsFiniteSet(Cases) BY DuesAssumption
<1>2. SumFunctionOnSet(room, S) \in Int BY <1>1, PartSum
<1>3. Excess(n, S, room) \in Nat BY <1>2 DEF Excess, Larger
<1>4. ASSUME NEW c \in S, room[c] \in Nat PROVE Share(n, c, S, room) \in 0..room[c]
  <2>1. Older(c, S) \in SUBSET Cases BY DEF Older
  <2>2. SumFunctionOnSet(room, Older(c, S)) \in Int BY <1>1, <2>1, PartSum
  <2>3. Larger(0, n - SumFunctionOnSet(room, Older(c, S))) \in Nat BY <2>2 DEF Larger
  <2>4. \A m \in Nat : Smaller(room[c], m) \in 0..room[c] BY <1>4 DEF Smaller
  <2> QED BY <2>3, <2>4 DEF Share
<1> QED BY <1>3, <1>4

\* The newest of several cases is one of them.
LEMMA NewestIn ==
  ASSUME Known, NEW S \in SUBSET Cases, S # {}, \A c \in S : case[c].status # "ABSENT"
  PROVE  Newest(S) \in S /\ Older(Newest(S), S) = S \ {Newest(S)}
<1> DEFINE f == [c \in S |-> case[c].born]
<1>1. IsFiniteSet(S) BY DuesAssumption, FS_Subset
<1>2. \A c \in S : case[c].born \in Int BY DEF Known, TypeOK, CaseRow
<1>3. f \in [S -> Int] BY <1>2
<1>4. PICK c \in S : \A x \in S : f[x] <= f[c]
  <2> HIDE DEF f
  <2> QED BY <1>1, <1>3, Greatest
<1>5. \A x \in S \ {c} : case[x].born < case[c].born
  <2>1. \A x \in S \ {c} : case[x].born # case[c].born BY DEF Known, Dated
  <2>2. \A x \in S : case[x].born <= case[c].born BY <1>4
  <2> QED BY <1>2, <2>1, <2>2
<1>6. Older(c, S) = S \ {c} BY <1>2, <1>5 DEF Older
<1> QED BY <1>6 DEF Newest

(* The recoveries of the cases S, one for each to which something falls,   *)
(* and one for the rest on the last of them.                               *)
SharedOut(r, D, made, S, part, last, excess) ==
    /\ \A x \in D : x[1] = r /\ x[2] \in S \cup {"excess"} /\ x = <<r, x[2]>>
    /\ \A x \in D : x[2] # "excess" => RecoversFrom(made[x], x[2], part[x[2]], case[x[2]].left)
    /\ \A x \in D : x[2] = "excess" =>
         RecoversFrom(made[x], last, excess, Larger(case[last].left - part[last], 0))

\* Together they settle of a case at most what is left of it.
LEMMA AppliedFits ==
  ASSUME Known, NEW r \in Requests, NEW S \in SUBSET Cases, NEW D \in SUBSET Docs,
         NEW made \in [D -> Document], NEW part \in [S -> Nat], NEW last \in S, NEW excess \in Nat,
         SharedOut(r, D, made, S, part, last, excess), NEW c \in Cases
  PROVE  LET q == AppliedBy(made, D, c)
         IN  /\ q \in Nat
             /\ (\E x \in D : made[x].case = c) => c \in S /\ (c \in Live => q <= case[c].left)
             /\ (\A x \in D : made[x].case # c) => q = 0
<1> DEFINE a == <<r, c>>
           e == <<r, "excess">>
           f == [x \in D |-> made[x].principal[c]]
           h == [x \in Docs |-> IF x \in D THEN f[x] ELSE 0]
           q == AppliedBy(made, D, c)
<1>1. a \in Docs /\ e \in Docs /\ a # e BY DuesAssumption DEF Docs
<1>2. f \in [D -> Int] /\ f \in [D -> Nat]
  <2>1. \A x \in D : made[x].principal[c] \in Nat BY DEF Document
  <2> QED BY <2>1
<1>3. h \in [Docs -> Int] /\ (\A x \in D : h[x] = f[x]) /\ (\A x \in Docs \ D : h[x] = 0) BY <1>2
<1>4. \A x \in D : f[x] = made[x].principal[c] OBVIOUS
<1>5. q = SumFunction(f) BY DEF AppliedBy
<1>6. \A x \in D : /\ made[x] \in Document /\ Standing(made[x]) /\ made[x].kind = "recovery"
                   /\ made[x].case = IF x[2] = "excess" THEN last ELSE x[2]
                   /\ \A y \in Cases : y # made[x].case => made[x].principal[y] = 0
  <2>1. ASSUME NEW x \in D
        PROVE  /\ Standing(made[x]) /\ made[x].kind = "recovery" /\ DocumentOK(made[x])
               /\ made[x].case = IF x[2] = "excess" THEN last ELSE x[2]
    BY DEF SharedOut, RecoversFrom
  <2> QED BY <2>1 DEF DocumentOK, Only
<1> HIDE DEF f, h, q, a, e
<1>7. SumFunction(h) = SumFunction(f) BY <1>2, <1>3, DocsFinite, SumExtend
<1>8. \A x \in Docs : x \notin {a, e} => h[x] = 0
  <2>1. ASSUME NEW x \in Docs, x \notin {a, e} PROVE h[x] = 0
    <3>1. CASE x \in D
      <4>1. x[2] # c /\ x[2] # "excess"
        <5>1. x = <<r, x[2]>> BY <3>1 DEF SharedOut
        <5> QED BY <2>1, <5>1 DEF a, e
      <4>2. made[x].case # c BY <1>6, <3>1, <4>1
      <4> QED BY <1>3, <1>4, <1>6, <3>1, <4>2
    <3>2. CASE x \notin D BY <1>3, <2>1, <3>2
    <3> QED BY <3>1, <3>2
  <2> QED BY <2>1
<1>9. q = h[a] + h[e] /\ h[a] \in Nat /\ h[e] \in Nat
  <2>1. PICK g \in [Docs -> Int] : /\ g[a] = 0 /\ \A y \in Docs \ {a} : g[y] = h[y]
                                   /\ SumFunction(g) \in Int /\ SumFunction(h) = h[a] + SumFunction(g)
    BY <1>1, <1>3, DocsFinite, SumWithout
  <2>2. \A y \in Docs \ {e} : g[y] = 0 BY <1>1, <1>8, <2>1
  <2>3. SumFunction(g) = g[e] BY <1>1, <2>2, DocsFinite, SumOfOne
  <2>4. g[e] = h[e] BY <1>1, <2>1
  <2>5. h[a] \in Nat /\ h[e] \in Nat BY <1>1, <1>2, <1>3
  <2> QED BY <1>5, <1>7, <2>1, <2>3, <2>4, <2>5
<1>10. ASSUME NEW x \in D, made[x].case = c PROVE c \in S
  <2>1. x[2] \in S \cup {"excess"} BY DEF SharedOut
  <2> QED BY <1>6, <1>10, <2>1
<1>11. ASSUME c \in Live, c \in S PROVE q <= case[c].left
  <2>1. case[c].left \in Nat /\ part[c] \in Nat BY <1>11, LiveRow
  <2>2. h[a] <= Smaller(case[c].left, part[c])
    <3>1. CASE a \in D
      <4>1. a[2] = c /\ c # "excess" BY DuesAssumption DEF a
      <4>2. RecoversFrom(made[a], c, part[c], case[c].left) BY <3>1, <4>1 DEF SharedOut
      <4>3. h[a] = made[a].principal[c] BY <1>3, <1>4, <3>1
      <4> QED BY <2>1, <4>2, <4>3 DEF RecoversFrom, Smaller
    <3>2. CASE a \notin D BY <1>1, <1>3, <2>1, <3>2 DEF Smaller
    <3> QED BY <3>1, <3>2
  <2>3. h[e] <= Larger(case[c].left - part[c], 0)
    <3>1. CASE e \in D /\ c = last
      <4>1. e[2] = "excess" BY DEF e
      <4>2. RecoversFrom(made[e], c, excess, Larger(case[c].left - part[c], 0))
        BY <3>1, <4>1 DEF SharedOut
      <4>3. h[e] = made[e].principal[c] BY <1>3, <1>4, <3>1
      <4>4. Larger(case[c].left - part[c], 0) \in Nat BY <2>1 DEF Larger
      <4> QED BY <4>2, <4>3, <4>4 DEF RecoversFrom
    <3>2. CASE e \in D /\ c # last
      <4>1. e[2] = "excess" BY DEF e
      <4>2. made[e].case # c BY <1>6, <3>2, <4>1
      <4>3. h[e] = 0 BY <1>3, <1>4, <1>6, <3>2, <4>2
      <4> QED BY <2>1, <4>3 DEF Larger
    <3>3. CASE e \notin D
      <4>1. h[e] = 0 BY <1>1, <1>3, <3>3
      <4> QED BY <2>1, <4>1 DEF Larger
    <3> QED BY <3>1, <3>2, <3>3
  <2>4. \A i, j, m, n \in Nat : i <= Smaller(m, n) /\ j <= Larger(m - n, 0) => i + j <= m
    BY DEF Smaller, Larger
  <2> QED BY <1>9, <2>1, <2>2, <2>3, <2>4
<1>12. ASSUME \A x \in D : made[x].case # c PROVE q = 0
  <2>1. h[a] = 0 /\ h[e] = 0 BY <1>1, <1>3, <1>4, <1>6, <1>12
  <2> QED BY <1>9, <2>1
<1> QED BY <1>9, <1>10, <1>11, <1>12 DEF q

\* What a recovery says, whatever is left of its case.
LEMMA RecoveryFields ==
  ASSUME NEW c, NEW n, NEW left \in Int, NEW at
  PROVE  /\ Recovery(c, n, left, at).amount = n /\ Recovery(c, n, left, at).charge = GatewayCharge(n)
         /\ Recovery(c, n, left, at).case = c
         /\ Recovery(c, n, left, at) = Recovery(c, n, Larger(left, 0), at)
<1> DEFINE applied == Smaller(Larger(left, 0), n)
           principal == [Nothing EXCEPT ![c] = applied]
           charge == GatewayCharge(n)
<1>1. Recovery(c, n, left, at) = Swipe(c, n, charge, principal, n - applied, at) BY DEF Recovery, Swipe
<1>2. Larger(Larger(left, 0), 0) = Larger(left, 0) BY DEF Larger
<1>3. Recovery(c, n, Larger(left, 0), at) = Swipe(c, n, charge, principal, n - applied, at)
  BY <1>2 DEF Recovery, Swipe
<1> HIDE DEF applied, principal, charge
<1>4. Swipe(c, n, charge, principal, n - applied, at)
      = Made("recovery", c, None, n, charge, principal, Nothing, 0, 0, n - applied, at)
  BY RecoveryMade
<1> QED BY <1>1, <1>3, <1>4 DEF Made, charge

\* What a recovery of all cases gives each of its cases, what it leaves, its documents.
PartOf(o, v) == [c \in v.targets |-> Share(o.amount, c, v.targets, v.room)]
ExcessOf(o, v) == Excess(o.amount, v.targets, v.room)
AllDocs(r, o, v) ==
    ({r} \X {c \in v.targets : PartOf(o, v)[c] > 0})
    \cup (IF ExcessOf(o, v) > 0 THEN {<<r, "excess">>} ELSE {})

\* What such a request records.
LEMMA AllRecoveriesAre ==
  ASSUME NEW r, NEW o, NEW v
  PROVE  LET made == AllRecoveries(r, o, v)
             last == Newest(v.targets)
         IN  /\ made = [x \in DOMAIN made |-> made[x]] /\ DOMAIN made = AllDocs(r, o, v)
             /\ \A x \in AllDocs(r, o, v) :
                  made[x] = IF x[2] = "excess"
                            THEN Recovery(last, ExcessOf(o, v),
                                          v.case[last].left - Share(o.amount, last, v.targets, v.room), Now + 1)
                            ELSE Recovery(x[2], Share(o.amount, x[2], v.targets, v.room),
                                          v.case[x[2]].left, Now)
<1> DEFINE T == {c \in v.targets : PartOf(o, v)[c] > 0}
<1>1. {c \in v.targets : Share(o.amount, c, v.targets, v.room) > 0} = T BY DEF PartOf
<1>2. AllDocs(r, o, v) = ({r} \X T) \cup (IF ExcessOf(o, v) > 0 THEN {<<r, "excess">>} ELSE {})
  BY DEF AllDocs
<1> QED BY <1>1, <1>2 DEF AllRecoveries, ExcessOf

\* They are shared out among the open cases that were found.
LEMMA AllShared ==
  ASSUME Known, NEW r \in Requests, NEW o, NEW v, Ready(r, o, v), o.kind = "recoverAll",
         RecoverAllChecks(r, o, v)
  PROVE  LET made == AllRecoveries(r, o, v)
             D == AllDocs(r, o, v)
             last == Newest(v.targets)
         IN  /\ v.targets \in SUBSET Cases /\ D \in SUBSET Docs /\ made \in [D -> Document]
             /\ last \in v.targets /\ PartOf(o, v) \in [v.targets -> Nat] /\ ExcessOf(o, v) \in Nat
             /\ \A c \in v.targets : PartOf(o, v)[c] <= v.room[c]
             /\ SharedOut(r, D, made, v.targets, PartOf(o, v), last, ExcessOf(o, v))
             /\ \A x \in D : made[x].case \in Live
<1> DEFINE made == AllRecoveries(r, o, v)
           D == AllDocs(r, o, v)
           S == v.targets
           last == Newest(S)
           part == PartOf(o, v)
           excess == ExcessOf(o, v)
<1>1. /\ o \in Operation /\ v \in View /\ r \in Requests
      /\ \A c \in S : c \in Cases /\ v.case[c] = case[c] /\ case[c].status # "ABSENT" /\ v.room[c] > 0
  BY DEF Ready, OfDebt, Mine, Many, RoomsStand
<1>2. S \in SUBSET Cases /\ v.room \in [Cases -> Int] /\ o.amount \in Nat BY <1>1 DEF View, Operation
<1>3. S # {} BY DEF RecoverAllChecks
<1>4. last \in S BY <1>1, <1>2, <1>3, NewestIn
<1>5. \A c \in S : Share(o.amount, c, S, v.room) \in 0..v.room[c] /\ v.room[c] \in Nat
  <2>1. \A c \in S : v.room[c] \in Nat BY <1>1, <1>2
  <2> QED BY <1>2, <2>1, PartFits
<1>6. part \in [S -> Nat] /\ \A c \in S : part[c] <= v.room[c] BY <1>5 DEF PartOf
<1>7. excess \in Nat
  <2>1. o.amount \in Int BY <1>2
  <2>2. Excess(o.amount, S, v.room) \in Nat BY ONLY <1>2, <2>1, PartFits
  <2> QED BY <2>2 DEF ExcessOf
<1>8. \A c \in S : part[c] = Share(o.amount, c, S, v.room) BY DEF PartOf
<1>9. /\ made = [x \in D |-> made[x]]
      /\ \A x \in D : made[x] = IF x[2] = "excess"
                                THEN Recovery(last, excess, v.case[last].left - part[last], Now + 1)
                                ELSE Recovery(x[2], Share(o.amount, x[2], S, v.room), v.case[x[2]].left, Now)
  BY <1>4, <1>8, AllRecoveriesAre
<1>10. \A x \in D : Open(made[x].case, v) /\ made[x].amount > made[x].charge
  BY AllRecoveriesAre DEF RecoverAllChecks
<1> HIDE DEF made, last, part, excess
<1>11. \A x \in D : x[1] = r /\ x[2] \in S \cup {"excess"} /\ x = <<r, x[2]>> BY DEF AllDocs
<1>12. "excess" \notin S BY <1>2, DuesAssumption
<1>13. Now \in Nat /\ Now + 1 \in Nat BY NowType DEF Known
<1>14. ASSUME NEW x \in D, x[2] # "excess"
       PROVE  /\ RecoversFrom(made[x], x[2], part[x[2]], case[x[2]].left) /\ made[x].case \in Live
              /\ made[x] \in Document
  <2> DEFINE c == x[2]
  <2>1. c \in S /\ c \in Cases /\ v.case[c] = case[c] BY <1>1, <1>11, <1>14
  <2>2. made[x] = Recovery(c, part[c], case[c].left, Now) BY <1>8, <1>9, <1>14, <2>1
  <2>3. case[c].left \in Int BY <2>1 DEF Known, TypeOK, CaseRow
  <2>4. made[x].case = c /\ made[x].amount = part[c] /\ made[x].charge = GatewayCharge(part[c])
    BY <2>2, <2>3, RecoveryFields
  <2>5. c \in Live BY <1>10, <2>1, <2>4, OpenLive
  <2>6. GatewayCharge(part[c]) \in Nat /\ part[c] \in Nat BY <1>6, <2>1, ChargeType
  <2>7. GatewayCharge(part[c]) <= part[c] BY <1>10, <2>4, <2>6
  <2>8. case[c].left \in Nat BY <2>5, LiveRow
  <2> HIDE DEF c
  <2>9. RecoversFrom(made[x], c, part[c], case[c].left)
    BY <1>13, <2>1, <2>2, <2>6, <2>7, <2>8, RecoverySays
  <2> QED BY <2>4, <2>5, <2>9 DEF c, RecoversFrom
<1>15. ASSUME NEW x \in D, x[2] = "excess"
       PROVE  /\ RecoversFrom(made[x], last, excess, Larger(case[last].left - part[last], 0))
              /\ made[x].case \in Live /\ made[x] \in Document
  <2>1. last \in Cases /\ v.case[last] = case[last] BY <1>1, <1>4
  <2> DEFINE left == case[last].left - part[last]
  <2>2. made[x] = Recovery(last, excess, left, Now + 1) BY <1>9, <1>15, <2>1
  <2>3. left \in Int /\ part[last] \in Nat
    <3>1. case[last].left \in Int BY <2>1 DEF Known, TypeOK, CaseRow
    <3> QED BY <1>4, <1>6, <3>1
  <2> HIDE DEF left
  <2>4. /\ made[x].case = last /\ made[x].amount = excess /\ made[x].charge = GatewayCharge(excess)
        /\ made[x] = Recovery(last, excess, Larger(left, 0), Now + 1)
    BY <2>2, <2>3, RecoveryFields
  <2>5. last \in Live BY <1>10, <2>1, <2>4, OpenLive
  <2>6. GatewayCharge(excess) \in Nat /\ Larger(left, 0) \in Nat BY <1>7, <2>3, ChargeType DEF Larger
  <2>7. GatewayCharge(excess) <= excess BY <1>7, <1>10, <2>4, <2>6
  <2>8. RecoversFrom(made[x], last, excess, Larger(left, 0))
    BY <1>7, <1>13, <2>1, <2>4, <2>6, <2>7, RecoverySays
  <2> QED BY <2>4, <2>5, <2>8 DEF left, RecoversFrom
<1>16. SharedOut(r, D, made, S, part, last, excess) BY <1>11, <1>14, <1>15 DEF SharedOut
<1>17. made \in [D -> Document]
  <2>1. \A x \in D : made[x] \in Document BY <1>14, <1>15
  <2> HIDE DEF D
  <2> QED BY <1>9, <2>1
<1>18. D \in SUBSET Docs
  <2>1. \A x \in D : x \in Docs BY <1>2, <1>11 DEF Docs
  <2> QED BY <2>1
<1> QED BY <1>2, <1>4, <1>6, <1>7, <1>14, <1>15, <1>16, <1>17, <1>18 DEF made, last, part, excess

\* The money that several recoveries bring in.
LEMMA MoneyAll ==
  ASSUME Known, NEW A, NEW D \in SUBSET Docs, NEW made \in [D -> Document],
         \A x \in D : made[x].charge <= made[x].amount /\ made[x].kind # "assessment",
         ledger' = [l \in Ledgers |-> ledger[l] + SumFunction([x \in D |-> Journal(made[x])[l]])]
  PROVE  MoneyStep(A)
<1> DEFINE J == [l \in Ledgers |-> SumFunction([x \in D |-> Journal(made[x])[l]])]
<1>1. IsFiniteSet(D) BY DocsFinite, FS_Subset
<1>2. ASSUME NEW x \in D
      PROVE  Journal(made[x]) \in [Ledgers -> Int] /\ Journal(made[x])["MONEY"] \in Nat
  <2>1. made[x] \in Document OBVIOUS
  <2>2. /\ made[x].amount \in Nat /\ made[x].charge \in Nat /\ made[x].credit \in Nat
        /\ made[x].extra \in Nat
    BY <2>1 DEF Document
  <2>3. made[x].charge <= made[x].amount /\ made[x].kind # "assessment" OBVIOUS
  <2> QED BY <2>2, <2>3 DEF Journal, NoJournal, Ledgers, Reduced
<1>3. ASSUME NEW l \in Ledgers PROVE J[l] \in Int
  <2> DEFINE f == [x \in D |-> Journal(made[x])[l]]
  <2>1. f \in [D -> Int] BY <1>2
  <2>2. J[l] = SumFunction(f) OBVIOUS
  <2> HIDE DEF f, J
  <2> QED BY <1>1, <2>1, <2>2, SumType
<1>4. J["MONEY"] \in Nat
  <2> DEFINE f == [x \in D |-> Journal(made[x])["MONEY"]]
  <2>1. f \in [D -> Nat] BY <1>2
  <2>2. J["MONEY"] = SumFunction(f) BY DEF Ledgers
  <2> HIDE DEF f, J
  <2> QED BY <1>1, <2>1, <2>2, SumNat
<1>5. J \in [Ledgers -> Int] BY <1>3
<1>6. ledger' = [l \in Ledgers |-> ledger[l] + J[l]] OBVIOUS
<1> HIDE DEF J
<1> QED BY <1>4, <1>5, <1>6, MoneyPaid

\* addCustomerRecovery().
LEMMA RecoverAllKeeps ==
  ASSUME Known, NEW r \in Requests, RecoverAll(r)
  PROVE  StepFrom({r}) /\ SessionStep({r})
<1> DEFINE o == op[r]
           v == view[r]
           made == AllRecoveries(r, o, v)
           D == AllDocs(r, o, v)
           S == v.targets
           part == PartOf(o, v)
           last == Newest(S)
           excess == ExcessOf(o, v)
           applied(c) == SumFunction([d \in DOMAIN made |-> made[d].principal[c]])
<1>1. /\ Running(r) /\ Ready(r, o, v) /\ o.kind = "recoverAll" /\ RecoverAllChecks(r, o, v)
      /\ SessionStep({r}) /\ stage'[r] = -1 /\ \A x \in Docs : x[1] = r => doc[x] = NoDocument
  BY CommitFacts DEF RecoverAll, Checks
<1>2. /\ doc' = [d \in Docs |-> IF d \in DOMAIN made THEN made[d] ELSE doc[d]]
      /\ case' = [c \in Cases |-> IF \E d \in DOMAIN made : made[d].case = c
                                  THEN Receive(v.case[c], applied(c), 0) ELSE case[c]]
      /\ ledger' = [l \in Ledgers |-> ledger[l]
                      + SumFunction([d \in DOMAIN made |-> Journal(made[d])[l]])]
      /\ debt' = debt
  BY DEF RecoverAll, RecoverAllEffect
<1> HIDE DEF o, v
<1>3. DOMAIN made = D BY AllRecoveriesAre
<1>4. \A c \in S : c \in Cases /\ v.case[c] = case[c] /\ holder[CaseLock(c)] = r
  BY <1>1 DEF Ready, OfDebt, Mine, Many
<1> HIDE DEF made, D, part, last, excess
<1>5. /\ S \in SUBSET Cases /\ D \in SUBSET Docs /\ made \in [D -> Document]
      /\ last \in S /\ part \in [S -> Nat] /\ excess \in Nat
      /\ SharedOut(r, D, made, S, part, last, excess)
      /\ \A x \in D : made[x].case \in Live
  BY <1>1, AllShared DEF made, D, part, last, excess
<1>6. \A c \in Cases : applied(c) = AppliedBy(made, D, c) BY <1>3 DEF AppliedBy
<1>7. ASSUME NEW c \in Cases
      PROVE  LET q == AppliedBy(made, D, c)
             IN  /\ q \in Nat
                 /\ (\E x \in D : made[x].case = c) => c \in S /\ (c \in Live => q <= case[c].left)
                 /\ (\A x \in D : made[x].case # c) => q = 0
  BY <1>5, AppliedFits
<1>8. ASSUME NEW c \in Cases
      PROVE  LET q == AppliedBy(made, D, c)
             IN  /\ (q = 0 /\ case'[c] = case[c]) \/ CaseMoved({r}, c, q, 0, 0)
                 /\ q \in Int
  <2> DEFINE q == AppliedBy(made, D, c)
  <2>1. q \in Nat BY <1>7
  <2>2. CASE \E x \in D : made[x].case = c
    <3>1. c \in S /\ c \in Live /\ q <= case[c].left BY <1>5, <1>7, <2>2
    <3>2. case'[c] = Receive(case[c], q, 0)
      <4>1. case'[c] = Receive(v.case[c], applied(c), 0) BY <1>2, <1>3, <2>2
      <4> QED BY <1>4, <1>6, <3>1, <4>1
    <3>3. case[c] \in CaseRow /\ case[c].recovered \in Nat /\ case[c].collected \in Nat
          /\ case[c].unpaid \in Nat
      BY <3>1, LiveRow
    <3> HIDE DEF q
    <3>4. case'[c] = Moved(case[c], q, 0, 0) BY <2>1, <3>1, <3>2, <3>3, ReceiveMoves
    <3>5. 0 <= case[c].recovered + q /\ 0 <= case[c].collected + 0 /\ 0 <= case[c].unpaid + 0
      BY <2>1, <3>3
    <3>6. holder[CaseLock(c)] \in {r} BY <1>4, <3>1
    <3>7. CaseMoved({r}, c, q, 0, 0) BY <3>1, <3>4, <3>5, <3>6 DEF CaseMoved
    <3> QED BY <2>1, <3>7 DEF q
  <2>3. CASE \A x \in D : made[x].case # c
    <3>1. q = 0 BY <1>7, <2>3
    <3>2. case'[c] = case[c] BY <1>2, <1>3, <2>3
    <3> QED BY <3>1, <3>2
  <2> QED BY <2>2, <2>3
<1>9. ASSUME NEW x \in D PROVE RecoveryAt({r}, x, made[x])
  <2>1. x[1] = r /\ x \in Docs BY <1>5 DEF SharedOut
  <2>2. made[x] \in Document BY <1>5
  <2>3. /\ Standing(made[x]) /\ DocumentOK(made[x]) /\ made[x].kind = "recovery"
        /\ Settled(made[x]) \subseteq {made[x].case}
    <3>1. CASE x[2] = "excess" BY <1>5, <3>1 DEF SharedOut, RecoversFrom
    <3>2. CASE x[2] # "excess" BY <1>5, <3>2 DEF SharedOut, RecoversFrom
    <3> QED BY <3>1, <3>2
  <2>4. ASSUME NEW c \in Cases, c = made[x].case PROVE c \in Live'
    <3>1. c \in Live BY <1>5, <2>4
    <3>2. CaseFollows(r, c, AppliedBy(made, D, c), 0, 0) /\ AppliedBy(made, D, c) \in Int
      BY <1>8 DEF CaseFollows
    <3>3. TypeOK BY DEF Known
    <3> QED BY <3>1, <3>2, <3>3, FollowsLive
  <2>5. \A s \in InFlight \ {r} : op[s].kind \in workload.beside
    BY <1>1 DEF Known, BesideOnly, InFlight
  <2> QED BY <1>1, <2>1, <2>2, <2>3, <2>4, <2>5 DEF RecoveryAt
<1>10. MoneyStep({r})
  <2>1. \A x \in D : made[x].charge <= made[x].amount /\ made[x].kind # "assessment"
    BY <1>9 DEF RecoveryAt, DocumentOK
  <2>2. ledger' = [l \in Ledgers |-> ledger[l] + SumFunction([x \in D |-> Journal(made[x])[l]])]
    BY <1>2, <1>3
  <2> QED BY <1>5, <2>1, <2>2, MoneyAll
<1>11. doc' = [x \in Docs |-> IF x \in D THEN made[x] ELSE doc[x]] BY <1>2, <1>3
<1>12. case' = [c \in Cases |-> case'[c]] BY <1>2
<1>13. {r} \in SUBSET InFlight BY <1>1 DEF InFlight
<1>14. ASSUME NEW c \in Cases
       PROVE  LET p == AppliedBy(made, D, c)
              IN  (p = 0 /\ case'[c] = case[c]) \/ CaseMoved({r}, c, p, 0, 0) \/ CaseOpened(c, p)
  BY <1>8
<1>15. StepFrom({r}) BY <1>2, <1>5, <1>9, <1>10, <1>11, <1>12, <1>13, <1>14, RecordedAll
<1> QED BY <1>1, <1>15

---------------------------------------------------------------------------
(* The invariant.                                                          *)

\* The shop opens with nothing owed, nothing recorded and nobody at work.
LEMMA KnownInit == Init => Known
<1> SUFFICES ASSUME Init PROVE Known OBVIOUS
<1>1. /\ debt = [d \in Debts |-> NoDebt] /\ case = [c \in Cases |-> NoCase]
      /\ doc = [d \in Docs |-> NoDocument] /\ ledger = [NoJournal EXCEPT !["MONEY"] = Opening]
      /\ today = 0 /\ op = [r \in Requests |-> Idle] /\ stage = [r \in Requests |-> 0]
      /\ view = [r \in Requests |-> NoView] /\ workload \in Workloads
      /\ holder = [row \in Rows |-> Nobody]
  BY DEF Init, LocksInit
<1>2. NoView \in View /\ Idle \in Operation /\ NoDocument \in Document BY IdleTypes, NoDocumentFits
<1>3. NoDebt \in DebtRow /\ NoCase \in CaseRow BY DEF NoDebt, DebtRow, NoCase, CaseRow
<1>4. ledger \in [Ledgers -> Int] /\ ledger["MONEY"] >= 0
  BY <1>1, DuesAssumption DEF NoJournal, Ledgers
<1>5. TypeOK
  <2>1. today \in 0..MaxDay BY <1>1, DuesAssumption
  <2> QED BY <1>1, <1>2, <1>3, <1>4, <2>1 DEF TypeOK, LocksTypeOK
<1>6. \A c \in Cases : case[c] = NoCase /\ case[c].status = "ABSENT" /\ c \notin Live
  BY <1>1 DEF NoCase, Live
<1>7. \A b \in Debts : debt[b] = NoDebt BY <1>1
<1>8. \A x \in Docs : doc[x] = NoDocument BY <1>1
<1>9. \A r \in Requests : ~Running(r) /\ view[r] = NoView BY <1>1 DEF Running
<1>10. Dated BY <1>6 DEF Dated
<1>11. ASSUME NEW c \in Cases PROVE CaseOK(c) /\ CaseBacked(c)
  BY <1>6 DEF CaseOK, CaseBacked, NoCase
<1>12. ASSUME NEW b \in Debts PROVE DebtOK(b) /\ DebtBacked(b)
  <2>1. Collected(b) \in [Document -> Int] BY DEF Collected, Document
  <2>2. \A x \in Docs : Collected(b)[doc[x]] = 0 BY <1>8, NoDocumentFits
  <2>3. doc \in [Docs -> Document] BY <1>5 DEF TypeOK
  <2>4. Tally(Collected(b), doc) = 0 BY <2>1, <2>2, <2>3, TallyNone
  <2> QED BY <1>7, <2>4 DEF DebtOK, DebtBacked, NoDebt
<1>13. ASSUME NEW x \in Docs PROVE DocumentFits(x)
  <2>1. doc[x] = NoDocument /\ DocumentOK(NoDocument) BY <1>8, NoDocumentFits
  <2>2. \A c \in Cases : ~Touches(x, c)
    BY <2>1, DuesAssumption DEF Touches, Settled, NoDocument, Nothing
  <2>3. doc[x].debt \notin Debts BY <2>1, DuesAssumption DEF NoDocument
  <2> QED BY <2>1, <2>2, <2>3 DEF DocumentFits
<1>14. Books BY <1>4, <1>11, <1>12 DEF Books
<1>15. \A r \in Requests : SessionOK(r) BY <1>8, <1>9 DEF SessionOK
<1>16. BesideOnly /\ LocksHeld /\ ReadsStand BY <1>9 DEF BesideOnly, LocksHeld, ReadsStand
<1> QED BY <1>5, <1>10, <1>13, <1>14, <1>15, <1>16 DEF Known

(* Everything a request does.                                              *)
Acts(r) ==
    \/ Begin(r) \/ Advance(r) \/ Reject(r) \/ Abort(r)
    \/ Recover(r) \/ RecoverAll(r) \/ Combined(r) \/ TakePayIn(r) \/ Commission(r)
    \/ Assess(r) \/ Collect(r) \/ Cancel(r) \/ ReverseRecovery(r) \/ ReverseReceipt(r)
    \/ ReverseCommission(r) \/ ReverseAssessment(r) \/ ReverseCase(r) \/ ReverseDebt(r)
    \/ ReverseCollection(r)

\* Every step is one of a known set of actors, on the tables and on the calls.
LEMMA StepsAre ==
  ASSUME Known, RowsReversedAlone, ReceiptsFindAll, [Next]_vars
  PROVE  \E A : StepFrom(A) /\ SessionStep(A)
<1>1. ASSUME NEW r \in Requests, Acts(r) PROVE \E A : StepFrom(A) /\ SessionStep(A)
  <2>1. CASE Begin(r) BY <2>1, BeginKeeps
  <2>2. CASE Advance(r) BY <2>2, AdvanceKeeps
  <2>3. CASE Reject(r) \/ Abort(r) BY <2>3, QuietKeeps
  <2>4. CASE Recover(r) BY <2>4, RecoverKeeps
  <2>5. CASE RecoverAll(r) BY <2>5, RecoverAllKeeps
  <2>6. CASE Combined(r) BY <2>6, CombinedKeeps
  <2>7. CASE TakePayIn(r) BY <2>7, PayInKeeps
  <2>8. CASE Commission(r) BY <2>8, CommissionKeeps
  <2>9. CASE Assess(r) BY <2>9, AssessKeeps
  <2>10. CASE Collect(r) BY <2>10, CollectKeeps
  <2>11. CASE Cancel(r) BY <2>11, CancelKeeps
  <2>12. CASE ReverseRecovery(r) BY <2>12, ReverseRecoveryKeeps
  <2>13. CASE ReverseReceipt(r) BY <2>13, ReverseReceiptKeeps
  <2>14. CASE ReverseCommission(r) BY <2>14, ReverseCommissionKeeps
  <2>15. CASE ReverseAssessment(r) BY <2>15, ReverseAssessmentKeeps
  <2>16. CASE ReverseCase(r) BY <2>16, ReverseCaseKeeps
  <2>17. CASE ReverseDebt(r) BY <2>17, ReverseDebtKeeps
  <2>18. CASE ReverseCollection(r) BY <2>18, ReverseCollectionKeeps
  <2> QED BY <1>1, <2>1, <2>2, <2>3, <2>4, <2>5, <2>6, <2>7, <2>8, <2>9, <2>10, <2>11, <2>12,
             <2>13, <2>14, <2>15, <2>16, <2>17, <2>18 DEF Acts
<1>2. ASSUME NEW b \in Debts, CreateReceivable(b) PROVE \E A : StepFrom(A) /\ SessionStep(A)
  BY <1>2, CreateReceivableKeeps
<1>3. ASSUME NEW r \in Requests, NEW c \in Cases, NEW n \in Amounts \cup {0}, CreateCase(r, c, n)
      PROVE  \E A : StepFrom(A) /\ SessionStep(A)
  BY <1>3, CreateCaseKeeps
<1>4. CASE List BY <1>4, ListKeeps
<1>5. CASE NextDay BY <1>5, QuietKeeps
<1>6. CASE UNCHANGED vars
  <2>1. UNCHANGED tables /\ UNCHANGED <<op, stage, view, workload, holder>> /\ today' = today
    BY <1>6 DEF vars, tables
  <2>2. today' \in 0..MaxDay BY <2>1 DEF Known, TypeOK
  <2>3. SessionStep({}) BY <2>1, <2>2, NobodyMoves
  <2>4. StepFrom({}) BY <2>1, TablesStay
  <2> QED BY <2>3, <2>4
<1>7. Next => \/ \E d \in Debts : CreateReceivable(d)
              \/ \E r \in Requests, c \in Cases, n \in Amounts \cup {0} : CreateCase(r, c, n)
              \/ List \/ NextDay
              \/ \E r \in Requests : Acts(r)
  BY DEF Next, Acts
<1> QED BY <1>1, <1>2, <1>3, <1>4, <1>5, <1>6, <1>7

\* So every step keeps it.
LEMMA KnownNext ==
  ASSUME RowsReversedAlone, ReceiptsFindAll
  PROVE  Known /\ [Next]_vars => Known'
<1> SUFFICES ASSUME Known, [Next]_vars PROVE Known' OBVIOUS
<1>1. PICK A : StepFrom(A) /\ SessionStep(A) BY StepsAre
<1> QED BY <1>1, KnownKept

(* The rows are of their types, agree with the documents and are never     *)
(* negative; what a call has read under a lock, or alone, still stands.    *)
THEOREM KnownInvariant ==
  ASSUME RowsReversedAlone, ReceiptsFindAll
  PROVE  Spec => []Known
<1>1. Known /\ [Next]_vars => Known' BY KnownNext
<1> QED BY <1>1, KnownInit, PTL DEF Spec

---------------------------------------------------------------------------
(* Rows and documents agree.                                               *)

\* Two sums over the documents are the same if they agree on each.
LEMMA TallyIs ==
  ASSUME NEW F, NEW g, \A x \in Docs : g[x] = F[doc[x]], g = [x \in Docs |-> g[x]]
  PROVE  SumFunction(g) = Tally(F, doc)
<1>1. g = [x \in Docs |-> F[doc[x]]] OBVIOUS
<1> QED BY <1>1 DEF Tally

\* What the books are said to agree with is what the invariant adds up.
LEMMA BooksAgree == Known => CasesAgree
<1> SUFFICES ASSUME Known PROVE CasesAgree OBVIOUS
<1>1. TypeOK /\ Books /\ doc \in [Docs -> Document] BY DEF Known, TypeOK
<1>2. \A x \in Docs : Counts(x) <=> Standing(doc[x]) BY DEF Counts, Standing
<1>3. ASSUME NEW c \in Live
      PROVE  /\ case[c].recovered = SumDocs(LAMBDA d : d.principal[c])
             /\ case[c].collected = SumDocs(LAMBDA d : d.commission[c])
             /\ case[c].fee = Fee[c] + SumDocs(LAMBDA d :
                   IF d.case # c THEN 0 ELSE IF d.kind = "assessment" THEN d.amount ELSE d.extra)
             /\ case[c].status = MasterStatus(case[c].recovered, case[c].left)
  <2>1. c \in Cases /\ CaseOK(c) /\ CaseBacked(c) BY <1>1 DEF Live, Books
  <2>2. SumDocs(LAMBDA d : d.principal[c]) = Tally(Principal(c), doc)
    <3> DEFINE g == [x \in Docs |-> IF Counts(x) THEN doc[x].principal[c] ELSE 0]
    <3>1. \A x \in Docs : g[x] = Principal(c)[doc[x]] BY <1>1, <1>2 DEF Principal
    <3>2. SumDocs(LAMBDA d : d.principal[c]) = SumFunction(g) BY DEF SumDocs
    <3>3. SumFunction(g) = Tally(Principal(c), doc) BY <3>1, TallyIs
    <3> QED BY <3>2, <3>3
  <2>3. SumDocs(LAMBDA d : d.commission[c]) = Tally(CommissionPaid(c), doc)
    <3> DEFINE g == [x \in Docs |-> IF Counts(x) THEN doc[x].commission[c] ELSE 0]
    <3>1. \A x \in Docs : g[x] = CommissionPaid(c)[doc[x]] BY <1>1, <1>2 DEF CommissionPaid
    <3>2. SumDocs(LAMBDA d : d.commission[c]) = SumFunction(g) BY DEF SumDocs
    <3>3. SumFunction(g) = Tally(CommissionPaid(c), doc) BY <3>1, TallyIs
    <3> QED BY <3>2, <3>3
  <2>4. SumDocs(LAMBDA d : IF d.case # c THEN 0
                           ELSE IF d.kind = "assessment" THEN d.amount ELSE d.extra)
        = Tally(FeeAdded(c), doc)
    <3> DEFINE g == [x \in Docs |-> IF Counts(x)
                                    THEN (IF doc[x].case # c THEN 0
                                          ELSE IF doc[x].kind = "assessment" THEN doc[x].amount
                                          ELSE doc[x].extra)
                                    ELSE 0]
    <3>1. \A x \in Docs : g[x] = FeeAdded(c)[doc[x]] BY <1>1, <1>2 DEF FeeAdded
    <3>2. SumDocs(LAMBDA d : IF d.case # c THEN 0
                             ELSE IF d.kind = "assessment" THEN d.amount ELSE d.extra)
          = SumFunction(g)
      BY DEF SumDocs
    <3>3. SumFunction(g) = Tally(FeeAdded(c), doc) BY <3>1, TallyIs
    <3> QED BY <3>2, <3>3
  <2> QED BY <2>1, <2>2, <2>3, <2>4 DEF CaseOK, CaseBacked
<1>4. ASSUME NEW b \in Debts
      PROVE  debt[b].received = SumDocs(LAMBDA d : IF d.debt = b THEN d.amount ELSE 0)
  <2> DEFINE g == [x \in Docs |-> IF Counts(x) THEN (IF doc[x].debt = b THEN doc[x].amount ELSE 0)
                                  ELSE 0]
  <2>1. \A x \in Docs : g[x] = Collected(b)[doc[x]] BY <1>1, <1>2 DEF Collected
  <2>2. SumDocs(LAMBDA d : IF d.debt = b THEN d.amount ELSE 0) = SumFunction(g) BY DEF SumDocs
  <2>3. SumFunction(g) = Tally(Collected(b), doc) BY <2>1, TallyIs
  <2>4. debt[b].received = Tally(Collected(b), doc) BY <1>1 DEF Books, DebtBacked
  <2> QED BY <2>2, <2>3, <2>4
<1>5. ledger["MONEY"] >= 0 BY <1>1 DEF Books
<1> QED BY <1>1, <1>3, <1>4, <1>5 DEF CasesAgree, DuesBacked, StatusFollowsPrincipal

(* Cases and receivables agree with the documents recorded against them,   *)
(* amounts and status, through recoveries, receipts, assessments and their *)
(* reversals, and what is paid from the account is there: with any number  *)
(* of cases, receivables and requests (recordRecoveryTx(),                 *)
(* recordCommissionTx(), reverse()).                                       *)
THEOREM CasesAgreeInvariant ==
  ASSUME RowsReversedAlone, ReceiptsFindAll
  PROVE  Spec => []CasesAgree
<1>1. Known => CasesAgree BY BooksAgree
<1>2. Spec => []Known BY KnownInvariant
<1> QED BY <1>1, <1>2, PTL

---------------------------------------------------------------------------
(* What is owed is settled, unsettled, adjusted and voided.                *)

(* An amount owed as its row shows it.                                     *)
ItemStands(i) ==
    /\ StateOf(i) \in {"none", "owed", "void"}
    /\ StateOf(i) = "none" => AmountOf(i) = 0 /\ SettledOf(i) = 0 /\ RemainingOf(i) = 0
    /\ StateOf(i) = "owed" => /\ AmountOf(i) \in Nat /\ SettledOf(i) \in 0..AmountOf(i)
                              /\ RemainingOf(i) = AmountOf(i) - SettledOf(i)
    /\ StateOf(i) = "void" => SettledOf(i) = 0 /\ RemainingOf(i) = 0

ItemsStand == \A i \in Items : ItemStands(i)

\* What is owed is a receivable, or the principal or the commission of a case.
LEMMA ItemsAre ==
  ASSUME NEW i \in Items
  PROVE  \/ \E b \in Debts : i = <<"debt", b>>
         \/ \E c \in Cases : i = <<"principal", c>> \/ i = <<"commission", c>>
<1>1. i \in {"debt"} \X Debts \/ i \in {"principal", "commission"} \X Cases BY DEF Items
<1>2. ASSUME i \in {"debt"} \X Debts PROVE \E b \in Debts : i = <<"debt", b>> BY <1>2
<1>3. ASSUME i \in {"principal", "commission"} \X Cases
      PROVE  \E c \in Cases : i = <<"principal", c>> \/ i = <<"commission", c>>
  <2>1. i[2] \in Cases /\ i = <<i[1], i[2]>> /\ i[1] \in {"principal", "commission"} BY <1>3
  <2> QED BY <2>1
<1> QED BY <1>1, <1>2, <1>3

\* The rows show amounts owed.
LEMMA RowsShow == Known => ItemsStand
<1> SUFFICES ASSUME Known, NEW i \in Items PROVE ItemStands(i) BY DEF ItemsStand
<1>1. TypeOK /\ Books BY DEF Known
<1>2. ASSUME NEW b \in Debts, i = <<"debt", b>> PROVE ItemStands(i)
  <2>1. debt[b] \in DebtRow /\ DebtOK(b) /\ Owing[b] \in Nat BY <1>1, DuesAssumption DEF TypeOK, Books
  <2>2. i[1] = "debt" /\ i[2] = b BY <1>2
  <2>3. debt[b].source \in {"ABSENT", "COMPLETED", "REVERSED"} BY <2>1 DEF DebtRow
  <2>4. StateOf(i) = IF debt[b].source = "ABSENT" THEN "none"
                     ELSE IF debt[b].source = "REVERSED" THEN "void" ELSE "owed"
    BY <2>2, <2>3 DEF StateOf
  <2>5. SettledOf(i) = debt[b].received BY <2>2 DEF SettledOf
  <2>6. AmountOf(i) = (IF StateOf(i) = "none" THEN 0 ELSE Owing[b]) BY <2>2 DEF AmountOf
  <2>7. RemainingOf(i) = (IF StateOf(i) = "void" THEN 0 ELSE debt[b].remaining) BY <2>2 DEF RemainingOf
  <2>8. CASE debt[b].source = "ABSENT" BY <2>1, <2>4, <2>5, <2>6, <2>7, <2>8 DEF ItemStands, DebtOK, NoDebt
  <2>9. CASE debt[b].source = "REVERSED" BY <2>1, <2>4, <2>5, <2>6, <2>7, <2>9 DEF ItemStands, DebtOK
  <2>10. CASE debt[b].source = "COMPLETED" BY <2>1, <2>4, <2>5, <2>6, <2>7, <2>10 DEF ItemStands, DebtOK
  <2> QED BY <2>3, <2>8, <2>9, <2>10
<1>3. ASSUME NEW c \in Cases, i = <<"principal", c>> \/ i = <<"commission", c>> PROVE ItemStands(i)
  <2>1. case[c] \in CaseRow /\ CaseOK(c) /\ Due[c] \in Nat BY <1>1, DuesAssumption DEF TypeOK, Books
  <2>2. i[1] \in {"principal", "commission"} /\ i[2] = c BY <1>3
  <2>3. StateOf(i) = IF case[c].status = "ABSENT" THEN "none"
                     ELSE IF case[c].status = "REVERSED" THEN "void" ELSE "owed"
    BY <2>2 DEF StateOf
  <2>4. StateOf(i) = "owed" <=> c \in Live BY <2>3 DEF Live
  <2>5. CASE i[1] = "principal"
    <3>1. SettledOf(i) = case[c].recovered BY <2>2, <2>5 DEF SettledOf
    <3>2. AmountOf(i) = (IF StateOf(i) = "none" THEN 0 ELSE Due[c]) BY <2>2, <2>5 DEF AmountOf
    <3>3. RemainingOf(i) = (IF StateOf(i) = "void" THEN 0 ELSE case[c].left)
      BY <2>2, <2>5 DEF RemainingOf
    <3> QED BY <2>1, <2>3, <2>4, <3>1, <3>2, <3>3 DEF ItemStands, CaseOK, NoCase
  <2>6. CASE i[1] = "commission"
    <3>1. SettledOf(i) = case[c].collected BY <2>2, <2>6 DEF SettledOf
    <3>2. AmountOf(i) = (IF StateOf(i) = "none" THEN 0 ELSE case[c].fee) BY <2>2, <2>6 DEF AmountOf
    <3>3. RemainingOf(i) = (IF StateOf(i) = "void" THEN 0 ELSE case[c].unpaid)
      BY <2>2, <2>6 DEF RemainingOf
    <3>4. case[c].fee \in Int /\ case[c].collected \in Int /\ case[c].unpaid \in Int
      BY <2>1 DEF CaseRow
    <3> QED BY <2>1, <2>3, <2>4, <3>1, <3>2, <3>3, <3>4 DEF ItemStands, CaseOK, NoCase
  <2> QED BY <2>2, <2>5, <2>6
<1> QED BY <1>2, <1>3, ItemsAre

(* How an amount owed may go on: it is incurred, it stays owed, it is      *)
(* voided while nothing of it is settled, or nothing happens.              *)
ItemGoes(i) ==
    \/ StateOf(i)' = StateOf(i) /\ StateOf(i) # "owed" /\ AmountOf(i)' = AmountOf(i)
    \/ StateOf(i) = "none" /\ StateOf(i)' = "owed"
    \/ /\ StateOf(i) = "owed" /\ StateOf(i)' = "owed"
       /\ i \in {"commission"} \X Cases \/ AmountOf(i)' = AmountOf(i)
    \/ /\ StateOf(i) = "owed" /\ SettledOf(i) = 0
       /\ StateOf(i)' = "void" /\ AmountOf(i)' = AmountOf(i)

\* The receivables go on like that.
LEMMA DebtGoes ==
  ASSUME NEW A, StepFrom(A), NEW b \in Debts
  PROVE  ItemGoes(<<"debt", b>>)
<1> DEFINE i == <<"debt", b>>
<1>1. DebtStep(A, b) /\ TypeOK /\ debt[b] \in DebtRow BY DEF StepFrom, TableStep, Known, TypeOK
<1>2. /\ StateOf(i) = CASE debt[b].source = "ABSENT" -> "none" [] debt[b].source = "REVERSED" -> "void"
                        [] OTHER -> "owed"
      /\ StateOf(i)' = CASE debt'[b].source = "ABSENT" -> "none" [] debt'[b].source = "REVERSED" -> "void"
                        [] OTHER -> "owed"
      /\ SettledOf(i) = debt[b].received
      /\ AmountOf(i) = IF StateOf(i) = "none" THEN 0 ELSE Owing[b]
      /\ AmountOf(i)' = IF StateOf(i)' = "none" THEN 0 ELSE Owing[b]
  BY DEF StateOf, SettledOf, AmountOf
<1>3. \/ debt'[b].source = debt[b].source
      \/ debt[b].source = "ABSENT" /\ debt'[b].source = "COMPLETED"
      \/ debt[b].source = "COMPLETED" /\ debt'[b].source = "REVERSED" /\ debt[b].received = 0
  BY <1>1 DEF DebtStep, DebtListed, DebtOpened, DebtVoided, DebtMoved, NoDebt
<1> QED BY <1>2, <1>3 DEF ItemGoes

\* So do the principals and the commissions.
LEMMA CaseGoes ==
  ASSUME NEW A, StepFrom(A), Known', NEW c \in Cases, NEW kind \in {"principal", "commission"}
  PROVE  ItemGoes(<<kind, c>>)
<1> DEFINE i == <<kind, c>>
<1>1. case[c] \in CaseRow /\ CaseOK(c) /\ CaseOK(c)' BY DEF StepFrom, Known, TypeOK, Books
<1>2. /\ StateOf(i) = CASE case[c].status = "ABSENT" -> "none" [] case[c].status = "REVERSED" -> "void"
                        [] OTHER -> "owed"
      /\ StateOf(i)' = CASE case'[c].status = "ABSENT" -> "none" [] case'[c].status = "REVERSED" -> "void"
                        [] OTHER -> "owed"
      /\ SettledOf(i) = (IF kind = "principal" THEN case[c].recovered ELSE case[c].collected)
      /\ AmountOf(i) = (IF StateOf(i) = "none" THEN 0
                        ELSE IF kind = "principal" THEN Due[c] ELSE case[c].fee)
      /\ AmountOf(i)' = (IF StateOf(i)' = "none" THEN 0
                         ELSE IF kind = "principal" THEN Due[c] ELSE case'[c].fee)
  BY DEF StateOf, SettledOf, AmountOf
<1>3. CASE case[c].status = "ABSENT" /\ case'[c].status = "ABSENT" BY <1>2, <1>3 DEF ItemGoes
<1>4. CASE case[c].status = "ABSENT" /\ case'[c].status # "ABSENT"
  <2>1. c \in Live' BY <1>4, CaseOpens
  <2>2. StateOf(i) = "none" /\ StateOf(i)' = "owed" BY <1>2, <1>4, <2>1 DEF Live
  <2> QED BY <2>2 DEF ItemGoes
<1>5. CASE case[c].status = "REVERSED"
  <2>1. case'[c] = case[c] BY <1>5, CaseKept
  <2> QED BY <1>2, <1>5, <2>1 DEF ItemGoes
<1>6. CASE c \in Live
  <2>1. c \in Live' \/ CaseVoided(A, c) BY <1>6, CaseKept
  <2>2. ASSUME c \in Live' PROVE ItemGoes(i)
    <3>1. StateOf(i) = "owed" /\ StateOf(i)' = "owed" BY <1>2, <1>6, <2>2 DEF Live
    <3>2. i \in {"commission"} \X Cases \/ AmountOf(i)' = AmountOf(i) BY <1>2, <3>1
    <3> QED BY <3>1, <3>2 DEF ItemGoes
  <2>3. ASSUME CaseVoided(A, c) PROVE ItemGoes(i)
    <3>1. /\ case'[c].status = "REVERSED" /\ case'[c].recovered = case[c].recovered
          /\ case'[c].collected = case[c].collected /\ case'[c].fee = case[c].fee
      BY <1>1, <2>3 DEF CaseVoided, CaseRow
    <3>2. case[c].recovered = 0 /\ case[c].collected = 0 BY <1>1, <3>1 DEF CaseOK
    <3>3. StateOf(i) = "owed" /\ StateOf(i)' = "void" BY <1>2, <1>6, <3>1 DEF Live
    <3>4. SettledOf(i) = 0 /\ AmountOf(i)' = AmountOf(i) BY <1>2, <3>1, <3>2, <3>3
    <3> QED BY <3>3, <3>4 DEF ItemGoes
  <2> QED BY <2>1, <2>2, <2>3
<1> QED BY <1>3, <1>4, <1>5, <1>6 DEF Live

\* An amount owed that goes on like that takes a step of the abstract
\* specification.
LEMMA ItemStep ==
  ASSUME NEW i \in Items, ItemStands(i), ItemStands(i)', ItemGoes(i)
  PROVE  \/ /\ StateOf(i) = "none" /\ AmountOf(i)' \in Nat /\ StateOf(i)' = "owed"
            /\ SettledOf(i)' \in 0..AmountOf(i)' /\ RemainingOf(i)' = AmountOf(i)' - SettledOf(i)'
         \/ /\ StateOf(i) = "owed" /\ (SettledOf(i)' > SettledOf(i) \/ SettledOf(i)' < SettledOf(i))
            /\ AmountOf(i)' = AmountOf(i) /\ StateOf(i)' = "owed"
            /\ SettledOf(i)' \in 0..AmountOf(i)' /\ RemainingOf(i)' = AmountOf(i)' - SettledOf(i)'
         \/ /\ i \in {"commission"} \X Cases /\ StateOf(i) = "owed"
            /\ AmountOf(i)' \in Nat /\ StateOf(i)' = "owed"
            /\ SettledOf(i)' \in 0..AmountOf(i)' /\ RemainingOf(i)' = AmountOf(i)' - SettledOf(i)'
         \/ /\ StateOf(i) = "owed" /\ SettledOf(i) = 0 /\ StateOf(i)' = "void"
            /\ RemainingOf(i)' = 0 /\ AmountOf(i)' = AmountOf(i) /\ SettledOf(i)' = 0
         \/ /\ StateOf(i)' = StateOf(i) /\ AmountOf(i)' = AmountOf(i)
            /\ SettledOf(i)' = SettledOf(i) /\ RemainingOf(i)' = RemainingOf(i)
<1>1. CASE StateOf(i)' = StateOf(i) /\ StateOf(i) # "owed" /\ AmountOf(i)' = AmountOf(i)
  BY <1>1 DEF ItemStands
<1>2. CASE StateOf(i) = "none" /\ StateOf(i)' = "owed" BY <1>2 DEF ItemStands
<1>3. CASE StateOf(i) = "owed" /\ StateOf(i)' = "owed" /\ i \in {"commission"} \X Cases
  BY <1>3 DEF ItemStands
<1>4. CASE StateOf(i) = "owed" /\ StateOf(i)' = "owed" /\ AmountOf(i)' = AmountOf(i)
  <2>1. SettledOf(i)' > SettledOf(i) \/ SettledOf(i)' < SettledOf(i) \/ SettledOf(i)' = SettledOf(i)
    BY <1>4 DEF ItemStands
  <2> QED BY <1>4, <2>1 DEF ItemStands
<1>5. CASE /\ StateOf(i) = "owed" /\ SettledOf(i) = 0
           /\ StateOf(i)' = "void" /\ AmountOf(i)' = AmountOf(i)
  BY <1>5 DEF ItemStands
<1> QED BY <1>1, <1>2, <1>3, <1>4, <1>5 DEF ItemGoes

(* Everything the customer owes is an amount owed: whatever is done to it  *)
(* at the same time, it is never settled beyond its amount, what is open   *)
(* is what is not settled, it is voided only while nothing of it is        *)
(* settled, and it never comes back.                                       *)
THEOREM DuesRefineObligations ==
  ASSUME RowsReversedAlone, ReceiptsFindAll
  PROVE  Spec => DuesAreObligations
<1>1. Init => Abstract!Init
  <2> SUFFICES ASSUME Init PROVE Abstract!Init OBVIOUS
  <2>1. ItemsStand BY KnownInit, RowsShow
  <2>2. \A i \in Items : /\ StateOf(i) = "none" /\ AmountOf(i) = 0 /\ SettledOf(i) = 0
                         /\ RemainingOf(i) = 0
    <3> SUFFICES ASSUME NEW i \in Items PROVE StateOf(i) = "none" BY <2>1 DEF ItemsStand, ItemStands
    <3>1. \A b \in Debts : debt[b].source = "ABSENT" BY DEF Init, NoDebt
    <3>2. \A c \in Cases : case[c].status = "ABSENT" BY DEF Init, NoCase
    <3> QED BY <3>1, <3>2, ItemsAre DEF StateOf
  <2> QED BY <2>2 DEF Abstract!Init
<1>2. Known /\ ItemsStand /\ (Known /\ ItemsStand)' /\ [Next]_vars => [Abstract!Next]_(Abstract!vars)
  <2> SUFFICES ASSUME Known, ItemsStand, (Known /\ ItemsStand)', [Next]_vars, NEW i \in Items
               PROVE  \/ Abstract!Incur(i) \/ Abstract!Settle(i) \/ Abstract!Unsettle(i)
                      \/ Abstract!Adjust(i) \/ Abstract!Void(i) \/ Abstract!Keep(i)
    BY DEF Abstract!Next
  <2>1. ItemStands(i) /\ ItemStands(i)' BY DEF ItemsStand
  <2>2. PICK A : StepFrom(A) /\ SessionStep(A) BY StepsAre
  <2>3. ItemGoes(i)
    <3>1. \A b \in Debts : ItemGoes(<<"debt", b>>) BY <2>2, DebtGoes
    <3>2. \A c \in Cases : ItemGoes(<<"principal", c>>) /\ ItemGoes(<<"commission", c>>)
      BY <2>2, CaseGoes
    <3>3. CASE \E b \in Debts : i = <<"debt", b>> BY <3>1, <3>3
    <3>4. CASE \E c \in Cases : i = <<"principal", c>> \/ i = <<"commission", c>> BY <3>2, <3>4
    <3> QED BY <3>3, <3>4, ItemsAre
  <2> QED BY <2>1, <2>3, ItemStep
          DEF Abstract!Incur, Abstract!Settle, Abstract!Unsettle, Abstract!Adjust, Abstract!Void,
              Abstract!Keep, Abstract!Owed
<1>3. Known => ItemsStand BY RowsShow
<1>4. Spec => []Known BY KnownInvariant
<1> QED BY <1>1, <1>2, <1>3, <1>4, PTL DEF Spec, DuesAreObligations, Abstract!Spec

---------------------------------------------------------------------------
(* Nobody is credited while he owes.                                       *)

(* Recoveries for all cases run beside nothing else.                       *)
RecoveredAlone == \A w \in Workloads : "recoverAll" \notin w.beside

\* Numbers that are not negative add up to more over a greater set.
LEMMA PartialGrows ==
  ASSUME NEW S, IsFiniteSet(S), NEW f \in [S -> Int], NEW A \in SUBSET S, \A x \in A : f[x] >= 0,
         NEW B \in SUBSET A
  PROVE  PartialSums(f, S)[B] <= PartialSums(f, S)[A]
<1> DEFINE g == PartialSums(f, S)
           T == {a \in SUBSET S : (\A x \in a : f[x] >= 0) => \A b \in SUBSET a : g[b] <= g[a]}
<1>1. g \in [SUBSET S -> Int] BY PartialSumsOf
<1> HIDE DEF g
<1>2. ASSUME NEW a \in SUBSET S, \A t \in SUBSET a : t # a => t \in T PROVE a \in T
  <2> SUFFICES ASSUME \A x \in a : f[x] >= 0, NEW b \in SUBSET a PROVE g[b] <= g[a] OBVIOUS
  <2>1. CASE b = a BY <1>1, <2>1
  <2>2. CASE b # a
    <3>1. PICK x \in a : x \notin b BY <2>2
    <3> DEFINE less == a \ {x}
    <3>2. less \in SUBSET a /\ less # a /\ b \in SUBSET less /\ (\A y \in less : f[y] >= 0) BY <3>1
    <3>3. g[b] <= g[less] BY <1>2, <3>2
    <3>4. g[a] = f[x] + g[less] BY PartialSplit DEF g
    <3>5. f[x] \in Int /\ f[x] >= 0 /\ g[b] \in Int /\ g[less] \in Int BY <1>1, <3>2
    <3> HIDE DEF less, T
    <3> QED BY <3>3, <3>4, <3>5
  <2> QED BY <2>1, <2>2
<1> HIDE DEF T
<1>3. A \in T BY <1>2, SubsetInduction
<1> QED BY <1>3 DEF T, g

\* Something is left over only when every case has got what it had room for.
LEMMA ExcessFillsAll ==
  ASSUME NEW n \in Int, NEW S \in SUBSET Cases, NEW room \in [Cases -> Int],
         \A c \in S : room[c] > 0, Excess(n, S, room) > 0, NEW c \in S, case[c].born \in Int
  PROVE  Share(n, c, S, room) = room[c]
<1> DEFINE g == PartialSums(room, Cases)
           older == Older(c, S)
<1>1. IsFiniteSet(Cases) BY DuesAssumption
<1>2. older \in SUBSET Cases /\ older \in SUBSET (S \ {c}) BY DEF Older
<1>3. SumFunctionOnSet(room, S) = g[S] /\ SumFunctionOnSet(room, older) = g[older]
      /\ g[S] \in Int /\ g[older] \in Int
  BY <1>1, <1>2, PartSum
<1>4. g[S] = room[c] + g[S \ {c}]
  <2>1. S \in SUBSET Cases /\ c \in S /\ room \in [Cases -> Int] OBVIOUS
  <2> QED BY ONLY <1>1, <2>1, PartialSplit
<1>5. g[older] <= g[S \ {c}]
  <2>1. S \ {c} \in SUBSET Cases /\ \A x \in S \ {c} : room[x] >= 0 OBVIOUS
  <2> QED BY <1>1, <1>2, <2>1, PartialGrows
<1>6. g \in [SUBSET Cases -> Int] BY <1>1, PartialSumsOf
<1>7. g[S \ {c}] \in Int /\ room[c] \in Int /\ room[c] > 0 BY <1>6
<1>8. Excess(n, S, room) = Larger(0, n - g[S]) BY <1>3 DEF Excess
<1>9. Share(n, c, S, room) = Smaller(room[c], Larger(0, n - g[older])) BY <1>3 DEF Share
<1> HIDE DEF g, older
<1>10. n > g[S] BY <1>3, <1>8 DEF Larger
<1>11. n - g[older] >= room[c] BY <1>3, <1>4, <1>5, <1>7, <1>10
<1> QED BY <1>3, <1>7, <1>9, <1>11 DEF Smaller, Larger

\* What is recovered of a case is at least what its own recovery applies.
LEMMA AppliedAtLeast ==
  ASSUME NEW D \in SUBSET Docs, NEW made \in [D -> Document], NEW c \in Cases, NEW x \in D
  PROVE  made[x].principal[c] <= AppliedBy(made, D, c)
<1> DEFINE f == [y \in D |-> made[y].principal[c]]
<1>1. \A y \in D : made[y].principal[c] \in Nat BY DEF Document
<1>2. f \in [D -> Nat] BY <1>1
<1>3. f[x] = made[x].principal[c] /\ AppliedBy(made, D, c) = SumFunction(f) BY DEF AppliedBy
<1>4. IsFiniteSet(D) BY DocsFinite, FS_Subset
<1> HIDE DEF f
<1>5. f[x] <= SumFunction(f) BY <1>2, <1>4, SumBound
<1> QED BY <1>3, <1>5

\* A recovery for all cases, alone, credits nobody who still owes.
LEMMA CreditsPaidUp ==
  ASSUME Known, RecoveredAlone, NEW r \in Requests, RecoverAll(r), NEW x \in Docs, x[1] = r,
         doc'[x].credit > 0, NEW c \in view[r].targets
  PROVE  case'[c].left = 0
<1> DEFINE o == op[r]
           v == view[r]
           made == AllRecoveries(r, o, v)
           D == AllDocs(r, o, v)
           S == v.targets
           part == PartOf(o, v)
           last == Newest(S)
           excess == ExcessOf(o, v)
           applied(y) == SumFunction([d \in DOMAIN made |-> made[d].principal[y]])
<1>1. /\ Running(r) /\ Ready(r, o, v) /\ o.kind = "recoverAll" /\ RecoverAllChecks(r, o, v)
      /\ \A y \in Docs : y[1] = r => doc[y] = NoDocument
  BY CommitFacts DEF RecoverAll, Checks
<1>2. /\ doc' = [d \in Docs |-> IF d \in DOMAIN made THEN made[d] ELSE doc[d]]
      /\ case' = [y \in Cases |-> IF \E d \in DOMAIN made : made[d].case = y
                                  THEN Receive(v.case[y], applied(y), 0) ELSE case[y]]
  BY DEF RecoverAll, RecoverAllEffect
<1>3. workload.beside \cap {"recoverAll"} = {} BY DEF Known, TypeOK, RecoveredAlone
<1>4. \A y \in S : y \in Cases /\ v.case[y] = case[y] /\ v.room[y] > 0 /\ v.room[y] = case[y].left
  BY <1>1, <1>3 DEF Ready, OfDebt, Mine, Many, RoomsStand
<1> HIDE DEF o, v
<1>5. DOMAIN made = D BY AllRecoveriesAre
<1> HIDE DEF made, D, part, last, excess
<1>6. /\ S \in SUBSET Cases /\ D \in SUBSET Docs /\ made \in [D -> Document]
      /\ last \in S /\ part \in [S -> Nat] /\ excess \in Nat /\ \A y \in S : part[y] <= v.room[y]
      /\ SharedOut(r, D, made, S, part, last, excess)
      /\ \A y \in D : made[y].case \in Live
  BY <1>1, AllShared DEF made, D, part, last, excess
<1>7. x \in D /\ x[2] = "excess"
  <2>1. NoDocument.credit = 0 BY DEF NoDocument
  <2>2. x \in D /\ doc'[x] = made[x] BY <1>1, <1>2, <1>5, <2>1
  <2>3. ASSUME x[2] # "excess" PROVE FALSE
    <3>1. x[2] \in S BY <1>6, <2>2, <2>3 DEF SharedOut
    <3>2. RecoversFrom(made[x], x[2], part[x[2]], case[x[2]].left) BY <1>6, <2>2, <2>3 DEF SharedOut
    <3>3. part[x[2]] \in Nat /\ part[x[2]] <= case[x[2]].left BY <1>4, <1>6, <3>1
    <3>4. case[x[2]].left \in Int BY <1>4, <3>1 DEF Known, TypeOK, CaseRow
    <3>5. Smaller(case[x[2]].left, part[x[2]]) = part[x[2]] BY <3>3, <3>4 DEF Smaller
    <3>6. made[x].credit = 0 BY <3>2, <3>3, <3>5 DEF RecoversFrom
    <3> QED BY <2>2, <3>6
  <2> QED BY <2>2, <2>3
<1>8. excess > 0
  <2>1. AllDocs(r, o, v) = ({r} \X {y \in v.targets : PartOf(o, v)[y] > 0})
                           \cup (IF excess > 0 THEN {<<r, "excess">>} ELSE {})
    BY DEF AllDocs, excess
  <2>2. x[2] \notin S BY <1>6, <1>7, DuesAssumption
  <2> QED BY <1>7, <2>1, <2>2 DEF D
<1>9. c \in S BY DEF v
<1>10. part[c] = case[c].left /\ c \in Cases
  <2>1. v \in View /\ o \in Operation BY <1>1 DEF Ready
  <2>2. v.room \in [Cases -> Int] /\ o.amount \in Int BY <2>1 DEF View, Operation
  <2>3. case[c].born \in Int BY <1>4, <1>9 DEF Known, TypeOK, CaseRow
  <2>4. Excess(o.amount, S, v.room) > 0 BY <1>8 DEF excess, ExcessOf
  <2>5. \A y \in S : v.room[y] > 0 BY <1>4
  <2>6. Share(o.amount, c, S, v.room) = v.room[c]
    BY ONLY <1>6, <1>9, <2>2, <2>3, <2>4, <2>5, ExcessFillsAll
  <2> QED BY <1>4, <1>9, <2>6 DEF part, PartOf
<1> DEFINE own == <<r, c>>
           q == AppliedBy(made, D, c)
<1>11. own \in D /\ own[2] = c /\ c # "excess"
  <2>1. part[c] > 0 BY <1>4, <1>9, <1>10
  <2>2. own \in {r} \X {y \in S : part[y] > 0} BY <1>9, <2>1
  <2>3. c # "excess" BY <1>10, DuesAssumption
  <2> QED BY <2>2, <2>3 DEF D, AllDocs, part
<1>12. made[own].case = c /\ made[own].principal[c] = case[c].left
  <2>1. RecoversFrom(made[own], c, part[c], case[c].left) BY <1>6, <1>11 DEF SharedOut
  <2>2. Smaller(case[c].left, part[c]) = case[c].left BY <1>10 DEF Smaller
  <2> QED BY <2>1, <2>2 DEF RecoversFrom
<1>13. c \in Live BY <1>6, <1>11, <1>12
<1>14. q \in Nat /\ q <= case[c].left
  <2>1. LET p == AppliedBy(made, D, c)
        IN  /\ p \in Nat
            /\ (\E y \in D : made[y].case = c) => c \in S /\ (c \in Live => p <= case[c].left)
    BY <1>6, <1>10, AppliedFits
  <2> QED BY <1>11, <1>12, <1>13, <2>1
<1>15. case[c].left <= q BY <1>6, <1>10, <1>11, <1>12, AppliedAtLeast
<1>16. case[c].left \in Nat BY <1>13, LiveRow
<1> HIDE DEF own
<1>17. case'[c] = Receive(case[c], q, 0)
  <2>1. case'[c] = Receive(v.case[c], applied(c), 0) BY <1>2, <1>5, <1>10, <1>11, <1>12
  <2>2. applied(c) = q BY <1>5 DEF AppliedBy
  <2> QED BY <1>4, <1>9, <2>1, <2>2
<1> HIDE DEF q
<1>18. case'[c] = Moved(case[c], q, 0, 0)
  <2>1. case[c] \in CaseRow /\ case[c].recovered \in Nat /\ case[c].collected \in Nat
        /\ case[c].unpaid \in Nat
    BY <1>13, LiveRow
  <2> QED BY <1>14, <1>17, <2>1, ReceiveMoves
<1> QED BY <1>14, <1>15, <1>16, <1>18 DEF Moved

(* "One customer-level recovery": when recoveries for all cases run alone, *)
(* the customer is owed something for one only when no principal of his is *)
(* left open (addCustomerRecovery()).                                      *)
THEOREM NoCreditInvariant ==
  ASSUME RowsReversedAlone, ReceiptsFindAll, RecoveredAlone
  PROVE  Spec => NoCreditWhileOwing
<1> DEFINE Sound == \A r \in Requests :
                RecoverAll(r) /\ (\E d \in Docs : d[1] = r /\ doc'[d].credit > 0)
                => \A c \in view[r].targets : case'[c].left = 0
<1>1. Known => Sound BY CreditsPaidUp
<1>2. Known /\ [Next]_vars => [Sound]_vars BY <1>1
<1>3. Spec => []Known BY KnownInvariant
<1>4. NoCreditWhileOwing <=> [][Sound]_vars BY DEF NoCreditWhileOwing
<1> HIDE DEF Sound
<1> QED BY <1>2, <1>3, <1>4, PTL DEF Spec

---------------------------------------------------------------------------
(* Why the transactions never wait for each other in a circle: as long as  *)
(* certain calls are kept apart, whatever two of them lock in common they  *)
(* lock in the same order.                                                 *)

(* A Pay In locks the case before the account, the reversal of anything    *)
(* that brought money in the account before the case.                      *)
PayInsApart ==
    \A w \in Workloads : "payin" \in w.beside =>
        w.beside \cap {"reverseRecovery", "reverseCommission", "reverseReceipt"} = {}

(* A receipt is taken back from its cases in the order of their dates,     *)
(* the calls for all cases lock them in the order of their ids.            *)
ReceiptsReversedApart ==
    \A w \in Workloads : "reverseReceipt" \in w.beside => w.beside \cap Many = {}

(* The order of the locks.                                                 *)
Level(row, payIn) ==
    CASE row[1] = "document"   -> 1
      [] row[1] = "account"    -> IF payIn THEN 3 ELSE 2
      [] row[1] = "clearing"   -> IF payIn THEN 2 ELSE 3
      [] row[1] = "receivable" -> 4
      [] row[1] = "source"     -> 5
      [] row[1] = "master"     -> 6

Comes(c, d, byAge) == IF byAge THEN case[c].born < case[d].born ELSE ById[c] < ById[d]

Above(row, above, payIn, byAge) ==
    \/ Level(row, payIn) < Level(above, payIn)
    \/ \E c, d \in Cases : row = CaseLock(c) /\ above = CaseLock(d) /\ Comes(c, d, byAge)

\* No two rows are above each other.
LEMMA AboveOneWay ==
  ASSUME TypeOK, NEW row \in Rows, NEW above \in Rows, NEW payIn \in BOOLEAN, NEW byAge \in BOOLEAN,
         Above(row, above, payIn, byAge)
  PROVE  ~Above(above, row, payIn, byAge)
<1>1. Level(row, payIn) \in 1..6 /\ Level(above, payIn) \in 1..6 BY DEF Rows, MoneyLock, Level
<1>2. CASE Level(row, payIn) < Level(above, payIn)
  <2>1. \A c, d \in Cases : Level(CaseLock(c), payIn) = Level(CaseLock(d), payIn)
    BY DEF CaseLock, Level
  <2>2. ~(Level(above, payIn) < Level(row, payIn)) BY <1>1, <1>2
  <2>3. Level(row, payIn) # Level(above, payIn) BY <1>1, <1>2
  <2> QED BY <2>1, <2>2, <2>3 DEF Above
<1>3. CASE \E c, d \in Cases : row = CaseLock(c) /\ above = CaseLock(d) /\ Comes(c, d, byAge)
  <2>1. PICK c \in Cases, d \in Cases : row = CaseLock(c) /\ above = CaseLock(d) /\ Comes(c, d, byAge)
    BY <1>3
  <2>2. Level(row, payIn) = Level(above, payIn) BY <2>1 DEF CaseLock, Level
  <2>3. ~(Level(above, payIn) < Level(row, payIn)) BY <1>1, <2>2
  <2>4. \A x, y \in Cases : row = CaseLock(x) /\ above = CaseLock(y) => x = c /\ y = d
    BY <2>1 DEF CaseLock
  <2>5. ~Comes(d, c, byAge)
    <3>1. case[c].born \in Nat /\ case[d].born \in Nat /\ ById[c] \in Nat /\ ById[d] \in Nat
      BY DuesAssumption DEF TypeOK, CaseRow
    <3> QED BY <2>1, <3>1 DEF Comes
  <2> QED BY <2>3, <2>4, <2>5 DEF Above
<1> QED BY <1>2, <1>3 DEF Above

(* A plan that locks the cases of S in the order of a key.                 *)
InKeyOrder(plan, first, S, key, last) ==
    /\ S \in SUBSET Cases /\ first \in Seq(AnyStep) /\ last \in Seq(AnyStep)
    /\ \A x \in S : key[x] \in Int
    /\ \A x, y \in S : x # y => key[x] # key[y]
    /\ plan = first \o LockCases(InOrder(S, key)) \o last

\* It locks them so.
LEMMA CasesRise ==
  ASSUME NEW plan, NEW first, NEW S, NEW key, NEW last, InKeyOrder(plan, first, S, key, last),
         NEW i \in Len(first) + 1..Len(first) + Cardinality(S),
         NEW j \in Len(first) + 1..Len(first) + Cardinality(S), i < j
  PROVE  \E c, d \in S : /\ plan[i].rows = {CaseLock(c)} /\ plan[j].rows = {CaseLock(d)}
                         /\ key[c] < key[d]
<1> USE DEF InKeyOrder
<1> DEFINE m == Len(first)
           n == Cardinality(S)
           order == InOrder(S, key)
           locks == LockCases(order)
<1>1. IsFiniteSet(S) BY DuesAssumption, FS_Subset
<1>2. n \in Nat /\ IsOrder(order, S, key) BY <1>1, InOrderLists
<1>3. order \in [1..n -> S] BY <1>2 DEF IsOrder
<1>4. locks \in Seq(AnyStep) /\ Len(locks) = n BY LockCasesSteps
<1>5. m \in Nat OBVIOUS
<1>6. InARow(plan, first, locks, last) BY <1>4, ThreeInARow
<1> DEFINE a == i - m
           b == j - m
<1>7. a \in 1..n /\ b \in 1..n /\ a < b /\ m + a = i /\ m + b = j BY <1>2, <1>5
<1>8. key[order[a]] < key[order[b]] /\ order[a] \in S /\ order[b] \in S BY <1>2, <1>3, <1>7 DEF IsOrder
<1>9. locks[a].rows = {CaseLock(order[a])} /\ locks[b].rows = {CaseLock(order[b])}
  <2>1. DOMAIN order = 1..n BY <1>3
  <2> QED BY <1>7, <2>1 DEF LockCases, Step
<1> HIDE DEF locks, order, m, n, a, b
<1>10. plan[i] = locks[a] /\ plan[j] = locks[b]
  <2>1. \A x \in 1..n : plan[m + x] = locks[x] BY <1>4, <1>6 DEF InARow, m
  <2> QED BY <1>7, <2>1
<1> QED BY <1>8, <1>9, <1>10

(* Such a plan asks for nothing before the cases that is not below them.   *)
Rising(plan, first, S, last, masters, payIn, byAge) ==
    /\ LocksBetween(plan, first, S, last)
    /\ last[1].rows = {} /\ last[2].rows = {MasterLock(c) : c \in masters}
    /\ \A i \in 1..Len(first) : \A row \in first[i].rows :
         Level(row, payIn) < 3 /\ (payIn => Level(row, payIn) < 2) /\ Level(row, payIn) \in Int
    /\ \A i, j \in 1..Len(first) : i < j => \A row \in first[i].rows, above \in first[j].rows :
         Level(row, payIn) < Level(above, payIn)
    /\ \A i, j \in Len(first) + 1..Len(first) + Cardinality(S) : i < j =>
         \E c, d \in S : plan[i].rows = {CaseLock(c)} /\ plan[j].rows = {CaseLock(d)} /\ Comes(c, d, byAge)

\* Then it asks for its rows from the lowest to the highest.
LEMMA BetweenRises ==
  ASSUME NEW plan, NEW first, NEW S \in SUBSET Cases, NEW last, NEW masters \in SUBSET Cases,
         NEW payIn \in BOOLEAN, NEW byAge \in BOOLEAN,
         Rising(plan, first, S, last, masters, payIn, byAge),
         NEW i \in 1..Len(plan), NEW j \in 1..Len(plan), i < j,
         NEW row \in plan[i].rows, NEW above \in plan[j].rows
  PROVE  Above(row, above, payIn, byAge)
<1>0. /\ LocksBetween(plan, first, S, last)
      /\ last[1].rows = {} /\ last[2].rows = {MasterLock(c) : c \in masters}
      /\ \A a \in 1..Len(first) : \A x \in first[a].rows :
           Level(x, payIn) < 3 /\ (payIn => Level(x, payIn) < 2) /\ Level(x, payIn) \in Int
      /\ \A a, b \in 1..Len(first) : a < b => \A x \in first[a].rows, y \in first[b].rows :
           Level(x, payIn) < Level(y, payIn)
      /\ \A a, b \in Len(first) + 1..Len(first) + Cardinality(S) : a < b =>
           \E c, d \in S : plan[a].rows = {CaseLock(c)} /\ plan[b].rows = {CaseLock(d)} /\ Comes(c, d, byAge)
  BY DEF Rising
<1> DEFINE m == Len(first)
           n == Cardinality(S)
<1>1. /\ m \in Nat /\ n \in Nat /\ Len(plan) = m + n + 2
      /\ \A k \in 1..m : plan[k] = first[k]
      /\ \A k \in m + 1..m + n : \E c \in S : StepIs(plan[k], {CaseLock(c)}, {})
      /\ plan[m + n + 1] = last[1] /\ plan[m + n + 2] = last[2]
  BY <1>0 DEF LocksBetween
<1>2. /\ \A c \in Cases : Level(CaseLock(c), payIn) = IF payIn THEN 2 ELSE 3
      /\ \A c \in Cases : Level(MasterLock(c), payIn) = 6
  BY DEF Level, CaseLock, MasterLock
<1>3. ASSUME NEW k \in m + 1..m + n, NEW x \in plan[k].rows PROVE \E c \in Cases : x = CaseLock(c)
  BY <1>1, <1>3 DEF StepIs
<1>4. ASSUME NEW x \in plan[m + n + 2].rows PROVE \E c \in Cases : x = MasterLock(c)
  BY <1>0, <1>1, <1>4
<1>5. plan[m + n + 1].rows = {} BY <1>0, <1>1
<1>6. /\ i \in 1..m \/ i \in m + 1..m + n \/ i = m + n + 1 \/ i = m + n + 2
      /\ j \in 1..m \/ j \in m + 1..m + n \/ j = m + n + 1 \/ j = m + n + 2
      /\ i \in Int /\ j \in Int
  BY <1>1
<1> HIDE DEF m, n
<1>7. CASE j \in 1..m
  <2>1. i \in 1..m BY <1>1, <1>6, <1>7
  <2>2. row \in first[i].rows /\ above \in first[j].rows BY <1>1, <1>7, <2>1
  <2>3. Level(row, payIn) < Level(above, payIn) BY <1>0, <1>7, <2>1, <2>2 DEF m
  <2> QED BY <2>3 DEF Above
<1>8. CASE j \in m + 1..m + n
  <2>1. PICK d \in Cases : above = CaseLock(d) BY <1>3, <1>8
  <2>2. CASE i \in 1..m
    <3>1. row \in first[i].rows BY <1>1, <2>2
    <3>2. Level(row, payIn) < Level(above, payIn) BY <1>0, <1>2, <2>1, <2>2, <3>1 DEF m
    <3> QED BY <3>2 DEF Above
  <2>3. CASE i \in m + 1..m + n
    <3>1. PICK c \in S, e \in S : plan[i].rows = {CaseLock(c)} /\ plan[j].rows = {CaseLock(e)}
                                  /\ Comes(c, e, byAge)
      BY <1>0, <1>8, <2>3 DEF m, n
    <3>2. row = CaseLock(c) /\ above = CaseLock(e) BY <3>1
    <3> QED BY <3>1, <3>2 DEF Above
  <2> QED BY <1>1, <1>6, <1>8, <2>2, <2>3
<1>9. CASE j = m + n + 2
  <2>1. PICK d \in Cases : above = MasterLock(d) BY <1>4, <1>9
  <2>2. Level(above, payIn) = 6 BY <1>2, <2>1
  <2>3. CASE i \in 1..m
    <3>1. row \in first[i].rows BY <1>1, <2>3
    <3>2. Level(row, payIn) < 3 /\ Level(row, payIn) \in Int BY <1>0, <2>3, <3>1 DEF m
    <3> QED BY <2>2, <3>2 DEF Above
  <2>4. CASE i \in m + 1..m + n
    <3>1. PICK c \in Cases : row = CaseLock(c) BY <1>3, <2>4
    <3>2. Level(row, payIn) < 6 BY <1>2, <3>1
    <3> QED BY <2>2, <3>2 DEF Above
  <2> QED BY <1>1, <1>5, <1>6, <1>9, <2>3, <2>4
<1> QED BY <1>5, <1>6, <1>7, <1>8, <1>9

\* The calls for all cases.
LEMMA ManyRises ==
  ASSUME NEW o \in Operation, NEW v \in View, o.kind \in Many, NEW payIn \in BOOLEAN, NEW byAge \in BOOLEAN, ~byAge,
         NEW i \in 1..Len(Plan(o, v)), NEW j \in 1..Len(Plan(o, v)), i < j,
         NEW row \in Plan(o, v)[i].rows, NEW above \in Plan(o, v)[j].rows
  PROVE  Above(row, above, payIn, byAge)
<1> DEFINE first == << Step({}, {"targets"}) >>
           last == << Step({}, {"case"}), Step({MasterLock(c) : c \in v.targets}, {}) >>
           S == v.targets
           plan == Plan(o, v)
<1>1. S \in SUBSET Cases BY DEF View
<1>2. plan = first \o LockCases(InOrder(S, ById)) \o last
  BY DEF Plan, ManyPlan, InIdOrder, Many
<1>3. /\ \A x \in S : ById[x] \in Int
      /\ \A x, y \in S : x # y => ById[x] # ById[y]
  <2>1. \A x \in S : ById[x] \in Nat BY <1>1, DuesAssumption
  <2>2. \A x, y \in S : x # y => ById[x] # ById[y] BY <1>1, DuesAssumption
  <2> QED BY <2>1, <2>2
<1>4. Len(first) = 1 /\ first[1].rows = {} /\ Len(last) = 2 /\ last[1].rows = {}
      /\ last[2].rows = {MasterLock(c) : c \in S}
  BY DEF Step
<1>5. first \in Seq(AnyStep) /\ last \in Seq(AnyStep)
  <2>1. {MasterLock(c) : c \in S} \subseteq Rows BY <1>1, LocksAreRows
  <2>2. Step({}, {"targets"}) \in AnyStep /\ Step({}, {"case"}) \in AnyStep BY DEF Step, AnyStep
  <2>3. Step({MasterLock(c) : c \in S}, {}) \in AnyStep BY <2>1 DEF Step, AnyStep
  <2> QED BY <2>2, <2>3
<1> HIDE DEF first, last, S, plan
<1>6. LocksBetween(plan, first, S, last) BY <1>1, <1>2, <1>3, <1>4, <1>5, LocksBetweenIs
<1>0. InKeyOrder(plan, first, S, ById, last) BY <1>1, <1>2, <1>3, <1>5 DEF InKeyOrder
<1>7. \A a, b \in Len(first) + 1..Len(first) + Cardinality(S) : a < b =>
        \E c, d \in S : plan[a].rows = {CaseLock(c)} /\ plan[b].rows = {CaseLock(d)} /\ Comes(c, d, byAge)
  <2> SUFFICES ASSUME NEW a \in Len(first) + 1..Len(first) + Cardinality(S),
                      NEW b \in Len(first) + 1..Len(first) + Cardinality(S), a < b
               PROVE  \E c, d \in S : /\ plan[a].rows = {CaseLock(c)} /\ plan[b].rows = {CaseLock(d)}
                                      /\ Comes(c, d, byAge)
    OBVIOUS
  <2>1. \E c, d \in S : /\ plan[a].rows = {CaseLock(c)} /\ plan[b].rows = {CaseLock(d)}
                        /\ ById[c] < ById[d]
    BY <1>0, CasesRise
  <2> QED BY <2>1 DEF Comes
<1>8. \A a \in 1..Len(first) : first[a].rows = {}
  <2>1. \A a \in 1..1 : a = 1 OBVIOUS
  <2> QED BY <1>4, <2>1
<1>9. \A a \in 1..Len(first) : \A x \in first[a].rows :
        Level(x, payIn) < 3 /\ (payIn => Level(x, payIn) < 2) /\ Level(x, payIn) \in Int
  BY <1>8
<1>10. \A a, b \in 1..Len(first) : a < b => \A x \in first[a].rows, y \in first[b].rows :
         Level(x, payIn) < Level(y, payIn)
  BY <1>8
<1>11. i \in 1..Len(plan) /\ j \in 1..Len(plan) /\ row \in plan[i].rows /\ above \in plan[j].rows
       /\ payIn \in BOOLEAN /\ byAge \in BOOLEAN
  BY DEF plan
<1>12. Rising(plan, first, S, last, S, payIn, byAge) BY <1>4, <1>6, <1>7, <1>9, <1>10 DEF Rising
<1> QED BY <1>1, <1>11, <1>12, BetweenRises

\* The call that takes a receipt back.
LEMMA ReceiptRises ==
  ASSUME NEW o \in Operation, NEW v \in View, o.kind = "reverseReceipt", o.target \in Docs,
         BornApart(Settled(v.doc)),
         NEW payIn \in BOOLEAN, ~payIn, NEW byAge \in BOOLEAN, byAge,
         NEW i \in 1..Len(Plan(o, v)), NEW j \in 1..Len(Plan(o, v)), i < j,
         NEW row \in Plan(o, v)[i].rows, NEW above \in Plan(o, v)[j].rows
  PROVE  Above(row, above, payIn, byAge)
<1> DEFINE S == Settled(v.doc)
           masters == {x \in Cases : v.doc.principal[x] > 0}
           key == [c \in S |-> case[c].born]
           first == << Step({DocLock(o.target)}, {"doc", "blocked"}), Step({MoneyLock}, {"funds"}) >>
           last == << Step({}, {"case"}), Step({MasterLock(c) : c \in masters}, {}) >>
           plan == Plan(o, v)
<1>1. S \in SUBSET Cases /\ masters \in SUBSET Cases BY DEF Settled
<1>2. plan = first \o LockCases(InOrder(S, key)) \o last
  BY DEF Plan, ReverseReceiptPlan, InAgeOrder
<1>3. (\A x \in S : key[x] \in Int) /\ \A x, y \in S : x # y => key[x] # key[y]
  BY DEF BornApart
<1>4. /\ Len(first) = 2 /\ first[1].rows = {DocLock(o.target)} /\ first[2].rows = {MoneyLock}
      /\ Len(last) = 2 /\ last[1].rows = {} /\ last[2].rows = {MasterLock(c) : c \in masters}
  BY DEF Step
<1>5. first \in Seq(AnyStep) /\ last \in Seq(AnyStep)
  <2>1. {MasterLock(c) : c \in masters} \subseteq Rows BY LocksAreRows
  <2>2. {DocLock(o.target)} \subseteq Rows /\ {MoneyLock} \subseteq Rows BY LocksAreRows
  <2>3. Step({DocLock(o.target)}, {"doc", "blocked"}) \in AnyStep /\ Step({MoneyLock}, {"funds"}) \in AnyStep
        /\ Step({}, {"case"}) \in AnyStep /\ Step({MasterLock(c) : c \in masters}, {}) \in AnyStep
    BY <2>1, <2>2 DEF Step, AnyStep
  <2> QED BY <2>3
<1>6. \A c, d \in S : key[c] < key[d] => Comes(c, d, byAge) BY DEF Comes
<1> HIDE DEF first, last, S, plan, key, masters
<1>7. LocksBetween(plan, first, S, last) BY <1>1, <1>2, <1>3, <1>4, <1>5, LocksBetweenIs
<1>0. InKeyOrder(plan, first, S, key, last) BY <1>1, <1>2, <1>3, <1>5 DEF InKeyOrder
<1>8. \A a, b \in Len(first) + 1..Len(first) + Cardinality(S) : a < b =>
        \E c, d \in S : plan[a].rows = {CaseLock(c)} /\ plan[b].rows = {CaseLock(d)} /\ Comes(c, d, byAge)
  <2> SUFFICES ASSUME NEW a \in Len(first) + 1..Len(first) + Cardinality(S),
                      NEW b \in Len(first) + 1..Len(first) + Cardinality(S), a < b
               PROVE  \E c, d \in S : /\ plan[a].rows = {CaseLock(c)} /\ plan[b].rows = {CaseLock(d)}
                                      /\ Comes(c, d, byAge)
    OBVIOUS
  <2>1. \E c, d \in S : /\ plan[a].rows = {CaseLock(c)} /\ plan[b].rows = {CaseLock(d)}
                        /\ key[c] < key[d]
    BY <1>0, CasesRise
  <2> QED BY <1>6, <2>1
<1>9. Level(DocLock(o.target), payIn) = 1 /\ Level(MoneyLock, payIn) = 2
  BY DEF Level, DocLock, MoneyLock
<1>10. \A a \in 1..Len(first) : \A x \in first[a].rows :
         Level(x, payIn) < 3 /\ (payIn => Level(x, payIn) < 2) /\ Level(x, payIn) \in Int
  <2> SUFFICES ASSUME NEW a \in 1..Len(first), NEW x \in first[a].rows
               PROVE  Level(x, payIn) < 3 /\ Level(x, payIn) \in Int
    OBVIOUS
  <2>1. a = 1 \/ a = 2 BY <1>4
  <2>2. x = DocLock(o.target) \/ x = MoneyLock BY <1>4, <2>1
  <2>3. Level(x, payIn) = 1 \/ Level(x, payIn) = 2 BY <1>9, <2>2, Zenon
  <2> QED BY <2>3
<1>11. \A a, b \in 1..Len(first) : a < b => \A x \in first[a].rows, y \in first[b].rows :
         Level(x, payIn) < Level(y, payIn)
  <2> SUFFICES ASSUME NEW a \in 1..Len(first), NEW b \in 1..Len(first), a < b,
                      NEW x \in first[a].rows, NEW y \in first[b].rows
               PROVE  Level(x, payIn) < Level(y, payIn)
    OBVIOUS
  <2>1. a = 1 /\ b = 2 BY <1>4
  <2>2. x = DocLock(o.target) /\ y = MoneyLock BY <1>4, <2>1
  <2>3. Level(x, payIn) = 1 /\ Level(y, payIn) = 2 BY <1>9, <2>2, Zenon
  <2> QED BY <2>3
<1>12. i \in 1..Len(plan) /\ j \in 1..Len(plan) /\ row \in plan[i].rows /\ above \in plan[j].rows
       /\ byAge \in BOOLEAN /\ payIn \in BOOLEAN
  BY DEF plan
<1>13. Rising(plan, first, S, last, masters, payIn, byAge) BY <1>4, <1>7, <1>8, <1>10, <1>11 DEF Rising
<1> QED BY ONLY <1>1, <1>12, <1>13, i < j, BetweenRises

\* The other calls.
LEMMA ShortRises ==
  ASSUME NEW o \in Operation, NEW v, o.kind \in Kinds \ (Many \cup {"reverseReceipt", "reverseDebt"}),
         NEW payIn \in BOOLEAN, o.kind = "payin" => payIn,
         o.kind \in {"reverseRecovery", "reverseCommission"} => ~payIn,
         NEW i \in 1..Len(Plan(o, v)), NEW j \in 1..Len(Plan(o, v)), i < j,
         NEW row \in Plan(o, v)[i].rows, NEW above \in Plan(o, v)[j].rows
  PROVE  Level(row, payIn) < Level(above, payIn)
<1> USE DEF Step, CaseLock, MasterLock, DocLock, MoneyLock, DebtLock, SourceLock
<1>1. CASE o.kind \in {"recover", "commission"}
  <2>1. /\ Plan(o, v)[1].rows = {CaseLock(o.case)} /\ Plan(o, v)[2].rows = {MasterLock(o.case)}
        /\ Len(Plan(o, v)) = 2
    BY <1>1 DEF Plan, CasePlan
  <2> QED BY <2>1 DEF Level
<1>2. CASE o.kind \in {"assess", "reverseCase", "collect"}
  <2>1. Len(Plan(o, v)) = 1
    <3>1. CASE o.kind = "assess" BY <3>1 DEF Plan, AssessPlan
    <3>2. CASE o.kind = "reverseCase" BY <3>2 DEF Plan, ReverseCasePlan
    <3>3. CASE o.kind = "collect" BY <3>3 DEF Plan, CollectPlan
    <3> QED BY <1>2, <3>1, <3>2, <3>3
  <2> QED BY <2>1
<1>3. CASE o.kind = "payin"
  <2>1. CASE o.case = None
    <3>1. Plan(o, v)[2].rows = {} /\ Len(Plan(o, v)) = 2 BY <1>3, <2>1 DEF Plan, PayInPlan
    <3> QED BY <3>1
  <2>2. CASE o.case # None
    <3>1. /\ Plan(o, v)[1].rows = {CaseLock(o.case)} /\ Plan(o, v)[2].rows = {MoneyLock}
          /\ Plan(o, v)[3].rows = {} /\ Plan(o, v)[4].rows = {MasterLock(o.case)} /\ Len(Plan(o, v)) = 4
      BY <1>3, <2>2 DEF Plan, PayInPlan
    <3> QED BY <1>3, <3>1 DEF Level
  <2> QED BY <2>1, <2>2
<1>4. CASE o.kind = "reverseRecovery"
  <2>1. /\ Plan(o, v)[1].rows = {DocLock(o.target)} /\ Plan(o, v)[2].rows = {MoneyLock}
        /\ Plan(o, v)[3].rows = {CaseLock(o.case)} /\ Plan(o, v)[4].rows = {MasterLock(o.case)}
        /\ Len(Plan(o, v)) = 4
    BY <1>4 DEF Plan, ReverseRecoveryPlan
  <2> QED BY <1>4, <2>1 DEF Level
<1>5. CASE o.kind = "reverseCommission"
  <2>1. /\ Plan(o, v)[1].rows = {DocLock(o.target)} /\ Plan(o, v)[2].rows = {MoneyLock}
        /\ Plan(o, v)[3].rows = {CaseLock(o.case)} /\ Len(Plan(o, v)) = 3
    BY <1>5 DEF Plan, ReverseCommissionPlan
  <2> QED BY <1>5, <2>1 DEF Level
<1>6. CASE o.kind = "reverseAssessment"
  <2>1. /\ Plan(o, v)[1].rows = {DocLock(o.target)} /\ Plan(o, v)[2].rows = {CaseLock(o.case)}
        /\ Len(Plan(o, v)) = 2
    BY <1>6 DEF Plan, ReverseAssessmentPlan
  <2> QED BY <2>1 DEF Level
<1>7. CASE o.kind = "cancel"
  <2>1. /\ Plan(o, v)[1].rows = {DebtLock(o.debt)} /\ Plan(o, v)[2].rows = {SourceLock(o.debt)}
        /\ Len(Plan(o, v)) = 2
    BY <1>7 DEF Plan, CancelPlan
  <2> QED BY <2>1 DEF Level
<1>8. CASE o.kind = "reverseCollection"
  <2>1. /\ Plan(o, v)[1].rows = {DocLock(o.target)} /\ Plan(o, v)[2].rows = {MoneyLock}
        /\ Plan(o, v)[3].rows = {DebtLock(o.debt)} /\ Len(Plan(o, v)) = 3
    BY <1>8 DEF Plan, ReverseCollectionPlan
  <2> QED BY <2>1 DEF Level
<1> QED BY <1>1, <1>2, <1>3, <1>4, <1>5, <1>6, <1>7, <1>8 DEF Kinds, Many

(* What s has locked its plan has asked for.                               *)
AskedFor(s, row) ==
    Running(s) /\ \E i \in 1..Len(PlanOf(s)) : i < stage[s] /\ row \in PlanOf(s)[i].rows

HeldByPlan == \A row \in Rows, s \in Requests : holder[row] = s => AskedFor(s, row)

(* No third call begins beside two.                                        *)
AtMostTwo ==
    \A r, s, t \in Requests : Running(r) /\ Running(s) /\ Running(t) => r = s \/ r = t \/ s = t

\* What a step does to the calls: they stay where they are, or one of them
\* begins, goes on or ends.
LEMMA CallsMove ==
  ASSUME Known, [Next]_vars
  PROVE  \/ /\ UNCHANGED <<op, view, holder>>
            /\ \A s \in Requests : (Running(s) => stage'[s] = stage[s]) /\ (Running(s)' => Running(s))
         \/ \E r \in Requests : \/ Begin(r) \/ Advance(r)
                                \/ Running(r) /\ \E next \in {0, -1} : Finish(r, next)
<1>1. stage \in [Requests -> Nat \cup {-1}] BY DEF Known, TypeOK
<1>2. CASE (\E d \in Debts : CreateReceivable(d)) \/ List \/ NextDay \/ UNCHANGED vars
  <2>1. UNCHANGED <<op, view, stage, holder>>
    <3>1. ASSUME NEW d \in Debts, CreateReceivable(d) PROVE UNCHANGED <<op, view, stage, holder>>
      BY <3>1 DEF CreateReceivable
    <3>2. CASE List BY <3>2 DEF List
    <3>3. CASE NextDay BY <3>3 DEF NextDay
    <3>4. CASE UNCHANGED vars BY <3>4 DEF vars
    <3> QED BY <1>2, <3>1, <3>2, <3>3, <3>4
  <2> QED BY <2>1 DEF Running
<1>3. ASSUME NEW r \in Requests, NEW c \in Cases, NEW n \in Amounts \cup {0}, CreateCase(r, c, n)
      PROVE  /\ UNCHANGED <<op, view, holder>>
             /\ \A s \in Requests : (Running(s) => stage'[s] = stage[s]) /\ (Running(s)' => Running(s))
  <2>1. UNCHANGED <<op, view, holder>> BY <1>3 DEF CreateCase
  <2>2. stage' = stage \/ (stage[r] = 0 /\ stage' = [stage EXCEPT ![r] = -1])
    <3>1. CASE n = 0 BY <1>3, <3>1 DEF CreateCase
    <3>2. CASE n # 0 BY <1>3, <3>2 DEF CreateCase
    <3> QED BY <3>1, <3>2
  <2> QED BY <1>1, <2>1, <2>2 DEF Running
<1>4. ASSUME NEW r \in Requests, Acts(r)
      PROVE  Begin(r) \/ Advance(r) \/ (Running(r) /\ \E next \in {0, -1} : Finish(r, next))
  <2>1. \A kind : Commits(r, kind) => Running(r) /\ Finish(r, -1) BY DEF Commits
  <2> QED BY <1>4, <2>1 DEF Acts, Reject, Abort, Recover, RecoverAll, Combined, TakePayIn, Commission,
             Assess, Collect, Cancel, ReverseRecovery, ReverseReceipt, ReverseCommission,
             ReverseAssessment, ReverseCase, ReverseDebt, ReverseCollection
<1>5. Next => \/ \E d \in Debts : CreateReceivable(d)
              \/ \E r \in Requests, c \in Cases, n \in Amounts \cup {0} : CreateCase(r, c, n)
              \/ List \/ NextDay
              \/ \E r \in Requests : Acts(r)
  BY DEF Next, Acts
<1> QED BY <1>2, <1>3, <1>4, <1>5

\* A call that nothing happened to keeps what its plan accounts for.
LEMMA HeldStays ==
  ASSUME NEW A, StepFrom(A), HeldByPlan, NEW s \in Requests, NEW row \in Rows, holder[row] = s,
         op'[s] = op[s], view'[s] = view[s], stage'[s] = stage[s]
  PROVE  AskedFor(s, row)'
<1>1. AskedFor(s, row) BY DEF HeldByPlan
<1>2. PlanOf(s)' = PlanOf(s)
  <2> SUFFICES ASSUME NEW o, o = op[s], NEW v, v = view[s] PROVE PlanOf(s)' = PlanOf(s) OBVIOUS
  <2>1. s \in InFlight BY <1>1 DEF AskedFor, InFlight
  <2>2. Plan(o, v)' = Plan(o, v) BY <2>1, PlansStand
  <2>3. op[s]' = o /\ view[s]' = v OBVIOUS
  <2>4. PlanOf(s)' = Plan(o, v)' BY <2>3 DEF PlanOf
  <2> QED BY <2>2, <2>4 DEF PlanOf
<1>3. Running(s)' BY <1>1 DEF AskedFor, Running
<1> QED BY <1>1, <1>2, <1>3 DEF AskedFor

\* Every lock that is held is one its holder's plan has asked for, after
\* every step.
LEMMA HeldByPlanNext ==
  ASSUME RowsReversedAlone, ReceiptsFindAll, Known, HeldByPlan, [Next]_vars
  PROVE  HeldByPlan'
<1> SUFFICES ASSUME NEW row \in Rows, NEW s \in Requests, holder'[row] = s PROVE AskedFor(s, row)'
  BY DEF HeldByPlan, Rows, MoneyLock
<1>0. DOMAIN holder = Rows /\ s # Nobody
  BY RequestsAssumption DEF Known, TypeOK, LocksTypeOK
<1>1. PICK A : StepFrom(A) BY StepsAre
<1>2. ASSUME holder[row] = s, op'[s] = op[s], view'[s] = view[s], stage'[s] = stage[s]
      PROVE  AskedFor(s, row)'
  BY <1>1, <1>2, HeldStays
<1>3. CASE /\ UNCHANGED <<op, view, holder>>
           /\ \A t \in Requests : (Running(t) => stage'[t] = stage[t]) /\ (Running(t)' => Running(t))
  <2>1. Running(s) BY <1>3 DEF HeldByPlan, AskedFor
  <2> QED BY <1>2, <1>3, <2>1
<1>4. ASSUME NEW r \in Requests, Begin(r) PROVE AskedFor(s, row)'
  <2>1. UNCHANGED <<view, holder>> /\ stage[r] = 0 /\ stage' = [stage EXCEPT ![r] = 1]
        /\ \E o \in Calls : op' = [op EXCEPT ![r] = o]
    BY <1>4 DEF Begin
  <2>2. s # r BY <2>1 DEF HeldByPlan, AskedFor, Running
  <2>3. op'[s] = op[s] /\ stage'[s] = stage[s] BY <2>1, <2>2 DEF Known, TypeOK
  <2> QED BY <1>2, <2>1, <2>3
<1>5. ASSUME NEW r \in Requests, Running(r), NEW next \in {0, -1}, Finish(r, next) PROVE AskedFor(s, row)'
  <2>1. holder'[row] = IF holder[row] = r THEN Nobody ELSE holder[row]
    BY <1>0, <1>5 DEF Finish, ReleaseAll
  <2>2. s # r /\ holder[row] = s BY <1>0, <2>1
  <2>3. op'[s] = op[s] /\ view'[s] = view[s] /\ stage'[s] = stage[s]
    BY <1>5, <2>2 DEF Finish, Known, TypeOK
  <2> QED BY <1>2, <2>2, <2>3
<1>6. ASSUME NEW r \in Requests, Advance(r) PROVE AskedFor(s, row)'
  <2>1. Running(r) /\ ~AtEnd(r) BY <1>6 DEF Advance
  <2> DEFINE p == PlanOf(r)
             n == stage[r]
             w == Look(op[r], view[r], p[n].look)
             q == Plan(op[r], w)
  <2>2. /\ n \in 1..Len(p) /\ stage'[r] = n + 1 /\ PlanOf(r)' = q /\ n \in 1..Len(q)
        /\ \A j \in 1..n : q[j] = p[j]
    BY <1>6, AdvanceFacts
  <2>3. Wanted(r) = p[n].rows BY <2>1 DEF Wanted
  <2> HIDE DEF p, n, q
  <2>4. holder'[row] = IF row \in Wanted(r) THEN r ELSE holder[row] BY <1>0, <1>6 DEF Advance, Acquire
  <2>5. CASE s # r
    <3>1. op'[s] = op[s] /\ view'[s] = view[s] /\ stage'[s] = stage[s]
      BY <1>6, <2>5 DEF Advance, Known, TypeOK
    <3> QED BY <1>2, <2>4, <2>5, <3>1
  <2>6. CASE s = r
    <3>1. Running(r)' BY <2>1, <2>2 DEF Running, n
    <3>2. \E i \in 1..n : row \in p[i].rows
      <4>1. CASE row \in Wanted(r) BY <2>2, <2>3, <4>1
      <4>2. CASE row \notin Wanted(r)
        <5>1. AskedFor(r, row) BY <2>4, <2>6, <4>2 DEF HeldByPlan
        <5>2. PICK i \in 1..Len(p) : i < n /\ row \in p[i].rows BY <5>1 DEF AskedFor, p, n
        <5>3. i \in 1..n BY <2>2, <5>2
        <5> QED BY <5>2, <5>3
      <4> QED BY <4>1, <4>2
    <3>3. PICK i \in 1..n : row \in p[i].rows BY <3>2
    <3>4. i \in 1..Len(q) /\ i < stage'[r] /\ row \in q[i].rows BY <2>2, <3>3
    <3> QED BY <2>2, <2>6, <3>1, <3>4 DEF AskedFor
  <2> QED BY <2>5, <2>6
<1> QED BY <1>3, <1>4, <1>5, <1>6, CallsMove

\* No third call is under way after any step.
LEMMA AtMostTwoNext == ASSUME Known, AtMostTwo, [Next]_vars PROVE AtMostTwo'
<1>1. CASE /\ UNCHANGED <<op, view, holder>>
           /\ \A t \in Requests : (Running(t) => stage'[t] = stage[t]) /\ (Running(t)' => Running(t))
  BY <1>1 DEF AtMostTwo
<1>2. stage \in [Requests -> Nat \cup {-1}] BY DEF Known, TypeOK
<1>3. ASSUME NEW r \in Requests, Begin(r) PROVE AtMostTwo'
  <2>1. stage' = [stage EXCEPT ![r] = 1] /\ \E o \in Calls : Allowed(o.kind) BY <1>3 DEF Begin
  <2>2. \A t \in Requests \ {r} : Running(t)' => t \in InFlight BY <1>2, <2>1 DEF Running, InFlight
  <2>3. InFlight = {} \/ Cardinality(InFlight) = 1 BY <2>1 DEF Allowed
  <2>4. IsFiniteSet(InFlight)
    <3>1. InFlight \in SUBSET Requests BY DEF InFlight
    <3> QED BY <3>1, DuesAssumption, FS_Subset
  <2>5. \A s, t \in InFlight : s = t BY <2>3, <2>4, FS_Singleton
  <2>6. ASSUME NEW x \in Requests, NEW y \in Requests, NEW z \in Requests,
               Running(x)', Running(y)', Running(z)'
        PROVE  x = y \/ x = z \/ y = z
    BY <2>2, <2>5, <2>6
  <2> QED BY <2>6 DEF AtMostTwo
<1>4. ASSUME NEW r \in Requests, Advance(r) PROVE AtMostTwo'
  <2>1. Running(r) /\ stage' = [stage EXCEPT ![r] = @ + 1] BY <1>4 DEF Advance
  <2>2. \A t \in Requests : Running(t)' => Running(t) BY <1>2, <2>1 DEF Running
  <2> QED BY <2>2 DEF AtMostTwo
<1>5. ASSUME NEW r \in Requests, Running(r), NEW next \in {0, -1}, Finish(r, next) PROVE AtMostTwo'
  <2>1. stage' = [stage EXCEPT ![r] = next] BY <1>5 DEF Finish
  <2>2. \A t \in Requests : Running(t)' => Running(t) BY <1>2, <2>1 DEF Running
  <2> QED BY <2>2 DEF AtMostTwo
<1> QED BY <1>1, <1>3, <1>4, <1>5, CallsMove

(* The order that a call follows.                                          *)
Follows(kind, payIn, byAge) ==
    /\ kind # "reverseDebt"
    /\ kind = "payin" => payIn
    /\ kind \in {"reverseRecovery", "reverseCommission", "reverseReceipt"} => ~payIn
    /\ kind = "reverseReceipt" => byAge
    /\ kind \in Many => ~byAge

\* What a call asks for is above everything that it has locked.
LEMMA AskedInOrder ==
  ASSUME Known, NEW s \in Requests, NEW payIn \in BOOLEAN, NEW byAge \in BOOLEAN,
         Follows(op[s].kind, payIn, byAge),
         NEW row, AskedFor(s, row), NEW above \in Wanted(s)
  PROVE  row \in Rows /\ above \in Rows /\ Above(row, above, payIn, byAge)
<1> DEFINE o == op[s]
           v == view[s]
           n == stage[s]
<1>1. Running(s) /\ ~AtEnd(s) /\ above \in PlanOf(s)[n].rows BY DEF Wanted
<1>2. /\ o \in Operation /\ v \in View /\ CallOK(o) /\ n \in 1..(Len(PlanOf(s)) + 1)
      /\ o.kind \in Undo => o.target \in Docs /\ BornApart(Settled(v.doc))
      /\ PlanOK(o, v, PlanOf(s))
  BY <1>1, RunningPlan
<1>3. n \in 1..Len(PlanOf(s)) BY <1>1, <1>2 DEF AtEnd, PlanOK
<1>4. PICK i \in 1..Len(PlanOf(s)) : i < n /\ row \in PlanOf(s)[i].rows BY DEF AskedFor
<1>5. row \in Rows /\ above \in Rows BY <1>1, <1>2, <1>3, <1>4 DEF PlanOK, StepOK
<1>6. PlanOf(s) = Plan(o, v) BY DEF PlanOf
<1>7. Follows(o.kind, payIn, byAge) /\ o.kind \in Kinds BY <1>2 DEF CallOK
<1> HIDE DEF o, v, n
<1>8. CASE o.kind \in Many
  <2>1. ~byAge BY <1>7, <1>8 DEF Follows
  <2> QED BY <1>1, <1>2, <1>3, <1>4, <1>5, <1>6, <1>8, <2>1, ManyRises
<1>9. CASE o.kind = "reverseReceipt"
  <2>1. byAge /\ ~payIn BY <1>7, <1>9 DEF Follows
  <2>2. o.target \in Docs /\ BornApart(Settled(v.doc)) BY <1>2, <1>9 DEF Undo
  <2> QED BY <1>1, <1>2, <1>3, <1>4, <1>5, <1>6, <1>9, <2>1, <2>2, ReceiptRises
<1>10. CASE o.kind \notin Many \cup {"reverseReceipt"}
  <2>1. /\ o.kind \in Kinds \ (Many \cup {"reverseReceipt", "reverseDebt"})
        /\ o.kind = "payin" => payIn
        /\ o.kind \in {"reverseRecovery", "reverseCommission"} => ~payIn
    BY <1>7, <1>10 DEF Follows
  <2>2. Level(row, payIn) < Level(above, payIn)
    BY <1>1, <1>2, <1>3, <1>4, <1>6, <2>1, ShortRises
  <2> QED BY <1>5, <2>2 DEF Above
<1> QED BY <1>8, <1>9, <1>10

\* Of two calls that wait for each other, each wants a row above the one
\* that the other wants.
LEMMA NoneInACircle ==
  ASSUME RowsReversedAlone, PayInsApart, ReceiptsReversedApart, Known, HeldByPlan, AtMostTwo
  PROVE  NoWaitCycle
<1> SUFFICES ASSUME NEW group \in SUBSET Requests, group # {},
                    \A r \in group : \E s \in group : WaitsFor(r, Wanted(r), s)
             PROVE  FALSE
  BY DEF NoWaitCycle, WaitCycle
<1>1. PICK r \in group : TRUE OBVIOUS
<1>2. PICK s \in group : WaitsFor(r, Wanted(r), s) OBVIOUS
<1>3. PICK t \in group : WaitsFor(s, Wanted(s), t) OBVIOUS
<1>4. \A x \in group : Running(x)
  <2> SUFFICES ASSUME NEW x \in group PROVE Running(x) OBVIOUS
  <2>1. Wanted(x) # {} BY DEF WaitsFor
  <2> QED BY <2>1 DEF Wanted
<1>5. r \in Requests /\ s \in Requests /\ r # s /\ t = r BY <1>2, <1>3, <1>4 DEF AtMostTwo, WaitsFor
<1>6. PICK row \in Wanted(r) : holder[row] = s BY <1>2 DEF WaitsFor
<1>7. PICK above \in Wanted(s) : holder[above] = r BY <1>3, <1>5 DEF WaitsFor
<1>8. op[r].kind \in workload.beside /\ op[s].kind \in workload.beside /\ workload \in Workloads
  BY <1>4, <1>5 DEF Known, BesideOnly, TypeOK
<1> DEFINE payIn == "payin" \in {op[r].kind, op[s].kind}
           byAge == "reverseReceipt" \in {op[r].kind, op[s].kind}
<1>9. Follows(op[r].kind, payIn, byAge) /\ Follows(op[s].kind, payIn, byAge)
  <2>1. ASSUME NEW x \in {r, s} PROVE Follows(op[x].kind, payIn, byAge)
    <3>1. op[x].kind # "reverseDebt" BY <1>8 DEF RowsReversedAlone
    <3>2. payIn => op[x].kind \notin {"reverseRecovery", "reverseCommission", "reverseReceipt"}
      BY <1>8 DEF PayInsApart
    <3>3. byAge => op[x].kind \notin Many BY <1>8 DEF ReceiptsReversedApart
    <3> QED BY <3>1, <3>2, <3>3 DEF Follows
  <2> QED BY <2>1
<1>10. payIn \in BOOLEAN /\ byAge \in BOOLEAN OBVIOUS
<1> HIDE DEF payIn, byAge
<1>11. row \in Rows /\ above \in Rows
  <2>1. ASSUME NEW x \in group, NEW y \in Wanted(x) PROVE y \in Rows
    <3>1. Running(x) /\ ~AtEnd(x) /\ y \in PlanOf(x)[stage[x]].rows BY <2>1 DEF Wanted
    <3>2. stage[x] \in 1..(Len(PlanOf(x)) + 1) /\ PlanOK(op[x], view[x], PlanOf(x))
      BY <3>1, RunningPlan
    <3> QED BY <3>1, <3>2 DEF AtEnd, PlanOK, StepOK
  <2> QED BY <1>6, <1>7, <2>1
<1>12. AskedFor(s, row) /\ AskedFor(r, above) BY <1>5, <1>6, <1>7, <1>11 DEF HeldByPlan
<1>13. Above(row, above, payIn, byAge) BY <1>5, <1>7, <1>9, <1>10, <1>12, AskedInOrder
<1>14. Above(above, row, payIn, byAge) BY <1>5, <1>6, <1>9, <1>10, <1>12, AskedInOrder
<1> QED BY <1>10, <1>11, <1>13, <1>14, AboveOneWay DEF Known

(* No two requests about a customer's dues wait for each other: whatever   *)
(* two of them lock in common they lock in the same order.  A Pay In and   *)
(* the reversals that take money back, and the reversal of a receipt and   *)
(* the calls for all cases, lock in opposite orders and have to be kept    *)
(* apart.                                                                  *)
THEOREM NoWaitCycleInvariant ==
  ASSUME RowsReversedAlone, ReceiptsFindAll, PayInsApart, ReceiptsReversedApart
  PROVE  Spec => []NoWaitCycle
<1> DEFINE Inv == Known /\ HeldByPlan /\ AtMostTwo
<1>1. Init => Inv
  <2>1. Init => HeldByPlan BY RequestsAssumption DEF Init, LocksInit, HeldByPlan
  <2>2. Init => AtMostTwo BY DEF Init, AtMostTwo, Running
  <2> QED BY <2>1, <2>2, KnownInit
<1>2. Inv /\ [Next]_vars => Inv' BY KnownNext, HeldByPlanNext, AtMostTwoNext
<1>3. Inv => NoWaitCycle BY NoneInACircle
<1> HIDE DEF Inv
<1> QED BY <1>1, <1>2, <1>3, PTL DEF Spec

=============================================================================
