--------------------------- MODULE CashDesk_proofs ---------------------------
(***************************************************************************)
(* Proofs about cash drawers and their shifts: a closed shift stays as it  *)
(* was closed and is explained by what was posted within its dates, money  *)
(* leaves only an account that has it, and no two requests wait for each   *)
(* other, for any number of drawers, banks, operators and requests.        *)
(***************************************************************************)
EXTENDS CashDesk, SumLemmas, TLAPS

---------------------------------------------------------------------------
(* Sums.                                                                   *)

(* What each transfer and each rounding counts for in Net.                 *)
Moved(a, first, last) ==
    [r \in Requests |->
        IF move[r].date \notin first..last THEN 0
        ELSE (IF move[r].to = a THEN move[r].amount ELSE 0)
             - (IF move[r].from = a THEN move[r].amount ELSE 0)]

Adjusted(a, first, last, except) ==
    [s \in Requests |->
        IF s # except /\ session[s].drawer = a /\ session[s].adjustedAt \in first..last
        THEN session[s].adjustment ELSE 0]

\* What has come into an account between two dates: movements and adjustments.
LEMMA NetIs ==
  ASSUME NEW a, NEW first, NEW last, NEW except
  PROVE  Net(a, first, last, except)
           = SumFunction(Moved(a, first, last)) + SumFunction(Adjusted(a, first, last, except))
BY DEF Net, Moved, Adjusted

(* The rows have the types that sums and dates need.                       *)
LEMMA RowFacts ==
  ASSUME TypeOK, NEW r \in Requests
  PROVE  /\ move[r].amount \in Nat /\ move[r].date \in Nat
         /\ move[r] # NoTransfer => move[r].from \in Accounts /\ move[r].to \in Accounts
         /\ session[r].opening \in Nat /\ session[r].openedAt \in Nat /\ session[r].closedAt \in Nat
         /\ session[r].adjustedAt \in Nat /\ session[r].adjustment \in Int
         /\ session[r].status \in {"NONE", "OPEN", "CLOSED"}
         /\ session[r].status # "NONE" => session[r] \in CashSession /\ session[r].drawer \in Drawers
<1>1. move[r] \in Transfer \cup {NoTransfer} /\ session[r] \in CashSession \cup {NoSession} BY DEF TypeOK
<1>2. /\ move[r].amount \in Nat /\ move[r].date \in Nat
      /\ move[r] # NoTransfer => move[r].from \in Accounts /\ move[r].to \in Accounts
  BY <1>1 DEF Transfer, NoTransfer
<1>3. CASE session[r] = NoSession BY <1>2, <1>3 DEF NoSession
<1>4. CASE session[r] \in CashSession BY <1>2, <1>4 DEF CashSession
<1> QED BY <1>1, <1>3, <1>4

\* Each of these is a function to the integers ...
LEMMA TermTypes ==
  ASSUME TypeOK, NEW a, NEW first, NEW last, NEW except
  PROVE  /\ Moved(a, first, last) \in [Requests -> Int]
         /\ Adjusted(a, first, last, except) \in [Requests -> Int]
<1>1. \A r \in Requests : Moved(a, first, last)[r] \in Int BY RowFacts DEF Moved
<1>2. \A r \in Requests : Adjusted(a, first, last, except)[r] \in Int BY RowFacts DEF Adjusted
<1> QED BY <1>1, <1>2 DEF Moved, Adjusted

\* ... so that their sum is an integer ...
LEMMA NetType ==
  ASSUME TypeOK, NEW a, NEW first, NEW last, NEW except
  PROVE  Net(a, first, last, except) \in Int
<1>1. SumFunction(Moved(a, first, last)) \in Int BY TermTypes, SumType, DeskAssumption
<1>2. SumFunction(Adjusted(a, first, last, except)) \in Int BY TermTypes, SumType, DeskAssumption
<1> QED BY <1>1, <1>2, NetIs

\* ... and so is a balance.
LEMMA BalanceType == ASSUME TypeOK, NEW a \in Accounts PROVE Balance(a) \in Int
<1>1. Opening[a] \in Int BY DeskAssumption
<1> QED BY <1>1, NetType DEF Balance

(* There is a latest open session of a drawer that has one.                *)
LEMMA LatestOpen ==
  ASSUME TypeOK, NEW open \in SUBSET Requests, open # {}
  PROVE  \E s \in open : \A t \in open : session[t].openedAt <= session[s].openedAt
<1> DEFINE f == [t \in Requests |-> session[t].openedAt]
<1>1. f \in [Requests -> Int] BY RowFacts
<1>2. \A t \in Requests : f[t] = session[t].openedAt OBVIOUS
<1> HIDE DEF f
<1>3. PICK s \in open : \A t \in open : f[t] <= f[s] BY <1>1, Greatest, DeskAssumption
<1> QED BY <1>2, <1>3

(* ensureSufficientFunds() compares one of two sums.                       *)
LEMMA AvailableIs ==
  ASSUME TypeOK, NEW a \in Accounts, NEW amount \in Nat, NEW closing, NEW adjustment \in Int
  PROVE  /\ Available(a, amount, closing, adjustment) \in Int
         /\ Available(a, amount, closing, adjustment) >= amount =>
              \/ Balance(a) + adjustment >= amount
              \/ \E s \in OpenOn(a) \ {closing} :
                   session[s].opening + Net(a, session[s].openedAt, MaxClock, None) + adjustment >= amount
<1> DEFINE open == OpenOn(a) \ {closing}
           latest == CHOOSE s \in open : \A t \in open : session[t].openedAt <= session[s].openedAt
           count == session[latest].opening + Net(a, session[latest].openedAt, MaxClock, None) + adjustment
<1>1. Balance(a) + adjustment \in Int BY BalanceType
<1>2. Available(a, amount, closing, adjustment) =
        IF Balance(a) + adjustment >= amount \/ open = {} THEN Balance(a) + adjustment ELSE count
  BY DEF Available
<1>3. CASE Balance(a) + adjustment >= amount \/ open = {} BY <1>1, <1>2, <1>3
<1>4. CASE open # {}
  <2>1. open \in SUBSET Requests BY DEF OpenOn
  <2>2. latest \in open BY <1>4, <2>1, LatestOpen
  <2>3. session[latest].opening \in Nat BY <2>1, <2>2, RowFacts
  <2>4. Net(a, session[latest].openedAt, MaxClock, None) \in Int BY NetType
  <2>5. count \in Int BY <2>3, <2>4
  <2>6. count >= amount =>
          \E s \in open : session[s].opening + Net(a, session[s].openedAt, MaxClock, None) + adjustment >= amount
    BY <2>2
  <2> HIDE DEF count, latest
  <2> QED BY <1>1, <1>2, <2>5, <2>6
<1> QED BY <1>3, <1>4

---------------------------------------------------------------------------
(* Plans and calls.                                                        *)

(* A call names rows that exist.                                           *)
CallOK(o) ==
    /\ o.kind = "open" => /\ o.to \in Drawers /\ o.from \in Drawers \cup {None} /\ o.from # o.to
                          /\ o.user \in Users
    /\ o.kind = "transfer" => o.from \in Accounts /\ o.to \in Accounts /\ o.from # o.to
    /\ o.kind = "close" => /\ o.session \in Requests /\ session[o.session].status # "NONE"
                           /\ o.to \in Drawers \cup {None}

StepOK(o, step) ==
    /\ step.rows \subseteq Rows
    /\ "funds" \in step.look => o.kind = "close" \/ o.from \in Accounts
    /\ "session" \in step.look \/ "expected" \in step.look => o.kind = "close"

(* The orders in which a call takes its steps, one line per kind.          *)
LEMMA OpenSteps ==
  ASSUME NEW o, o.kind = "open"
  PROVE  /\ Funded(o) => /\ Len(Plan(o)) = 5
                         /\ Plan(o)[1] = Step({}, {"existing"})
                         /\ Plan(o)[2] = Step({AccountLock(Earlier(o.from, o.to))}, {})
                         /\ Plan(o)[3] = Step({AccountLock(Later(o.from, o.to))}, {"desks"})
                         /\ Plan(o)[4] = Step({}, {"funds", "postedAt"})
                         /\ Plan(o)[5] = Step({}, {"openedAt"})
         /\ ~Funded(o) => /\ Len(Plan(o)) = 2
                          /\ Plan(o)[1] = Step({}, {"existing"}) /\ Plan(o)[2] = Step({}, {"openedAt"})
<1>1. Plan(o) = OpenPlan(o) BY DEF Plan
<1>2. CASE Funded(o) BY <1>1, <1>2 DEF OpenPlan
<1>3. CASE ~Funded(o) BY <1>1, <1>3 DEF OpenPlan
<1> QED BY <1>2, <1>3

\* The steps of a transfer.
LEMMA TransferSteps ==
  ASSUME NEW o, o.kind = "transfer"
  PROVE  /\ Len(Plan(o)) = 2
         /\ Plan(o)[1] = Step({AccountLock(o.from)}, {"desks"})
         /\ Plan(o)[2] = Step({}, {"funds", "postedAt"})
BY DEF Plan, TransferPlan

\* The steps of a close, with and without a handover.
LEMMA CloseSteps ==
  ASSUME NEW o, o.kind = "close"
  PROVE  /\ Len(Plan(o)) = IF HandsOver(o) \/ o.user # None THEN 5 ELSE 3
         /\ Plan(o)[1] = Step({SessionLock(o.session)}, {"session"})
         /\ Plan(o)[2] = Step({}, {"expected", "adjustedAt"})
         /\ Plan(o)[3] = Step({}, {"closedAt"})
         /\ Len(Plan(o)) = 5 => /\ Plan(o)[4] = Step({}, {"funds", "postedAt"})
                                /\ Plan(o)[5] = Step({}, {"existing", "openedAt"})
<1>1. Plan(o) = ClosePlan(o) BY DEF Plan
<1>2. CASE HandsOver(o) \/ o.user # None BY <1>1, <1>2 DEF ClosePlan
<1>3. CASE ~(HandsOver(o) \/ o.user # None) BY <1>1, <1>3 DEF ClosePlan
<1> QED BY <1>2, <1>3

(* Every plan has a step at least, and its steps ask for rows that exist.  *)
LEMMA PlanLength ==
  ASSUME NEW o, o.kind \in Kinds PROVE Len(Plan(o)) \in 2..5
<1>1. CASE o.kind = "open"
  <2>1. Len(Plan(o)) = 5 \/ Len(Plan(o)) = 2 BY <1>1, OpenSteps
  <2> QED BY <2>1
<1>2. CASE o.kind = "transfer"
  <2>1. Len(Plan(o)) = 2 BY <1>2, TransferSteps
  <2> QED BY <2>1
<1>3. CASE o.kind = "close"
  <2>1. Len(Plan(o)) = 5 \/ Len(Plan(o)) = 3 BY <1>3, CloseSteps
  <2> QED BY <2>1
<1> QED BY <1>1, <1>2, <1>3 DEF Kinds

\* Every step of a plan locks rows and looks at things that exist.
LEMMA PlanStepsOK ==
  ASSUME NEW o, o.kind \in Kinds, CallOK(o), NEW i \in 1..Len(Plan(o))
  PROVE  StepOK(o, Plan(o)[i])
<1> USE DEF Step, StepOK, Rows, AccountLock, SessionLock, Accounts
<1>1. CASE o.kind = "open"
  <2>1. CASE Funded(o)
    <3>1. o.from \in Accounts /\ o.to \in Accounts BY <1>1, <2>1 DEF Funded, CallOK
    <3>2. Earlier(o.from, o.to) \in Accounts /\ Later(o.from, o.to) \in Accounts
      BY <3>1 DEF Earlier, Later
    <3>3. Len(Plan(o)) = 5 BY <1>1, <2>1, OpenSteps
    <3>4. i \in {1, 2, 3, 4, 5} BY <3>3
    <3>5. Plan(o)[i] \in
            {Step({}, {"existing"}), Step({AccountLock(Earlier(o.from, o.to))}, {}),
             Step({AccountLock(Later(o.from, o.to))}, {"desks"}), Step({}, {"funds", "postedAt"}),
             Step({}, {"openedAt"})}
      BY <1>1, <2>1, <3>4, OpenSteps
    <3> QED BY <3>1, <3>2, <3>5
  <2>2. CASE ~Funded(o)
    <3>1. Len(Plan(o)) = 2 BY <1>1, <2>2, OpenSteps
    <3>2. i \in {1, 2} BY <3>1
    <3>3. Plan(o)[i] \in {Step({}, {"existing"}), Step({}, {"openedAt"})} BY <1>1, <2>2, <3>2, OpenSteps
    <3> QED BY <3>3
  <2> QED BY <2>1, <2>2
<1>2. CASE o.kind = "transfer"
  <2>1. Len(Plan(o)) = 2 BY <1>2, TransferSteps
  <2>2. i \in {1, 2} BY <2>1
  <2>3. Plan(o)[i] \in {Step({AccountLock(o.from)}, {"desks"}), Step({}, {"funds", "postedAt"})}
    BY <1>2, <2>2, TransferSteps
  <2>4. o.from \in Accounts BY <1>2 DEF CallOK
  <2> QED BY <2>3, <2>4
<1>3. CASE o.kind = "close"
  <2>1. Len(Plan(o)) = 5 \/ Len(Plan(o)) = 3 BY <1>3, CloseSteps
  <2>2. i \in {1, 2, 3} \/ (Len(Plan(o)) = 5 /\ i \in {4, 5})
    <3>1. CASE Len(Plan(o)) = 5 BY <3>1
    <3>2. CASE Len(Plan(o)) = 3 BY <3>2
    <3> QED BY <2>1, <3>1, <3>2
  <2>3. Plan(o)[i] \in {Step({SessionLock(o.session)}, {"session"}), Step({}, {"expected", "adjustedAt"}),
                        Step({}, {"closedAt"}), Step({}, {"funds", "postedAt"}),
                        Step({}, {"existing", "openedAt"})}
    <3>1. CASE i \in {1, 2, 3} BY <1>3, <3>1, CloseSteps
    <3>2. CASE Len(Plan(o)) = 5 /\ i \in {4, 5} BY <1>3, <3>2, CloseSteps
    <3> QED BY <2>2, <3>1, <3>2
  <2>4. o.session \in Requests BY <1>3 DEF CallOK
  <2> QED BY <1>3, <2>3, <2>4
<1> QED BY <1>1, <1>2, <1>3 DEF Kinds

(* What a step reads has the type of the view.                             *)
LEMMA LookType ==
  ASSUME TypeOK, NEW o \in Operation, CallOK(o), o.kind \in Kinds, NEW v \in View, NEW step,
         StepOK(o, step), NEW t \in Nat
  PROVE  Look(o, v, step.look, t) \in View
<1> DEFINE w == Look(o, v, step.look, t)
<1>1. \A a : OpenOn(a) \in SUBSET Requests BY DEF OpenOn
<1>2. w.existing \in SUBSET Requests BY <1>1 DEF Look, View
<1>3. w.desks \in SUBSET Drawers BY DEF Look, View
<1>4. o.amount \in Nat BY DEF Operation
<1>5. w.funds \in Int
  <2>1. CASE "funds" \notin step.look BY <2>1 DEF Look, View
  <2>2. CASE "funds" \in step.look /\ o.kind = "close"
    <3>1. session[o.session].drawer \in Accounts BY <2>2, RowFacts DEF CallOK, Accounts
    <3>2. Adjustment(o, v) \in Int BY <1>4 DEF Adjustment, View
    <3>3. Available(session[o.session].drawer, o.amount, o.session, Adjustment(o, v)) \in Int
      BY <1>4, <3>1, <3>2, AvailableIs
    <3> QED BY <2>2, <3>3 DEF Look
  <2>3. CASE "funds" \in step.look /\ o.kind # "close"
    <3>1. o.from \in Accounts BY <2>3 DEF StepOK
    <3>2. Available(o.from, o.amount, None, 0) \in Int BY <1>4, <3>1, AvailableIs
    <3> QED BY <2>3, <3>2 DEF Look
  <2> QED BY <2>1, <2>2, <2>3
<1>6. w.session \in CashSession \cup {NoSession}
  <2>1. CASE "session" \in step.look
    <3>1. o.session \in Requests BY <2>1 DEF StepOK, CallOK
    <3> QED BY <2>1, <3>1 DEF Look, TypeOK
  <2>2. CASE "session" \notin step.look BY <2>2 DEF Look, View
  <2> QED BY <2>1, <2>2
<1>7. w.expected \in Int
  <2>1. CASE "expected" \in step.look
    <3>1. o.session \in Requests BY <2>1 DEF StepOK, CallOK
    <3>2. session[o.session].opening \in Nat BY <3>1, RowFacts
    <3>3. ExpectedClosing(o.session) \in Int BY <3>2, NetType DEF ExpectedClosing
    <3> QED BY <2>1, <3>3 DEF Look
  <2>2. CASE "expected" \notin step.look BY <2>2 DEF Look, View
  <2> QED BY <2>1, <2>2
<1>8. w.adjustedAt \in Nat /\ w.closedAt \in Nat /\ w.postedAt \in Nat /\ w.openedAt \in Nat
  BY DEF Look, View
<1>9. w = [existing |-> w.existing, desks |-> w.desks, funds |-> w.funds, session |-> w.session,
           expected |-> w.expected, adjustedAt |-> w.adjustedAt, closedAt |-> w.closedAt,
           postedAt |-> w.postedAt, openedAt |-> w.openedAt]
  BY DEF Look
<1> HIDE DEF w
<1> QED BY <1>2, <1>3, <1>5, <1>6, <1>7, <1>8, <1>9 DEF View, w

---------------------------------------------------------------------------
(* The shape of the state.                                                 *)

(* Only a request that is done has left rows behind, and a running one is  *)
(* somewhere in the plan of a call on rows that exist.                     *)
Shape ==
    /\ TypeOK
    /\ \A r \in Requests :
         /\ session[r].status # "NONE" \/ move[r] # NoTransfer => op[r].kind = "done"
         /\ Running(r) => CallOK(op[r]) /\ stage[r] \in 1..(Len(Plan(op[r])) + 1)

Commit(r) == Open(r) \/ Move(r) \/ Close(r)

\* What is known of a call that runs.
LEMMA CallFacts ==
  ASSUME Shape, NEW r \in Requests, Running(r)
  PROVE  /\ op[r] \in Operation /\ op[r].kind \in Kinds /\ view[r] \in View /\ CallOK(op[r])
         /\ stage[r] \in 1..(Len(Plan(op[r])) + 1) /\ Len(Plan(op[r])) \in 2..5
         /\ AtEnd(r) => stage[r] = Len(Plan(op[r])) + 1 /\ stage[r] > 1
         /\ session[r].status = "NONE" /\ session[r] = NoSession /\ move[r] = NoTransfer
<1>1. op[r] \in Operation /\ op[r].kind \in Kinds /\ view[r] \in View /\ CallOK(op[r])
      /\ stage[r] \in 1..(Len(Plan(op[r])) + 1)
  BY DEF Shape, TypeOK, Running
<1>2. Len(Plan(op[r])) \in 2..5 BY <1>1, PlanLength
<1>3. AtEnd(r) => stage[r] = Len(Plan(op[r])) + 1 /\ stage[r] > 1
  <2>1. PICK n \in 2..5 : Len(Plan(op[r])) = n BY <1>2
  <2>2. stage[r] \in 1..(n + 1) BY <1>1, <2>1
  <2>3. AtEnd(r) => stage[r] > n BY <2>1 DEF AtEnd
  <2> QED BY <2>1, <2>2, <2>3
<1>4. session[r].status = "NONE" /\ move[r] = NoTransfer BY <1>1 DEF Shape, Kinds
<1>5. session[r] = NoSession
  <2>1. session[r] \in CashSession \cup {NoSession} BY DEF Shape, TypeOK
  <2> QED BY <1>4, <2>1 DEF CashSession
<1> QED BY <1>1, <1>2, <1>3, <1>4, <1>5

(* The end of a transaction, seen from every session.                      *)
LEMMA FinishFacts ==
  ASSUME Shape, NEW r \in Requests, NEW o \in {Idle, Done}, Finish(r, o)
  PROVE  /\ op' \in [Requests -> Operation] /\ stage' \in [Requests -> Nat]
         /\ view' \in [Requests -> View] /\ LocksTypeOK(Rows)'
         /\ op'[r] = o /\ ~Running(r)' /\ clock' = clock /\ workload' = workload
         /\ \A s \in Requests \ {r} : op'[s] = op[s] /\ view'[s] = view[s] /\ stage'[s] = stage[s]
<1>1. o \in Operation /\ o.kind \notin Kinds
  <2>1. CASE o = Idle
    <3>1. o = [kind |-> "idle", session |-> None, from |-> None, to |-> None,
               amount |-> 0, user |-> None, approve |-> FALSE]
      BY <2>1 DEF Idle, Call
    <3> QED BY <3>1 DEF Operation, Kinds
  <2>2. CASE o = Done
    <3>1. o = [kind |-> "done", session |-> None, from |-> None, to |-> None,
               amount |-> 0, user |-> None, approve |-> FALSE]
      BY <2>2 DEF Done, Call
    <3> QED BY <3>1 DEF Operation, Kinds
  <2> QED BY <2>1, <2>2
<1>2. NoView \in View BY DEF NoView, View
<1>3. op' \in [Requests -> Operation] /\ stage' \in [Requests -> Nat] /\ view' \in [Requests -> View]
  BY <1>1, <1>2 DEF Finish, Shape, TypeOK
<1>4. LocksTypeOK(Rows)' BY DEF Finish, ReleaseAll, Shape, TypeOK, LocksTypeOK, Rows
<1>5. op'[r] = o /\ \A s \in Requests \ {r} : op'[s] = op[s] /\ view'[s] = view[s] /\ stage'[s] = stage[s]
  BY DEF Finish, Shape, TypeOK
<1> QED BY <1>1, <1>3, <1>4, <1>5 DEF Finish, Running

(* One step of a plan.                                                     *)
LEMMA AdvanceFacts ==
  ASSUME Shape, NEW r \in Requests, Advance(r)
  PROVE  /\ Running(r) /\ ~AtEnd(r) /\ ~Refused(r) /\ stage[r] \in 1..Len(Plan(op[r]))
         /\ UNCHANGED <<session, move, op, workload>>
         /\ stage'[r] = stage[r] + 1 /\ stage' \in [Requests -> Nat] /\ view' \in [Requests -> View]
         /\ clock' \in Now(Plan(op[r])[stage[r]].look) /\ clock' \in Nat /\ clock <= clock'
         /\ clock' <= MaxClock /\ (Plan(op[r])[stage[r]].look \cap Dates # {} /\ ~Simultaneous => clock < clock')
         /\ view'[r] = Look(op[r], view[r], Plan(op[r])[stage[r]].look, clock')
         /\ \A s \in Requests \ {r} : stage'[s] = stage[s] /\ view'[s] = view[s]
         /\ LocksTypeOK(Rows)'
<1> DEFINE o == op[r]
           step == Plan(o)[stage[r]]
<1>1. Running(r) /\ ~AtEnd(r) /\ ~Refused(r) /\ UNCHANGED <<session, move, op, workload>> BY DEF Advance
<1>2. o \in Operation /\ o.kind \in Kinds /\ view[r] \in View /\ CallOK(o)
      /\ stage[r] \in 1..(Len(Plan(o)) + 1) /\ Len(Plan(o)) \in 2..5
  BY <1>1, CallFacts
<1>3. stage[r] \in 1..Len(Plan(o)) BY <1>1, <1>2 DEF AtEnd
<1>4. StepOK(o, step) BY <1>2, <1>3, PlanStepsOK
<1>5. stage' \in [Requests -> Nat] /\ stage'[r] = stage[r] + 1
      /\ \A s \in Requests \ {r} : stage'[s] = stage[s]
  BY DEF Advance, Shape, TypeOK
<1>6. /\ clock' \in Now(step.look) /\ view' = [view EXCEPT ![r] = Look(o, view[r], step.look, clock')]
  BY DEF Advance
<1>7. clock \in 0..MaxClock /\ workload.until \in 0..MaxClock /\ MaxClock \in Nat
  BY DeskAssumption DEF Shape, TypeOK
<1>8. clock' \in Nat /\ clock <= clock' /\ clock' <= MaxClock
      /\ (step.look \cap Dates # {} /\ ~Simultaneous => clock < clock')
  <2> HIDE DEF step
  <2>1. CASE step.look \cap Dates = {}
    <3>1. clock' = clock BY <1>6, <2>1 DEF Now
    <3> QED BY <1>7, <2>1, <3>1
  <2>2. CASE step.look \cap Dates # {}
    <3>1. clock' \in clock..(clock + 1) /\ clock' <= workload.until /\ (clock' = clock => Simultaneous)
      BY <1>6, <2>2 DEF Now
    <3> QED BY <1>7, <3>1
  <2> QED BY <2>1, <2>2
<1>9. Look(o, view[r], step.look, clock') \in View
  <2>1. TypeOK BY DEF Shape
  <2> HIDE DEF step, o
  <2> QED BY <1>2, <1>4, <1>8, <2>1, LookType
<1>10. view' \in [Requests -> View] /\ view'[r] = Look(o, view[r], step.look, clock')
       /\ \A s \in Requests \ {r} : view'[s] = view[s]
  BY <1>6, <1>9 DEF Shape, TypeOK
<1>11. LocksTypeOK(Rows)' BY DEF Advance, Acquire, Shape, TypeOK, LocksTypeOK, Rows
<1> QED BY <1>1, <1>3, <1>5, <1>6, <1>8, <1>10, <1>11

---------------------------------------------------------------------------
(* What each operation writes.                                             *)

\* What every commit has in common.
LEMMA CommitEnds ==
  ASSUME NEW r \in Requests, Commit(r)
  PROVE  Running(r) /\ AtEnd(r) /\ Checks(op[r], view[r]) /\ Finish(r, Done)
BY DEF Commit, Open, Move, Close, Commits, Running, Kinds

\* A session as it is opened.
LEMMA NewSessionIs ==
  ASSUME NEW d, NEW u, NEW t, NEW n
  PROVE  LET x == NewSession(d, u, t, n)
         IN  /\ x.status = "OPEN" /\ x.drawer = d /\ x.operator = u /\ x.openedAt = t /\ x.opening = n
             /\ x.closedAt = 0 /\ x.expected = 0 /\ x.actual = 0 /\ x.adjustedAt = 0 /\ x.adjustment = 0
<1> DEFINE x == NewSession(d, u, t, n)
<1>1. x.status = "OPEN" /\ x.drawer = d /\ x.operator = u /\ x.openedAt = t /\ x.opening = n
  BY DEF NewSession, NoSession
<1>2. x.closedAt = 0 /\ x.expected = 0 /\ x.actual = 0 /\ x.adjustedAt = 0 /\ x.adjustment = 0
  BY DEF NewSession, NoSession
<1> QED BY <1>1, <1>2

\* It has the type of a session.
LEMMA NewSessionType ==
  ASSUME NEW d \in Drawers, NEW u \in Users, NEW t \in Nat, NEW n \in Nat
  PROVE  NewSession(d, u, t, n) \in CashSession
<1> DEFINE x == NewSession(d, u, t, n)
<1>1. DOMAIN x = {"status", "drawer", "operator", "openedAt", "opening", "closedAt", "expected",
                  "actual", "adjustedAt", "adjustment"}
  BY DEF NewSession, NoSession
<1>2. x.status = "OPEN" /\ x.drawer = d /\ x.operator = u /\ x.openedAt = t /\ x.opening = n
  BY NewSessionIs
<1>3. x.closedAt = 0 /\ x.expected = 0 /\ x.actual = 0 /\ x.adjustedAt = 0 /\ x.adjustment = 0
  BY NewSessionIs
<1>4. x = [i \in DOMAIN x |-> x[i]] BY DEF NewSession, NoSession
<1> HIDE DEF x
<1>5. x \in CashSession BY <1>1, <1>2, <1>3, <1>4 DEF CashSession
<1> QED BY <1>5 DEF x

(* open() creates a session, and posts its funding.                        *)
LEMMA OpenFacts ==
  ASSUME Shape, NEW r \in Requests, Open(r)
  PROVE  /\ op[r].kind = "open" /\ Free(view[r])
         /\ session'[r] = NewSession(op[r].to, op[r].user, view[r].openedAt, op[r].amount)
         /\ \A s \in Requests \ {r} : session'[s] = session[s] /\ move'[s] = move[s]
         /\ Funded(op[r]) => /\ move'[r].from = op[r].from /\ move'[r].to = op[r].to
                             /\ move'[r].amount = op[r].amount /\ move'[r].date = view[r].postedAt
                             /\ op[r].from \in Drawers /\ view[r].funds >= op[r].amount
         /\ ~Funded(op[r]) => move'[r] = move[r]
         /\ session' \in [Requests -> CashSession \cup {NoSession}]
         /\ move' \in [Requests -> Transfer \cup {NoTransfer}]
<1> DEFINE o == op[r]
           v == view[r]
           m == [from |-> o.from, to |-> o.to, amount |-> o.amount, date |-> v.postedAt]
<1>1. o.kind = "open" /\ Checks(o, v) /\ OpenEffect(r, o, v) /\ Running(r)
  BY CommitEnds DEF Open, Commits, Commit
<1>2. o \in Operation /\ v \in View /\ CallOK(o) BY <1>1, CallFacts
<1>3. Free(v) /\ (Funded(o) => v.funds >= o.amount) BY <1>1 DEF Checks, OpenChecks
<1>4. o.to \in Drawers /\ o.user \in Users /\ o.amount \in Nat /\ v.openedAt \in Nat /\ v.postedAt \in Nat
      /\ o.from \in Drawers \cup {None}
  BY <1>1, <1>2 DEF CallOK, Operation, View
<1>5. session \in [Requests -> CashSession \cup {NoSession}] /\ move \in [Requests -> Transfer \cup {NoTransfer}]
  BY DEF Shape, TypeOK
<1>6. NewSession(o.to, o.user, v.openedAt, o.amount) \in CashSession BY <1>4, NewSessionType
<1>7. session' = [session EXCEPT ![r] = NewSession(o.to, o.user, v.openedAt, o.amount)]
      /\ move' = IF Funded(o) THEN [move EXCEPT ![r] = m] ELSE move
  BY <1>1 DEF OpenEffect
<1>8. Funded(o) => m \in Transfer /\ o.from \in Drawers BY <1>4 DEF Funded, Transfer, Accounts
<1> HIDE DEF m
<1>9. session'[r] = NewSession(o.to, o.user, v.openedAt, o.amount)
      /\ (\A s \in Requests \ {r} : session'[s] = session[s])
      /\ session' \in [Requests -> CashSession \cup {NoSession}]
  BY <1>5, <1>6, <1>7
<1>10. CASE Funded(o)
  <2>1. move' = [move EXCEPT ![r] = m] /\ m \in Transfer BY <1>7, <1>8, <1>10
  <2>2. move'[r] = m /\ (\A s \in Requests \ {r} : move'[s] = move[s])
        /\ move' \in [Requests -> Transfer \cup {NoTransfer}]
    BY <1>5, <2>1
  <2> QED BY <1>1, <1>3, <1>8, <1>9, <1>10, <2>2 DEF m
<1>11. CASE ~Funded(o) BY <1>1, <1>3, <1>5, <1>7, <1>9, <1>11
<1> QED BY <1>10, <1>11

(* createInternalTransfer() posts a transfer.                              *)
LEMMA MoveFacts ==
  ASSUME Shape, NEW r \in Requests, Move(r)
  PROVE  /\ op[r].kind = "transfer" /\ session' = session
         /\ move'[r].from = op[r].from /\ move'[r].to = op[r].to
         /\ move'[r].amount = op[r].amount /\ move'[r].date = view[r].postedAt
         /\ \A s \in Requests \ {r} : move'[s] = move[s]
         /\ op[r].from \in Accounts /\ op[r].to \in Accounts /\ view[r].funds >= op[r].amount
         /\ move' \in [Requests -> Transfer \cup {NoTransfer}]
<1> DEFINE o == op[r]
           v == view[r]
           m == [from |-> o.from, to |-> o.to, amount |-> o.amount, date |-> v.postedAt]
<1>1. o.kind = "transfer" /\ Checks(o, v) /\ TransferEffect(r, o, v) /\ Running(r)
  BY CommitEnds DEF Move, Commits, Commit
<1>2. o \in Operation /\ v \in View /\ CallOK(o) BY <1>1, CallFacts
<1>3. o.from \in Accounts /\ o.to \in Accounts /\ o.amount \in Nat /\ v.postedAt \in Nat
  BY <1>1, <1>2 DEF CallOK, Operation, View
<1>4. m \in Transfer BY <1>3 DEF Transfer
<1>5. move' = [move EXCEPT ![r] = m] /\ session' = session BY <1>1 DEF TransferEffect
<1>6. v.funds >= o.amount BY <1>1 DEF Checks, TransferChecks
<1>7. move \in [Requests -> Transfer \cup {NoTransfer}] BY DEF Shape, TypeOK
<1> HIDE DEF m
<1>8. move'[r] = m /\ (\A s \in Requests \ {r} : move'[s] = move[s])
      /\ move' \in [Requests -> Transfer \cup {NoTransfer}]
  BY <1>4, <1>5, <1>7
<1> QED BY <1>1, <1>3, <1>5, <1>6, <1>8 DEF m

(* close() closes the session it was called on, hands the cash over and    *)
(* opens the next one.                                                     *)
LEMMA CloseFacts ==
  ASSUME Shape, NEW r \in Requests, Close(r), NEW c, c = op[r].session
  PROVE  /\ op[r].kind = "close" /\ c \in Requests /\ c # r /\ session[c].status # "NONE"
         /\ view[r].session.status = "OPEN"
         /\ session'[c].status = "CLOSED" /\ session'[c].drawer = session[c].drawer
         /\ session'[c].operator = session[c].operator /\ session'[c].openedAt = session[c].openedAt
         /\ session'[c].opening = session[c].opening /\ session'[c].closedAt = view[r].closedAt
         /\ session'[c].actual = op[r].amount /\ session'[c].adjustedAt = view[r].adjustedAt
         /\ session'[c].adjustment = Adjustment(op[r], view[r])
         /\ session'[c] \in CashSession /\ Adjustment(op[r], view[r]) \in Int
         /\ session'[r] = IF op[r].user # None /\ Free(view[r])
                          THEN NewSession(Destination(op[r]), op[r].user, view[r].openedAt, op[r].amount)
                          ELSE NoSession
         /\ Destination(op[r]) \in Drawers /\ session[c].drawer \in Drawers
         /\ \A s \in Requests : s # r /\ s # c => session'[s] = session[s]
         /\ \A s \in Requests \ {r} : move'[s] = move[s]
         /\ HandsOver(op[r]) => /\ move'[r].from = session[c].drawer /\ move'[r].to = op[r].to
                                /\ move'[r].amount = op[r].amount /\ move'[r].date = view[r].postedAt
                                /\ op[r].to \in Drawers /\ op[r].to # session[c].drawer
                                /\ view[r].funds >= op[r].amount
         /\ ~HandsOver(op[r]) => move'[r] = move[r]
         /\ session' \in [Requests -> CashSession \cup {NoSession}]
         /\ move' \in [Requests -> Transfer \cup {NoTransfer}]
<1> DEFINE o == op[r]
           v == view[r]
           m == [from |-> session[o.session].drawer, to |-> o.to, amount |-> o.amount, date |-> v.postedAt]
           closed == [session[o.session] EXCEPT
                !.status = "CLOSED", !.closedAt = v.closedAt, !.expected = v.expected,
                !.actual = o.amount, !.adjustedAt = v.adjustedAt, !.adjustment = Adjustment(o, v)]
           next == IF o.user # None /\ Free(v) THEN NewSession(Destination(o), o.user, v.openedAt, o.amount)
                   ELSE NoSession
<1>1. o.kind = "close" /\ Checks(o, v) /\ CloseEffect(r, o, v) /\ Running(r)
  BY CommitEnds DEF Close, Commits, Commit
<1>2. o \in Operation /\ v \in View /\ CallOK(o) /\ session[r].status = "NONE" BY <1>1, CallFacts
<1>3. c \in Requests /\ session[c].status # "NONE" /\ o.to \in Drawers \cup {None} BY <1>1, <1>2 DEF CallOK
<1>4. c # r BY <1>2, <1>3
<1>5. o.amount \in Nat /\ o.user \in Users \cup {None} /\ v.openedAt \in Nat /\ v.postedAt \in Nat
      /\ v.closedAt \in Nat /\ v.adjustedAt \in Nat /\ v.expected \in Int
  BY <1>2 DEF Operation, View
<1>6. session[c] \in CashSession /\ session[c].drawer \in Drawers BY <1>3, RowFacts DEF Shape
<1>7. Adjustment(o, v) \in Int BY <1>5 DEF Adjustment
<1>8. closed \in CashSession BY <1>5, <1>6, <1>7 DEF CashSession
<1>9. Destination(o) \in Drawers BY <1>3, <1>6 DEF Destination
<1>10. next \in CashSession \cup {NoSession}
  <2>1. CASE o.user # None /\ Free(v)
    <3>1. o.user \in Users BY <1>5, <2>1
    <3> QED BY <1>5, <1>9, <2>1, <3>1, NewSessionType
  <2>2. CASE ~(o.user # None /\ Free(v)) BY <2>2
  <2> QED BY <2>1, <2>2
<1>11. session' = [session EXCEPT ![o.session] = closed, ![r] = next]
       /\ move' = IF HandsOver(o) THEN [move EXCEPT ![r] = m] ELSE move
  BY <1>1 DEF CloseEffect
<1>12. HandsOver(o) => m \in Transfer /\ o.to \in Drawers /\ o.to # session[c].drawer
  BY <1>3, <1>5, <1>6 DEF HandsOver, Transfer, Accounts
<1>13. v.session.status = "OPEN" /\ (HandsOver(o) => v.funds >= o.amount)
  BY <1>1 DEF Checks, CloseChecks
<1>14. session \in [Requests -> CashSession \cup {NoSession}] /\ move \in [Requests -> Transfer \cup {NoTransfer}]
  BY DEF Shape, TypeOK
<1>0. /\ closed.status = "CLOSED" /\ closed.drawer = session[c].drawer
      /\ closed.operator = session[c].operator /\ closed.openedAt = session[c].openedAt
      /\ closed.opening = session[c].opening /\ closed.closedAt = v.closedAt
      /\ closed.actual = o.amount /\ closed.adjustedAt = v.adjustedAt /\ closed.adjustment = Adjustment(o, v)
  BY <1>6 DEF CashSession
<1> HIDE DEF m, closed, next
<1>15. session'[c] = closed /\ session'[r] = next /\ (\A s \in Requests : s # r /\ s # c => session'[s] = session[s])
       /\ session' \in [Requests -> CashSession \cup {NoSession}]
  BY <1>3, <1>4, <1>8, <1>10, <1>11, <1>14
<1>16. /\ HandsOver(o) => move'[r] = m
       /\ ~HandsOver(o) => move'[r] = move[r]
       /\ \A s \in Requests \ {r} : move'[s] = move[s]
       /\ move' \in [Requests -> Transfer \cup {NoTransfer}]
  <2>1. CASE HandsOver(o)
    <3>1. move' = [move EXCEPT ![r] = m] /\ m \in Transfer BY <1>11, <1>12, <2>1
    <3> QED BY <1>14, <2>1, <3>1
  <2>2. CASE ~HandsOver(o) BY <1>11, <1>14, <2>2
  <2> QED BY <2>1, <2>2
<1> QED BY <1>0, <1>1, <1>3, <1>4, <1>6, <1>7, <1>8, <1>9, <1>12, <1>13, <1>15, <1>16 DEF m, next

(* Sessions stay in their drawers, so a running call keeps its plan.       *)
SessionsStay ==
    \A s \in Requests : session[s].status # "NONE" =>
        /\ session'[s].status # "NONE" /\ session'[s].drawer = session[s].drawer
        /\ session'[s].operator = session[s].operator /\ session'[s].openedAt = session[s].openedAt
        /\ session'[s].opening = session[s].opening

\* The plan of a call depends on what never changes of a session.
LEMMA PlanStays ==
  ASSUME NEW s \in Requests, SessionsStay, op'[s] = op[s], CallOK(op[s]), op[s].kind \in Kinds
  PROVE  /\ CallOK(op[s])' /\ Plan(op[s])' = Plan(op[s])
         /\ Funded(op[s])' = Funded(op[s]) /\ HandsOver(op[s])' = HandsOver(op[s])
<1>1. CallOK(op[s])' BY DEF CallOK, SessionsStay
<1>2. Funded(op[s])' = Funded(op[s]) BY DEF Funded
<1>3. HandsOver(op[s])' = HandsOver(op[s]) BY DEF HandsOver, CallOK, SessionsStay
<1>4. CASE op[s].kind = "open"
  <2>1. OpenPlan(op[s])' = OpenPlan(op[s]) BY <1>2 DEF OpenPlan
  <2>2. Plan(op[s])' = OpenPlan(op[s])' /\ Plan(op[s]) = OpenPlan(op[s]) BY <1>4 DEF Plan
  <2> QED BY <1>1, <1>2, <1>3, <2>1, <2>2
<1>5. CASE op[s].kind = "transfer"
  <2>1. TransferPlan(op[s])' = TransferPlan(op[s]) BY DEF TransferPlan
  <2>2. Plan(op[s])' = TransferPlan(op[s])' /\ Plan(op[s]) = TransferPlan(op[s]) BY <1>5 DEF Plan
  <2> QED BY <1>1, <1>2, <1>3, <2>1, <2>2
<1>6. CASE op[s].kind = "close"
  <2>1. ClosePlan(op[s])' = ClosePlan(op[s]) BY <1>3 DEF ClosePlan
  <2>2. Plan(op[s])' = ClosePlan(op[s])' /\ Plan(op[s]) = ClosePlan(op[s]) BY <1>6 DEF Plan
  <2> QED BY <1>1, <1>2, <1>3, <2>1, <2>2
<1> QED BY <1>4, <1>5, <1>6 DEF Kinds

(* A commit adds rows for its request and changes no more than the status, *)
(* the count and the rounding of the session it closes.                    *)
LEMMA CommitFacts ==
  ASSUME Shape, NEW r \in Requests, Commit(r)
  PROVE  /\ SessionsStay
         /\ \A s \in Requests \ {r} : move'[s] = move[s]
                                      /\ (session[s].status = "NONE" => session'[s] = session[s])
         /\ session' \in [Requests -> CashSession \cup {NoSession}]
         /\ move' \in [Requests -> Transfer \cup {NoTransfer}]
<1>0. session[r].status = "NONE" BY CommitEnds, CallFacts
<1>1. CASE Open(r) BY <1>0, <1>1, OpenFacts DEF SessionsStay
<1>2. CASE Move(r) BY <1>2, MoveFacts DEF SessionsStay, Shape, TypeOK
<1>3. CASE Close(r)
  <2>1. PICK c : c = op[r].session OBVIOUS
  <2>2. c \in Requests /\ c # r /\ session[c].status # "NONE" BY <1>3, <2>1, CloseFacts
  <2>5. /\ session'[c].status = "CLOSED" /\ session'[c].drawer = session[c].drawer
        /\ session'[c].operator = session[c].operator /\ session'[c].openedAt = session[c].openedAt
        /\ session'[c].opening = session[c].opening
    BY <1>3, <2>1, CloseFacts
  <2>6. \A s \in Requests : s # r /\ s # c => session'[s] = session[s] BY <1>3, <2>1, CloseFacts
  <2>7. SessionsStay BY <1>0, <2>5, <2>6 DEF SessionsStay
  <2>8. \A s \in Requests \ {r} : session[s].status = "NONE" => session'[s] = session[s] BY <2>2, <2>6
  <2> QED BY <1>3, <2>1, <2>7, <2>8, CloseFacts
<1> QED BY <1>1, <1>2, <1>3 DEF Commit

\* Calls, views and rows have their shape at first ...
LEMMA ShapeInit == Init => Shape
<1> SUFFICES ASSUME Init PROVE Shape OBVIOUS
<1> USE DEF Init
<1>1. Idle \in Operation /\ Idle.kind \notin Kinds
  <2>1. Idle = [kind |-> "idle", session |-> None, from |-> None, to |-> None,
                amount |-> 0, user |-> None, approve |-> FALSE]
    BY DEF Idle, Call
  <2> QED BY <2>1 DEF Operation, Kinds
<1>2. NoView \in View BY DEF NoView, View
<1>3. clock \in 0..MaxClock BY DeskAssumption
<1>4. LocksTypeOK(Rows) BY DEF LocksInit, LocksTypeOK
<1>5. TypeOK BY <1>1, <1>2, <1>3, <1>4 DEF TypeOK
<1>6. \A r \in Requests : session[r].status = "NONE" /\ move[r] = NoTransfer /\ ~Running(r)
  BY <1>1 DEF NoSession, Running
<1> QED BY <1>5, <1>6 DEF Shape

\* ... when a call begins ...
LEMMA ShapeBegin == ASSUME Shape, NEW r \in Requests, Begin(r) PROVE Shape'
<1>1. PICK o \in Calls : op' = [op EXCEPT ![r] = o] BY DEF Begin
<1>2. op[r] = Idle /\ stage' = [stage EXCEPT ![r] = 1]
      /\ UNCHANGED <<session, move, clock, view, workload, holder>>
  BY DEF Begin
<1>3. workload.users \subseteq Users /\ workload.counts \subseteq Nat /\ workload.amounts \subseteq Nat
  BY DeskAssumption DEF Shape, TypeOK
<1>4. o \in Operation /\ o.kind \in Kinds /\ CallOK(o)
  <2>1. CASE o.kind = "open"
    <3>1. o \in [kind : {"open"}, session : {None}, from : Drawers \cup {None}, to : Drawers,
                 amount : workload.counts, user : workload.users, approve : {FALSE}] /\ o.from # o.to
      BY <2>1 DEF Calls
    <3> QED BY <1>3, <3>1 DEF Operation, Kinds, CallOK, Accounts
  <2>2. CASE o.kind = "transfer"
    <3>1. o \in [kind : {"transfer"}, session : {None}, from : Accounts, to : Accounts,
                 amount : workload.amounts, user : {None}, approve : {FALSE}] /\ o.from # o.to
      BY <2>2 DEF Calls
    <3> QED BY <1>3, <3>1 DEF Operation, Kinds, CallOK
  <2>3. CASE o.kind \notin {"open", "transfer"}
    <3>1. o \in [kind : {"close"}, session : {t \in Requests : session[t].status # "NONE"},
                 from : {None}, to : Drawers \cup {None}, amount : workload.counts,
                 user : workload.users \cup {None}, approve : BOOLEAN]
      BY <2>3 DEF Calls
    <3> QED BY <1>3, <3>1 DEF Operation, Kinds, CallOK, Accounts
  <2> QED BY <2>1, <2>2, <2>3
<1>5. op' \in [Requests -> Operation] /\ op'[r] = o /\ stage'[r] = 1 /\ stage' \in [Requests -> Nat]
      /\ \A s \in Requests \ {r} : op'[s] = op[s] /\ stage'[s] = stage[s]
  BY <1>1, <1>2, <1>4 DEF Shape, TypeOK
<1>6. TypeOK' BY <1>2, <1>5 DEF Shape, TypeOK, LocksTypeOK
<1>7. session[r].status = "NONE" /\ move[r] = NoTransfer BY <1>2 DEF Shape, Idle, Call
<1>8. SessionsStay BY <1>2 DEF SessionsStay
<1>9. ASSUME NEW s \in Requests, Running(s)' PROVE CallOK(op[s])' /\ stage'[s] \in 1..(Len(Plan(op[s])') + 1)
  <2>1. CASE s = r
    <3>1. CallOK(op[r])' BY <1>2, <1>4, <1>5 DEF CallOK
    <3>2. Len(Plan(op[r])') \in 2..5
      <4>1. \A x : x.kind \in Kinds => Len(Plan(x)) \in 2..5 BY PlanLength
      <4>2. Plan(op[r])' = Plan(o)
        BY <1>2, <1>5 DEF Plan, OpenPlan, TransferPlan, ClosePlan, Funded, HandsOver
      <4> QED BY <1>4, <4>1, <4>2
    <3> QED BY <1>5, <2>1, <3>1, <3>2
  <2>2. CASE s # r
    <3>1. Running(s) /\ op'[s] = op[s] BY <1>5, <1>9, <2>2 DEF Running
    <3>2. CallOK(op[s]) /\ stage[s] \in 1..(Len(Plan(op[s])) + 1) /\ op[s].kind \in Kinds BY <3>1, CallFacts
    <3>3. CallOK(op[s])' /\ Plan(op[s])' = Plan(op[s]) BY <1>8, <3>1, <3>2, PlanStays
    <3> QED BY <1>5, <2>2, <3>2, <3>3
  <2> QED BY <2>1, <2>2
<1>10. \A s \in Requests : session'[s].status # "NONE" \/ move'[s] # NoTransfer => op'[s].kind = "done"
  BY <1>2, <1>5, <1>7 DEF Shape
<1> QED BY <1>6, <1>9, <1>10 DEF Shape

(* A session that nothing happened to keeps its call and its stage.        *)
LEMMA SessionKept ==
  ASSUME Shape, SessionsStay, NEW s \in Requests, Running(s)', op'[s] = op[s], stage'[s] = stage[s]
  PROVE  CallOK(op[s])' /\ stage'[s] \in 1..(Len(Plan(op[s])') + 1)
<1>1. Running(s) BY DEF Running
<1>2. CallOK(op[s]) /\ stage[s] \in 1..(Len(Plan(op[s])) + 1) /\ op[s].kind \in Kinds BY <1>1, CallFacts
<1>3. CallOK(op[s])' /\ Plan(op[s])' = Plan(op[s]) BY <1>2, PlanStays
<1> QED BY <1>2, <1>3

\* ... when it takes a step ...
LEMMA ShapeAdvance == ASSUME Shape, NEW r \in Requests, Advance(r) PROVE Shape'
<1>1. UNCHANGED <<session, move, op, workload>> /\ clock' \in Nat /\ clock' <= MaxClock
      /\ stage' \in [Requests -> Nat] /\ view' \in [Requests -> View] /\ LocksTypeOK(Rows)'
      /\ Running(r) /\ stage[r] \in 1..Len(Plan(op[r])) /\ stage'[r] = stage[r] + 1
      /\ \A s \in Requests \ {r} : stage'[s] = stage[s]
  BY AdvanceFacts
<1>2. clock' \in 0..MaxClock BY <1>1, DeskAssumption
<1>3. TypeOK' BY <1>1, <1>2 DEF Shape, TypeOK
<1>4. SessionsStay BY <1>1 DEF SessionsStay
<1>5. ASSUME NEW s \in Requests, Running(s)' PROVE CallOK(op[s])' /\ stage'[s] \in 1..(Len(Plan(op[s])') + 1)
  <2>1. CASE s = r
    <3>1. CallOK(op[r]) /\ op[r].kind \in Kinds /\ Len(Plan(op[r])) \in 2..5 BY <1>1, CallFacts
    <3>2. CallOK(op[r])' /\ Plan(op[r])' = Plan(op[r]) BY <1>1, <1>4, <3>1, PlanStays
    <3> QED BY <1>1, <2>1, <3>1, <3>2
  <2>2. CASE s # r BY <1>1, <1>4, <1>5, <2>2, SessionKept
  <2> QED BY <2>1, <2>2
<1>6. \A s \in Requests : session'[s].status # "NONE" \/ move'[s] # NoTransfer => op'[s].kind = "done"
  BY <1>1 DEF Shape
<1> QED BY <1>3, <1>5, <1>6 DEF Shape

\* ... when it ends, whatever it has written ...
LEMMA ShapeFinish ==
  ASSUME Shape, NEW r \in Requests, NEW o \in {Idle, Done}, Finish(r, o), Running(r), SessionsStay,
         session' \in [Requests -> CashSession \cup {NoSession}], move' \in [Requests -> Transfer \cup {NoTransfer}],
         \A s \in Requests \ {r} : move'[s] = move[s] /\ (session[s].status = "NONE" => session'[s] = session[s]),
         o = Idle => UNCHANGED <<session, move>>
  PROVE  Shape'
<1>1. op' \in [Requests -> Operation] /\ stage' \in [Requests -> Nat]
      /\ view' \in [Requests -> View] /\ LocksTypeOK(Rows)'
      /\ op'[r] = o /\ ~Running(r)' /\ clock' = clock /\ workload' = workload
      /\ \A s \in Requests \ {r} : op'[s] = op[s] /\ view'[s] = view[s] /\ stage'[s] = stage[s]
  BY FinishFacts
<1>2. TypeOK' BY <1>1 DEF Shape, TypeOK
<1>3. ASSUME NEW s \in Requests, Running(s)' PROVE CallOK(op[s])' /\ stage'[s] \in 1..(Len(Plan(op[s])') + 1)
  <2>1. s # r BY <1>1, <1>3
  <2> QED BY <1>1, <1>3, <2>1, SessionKept
<1>4. ASSUME NEW s \in Requests, session'[s].status # "NONE" \/ move'[s] # NoTransfer
      PROVE  op'[s].kind = "done"
  <2>1. CASE s # r
    <3>1. session[s].status # "NONE" \/ move[s] # NoTransfer BY <1>4, <2>1
    <3> QED BY <1>1, <2>1, <3>1 DEF Shape
  <2>2. CASE s = r /\ o = Idle
    <3>1. session[r].status = "NONE" /\ move[r] = NoTransfer BY CallFacts
    <3> QED BY <1>4, <2>2, <3>1
  <2>3. CASE s = r /\ o = Done BY <1>1, <2>3 DEF Done, Call
  <2> QED BY <2>1, <2>2, <2>3
<1> QED BY <1>2, <1>3, <1>4 DEF Shape

\* ... in particular when it is undone ...
LEMMA ShapeRollback == ASSUME Shape, NEW r \in Requests, Reject(r) \/ Abort(r) PROVE Shape'
<1>1. Finish(r, Idle) /\ UNCHANGED <<session, move>> /\ Running(r) BY DEF Reject, Abort
<1>2. SessionsStay BY <1>1 DEF SessionsStay
<1>3. session' \in [Requests -> CashSession \cup {NoSession}] /\ move' \in [Requests -> Transfer \cup {NoTransfer}]
  BY <1>1 DEF Shape, TypeOK
<1> QED BY <1>1, <1>2, <1>3, ShapeFinish

\* ... or committed ...
LEMMA ShapeCommit == ASSUME Shape, NEW r \in Requests, Commit(r) PROVE Shape'
<1>1. Finish(r, Done) /\ Running(r) BY CommitEnds
<1>2. Done # Idle BY DEF Done, Idle, Call
<1> QED BY <1>1, <1>2, CommitFacts, ShapeFinish

\* ... and when nothing happens.
LEMMA ShapeStutter == ASSUME Shape, UNCHANGED vars PROVE Shape'
<1> USE DEF vars
<1>1. TypeOK' BY DEF Shape, TypeOK, LocksTypeOK
<1>2. SessionsStay BY DEF SessionsStay
<1>3. ASSUME NEW s \in Requests, Running(s)' PROVE CallOK(op[s])' /\ stage'[s] \in 1..(Len(Plan(op[s])') + 1)
  BY <1>2, <1>3, SessionKept
<1> QED BY <1>1, <1>3 DEF Shape

\* So they keep it in every step.
LEMMA ShapeNext == Shape /\ [Next]_vars => Shape'
<1> SUFFICES ASSUME Shape, [Next]_vars PROVE Shape' OBVIOUS
<1>1. CASE \E r \in Requests : Begin(r) BY <1>1, ShapeBegin
<1>2. CASE \E r \in Requests : Advance(r) BY <1>2, ShapeAdvance
<1>3. CASE \E r \in Requests : Reject(r) \/ Abort(r) BY <1>3, ShapeRollback
<1>4. CASE \E r \in Requests : Commit(r) BY <1>4, ShapeCommit
<1>5. CASE UNCHANGED vars BY <1>5, ShapeStutter
<1> QED BY <1>1, <1>2, <1>3, <1>4, <1>5 DEF Next, Commit

(* Every variable keeps its type, and every running call its rows.         *)
THEOREM ShapeInvariant == Spec => []Shape
<1> QED BY ShapeInit, ShapeNext, PTL DEF Spec

---------------------------------------------------------------------------
(* Waiting.                                                                *)

(* Whoever holds a row and asks for another is opening a funded session:   *)
(* it has the first of two drawers in the order of their ids and asks for  *)
(* the second.                                                             *)
LEMMA PlanRises ==
  ASSUME NEW o, o.kind \in Kinds, CallOK(o), NEW i \in 1..Len(Plan(o)), NEW j \in 1..Len(Plan(o)), i < j,
         NEW row \in Plan(o)[i].rows, NEW above \in Plan(o)[j].rows
  PROVE  \E a \in Accounts, b \in Accounts :
            row = AccountLock(a) /\ above = AccountLock(b) /\ Rank[a] < Rank[b]
<1>1. CASE o.kind = "open" /\ Funded(o)
  <2>1. Len(Plan(o)) = 5 BY <1>1, OpenSteps
  <2>2. i \in {1, 2, 3, 4, 5} /\ j \in {1, 2, 3, 4, 5} BY <2>1
  <2>3. /\ Plan(o)[1].rows = {} /\ Plan(o)[2].rows = {AccountLock(Earlier(o.from, o.to))}
        /\ Plan(o)[3].rows = {AccountLock(Later(o.from, o.to))}
        /\ Plan(o)[4].rows = {} /\ Plan(o)[5].rows = {}
    <3>1. /\ Plan(o)[1] = Step({}, {"existing"})
          /\ Plan(o)[2] = Step({AccountLock(Earlier(o.from, o.to))}, {})
          /\ Plan(o)[3] = Step({AccountLock(Later(o.from, o.to))}, {"desks"})
          /\ Plan(o)[4] = Step({}, {"funds", "postedAt"}) /\ Plan(o)[5] = Step({}, {"openedAt"})
      BY <1>1, OpenSteps
    <3> QED BY <3>1 DEF Step
  <2>4. i = 2 /\ j = 3 BY <2>2, <2>3
  <2>5. o.from \in Accounts /\ o.to \in Accounts /\ o.from # o.to BY <1>1 DEF CallOK, Funded, Accounts
  <2>6. Rank[o.from] \in Nat /\ Rank[o.to] \in Nat /\ Rank[o.from] # Rank[o.to]
    BY <2>5, DeskAssumption
  <2>7. Earlier(o.from, o.to) \in Accounts /\ Later(o.from, o.to) \in Accounts
        /\ Rank[Earlier(o.from, o.to)] < Rank[Later(o.from, o.to)]
    BY <2>5, <2>6 DEF Earlier, Later
  <2> QED BY <2>3, <2>4, <2>7
<1>2. CASE o.kind = "open" /\ ~Funded(o)
  <2>1. Len(Plan(o)) = 2 BY <1>2, OpenSteps
  <2>2. j = 2 BY <2>1
  <2>3. Plan(o)[2].rows = {}
    <3>1. Plan(o)[2] = Step({}, {"openedAt"}) BY <1>2, OpenSteps
    <3> QED BY <3>1 DEF Step
  <2> QED BY <2>2, <2>3
<1>3. CASE o.kind = "transfer"
  <2>1. Len(Plan(o)) = 2 BY <1>3, TransferSteps
  <2>2. j = 2 BY <2>1
  <2>3. Plan(o)[2].rows = {}
    <3>1. Plan(o)[2] = Step({}, {"funds", "postedAt"}) BY <1>3, TransferSteps
    <3> QED BY <3>1 DEF Step
  <2> QED BY <2>2, <2>3
<1>4. CASE o.kind = "close"
  <2>1. Len(Plan(o)) = 5 \/ Len(Plan(o)) = 3 BY <1>4, CloseSteps
  <2>2. j \in {2, 3} \/ (Len(Plan(o)) = 5 /\ j \in {4, 5})
    <3>1. CASE Len(Plan(o)) = 5 BY <3>1
    <3>2. CASE Len(Plan(o)) = 3 BY <3>2
    <3> QED BY <2>1, <3>1, <3>2
  <2>3. Plan(o)[2].rows = {} /\ Plan(o)[3].rows = {}
    <3>1. Plan(o)[2] = Step({}, {"expected", "adjustedAt"}) /\ Plan(o)[3] = Step({}, {"closedAt"})
      BY <1>4, CloseSteps
    <3> QED BY <3>1 DEF Step
  <2>4. Len(Plan(o)) = 5 => Plan(o)[4].rows = {} /\ Plan(o)[5].rows = {}
    <3>1. Len(Plan(o)) = 5 => /\ Plan(o)[4] = Step({}, {"funds", "postedAt"})
                              /\ Plan(o)[5] = Step({}, {"existing", "openedAt"})
      BY <1>4, CloseSteps
    <3> QED BY <3>1 DEF Step
  <2> QED BY <2>2, <2>3, <2>4
<1> QED BY <1>1, <1>2, <1>3, <1>4 DEF Kinds

(* A lock is held for a running call, and its plan has asked for it.       *)
HeldByPlan ==
    \A row \in Rows, s \in Requests : holder[row] = s =>
        /\ Running(s)
        /\ \E i \in 1..Len(Plan(op[s])) : i < stage[s] /\ row \in Plan(op[s])[i].rows

\* A lock stays justified by a plan that goes on.
LEMMA HeldStays ==
  ASSUME Shape, HeldByPlan, SessionsStay, NEW s \in Requests, NEW row \in Rows, holder[row] = s,
         op'[s] = op[s], stage'[s] = stage[s]
  PROVE  Running(s)' /\ \E i \in 1..Len(Plan(op[s])') : i < stage'[s] /\ row \in Plan(op[s])'[i].rows
<1>1. Running(s) /\ Running(s)' BY DEF HeldByPlan, Running
<1>2. CallOK(op[s]) /\ op[s].kind \in Kinds BY <1>1, CallFacts
<1>3. Plan(op[s])' = Plan(op[s]) BY <1>2, PlanStays
<1> QED BY <1>1, <1>3 DEF HeldByPlan

(* The end of a transaction gives back its locks and no others.            *)
LEMMA HeldFinish ==
  ASSUME Shape, HeldByPlan, SessionsStay, NEW r \in Requests, NEW o \in {Idle, Done}, Finish(r, o),
         NEW s \in Requests, NEW row \in Rows, holder'[row] = s
  PROVE  Running(s)' /\ \E i \in 1..Len(Plan(op[s])') : i < stage'[s] /\ row \in Plan(op[s])'[i].rows
<1>0. DOMAIN holder = Rows /\ s # Nobody BY RequestsAssumption DEF Shape, TypeOK, LocksTypeOK
<1>1. holder'[row] = IF holder[row] = r THEN Nobody ELSE holder[row] BY <1>0 DEF Finish, ReleaseAll
<1>2. s # r /\ holder[row] = s BY <1>0, <1>1
<1>3. op'[s] = op[s] /\ stage'[s] = stage[s] BY <1>2, FinishFacts
<1> QED BY <1>2, <1>3, HeldStays

\* Every lock that is held is one its holder's plan has asked for, after every step.
LEMMA HeldByPlanNext == Shape /\ HeldByPlan /\ [Next]_vars => HeldByPlan'
<1> SUFFICES ASSUME Shape, HeldByPlan, [Next]_vars, NEW row \in Rows, NEW s \in Requests, holder'[row] = s
             PROVE  Running(s)' /\ \E i \in 1..Len(Plan(op[s])') : i < stage'[s] /\ row \in Plan(op[s])'[i].rows
  BY DEF HeldByPlan, Rows
<1>0. DOMAIN holder = Rows BY DEF Shape, TypeOK, LocksTypeOK
<1>1. CASE UNCHANGED vars
  <2>1. UNCHANGED <<session, op, stage, holder>> BY <1>1 DEF vars
  <2>2. SessionsStay BY <2>1 DEF SessionsStay
  <2> QED BY <2>1, <2>2, HeldStays
<1>2. ASSUME NEW r \in Requests, Begin(r)
      PROVE  Running(s)' /\ \E i \in 1..Len(Plan(op[s])') : i < stage'[s] /\ row \in Plan(op[s])'[i].rows
  <2>1. UNCHANGED <<session, holder>> /\ op[r] = Idle
        /\ \A t \in Requests \ {r} : op'[t] = op[t] /\ stage'[t] = stage[t]
    BY <1>2 DEF Begin, Shape, TypeOK
  <2>2. ~Running(r) BY <2>1 DEF Running, Idle, Call, Kinds
  <2>3. s # r BY <2>1, <2>2 DEF HeldByPlan
  <2>4. SessionsStay BY <2>1 DEF SessionsStay
  <2> QED BY <2>1, <2>3, <2>4, HeldStays
<1>3. ASSUME NEW r \in Requests, Advance(r)
      PROVE  Running(s)' /\ \E i \in 1..Len(Plan(op[s])') : i < stage'[s] /\ row \in Plan(op[s])'[i].rows
  <2>1. /\ Running(r) /\ ~AtEnd(r) /\ ~Refused(r) /\ stage[r] \in 1..Len(Plan(op[r]))
        /\ UNCHANGED <<session, op>> /\ stage'[r] = stage[r] + 1
        /\ \A t \in Requests \ {r} : stage'[t] = stage[t]
    BY <1>3, AdvanceFacts
  <2>2. Wanted(r) = Plan(op[r])[stage[r]].rows BY <2>1 DEF Wanted
  <2>3. holder'[row] = IF row \in Wanted(r) THEN r ELSE holder[row] BY <1>0, <1>3 DEF Advance, Acquire
  <2>4. SessionsStay BY <2>1 DEF SessionsStay
  <2>5. CASE s # r BY <2>1, <2>3, <2>4, <2>5, HeldStays
  <2>6. CASE s = r
    <3>1. CallOK(op[r]) /\ op[r].kind \in Kinds /\ stage[r] \in Nat BY <2>1, CallFacts
    <3>2. Running(r)' /\ Plan(op[r])' = Plan(op[r])
      BY <2>1, <2>4, <3>1, PlanStays DEF Running
    <3>3. CASE row \in Wanted(r)
      <4>1. stage[r] < stage'[r] /\ row \in Plan(op[r])[stage[r]].rows BY <2>1, <2>2, <3>1, <3>3
      <4> QED BY <2>1, <2>6, <3>2, <4>1
    <3>4. CASE row \notin Wanted(r)
      <4>1. PICK i \in 1..Len(Plan(op[r])) : i < stage[r] /\ row \in Plan(op[r])[i].rows
        BY <2>3, <2>6, <3>4 DEF HeldByPlan
      <4>2. i < stage'[r] BY <2>1, <3>1, <4>1
      <4> QED BY <2>6, <3>2, <4>1, <4>2
    <3> QED BY <3>3, <3>4
  <2> QED BY <2>5, <2>6
<1>4. CASE \E r \in Requests : Reject(r) \/ Abort(r)
  <2>1. PICK r \in Requests : Finish(r, Idle) /\ session' = session BY <1>4 DEF Reject, Abort
  <2>2. SessionsStay BY <2>1 DEF SessionsStay
  <2> QED BY <2>1, <2>2, HeldFinish
<1>5. CASE \E r \in Requests : Commit(r) BY <1>5, CommitEnds, CommitFacts, HeldFinish
<1> QED BY <1>1, <1>2, <1>3, <1>4, <1>5 DEF Next, Commit

\* No lock is held at first.
LEMMA HeldByPlanInitially == Init => HeldByPlan
BY RequestsAssumption DEF Init, LocksInit, HeldByPlan

(* Among calls that wait for each other, one waits for the account of the  *)
(* greatest id; but whoever has that one wants a greater one.              *)
LEMMA NoneInACircle == Shape /\ HeldByPlan => NoWaitCycle
<1> SUFFICES ASSUME Shape, HeldByPlan, NEW group \in SUBSET Requests, group # {},
                    \A r \in group : \E s \in group : WaitsFor(r, Wanted(r), s)
             PROVE  FALSE
  BY DEF NoWaitCycle, WaitCycle
<1> DEFINE H == {a \in Accounts : \E r \in group, s \in group :
                    AccountLock(a) \in Wanted(r) /\ holder[AccountLock(a)] = s}
<1>1. ASSUME NEW r \in group
      PROVE  /\ Wanted(r) = Plan(op[r])[stage[r]].rows /\ stage[r] \in 1..Len(Plan(op[r]))
             /\ op[r].kind \in Kinds /\ CallOK(op[r]) /\ Wanted(r) \subseteq Rows
  <2>1. Wanted(r) # {} BY <1>1 DEF WaitsFor
  <2>2. Running(r) /\ ~AtEnd(r) /\ Wanted(r) = Plan(op[r])[stage[r]].rows BY <2>1 DEF Wanted
  <2>3. op[r].kind \in Kinds /\ CallOK(op[r]) /\ stage[r] \in 1..(Len(Plan(op[r])) + 1)
        /\ Len(Plan(op[r])) \in 2..5
    BY <2>2, CallFacts
  <2>4. stage[r] \in 1..Len(Plan(op[r])) BY <2>2, <2>3 DEF AtEnd
  <2>5. StepOK(op[r], Plan(op[r])[stage[r]]) BY <2>3, <2>4, PlanStepsOK
  <2> QED BY <2>2, <2>3, <2>4, <2>5 DEF StepOK
<1>2. ASSUME NEW r \in group, NEW s \in group, NEW row \in Wanted(r), holder[row] = s
      PROVE  \E a \in Accounts, b \in Accounts : row = AccountLock(a) /\ b \in H /\ Rank[a] < Rank[b]
  <2>1. row \in Rows BY <1>1
  <2>2. PICK i \in 1..Len(Plan(op[s])) : i < stage[s] /\ row \in Plan(op[s])[i].rows
    BY <1>2, <2>1 DEF HeldByPlan
  <2>3. PICK t \in group : WaitsFor(s, Wanted(s), t) OBVIOUS
  <2>4. PICK above \in Wanted(s) : holder[above] = t BY <2>3 DEF WaitsFor
  <2>5. /\ above \in Plan(op[s])[stage[s]].rows /\ stage[s] \in 1..Len(Plan(op[s]))
        /\ op[s].kind \in Kinds /\ CallOK(op[s])
    BY <1>1, <2>4
  <2> HIDE DEF H
  <2>6. PICK a \in Accounts, b \in Accounts :
           row = AccountLock(a) /\ above = AccountLock(b) /\ Rank[a] < Rank[b]
    BY <2>2, <2>5, PlanRises
  <2>7. b \in H BY <2>4, <2>6 DEF H
  <2> QED BY <2>6, <2>7
<1>3. H # {}
  <2>1. PICK r \in group : TRUE OBVIOUS
  <2>2. PICK s \in group : WaitsFor(r, Wanted(r), s) OBVIOUS
  <2>3. PICK row \in Wanted(r) : holder[row] = s BY <2>2 DEF WaitsFor
  <2> HIDE DEF H
  <2> QED BY <1>2, <2>3
<1>4. IsFiniteSet(Accounts) BY FS_Union, DeskAssumption DEF Accounts
<1>5. PICK a \in H : \A b \in H : Rank[b] <= Rank[a]
  <2>1. H \in SUBSET Accounts OBVIOUS
  <2>2. Rank \in [Accounts -> Int] BY DeskAssumption
  <2> HIDE DEF H
  <2> QED BY <1>3, <1>4, <2>1, <2>2, Greatest
<1>6. PICK r \in group, s \in group : AccountLock(a) \in Wanted(r) /\ holder[AccountLock(a)] = s
  OBVIOUS
<1>7. a \in Accounts /\ H \subseteq Accounts OBVIOUS
<1> HIDE DEF H
<1>8. PICK c \in Accounts, b \in Accounts : AccountLock(a) = AccountLock(c) /\ b \in H /\ Rank[c] < Rank[b]
  BY <1>2, <1>6
<1>9. c = a BY <1>8 DEF AccountLock
<1>10. Rank[a] \in Nat /\ Rank[b] \in Nat BY <1>7, DeskAssumption
<1> QED BY <1>5, <1>8, <1>9, <1>10

(* No calls at the desk wait for each other in a circle: a funded opening  *)
(* takes its two drawers in the order of their ids, and every other call   *)
(* locks one row only.                                                     *)
THEOREM NoWaitCycleInvariant == Spec => []NoWaitCycle
<1> DEFINE Inv == Shape /\ HeldByPlan
<1>1. Init => Inv BY ShapeInit, HeldByPlanInitially
<1>2. Inv /\ [Next]_vars => Inv' BY ShapeNext, HeldByPlanNext
<1>3. Inv => NoWaitCycle BY NoneInACircle
<1> HIDE DEF Inv
<1> QED BY <1>1, <1>2, <1>3, PTL DEF Spec

---------------------------------------------------------------------------
(* Closed sessions.                                                        *)

(* close() has read the session it closes under its lock.                  *)
CloseReads ==
    \A r \in Requests : Running(r) /\ op[r].kind = "close" /\ stage[r] > 1 =>
        holder[SessionLock(op[r].session)] = r /\ view[r].session = session[op[r].session]

(* Only a call that closes a session changes it.                           *)
LEMMA OthersKeepSession ==
  ASSUME Shape, CloseReads, NEW x \in Requests, Commit(x), NEW c \in Requests, session[c].status # "NONE",
         holder[SessionLock(c)] # x
  PROVE  session'[c] = session[c]
<1>1. Running(x) /\ AtEnd(x) BY CommitEnds
<1>2. session[x].status = "NONE" /\ stage[x] > 1 BY <1>1, CallFacts
<1>3. CASE Open(x) BY <1>2, <1>3, OpenFacts
<1>4. CASE Move(x) BY <1>4, MoveFacts
<1>5. CASE Close(x)
  <2>1. op[x].kind = "close" BY <1>5, CloseFacts
  <2>2. op[x].session # c BY <1>1, <1>2, <2>1 DEF CloseReads
  <2>3. \A s \in Requests : s # x /\ s # op[x].session => session'[s] = session[s] BY <1>5, CloseFacts
  <2> QED BY <1>2, <2>2, <2>3
<1> QED BY <1>3, <1>4, <1>5 DEF Commit

\* A close has read the session it has locked, after every step.
LEMMA CloseReadsNext == Shape /\ CloseReads /\ [Next]_vars => CloseReads'
<1> SUFFICES ASSUME Shape, CloseReads, [Next]_vars, NEW r \in Requests, Running(r)', op'[r].kind = "close",
                    stage'[r] > 1
             PROVE  holder'[SessionLock(op'[r].session)] = r /\ view'[r].session = session'[op'[r].session]
  BY DEF CloseReads
<1>0. DOMAIN holder = Rows BY DEF Shape, TypeOK, LocksTypeOK
<1>1. CASE UNCHANGED vars BY <1>1 DEF vars, CloseReads, Running
<1>2. ASSUME NEW x \in Requests, Begin(x)
      PROVE  holder'[SessionLock(op'[r].session)] = r /\ view'[r].session = session'[op'[r].session]
  <2>1. UNCHANGED <<session, view, holder>> /\ stage'[x] = 1
        /\ \A t \in Requests \ {x} : op'[t] = op[t] /\ stage'[t] = stage[t]
    BY <1>2 DEF Begin, Shape, TypeOK
  <2>2. r # x BY <2>1
  <2> QED BY <2>1, <2>2 DEF CloseReads, Running
<1>3. ASSUME NEW x \in Requests, Advance(x)
      PROVE  holder'[SessionLock(op'[r].session)] = r /\ view'[r].session = session'[op'[r].session]
  <2>1. /\ Running(x) /\ ~AtEnd(x) /\ ~Refused(x) /\ stage[x] \in 1..Len(Plan(op[x]))
        /\ UNCHANGED <<session, op>> /\ stage'[x] = stage[x] + 1
        /\ view'[x] = Look(op[x], view[x], Plan(op[x])[stage[x]].look, clock')
        /\ \A t \in Requests \ {x} : stage'[t] = stage[t] /\ view'[t] = view[t]
    BY <1>3, AdvanceFacts
  <2>2. Running(r) /\ op[r].kind = "close" BY <2>1 DEF Running
  <2>3. op[r].session \in Requests /\ stage[r] \in Nat BY <2>2, CallFacts DEF CallOK
  <2>4. SessionLock(op[r].session) \in Rows BY <2>3 DEF SessionLock, Rows
  <2>5. /\ \A row \in Wanted(x) : holder[row] \in {Nobody, x}
        /\ \A row \in Rows : holder'[row] = IF row \in Wanted(x) THEN x ELSE holder[row]
    BY <1>0, <1>3 DEF Advance, Acquire, Grantable
  <2>6. CASE x # r
    <3>1. holder[SessionLock(op[r].session)] = r /\ view[r].session = session[op[r].session]
      BY <2>1, <2>2, <2>6 DEF CloseReads
    <3>2. SessionLock(op[r].session) \notin Wanted(x) BY <2>5, <2>6, <3>1, RequestsAssumption
    <3> QED BY <2>1, <2>4, <2>5, <2>6, <3>1, <3>2
  <2>7. CASE x = r /\ stage[r] = 1
    <3>1. Plan(op[r])[1] = Step({SessionLock(op[r].session)}, {"session"}) BY <2>2, CloseSteps
    <3>2. Plan(op[r])[1].rows = {SessionLock(op[r].session)} /\ "session" \in Plan(op[r])[1].look
      BY <3>1 DEF Step
    <3>3. SessionLock(op[r].session) \in Wanted(r) BY <2>1, <2>7, <3>2 DEF Wanted
    <3>4. view'[r].session = session[op[r].session] BY <2>1, <2>7, <3>2 DEF Look
    <3> QED BY <2>1, <2>4, <2>5, <2>7, <3>3, <3>4
  <2>8. CASE x = r /\ stage[r] # 1
    <3>1. holder[SessionLock(op[r].session)] = r /\ view[r].session = session[op[r].session]
      BY <2>2, <2>3, <2>8, CallFacts DEF CloseReads
    <3>2. holder'[SessionLock(op[r].session)] = r BY <2>4, <2>5, <2>8, <3>1
    <3>3. "session" \notin Plan(op[r])[stage[r]].look
      <4>1. Len(Plan(op[r])) = 5 \/ Len(Plan(op[r])) = 3 BY <2>2, CloseSteps
      <4>2. stage[r] \in {2, 3} \/ (Len(Plan(op[r])) = 5 /\ stage[r] \in {4, 5})
        <5>1. CASE Len(Plan(op[r])) = 5 BY <2>1, <2>8, <5>1
        <5>2. CASE Len(Plan(op[r])) = 3 BY <2>1, <2>8, <5>2
        <5> QED BY <4>1, <5>1, <5>2
      <4>3. Plan(op[r])[stage[r]] \in {Step({}, {"expected", "adjustedAt"}), Step({}, {"closedAt"}),
                                       Step({}, {"funds", "postedAt"}), Step({}, {"existing", "openedAt"})}
        <5>1. CASE stage[r] \in {2, 3} BY <2>2, <5>1, CloseSteps
        <5>2. CASE Len(Plan(op[r])) = 5 /\ stage[r] \in {4, 5} BY <2>2, <5>2, CloseSteps
        <5> QED BY <4>2, <5>1, <5>2
      <4> QED BY <4>3 DEF Step
    <3>4. view'[r].session = view[r].session BY <2>1, <2>8, <3>3 DEF Look
    <3> QED BY <2>1, <3>1, <3>2, <3>4
  <2> QED BY <2>6, <2>7, <2>8
<1>4. ASSUME NEW x \in Requests, NEW o \in {Idle, Done}, Finish(x, o), session' = session \/ Commit(x)
      PROVE  holder'[SessionLock(op'[r].session)] = r /\ view'[r].session = session'[op'[r].session]
  <2>1. r # x BY <1>4, FinishFacts
  <2>2. op'[r] = op[r] /\ view'[r] = view[r] /\ stage'[r] = stage[r] BY <1>4, <2>1, FinishFacts
  <2>3. Running(r) /\ op[r].kind = "close" BY <2>2 DEF Running
  <2>4. op[r].session \in Requests /\ session[op[r].session].status # "NONE" BY <2>3, CallFacts DEF CallOK
  <2>5. holder[SessionLock(op[r].session)] = r /\ view[r].session = session[op[r].session]
    BY <2>2, <2>3 DEF CloseReads
  <2>6. SessionLock(op[r].session) \in Rows BY <2>4 DEF SessionLock, Rows
  <2>7. holder'[SessionLock(op[r].session)] = r
    <3>1. \A row \in Rows : holder'[row] = IF holder[row] = x THEN Nobody ELSE holder[row]
      BY <1>0, <1>4 DEF Finish, ReleaseAll
    <3> QED BY <2>1, <2>5, <2>6, <3>1
  <2>8. session'[op[r].session] = session[op[r].session] BY <1>4, <2>1, <2>4, <2>5, OthersKeepSession
  <2> QED BY <2>2, <2>5, <2>7, <2>8
<1>5. CASE \E x \in Requests : Reject(x) \/ Abort(x) BY <1>4, <1>5 DEF Reject, Abort
<1>6. CASE \E x \in Requests : Commit(x) BY <1>4, <1>6, CommitEnds
<1> QED BY <1>1, <1>2, <1>3, <1>5, <1>6 DEF Next, Commit

\* No call runs at first.
LEMMA NoneRunsAtFirst == Init => \A r \in Requests : ~Running(r)
BY DEF Init, Running, Idle, Call, Kinds

\* So no close has read anything.
LEMMA CloseReadsInitially == Init => CloseReads
BY NoneRunsAtFirst DEF CloseReads

(* What a step does to a session that is closed: nothing.                  *)
LEMMA ClosedStays ==
  ASSUME Shape, CloseReads, [Next]_vars, NEW s \in Requests, session[s].status = "CLOSED"
  PROVE  session'[s] = session[s]
<1>1. CASE UNCHANGED vars BY <1>1 DEF vars
<1>2. CASE \E r \in Requests : Begin(r) \/ Advance(r) \/ Reject(r) \/ Abort(r)
  BY <1>2 DEF Begin, Advance, Reject, Abort
<1>3. ASSUME NEW x \in Requests, Commit(x) PROVE session'[s] = session[s]
  <2>1. Running(x) /\ AtEnd(x) BY <1>3, CommitEnds
  <2>2. session[x].status = "NONE" /\ stage[x] > 1 BY <2>1, CallFacts
  <2>3. CASE Open(x) BY <2>2, <2>3, OpenFacts
  <2>4. CASE Move(x) BY <2>4, MoveFacts
  <2>5. CASE Close(x)
    <3>1. op[x].kind = "close" /\ view[x].session.status = "OPEN"
          /\ \A t \in Requests : t # x /\ t # op[x].session => session'[t] = session[t]
      BY <2>5, CloseFacts
    <3>2. view[x].session = session[op[x].session] BY <2>1, <2>2, <3>1 DEF CloseReads
    <3>3. s # op[x].session /\ s # x BY <2>2, <3>1, <3>2
    <3> QED BY <3>1, <3>3
  <2> QED BY <1>3, <2>3, <2>4, <2>5 DEF Commit
<1> QED BY <1>1, <1>2, <1>3 DEF Next, Commit

(* A session is closed once, whoever else tries: its count, its expected   *)
(* total and its rounding are final.                                       *)
THEOREM ClosedForGoodProperty == Spec => ClosedForGood
<1> DEFINE Inv == Shape /\ CloseReads
           Stays == \A s \in Requests : session[s].status = "CLOSED" => session'[s] = session[s]
<1>1. Init => Inv BY ShapeInit, CloseReadsInitially
<1>2. Inv /\ [Next]_vars => Inv' BY ShapeNext, CloseReadsNext
<1>3. Inv /\ [Next]_vars => Stays BY ClosedStays
<1>4. [][Stays]_vars => ClosedForGood BY DEF ClosedForGood
<1> HIDE DEF Inv, Stays
<1> QED BY <1>1, <1>2, <1>3, <1>4, PTL DEF Spec

---------------------------------------------------------------------------
(* Dates.                                                                  *)

RowsDated ==
    \A s \in Requests : /\ move[s].date <= clock /\ session[s].openedAt <= clock
                        /\ session[s].closedAt <= clock /\ session[s].adjustedAt <= clock

ViewsDated ==
    \A r \in Requests : /\ view[r].adjustedAt <= clock /\ view[r].closedAt <= clock
                        /\ view[r].postedAt <= clock /\ view[r].openedAt <= clock

(* A session is rounded when it is closed.                                 *)
Unrounded == \A s \in Requests : session[s].status # "CLOSED" => session[s].adjustment = 0

(* No date is later than the clock, and only closed sessions are rounded.  *)
Dated == RowsDated /\ ViewsDated /\ Unrounded

\* No date is ahead of the clock, at first ...
LEMMA DatedInitially == Init => Dated
<1> SUFFICES ASSUME Init, NEW s \in Requests
             PROVE  /\ move[s].date <= clock /\ session[s].openedAt <= clock
                    /\ session[s].closedAt <= clock /\ session[s].adjustedAt <= clock
                    /\ view[s].adjustedAt <= clock /\ view[s].closedAt <= clock
                    /\ view[s].postedAt <= clock /\ view[s].openedAt <= clock
                    /\ session[s].adjustment = 0
  BY DEF Dated, RowsDated, ViewsDated, Unrounded
<1>1. move[s] = NoTransfer /\ session[s] = NoSession /\ view[s] = NoView /\ clock = 0 BY DEF Init
<1> QED BY <1>1 DEF NoTransfer, NoSession, NoView

\* ... when a call takes a date ...
LEMMA DatedAdvance == ASSUME Shape, Dated, NEW r \in Requests, Advance(r) PROVE Dated'
<1>1. /\ UNCHANGED <<session, move>> /\ clock' \in Nat /\ clock <= clock'
      /\ view'[r] = Look(op[r], view[r], Plan(op[r])[stage[r]].look, clock')
      /\ \A s \in Requests \ {r} : view'[s] = view[s]
  BY AdvanceFacts
<1>2. clock \in Nat BY DeskAssumption DEF Shape, TypeOK
<1>3. RowsDated' /\ Unrounded'
  <2> SUFFICES ASSUME NEW s \in Requests
               PROVE  /\ move[s].date <= clock' /\ session[s].openedAt <= clock'
                      /\ session[s].closedAt <= clock' /\ session[s].adjustedAt <= clock'
    BY <1>1 DEF RowsDated, Unrounded, Dated
  <2>1. /\ move[s].date \in Nat /\ session[s].openedAt \in Nat
        /\ session[s].closedAt \in Nat /\ session[s].adjustedAt \in Nat
    BY RowFacts DEF Shape
  <2>2. /\ move[s].date <= clock /\ session[s].openedAt <= clock
        /\ session[s].closedAt <= clock /\ session[s].adjustedAt <= clock
    BY DEF Dated, RowsDated
  <2> QED BY <1>1, <1>2, <2>1, <2>2
<1>4. ViewsDated'
  <2> SUFFICES ASSUME NEW s \in Requests
               PROVE  /\ view'[s].adjustedAt <= clock' /\ view'[s].closedAt <= clock'
                      /\ view'[s].postedAt <= clock' /\ view'[s].openedAt <= clock'
    BY DEF ViewsDated
  <2>1. /\ view[s].adjustedAt \in Nat /\ view[s].closedAt \in Nat
        /\ view[s].postedAt \in Nat /\ view[s].openedAt \in Nat
    BY DEF Shape, TypeOK, View
  <2>2. /\ view[s].adjustedAt <= clock /\ view[s].closedAt <= clock
        /\ view[s].postedAt <= clock /\ view[s].openedAt <= clock
    BY DEF Dated, ViewsDated
  <2>3. CASE s # r BY <1>1, <1>2, <2>1, <2>2, <2>3
  <2>4. CASE s = r
    <3>1. /\ view'[r].adjustedAt \in {view[r].adjustedAt, clock'} /\ view'[r].closedAt \in {view[r].closedAt, clock'}
          /\ view'[r].postedAt \in {view[r].postedAt, clock'} /\ view'[r].openedAt \in {view[r].openedAt, clock'}
      BY <1>1 DEF Look
    <3> QED BY <1>1, <1>2, <2>1, <2>2, <2>4, <3>1
  <2> QED BY <2>3, <2>4
<1> QED BY <1>3, <1>4 DEF Dated

(* The dates of what a commit writes are those of its view.                *)
LEMMA DatedFinish ==
  ASSUME Shape, Dated, NEW r \in Requests, NEW o \in {Idle, Done}, Finish(r, o),
         UNCHANGED <<session, move>> \/ Commit(r)
  PROVE  Dated'
<1>1. clock' = clock /\ view' = [view EXCEPT ![r] = NoView] BY DEF Finish
<1>2. clock \in Nat BY DeskAssumption DEF Shape, TypeOK
<1>3. ViewsDated' BY <1>1, <1>2 DEF Dated, ViewsDated, NoView, Shape, TypeOK
<1>4. /\ view[r].adjustedAt <= clock /\ view[r].closedAt <= clock
      /\ view[r].postedAt <= clock /\ view[r].openedAt <= clock
  BY DEF Dated, ViewsDated
<1>5. CASE UNCHANGED <<session, move>> BY <1>1, <1>3, <1>5 DEF Dated, RowsDated, Unrounded
<1>6. CASE Open(r)
  <2>1. /\ session'[r] = NewSession(op[r].to, op[r].user, view[r].openedAt, op[r].amount)
        /\ move'[r].date \in {view[r].postedAt, move[r].date}
        /\ \A s \in Requests \ {r} : session'[s] = session[s] /\ move'[s] = move[s]
    BY <1>6, OpenFacts
  <2>2. /\ session'[r].openedAt = view[r].openedAt /\ session'[r].closedAt = 0
        /\ session'[r].adjustedAt = 0 /\ session'[r].adjustment = 0
    BY <2>1, NewSessionIs
  <2>3. RowsDated' BY <1>1, <1>2, <1>4, <2>1, <2>2 DEF Dated, RowsDated
  <2>4. Unrounded' BY <2>1, <2>2 DEF Dated, Unrounded
  <2> QED BY <1>3, <2>3, <2>4 DEF Dated
<1>7. CASE Move(r)
  <2>1. session' = session /\ move'[r].date = view[r].postedAt
        /\ \A s \in Requests \ {r} : move'[s] = move[s]
    BY <1>7, MoveFacts
  <2> QED BY <1>1, <1>3, <1>4, <2>1 DEF Dated, RowsDated, Unrounded
<1>8. CASE Close(r)
  <2> DEFINE c == op[r].session
  <2>1. /\ c \in Requests /\ c # r /\ session'[c].status = "CLOSED"
        /\ session'[c].openedAt = session[c].openedAt /\ session'[c].closedAt = view[r].closedAt
        /\ session'[c].adjustedAt = view[r].adjustedAt
        /\ \A s \in Requests : s # r /\ s # c => session'[s] = session[s]
    BY <1>8, CloseFacts
  <2>2. /\ move'[r].date \in {view[r].postedAt, move[r].date}
        /\ \A s \in Requests \ {r} : move'[s] = move[s]
    BY <1>8, CloseFacts
  <2>3. session'[r] = NoSession \/ \E d, u, n : session'[r] = NewSession(d, u, view[r].openedAt, n)
    BY <1>8, CloseFacts
  <2>4. /\ session'[r].openedAt \in {0, view[r].openedAt} /\ session'[r].closedAt = 0
        /\ session'[r].adjustedAt = 0 /\ session'[r].adjustment = 0
    <3>1. CASE session'[r] = NoSession BY <3>1 DEF NoSession
    <3>2. CASE session'[r] # NoSession BY <2>3, <3>2, NewSessionIs
    <3> QED BY <3>1, <3>2
  <2> HIDE DEF c
  <2>5. RowsDated' BY <1>1, <1>2, <1>4, <2>1, <2>2, <2>4 DEF Dated, RowsDated
  <2>6. Unrounded' BY <2>1, <2>4 DEF Dated, Unrounded
  <2> QED BY <1>3, <2>5, <2>6 DEF Dated
<1> QED BY <1>5, <1>6, <1>7, <1>8 DEF Commit

\* ... and after every step.
LEMMA DatedNext == Shape /\ Dated /\ [Next]_vars => Dated'
<1> SUFFICES ASSUME Shape, Dated, [Next]_vars PROVE Dated' OBVIOUS
<1>1. CASE UNCHANGED vars BY <1>1 DEF vars, Dated, RowsDated, ViewsDated, Unrounded
<1>2. CASE \E r \in Requests : Begin(r) BY <1>2 DEF Begin, Dated, RowsDated, ViewsDated, Unrounded
<1>3. CASE \E r \in Requests : Advance(r) BY <1>3, DatedAdvance
<1>4. CASE \E r \in Requests : Reject(r) \/ Abort(r) BY <1>4, DatedFinish DEF Reject, Abort
<1>5. CASE \E r \in Requests : Commit(r) BY <1>5, CommitEnds, DatedFinish
<1> QED BY <1>1, <1>2, <1>3, <1>4, <1>5 DEF Next, Commit

---------------------------------------------------------------------------
(* One call after the other.                                               *)

(* Every date of a row lies before n.                                      *)
After(n) ==
    \A s \in Requests : /\ move[s].date < n /\ session[s].openedAt < n
                        /\ session[s].closedAt < n /\ session[s].adjustedAt < n

(* What a call has read, n - 1 steps into its plan, is still so; and its   *)
(* dates follow each other, after those of all other calls.                *)
OpenSees(o, v, n) ==
    /\ n > 1 => v.existing = OpenOn(o.to)
    /\ Funded(o) /\ n > 4 => After(v.postedAt)
    /\ Funded(o) /\ n > 5 => v.postedAt < v.openedAt
    /\ ~Funded(o) /\ n > 2 => After(v.openedAt)

TransferSees(v, n) == n > 2 => After(v.postedAt)

CloseSees(o, v, n) ==
    /\ n > 2 => After(v.adjustedAt) /\ v.expected = ExpectedClosing(o.session)
    /\ n > 3 => v.adjustedAt < v.closedAt
    /\ n > 4 => v.closedAt < v.postedAt
    /\ n > 5 => v.postedAt < v.openedAt /\ v.existing = OpenOn(Destination(o)) \ {o.session}

Sees(o, v, n) ==
    /\ o.kind = "open" => OpenSees(o, v, n)
    /\ o.kind = "transfer" => TransferSees(v, n)
    /\ o.kind = "close" => CloseSees(o, v, n)

TurnReads ==
    InTurn => \A r \in Requests : Running(r) =>
        /\ Sees(op[r], view[r], stage[r])
        /\ \A s \in Requests : Running(s) => s = r

(* A new date is later than every other one.                               *)
LEMMA LaterThanAll ==
  ASSUME Shape, Dated, NEW r \in Requests, NEW t \in Nat, clock < t
  PROVE  /\ After(t)
         /\ view[r].adjustedAt < t /\ view[r].closedAt < t /\ view[r].postedAt < t /\ view[r].openedAt < t
<1>1. clock \in Nat BY DeskAssumption DEF Shape, TypeOK
<1>2. ASSUME NEW s \in Requests
      PROVE  /\ move[s].date < t /\ session[s].openedAt < t
             /\ session[s].closedAt < t /\ session[s].adjustedAt < t
  <2>1. /\ move[s].date \in Nat /\ session[s].openedAt \in Nat
        /\ session[s].closedAt \in Nat /\ session[s].adjustedAt \in Nat
    BY RowFacts DEF Shape
  <2>2. /\ move[s].date <= clock /\ session[s].openedAt <= clock
        /\ session[s].closedAt <= clock /\ session[s].adjustedAt <= clock
    BY DEF Dated, RowsDated
  <2> QED BY <1>1, <2>1, <2>2
<1>3. /\ view[r].adjustedAt < t /\ view[r].closedAt < t /\ view[r].postedAt < t /\ view[r].openedAt < t
  <2>1. /\ view[r].adjustedAt \in Nat /\ view[r].closedAt \in Nat
        /\ view[r].postedAt \in Nat /\ view[r].openedAt \in Nat
    BY DEF Shape, TypeOK, View
  <2>2. /\ view[r].adjustedAt <= clock /\ view[r].closedAt <= clock
        /\ view[r].postedAt <= clock /\ view[r].openedAt <= clock
    BY DEF Dated, ViewsDated
  <2> QED BY <1>1, <2>1, <2>2
<1> QED BY <1>2, <1>3 DEF After

(* Each step of a call adds what it has read to what the call sees.        *)
LEMMA OpenSeesMore ==
  ASSUME Shape, Dated, ~Simultaneous, NEW r \in Requests, Advance(r), op[r].kind = "open",
         OpenSees(op[r], view[r], stage[r])
  PROVE  OpenSees(op[r], view'[r], stage[r] + 1)
<1> DEFINE o == op[r]
           v == view[r]
           n == stage[r]
           w == view'[r]
           look == Plan(o)[n].look
<1>1. /\ n \in 1..Len(Plan(o)) /\ clock' \in Nat
      /\ look \cap Dates # {} => clock < clock'
      /\ w = Look(o, v, look, clock')
  BY AdvanceFacts
<1>2. /\ w.existing = IF "existing" \in look THEN OpenOn(o.to) ELSE v.existing
      /\ w.postedAt = IF "postedAt" \in look THEN clock' ELSE v.postedAt
      /\ w.openedAt = IF "openedAt" \in look THEN clock' ELSE v.openedAt
  BY <1>1 DEF Look
<1>3. look \cap Dates # {} => After(clock') /\ v.postedAt < clock' BY <1>1, LaterThanAll
<1> HIDE DEF w, v
<1>4. CASE Funded(o)
  <2>1. Len(Plan(o)) = 5 BY <1>4, OpenSteps
  <2>2. n \in {1, 2, 3, 4, 5} BY <1>1, <2>1
  <2>3. look = CASE n = 1 -> {"existing"} [] n = 2 -> {} [] n = 3 -> {"desks"}
                 [] n = 4 -> {"funds", "postedAt"} [] n = 5 -> {"openedAt"}
    <3>1. /\ Plan(o)[1] = Step({}, {"existing"})
          /\ Plan(o)[2] = Step({AccountLock(Earlier(o.from, o.to))}, {})
          /\ Plan(o)[3] = Step({AccountLock(Later(o.from, o.to))}, {"desks"})
          /\ Plan(o)[4] = Step({}, {"funds", "postedAt"}) /\ Plan(o)[5] = Step({}, {"openedAt"})
      BY <1>4, OpenSteps
    <3>2. /\ Plan(o)[1].look = {"existing"} /\ Plan(o)[2].look = {} /\ Plan(o)[3].look = {"desks"}
          /\ Plan(o)[4].look = {"funds", "postedAt"} /\ Plan(o)[5].look = {"openedAt"}
      BY <3>1 DEF Step
    <3> QED BY <2>2, <3>2
  <2> SUFFICES OpenSees(o, w, n + 1) BY DEF o, w, n
  <2> HIDE DEF look, n, o
  <2>4. OpenSees(o, v, n) BY DEF o, v, n
  <2>5. CASE n = 1 BY <1>2, <1>4, <2>3, <2>5 DEF OpenSees
  <2>6. CASE n \in {2, 3} BY <1>2, <1>4, <2>3, <2>4, <2>6 DEF OpenSees
  <2>7. CASE n = 4 BY <1>2, <1>3, <1>4, <2>3, <2>4, <2>7 DEF OpenSees, Dates
  <2>8. CASE n = 5 BY <1>2, <1>3, <1>4, <2>3, <2>4, <2>8 DEF OpenSees, Dates
  <2> QED BY <2>2, <2>5, <2>6, <2>7, <2>8
<1>5. CASE ~Funded(o)
  <2>1. Len(Plan(o)) = 2 BY <1>5, OpenSteps
  <2>2. n \in {1, 2} BY <1>1, <2>1
  <2>3. look = IF n = 1 THEN {"existing"} ELSE {"openedAt"}
    <3>1. Plan(o)[1] = Step({}, {"existing"}) /\ Plan(o)[2] = Step({}, {"openedAt"}) BY <1>5, OpenSteps
    <3> QED BY <2>2, <3>1 DEF Step
  <2> SUFFICES OpenSees(o, w, n + 1) BY DEF o, w, n
  <2> HIDE DEF look, n, o
  <2>4. OpenSees(o, v, n) BY DEF o, v, n
  <2>5. CASE n = 1 BY <1>2, <1>5, <2>3, <2>5 DEF OpenSees
  <2>6. CASE n = 2 BY <1>2, <1>3, <1>5, <2>3, <2>4, <2>6 DEF OpenSees, Dates
  <2> QED BY <2>2, <2>5, <2>6
<1> QED BY <1>4, <1>5

\* A transfer that is alone takes its date after all others.
LEMMA TransferSeesMore ==
  ASSUME Shape, Dated, ~Simultaneous, NEW r \in Requests, Advance(r), op[r].kind = "transfer"
  PROVE  TransferSees(view'[r], stage[r] + 1)
<1> DEFINE o == op[r]
           n == stage[r]
           w == view'[r]
           look == Plan(o)[n].look
<1>1. /\ n \in 1..Len(Plan(o)) /\ clock' \in Nat
      /\ look \cap Dates # {} => clock < clock'
      /\ w = Look(o, view[r], look, clock')
  BY AdvanceFacts
<1>2. "postedAt" \in look => w.postedAt = clock' /\ After(clock')
  BY <1>1, LaterThanAll DEF Look, Dates
<1>3. Len(Plan(o)) = 2 BY TransferSteps
<1>4. n \in {1, 2} BY <1>1, <1>3
<1>5. n = 2 => "postedAt" \in look
  <2>1. Plan(o)[2] = Step({}, {"funds", "postedAt"}) BY TransferSteps
  <2> QED BY <2>1 DEF Step
<1> HIDE DEF look, n, w
<1>6. TransferSees(w, n + 1) BY <1>2, <1>4, <1>5 DEF TransferSees
<1> QED BY <1>6 DEF w, n

\* So does a close, and it reads what its drawer holds.
LEMMA CloseSeesMore ==
  ASSUME Shape, Dated, ~Simultaneous, NEW r \in Requests, Advance(r), op[r].kind = "close",
         CloseSees(op[r], view[r], stage[r])
  PROVE  CloseSees(op[r], view'[r], stage[r] + 1)
<1> DEFINE o == op[r]
           v == view[r]
           n == stage[r]
           w == view'[r]
           look == Plan(o)[n].look
<1>1. /\ n \in 1..Len(Plan(o)) /\ clock' \in Nat
      /\ look \cap Dates # {} => clock < clock'
      /\ w = Look(o, v, look, clock')
  BY AdvanceFacts
<1>2. /\ w.existing = IF "existing" \in look THEN OpenOn(Destination(o)) \ {o.session} ELSE v.existing
      /\ w.expected = IF "expected" \in look THEN ExpectedClosing(o.session) ELSE v.expected
      /\ w.adjustedAt = IF "adjustedAt" \in look THEN clock' ELSE v.adjustedAt
      /\ w.closedAt = IF "closedAt" \in look THEN clock' ELSE v.closedAt
      /\ w.postedAt = IF "postedAt" \in look THEN clock' ELSE v.postedAt
      /\ w.openedAt = IF "openedAt" \in look THEN clock' ELSE v.openedAt
  BY <1>1 DEF Look
<1>3. look \cap Dates # {} =>
        After(clock') /\ v.adjustedAt < clock' /\ v.closedAt < clock' /\ v.postedAt < clock'
  BY <1>1, LaterThanAll
<1>4. Len(Plan(o)) = 5 \/ Len(Plan(o)) = 3 BY CloseSteps
<1>5. n \in {1, 2, 3} \/ (Len(Plan(o)) = 5 /\ n \in {4, 5})
  <2>1. CASE Len(Plan(o)) = 5 BY <1>1, <2>1
  <2>2. CASE Len(Plan(o)) = 3 BY <1>1, <2>2
  <2> QED BY <1>4, <2>1, <2>2
<1>6. look = CASE n = 1 -> {"session"} [] n = 2 -> {"expected", "adjustedAt"} [] n = 3 -> {"closedAt"}
               [] n = 4 -> {"funds", "postedAt"} [] n = 5 -> {"existing", "openedAt"}
  <2>1. CASE n \in {1, 2, 3}
    <3>1. /\ Plan(o)[1] = Step({SessionLock(o.session)}, {"session"})
          /\ Plan(o)[2] = Step({}, {"expected", "adjustedAt"}) /\ Plan(o)[3] = Step({}, {"closedAt"})
      BY CloseSteps
    <3>2. /\ Plan(o)[1].look = {"session"} /\ Plan(o)[2].look = {"expected", "adjustedAt"}
          /\ Plan(o)[3].look = {"closedAt"}
      BY <3>1 DEF Step
    <3> HIDE DEF o, n
    <3>3. CASE n = 1 BY <3>2, <3>3
    <3>4. CASE n = 2 BY <3>2, <3>4
    <3>5. CASE n = 3 BY <3>2, <3>5
    <3> QED BY <2>1, <3>3, <3>4, <3>5
  <2>2. CASE Len(Plan(o)) = 5 /\ n \in {4, 5}
    <3>1. /\ Plan(o)[4] = Step({}, {"funds", "postedAt"})
          /\ Plan(o)[5] = Step({}, {"existing", "openedAt"})
      BY <2>2, CloseSteps
    <3>2. Plan(o)[4].look = {"funds", "postedAt"} /\ Plan(o)[5].look = {"existing", "openedAt"}
      BY <3>1 DEF Step
    <3> HIDE DEF o, n
    <3>3. CASE n = 4 BY <3>2, <3>3
    <3>4. CASE n = 5 BY <3>2, <3>4
    <3> QED BY <2>2, <3>3, <3>4
  <2> QED BY <1>5, <2>1, <2>2
<1> SUFFICES CloseSees(o, w, n + 1) OBVIOUS
<1> HIDE DEF look, n, o, w, v
<1>7. CloseSees(o, v, n) BY DEF o, v, n
<1>8. n \in {1, 2, 3, 4, 5} BY <1>5
<1>9. CASE n = 1 BY <1>9 DEF CloseSees
<1>10. CASE n = 2 BY <1>2, <1>3, <1>6, <1>10 DEF CloseSees, Dates
<1>11. CASE n = 3 BY <1>2, <1>3, <1>6, <1>7, <1>11 DEF CloseSees, Dates
<1>12. CASE n = 4 BY <1>2, <1>3, <1>6, <1>7, <1>12 DEF CloseSees, Dates
<1>13. CASE n = 5 BY <1>2, <1>3, <1>6, <1>7, <1>13 DEF CloseSees, Dates
<1> QED BY <1>8, <1>9, <1>10, <1>11, <1>12, <1>13

(* What a call sees is about rows only: it stays as long as they do.       *)
LEMMA SeesKept ==
  ASSUME Shape, UNCHANGED <<session, move>>, NEW s \in Requests, Running(s),
         op'[s] = op[s], view'[s] = view[s], stage'[s] = stage[s], Sees(op[s], view[s], stage[s])
  PROVE  Sees(op[s], view[s], stage[s])'
<1>1. SessionsStay BY DEF SessionsStay
<1>2. CallOK(op[s]) /\ op[s].kind \in Kinds BY CallFacts
<1>3. Funded(op[s])' = Funded(op[s]) BY <1>1, <1>2, PlanStays
<1>4. OpenSees(op[s], view[s], stage[s]) => OpenSees(op[s], view[s], stage[s])'
  BY <1>3 DEF OpenSees, After, OpenOn
<1>5. TransferSees(view[s], stage[s]) => TransferSees(view[s], stage[s])' BY DEF TransferSees, After
<1>6. CloseSees(op[s], view[s], stage[s]) => CloseSees(op[s], view[s], stage[s])'
  BY DEF CloseSees, After, OpenOn, Destination, ExpectedClosing, Net
<1> QED BY <1>4, <1>5, <1>6 DEF Sees

\* What a call has seen in its turn stands when one takes a step ...
LEMMA TurnReadsAdvance ==
  ASSUME Shape, Dated, ~Simultaneous, TurnReads, NEW r \in Requests, Advance(r)
  PROVE  TurnReads'
<1> SUFFICES ASSUME InTurn', NEW s \in Requests, Running(s)'
             PROVE  Sees(op[s], view[s], stage[s])' /\ \A t \in Requests : Running(t)' => t = s
  BY DEF TurnReads
<1>1. /\ Running(r) /\ UNCHANGED <<session, move, op, workload>> /\ stage'[r] = stage[r] + 1
  BY AdvanceFacts
<1>2. InTurn /\ \A t \in Requests : Running(t)' = Running(t) BY <1>1 DEF InTurn, Running
<1>3. s = r /\ Sees(op[r], view[r], stage[r]) /\ \A t \in Requests : Running(t)' => t = r
  BY <1>1, <1>2 DEF TurnReads
<1>4. Sees(op[r], view'[r], stage[r] + 1)
  BY <1>3, OpenSeesMore, TransferSeesMore, CloseSeesMore DEF Sees
<1> DEFINE o == op[r]
           w == view'[r]
           n == stage'[r]
<1>5. Sees(o, w, n) BY <1>1, <1>4
<1>6. CallOK(o) /\ o.kind \in Kinds BY <1>1, CallFacts
<1>7. SessionsStay BY <1>1 DEF SessionsStay
<1>8. Funded(op[r])' = Funded(o) /\ op'[r] = o BY <1>1, <1>6, <1>7, PlanStays
<1>9. OpenSees(o, w, n) => OpenSees(op[r], view[r], stage[r])'
  BY <1>1, <1>8 DEF OpenSees, After, OpenOn
<1>10. TransferSees(w, n) => TransferSees(view[r], stage[r])' BY <1>1 DEF TransferSees, After
<1>11. CloseSees(o, w, n) => CloseSees(op[r], view[r], stage[r])'
  BY <1>1 DEF CloseSees, After, OpenOn, Destination, ExpectedClosing, Net
<1> HIDE DEF w, n
<1> QED BY <1>3, <1>5, <1>8, <1>9, <1>10, <1>11 DEF Sees

(* A call that begins has seen nothing yet, and begins alone.              *)
LEMMA TurnReadsBegin ==
  ASSUME Shape, TurnReads, NEW r \in Requests, Begin(r)
  PROVE  TurnReads'
<1> SUFFICES ASSUME InTurn', NEW s \in Requests, Running(s)'
             PROVE  Sees(op[s], view[s], stage[s])' /\ \A t \in Requests : Running(t)' => t = s
  BY DEF TurnReads
<1>1. PICK o \in Calls : Allowed(o.kind) BY DEF Begin
<1>2. InTurn BY DEF InTurn, Begin
<1>3. InFlight = {} BY <1>1, <1>2 DEF Allowed, InTurn
<1>4. /\ stage'[r] = 1
      /\ \A t \in Requests \ {r} : op'[t] = op[t]
  BY DEF Begin, Shape, TypeOK
<1>5. \A t \in Requests : Running(t)' => t = r BY <1>3, <1>4 DEF InFlight, Running
<1>6. s = r /\ stage'[s] = 1 BY <1>4, <1>5
<1>7. Sees(op[s], view[s], stage[s])' BY <1>6 DEF Sees, OpenSees, TransferSees, CloseSees
<1> QED BY <1>5, <1>6, <1>7

\* ... when one ends, for then no other runs ...
LEMMA TurnReadsFinish ==
  ASSUME Shape, TurnReads, NEW r \in Requests, Running(r), NEW o \in {Idle, Done}, Finish(r, o)
  PROVE  TurnReads'
<1> SUFFICES ASSUME InTurn', NEW s \in Requests, Running(s)' PROVE FALSE BY DEF TurnReads
<1>1. /\ ~Running(r)' /\ workload' = workload
      /\ \A t \in Requests \ {r} : op'[t] = op[t]
  BY FinishFacts
<1>2. s # r /\ Running(s) BY <1>1 DEF Running
<1>3. InTurn BY <1>1 DEF InTurn
<1> QED BY <1>2, <1>3 DEF TurnReads

\* ... and in every step ...
LEMMA TurnReadsNext == ~Simultaneous /\ Shape /\ Dated /\ TurnReads /\ [Next]_vars => TurnReads'
<1> SUFFICES ASSUME ~Simultaneous, Shape, Dated, TurnReads, [Next]_vars PROVE TurnReads' OBVIOUS
<1>1. CASE UNCHANGED vars
  <2> SUFFICES ASSUME InTurn', NEW s \in Requests, Running(s)'
               PROVE  Sees(op[s], view[s], stage[s])' /\ \A t \in Requests : Running(t)' => t = s
    BY DEF TurnReads
  <2>1. UNCHANGED <<session, move, op, stage, view, workload>> BY <1>1 DEF vars
  <2>2. InTurn /\ \A t \in Requests : Running(t)' = Running(t) BY <2>1 DEF InTurn, Running
  <2>3. Sees(op[s], view[s], stage[s]) /\ \A t \in Requests : Running(t) => t = s BY <2>2 DEF TurnReads
  <2> QED BY <2>1, <2>2, <2>3, SeesKept
<1>2. CASE \E r \in Requests : Begin(r) BY <1>2, TurnReadsBegin
<1>3. CASE \E r \in Requests : Advance(r) BY <1>3, TurnReadsAdvance
<1>4. CASE \E r \in Requests : Reject(r) \/ Abort(r) BY <1>4, TurnReadsFinish DEF Reject, Abort
<1>5. CASE \E r \in Requests : Commit(r) BY <1>5, CommitEnds, TurnReadsFinish
<1> QED BY <1>1, <1>2, <1>3, <1>4, <1>5 DEF Next, Commit

\* ... from the first.
LEMMA TurnReadsInitially == Init => TurnReads
BY NoneRunsAtFirst DEF TurnReads

(* At the end of its plan, one call at a time, a call has seen everything. *)
LEMMA TurnEnds ==
  ASSUME Shape, TurnReads, InTurn, NEW r \in Requests, Commit(r)
  PROVE  /\ op[r].kind = "open" =>
              /\ view[r].existing = OpenOn(op[r].to)
              /\ Funded(op[r]) => After(view[r].postedAt) /\ view[r].postedAt < view[r].openedAt
              /\ ~Funded(op[r]) => After(view[r].openedAt)
         /\ op[r].kind = "transfer" => After(view[r].postedAt)
         /\ op[r].kind = "close" =>
              /\ After(view[r].adjustedAt) /\ view[r].expected = ExpectedClosing(op[r].session)
              /\ view[r].adjustedAt < view[r].closedAt
              /\ HandsOver(op[r]) \/ op[r].user # None =>
                   /\ view[r].closedAt < view[r].postedAt /\ view[r].postedAt < view[r].openedAt
                   /\ view[r].existing = OpenOn(Destination(op[r])) \ {op[r].session}
<1> DEFINE o == op[r]
           v == view[r]
           n == stage[r]
<1>1. Running(r) /\ AtEnd(r) BY CommitEnds
<1>2. Sees(o, v, n) BY <1>1 DEF TurnReads
<1>3. n = Len(Plan(o)) + 1 BY <1>1, CallFacts
<1>4. CASE o.kind = "open"
  <2>1. OpenSees(o, v, n) BY <1>2, <1>4 DEF Sees
  <2>2. CASE Funded(o)
    <3>1. Len(Plan(o)) = 5 BY <1>4, <2>2, OpenSteps
    <3>2. n = 6 BY <1>3, <3>1
    <3> HIDE DEF n, o, v
    <3>3. v.existing = OpenOn(o.to) /\ After(v.postedAt) /\ v.postedAt < v.openedAt
      BY <2>1, <2>2, <3>2 DEF OpenSees
    <3> QED BY <1>4, <2>2, <3>3 DEF o, v
  <2>3. CASE ~Funded(o)
    <3>1. Len(Plan(o)) = 2 BY <1>4, <2>3, OpenSteps
    <3>2. n = 3 BY <1>3, <3>1
    <3> HIDE DEF n, o, v
    <3>3. v.existing = OpenOn(o.to) /\ After(v.openedAt) BY <2>1, <2>3, <3>2 DEF OpenSees
    <3> QED BY <1>4, <2>3, <3>3 DEF o, v
  <2> QED BY <2>2, <2>3
<1>5. CASE o.kind = "transfer"
  <2>1. TransferSees(v, n) BY <1>2, <1>5 DEF Sees
  <2>2. Len(Plan(o)) = 2 BY <1>5, TransferSteps
  <2>3. n = 3 BY <1>3, <2>2
  <2> HIDE DEF n, o, v
  <2>4. After(v.postedAt) BY <2>1, <2>3 DEF TransferSees
  <2> QED BY <1>5, <2>4 DEF o, v
<1>6. CASE o.kind = "close"
  <2>1. CloseSees(o, v, n) BY <1>2, <1>6 DEF Sees
  <2>2. Len(Plan(o)) = IF HandsOver(o) \/ o.user # None THEN 5 ELSE 3 BY <1>6, CloseSteps
  <2>3. n = IF HandsOver(o) \/ o.user # None THEN 6 ELSE 4 BY <1>3, <2>2
  <2> HIDE DEF n, o, v
  <2>4. After(v.adjustedAt) /\ v.expected = ExpectedClosing(o.session) /\ v.adjustedAt < v.closedAt
    BY <2>1, <2>3 DEF CloseSees
  <2>5. HandsOver(o) \/ o.user # None =>
          /\ v.closedAt < v.postedAt /\ v.postedAt < v.openedAt
          /\ v.existing = OpenOn(Destination(o)) \ {o.session}
    BY <2>1, <2>3 DEF CloseSees
  <2> QED BY <1>6, <2>4, <2>5 DEF o, v
<1>7. o.kind \in Kinds BY <1>1, CallFacts
<1> QED BY <1>4, <1>5, <1>6, <1>7 DEF Kinds

---------------------------------------------------------------------------
(* Shifts, one call after the other.                                       *)

\* A number after one that lies after every date lies after every date.
LEMMA AfterLater ==
  ASSUME Shape, NEW m \in Nat, NEW n \in Nat, m < n, After(m) PROVE After(n)
<1> SUFFICES ASSUME NEW s \in Requests
             PROVE  /\ move[s].date < n /\ session[s].openedAt < n
                    /\ session[s].closedAt < n /\ session[s].adjustedAt < n
  BY DEF After
<1>1. /\ move[s].date \in Nat /\ session[s].openedAt \in Nat
      /\ session[s].closedAt \in Nat /\ session[s].adjustedAt \in Nat
  BY RowFacts DEF Shape
<1>2. /\ move[s].date < m /\ session[s].openedAt < m
      /\ session[s].closedAt < m /\ session[s].adjustedAt < m
  BY DEF After
<1> QED BY <1>1, <1>2

(* What a commit posts is dated later than everything that is there.       *)
LEMMA PostedAfter ==
  ASSUME Shape, TurnReads, InTurn, NEW r \in Requests, Commit(r)
  PROVE  move'[r] = move[r] \/ (move'[r].date \in Nat /\ After(move'[r].date))
<1>0. view[r].postedAt \in Nat /\ view[r].adjustedAt \in Nat /\ view[r].closedAt \in Nat
  BY DEF Shape, TypeOK, View
<1>1. CASE Open(r) BY <1>0, <1>1, OpenFacts, TurnEnds
<1>2. CASE Move(r) BY <1>0, <1>2, MoveFacts, TurnEnds
<1>3. CASE Close(r)
  <2>1. op[r].kind = "close" BY <1>3, CloseFacts
  <2>2. CASE HandsOver(op[r])
    <3>1. /\ After(view[r].adjustedAt) /\ view[r].adjustedAt < view[r].closedAt
          /\ view[r].closedAt < view[r].postedAt
      BY <2>1, <2>2, TurnEnds
    <3>2. view[r].adjustedAt < view[r].postedAt BY <1>0, <3>1
    <3>3. After(view[r].postedAt) BY <1>0, <3>1, <3>2, AfterLater
    <3>4. move'[r].date = view[r].postedAt BY <1>3, <2>2, CloseFacts
    <3> QED BY <1>0, <3>3, <3>4
  <2>3. CASE ~HandsOver(op[r]) BY <1>3, <2>3, CloseFacts
  <2> QED BY <2>2, <2>3
<1> QED BY <1>1, <1>2, <1>3 DEF Commit

(* The rounding of a session that is being closed comes after the close of *)
(* all others.                                                             *)
LEMMA RoundedAfter ==
  ASSUME Shape, Dated, CloseReads, TurnReads, InTurn, NEW r \in Requests, Commit(r),
         NEW t \in Requests, session'[t] # session[t]
  PROVE  /\ session[t].adjustment = 0
         /\ session'[t].adjustment = 0 \/ (session'[t].adjustedAt \in Nat /\ After(session'[t].adjustedAt))
<1>0. Running(r) /\ AtEnd(r) /\ session[r] = NoSession /\ stage[r] > 1 BY CommitEnds, CallFacts
<1>1. session[r].adjustment = 0 BY <1>0 DEF NoSession
<1>2. CASE Open(r)
  <2>1. t = r /\ session'[r] = NewSession(op[r].to, op[r].user, view[r].openedAt, op[r].amount)
    BY <1>2, OpenFacts
  <2> QED BY <1>1, <2>1, NewSessionIs
<1>3. CASE Move(r) BY <1>3, MoveFacts
<1>4. CASE Close(r)
  <2> DEFINE c == op[r].session
  <2>1. /\ op[r].kind = "close" /\ c \in Requests /\ view[r].session.status = "OPEN"
        /\ session'[c].adjustedAt = view[r].adjustedAt
        /\ \A s \in Requests : s # r /\ s # c => session'[s] = session[s]
    BY <1>4, CloseFacts
  <2>2. CASE t = c
    <3>1. session[c].status = "OPEN" BY <1>0, <2>1 DEF CloseReads
    <3>2. session[c].adjustment = 0 BY <2>1, <3>1 DEF Dated, Unrounded
    <3>3. After(view[r].adjustedAt) BY <2>1, TurnEnds
    <3>4. view[r].adjustedAt \in Nat BY DEF Shape, TypeOK, View
    <3> QED BY <2>1, <2>2, <3>2, <3>3, <3>4
  <2>3. CASE t = r
    <3>1. session'[r] = NoSession
          \/ session'[r] = NewSession(Destination(op[r]), op[r].user, view[r].openedAt, op[r].amount)
      BY <1>4, CloseFacts
    <3>2. session'[r].adjustment = 0
      <4>1. CASE session'[r] = NoSession BY <4>1 DEF NoSession
      <4>2. CASE session'[r] # NoSession BY <3>1, <4>2, NewSessionIs
      <4> QED BY <4>1, <4>2
    <3> QED BY <1>1, <2>3, <3>2
  <2> QED BY <2>1, <2>2, <2>3
<1> QED BY <1>2, <1>3, <1>4 DEF Commit

(* So nothing more counts for a shift that is over.                        *)
LEMMA NetStays ==
  ASSUME Shape, Dated, CloseReads, TurnReads, InTurn, NEW r \in Requests, Commit(r),
         NEW s \in Requests, NEW a, NEW first \in Nat, NEW last, last = session[s].closedAt
  PROVE  Net(a, first, last, None)' = Net(a, first, last, None)
<1>0. last \in Nat BY RowFacts DEF Shape
<1>1. ASSUME NEW t \in Requests PROVE Moved(a, first, last)'[t] = Moved(a, first, last)[t]
  <2>1. CASE move'[t] = move[t] BY <2>1 DEF Moved
  <2>2. CASE move'[t] # move[t]
    <3>1. t = r BY <2>2, CommitFacts
    <3>2. move'[r].date \in Nat /\ After(move'[r].date) BY <2>2, <3>1, PostedAfter
    <3>3. last < move'[r].date BY <3>2 DEF After
    <3>4. move'[r].date \notin first..last BY <1>0, <3>2, <3>3
    <3>5. move[r] = NoTransfer BY CommitEnds, CallFacts
    <3>6. Moved(a, first, last)[r] = 0 BY <3>5 DEF Moved, NoTransfer
    <3>7. Moved(a, first, last)'[r] = 0 BY <3>4 DEF Moved
    <3> QED BY <3>1, <3>6, <3>7
  <2> QED BY <2>1, <2>2
<1>2. ASSUME NEW t \in Requests PROVE Adjusted(a, first, last, None)'[t] = Adjusted(a, first, last, None)[t]
  <2>1. CASE session'[t] = session[t] BY <2>1 DEF Adjusted
  <2>2. CASE session'[t] # session[t]
    <3>1. /\ session[t].adjustment = 0
          /\ session'[t].adjustment = 0 \/ (session'[t].adjustedAt \in Nat /\ After(session'[t].adjustedAt))
      BY <2>2, RoundedAfter
    <3>2. session'[t].adjustment = 0 \/ session'[t].adjustedAt \notin first..last
      <4>1. CASE session'[t].adjustedAt \in Nat /\ After(session'[t].adjustedAt)
        <5>1. last < session'[t].adjustedAt BY <4>1 DEF After
        <5> QED BY <1>0, <4>1, <5>1
      <4> QED BY <3>1, <4>1
    <3> QED BY <3>1, <3>2 DEF Adjusted
  <2> QED BY <2>1, <2>2
<1>3. Moved(a, first, last)' = Moved(a, first, last) BY <1>1 DEF Moved
<1>4. Adjusted(a, first, last, None)' = Adjusted(a, first, last, None) BY <1>2 DEF Adjusted
<1>5. Net(a, first, last, None)
        = SumFunction(Moved(a, first, last)) + SumFunction(Adjusted(a, first, last, None))
  BY NetIs
<1>6. Net(a, first, last, None)'
        = SumFunction(Moved(a, first, last)') + SumFunction(Adjusted(a, first, last, None)')
  BY DEF Net, Moved, Adjusted
<1> QED BY <1>3, <1>4, <1>5, <1>6

(* A shift that ends is explained by what it has seen.                     *)
LEMMA EndExplained ==
  ASSUME Shape, Dated, CloseReads, TurnReads, InTurn, NEW r \in Requests, Close(r), NEW c, c = op[r].session,
         NEW d, d = session[c].drawer, NEW first, first = session[c].openedAt, NEW last, last = view[r].closedAt
  PROVE  session'[c].opening + Net(d, first, last, None)' = session'[c].actual
<1> DEFINE o == op[r]
           v == view[r]
           M == Moved(d, first, MaxClock)
           A == Adjusted(d, first, MaxClock, c)
           N == Moved(d, first, last)'
           B == Adjusted(d, first, last, None)'
<1>0. Commit(r) /\ TypeOK /\ IsFiniteSet(Requests) BY DeskAssumption DEF Commit, Shape
<1>1. /\ o.kind = "close" /\ c \in Requests /\ c # r /\ session[c].status # "NONE"
      /\ session'[c].drawer = session[c].drawer /\ session'[c].opening = session[c].opening
      /\ session'[c].actual = o.amount /\ session'[c].adjustedAt = v.adjustedAt
      /\ session'[c].adjustment = Adjustment(o, v) /\ Adjustment(o, v) \in Int
      /\ \A s \in Requests : s # r /\ s # c => session'[s] = session[s]
  BY CloseFacts
<1>2. After(v.adjustedAt) /\ v.expected = ExpectedClosing(c) /\ v.adjustedAt < v.closedAt
      /\ (HandsOver(o) => v.closedAt < v.postedAt)
  BY <1>0, <1>1, TurnEnds
<1>3. /\ v.adjustedAt \in Nat /\ v.closedAt \in Nat /\ v.postedAt \in Nat /\ v.expected \in Int
      /\ o.amount \in Nat
  BY DEF Shape, TypeOK, View, Operation
<1>4. first \in Nat /\ session[c].opening \in Nat /\ MaxClock \in Nat /\ clock \in Nat /\ clock <= MaxClock
  BY <1>0, <1>1, RowFacts, DeskAssumption DEF TypeOK
<1>5. move[r] = NoTransfer /\ session[r] = NoSession BY <1>0, CommitEnds, CallFacts
<1>6. ASSUME NEW t \in Requests, move[t] # NoTransfer \/ t # r, t # r
      PROVE  move[t].date \in first..last <=> move[t].date \in first..MaxClock
  <2>1. move[t].date \in Nat BY <1>0, RowFacts
  <2>2. move[t].date < v.adjustedAt BY <1>2 DEF After
  <2>3. move[t].date <= clock BY DEF Dated, RowsDated
  <2> QED BY <1>2, <1>3, <1>4, <2>1, <2>2, <2>3
<1>7. \A t \in Requests \ {r} : move'[t] = move[t] BY CloseFacts
<1>8. ASSUME NEW t \in Requests PROVE N[t] = M[t]
  <2>1. CASE t # r
    <3>1. move'[t] = move[t] BY <1>7, <2>1
    <3>2. move[t].date \in first..last <=> move[t].date \in first..MaxClock BY <1>6, <2>1
    <3> QED BY <3>1, <3>2 DEF Moved
  <2>2. CASE t = r
    <3>1. M[r] = 0 BY <1>5 DEF Moved, NoTransfer
    <3>2. CASE HandsOver(o)
      <4>1. move'[r].date = v.postedAt BY <3>2, CloseFacts
      <4>2. move'[r].date \notin first..last BY <1>2, <1>3, <1>4, <3>2, <4>1
      <4>3. N[r] = 0 BY <4>2 DEF Moved
      <4> QED BY <2>2, <3>1, <4>3
    <3>3. CASE ~HandsOver(o)
      <4>1. move'[r] = NoTransfer BY <1>5, <3>3, CloseFacts
      <4>2. N[r] = 0 BY <4>1 DEF Moved, NoTransfer
      <4> QED BY <2>2, <3>1, <4>2
    <3> QED BY <3>2, <3>3
  <2> QED BY <2>1, <2>2
<1>9. N = M
  <2>1. N = [t \in Requests |-> N[t]] /\ M = [t \in Requests |-> M[t]] BY DEF Moved
  <2> HIDE DEF N, M
  <2> QED BY <1>8, <2>1
<1>10. A[c] = 0 BY <1>1 DEF Adjusted
<1>11. B[c] = Adjustment(o, v)
  <2>1. first < v.adjustedAt BY <1>1, <1>2 DEF After
  <2>2. session'[c].adjustedAt \in first..last BY <1>1, <1>2, <1>3, <1>4, <2>1
  <2>3. c # None BY <1>1, DeskAssumption
  <2> QED BY <1>1, <2>2, <2>3 DEF Adjusted
<1>12. ASSUME NEW t \in Requests, t # c PROVE B[t] = A[t]
  <2>0. t # None BY DeskAssumption
  <2>1. CASE t # r
    <3>1. session'[t] = session[t] BY <1>1, <1>12, <2>1
    <3>2. session[t].adjustedAt \in first..last <=> session[t].adjustedAt \in first..MaxClock
      <4>1. session[t].adjustedAt \in Nat BY <1>0, RowFacts
      <4>2. session[t].adjustedAt < v.adjustedAt BY <1>2 DEF After
      <4>3. session[t].adjustedAt <= clock BY DEF Dated, RowsDated
      <4> QED BY <1>2, <1>3, <1>4, <4>1, <4>2, <4>3
    <3> QED BY <1>12, <2>0, <3>1, <3>2 DEF Adjusted
  <2>2. CASE t = r
    <3>1. session'[r] = NoSession
          \/ session'[r] = NewSession(Destination(op[r]), op[r].user, view[r].openedAt, op[r].amount)
      BY CloseFacts
    <3>2. session'[r].adjustment = 0
      <4>1. CASE session'[r] = NoSession BY <4>1 DEF NoSession
      <4>2. CASE session'[r] # NoSession BY <3>1, <4>2, NewSessionIs
      <4> QED BY <4>1, <4>2
    <3>3. B[r] = 0 BY <3>2 DEF Adjusted
    <3>4. session[r].adjustment = 0 BY <1>5 DEF NoSession
    <3>5. A[r] = 0 BY <3>4 DEF Adjusted
    <3> QED BY <2>2, <3>3, <3>5
  <2> QED BY <2>1, <2>2
<1>13. A \in [Requests -> Int] /\ M \in [Requests -> Int] BY <1>0, TermTypes
<1>14. B \in [Requests -> Int]
  <2>1. B = [t \in Requests |-> B[t]] BY DEF Adjusted
  <2> HIDE DEF A, B
  <2>2. \A t \in Requests : B[t] \in Int BY <1>1, <1>11, <1>12, <1>13
  <2> QED BY <2>1, <2>2
<1>15. ExpectedClosing(c) = session[c].opening + (SumFunction(M) + SumFunction(A))
  BY NetIs DEF ExpectedClosing
<1>16. Net(d, first, last, None)' = SumFunction(N) + SumFunction(B)
  BY DEF Net, Moved, Adjusted
<1>17. SumFunction(M) \in Int /\ SumFunction(A) \in Int BY <1>0, <1>13, SumType
<1> HIDE DEF A, B, M, N
<1>18. SumFunction(B) = SumFunction(A) - A[c] + B[c]
  <2>1. \A t \in Requests \ {c} : B[t] = A[t] BY <1>12
  <2> QED BY <1>0, <1>1, <1>13, <1>14, <2>1, SumChange
<1>19. Adjustment(o, v) = o.amount - v.expected BY DEF Adjustment
<1> DEFINE m == SumFunction(M)
           x == SumFunction(A)
           opening == session[c].opening
<1>20. Net(d, first, last, None)' = m + (x + (o.amount - (opening + (m + x))))
  <2>1. SumFunction(B) = x + (o.amount - v.expected)
    <3> HIDE DEF x, o, v
    <3>1. SumFunction(B) = x - 0 + (o.amount - v.expected) BY <1>10, <1>11, <1>18, <1>19 DEF x
    <3> QED BY <1>3, <1>17, <3>1 DEF x, o, v
  <2> QED BY <1>2, <1>9, <1>15, <1>16, <2>1
<1>21. opening + Net(d, first, last, None)' = o.amount
  <2> DEFINE y == Net(d, first, last, None)'
             k == o.amount
  <2>1. y = m + (x + (k - (opening + (m + x)))) BY <1>20
  <2>2. m \in Int /\ x \in Int /\ opening \in Int /\ k \in Int BY <1>3, <1>4, <1>17
  <2> HIDE DEF y, k, m, x, opening
  <2>3. opening + y = k BY <2>1, <2>2
  <2> QED BY <2>3 DEF y, k
<1> QED BY <1>1, <1>21

(* A drawer has one open session at most.                                  *)
OneOpen ==
    InTurn => \A s \in Requests, t \in Requests :
        session[s].status = "OPEN" /\ session[t].status = "OPEN" /\ session[s].drawer = session[t].drawer
            => s = t

(* A session is opened where none is open.                                 *)
LEMMA OneOpenCommit ==
  ASSUME Shape, CloseReads, TurnReads, OneOpen, NEW r \in Requests, Commit(r)
  PROVE  OneOpen'
<1> SUFFICES ASSUME InTurn', NEW s \in Requests, NEW t \in Requests, session'[s].status = "OPEN",
                    session'[t].status = "OPEN", session'[s].drawer = session'[t].drawer
             PROVE  s = t
  BY DEF OneOpen
<1>1. InTurn BY CommitEnds DEF InTurn, Finish
<1>2. session[r] = NoSession BY CommitEnds, CallFacts
<1>3. ASSUME NEW x \in Requests, x # r, session'[x].status = "OPEN" PROVE session'[x] = session[x]
  <2>1. CASE Open(r) BY <1>3, <2>1, OpenFacts
  <2>2. CASE Move(r) BY <2>2, MoveFacts
  <2>3. CASE Close(r)
    <3>1. session'[op[r].session].status = "CLOSED" BY <2>3, CloseFacts
    <3>2. x # op[r].session BY <1>3, <3>1
    <3> QED BY <1>3, <2>3, <3>2, CloseFacts
  <2> QED BY <2>1, <2>2, <2>3 DEF Commit
<1>4. ASSUME NEW x \in Requests, NEW y \in Requests, x # r, y # r, session'[x].status = "OPEN",
             session'[y].status = "OPEN", session'[x].drawer = session'[y].drawer
      PROVE  x = y
  <2>1. session'[x] = session[x] /\ session'[y] = session[y] BY <1>3, <1>4
  <2> QED BY <1>1, <1>4, <2>1 DEF OneOpen
<1>5. ASSUME session'[r].status = "OPEN", NEW x \in Requests, x # r, session'[x].status = "OPEN",
             session'[x].drawer = session'[r].drawer
      PROVE  FALSE
  <2>1. session'[x] = session[x] BY <1>3, <1>5
  <2>2. CASE Open(r)
    <3>1. /\ op[r].kind = "open" /\ Free(view[r])
          /\ session'[r] = NewSession(op[r].to, op[r].user, view[r].openedAt, op[r].amount)
      BY <2>2, OpenFacts
    <3>2. view[r].existing = OpenOn(op[r].to) BY <1>1, <3>1, TurnEnds
    <3>3. OpenOn(op[r].to) = {} BY <3>1, <3>2 DEF Free
    <3>4. session'[r].drawer = op[r].to BY <3>1, NewSessionIs
    <3> QED BY <1>5, <2>1, <3>3, <3>4 DEF OpenOn
  <2>3. CASE Move(r)
    <3>1. session'[r] = NoSession BY <1>2, <2>3, MoveFacts
    <3> QED BY <1>5, <3>1 DEF NoSession
  <2>4. CASE Close(r)
    <3>1. op[r].user # None /\ Free(view[r])
          /\ session'[r] = NewSession(Destination(op[r]), op[r].user, view[r].openedAt, op[r].amount)
      <4>1. session'[r] # NoSession BY <1>5 DEF NoSession
      <4>2. session'[r] = IF op[r].user # None /\ Free(view[r])
                          THEN NewSession(Destination(op[r]), op[r].user, view[r].openedAt, op[r].amount)
                          ELSE NoSession
        BY <2>4, CloseFacts
      <4> QED BY <4>1, <4>2
    <3>2. op[r].kind = "close" /\ session'[op[r].session].status = "CLOSED" BY <2>4, CloseFacts
    <3>3. view[r].existing = OpenOn(Destination(op[r])) \ {op[r].session} BY <1>1, <3>1, <3>2, TurnEnds
    <3>4. x # op[r].session BY <1>5, <3>2
    <3>5. x \notin OpenOn(Destination(op[r])) BY <3>1, <3>3, <3>4 DEF Free
    <3>6. session'[r].drawer = Destination(op[r]) BY <3>1, NewSessionIs
    <3> QED BY <1>5, <2>1, <3>5, <3>6 DEF OpenOn
  <2> QED BY <2>2, <2>3, <2>4 DEF Commit
<1> QED BY <1>4, <1>5

\* A commit leaves every closing explained.
LEMMA ExplainedCommit ==
  ASSUME Shape, Dated, CloseReads, TurnReads, ClosingExplained, NEW r \in Requests, Commit(r)
  PROVE  ClosingExplained'
<1> SUFFICES ASSUME InTurn', NEW s \in Requests, session'[s].status = "CLOSED"
             PROVE  (session[s].opening
                       + Net(session[s].drawer, session[s].openedAt, session[s].closedAt, None))'
                      = session'[s].actual
  BY DEF ClosingExplained
<1>1. InTurn BY CommitEnds DEF InTurn, Finish
<1>2. session[r].status = "NONE" BY CommitEnds, CallFacts
<1> DEFINE d == session'[s].drawer
           first == session'[s].openedAt
           last == session'[s].closedAt
<1>3. CASE session[s].status = "CLOSED"
  <2>1. session'[s] = session[s]
    <3>1. [Next]_vars BY DEF Next, Commit
    <3> QED BY <1>3, <3>1, ClosedStays
  <2>2. PICK a, n, m : a = session[s].drawer /\ n = session[s].openedAt /\ m = session[s].closedAt OBVIOUS
  <2>3. n \in Nat BY <2>2, RowFacts DEF Shape
  <2>4. Net(a, n, m, None)' = Net(a, n, m, None) BY <1>1, <2>2, <2>3, NetStays
  <2>5. session[s].opening + Net(a, n, m, None) = session[s].actual BY <1>1, <1>3, <2>2 DEF ClosingExplained
  <2>6. session'[s].opening + Net(a, n, m, None)' = session'[s].actual BY <2>1, <2>4, <2>5
  <2> QED BY <2>1, <2>2, <2>6
<1>4. CASE session[s].status # "CLOSED"
  <2>1. ~Open(r)
    <3> SUFFICES ASSUME Open(r) PROVE FALSE OBVIOUS
    <3>1. s = r BY <1>4, OpenFacts
    <3>2. session'[r] = NewSession(op[r].to, op[r].user, view[r].openedAt, op[r].amount) BY OpenFacts
    <3> QED BY <3>1, <3>2, NewSessionIs
  <2>2. ~Move(r) BY <1>4, MoveFacts
  <2>3. Close(r) BY <2>1, <2>2 DEF Commit
  <2>4. s # r
    <3> SUFFICES ASSUME s = r PROVE FALSE OBVIOUS
    <3>1. session'[r] = NoSession
          \/ session'[r] = NewSession(Destination(op[r]), op[r].user, view[r].openedAt, op[r].amount)
      BY <2>3, CloseFacts
    <3>2. session'[r].status # "CLOSED"
      <4>1. CASE session'[r] = NoSession BY <4>1 DEF NoSession
      <4>2. CASE session'[r] # NoSession BY <3>1, <4>2, NewSessionIs
      <4> QED BY <4>1, <4>2
    <3> QED BY <3>2
  <2>5. s = op[r].session BY <1>4, <2>3, <2>4, CloseFacts
  <2>6. PICK a, n, m : a = session[s].drawer /\ n = session[s].openedAt /\ m = view[r].closedAt OBVIOUS
  <2>7. session'[s].opening + Net(a, n, m, None)' = session'[s].actual
    BY <1>1, <2>3, <2>5, <2>6, EndExplained
  <2>8. session'[s].drawer = a /\ session'[s].openedAt = n /\ session'[s].closedAt = m
    BY <2>3, <2>5, <2>6, CloseFacts
  <2> QED BY <2>7, <2>8
<1> QED BY <1>3, <1>4

(* What does not write rows leaves both as they are.                       *)
LEMMA ShiftsKept ==
  ASSUME OneOpen, ClosingExplained, UNCHANGED <<session, move, workload>>
  PROVE  OneOpen' /\ ClosingExplained'
<1>1. InTurn' = InTurn BY DEF InTurn
<1>2. \A a, n, m, e : Net(a, n, m, e)' = Net(a, n, m, e) BY DEF Net
<1>3. OneOpen' BY <1>1 DEF OneOpen
<1>4. ClosingExplained' BY <1>1 DEF ClosingExplained, Net
<1> QED BY <1>3, <1>4

\* One open session to a drawer, and every closing explained, after every step.
LEMMA ShiftsNext ==
  Shape /\ Dated /\ CloseReads /\ TurnReads /\ OneOpen /\ ClosingExplained /\ [Next]_vars
    => OneOpen' /\ ClosingExplained'
<1> SUFFICES ASSUME Shape, Dated, CloseReads, TurnReads, OneOpen, ClosingExplained, [Next]_vars
             PROVE  OneOpen' /\ ClosingExplained'
  OBVIOUS
<1>1. CASE UNCHANGED vars BY <1>1, ShiftsKept DEF vars
<1>2. CASE \E r \in Requests : Begin(r) \/ Advance(r) \/ Reject(r) \/ Abort(r)
  BY <1>2, ShiftsKept DEF Begin, Advance, Reject, Abort, Finish
<1>3. CASE \E r \in Requests : Commit(r) BY <1>3, OneOpenCommit, ExplainedCommit
<1> QED BY <1>1, <1>2, <1>3 DEF Next, Commit

\* At first each drawer has the session it starts with.
LEMMA ShiftsInitially == Init => OneOpen /\ ClosingExplained
BY DEF Init, OneOpen, ClosingExplained, NoSession

(* "One session at most" is a matter of counting.                          *)
LEMMA OneOpenCounts == Shape /\ OneOpen => OneOpenInTurn
<1> SUFFICES ASSUME Shape, OneOpen, InTurn, NEW a \in Drawers PROVE Cardinality(OpenOn(a)) <= 1
  BY DEF OneOpenInTurn, OneOpenSession
<1>1. CASE OpenOn(a) = {} BY <1>1, FS_EmptySet
<1>2. CASE OpenOn(a) # {}
  <2>1. PICK s : s \in OpenOn(a) BY <1>2
  <2>2. OpenOn(a) = {s} BY <2>1 DEF OpenOn, OneOpen
  <2> QED BY <2>2, FS_Singleton
<1> QED BY <1>1, <1>2

(* When no two dates fall into one millisecond, one call after the other   *)
(* leaves a drawer with one open session at most, and every closed shift   *)
(* with a count that its opening and what was posted within its dates      *)
(* explain.                                                                *)
THEOREM ShiftsAgreeInvariant == ASSUME ~Simultaneous PROVE Spec => []ShiftsAgree
<1> DEFINE Inv == Shape /\ Dated /\ CloseReads /\ TurnReads /\ OneOpen /\ ClosingExplained
<1>1. Init => Inv BY ShapeInit, DatedInitially, CloseReadsInitially, TurnReadsInitially, ShiftsInitially
<1>2. Inv /\ [Next]_vars => Inv'
  BY ShapeNext, DatedNext, CloseReadsNext, TurnReadsNext, ShiftsNext
<1>3. Inv => ShiftsAgree BY OneOpenCounts DEF ShiftsAgree, Shape
<1> HIDE DEF Inv
<1> QED BY <1>1, <1>2, <1>3, PTL DEF Spec

(* A new session is later than everything that is posted with it or before *)
(* it.                                                                     *)
LEMMA NewestSession ==
  ASSUME Shape, Dated, CloseReads, TurnReads, InTurn, NEW r \in Requests, Commit(r),
         session'[r].status = "OPEN", NEW n, n = session'[r].openedAt
  PROVE  /\ n \in Nat
         /\ \A t \in Requests : move'[t].amount = 0 \/ (move'[t].date \in Nat /\ move'[t].date < n)
         /\ \A t \in Requests : t # r =>
              session'[t].adjustment = 0 \/ (session'[t].adjustedAt \in Nat /\ session'[t].adjustedAt < n)
<1> DEFINE v == view[r]
<1>0. /\ v.postedAt \in Nat /\ v.adjustedAt \in Nat /\ v.closedAt \in Nat /\ v.openedAt \in Nat
      /\ move[r] = NoTransfer /\ session[r] = NoSession
  BY CommitEnds, CallFacts DEF Shape, TypeOK, View
<1>1. ASSUME NEW t \in Requests, t # r
      PROVE  move'[t] = move[t] /\ move[t].date \in Nat /\ session[t].adjustedAt \in Nat
  BY <1>1, CommitFacts, RowFacts DEF Shape
<1>2. move[r].amount = 0 BY <1>0 DEF NoTransfer
<1>3. CASE Open(r)
  <2>1. /\ op[r].kind = "open"
        /\ session'[r] = NewSession(op[r].to, op[r].user, v.openedAt, op[r].amount)
        /\ \A t \in Requests \ {r} : session'[t] = session[t]
    BY <1>3, OpenFacts
  <2>2. n = v.openedAt BY <2>1, NewSessionIs
  <2>3. CASE Funded(op[r])
    <3>1. After(v.postedAt) /\ v.postedAt < v.openedAt BY <2>1, <2>3, TurnEnds
    <3>2. After(n) BY <1>0, <2>2, <3>1, AfterLater
    <3>3. move'[r].date = v.postedAt BY <1>3, <2>3, OpenFacts
    <3> QED BY <1>0, <1>1, <2>1, <2>2, <3>1, <3>2, <3>3 DEF After
  <2>4. CASE ~Funded(op[r])
    <3>1. After(n) BY <2>1, <2>2, <2>4, TurnEnds
    <3>2. move'[r].amount = 0 BY <1>2, <1>3, <2>4, OpenFacts
    <3> QED BY <1>0, <1>1, <2>1, <2>2, <3>1, <3>2 DEF After
  <2> QED BY <2>3, <2>4
<1>4. CASE Move(r)
  <2>1. session'[r] = NoSession BY <1>0, <1>4, MoveFacts
  <2> QED BY <2>1 DEF NoSession
<1>5. CASE Close(r)
  <2>1. op[r].user # None /\ session'[r] = NewSession(Destination(op[r]), op[r].user, v.openedAt, op[r].amount)
    <3>1. session'[r] # NoSession BY DEF NoSession
    <3> QED BY <1>5, <3>1, CloseFacts
  <2>2. n = v.openedAt BY <2>1, NewSessionIs
  <2>3. op[r].kind = "close" BY <1>5, CloseFacts
  <2>4. /\ After(v.adjustedAt) /\ v.adjustedAt < v.closedAt /\ v.closedAt < v.postedAt
        /\ v.postedAt < v.openedAt
    BY <2>1, <2>3, TurnEnds
  <2>5. v.adjustedAt < n /\ v.postedAt < n /\ n \in Nat BY <1>0, <2>2, <2>4
  <2>6. After(n) BY <1>0, <2>4, <2>5, AfterLater
  <2>7. move'[r].amount = 0 \/ move'[r].date = v.postedAt
    <3>1. CASE HandsOver(op[r]) BY <1>5, <3>1, CloseFacts
    <3>2. CASE ~HandsOver(op[r]) BY <1>2, <1>5, <3>2, CloseFacts
    <3> QED BY <3>1, <3>2
  <2>8. ASSUME NEW t \in Requests, t # r
        PROVE  session'[t].adjustedAt \in Nat /\ session'[t].adjustedAt < n
    <3>1. CASE t = op[r].session BY <1>0, <1>5, <2>5, <3>1, CloseFacts
    <3>2. CASE t # op[r].session
      <4>1. session'[t] = session[t] BY <1>5, <2>8, <3>2, CloseFacts
      <4> QED BY <1>1, <2>6, <2>8, <4>1 DEF After
    <3> QED BY <3>1, <3>2
  <2>9. ASSUME NEW t \in Requests PROVE move'[t].amount = 0 \/ (move'[t].date \in Nat /\ move'[t].date < n)
    <3>1. CASE t = r BY <1>0, <2>5, <2>7, <3>1
    <3>2. CASE t # r BY <1>1, <2>6, <3>2 DEF After
    <3> QED BY <3>1, <3>2
  <2> QED BY <2>5, <2>8, <2>9
<1> QED BY <1>3, <1>4, <1>5 DEF Commit

\* A session that is opened expects what it was opened with.
LEMMA NewExpects ==
  ASSUME Shape, Dated, CloseReads, TurnReads, InTurn, NEW r \in Requests, Commit(r),
         session'[r].status = "OPEN"
  PROVE  ExpectedClosing(r)' = session'[r].opening
<1> PICK a, n : a = session'[r].drawer /\ n = session'[r].openedAt OBVIOUS
<1> DEFINE M == Moved(a, n, MaxClock)'
           A == Adjusted(a, n, MaxClock, r)'
<1>1. /\ n \in Nat
      /\ \A t \in Requests : move'[t].amount = 0 \/ (move'[t].date \in Nat /\ move'[t].date < n)
      /\ \A t \in Requests : t # r =>
           session'[t].adjustment = 0 \/ (session'[t].adjustedAt \in Nat /\ session'[t].adjustedAt < n)
  BY NewestSession
<1>2. MaxClock \in Nat /\ IsFiniteSet(Requests) BY DeskAssumption
<1>3. ASSUME NEW t \in Requests PROVE M[t] = 0
  <2>1. CASE move'[t].amount = 0 BY <2>1 DEF Moved
  <2>2. CASE move'[t].date \in Nat /\ move'[t].date < n
    <3>1. move'[t].date \notin n..MaxClock BY <1>1, <1>2, <2>2
    <3> QED BY <3>1 DEF Moved
  <2> QED BY <1>1, <2>1, <2>2
<1>4. ASSUME NEW t \in Requests PROVE A[t] = 0
  <2>1. CASE t = r BY <2>1 DEF Adjusted
  <2>2. CASE session'[t].adjustment = 0 BY <2>2 DEF Adjusted
  <2>3. CASE session'[t].adjustedAt \in Nat /\ session'[t].adjustedAt < n
    <3>1. session'[t].adjustedAt \notin n..MaxClock BY <1>1, <1>2, <2>3
    <3> QED BY <3>1 DEF Adjusted
  <2> QED BY <1>1, <2>1, <2>2, <2>3
<1>5. M = [t \in Requests |-> M[t]] /\ A = [t \in Requests |-> A[t]] BY DEF Moved, Adjusted
<1>6. Net(a, n, MaxClock, r)' = SumFunction(M) + SumFunction(A) BY DEF Net, Moved, Adjusted
<1>7. ExpectedClosing(r)' = session'[r].opening + Net(a, n, MaxClock, r)' BY DEF ExpectedClosing
<1> HIDE DEF M, A
<1>8. M \in [Requests -> Int] /\ A \in [Requests -> Int] BY <1>3, <1>4, <1>5
<1>9. SumFunction(M) = 0 /\ SumFunction(A) = 0 BY <1>2, <1>3, <1>4, <1>8, SumZero
<1>10. session'[r].opening \in Nat
  <2>1. session'[r] \in CashSession \cup {NoSession} BY CommitFacts
  <2> QED BY <2>1 DEF CashSession, NoSession
<1> QED BY <1>6, <1>7, <1>9, <1>10

(* What a new session is expected to end with is what was counted when it  *)
(* was opened: neither its funding nor a handover counts a second time.    *)
THEOREM OpeningCountedOnceProperty == ASSUME ~Simultaneous PROVE Spec => OpeningCountedOnce
<1> DEFINE Inv == Shape /\ Dated /\ CloseReads /\ TurnReads
           Once == InTurn => \A s \in Requests : session[s].status = "NONE" /\ session'[s].status = "OPEN" =>
                      ExpectedClosing(s)' = session'[s].opening
<1>1. Init => Inv BY ShapeInit, DatedInitially, CloseReadsInitially, TurnReadsInitially
<1>2. Inv /\ [Next]_vars => Inv' BY ShapeNext, DatedNext, CloseReadsNext, TurnReadsNext
<1>3. Inv /\ [Next]_vars => Once
  <2> SUFFICES ASSUME Inv, [Next]_vars, InTurn, NEW s \in Requests, session[s].status = "NONE",
                      session'[s].status = "OPEN"
               PROVE  ExpectedClosing(s)' = session'[s].opening
    OBVIOUS
  <2>1. session' # session BY DEF vars
  <2>2. PICK r \in Requests : Commit(r)
    <3>1. ~UNCHANGED vars /\ \A r \in Requests : ~Begin(r) /\ ~Advance(r) /\ ~Reject(r) /\ ~Abort(r)
      BY <2>1 DEF vars, Begin, Advance, Reject, Abort
    <3> QED BY <3>1 DEF Next, Commit
  <2>3. s = r BY <2>2, CommitFacts
  <2> QED BY <2>2, <2>3, NewExpects
<1>4. [][Once]_vars => OpeningCountedOnce BY DEF OpeningCountedOnce
<1> HIDE DEF Inv, Once
<1> QED BY <1>1, <1>2, <1>3, <1>4, PTL DEF Spec

---------------------------------------------------------------------------
(* Money that is there.                                                    *)

(* Two calls at once are of kinds that may overlap.                        *)
BesideOnly ==
    \A r \in Requests, s \in Requests : Running(r) /\ Running(s) /\ r # s => op[r].kind \in workload.beside

(* A call holds the rows that the steps behind it have asked for.          *)
HoldsPlan ==
    \A r \in Requests : Running(r) =>
        \A i \in 1..Len(Plan(op[r])) : i < stage[r] =>
            \A row \in Plan(op[r])[i].rows : holder[row] = r

\* Two calls run at once only if both are of the kinds that may.
LEMMA BesideOnlyNext == Shape /\ BesideOnly /\ [Next]_vars => BesideOnly'
<1> SUFFICES ASSUME Shape, BesideOnly, [Next]_vars, NEW r \in Requests, NEW s \in Requests,
                    Running(r)', Running(s)', r # s
             PROVE  op'[r].kind \in workload'.beside
  BY DEF BesideOnly
<1>1. CASE UNCHANGED vars BY <1>1 DEF vars, BesideOnly, Running
<1>2. ASSUME NEW x \in Requests, Begin(x) PROVE op'[r].kind \in workload'.beside
  <2>1. PICK o \in Calls : Allowed(o.kind) /\ op' = [op EXCEPT ![x] = o] BY <1>2 DEF Begin
  <2>2. workload' = workload BY <1>2 DEF Begin
  <2>3. op'[x] = o /\ \A t \in Requests \ {x} : op'[t] = op[t] BY <2>1 DEF Shape, TypeOK
  <2>4. CASE r # x /\ s # x BY <2>2, <2>3, <2>4 DEF BesideOnly, Running
  <2>5. CASE r = x \/ s = x
    <3>1. PICK t \in Requests \ {x} : t \in {r, s} /\ Running(t) BY <2>3, <2>5 DEF Running
    <3>2. t \in InFlight BY <3>1 DEF InFlight
    <3>3. o.kind \in workload.beside /\ \A y \in InFlight : op[y].kind \in workload.beside
      BY <2>1, <3>2 DEF Allowed
    <3> QED BY <2>2, <2>3, <2>5, <3>1, <3>2, <3>3
  <2> QED BY <2>4, <2>5
<1>3. ASSUME NEW x \in Requests, Advance(x) PROVE op'[r].kind \in workload'.beside
  BY <1>3 DEF Advance, BesideOnly, Running
<1>4. ASSUME NEW x \in Requests, NEW o \in {Idle, Done}, Finish(x, o) PROVE op'[r].kind \in workload'.beside
  <2>1. ~Running(x)' /\ workload' = workload /\ \A t \in Requests \ {x} : op'[t] = op[t] BY <1>4, FinishFacts
  <2>2. r # x /\ s # x BY <2>1
  <2> QED BY <2>1, <2>2 DEF BesideOnly, Running
<1>5. CASE \E x \in Requests : Reject(x) \/ Abort(x) BY <1>4, <1>5 DEF Reject, Abort
<1>6. CASE \E x \in Requests : Commit(x) BY <1>4, <1>6, CommitEnds
<1> QED BY <1>1, <1>2, <1>3, <1>5, <1>6 DEF Next, Commit

(* A row that a call has stays with it while the call goes on.             *)
LEMMA PlanKept ==
  ASSUME Shape, HoldsPlan, SessionsStay, NEW r \in Requests, Running(r), op'[r] = op[r], stage'[r] = stage[r],
         \A row \in Rows : holder[row] = r => holder'[row] = r
  PROVE  \A i \in 1..Len(Plan(op[r])') : i < stage'[r] => \A row \in Plan(op[r])'[i].rows : holder'[row] = r
<1>1. CallOK(op[r]) /\ op[r].kind \in Kinds BY CallFacts
<1>2. Plan(op[r])' = Plan(op[r]) BY <1>1, PlanStays
<1>3. \A i \in 1..Len(Plan(op[r])) : Plan(op[r])[i].rows \subseteq Rows BY <1>1, PlanStepsOK DEF StepOK
<1> QED BY <1>2, <1>3 DEF HoldsPlan

\* A call holds every lock its plan has asked for, after every step.
LEMMA HoldsPlanNext == Shape /\ HoldsPlan /\ [Next]_vars => HoldsPlan'
<1> SUFFICES ASSUME Shape, HoldsPlan, [Next]_vars, NEW r \in Requests, Running(r)'
             PROVE  \A i \in 1..Len(Plan(op[r])') : i < stage'[r] =>
                      \A row \in Plan(op[r])'[i].rows : holder'[row] = r
  BY DEF HoldsPlan
<1>0. DOMAIN holder = Rows /\ r # Nobody BY RequestsAssumption DEF Shape, TypeOK, LocksTypeOK
<1>1. CASE UNCHANGED vars
  <2>1. UNCHANGED <<session, op, stage, holder>> BY <1>1 DEF vars
  <2>2. SessionsStay /\ Running(r) BY <2>1 DEF SessionsStay, Running
  <2> QED BY <2>1, <2>2, PlanKept
<1>2. ASSUME NEW x \in Requests, Begin(x)
      PROVE  \A i \in 1..Len(Plan(op[r])') : i < stage'[r] => \A row \in Plan(op[r])'[i].rows : holder'[row] = r
  <2>1. UNCHANGED <<session, holder>> /\ stage'[x] = 1
        /\ \A t \in Requests \ {x} : op'[t] = op[t] /\ stage'[t] = stage[t]
    BY <1>2 DEF Begin, Shape, TypeOK
  <2>2. CASE r = x BY <2>1, <2>2
  <2>3. CASE r # x
    <3>1. SessionsStay /\ Running(r) BY <2>1, <2>3 DEF SessionsStay, Running
    <3> QED BY <2>1, <2>3, <3>1, PlanKept
  <2> QED BY <2>2, <2>3
<1>3. ASSUME NEW x \in Requests, Advance(x)
      PROVE  \A i \in 1..Len(Plan(op[r])') : i < stage'[r] => \A row \in Plan(op[r])'[i].rows : holder'[row] = r
  <2>1. /\ Running(x) /\ ~AtEnd(x) /\ ~Refused(x) /\ stage[x] \in 1..Len(Plan(op[x]))
        /\ UNCHANGED <<session, op>> /\ stage'[x] = stage[x] + 1
        /\ \A t \in Requests \ {x} : stage'[t] = stage[t]
    BY <1>3, AdvanceFacts
  <2>2. SessionsStay /\ Running(r) BY <2>1 DEF SessionsStay, Running
  <2>3. /\ \A row \in Wanted(x) : holder[row] \in {Nobody, x}
        /\ \A row \in Rows : holder'[row] = IF row \in Wanted(x) THEN x ELSE holder[row]
    BY <1>0, <1>3 DEF Advance, Acquire, Grantable
  <2>4. \A row \in Rows : holder[row] = r => holder'[row] = r BY <1>0, <2>3
  <2>5. CASE r # x BY <2>1, <2>2, <2>4, <2>5, PlanKept
  <2>6. CASE r = x
    <3>1. CallOK(op[r]) /\ op[r].kind \in Kinds /\ stage[r] \in Nat BY <2>2, CallFacts
    <3>2. Plan(op[r])' = Plan(op[r]) BY <2>1, <2>2, <3>1, PlanStays
    <3>3. SUFFICES ASSUME NEW i \in 1..Len(Plan(op[r])), i < stage[r] + 1, NEW row \in Plan(op[r])[i].rows
                   PROVE  holder'[row] = r
      BY <2>1, <2>6, <3>2
    <3>4. row \in Rows BY <3>1, PlanStepsOK DEF StepOK
    <3>5. CASE i < stage[r]
      <4>1. holder[row] = r BY <2>2, <3>5 DEF HoldsPlan
      <4> QED BY <2>4, <3>4, <4>1
    <3>6. CASE ~(i < stage[r])
      <4>1. i = stage[r] BY <3>1, <3>3, <3>6
      <4>2. row \in Wanted(x) BY <2>1, <2>6, <4>1 DEF Wanted
      <4> QED BY <2>3, <2>6, <3>4, <4>2
    <3> QED BY <3>5, <3>6
  <2> QED BY <2>5, <2>6
<1>4. ASSUME NEW x \in Requests, NEW o \in {Idle, Done}, Finish(x, o), SessionsStay
      PROVE  \A i \in 1..Len(Plan(op[r])') : i < stage'[r] => \A row \in Plan(op[r])'[i].rows : holder'[row] = r
  <2>1. ~Running(x)' /\ \A t \in Requests \ {x} : op'[t] = op[t] /\ stage'[t] = stage[t] BY <1>4, FinishFacts
  <2>2. r # x /\ op'[r] = op[r] /\ stage'[r] = stage[r] /\ Running(r) BY <2>1 DEF Running
  <2>3. \A row \in Rows : holder'[row] = IF holder[row] = x THEN Nobody ELSE holder[row]
    BY <1>0, <1>4 DEF Finish, ReleaseAll
  <2>4. \A row \in Rows : holder[row] = r => holder'[row] = r BY <2>2, <2>3
  <2> QED BY <1>4, <2>2, <2>4, PlanKept
<1>5. CASE \E x \in Requests : Reject(x) \/ Abort(x)
  <2>1. PICK x \in Requests : Finish(x, Idle) /\ session' = session BY <1>5 DEF Reject, Abort
  <2>2. SessionsStay BY <2>1 DEF SessionsStay
  <2> QED BY <1>4, <2>1, <2>2
<1>6. CASE \E x \in Requests : Commit(x) BY <1>4, <1>6, CommitEnds, CommitFacts
<1> QED BY <1>1, <1>2, <1>3, <1>5, <1>6 DEF Next, Commit

(* A call that spends has locked what it spends from.                      *)
LEMMA SourceHeld ==
  ASSUME Shape, HoldsPlan, NEW r \in Requests, Running(r)
  PROVE  /\ op[r].kind = "transfer" /\ stage[r] > 1 => holder[AccountLock(op[r].from)] = r
         /\ Funded(op[r]) /\ stage[r] > 3 => holder[AccountLock(op[r].from)] = r
<1> DEFINE o == op[r]
<1>1. stage[r] \in Nat BY CallFacts
<1>2. CASE o.kind = "transfer" /\ stage[r] > 1
  <2>1. Len(Plan(o)) = 2 /\ Plan(o)[1] = Step({AccountLock(o.from)}, {"desks"}) BY <1>2, TransferSteps
  <2>2. 1 \in 1..Len(Plan(o)) /\ AccountLock(o.from) \in Plan(o)[1].rows BY <2>1 DEF Step
  <2>3. holder[AccountLock(o.from)] = r BY <1>1, <1>2, <2>2 DEF HoldsPlan
  <2> QED BY <1>2, <2>3 DEF Funded
<1>3. CASE Funded(o) /\ stage[r] > 3
  <2>1. o.kind = "open" BY <1>3 DEF Funded
  <2>2. /\ Len(Plan(o)) = 5
        /\ Plan(o)[2] = Step({AccountLock(Earlier(o.from, o.to))}, {})
        /\ Plan(o)[3] = Step({AccountLock(Later(o.from, o.to))}, {"desks"})
    BY <1>3, <2>1, OpenSteps
  <2>3. o.from = Earlier(o.from, o.to) \/ o.from = Later(o.from, o.to) BY DEF Earlier, Later
  <2>4. 2 \in 1..Len(Plan(o)) /\ 3 \in 1..Len(Plan(o)) /\ 2 < stage[r] /\ 3 < stage[r] BY <1>1, <1>3, <2>2
  <2>5. AccountLock(o.from) \in Plan(o)[2].rows \/ AccountLock(o.from) \in Plan(o)[3].rows
    BY <2>2, <2>3 DEF Step
  <2>6. holder[AccountLock(o.from)] = r BY <2>4, <2>5 DEF HoldsPlan
  <2> QED BY <2>1, <2>6
<1> QED BY <1>2, <1>3

(* What a commit changes of an account: what it posts, and the rounding of *)
(* the session it closes.                                                  *)
LEMMA MovedSum ==
  ASSUME Shape, NEW r \in Requests, Commit(r), NEW a, NEW first, NEW last
  PROVE  /\ SumFunction(Moved(a, first, last)') = SumFunction(Moved(a, first, last)) + Moved(a, first, last)'[r]
         /\ Moved(a, first, last)'[r] \in Int
<1> DEFINE f == Moved(a, first, last)
           h == Moved(a, first, last)'
<1>1. TypeOK /\ IsFiniteSet(Requests) BY DeskAssumption DEF Shape
<1>2. f \in [Requests -> Int] BY <1>1, TermTypes
<1>3. f[r] = 0
  <2>1. move[r] = NoTransfer BY CommitEnds, CallFacts
  <2> QED BY <2>1 DEF Moved, NoTransfer
<1>4. \A t \in Requests \ {r} : h[t] = f[t]
  <2>1. \A t \in Requests \ {r} : move'[t] = move[t] BY CommitFacts
  <2> QED BY <2>1 DEF Moved
<1>5. h[r] \in Int
  <2>1. move'[r] \in Transfer \cup {NoTransfer} BY CommitFacts
  <2>2. move'[r].amount \in Nat BY <2>1 DEF Transfer, NoTransfer
  <2> QED BY <2>2 DEF Moved
<1>6. h = [t \in Requests |-> h[t]] BY DEF Moved
<1> HIDE DEF f, h
<1>7. h \in [Requests -> Int] BY <1>2, <1>4, <1>5, <1>6
<1>8. SumFunction(h) = SumFunction(f) - f[r] + h[r] BY <1>1, <1>2, <1>4, <1>7, SumChange
<1>9. SumFunction(f) \in Int BY <1>1, <1>2, SumType
<1>10. SumFunction(h) = SumFunction(f) + h[r] BY <1>3, <1>5, <1>8, <1>9
<1> QED BY <1>5, <1>10 DEF f, h

\* What a movement adds to a sum of movements.
LEMMA NetPosted ==
  ASSUME Shape, NEW r \in Requests, Open(r) \/ Move(r), NEW a, NEW first, NEW last, NEW except
  PROVE  /\ Net(a, first, last, except)' = Net(a, first, last, except) + Moved(a, first, last)'[r]
         /\ Moved(a, first, last)'[r] \in Int
<1> DEFINE A == Adjusted(a, first, last, except)
           B == Adjusted(a, first, last, except)'
           M == Moved(a, first, last)
           N == Moved(a, first, last)'
<1>0. Commit(r) /\ TypeOK /\ IsFiniteSet(Requests) BY DeskAssumption DEF Commit, Shape
<1>1. session[r].adjustment = 0 /\ session'[r].adjustment = 0
      /\ \A t \in Requests \ {r} : session'[t] = session[t]
  <2>1. session[r].adjustment = 0
    <3>1. session[r] = NoSession BY <1>0, CommitEnds, CallFacts
    <3> QED BY <3>1 DEF NoSession
  <2>2. CASE Open(r)
    <3>1. session'[r] = NewSession(op[r].to, op[r].user, view[r].openedAt, op[r].amount) BY <2>2, OpenFacts
    <3> QED BY <2>1, <2>2, <3>1, NewSessionIs, OpenFacts
  <2>3. CASE Move(r) BY <2>1, <2>3, MoveFacts
  <2> QED BY <2>2, <2>3
<1>2. \A t \in Requests : B[t] = A[t]
  <2>1. \A t \in Requests \ {r} : B[t] = A[t] BY <1>1 DEF Adjusted
  <2>2. B[r] = A[r] BY <1>1 DEF Adjusted
  <2> QED BY <2>1, <2>2
<1>3. B = A
  <2>1. B = [t \in Requests |-> B[t]] /\ A = [t \in Requests |-> A[t]] BY DEF Adjusted
  <2> HIDE DEF A, B
  <2> QED BY <1>2, <2>1
<1>4. SumFunction(N) = SumFunction(M) + N[r] /\ N[r] \in Int BY <1>0, MovedSum
<1>5. Net(a, first, last, except) = SumFunction(M) + SumFunction(A) BY NetIs
<1>6. Net(a, first, last, except)' = SumFunction(N) + SumFunction(B) BY DEF Net, Moved, Adjusted
<1>7. SumFunction(M) \in Int /\ SumFunction(A) \in Int
  <2>1. M \in [Requests -> Int] /\ A \in [Requests -> Int] BY <1>0, TermTypes
  <2> HIDE DEF A, M
  <2> QED BY <1>0, <2>1, SumType
<1> HIDE DEF A, B, M, N
<1>8. Net(a, first, last, except)' = Net(a, first, last, except) + N[r] BY <1>3, <1>4, <1>5, <1>6, <1>7
<1> QED BY <1>4, <1>8 DEF N

\* What a close adds to it: its adjustment and its handover.
LEMMA NetClosed ==
  ASSUME Shape, Dated, CloseReads, NEW r \in Requests, Close(r), NEW c, c = op[r].session,
         NEW a, NEW first, NEW last, NEW except
  PROVE  /\ Net(a, first, last, except)'
              = Net(a, first, last, except) + Moved(a, first, last)'[r] + Adjusted(a, first, last, except)'[c]
         /\ Moved(a, first, last)'[r] \in Int /\ Adjusted(a, first, last, except)'[c] \in Int
<1> DEFINE A == Adjusted(a, first, last, except)
           B == Adjusted(a, first, last, except)'
           M == Moved(a, first, last)
           N == Moved(a, first, last)'
<1>0. Commit(r) /\ TypeOK /\ IsFiniteSet(Requests) BY DeskAssumption DEF Commit, Shape
<1>1. /\ op[r].kind = "close" /\ c \in Requests /\ c # r /\ view[r].session.status = "OPEN"
      /\ session'[c].adjustment \in Int
      /\ \A s \in Requests : s # r /\ s # c => session'[s] = session[s]
  BY CloseFacts
<1>2. session[c].adjustment = 0
  <2>1. Running(r) /\ stage[r] > 1 BY <1>0, CommitEnds, CallFacts
  <2>2. session[c].status = "OPEN" BY <1>1, <2>1 DEF CloseReads
  <2> QED BY <1>1, <2>2 DEF Dated, Unrounded
<1>3. session[r].adjustment = 0 /\ session'[r].adjustment = 0
  <2>1. session[r] = NoSession BY <1>0, CommitEnds, CallFacts
  <2>2. session'[r] = NoSession
        \/ session'[r] = NewSession(Destination(op[r]), op[r].user, view[r].openedAt, op[r].amount)
    BY CloseFacts
  <2>3. CASE session'[r] = NoSession BY <2>1, <2>3 DEF NoSession
  <2>4. CASE session'[r] # NoSession
    <3>1. session'[r].adjustment = 0 BY <2>2, <2>4, NewSessionIs
    <3> QED BY <2>1, <3>1 DEF NoSession
  <2> QED BY <2>3, <2>4
<1>4. A[c] = 0 BY <1>1, <1>2 DEF Adjusted
<1>5. B[c] \in Int BY <1>1 DEF Adjusted
<1>6. ASSUME NEW t \in Requests, t # c PROVE B[t] = A[t]
  <2>1. CASE t = r BY <1>3, <2>1 DEF Adjusted
  <2>2. CASE t # r
    <3>1. session'[t] = session[t] BY <1>1, <1>6, <2>2
    <3> QED BY <3>1 DEF Adjusted
  <2> QED BY <2>1, <2>2
<1>7. A \in [Requests -> Int] /\ M \in [Requests -> Int] BY <1>0, TermTypes
<1>8. B = [t \in Requests |-> B[t]] BY DEF Adjusted
<1>9. SumFunction(N) = SumFunction(M) + N[r] /\ N[r] \in Int BY <1>0, MovedSum
<1>10. Net(a, first, last, except) = SumFunction(M) + SumFunction(A) BY NetIs
<1>11. Net(a, first, last, except)' = SumFunction(N) + SumFunction(B) BY DEF Net, Moved, Adjusted
<1> HIDE DEF A, B, M, N
<1>12. B \in [Requests -> Int] BY <1>5, <1>6, <1>7, <1>8
<1>13. SumFunction(B) = SumFunction(A) - A[c] + B[c]
  <2>1. \A t \in Requests \ {c} : B[t] = A[t] BY <1>6
  <2> QED BY <1>0, <1>1, <1>7, <1>12, <2>1, SumChange
<1>14. SumFunction(M) \in Int /\ SumFunction(A) \in Int BY <1>0, <1>7, SumType
<1>15. Net(a, first, last, except)' = Net(a, first, last, except) + N[r] + B[c]
  BY <1>4, <1>5, <1>9, <1>10, <1>11, <1>13, <1>14
<1> QED BY <1>5, <1>9, <1>15 DEF N, B

(* `amount` is there: in the ledger, or in an open session's drawer.       *)
Covers(a, amount, closing, adjustment) ==
    \/ Balance(a) + adjustment >= amount
    \/ \E s \in OpenOn(a) \ {closing} :
          session[s].opening + Net(a, session[s].openedAt, MaxClock, None) + adjustment >= amount

(* A call that has found enough money still finds it, and a close is later *)
(* than the opening of every session it may count on.                      *)
SpendSees(o, v, n) ==
    /\ Funded(o) /\ n > 4 /\ v.funds >= o.amount => Covers(o.from, o.amount, None, 0)
    /\ o.kind = "transfer" /\ n > 2 /\ v.funds >= o.amount => Covers(o.from, o.amount, None, 0)
    /\ o.kind = "close" =>
         /\ n > 2 => \A s \in Requests : session[s].openedAt <= v.adjustedAt
         /\ n > 4 /\ v.funds >= o.amount =>
              Covers(session[o.session].drawer, o.amount, o.session, Adjustment(o, v))

FundsStand ==
    "close" \notin workload.beside =>
        \A r \in Requests : Running(r) => SpendSees(op[r], view[r], stage[r])

(* Reading the funds.                                                      *)
LEMMA SpendSeesMore ==
  ASSUME Shape, Dated, NEW r \in Requests, Advance(r), SpendSees(op[r], view[r], stage[r])
  PROVE  SpendSees(op[r], view'[r], stage[r] + 1)
<1> DEFINE o == op[r]
           v == view[r]
           n == stage[r]
           w == view'[r]
           look == Plan(o)[n].look
<1>1. /\ Running(r) /\ n \in 1..Len(Plan(o)) /\ clock' \in Nat /\ clock <= clock' /\ w = Look(o, v, look, clock')
  BY AdvanceFacts
<1>2. o.kind \in Kinds /\ CallOK(o) /\ o.amount \in Nat /\ v.expected \in Int /\ TypeOK /\ n \in Nat
  BY <1>1, CallFacts DEF Operation, View, Shape
<1>3. CASE o.kind = "open" /\ Funded(o)
  <2>1. n \in {1, 2, 3, 4, 5}
    <3>1. Len(Plan(o)) = 5 BY <1>3, OpenSteps
    <3> QED BY <1>1, <3>1
  <2>2. n = 4 => "funds" \in look
    <3>1. Plan(o)[4] = Step({}, {"funds", "postedAt"}) BY <1>3, OpenSteps
    <3> QED BY <3>1 DEF Step
  <2>3. n = 5 => "funds" \notin look
    <3>1. Plan(o)[5] = Step({}, {"openedAt"}) BY <1>3, OpenSteps
    <3> QED BY <3>1 DEF Step
  <2>4. o.from \in Accounts BY <1>2, <1>3 DEF CallOK, Funded, Accounts
  <2>5. CASE n = 4
    <3>1. w.funds = Available(o.from, o.amount, None, 0) BY <1>1, <1>3, <2>2, <2>5 DEF Look
    <3>2. w.funds >= o.amount => Covers(o.from, o.amount, None, 0)
      BY <1>2, <2>4, <3>1, AvailableIs DEF Covers
    <3> QED BY <1>3, <2>5, <3>2 DEF SpendSees
  <2>6. CASE n = 5
    <3>1. w.funds = v.funds BY <1>1, <2>3, <2>6 DEF Look
    <3>2. v.funds >= o.amount => Covers(o.from, o.amount, None, 0) BY <1>3, <2>6 DEF SpendSees
    <3> QED BY <1>3, <3>1, <3>2 DEF SpendSees
  <2>7. CASE n \in {1, 2, 3} BY <1>3, <2>7 DEF SpendSees
  <2> QED BY <2>1, <2>5, <2>6, <2>7
<1>4. CASE o.kind = "open" /\ ~Funded(o) BY <1>4 DEF SpendSees
<1>5. CASE o.kind = "transfer"
  <2>1. n \in {1, 2}
    <3>1. Len(Plan(o)) = 2 BY <1>5, TransferSteps
    <3> QED BY <1>1, <3>1
  <2>2. n = 2 => "funds" \in look
    <3>1. Plan(o)[2] = Step({}, {"funds", "postedAt"}) BY <1>5, TransferSteps
    <3> QED BY <3>1 DEF Step
  <2>3. o.from \in Accounts /\ ~Funded(o) BY <1>2, <1>5 DEF CallOK, Funded
  <2>4. CASE n = 2
    <3>1. w.funds = Available(o.from, o.amount, None, 0) BY <1>1, <1>5, <2>2, <2>4 DEF Look
    <3>2. w.funds >= o.amount => Covers(o.from, o.amount, None, 0)
      BY <1>2, <2>3, <3>1, AvailableIs DEF Covers
    <3> QED BY <1>5, <2>3, <2>4, <3>2 DEF SpendSees
  <2>5. CASE n = 1 BY <1>5, <2>3, <2>5 DEF SpendSees
  <2> QED BY <2>1, <2>4, <2>5
<1>6. CASE o.kind = "close"
  <2>0. ~Funded(o) /\ o.kind # "transfer" BY <1>6 DEF Funded
  <2>1. Len(Plan(o)) = 5 \/ Len(Plan(o)) = 3 BY <1>6, CloseSteps
  <2>2. n \in {1, 2, 3} \/ (Len(Plan(o)) = 5 /\ n \in {4, 5})
    <3>1. CASE Len(Plan(o)) = 5 BY <1>1, <3>1
    <3>2. CASE Len(Plan(o)) = 3 BY <1>1, <3>2
    <3> QED BY <2>1, <3>1, <3>2
  <2>3. /\ n = 2 => "adjustedAt" \in look
        /\ n = 3 => look \cap {"adjustedAt"} = {}
    <3>1. Plan(o)[2] = Step({}, {"expected", "adjustedAt"}) /\ Plan(o)[3] = Step({}, {"closedAt"})
      BY <1>6, CloseSteps
    <3> QED BY <3>1 DEF Step
  <2>4. /\ n = 4 => "funds" \in look /\ look \cap {"adjustedAt", "expected"} = {}
        /\ n = 5 => look \cap {"adjustedAt", "expected", "funds"} = {}
    <3>1. Len(Plan(o)) = 5 => /\ Plan(o)[4] = Step({}, {"funds", "postedAt"})
                              /\ Plan(o)[5] = Step({}, {"existing", "openedAt"})
      BY <1>6, CloseSteps
    <3> QED BY <2>2, <3>1 DEF Step
  <2>5. n > 1 => \A s \in Requests : session[s].openedAt <= w.adjustedAt
    <3>1. CASE n = 2
      <4>1. w.adjustedAt = clock' BY <1>1, <2>3, <3>1 DEF Look
      <4>2. ASSUME NEW s \in Requests PROVE session[s].openedAt <= clock'
        <5>1. session[s].openedAt \in Nat /\ session[s].openedAt <= clock /\ clock \in Nat
          BY <1>2, RowFacts, DeskAssumption DEF Dated, RowsDated, TypeOK
        <5> QED BY <1>1, <5>1
      <4> QED BY <4>1, <4>2
    <3>2. CASE n > 2
      <4>1. w.adjustedAt = v.adjustedAt BY <1>1, <2>2, <2>3, <2>4, <3>2 DEF Look
      <4>2. \A s \in Requests : session[s].openedAt <= v.adjustedAt BY <1>6, <3>2 DEF SpendSees
      <4> QED BY <4>1, <4>2
    <3> QED BY <1>2, <3>1, <3>2
  <2>6. n > 3 /\ w.funds >= o.amount => Covers(session[o.session].drawer, o.amount, o.session, Adjustment(o, w))
    <3>1. n > 3 => Adjustment(o, w) = Adjustment(o, v)
      <4>1. n > 3 => w.expected = v.expected BY <1>1, <2>2, <2>4 DEF Look
      <4> QED BY <4>1 DEF Adjustment
    <3>2. CASE n = 4
      <4>1. w.funds = Available(session[o.session].drawer, o.amount, o.session, Adjustment(o, v))
        BY <1>1, <1>6, <2>4, <3>2 DEF Look
      <4>2. session[o.session].drawer \in Accounts BY <1>2, <1>6, RowFacts DEF CallOK, Accounts
      <4>3. Adjustment(o, v) \in Int BY <1>2 DEF Adjustment
      <4>4. w.funds >= o.amount => Covers(session[o.session].drawer, o.amount, o.session, Adjustment(o, v))
        BY <1>2, <4>1, <4>2, <4>3, AvailableIs DEF Covers
      <4> QED BY <3>1, <3>2, <4>4
    <3>3. CASE n = 5
      <4>1. w.funds = v.funds BY <1>1, <2>4, <3>3 DEF Look
      <4>2. v.funds >= o.amount => Covers(session[o.session].drawer, o.amount, o.session, Adjustment(o, v))
        BY <1>6, <3>3 DEF SpendSees
      <4> QED BY <3>1, <3>3, <4>1, <4>2
    <3> QED BY <2>2, <3>2, <3>3
  <2> HIDE DEF w, n
  <2>7. SpendSees(o, w, n + 1)
    <3>1. (n + 1 > 2 => n > 1) /\ (n + 1 > 4 => n > 3) BY <1>2
    <3> QED BY <1>6, <2>0, <2>5, <2>6, <3>1 DEF SpendSees
  <2> QED BY <2>7 DEF w, n
<1> QED BY <1>2, <1>3, <1>4, <1>5, <1>6 DEF Kinds

(* Nobody else takes from the account that a call has locked.              *)
LEMMA CoversStays ==
  ASSUME Shape, Dated, CloseReads, NEW x \in Requests, Open(x) \/ Move(x), NEW a, NEW amount \in Nat,
         a \in Accounts, move'[x] = move[x] \/ move'[x].from # a, Covers(a, amount, None, 0)
  PROVE  Covers(a, amount, None, 0)'
<1>0. Commit(x) /\ TypeOK BY DEF Commit, Shape
<1>1. ASSUME NEW first, NEW last
      PROVE  Moved(a, first, last)'[x] \in Int /\ Moved(a, first, last)'[x] >= 0
  <2>1. CASE move'[x] = move[x]
    <3>1. move'[x] = NoTransfer BY <1>0, <2>1, CommitEnds, CallFacts
    <3> QED BY <3>1 DEF Moved, NoTransfer
  <2>2. CASE move'[x].from # a
    <3>1. move'[x] \in Transfer \cup {NoTransfer} BY <1>0, CommitFacts
    <3>2. move'[x].amount \in Nat BY <3>1 DEF Transfer, NoTransfer
    <3> QED BY <2>2, <3>2 DEF Moved
  <2> QED BY <2>1, <2>2
<1>2. ASSUME NEW first, NEW last
      PROVE  /\ Net(a, first, last, None) \in Int /\ Net(a, first, last, None)' \in Int
             /\ Net(a, first, last, None) <= Net(a, first, last, None)'
  <2>1. Net(a, first, last, None) \in Int BY <1>0, NetType
  <2>2. Net(a, first, last, None)' = Net(a, first, last, None) + Moved(a, first, last)'[x] BY NetPosted
  <2> DEFINE y == Net(a, first, last, None)
             z == Net(a, first, last, None)'
             m == Moved(a, first, last)'[x]
  <2>3. m \in Int /\ m >= 0 BY <1>1
  <2> HIDE DEF y, z, m
  <2>4. y \in Int /\ z = y + m BY <2>1, <2>2 DEF y, z, m
  <2>5. z \in Int /\ y <= z BY <2>3, <2>4
  <2> QED BY <2>4, <2>5 DEF y, z
<1>3. CASE Balance(a) + 0 >= amount
  <2>1. Opening[a] \in Nat BY DeskAssumption
  <2> DEFINE y == Net(a, 0, MaxClock, None)
             z == Net(a, 0, MaxClock, None)'
  <2>2. y \in Int /\ z \in Int /\ y <= z BY <1>2
  <2>3. Balance(a) = Opening[a] + y /\ Balance(a)' = Opening[a] + z BY DEF Balance
  <2> HIDE DEF y, z
  <2>4. Balance(a)' + 0 >= amount BY <1>3, <2>1, <2>2, <2>3
  <2> QED BY <2>4 DEF Covers
<1>4. CASE \E s \in OpenOn(a) \ {None} :
             session[s].opening + Net(a, session[s].openedAt, MaxClock, None) + 0 >= amount
  <2>1. PICK s \in OpenOn(a) :
          session[s].opening + Net(a, session[s].openedAt, MaxClock, None) + 0 >= amount
    BY <1>4
  <2>2. s \in Requests /\ session[s].status = "OPEN" /\ session[s].drawer = a BY DEF OpenOn
  <2>3. s # x
    <3>1. session[x].status = "NONE" BY <1>0, CommitEnds, CallFacts
    <3> QED BY <2>2, <3>1
  <2>4. session'[s] = session[s] BY <2>2, <2>3, OpenFacts, MoveFacts
  <2>5. s \in OpenOn(a)' /\ s # None BY <2>2, <2>4, DeskAssumption DEF OpenOn
  <2> PICK n : n = session[s].openedAt OBVIOUS
  <2> DEFINE y == Net(a, n, MaxClock, None)
             z == Net(a, n, MaxClock, None)'
             k == session[s].opening
  <2>6. y \in Int /\ z \in Int /\ y <= z BY <1>2
  <2>7. k \in Nat /\ k + y + 0 >= amount BY <2>1, <2>2, <1>0, RowFacts
  <2>8. k = session'[s].opening /\ n = session'[s].openedAt BY <2>4
  <2> HIDE DEF y, z, k
  <2>9. k + z + 0 >= amount BY <2>6, <2>7
  <2>10. (session[s].opening + Net(a, session[s].openedAt, MaxClock, None) + 0 >= amount)'
    BY <2>8, <2>9 DEF z
  <2> QED BY <2>5, <2>10 DEF Covers
<1> QED BY <1>3, <1>4 DEF Covers

\* What a call has seen of the account it draws on stands while nothing is posted.
LEMMA SpendKept ==
  ASSUME Shape, UNCHANGED <<session, move>>, NEW s \in Requests, op'[s] = op[s], NEW v, v = view'[s],
         NEW n, n = stage'[s], SpendSees(op[s], v, n)
  PROVE  SpendSees(op[s], view[s], stage[s])'
<1> PICK o : o = op[s] OBVIOUS
<1>1. SpendSees(o, v, n)' BY DEF SpendSees, Funded, Covers, Balance, Net, OpenOn, Adjustment
<1>2. SpendSees(op[s], view[s], stage[s])' = SpendSees(o, v, n)' OBVIOUS
<1> QED BY <1>1, <1>2

\* It stands when another call commits, for that one does not hold the account ...
LEMMA FundsStandCommit ==
  ASSUME Shape, Dated, CloseReads, BesideOnly, HoldsPlan, FundsStand, NEW x \in Requests, Commit(x)
  PROVE  FundsStand'
<1> SUFFICES ASSUME "close" \notin workload'.beside, NEW r \in Requests, Running(r)'
             PROVE  SpendSees(op[r], view[r], stage[r])'
  BY DEF FundsStand
<1>1. /\ Running(x) /\ AtEnd(x) /\ ~Running(x)' /\ workload' = workload
      /\ \A t \in Requests \ {x} : op'[t] = op[t] /\ view'[t] = view[t] /\ stage'[t] = stage[t]
  BY CommitEnds, FinishFacts
<1>2. r # x /\ Running(r) /\ op'[r] = op[r] /\ view'[r] = view[r] /\ stage'[r] = stage[r]
  BY <1>1 DEF Running
<1>3. op[r].kind # "close" /\ op[x].kind # "close" BY <1>1, <1>2 DEF BesideOnly
<1>4. Open(x) \/ Move(x) BY <1>3, CloseFacts DEF Commit
<1>5. SpendSees(op[r], view[r], stage[r]) BY <1>1, <1>2 DEF FundsStand
<1> PICK o, v, n : o = op[r] /\ v = view[r] /\ n = stage[r] OBVIOUS
<1>6. CallOK(o) /\ o.amount \in Nat /\ n \in Nat BY <1>2, CallFacts DEF Operation
<1>7. ASSUME (Funded(o) /\ n > 4) \/ (o.kind = "transfer" /\ n > 2), Covers(o.from, o.amount, None, 0)
      PROVE  Covers(o.from, o.amount, None, 0)'
  <2>1. o.from \in Accounts BY <1>6, <1>7 DEF CallOK, Funded, Accounts
  <2>2. holder[AccountLock(o.from)] = r
    <3>1. (Funded(o) /\ n > 3) \/ (o.kind = "transfer" /\ n > 1) BY <1>6, <1>7
    <3> QED BY <1>2, <3>1, SourceHeld
  <2>3. move'[x] = move[x] \/ move'[x].from # o.from
    <3>1. Len(Plan(op[x])) \in 2..5 /\ stage[x] = Len(Plan(op[x])) + 1 BY <1>1, CallFacts
    <3>2. CASE Move(x)
      <4>1. op[x].kind = "transfer" /\ move'[x].from = op[x].from BY <3>2, MoveFacts
      <4>2. stage[x] > 1 BY <1>1, CallFacts
      <4>3. holder[AccountLock(op[x].from)] = x BY <1>1, <4>1, <4>2, SourceHeld
      <4> QED BY <1>2, <2>2, <4>1, <4>3
    <3>3. CASE Open(x) /\ Funded(op[x])
      <4>1. op[x].kind = "open" /\ move'[x].from = op[x].from BY <3>3, OpenFacts
      <4>2. Len(Plan(op[x])) = 5 BY <3>3, <4>1, OpenSteps
      <4>3. stage[x] > 3 BY <3>1, <4>2
      <4>4. holder[AccountLock(op[x].from)] = x BY <1>1, <3>3, <4>3, SourceHeld
      <4> QED BY <1>2, <2>2, <4>1, <4>4
    <3>4. CASE Open(x) /\ ~Funded(op[x]) BY <3>4, OpenFacts
    <3> QED BY <1>4, <3>2, <3>3, <3>4
  <2> QED BY <1>4, <1>6, <1>7, <2>1, <2>3, CoversStays
<1>8. SpendSees(o, v, n)
  BY <1>5
<1>9. Funded(o)' = Funded(o) BY DEF Funded
<1>10. SpendSees(o, v, n)' BY <1>3, <1>7, <1>8, <1>9 DEF SpendSees
<1> QED BY <1>2, <1>10

\* ... and in every step ...
LEMMA FundsStandNext ==
  Shape /\ Dated /\ CloseReads /\ BesideOnly /\ HoldsPlan /\ FundsStand /\ [Next]_vars => FundsStand'
<1> SUFFICES ASSUME Shape, Dated, CloseReads, BesideOnly, HoldsPlan, FundsStand, [Next]_vars
             PROVE  FundsStand'
  OBVIOUS
<1>1. CASE \E x \in Requests : Commit(x) BY <1>1, FundsStandCommit
<1>2. CASE ~\E x \in Requests : Commit(x)
  <2> SUFFICES ASSUME "close" \notin workload'.beside, NEW r \in Requests, Running(r)'
               PROVE  SpendSees(op[r], view[r], stage[r])'
    BY DEF FundsStand
  <2>1. UNCHANGED <<session, move, workload>>
    BY <1>2 DEF Next, Commit, vars, Begin, Advance, Reject, Abort, Finish
  <2>2. CASE UNCHANGED vars
    <3>1. UNCHANGED <<op, view, stage>> BY <2>2 DEF vars
    <3>2. SpendSees(op[r], view[r], stage[r]) BY <2>1, <3>1 DEF FundsStand, Running
    <3> QED BY <2>1, <3>1, <3>2, SpendKept
  <2>3. ASSUME NEW x \in Requests, Begin(x) PROVE SpendSees(op[r], view[r], stage[r])'
    <3>1. view' = view /\ stage'[x] = 1 /\ \A t \in Requests \ {x} : op'[t] = op[t] /\ stage'[t] = stage[t]
      BY <2>3 DEF Begin, Shape, TypeOK
    <3>2. CASE r = x BY <3>1, <3>2 DEF SpendSees
    <3>3. CASE r # x
      <4>1. SpendSees(op[r], view[r], stage[r]) BY <2>1, <3>1, <3>3 DEF FundsStand, Running
      <4> QED BY <2>1, <3>1, <3>3, <4>1, SpendKept
    <3> QED BY <3>2, <3>3
  <2>4. ASSUME NEW x \in Requests, Advance(x) PROVE SpendSees(op[r], view[r], stage[r])'
    <3>1. /\ op' = op /\ stage'[x] = stage[x] + 1
          /\ \A t \in Requests \ {x} : stage'[t] = stage[t] /\ view'[t] = view[t]
      BY <2>4, AdvanceFacts
    <3>2. SpendSees(op[r], view[r], stage[r]) BY <2>1, <3>1 DEF FundsStand, Running
    <3>3. CASE r = x
      <4>1. SpendSees(op[r], view'[r], stage[r] + 1) BY <2>4, <3>2, <3>3, SpendSeesMore
      <4> PICK v, n : v = view'[r] /\ n = stage'[r] OBVIOUS
      <4>2. SpendSees(op[r], v, n) BY <3>1, <3>3, <4>1
      <4> QED BY <2>1, <3>1, <4>2, SpendKept
    <3>4. CASE r # x BY <2>1, <3>1, <3>2, <3>4, SpendKept
    <3> QED BY <3>3, <3>4
  <2>5. CASE \E x \in Requests : Reject(x) \/ Abort(x)
    <3>1. PICK x \in Requests : Finish(x, Idle) BY <2>5 DEF Reject, Abort
    <3>2. /\ ~Running(x)'
          /\ \A t \in Requests \ {x} : op'[t] = op[t] /\ view'[t] = view[t] /\ stage'[t] = stage[t]
      BY <3>1, FinishFacts
    <3>3. r # x BY <3>2
    <3>4. SpendSees(op[r], view[r], stage[r]) BY <2>1, <3>2, <3>3 DEF FundsStand, Running
    <3> QED BY <2>1, <3>2, <3>3, <3>4, SpendKept
  <2> QED BY <1>2, <2>2, <2>3, <2>4, <2>5 DEF Next, Commit
<1> QED BY <1>1, <1>2

\* ... from the first.
LEMMA FundsInitially == Init => BesideOnly /\ HoldsPlan /\ FundsStand
BY NoneRunsAtFirst DEF BesideOnly, HoldsPlan, FundsStand

(* An open session has no rounding to leave out.                           *)
LEMMA NetOfOpen ==
  ASSUME NEW s \in Requests, session[s].adjustment = 0, NEW a, NEW first, NEW last
  PROVE  Net(a, first, last, s) = Net(a, first, last, None)
<1>1. \A t \in Requests : Adjusted(a, first, last, s)[t] = Adjusted(a, first, last, None)[t]
  <2>1. \A t \in Requests : t # None BY DeskAssumption
  <2> QED BY <2>1 DEF Adjusted
<1>2. Adjusted(a, first, last, s) = Adjusted(a, first, last, None) BY <1>1 DEF Adjusted
<1> QED BY <1>2, NetIs

(* A spending takes its amount from the account, once at most.             *)
LEMMA SpentOnce ==
  ASSUME NEW r \in Requests, NEW a, NEW k \in Nat, NEW first, NEW last,
         move'[r].from = a, move'[r].to # a, move'[r].amount = k
  PROVE  Moved(a, first, last)'[r] \in Int /\ Moved(a, first, last)'[r] >= -k
<1>1. Moved(a, first, last)'[r] = 0 \/ Moved(a, first, last)'[r] = 0 - k BY DEF Moved
<1> QED BY <1>1

\* What a transfer or a funding takes is covered.
LEMMA PaidCovered ==
  ASSUME Shape, Dated, CloseReads, FundsStand, "close" \notin workload.beside, NEW r \in Requests,
         Open(r) \/ Move(r), move'[r] # move[r], NEW a \in Accounts, move'[r].from = a
  PROVE  Covered(a)'
<1>0. Commit(r) /\ TypeOK BY DEF Commit, Shape
<1>1. Running(r) /\ AtEnd(r) /\ session[r].status = "NONE" /\ Len(Plan(op[r])) \in 2..5
      /\ stage[r] = Len(Plan(op[r])) + 1 /\ CallOK(op[r]) /\ op[r].amount \in Nat
  BY <1>0, CommitEnds, CallFacts DEF Operation
<1> PICK k : k = op[r].amount OBVIOUS
<1>2. k \in Nat BY <1>1
<1>3. /\ move'[r].to # a /\ move'[r].amount = k /\ Covers(a, k, None, 0)
      /\ \A s \in Requests \ {r} : session'[s] = session[s]
  <2>1. SpendSees(op[r], view[r], stage[r]) BY <1>1 DEF FundsStand
  <2>2. CASE Open(r)
    <3>1. op[r].kind = "open" /\ Funded(op[r]) BY <2>2, OpenFacts
    <3>2. /\ move'[r].from = op[r].from /\ move'[r].to = op[r].to /\ move'[r].amount = k
          /\ view[r].funds >= k /\ \A s \in Requests \ {r} : session'[s] = session[s]
      BY <2>2, <3>1, OpenFacts
    <3>3. op[r].from # op[r].to BY <1>1, <3>1 DEF CallOK
    <3>4. Len(Plan(op[r])) = 5 BY <3>1, OpenSteps
    <3>5. stage[r] > 4 BY <1>1, <3>4
    <3>6. Covers(op[r].from, k, None, 0) BY <2>1, <3>1, <3>2, <3>5 DEF SpendSees
    <3> QED BY <3>2, <3>3, <3>6
  <2>3. CASE Move(r)
    <3>1. op[r].kind = "transfer" BY <2>3, MoveFacts
    <3>2. /\ move'[r].from = op[r].from /\ move'[r].to = op[r].to /\ move'[r].amount = k
          /\ view[r].funds >= k /\ session' = session
      BY <2>3, MoveFacts
    <3>3. op[r].from # op[r].to BY <1>1, <3>1 DEF CallOK
    <3>4. Len(Plan(op[r])) = 2 BY <3>1, TransferSteps
    <3>5. stage[r] > 2 BY <1>1, <3>4
    <3>6. Covers(op[r].from, k, None, 0) BY <2>1, <3>1, <3>2, <3>5 DEF SpendSees
    <3> QED BY <3>2, <3>3, <3>6
  <2> QED BY <2>2, <2>3
<1>4. ASSUME NEW first, NEW last, NEW except
      PROVE  /\ Net(a, first, last, except) \in Int /\ Net(a, first, last, except)' \in Int
             /\ Net(a, first, last, except)' >= Net(a, first, last, except) - k
  <2> DEFINE y == Net(a, first, last, except)
             z == Net(a, first, last, except)'
             m == Moved(a, first, last)'[r]
  <2>1. y \in Int /\ z = y + m BY <1>0, NetType, NetPosted
  <2>2. m \in Int /\ m >= -k BY <1>2, <1>3, SpentOnce
  <2> HIDE DEF y, z, m
  <2>3. z \in Int /\ z >= y - k BY <1>2, <2>1, <2>2
  <2> QED BY <2>1, <2>3 DEF y, z
<1>5. CASE Balance(a) + 0 >= k
  <2> DEFINE y == Net(a, 0, MaxClock, None)
             z == Net(a, 0, MaxClock, None)'
  <2>1. Opening[a] \in Nat BY DeskAssumption
  <2>2. Balance(a) = Opening[a] + y /\ Balance(a)' = Opening[a] + z BY DEF Balance
  <2>3. y \in Int /\ z \in Int /\ z >= y - k BY <1>4
  <2> HIDE DEF y, z
  <2>4. Balance(a)' >= 0 BY <1>2, <1>5, <2>1, <2>2, <2>3
  <2> QED BY <2>4 DEF Covered
<1>6. CASE \E s \in OpenOn(a) \ {None} :
             session[s].opening + Net(a, session[s].openedAt, MaxClock, None) + 0 >= k
  <2> PICK s \in OpenOn(a) :
          session[s].opening + Net(a, session[s].openedAt, MaxClock, None) + 0 >= k
    BY <1>6
  <2> PICK n : n = session[s].openedAt OBVIOUS
  <2>1. s \in Requests /\ session[s].status = "OPEN" /\ session[s].drawer = a /\ s # r BY <1>1 DEF OpenOn
  <2>2. session'[s] = session[s] /\ session[s].opening \in Nat /\ session[s].adjustment = 0
    BY <1>0, <1>3, <2>1, RowFacts DEF Dated, Unrounded
  <2>3. s \in OpenOn(a)' BY <2>1, <2>2 DEF OpenOn
  <2>4. Net(a, n, MaxClock, s) = Net(a, n, MaxClock, None) BY <2>1, <2>2, NetOfOpen
  <2> DEFINE y == Net(a, n, MaxClock, s)
             z == Net(a, n, MaxClock, s)'
             opening == session[s].opening
  <2>5. y \in Int /\ z \in Int /\ z >= y - k BY <1>4
  <2>6. opening \in Nat /\ opening + y + 0 >= k BY <2>2, <2>4
  <2>7. ExpectedClosing(s)' = opening + z BY <2>1, <2>2 DEF ExpectedClosing
  <2> HIDE DEF y, z, opening
  <2>8. ExpectedClosing(s)' >= 0 BY <1>2, <2>5, <2>6, <2>7
  <2> QED BY <2>3, <2>8 DEF Covered
<1> QED BY <1>3, <1>5, <1>6 DEF Covers

\* So is what a close hands over.
LEMMA HandoverCovered ==
  ASSUME Shape, Dated, CloseReads, FundsStand, "close" \notin workload.beside, NEW r \in Requests,
         Close(r), move'[r] # move[r], NEW a \in Accounts, move'[r].from = a
  PROVE  Covered(a)'
<1> PICK c, k, x : c = op[r].session /\ k = op[r].amount /\ x = Adjustment(op[r], view[r]) OBVIOUS
<1>0. Commit(r) /\ TypeOK BY DEF Commit, Shape
<1>1. /\ op[r].kind = "close" /\ c \in Requests /\ c # r /\ session'[c].drawer = session[c].drawer
      /\ session'[c].adjustedAt = view[r].adjustedAt /\ session'[c].adjustment = x /\ x \in Int
      /\ \A s \in Requests : s # r /\ s # c => session'[s] = session[s]
  BY CloseFacts
<1>2. HandsOver(op[r]) BY CloseFacts
<1>3. /\ a = session[c].drawer /\ move'[r].to # a /\ move'[r].amount = k /\ view[r].funds >= k
  BY <1>2, CloseFacts
<1>4. /\ Running(r) /\ session[r].status = "NONE" /\ Len(Plan(op[r])) \in 2..5
      /\ stage[r] = Len(Plan(op[r])) + 1 /\ k \in Nat /\ view[r].adjustedAt \in Nat
  BY <1>0, CommitEnds, CallFacts DEF Operation, View
<1>5. /\ \A s \in Requests : session[s].openedAt <= view[r].adjustedAt
      /\ Covers(a, k, c, x)
  <2>1. SpendSees(op[r], view[r], stage[r]) BY <1>4 DEF FundsStand
  <2>2. Len(Plan(op[r])) = 5 BY <1>1, <1>2, CloseSteps
  <2>3. stage[r] > 4 /\ stage[r] > 2 BY <1>4, <2>2
  <2> QED BY <1>1, <1>3, <2>1, <2>3 DEF SpendSees
<1>6. view[r].adjustedAt <= MaxClock
  <2>1. view[r].adjustedAt <= clock /\ clock \in 0..MaxClock /\ MaxClock \in Nat
    BY <1>0, DeskAssumption DEF Dated, ViewsDated, TypeOK
  <2> QED BY <1>4, <2>1
<1>7. ASSUME NEW first \in Nat, first <= view[r].adjustedAt, NEW except, except # c
      PROVE  /\ Net(a, first, MaxClock, except) \in Int /\ Net(a, first, MaxClock, except)' \in Int
             /\ Net(a, first, MaxClock, except)' >= Net(a, first, MaxClock, except) + x - k
  <2> DEFINE y == Net(a, first, MaxClock, except)
             z == Net(a, first, MaxClock, except)'
             m == Moved(a, first, MaxClock)'[r]
             b == Adjusted(a, first, MaxClock, except)'[c]
  <2>1. y \in Int /\ z = y + m + b BY <1>0, NetType, NetClosed
  <2>2. m \in Int /\ m >= -k BY <1>3, <1>4, SpentOnce
  <2>3. b = x
    <3>1. MaxClock \in Nat BY DeskAssumption
    <3>2. session'[c].adjustedAt \in first..MaxClock BY <1>1, <1>4, <1>6, <1>7, <3>1
    <3> QED BY <1>1, <1>3, <1>7, <3>2 DEF Adjusted
  <2> HIDE DEF y, z, m, b
  <2>4. z \in Int /\ z >= y + x - k BY <1>1, <1>4, <2>1, <2>2, <2>3
  <2> QED BY <2>1, <2>4 DEF y, z
<1>8. CASE Balance(a) + x >= k
  <2> DEFINE y == Net(a, 0, MaxClock, None)
             z == Net(a, 0, MaxClock, None)'
  <2>1. Opening[a] \in Nat /\ None # c BY <1>1, DeskAssumption
  <2>2. Balance(a) = Opening[a] + y /\ Balance(a)' = Opening[a] + z BY DEF Balance
  <2>3. y \in Int /\ z \in Int /\ z >= y + x - k BY <1>4, <1>7, <2>1
  <2> HIDE DEF y, z
  <2>4. Balance(a)' >= 0 BY <1>1, <1>4, <1>8, <2>1, <2>2, <2>3
  <2> QED BY <2>4 DEF Covered
<1>9. CASE \E s \in OpenOn(a) \ {c} :
             session[s].opening + Net(a, session[s].openedAt, MaxClock, None) + x >= k
  <2> PICK s \in OpenOn(a) \ {c} :
          session[s].opening + Net(a, session[s].openedAt, MaxClock, None) + x >= k
    BY <1>9
  <2> PICK n : n = session[s].openedAt OBVIOUS
  <2>1. s \in Requests /\ session[s].status = "OPEN" /\ session[s].drawer = a /\ s # r /\ s # c
    BY <1>4 DEF OpenOn
  <2>2. session'[s] = session[s] /\ session[s].opening \in Nat /\ session[s].adjustment = 0 /\ n \in Nat
    BY <1>0, <1>1, <2>1, RowFacts DEF Dated, Unrounded
  <2>3. s \in OpenOn(a)' BY <2>1, <2>2 DEF OpenOn
  <2>4. Net(a, n, MaxClock, s) = Net(a, n, MaxClock, None) BY <2>1, <2>2, NetOfOpen
  <2> DEFINE y == Net(a, n, MaxClock, s)
             z == Net(a, n, MaxClock, s)'
             opening == session[s].opening
  <2>5. y \in Int /\ z \in Int /\ z >= y + x - k BY <1>5, <1>7, <2>1, <2>2
  <2>6. opening \in Nat /\ opening + y + x >= k BY <2>2, <2>4
  <2>7. ExpectedClosing(s)' = opening + z BY <2>1, <2>2 DEF ExpectedClosing
  <2> HIDE DEF y, z, opening
  <2>8. ExpectedClosing(s)' >= 0 BY <1>1, <1>4, <2>5, <2>6, <2>7
  <2> QED BY <2>3, <2>8 DEF Covered
<1> QED BY <1>5, <1>8, <1>9 DEF Covers

(* Money leaves an account that has it: as long as no drawer is closed     *)
(* meanwhile, the account of a transfer, a funding or a handover is not    *)
(* overdrawn afterwards, or an open session has the notes.                 *)
THEOREM SourceCoveredProperty == Spec => SourceCovered
<1> DEFINE Inv == Shape /\ Dated /\ CloseReads /\ BesideOnly /\ HoldsPlan /\ FundsStand
           Paid == \A r \in Requests, a \in Accounts :
             "close" \notin workload.beside /\ move'[r] # move[r] /\ move'[r].from = a => Covered(a)'
<1>1. Init => Inv BY ShapeInit, DatedInitially, CloseReadsInitially, FundsInitially
<1>2. Inv /\ [Next]_vars => Inv'
  BY ShapeNext, DatedNext, CloseReadsNext, BesideOnlyNext, HoldsPlanNext, FundsStandNext
<1>3. Inv /\ [Next]_vars => Paid
  <2> SUFFICES ASSUME Inv, [Next]_vars, NEW r \in Requests, NEW a \in Accounts,
                      "close" \notin workload.beside, move'[r] # move[r], move'[r].from = a
               PROVE  Covered(a)'
    OBVIOUS
  <2>1. PICK x \in Requests : Commit(x)
    <3>1. ~UNCHANGED vars /\ \A y \in Requests : ~Begin(y) /\ ~Advance(y) /\ ~Reject(y) /\ ~Abort(y)
      BY DEF vars, Begin, Advance, Reject, Abort
    <3> QED BY <3>1 DEF Next, Commit
  <2>2. r = x BY <2>1, CommitFacts
  <2>3. CASE Open(r) \/ Move(r) BY <2>3, PaidCovered
  <2>4. CASE Close(r) BY <2>4, HandoverCovered
  <2> QED BY <2>1, <2>2, <2>3, <2>4 DEF Commit
<1>4. [][Paid]_vars => SourceCovered BY DEF SourceCovered
<1> HIDE DEF Inv, Paid
<1> QED BY <1>1, <1>2, <1>3, <1>4, PTL DEF Spec

=============================================================================
