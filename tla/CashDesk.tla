------------------------------ MODULE CashDesk ------------------------------
(***************************************************************************)
(* Cash drawers and their shifts.  A session is opened with a count of the *)
(* notes, funded or not from another drawer; it is closed with a count     *)
(* that must be what the ledger expects, and the cash may be handed over   *)
(* to another drawer or to the next operator in the same transaction.      *)
(* Meanwhile transfers move money in and out of the drawer.  What a shift  *)
(* is accountable for is decided by time: every journal has a posting      *)
(* date, and a session counts those from its opening to its close.         *)
(***************************************************************************)
EXTENDS RowLocks, Integers, Sequences, Functions

CONSTANTS
    Drawers,        \* the accounts of type CASH
    Banks,          \* the other liquid accounts
    Rank,           \* the order of their ids
    Opening,        \* their opening balances
    Users,          \* cash operators
    Amounts,        \* what may be transferred
    Counts,         \* what may be counted
    Rupee,          \* how many units make one rupee
    Simultaneous,   \* may two dates fall into one millisecond?
    MaxClock,       \* the last date
    Workloads,      \* bounds: which kinds of request occur alone, which beside
                    \* others, the users, amounts and counts they mention, and until when
    None            \* no session, account, user

Accounts == Drawers \cup Banks
Kinds == {"open", "transfer", "close"}

ASSUME DeskAssumption ==
    /\ IsFiniteSet(Requests) /\ IsFiniteSet(Drawers) /\ IsFiniteSet(Banks)
    /\ Drawers \cap Banks = {}
    /\ Rank \in [Accounts -> Nat]
    /\ \A a, b \in Accounts : Rank[a] = Rank[b] => a = b
    /\ Opening \in [Accounts -> Nat]
    /\ Amounts \subseteq Nat \ {0} /\ Counts \subseteq Nat
    /\ Rupee \in Nat \ {0}
    /\ Simultaneous \in BOOLEAN
    /\ MaxClock \in Nat
    /\ \A w \in Workloads : /\ w.alone \cup w.beside \subseteq Kinds
                            /\ w.users \subseteq Users
                            /\ w.amounts \subseteq Amounts /\ w.counts \subseteq Counts
                            /\ w.until \in 0..MaxClock
    /\ None \notin Requests \cup Accounts \cup Users

VARIABLES
    session,    \* the CashSession row each request has created
    move,       \* the transfer it has posted: funding, handover or plain
    clock,      \* the latest date given to anything
    op,         \* the call each request is executing
    stage,      \* the next step of its plan
    view,       \* what it has read, and the dates it has taken
    workload    \* the member of Workloads this behaviour is bounded by

vars == <<session, move, clock, op, stage, view, workload, holder>>

---------------------------------------------------------------------------
(* Rows.                                                                   *)

CashSession == [status : {"OPEN", "CLOSED"}, drawer : Drawers, operator : Users,
                openedAt : Nat, opening : Nat, closedAt : Nat,
                expected : Int, actual : Nat, adjustedAt : Nat, adjustment : Int]

NoSession == [status |-> "NONE", drawer |-> None, operator |-> None,
              openedAt |-> 0, opening |-> 0, closedAt |-> 0,
              expected |-> 0, actual |-> 0, adjustedAt |-> 0, adjustment |-> 0]

NewSession(drawer, operator, openedAt, count) ==
    [NoSession EXCEPT !.status = "OPEN", !.drawer = drawer, !.operator = operator,
                      !.openedAt = openedAt, !.opening = count]

Transfer == [from : Accounts, to : Accounts, amount : Nat, date : Nat]

NoTransfer == [from |-> None, to |-> None, amount |-> 0, date |-> 0]

(* What the journals dated between two dates change of an account; the     *)
(* adjustment of session `except` is left out.                             *)
Net(a, first, last, except) ==
    SumFunction([r \in Requests |->
        LET m == move[r]
        IN  IF m.date \notin first..last THEN 0
            ELSE (IF m.to = a THEN m.amount ELSE 0) - (IF m.from = a THEN m.amount ELSE 0)])
    + SumFunction([s \in Requests |->
        IF s # except /\ session[s].drawer = a /\ session[s].adjustedAt \in first..last
        THEN session[s].adjustment ELSE 0])

Balance(a) == Opening[a] + Net(a, 0, MaxClock, None)

OpenOn(a) == {s \in Requests : session[s].status = "OPEN" /\ session[s].drawer = a}

(* expectedClosing(): the opening count and everything posted since.       *)
ExpectedClosing(s) ==
    session[s].opening + Net(session[s].drawer, session[s].openedAt, MaxClock, s)

(* ensureSufficientFunds(): the balance of the account, or, when it is too *)
(* low, what the latest open session of the drawer has counted and moved.  *)
(* `closing` and `adjustment` are what the transaction has itself written. *)
Available(a, amount, closing, adjustment) ==
    LET balance == Balance(a) + adjustment
        open    == OpenOn(a) \ {closing}
        latest  == CHOOSE s \in open : \A t \in open : session[t].openedAt <= session[s].openedAt
    IN  IF balance >= amount \/ open = {} THEN balance
        ELSE session[latest].opening
             + Net(a, session[latest].openedAt, MaxClock, None) + adjustment

---------------------------------------------------------------------------
(* Calls and what they have read.                                          *)

Operation == [kind : Kinds \cup {"idle", "done"}, session : Requests \cup {None},
              from : Accounts \cup {None}, to : Accounts \cup {None},
              amount : Nat, user : Users \cup {None}, approve : BOOLEAN]

(* `from` and `to` are the accounts of a transfer, the funding drawer (if  *)
(* any) and the drawer of an opening, the handover account (if any) of a   *)
(* close; `amount` is the transfer or the count; `user` the operator, the  *)
(* next one for a close; `approve` an owner's approval of the rounding.    *)
Call(kind, s, from, to, amount, user, approve) ==
    [kind |-> kind, session |-> s, from |-> from, to |-> to,
     amount |-> amount, user |-> user, approve |-> approve]

Idle == Call("idle", None, None, None, 0, None, FALSE)
Done == Call("done", None, None, None, 0, None, FALSE)

Running(r) == op[r].kind \in Kinds

NoView == [existing |-> {}, desks |-> {}, funds |-> 0,
           session |-> NoSession, expected |-> 0,
           adjustedAt |-> 0, closedAt |-> 0, postedAt |-> 0, openedAt |-> 0]

Rows == ({"account"} \X Accounts) \cup ({"session"} \X Requests)

AccountLock(a) == <<"account", a>>
SessionLock(s) == <<"session", s>>

Step(rows, look) == [rows |-> rows, look |-> look]

(* The notes come from another drawer.                                     *)
Funded(o) == o.kind = "open" /\ o.from # None /\ o.amount > 0

(* They leave for another drawer.                                          *)
HandsOver(o) == o.kind = "close" /\ o.to \notin {None, session[o.session].drawer} /\ o.amount > 0

(* Variant of Earlier that keeps the order of the request.                 *)
EarlierAsGiven(a, b) == a

Earlier(a, b) == IF Rank[a] < Rank[b] THEN a ELSE b
Later(a, b) == IF Earlier(a, b) = a THEN b ELSE a

(* Variant of the plan below that dates the session before its funding.    *)
OpenPlanSessionFirst(o) ==
    IF Funded(o)
    THEN << Step({}, {"existing"}),
            Step({AccountLock(Earlier(o.from, o.to))}, {}),
            Step({AccountLock(Later(o.from, o.to))}, {"desks"}),
            Step({}, {"openedAt"}), Step({}, {"funds", "postedAt"}) >>
    ELSE << Step({}, {"existing"}), Step({}, {"openedAt"}) >>

(* open() looks for an open session before its transaction begins.         *)
OpenPlan(o) ==
    IF Funded(o)
    THEN << Step({}, {"existing"}),
            Step({AccountLock(Earlier(o.from, o.to))}, {}),
            Step({AccountLock(Later(o.from, o.to))}, {"desks"}),
            Step({}, {"funds", "postedAt"}), Step({}, {"openedAt"}) >>
    ELSE << Step({}, {"existing"}), Step({}, {"openedAt"}) >>

(* Variant of the plan below without its lock.                             *)
TransferPlanUnlocked(o) == << Step({}, {"desks"}), Step({}, {"funds", "postedAt"}) >>

(* createInternalTransfer() locks the source only and reads the desks      *)
(* without a lock.                                                         *)
TransferPlan(o) ==
    << Step({AccountLock(o.from)}, {"desks"}), Step({}, {"funds", "postedAt"}) >>

(* Variant of the plan below that reads the session without locking it.    *)
ClosePlanUnlocked(o) ==
    IF HandsOver(o) \/ o.user # None
    THEN << Step({}, {"session"}), Step({}, {"expected", "adjustedAt"}), Step({}, {"closedAt"}),
            Step({}, {"funds", "postedAt"}), Step({}, {"existing", "openedAt"}) >>
    ELSE << Step({}, {"session"}), Step({}, {"expected", "adjustedAt"}), Step({}, {"closedAt"}) >>

(* Variant of the plan below that closes the session after the handover.   *)
ClosePlanHandoverFirst(o) ==
    IF HandsOver(o) \/ o.user # None
    THEN << Step({SessionLock(o.session)}, {"session"}), Step({}, {"expected", "adjustedAt"}),
            Step({}, {"funds", "postedAt"}), Step({}, {"closedAt"}),
            Step({}, {"existing", "openedAt"}) >>
    ELSE << Step({SessionLock(o.session)}, {"session"}), Step({}, {"expected", "adjustedAt"}),
            Step({}, {"closedAt"}) >>

(* close() locks the session and nothing that is posted to its drawer.     *)
ClosePlan(o) ==
    IF HandsOver(o) \/ o.user # None
    THEN << Step({SessionLock(o.session)}, {"session"}), Step({}, {"expected", "adjustedAt"}),
            Step({}, {"closedAt"}), Step({}, {"funds", "postedAt"}),
            Step({}, {"existing", "openedAt"}) >>
    ELSE << Step({SessionLock(o.session)}, {"session"}), Step({}, {"expected", "adjustedAt"}),
            Step({}, {"closedAt"}) >>

Plan(o) ==
    CASE o.kind = "open"     -> OpenPlan(o)
      [] o.kind = "transfer" -> TransferPlan(o)
      [] o.kind = "close"    -> ClosePlan(o)

Dates == {"adjustedAt", "closedAt", "postedAt", "openedAt"}

---------------------------------------------------------------------------
(* The operations.                                                         *)

(* The drawer the cash of a closed session is in afterwards.               *)
Destination(o) == IF o.to = None THEN session[o.session].drawer ELSE o.to

(* No open session of the drawer was found.                                *)
Free(v) == v.existing = {}

OpenChecks(o, v) ==
    /\ Free(v)
    /\ Funded(o) => o.from \in v.desks /\ v.funds >= o.amount

OpenEffect(r, o, v) ==
    /\ session' = [session EXCEPT ![r] = NewSession(o.to, o.user, v.openedAt, o.amount)]
    /\ move' = IF Funded(o)
               THEN [move EXCEPT ![r] = [from |-> o.from, to |-> o.to, amount |-> o.amount,
                                         date |-> v.postedAt]]
               ELSE move

TransferChecks(o, v) ==
    /\ {o.from, o.to} \cap Drawers \subseteq v.desks
    /\ v.funds >= o.amount

TransferEffect(r, o, v) ==
    /\ move' = [move EXCEPT ![r] = [from |-> o.from, to |-> o.to, amount |-> o.amount,
                                    date |-> v.postedAt]]
    /\ UNCHANGED session

(* The count is what is expected, or the nearest whole rupee to it and an  *)
(* owner has approved that.                                                *)
Nearest(n) == ((2 * n + Rupee) \div (2 * Rupee)) * Rupee

CountAccepted(o, v) ==
    IF o.amount = v.expected THEN ~o.approve
    ELSE o.approve /\ o.amount % Rupee = 0 /\ o.amount = Nearest(v.expected)

CloseChecks(o, v) ==
    /\ v.session.status = "OPEN"
    /\ CountAccepted(o, v)
    /\ HandsOver(o) => v.funds >= o.amount
    /\ o.user # None /\ ~Free(v) =>
         \E s \in v.existing : session[s].operator = o.user

Adjustment(o, v) == o.amount - v.expected

CloseEffect(r, o, v) ==
    LET closed == [session[o.session] EXCEPT
                     !.status = "CLOSED", !.closedAt = v.closedAt, !.expected = v.expected,
                     !.actual = o.amount, !.adjustedAt = v.adjustedAt,
                     !.adjustment = Adjustment(o, v)]
        next   == IF o.user # None /\ Free(v)
                  THEN NewSession(Destination(o), o.user, v.openedAt, o.amount)
                  ELSE NoSession
    IN  /\ session' = [session EXCEPT ![o.session] = closed, ![r] = next]
        /\ move' = IF HandsOver(o)
                   THEN [move EXCEPT ![r] = [from |-> session[o.session].drawer, to |-> o.to,
                                             amount |-> o.amount, date |-> v.postedAt]]
                   ELSE move

---------------------------------------------------------------------------
(* Steps.                                                                  *)

Checks(o, v) ==
    CASE o.kind = "open"     -> OpenChecks(o, v)
      [] o.kind = "transfer" -> TransferChecks(o, v)
      [] o.kind = "close"    -> CloseChecks(o, v)

Calls ==
    {o \in [kind : {"open"}, session : {None}, from : Drawers \cup {None}, to : Drawers,
            amount : workload.counts, user : workload.users, approve : {FALSE}] : o.from # o.to}
    \cup {o \in [kind : {"transfer"}, session : {None}, from : Accounts, to : Accounts,
                 amount : workload.amounts, user : {None}, approve : {FALSE}] : o.from # o.to}
    \cup [kind : {"close"}, session : {t \in Requests : session[t].status # "NONE"},
          from : {None}, to : Drawers \cup {None}, amount : workload.counts,
          user : workload.users \cup {None}, approve : BOOLEAN]

(* The bound on what happens at the same time: two calls of the kinds that *)
(* may overlap, or one.                                                    *)
InFlight == {r \in Requests : Running(r)}
Allowed(kind) ==
    \/ InFlight = {} /\ kind \in workload.alone \cup workload.beside
    \/ /\ kind \in workload.beside /\ Cardinality(InFlight) = 1
       /\ \A r \in InFlight : op[r].kind \in workload.beside

Begin(r) ==
    /\ op[r] = Idle
    /\ \E o \in Calls : Allowed(o.kind) /\ op' = [op EXCEPT ![r] = o]
    /\ stage' = [stage EXCEPT ![r] = 1]
    /\ UNCHANGED <<session, move, clock, view, workload, holder>>

(* What one step reads, at date t.  The account whose funds are looked at  *)
(* is the source of the call, or the drawer that is being closed.          *)
Look(o, v, look, t) ==
    [existing |-> IF "existing" \notin look THEN v.existing
                  ELSE IF o.kind = "close" THEN OpenOn(Destination(o)) \ {o.session}
                  ELSE OpenOn(o.to),
     desks |-> IF "desks" \in look THEN {a \in Drawers : OpenOn(a) # {}} ELSE v.desks,
     funds |-> IF "funds" \notin look THEN v.funds
               ELSE IF o.kind = "close"
               THEN Available(session[o.session].drawer, o.amount, o.session, Adjustment(o, v))
               ELSE Available(o.from, o.amount, None, 0),
     session |-> IF "session" \in look THEN session[o.session] ELSE v.session,
     expected |-> IF "expected" \in look THEN ExpectedClosing(o.session) ELSE v.expected,
     adjustedAt |-> IF "adjustedAt" \in look THEN t ELSE v.adjustedAt,
     closedAt |-> IF "closedAt" \in look THEN t ELSE v.closedAt,
     postedAt |-> IF "postedAt" \in look THEN t ELSE v.postedAt,
     openedAt |-> IF "openedAt" \in look THEN t ELSE v.openedAt]

(* The dates a step may take: later than every other one, or the same.     *)
Now(look) ==
    IF look \cap Dates = {} THEN {clock}
    ELSE {t \in clock..(clock + 1) : t <= workload.until /\ (t = clock => Simultaneous)}

AtEnd(r) == stage[r] > Len(Plan(op[r]))

(* open() gives up before its transaction when it finds a session.         *)
Refused(r) == op[r].kind = "open" /\ stage[r] > 1 /\ ~Free(view[r])

Wanted(r) ==
    IF Running(r) /\ ~AtEnd(r) /\ ~Refused(r) THEN Plan(op[r])[stage[r]].rows ELSE {}

Advance(r) ==
    /\ Running(r) /\ ~AtEnd(r) /\ ~Refused(r)
    /\ Acquire(r, Wanted(r))
    /\ \E t \in Now(Plan(op[r])[stage[r]].look) :
         /\ clock' = t
         /\ view' = [view EXCEPT ![r] = Look(op[r], view[r], Plan(op[r])[stage[r]].look, t)]
    /\ stage' = [stage EXCEPT ![r] = @ + 1]
    /\ UNCHANGED <<session, move, op, workload>>

Finish(r, o) ==
    /\ op' = [op EXCEPT ![r] = o]
    /\ stage' = [stage EXCEPT ![r] = 0]
    /\ view' = [view EXCEPT ![r] = NoView]
    /\ ReleaseAll(r)
    /\ UNCHANGED <<clock, workload>>

Reject(r) ==
    /\ Running(r)
    /\ Refused(r) \/ (AtEnd(r) /\ ~Checks(op[r], view[r]))
    /\ Finish(r, Idle)
    /\ UNCHANGED <<session, move>>

Abort(r) == Running(r) /\ Finish(r, Idle) /\ UNCHANGED <<session, move>>

Commits(r, kind) ==
    op[r].kind = kind /\ AtEnd(r) /\ Checks(op[r], view[r]) /\ Finish(r, Done)

Open(r)  == Commits(r, "open") /\ OpenEffect(r, op[r], view[r])
Move(r)  == Commits(r, "transfer") /\ TransferEffect(r, op[r], view[r])
Close(r) == Commits(r, "close") /\ CloseEffect(r, op[r], view[r])

Init ==
    /\ session = [r \in Requests |-> NoSession]
    /\ move = [r \in Requests |-> NoTransfer]
    /\ clock = 0
    /\ op = [r \in Requests |-> Idle]
    /\ stage = [r \in Requests |-> 0]
    /\ view = [r \in Requests |-> NoView]
    /\ workload \in Workloads
    /\ LocksInit(Rows)

Next ==
    \E r \in Requests : \/ Begin(r) \/ Advance(r) \/ Reject(r) \/ Abort(r)
                        \/ Open(r) \/ Move(r) \/ Close(r)

Spec == Init /\ [][Next]_vars

---------------------------------------------------------------------------
(* Properties.                                                             *)

(* Every variable has its type.                                            *)
View == [existing : SUBSET Requests, desks : SUBSET Drawers, funds : Int,
         session : CashSession \cup {NoSession}, expected : Int,
         adjustedAt : Nat, closedAt : Nat, postedAt : Nat, openedAt : Nat]

TypeOK ==
    /\ session \in [Requests -> CashSession \cup {NoSession}]
    /\ move \in [Requests -> Transfer \cup {NoTransfer}]
    /\ clock \in 0..MaxClock
    /\ op \in [Requests -> Operation]
    /\ stage \in [Requests -> Nat]
    /\ view \in [Requests -> View] /\ workload \in Workloads
    /\ LocksTypeOK(Rows)

(* One call after the other.                                               *)
InTurn == workload.beside = {}

(* "Concurrent double-open requests: exactly one OPEN session".            *)
OneOpenSession == \A a \in Drawers : Cardinality(OpenOn(a)) <= 1

(* One after the other, openings, closes and handovers leave a drawer with *)
(* one session at most.                                                    *)
OneOpenInTurn == InTurn => OneOpenSession

(* One call after the other, a closed shift accounts for its drawer: the   *)
(* opening count and all that was ever posted within its dates, the        *)
(* approved rounding included, make the closing count.                     *)
ClosingExplained ==
    InTurn => \A s \in Requests : session[s].status = "CLOSED" =>
        session[s].opening + Net(session[s].drawer, session[s].openedAt, session[s].closedAt, None)
          = session[s].actual

(* "Opening count is physical reconciliation, not a second transfer": what *)
(* a shift is expected to end with is, when it begins, what was counted,   *)
(* and not the funding or the handover once more.                          *)
OpeningCountedOnce ==
    [][InTurn => \A s \in Requests : session[s].status = "NONE" /\ session'[s].status = "OPEN" =>
         ExpectedClosing(s)' = session'[s].opening]_vars

(* A session is closed once: nothing changes its count, its expected total *)
(* or its rounding afterwards, and it is never opened again.               *)
ClosedForGood ==
    [][\A s \in Requests : session[s].status = "CLOSED" => session'[s] = session[s]]_vars

(* No two requests wait for each other.                                    *)
NoWaitCycle == ~WaitCycle([r \in Requests |-> Wanted(r)])

(* Money leaves an account that has it: after a transfer or a funding the  *)
(* ledger shows no negative balance, or an open session still accounts for *)
(* the notes that are there - as long as no drawer is closed meanwhile.    *)
Covered(a) == Balance(a) >= 0 \/ \E s \in OpenOn(a) : ExpectedClosing(s) >= 0

SourceCovered ==
    [][\A r \in Requests, a \in Accounts :
         "close" \notin workload.beside /\ move'[r] # move[r] /\ move'[r].from = a => Covered(a)']_vars

(* Shifts are what close() reports of them: one session at a time, and its *)
(* count explained by what was posted to the drawer within its dates.      *)
ShiftsAgree == TypeOK /\ OneOpenInTurn /\ ClosingExplained
=============================================================================
