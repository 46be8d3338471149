# Best Cash Ledger: a verification project

Best Cash Ledger is the back office of a shop that sells cash services: it
swipes customers' cards and pays the proceeds out, takes cash in and sends it to
bank accounts, runs AePS and micro-ATM withdrawals, lends against card bills,
and keeps drawers, banks and provider wallets. Everything is money owed, paid,
collected or moved, recorded by several members of staff at once, each request
in one PostgreSQL transaction or in several. This directory models that system
in TLA+, checks it with TLC and proves what matters most with TLAPS.

Paths below are relative to the repository; `api/` stands for
`src/apps/api/src/`.

1. [Inventory](#inventory)
2. [What is modelled](#what-is-modelled)
3. [Runs](#runs)
4. [Disagreements between code and its documents](#disagreements-between-code-and-its-documents)
5. [Proofs](#proofs)
6. [Not modelled](#not-modelled)
7. [Plan](#plan)

## Inventory

The API is a NestJS process over Prisma and PostgreSQL; the web application is a
set of forms and views over it. There is no queue, no scheduler and no cache
between requests (the sign-in counter excepted): all shared state is in the
tables, all interaction is through rows that several methods read and write, and
concurrency is what READ COMMITTED transactions allow (SERIALIZABLE in a few).
A method locks rows with `SELECT ... FOR UPDATE`
(`FinancialValidationService.lockAccount`, raw queries) and then reads them;
what it does not lock may change until it commits. Prisma ends an interactive
transaction after five seconds.

| Component | State it keeps | Operations that change it | Hard behaviour | What makes it correct |
|---|---|---|---|---|
| Customer payables (`api/payables`) | `CustomerPayable` (paid, advance offset, remaining, status), `PayablePayment`, `CustomerAdvanceOffset`, `CustomerLedgerAllocation` | pay, match a recorded Pay Out, undo the match, apply an advance, undo it, cancel | two staff settle the same swipe; a check on a row that is not locked; rounding of the last payout in notes | original = paid + offset + remaining; paid is what the active documents say; a Pay Out is used once; a void payable stays untouched; a refused payment can be resolved |
| Provider settlements (`api/provider-settlements`) | `ProviderSettlement`, `ProviderSettlementReceipt` | created with the swipe or withdrawal, receive, automatic receipt, reversal of a receipt | receipt against cancellation of the swipe; reversal of money already spent | the clearing account carries what is still to be settled; received + remaining = expected |
| Customer ledger entries (`api/customers`) | `CustomerLedgerEntryDetail`, allocations, customer balance computed from documents | Pay Out, Pay In, edit in place, allocations to swipes and card dues | the balance that classifies an entry is summed from rows nobody locks; an edit rewrites a posted journal | the classified parts add up; each part is used at most once; a closed cash session is not rewritten |
| Reversal (`api/transactions`, `reverse`) | status and `reversedTransactionId` of any transaction, mirrored journals | reverse any transaction once, with the guards of its kind | dependants recorded in between, order of reversal, lock order against cancel | books as if the transaction had never been; what depends on it first |
| Card swipes (`api/transactions`) | `Transaction`, `CardSwipeDetail`, fees, its payable and settlement | create with or without receipt and payouts, receive a deducted fee, correct, delete | several payouts from several accounts in one call | one payable and one settlement per swipe, journals balance, fees are earned once |
| Card due clearing (`api/transactions/card-due-clearing.service.ts`) | `CardDueClearingDetail`, recoveries, commission collections and assessments, receivable | create, recover (one case, all, combined), collect and assess commission, follow up | four kinds of dependants whose reversals are ordered by `createdAt`; shares computed before the locks | principal = recovered + outstanding, likewise the commission; nobody is credited while he owes |
| Receivables (`api/receivables`) | `CustomerReceivable`, `ReceivableCollection` | create, collect, cancel, ageing by the list, reversal of source and collection | cancel or reverse against a collection | original = received + remaining; nothing collected on a void one |
| Cash desk (`api/cash-counter`) | `CashSession`, `CashDenominationCount` | open with count and funding, close with count and handover, adjust | double open, payments that commit while the drawer is being closed | one open session per drawer; the closing count explains every movement |
| Ledger (`api/ledger`) | `LedgerJournal`, `LedgerEntry` | post a balanced journal, mirror it | partial postings, control accounts drifting from rows | debits equal credits; control accounts equal the rows they control |
| Financial validation (`api/finance`) | none, it reads accounts, sessions and balances | account locks, desk checks, funds, credit and reversal capacity | locks taken in another order elsewhere; balances read before the lock | no bank or wallet is overdrawn |
| Idempotency (`api/finance/idempotency.service.ts`) | the unique key on `Transaction` | client key or a key bucketed by 30 seconds | a retry that crosses a bucket, two at once | one effect per request |
| Quick cash, AePS, micro ATM, transfers, expenses, account entries (`api/transactions`) | the transaction and its detail row | create, complete, settle a partner, update, delete, move in time, add a missing commission, correct the amount | operations of two and more transactions, completed, corrected and reversed at once | pending money is accounted for once; a correction replaces all of an entry |
| Accounts and wallet reconciliation (`api/accounts`) | `FinancialAccount`, opening balance, difference journals | create, rename, switch off, set opening balance, reconcile against a statement | postings that commit between the balance and the difference | after reconciling, balance = statement; an account is settled when it is switched off, and what is on it afterwards is explained by corrections |
| End of day (`api/end-of-day`) | `Daily...` snapshots | snapshot a day | entries dated back; sessions opened while it is computed | the snapshot is the position the dashboard shows |
| Settings and providers (`api/settings`, `api/providers`) | lists, services, transfer types, dated slabs, commission rules | create, edit, switch on and off, replace slabs | neighbouring slabs, back-dated rates, the last entry of a list | one rate per amount and date; past rates stand |
| Sign-in and users (`api/auth`, `api/users`) | users, an in-memory count of failed attempts | create, promote, disable, reset a password, sign in | roles read before the change | only owners change owners; somebody can sign in |
| Dashboard, reports, exports (`api/dashboard`, `api/reports`, `api/search`, lists of the services above) | none of their own | read | each screen adds up other rows and columns | the same money on every screen |
| Audit log and health (`api/audit`, `api/health`) | `AuditLog` | written by every operation | old values read before the transaction | the last entry about a field is what the field holds |
| Web, scripts, deployment | none | none | none | [not modelled](#not-modelled) |

The components meet in four places: the payable and settlement rows of a swipe
(payables, settlements, customer entries, reversal), the ledger accounts
(everything that moves money), the open cash session (everything that touches a
drawer), and the transaction row with its status (everything that is created,
completed and reversed). `PROJECT.json` lists every component with its status,
and under `hazards` the places of the code where one of these meetings is hard
to test, with the properties that cover it or the reason none does.

## What is modelled

| Module | Models |
|---|---|
| `RowLocks` | PostgreSQL's row locks as the services use them: grant, hold until the end, release, wait cycles. The database is not part of the repository, so its definitions are marked external |
| `Obligations` | the abstract specification of an amount owed: incurred once, settled and unsettled in parts, assessed anew, voided only while nothing of it is settled |
| `PayableSettlement` | payables, provider settlements, Pay Outs, advances, cancellation and reversal: twelve kinds of request that run concurrently over the rows of a customer's swipes and over the ledger |
| `PayableReports` | what the screens make of these rows: the due report and its buckets, the owner's reconciliation with its suggestions, the customer's page, the Pay Outs it offers |
| `CustomerDues` | receivables and card dues with recoveries, combined receipts, Pay Ins, commissions, assessments and the reversal of each, fifteen kinds of request at once |
| `CustomerReports` | the unified list of receivables, the ageing, the register of card dues, the card ledger |
| `CashDesk` | drawers and shifts: openings with and without funding, transfers, closes with rounding and handover, the dates that decide which shift a movement belongs to |
| `Counter` | the counter's book: transaction rows with journals, incomes, charges, payables and settlements; the guards every operation shares; receipts, charges and the reversal of any row |
| `Swipes`, `QuickCash`, `Entries`, `CustomerEntries`, `Corrections` | what each kind of entry does to the book; the edit of Pay Ins and Pay Outs; `correctAmount` |
| `CounterDay` | days at the counter: all of these as actions, the requests that read first or take several transactions, submissions and their retries, the drawer's sessions, the end of day |
| `CounterReports` | transaction list, income breakdown, swipe report, dashboard, statements, exports of the same book |
| `Office`, `OfficeAccounts`, `OfficeSettings`, `OfficeWork` | accounts and reconciliation, providers and rates, settings, users, with the audit log; the counter goes on beside them |
| `MCPayableSettlement`, `MCCustomerDues`, `MCCashDesk`, `MCCounterDay`, `MCOffice` | the instances TLC checks |
| `SumLemmas` | what a sum over a finite set of integers does: it is an integer, it is natural if its terms are, one term can be split off, changing one term changes it by the difference, two sums add up term by term |
| `PayableSettlement_proofs`, `PayableControl_proofs` | theorems about `PayableSettlement`: types, locks, single rows, Pay Outs and accounts; documents against rows and ledgers, the refinement, lock order |
| `PayableReports_proofs` | theorems about `PayableReports`: the reconciliation, the customer's page, the lists of payouts due, what the screens advise |
| `CustomerDues_proofs` | theorems about `CustomerDues`: rows against documents, the refinement, the recovery for all cases, lock order |
| `CustomerReports_proofs` | theorems about `CustomerReports`: ledger accounts against documents; lists, register and card ledger against accounts |
| `CashDesk_proofs` | theorems about `CashDesk` |
| `Office_proofs` | theorems about the office: types, switches, reconciliations, rates, who may touch owners, the audit log |

Three shapes of model, chosen by where each part of the code can go wrong. Where
rows are locked and read statement by statement (`PayableSettlement`,
`CustomerDues`, `CashDesk`), a request is a plan of steps. Where a request is one
transaction under one lock but what it computes is intricate (`Counter` and what
extends it), an operation is a function from a book to a book and only what a
request reads *before* its transaction is a step of its own. Where almost every
method checks first and then writes (`Office`), a call is these two steps.

### How `PayableSettlement` corresponds to the code

*State.* `payable`, `settlement` and `source` are the rows of a swipe:
`CustomerPayable`, `ProviderSettlement` and the status of its `Transaction`
(`ABSENT` before it is recorded). `doc[r]` is the document request `r` has
recorded: a `PayablePayment`, a Pay Out (`CustomerLedgerEntryDetail` with its
allocations in `matched` and its used advance in `applied`), a
`CustomerAdvanceOffset` or a `ProviderSettlementReceipt`, together with the
status of its transaction. `ledger` is the balance of every ledger account,
debit positive. `op`, `stage` and `view` are what is local to a request: its
arguments, where it is, and the local variables that hold what it has read.
`holder` says who has locked which row.

*A request* is a plan followed by a commit. The plan of a method (`PayPlan`,
`AdvancePlan`, `CancelPlan`...) is the sequence of its statements as far as other
requests can tell them apart: rows to lock, then tables to read. `Advance` does
one step of it and waits while a row is held by somebody else. At its end the
checks of the method (`PayChecks`...) are evaluated on the *view*, not on the
tables: that is what lets a stale read do harm. `Commit` then writes everything
at once, because at READ COMMITTED nobody sees a write before the commit, and
releases the locks. A column the code writes as an absolute value (`paidAmount`
in `pay`) is written from the view; one it writes with `increment` is written
from the row. `Reject` is a check that throws, `Abort` anything that loses the
transaction: Prisma's timeout, a deadlock victim, a restart of the API, a drawer
found closed. A call that was rejected or aborted left nothing behind and may be
made again.

| Action | Code |
|---|---|
| `RecordSwipe` | `createCardSwipe`, commission deducted, no receipt or payout in the same call |
| `Pay`, `Match`, `Unmatch`, `Apply`, `Unapply`, `Cancel` | `pay`, `matchExistingPayOut`, `reverseExistingPayOutMatch`, `applyAdvance`, `reverseAdvance`, `cancel` of `api/payables/payables.service.ts` |
| `PayOut` | `createCardLedgerEntry` with direction PAY_OUT |
| `Receive` | `receiveWithinTransaction` of `api/provider-settlements` |
| `ReverseSource`, `ReversePayment`, `ReverseEntry`, `ReverseReceipt` | `reverse` of a swipe, of a payout, of a Pay Out, of a provider receipt |

*Abstractions.*

- Amounts are integers; `Rupee` of them make a rupee, so that a payable can end
  in paise and `cashPayoutRounding` has work to do. The code compares with a
  tolerance of 0.001, which separates nothing here.
- `OPEN` stands for PENDING, PARTIALLY_PAID and OVERDUE, which differ by the
  clock and by what has been paid, and which no operation treats differently.
  The due date (`DueOn`) matters to the reports only, which `PayableReports`
  evaluates for every day.
- One customer with one card, so the balance `cardLedgerBalance` computes is a
  sum over all documents. Which Pay Outs are earlier than a swipe, the
  reconciliation's suggestion is asked for every answer.
- The charge of a payout is a constant of its account; the slabs it is looked up
  in are in `OfficeSettings`.
- Drawers always have the funds: `ensureSufficientFunds` lets a drawer spend
  against the opening count of its session, which belongs to the cash desk. The
  property about overdrafts is therefore about banks and wallets only. A closed
  drawer is one of the reasons for `Abort`.
- An allocation is identified by its Pay Out and its payable, which the schema
  keeps unique, and a Pay Out makes at most one when it is created. The check
  for a duplicate reference number is left out.
- `ReverseEntry` locks the payables of its allocations in one step; the code
  takes them one after the other.
- Share locks of foreign keys are left out; no check depends on them.

### How `CustomerDues` corresponds to the code

*State.* `debt` and `case` are the rows of `CustomerReceivable` and
`CardDueClearingDetail`, the latter with the status of its transaction; `doc`
holds what requests have recorded (recoveries, combined receipts, Pay Ins,
commission collections, assessments, collections), `ledger` the balance of each
ledger account, `today` the business day. `op`, `stage`, `view` and `holder`,
plans, checks and commits are as in `PayableSettlement`. A request that recovers
all cases of a customer lists them in its first step and locks them in later
ones, as `addCustomerRecovery` does, so that what it has listed may have changed
under it.

| Action | Code |
|---|---|
| `CreateCase`, `Recover`, `RecoverAll`, `Combined`, `Commission`, `Assess` | `create`, `addRecovery`, `addCustomerRecovery`, `addCombinedReceipt`, `addCommissionCollection`, `assessCommission` of `api/transactions/card-due-clearing.service.ts` |
| `TakePayIn` | `createCardLedgerEntry` with direction PAY_IN, on account or allocated to a case |
| `CreateReceivable`, `Collect`, `Cancel`, `List` | `create`, `collect`, `cancel` and the listing of `api/receivables`, which stores OVERDUE as it lists |
| `ReverseRecovery`, `ReverseReceipt`, `ReverseCommission`, `ReverseAssessment`, `ReverseCase`, `ReverseDebt`, `ReverseCollection` | the branches of `reverse` |

*Abstractions.* One customer, one account that receives. The order of dates is a
counter (`at`, `born`): the code compares `createdAt`. Ids are given in the
opposite order of ages (`ById`), because the code locks by id and shares out by
age. Which requests occur alone and which beside others is in the workloads.

### How `CashDesk` corresponds to the code

*State.* `session[r]` is the `CashSession` row request `r` has created, with the
rounding its close has posted; `move[r]` is the internal transfer it has
recorded: a plain one, the funding of an opening or a handover. What an account
holds is the sum of the journals, as in the code. `clock` is the latest date
given to anything; `openedAt`, `closedAt` and the posting dates are taken from it
in the order the code takes them. `op`, `stage`, `view` and `holder` are as in
`PayableSettlement`, and so is the shape of a request: steps that read, checks
on what was read, one commit.

| Action | Code |
|---|---|
| `Open` | `open` of `api/cash-counter`: the look for an open session before the transaction, both account locks in the order of ids, the desk and the funds of the source, the funding journal, the session |
| `Move` | `createInternalTransfer` of `api/transactions`: the lock of the source, both desks, the funds, the journal |
| `Close` | `close` of `api/cash-counter`: the session lock, `expectedClosing`, the count or its approved rounding, the adjustment, the handover, the next operator's session or the one that is already open |

*Abstractions.*

- Two dates are different, or may be equal (`Simultaneous`): the code's dates
  have the resolution of a millisecond.
- A count is its total; denominations are left out, and so are roles: whether
  staff may act on a drawer is checked before anything here and depends on
  nothing that changes. `businessDate` decides nothing here either.
- Transfers carry no charge. `ensureSufficientFunds` falls back on the count of
  the drawer's open session, as in the code, which finds the session by the
  account's name: names are taken to be unique.
- Of several open sessions of one drawer, the close takes any for
  `findFirst`: it accepts if one of them belongs to the next operator, and
  `Abort` stands for the other answer.
- Other operations that touch a drawer (payouts, quick cash, expenses) post to
  it the way a transfer does: desk, lock of the source, funds, journal.

### How the counter corresponds to the code

*State.* `rows` is the book: every `Transaction` as a record with its status,
its date and its journal's (`at`, `on`: the day and the cash session they fall
into), the journal's lines, its `IncomeEntry` and charge rows, the payable and
the provider settlement it has created, and its details (`info`). `of` is the
row a reversal, completion, receipt, payout, late fee or replacement belongs to.
`today` and `desk` are the calendar and the open cash session; `saved` the
positions of the end of day; `view[r]` what request `r` has read and at which of
its transactions it is; `load` the workload that bounds the behaviour.

*Operations* take a book to the book after them (`Swiped(b, s)`,
`Complete(b, i, seen, c)`, `Reversed(b, i)`...), with a guard each (`SwipeOK`,
`CompleteOK`, `ReverseOK`...). That is how one operation can be a part of
another one, as in the code: a swipe records a receipt and payouts, a correction
reverses and records anew, and a row that is refused halfway leaves the book
unchanged. A method that reads the row *before* its transaction
(`completeQuickCash`, `settleServicePartnerPayable`,
`recordCardSwipeCommissionReceipt`, `completeExpense`, `updateDateTime`,
`correctAmount`) is two steps: `Read` notes the row and the transaction decides
on the note. `correctAmount` is up to five transactions: the completion
reversed, the original reversed, the entry recorded anew and completed anew, and
the link, each of which may be the last one (`GiveUp`: a guard throws, or the
process stops). A submission looks for its idempotency key first (`Submit`) and
meets the unique index when it commits (`RecordSubmitted`).

| Module | Code |
|---|---|
| `Counter` | `api/ledger`, the guards of `api/finance/financial-validation.service.ts`, receipts, `reverse` with the conditions and side effects of each kind |
| `Swipes` | `createCardSwipe` with its receipt and payouts, `recordCardSwipeCommissionReceipt`, `correctSettledCardSwipe`, deletion with receipts |
| `QuickCash` | `createQuickCash`, `completeQuickCash`, `addMissingAepsCommission`, services with partners and `settleServicePartnerPayable` |
| `Entries` | `createCashTransfer`, `createAeps`, `createMicroAtm`, `createInternalTransfer`, `createAtmWithdrawal`, `createCreditCardPayment`, `createAccountEntry`, expenses with their edit, payment and withdrawal, `updateDateTime` |
| `CustomerEntries` | unmatched Pay Ins and Pay Outs, `updateCustomerLedgerEntry` |
| `Corrections` | `correctAmount` |
| `CounterDay` | the above as actions, idempotency, `api/end-of-day` |
| `CounterReports` | the lists and `incomeBreakdown` of transactions, `transaction-income.ts`, `api/reports` with the export, `api/dashboard` |

*Abstractions.* One account of each type (drawer, bank, wallet, the owner's
card), one customer. A moment is a day and a cash session, because that is what
guards and reports ask of a date. A rate is an entry's, the wallet's charge a
constant; how they are looked up is in `OfficeSettings`. The counter's drawer
is closed with what its ledger says; counts that differ are `CashDesk`'s. Rows
wait for each other's transactions only in the code; here each transaction is
one step, which is what locking the account or the row first amounts to, and
what is read before the lock is in `view`.

### How the office corresponds to the code

`account`, `provider`, `rules`, `item`, `service`, `cashIn`, `commission` and
`user` are the rows of the office, `audit` the log; `entries`, `books`,
`sessions`, `due` and `closing` are what the counter does to accounts meanwhile,
and `rows` what it posted, as it stands; a workload's `moves` bounds how often.
Something new asks for an active account: an entry (`Post`), a drawer's session
(`OpenDrawer`), a swipe to be settled (`Expect`) and its receipt, into whatever
account (`Receive`; a settlement is a unit here and received at once). A correction
does not: `reverse()` posts the mirror of a journal (`TakeBack`) or ends a settlement
(`Withdraw`), and an edit of a Pay In, a Pay Out or an expense rewrites its lines
(`Edit`); both ask only for an open session of a drawer and for enough money
(`Correctable`). An edit that moves an entry to another account is an `Edit` to
nothing in the old account, which may lose its lines with it, and a `Post` in the
new one. `since` is history that no action reads: how far corrections have moved an
account, and how many settlements they have reopened, since it was last switched on
or off. `call[r]` is
the call of a request with what it has read (`seen`): `Begin` evaluates the
checks before the transaction, the action named after the method is its
transaction, `Abort` any refusal or loss. A SERIALIZABLE transaction commits only
if the row is the one it has read (`version`). Every operation of
`AccountsService`, `WalletReconciliationService`, `ProvidersService`,
`SettingsService` and `UsersService` that writes is an action; `CreateItemCalls` and
its companions serve the five lists that differ in nothing but their table and
the guard of the last active customer type. Names, values and scopes are model
values; a slab is an interval over a few amounts; dates of slabs are a counter.
The one service and the one cash-in transfer type of the model stand for a name:
a second creation is refused, as the unique index refuses it. A row of the audit
log is one changed field of one row of a table: the table, the row (`id`), the
field (`what`), what it held and what it holds.

### Obligations

`Obligations` says of any amount owed what the shop promises: it is incurred
once, settled and unsettled in parts, `remaining = amount - settled` as long as
it is owed, it is voided only when nothing of it is settled, and a void one never
returns. `PayableSettlement` implements it for payables and provider settlements
(`Abstract`, a refinement mapping that forgets plans, views, documents and
ledger), `CustomerDues` for receivables and for the principal and the commission
of card dues, which may be assessed anew (`Adjustable`). `DuesAreObligations` is
the abstract specification as a property.

## Runs

| Run | Instance | Question |
|---|---|---|
| `settle_concurrent` | two swipes, a wallet with a charge, two in flight, three calls of nine kinds | Does every payable agree with its documents (`PaidIsBacked`), do the control accounts agree with the rows (`ControlAccounts`) and the due report, dashboard and register with each other on every day (`DueReportsAgree`), is a Pay Out used once though two swipes compete for it (`PayOutUsedOnce`), is the wallet never overdrawn while receipts into it come and go (`NoOverdraft`), do locked reads stay true (`LockedViewsFresh`), is the lock order consistent (`NoWaitCycle`)? Yes |
| `settle_cash` | a drawer and a wallet with a charge, four units to the rupee and a payable of a rupee and a half, four calls, one at a time, every kind but the undoing of a match | Are amounts conserved (`Conservation`), does rounding only ever close a payable, by half a rupee at most (`RoundingSettles`), do journals balance, has the owner's reconciliation nothing to complain of and does the customer's page show his claim (`BooksAgree`), can what the screens advise be done, so that a refused payment is never stuck (`AdviceHolds`)? Yes. Three calls are not enough: it takes a Pay Out, its advance, a payout and a reversal |
| `settle_answered` | one swipe, two in flight, under `FairSpec` | Is every call that has begun answered, although nothing ever aborts one (`RequestsAnswered`), is a voided swipe empty (`VoidIsUntouched`), and is each due an obligation (`DuesAreObligations`)? Yes |
| `desk` | a till, a reserve and a bank, two operators, counts of nothing, below, at and above the ledger, two units to the rupee; one call at a time, or any two at once | One at a time: has a drawer one session and do opening count, movements and rounding make the closing count (`ShiftsAgree`), does no funding count once more in the session it opens (`OpeningCountedOnce`)? Two at a time: is nobody waiting in a circle (`NoWaitCycle`), is a shift closed only once (`ClosedForGood`), and, while no drawer is being closed, do two transfers never spend the same notes (`SourceCovered`)? Yes |
| `dues` | two card dues, the older one with the greater id, and a receivable; eight workloads, one at a time and two at once | Do rows, documents and ledger agree (`CasesAgree`), is nobody credited while he owes (`NoCreditWhileOwing`), do lists, ageing, register and card ledger agree (`ReportsAgree`), is each amount an obligation (`DuesAreObligations`), is the lock order consistent (`NoWaitCycle`)? Yes |
| `counter` | eleven kinds of days, one workload each: swipes; quick cash in; quick cash out; services; transfers, cards and account entries; AePS and micro ATM; dates; expenses; edits of Pay Ins and Pay Outs; their credit; retries | Do journals balance, control accounts hold what is open and income rows what was earned (`BooksAgree`), is nothing made, completed, replaced or undone twice (`OnlyOnce`), does an expense's journal follow its edits (`ExpenseAgrees`), does no edit reach into a closed session (`ClosedShiftsStand`), is no account drawn on further once it is overdrawn (`NoOverdraft`), do income and profit (`ReportsAgree`) and balances (`PositionsAgree`) agree on every screen, and the end of day with the dashboard (`EndOfDayAgrees`)? Yes |
| `office` | a bank account, a till, a card and a wallet and one spare of each, twenty workloads, one call or two at a time, and room for a third customer type | Does the log say what rows hold and held (`AuditTrue`), are accounts settled when they are switched off and from then on reached by corrections of earlier entries alone, are closed days fixed and names followed (`AccountsStand`), does a reconciliation move a balance by what was confirmed (`ReconciliationExplained`), has an amount one rate and the best rule (`RulesDecide`) and do past rates stand (`RatesStand`), is the shop always able to work (`SettingsStand`), do only owners touch owners (`OwnersByOwners`)? Yes, some of it one call after the other only, as the properties say |
| `pay_vs_reversal`, `double_open`, `recovery_race`, `complete_race`, `correct_addon` | two or three calls | No: see the next section |

*Bounds.* `Requests` bounds how many calls ever commit, `MaxInFlight` or the
workload how many are open at once, `Amounts` what they carry, `Original`,
`Expected`, `Due` and `Owing` how much there is to settle. Two transactions are
what a lost update, a stale check or a pair of opposite lock orders takes; three
committed calls are what it takes to record a Pay Out, use it, and use or undo
it again (four in `settle_cash`), and a call that is rejected or aborted does not
count against the bound. Amounts of one and two against a payable of three let a
settlement fit, fit exactly and exceed, and let a Pay Out be larger than what is
owed, so that a part of it becomes an advance; in `dues`, one and three against
a due of two with a commission of one do the same and leave something for the
customer's credit. The documents of one payable do not interact with those of
another one except through a Pay Out and through accounts, and
`settle_concurrent` has two swipes with one account.

In `desk`, `MaxClock` and the workload's `until` bound the dates. Three calls
open both drawers, one funding the other, and close and hand over one of them;
they take up to six dates, and a call whose date would exceed the bound simply
does not go on. Dates are spent by aborted calls too.

In `counter` a workload bounds the rows of the book and how many of them are
entries of their own. Eight rows hold a quick cash entry with its completion,
both reversed, and both replaced; six hold a swipe with receipt and payouts and
a late receipt or its reversals. Kinds of entries meet only in accounts, control accounts and
reports, which are sums over rows: what a kind does to these sums is checked in
its own workload, and no workload needs them all. `MaxDay = 1` gives every
report a day before and a day of, and a closed and an open session. Balances are
small enough for a payout or a correction to be refused, rates are such that
commissions round. In `office`, two postings or sessions happen beside the
calls, what one stale read takes and one to spare.

`SYMMETRY` is used in the runs without liveness: requests, and in `settle_concurrent` the swipes, are interchangeable
because every instance gives them equal amounts. `CHECK_DEADLOCK FALSE` is there
because the bounded workloads end: when every request has committed, nothing is
left to do. A real deadlock, requests waiting for each other, is what
`NoWaitCycle` and `RequestsAnswered` look for.

*Which kinds run together.* A passing run leaves out of a workload the kinds
that break its properties when they run beside each other; the violation runs
and [Known races](#known-races) say which and why. `Apart` names pairs that are
in the workload but never in flight at once: `cancel` beside receipts in
`settle_concurrent`, `cancel` beside `reverse` of the swipe in
`settle_answered`. `cancel` locks the payable and then updates the transaction,
`reverse` locks the transaction and then the payable: two of them in flight wait
for each other until PostgreSQL aborts one, which leaves the data intact.
`settle_concurrent` and `settle_answered` leave out the reversal of a payout
(`pay_vs_reversal`) and do not have both the undoing of a match and the reversal
of a Pay Out; in sequence, `settle_cash` runs them all but the undoing of
a match, which goes wrong in sequence too. In `desk`, the workload `Closings`
has closes at once but openings alone, and `Spending` no closes. In `dues`,
recoveries of all cases, and the reversals of a case and of a receivable, run
alone. In
`counter`, only submissions run between the steps of other requests.

*Fairness.* `FairSpec` assumes strong fairness of `Advance` and weak fairness of
`Reject` and `Commit` of every request. PostgreSQL queues the transactions that
wait for a row, in order, so one that waits while others come and go is granted
the lock eventually, although it is not grantable all the time: that is strong
fairness. A transaction that waits for nothing is run by Node's event loop: weak
fairness. Nobody has to begin a call, and no call has to be aborted: with a wait
cycle the property fails, although in production Prisma's timeout would end it.
No other run assumes fairness: what staff do next is up to them, and nothing in
this system happens by itself.

## Disagreements between code and its documents

| Run | What the code does | What is said |
|---|---|---|
| `pay_vs_reversal` | `reverse` of a payout reads the payable without locking it and writes `paidAmount` and `remainingAmount` as absolute values (`api/transactions/transactions.service.ts:7785`). A payout that commits in between is lost from the payable: the customer is shown as owed money already paid | paid = completed payouts + Pay Out allocations + advances (`src/ops/CARD_SWIPE_ADVANCES_DEEP_DIVE.md:34`) |
| `double_open` | `open` looks for an OPEN session before its transaction (`api/cash-counter/cash-counter.service.ts:137`) and no index makes it unique: two openings at once both succeed | "Concurrent double-open requests: Exactly one OPEN session" (`src/ops/CASH_DRAWER_CUSTODY_AUDIT_20261017.md:90`); a test marks it as a known gap |
| `recovery_race` | `addCustomerRecovery` splits the amount over the cases as they were listed before the locks (`api/transactions/card-due-clearing.service.ts:447`); a second recovery that has waited turns its part of a case recovered meanwhile into customer credit while another case is open | "Lock every target in deterministic order so one customer-level recovery cannot partially commit or race another recovery." (`api/transactions/card-due-clearing.service.ts:433`) |
| `complete_race` | `completeQuickCash` decides on the entry as read before its transaction (`api/transactions/transactions.service.ts:2280`): an entry reversed meanwhile is completed, and marked COMPLETED beside its reversal | "Original entries cannot be reversed while their completion is active" (`src/ops/MICRO_ATM_PROVIDER_COMMISSION.md:11`) |
| `correct_addon` | `correctAmount` of an AePS withdrawal with the commission on top takes the asked amount for the base and adds the commission again (`api/transactions/transactions.service.ts:6694`) | the amount shown, and compared with, as the current one includes the commission (`api/transactions/transactions.service.ts:6315`, `src/apps/web/src/app/transactions/[id]/page.tsx:499`) |

### Known races

The same models show these when the workload or a constant of a run is changed,
or the code says them as it is read while modelling; none has a run of its own.
Line numbers are of `api/transactions/transactions.service.ts` unless a file is
named.

Payables and settlements:

- *Undoing the match of a reversed Pay Out* (`settle_cash` with `"unmatch"`):
  `reverse` takes the allocations back from `paidAmount` and leaves their rows;
  `reverseExistingPayOutMatch` does not look at the Pay Out's status
  (`api/payables/payables.service.ts:990`) and takes the amount back again.
- *Cancel against a receipt* (`settle_concurrent` without `Apart`): `cancel`
  decides on a settlement it has not locked
  (`api/payables/payables.service.ts:1249`), although "Reverse provider
  settlement receipts before cancelling this payable". Likewise the reversal of
  a swipe, which reads `receivedAmount` before it waits (7318).
- *Payout against Pay Out*: `pay` looks for unmatched Pay Outs and then waits for
  the account (`api/payables/payables.service.ts:549`); one that commits
  meanwhile is not seen, although "Never pay the same swipe again while a
  customer-level Pay Out has already debited the payable ledger but remains
  unmatched." (`:542`).
- *Blocked and not matchable twice*: a Pay Out partly matched to a payable cannot
  be matched to it again while `pay` still refuses because of its rest; undoing
  the match first resolves it (`AdviceHolds`).

Customer dues:

- *Reversal of a receivable against a collection*: `receivedAmount` is read
  without a lock (7315). The reversal of a case against what refreshes its
  status: `reverse` locks the transaction, `refreshMasterStatus` updates it
  under the lock of the case only.
- *Opposite lock orders*: the reversal of a combined receipt locks cases by age
  (7536), a recovery of all cases by id; a Pay In locks the case before the
  account and the reversal of a receipt the account before the case.
- *Listed after the locks*: a combined receipt locks the cases it has found and
  then looks for them again (`api/transactions/card-due-clearing.service.ts:535`):
  one that was recorded in between is settled without its lock.
- The card ledger counts the whole of a combined receipt or Pay In, its
  commission included, and never the assessment of that commission
  (`CardLedgerAgrees` says by how much).

Cash desk:

- *Transfer against close*: `requireOpenCashDesk` locks nothing
  (`api/finance/financial-validation.service.ts:154`) and `close` locks
  the session only, so a transfer commits after the session it has seen was
  closed, although the drawer "needs an open cash session".
- *Posting against close*: `close` sums the journals committed when it looks
  (`api/cash-counter/cash-counter.service.ts:784`). A transfer dated before
  `closedAt` that commits afterwards is in no expected total, and the closed
  shift does not add up, although its count was accepted as matching.
- *Spending a count that is being closed*: an opening funded from the opening
  count of another drawer's session, money the ledger has not seen, commits
  after that session was closed and leaves the drawer with a negative balance.
- *The same millisecond* (`desk` with `Simultaneous = TRUE`): the funding
  is dated before `openedAt` (`api/cash-counter/cash-counter.service.ts:234`) and
  journals count from `openedAt` on, inclusively; with equal dates the notes
  are in the opening total and in the movements, although "Opening count is
  physical reconciliation, not a second transfer or new money"
  (`src/ops/CASH_DRAWER_CUSTODY_AUDIT_20261017.md:32`).

Counter:

- *Decided before the lock*: as in `complete_race`, the receipt of a deducted fee
  takes the payable as read before it was locked (1233), a partner may be
  settled twice at once (2787), an expense paid while it is edited or withdrawn
  (4922). A reversed completion leaves its entry COMPLETED: it counts as waiting
  again but cannot be completed.
- *Dates*: quick cash, AePS and micro ATM rows are dated as told while their
  journal posts now, and a completion posts on the date of its entry (2098,
  2669, 3727). A first posting, a payment of an expense or `updateDateTime` may
  fall into a closed session, although edits in place may not (4519, 4793). An
  edit of a Pay In or Pay Out dated between two sessions may turn it into cash
  no session counts (5693), and the guard of a used credit compares with the
  date before the edit (5587), so that moving a Pay In first and shrinking it
  then passes.
- *Corrections*: of an AePS cash out with a late fee, the completion is reversed
  before the refusal; charges entered by hand at the completion are priced anew.
- *Funds*: cash out for a payment to come and a partner paid at once never ask
  for funds (`NoOverdraft` exempts them).
- *Retries without a client key*: two genuine entries that are equal within 30
  seconds are one, and a retry over the edge of the half minute is two:
  `RecordedOnce` says exactly that.
- *Reports*: `analytics` leaves reversed originals out of its journals but not
  their mirrors; the dashboard's position lacks waiting quick cash, digital
  commissions due, partners to be paid and unmatched Pay Ins and Pay Outs
  (`ProfitAgrees` and `NetExplained` say by how much).
- *End of day*: the snapshot looks for open sessions under SERIALIZABLE, an
  opening commits under READ COMMITTED and is not noticed.

Office (two calls at once unless said otherwise; the properties hold these apart
by `Alone`):

- A reconciliation, and the setting of an opening balance, see the database as it
  was when their first statement, the wait for the row, was sent
  (`api/accounts/wallet-reconciliation.service.ts:104`): what was posted
  meanwhile is not in the balance they compare.
- Switching an account off checks its balance, its drawer and its settlements
  before the transaction: what is posted in between stays on an account that is
  off. (That reversals and edits reach such an account takes no overlap, and is
  part of the model: `InactiveIsSettled` says that they account for all that is on
  it. So is the opening balance of an account without entries, which can be set
  while it is off.)
- Two deactivations leave no active customer type; two owners disable each other,
  and an owner may demote himself without any race; a role checked before the
  transaction lets an admin's edit hit a user who was just made an owner.
- Two replacements of slabs leave overlapping ones; two renamings of a provider
  may leave its wallet with the name of the first, and a wallet's renaming is not
  audited; nothing in the database makes account names unique.
- The old values of audit rows are read before the transaction.

## Proofs

The theorems hold for any finite number of requests, swipes, accounts and
drawers, any amounts, charges, clocks and units of rounding, and any accounts,
providers, settings, users and due dates. The assumptions
are those of the models (`ConstantsAssumption`, `RequestsAssumption`, `DueOnAssumption`, `DuesAssumption`,
`CardOfAssumption`,
`DeskAssumption`, `OfficeAssumption`, `SettingsAssumption`), which TLC evaluates
on every instance: finite sets, natural
numbers, a positive amount of every swipe and of every request, names that
do not collide, one wallet account for each provider, and an active customer
type and a user to begin with. Three modules about payables build on each other:
`PayableSettlement_proofs` (types, locks, fresh reads, one payable, Pay Outs,
balances, rounding), `PayableControl_proofs` (columns against documents, control
accounts, refinement, lock order) and `PayableReports_proofs` (the reports).
`CustomerReports_proofs` builds on `CustomerDues_proofs`; `CashDesk_proofs` and
`Office_proofs` stand alone. `SumLemmas` has what all of them need of sums over
finite sets.

| Theorem | Says | Under |
|---|---|---|
| `TypeCorrect`, `ShapeInvariant` | `[]TypeOK`; documents and calls refer to rows and documents that exist, a running call is somewhere in its own plan | |
| `LocksInvariant` | a running transaction holds every lock its plan has asked for so far | |
| `FreshnessInvariant` | `[]LockedViewsFresh`: what was read in the step that locked the row is still there | |
| `ConservationInvariant` | `[]Conservation` | no reversals of payouts |
| `ConservationWithReversals` | `[]Conservation` | `PaymentsReversedApart` |
| `UsedOnceInvariant` | `[]PayOutUsedOnce` | |
| `NoOverdraftInvariant` | `[]NoOverdraft` | |
| `RoundingProperty` | `RoundingSettles` | |
| `TrialBalanceInvariant` | `[]TrialBalance`: the ledgers add up to the opening balances | |
| `PaidBacked` | `[]PaidIsBacked` | `PaymentsReversedApart`, `MatchesUndoneOneWay` |
| `VoidUntouched` | `[]VoidIsUntouched` | these two and `SwipesVoidedApart` |
| `ControlAccountsInvariant` | `[]ControlAccounts` | these three |
| `PayableControl_proofs!DuesRefineObligations` | `DuesAreObligations`, the refinement of `Obligations` | these three |
| `BooksAgreeInvariant` | `[]BooksAgree` | these three |
| `DueReportsAgreeInvariant` | `[]DueReportsAgree` | these three |
| `AdviceHoldsInvariant` | `[]AdviceHolds` | these three |
| `PayableControl_proofs!NoWaitCycleInvariant` | `[]NoWaitCycle` | `SwipesEndApart` |
| `KnownInvariant` | what a call on dues has read under its locks stands, documents refer to rows that are live and add up to them | `RowsReversedAlone`, `ReceiptsFindAll` |
| `CasesAgreeInvariant` | `[]CasesAgree` | these two |
| `CustomerDues_proofs!DuesRefineObligations` | `DuesAreObligations` | these two |
| `NoCreditInvariant` | `NoCreditWhileOwing` | these two and `RecoveredAlone` |
| `CustomerDues_proofs!NoWaitCycleInvariant` | `[]NoWaitCycle` | these two, `PayInsApart` and `ReceiptsReversedApart` |
| `LedgerInvariant` | every ledger account of the dues holds what the documents, cases and receivables that stand have posted to it; what is marked overdue is due, what is marked received is paid | `RowsReversedAlone`, `ReceiptsFindAll` |
| `ReportsAgreeInvariant` | `[]ReportsAgree` | these two |
| `CashDesk_proofs!ShapeInvariant` | types, plans and references of the cash desk | |
| `CashDesk_proofs!NoWaitCycleInvariant` | `[]NoWaitCycle` | |
| `ClosedForGoodProperty` | `ClosedForGood` | |
| `ShiftsAgreeInvariant` | `[]ShiftsAgree` | `~Simultaneous` |
| `OpeningCountedOnceProperty` | `OpeningCountedOnce` | `~Simultaneous` |
| `SourceCoveredProperty` | `SourceCovered` | |
| `Office_proofs!ShapeInvariant` | types of the office; rows stay, and calls name rows that are there | |
| `SettingsStandInvariant` | `[]SettingsStand` | |
| `AccountsStandInvariant` | `[]AccountsStand` | |
| `AuditTrueInvariant` | `[]AuditTrue` | `RulesAlone` |
| `ReconciliationProperty` | `ReconciliationExplained` | |
| `RatesStandProperty` | `RatesStand` | |
| `OneRuleInvariant` | `[]OneRule`, the first half of `RulesDecide` | |
| `OwnersByOwnersProperty` | `OwnersByOwners` | |

*The hypotheses* are about constants, and each names a race of the code that
[the sections above](#known-races) describe; without it the property is false.

- `PaymentsReversedApart`: if payouts are reversed at all, nothing that writes
  a payable is in flight beside such a reversal, which reads the payable before
  it locks it (the violation run `pay_vs_reversal`).
- `SwipesVoidedApart`: receipts of the provider are not in flight beside the
  cancellation or reversal of a swipe, which decides on a settlement it has not
  locked.
- `MatchesUndoneOneWay`: the requests do not both undo matches and reverse Pay
  Outs; the match of a reversed Pay Out can be undone once more.
- `SwipesEndApart`: a swipe is not cancelled while one is reversed; the two lock
  payable and transaction in opposite orders.
- `RowsReversedAlone`: nothing is in flight beside the reversal of a receivable or
  of a case, which decides on a row it has not locked.
- `ReceiptsFindAll`: no case is recorded beside a combined receipt, which looks
  for the cases again after its locks.
- `RecoveredAlone`: recoveries for all cases come one at a time; two of them are
  the violation run `recovery_race`.
- `PayInsApart`: no receipt is reversed beside a Pay In, which locks the case
  before the account; reversals lock the account first.
- `ReceiptsReversedApart`: no combined receipt is reversed beside calls for all
  cases of the customer, which lock them in another order.
- `~Simultaneous`: no two dates of the cash desk fall into one millisecond.
  `desk` has the same.
- `RulesAlone`: where the slabs of a provider are replaced at all, calls come one
  at a time, as in `office`. Two replacements at once leave both sets open, and
  the last row of the log names one of them. All other operations may overlap.

What the office's properties say of `Alone` needs no hypothesis: it is part of
the property.

`NeverTogether` is what the first, second and fourth are stated with: the pair
is in `Apart`, or calls come one at a time, so that `settle_cash`,
`settle_concurrent` and `settle_answered` satisfy those that their properties
need, with all kinds of requests between them. Those about dues speak of what a
workload has in flight at once (`beside`); the workloads of `dues` satisfy all
five. `PayOutUsedOnce`, `NoOverdraft`,
`RoundingSettles`, `TrialBalance` and everything about locks need none: the
races above move what a *payable* says, never what a Pay Out or an account does.

### Payables

*Types.* `TypeOK` is not inductive: a commit computes with
`ledger[o.account]` and `payable[o.payable]`, and `None` is neither an account
nor a payable. `Shape` adds that a document has the references its kind needs,
that a running call names rows that exist and documents of the right kind, and
that it has the document it reverses in its view once it is past the step that
reads it; the lemmas called `...Types` then type each operation.

*Fresh reads.* `LockedViewsFresh` rests on two-phase locking. `LocksHeld` says
that the locks of the steps done so far are held, `ReadsUnderLock` that the rows
of those steps do not depend on what has been read since (the plan of the
reversal of a Pay Out does: its payables are those of the entry it has locked),
and `WritesUnderLock` that a commit writes only what it has locked: a payable or
settlement under its own lock, the status of a swipe under the lock of its
payable, which every method that changes it takes, and a document under its own
lock. Exempt are the document a transaction creates, which nobody can have read,
and the status of an advance, whose Pay Out is locked in its place. So nobody
else can have written what a running transaction has read under a lock. The
reversal of a payout is no exception to this: it locks the payable before it
writes. It only reads it too early, in a step that locks nothing, about which
`LockedViewsFresh` says nothing.

*One payable.* `Conservation` needs `RowsOK`: a voided payable is empty, so an
operation that looks at amounts and not at the status cannot bring one back
inconsistently, and its source is reversed, because a Pay Out is allocated by
the status of the swipe and not of its payable. With `LockedViewsFresh` the view
may be replaced by the row, and each operation moves an amount between `paid`,
`offset` and `remaining` (`SettleRow`, `UnsettleRow`, one case per operation in
`RowsCommit`). Where payouts are reversed, `PaymentReadsStand` says that the
payable such a call has read without a lock is still what the row says: nobody
who writes payables runs beside it (`KeptApart`).

*What is read without a lock and stands all the same* is `ReadsStand`: an
account's funds were read after its lock was granted, only its holder takes
money from it, so there is at least as much there when it is taken, whatever has
come in; a document that is reversed names the same rows as when the call was
made (`CallsAgree`). `DocumentsSound` adds that documents are consistent in
themselves: the two parts of a Pay Out make its amount, a rounding belongs to
cash and is half a rupee at most. Together with `Shape`, locks and freshness this
is `Known`, from which `NoOverdraft`, `RoundingSettles` and the balance of every
journal follow operation by operation.

*Sums over documents.* `Tally(F, doc)` is the sum of `F[doc[r]]` over all
requests, and a commit changes one document, or a new one and the one it takes
back: `TallyOne` and `TallyTwo` say by how much the tally changes. `UsedOnce`
says that the advances drawn on a Pay Out are its `applied` column, and that
both its parts are used up to their amounts at most, which is checked under its
lock. `Columns` says the same of `paid`, `offset` and `received`. A
subtraction that the code clamps at zero (`Math.max(0, ...)`) does not bite,
because the amount taken back is one term of the sum that the column is.

*Control accounts.* `Books` collects all this; `Balances` says that the ledger's
payable, receivable and clearing accounts are sums over payables, Pay Outs and
settlements. Every operation posts the difference of those sums: an amount that
a match moves from a Pay Out to a payable leaves both control accounts alone,
and an advance moves it from one to the other.

*Refinement.* The mapping is that of `DuesAreObligations`. `ItemStands` says
which state of an obligation a row is in: absent, owed with `remaining` equal
to the amount less what was settled, void and empty. A step of the shop settles
or unsettles the dues its documents name, voids those of one swipe, or incurs
those of a new one, and leaves all others alone; `TableSteps` makes of every step
either a commit, the recording of a swipe or one that leaves the tables alone.

*Reports.* `PayableReports` has no actions, so that its properties follow from
one invariant, `Sheet`: the books above, the trial balance, Pay Outs used once,
and two parts that nothing else needs. `PayOutsWhole` says that a Pay Out is
recorded for the money that left, and `ClaimBalance` that the two control
accounts together carry the swipes that count less what the customer has had:
what a match or an advance moves between the two cancels out, and the voiding of
a swipe takes it out of both sides. `ControlAccounts` speaks of what is open
instead, and the page has to agree with both. The page adds up swipe by swipe and `cardLedgerBalance()`
document by document: `PageIsClaim` is the exchange of the two sums (`SumSwap`),
as is `OwedByDate`, which adds up the list of payouts by date. `RowsByState`
says what a row is by the state of its swipe, and with it the three lists of open
payables are one (`SameLists`). For the advice, a Pay Out that is not used up
either has an advance left, which can be applied, or a part to match; if the
latter is already matched to the payable, that match can be taken back, because
what was matched is in the column `paid` (`Counted`). The proofs do not use
`Quiet`: on the tables the properties hold beside running requests as well.

*Lock order.* `Level` numbers the rows: documents, payables, then accounts and
the entries of Pay Outs, then settlements; the transaction of a swipe comes
after its payable while a cancellation runs and before it otherwise.
`PlanRises`: every step of a plan asks for rows above all those of earlier
steps. `HeldByPlan`: a lock is held only because a step that is done has asked
for it. In a circle of requests, take the highest row that is waited for: its
holder waits for a row that is higher still (`NoneInACircle`). The reversal of a
Pay Out takes the payables of its allocations in one step of the model, so that
two such reversals are outside this theorem.

### Customer dues

One invariant, `Known`, carries everything but the lock order. It has three
parts.

*What a call knows.* `SessionOK`, `LocksHeld` and the freshness of locked reads are as for
payables. Beyond that a call relies on rows it has read without a lock: the list
of all cases, a receivable whose source is reversed, a case that is. For each
kind `ReadsStand` names what of it still holds at the commit, and it does because a
case once recorded stays live unless it is reversed, which `RowsReversedAlone`
keeps for calls that are alone, and because the list of a combined receipt can
only lose cases (`ReceiptsFindAll`).

*What a commit does.* Every operation creates documents, takes back some, or
moves a row of its own. `StepFrom` says of a receivable, a principal and a
commission how the columns move with the documents, and `TableStep` says it of all
of them: whatever a kind of document adds to `recovered`, `collected`,
`received` or `assessed` is added to the row when it is recorded and is taken away when it
is reversed. So each operation is proved once (`RecoverKeeps`,
`CombinedKeeps`, `ReverseCaseKeeps`...), and the properties follow from
`TableStep` without looking at operations again: that rows are the sums of their
documents (`CasesAgree`), and that each amount settles, unsettles, adjusts or is
void (`ItemStep`, the refinement). A combined receipt and a recovery of all cases
make several documents or one with several parts; `PartOf` says what falls to a
case, in the order in which the shares fill up.

*Nobody is credited while he owes.* Shares are given out in the order of age, each
at most what is left of its case, and what remains after the last is credit:
`ExcessFillsAll` shows by induction over the order (as a greatest element of a
finite set) that if anything remains then every share is all its case has left. The
shares were computed before the locks; with one recovery at a time the rows
still say the same.

*Lock order.* `Level` and `Above` order the rows: documents, accounts, cases,
receivables, then the transactions of the sources; a running Pay In swaps account and
case. Cases are ordered among themselves by age while a combined receipt is reversed
and by id otherwise. `AskedInOrder` follows from the plans (`CasesRise`,
`ReceiptRises`, `ManyRises`), and `NoneInACircle` from the highest row waited for, as
for payables.

*Reports.* The balances come first: `LedgerSays` equates each ledger account with
its opening balance and the journals of the documents that stand, of the live cases and of
the receivables that are there, and `LedgerMoves`
says of every step that it posts exactly the change of these. Added to it is
`StatusesStand`: a receivable is called overdue only by a listing that came
after its due day, and the clock does not go back, which is what the ageing
needs. What follows is about single states. `DocumentSays` splits the
posting of each kind of document into fee, principal, commission, collected,
generic and credit, so that `AccountsAre` has every account as sums of such parts. Rows
know their sums from `CasesAgree`, row by row; the reports add up by document. Both are
sums of one table, of cases and documents or of cards and documents, by rows and by
columns (`SumTable`, `TallyOver`). The register follows case by case
(`RegisterRows`), the card ledger card by card: an entry's amount goes to the
cards of the cases it was split over and the rest to its own card if it has one
(`CardsTake`), which is why only entries without a card keep the cards from adding up to the
customer's balance.

### Cash desk

*Types and locks*: `Shape` and `HeldByPlan`, as above. A close locks a session
and nothing else, a transfer one account, and a funded opening its two drawers
in the order of their ids, which is the order in which the highest row of a
circle is found. `ClosedForGood` follows from `CloseReads`: a close has locked
the session it has read, whose status it checks, and whoever else commits
meanwhile changes another session or none.

*Shifts.* One at a time (`InTurn`), what a call has read is still so at its end,
and the dates it takes follow all others and each other (`TurnReads`): that the
plan takes them in the order expected total, adjustment, end of the session,
handover, next opening is what the proof needs of it. `Dated`: no row is dated
after the clock. Then, for `ClosingExplained`, the sum of what was posted
between `openedAt` and `closedAt` is the one `expectedClosing` was computed from
plus the adjustment, as everything posted afterwards, the handover included, is
dated after `closedAt` (`NetPosted`, `NetClosed`). `OneOpen` is preserved because
`open` and `close` look for an open session of the drawer before they create
one. For `OpeningCountedOnce`, the funding of an opening is dated before it, so
the new session's movements are none. With two dates in one millisecond both
are false, since `>=` counts a funding of the same millisecond.

*Money that is there.* `SourceCovered` holds with other calls in flight.
`HoldsPlan` says that a spender holds the lock of the account it draws on, and
`FundsStand` that the amount it has found there is there still (`Covers`): in
the ledger, or in an open session that accounts for the notes. Only what leaves
the account could change that, and it needs the lock. A close posts to a drawer
without the account's lock, but the property is about workloads that have no
closes beside other calls (`BesideOnly`).

### Office

*Types.* `Shape` says more than `TypeOK`: rows have all their columns, a provider
is there exactly if its wallet is, and what a call in flight names is there
(`Fits`). The last holds although other calls commit meanwhile because no row is
ever deleted (`AccountsGrow`, `SettingsGrow`), so whoever was looked up before a
transaction is found in it.

*One call after the other.* `InTurn` says that under `Alone` at most one call is
in flight and that all it has read and checked before its transaction is still
so (`Fresh`): balances, sessions, the number of active types, the caller's role.
Every property that says `Alone` rests on it, and the `Begin` lemmas establish
it from the sets of calls. `SomeTypeActive` follows because more than one type was
active when one is switched off, `SomebodyActive` because the caller is active
and cannot switch himself off, and `OwnersByOwners` because only the caller's
call can change a user.

*Accounts.* `NamesFollow` and `FeesBook` hold with calls in flight: `Fits` keeps
the fee of a reconciliation within the difference, which is what a balanced
journal needs. `Standing` strengthens `InactiveIsSettled` and `ClosedDaysStand`
to what steps preserve, for wallets as well: an account that is off is in no open
session, expects only what reversals have reopened, and holds what corrections
have moved it by (`Quiet`). An account without entries is excepted, as its opening
balance may be set; that it stays so while it is off is what `RowsOK` is for: an account
has at least as many entries as there are rows of it that stand (`Live`), so where there are
none nothing can be corrected. `Corrected` is what `TakeBack` and `Edit` have in common,
and all the proof says of them. The closing balance of a day is made of
an opening balance that can no longer change (`DayStands`), as an account with a closing balance
is not `Untouched`. `ReconciliationExplained` is an action property of `Shape` and
`InTurn`: both signs of the difference and both natures of account.

*Rates.* `RulesApart` says that two rules of one provider for the same rate are
for different amounts or one ends no later than the other begins. A replacement
ends what is open at the moment its successors begin (`ReplacedIs`), and
`Acceptable` keeps these apart, slabs without an end included: so at no date two of
them apply (`OneRule`), and at earlier dates the same ones as before
(`RatesStand`).

*The audit log.* `LogKeeps` does not know the office: if the log is true, if a step
appends entries about different fields, each with the new value the field then
has and, under `Alone`, the old one it had (`Speaks`), and if fields it does not name
stay as they are, then the log stays true. `Logged` is that premise, and one lemma per
service shows it of every operation (`AccountLogs`, `ProviderLogs`, `RuleLogs`,
`ItemLogs`, `ServiceLogs`, `CashInLogs`, `CommissionLogs`, `UserLogs`). With calls
in flight the new value still holds because each of them logs what it writes and
not what it has read; the old value is what it has read, hence `Alone`.

### Only model-checked

The counter and its reports (`CounterDay`, `CounterReports`), whose properties
are about sequences of rows; and liveness, which is outside the prover's reach, as is induction over data: `SumLemmas` avoids it
with a finite-set argument over partial sums chosen by a function, and the
counter's sums over sequences would need it. For the same reason `BestRule`, the
second half of `RulesDecide`, stays with TLC: the ranking of commission rules is
made of `SelectSeq` and `FlattenSeq`, whose values are defined by recursion over
the sequence.

## Not modelled

- *Web application* (`src/apps/web`, the larger part of the repository): forms
  and views over the API. What they compute (previews of fees, totals of a page)
  the API computes again and decides by; the calls they can send are the inputs
  of the models. Modelling a form would restate the operation behind it.
- *Sign-in*: the count of failed attempts is kept in the memory of one process
  and expires by the clock; tokens and password hashes are libraries.
- *Scripts, backup, deployment*: run with the API stopped.
- *Search, filters, paging, images, bank details, the layout of the exported
  workbook, follow-up dates and notes of card dues*: they select or decorate
  rows, and nothing depends on them.
- *Customers, cards, beneficiaries, recipients*: their rows are looked up by the
  operations and copied into documents; one customer with one card (two in the
  reports of `CustomerReports`) stands for them.
- *Several allocations of one Pay Out or Pay In at its creation*: the models have
  at most one, and several by later matches. Locks of several payables in the
  reversal of such a Pay Out are taken in one step.
- *Composition*: `CashDesk`, `PayableSettlement`, `CustomerDues` and the counter
  are not composed. Whether a drawer is open and what it holds is the
  environment's in the second (`Abort`), and the counter's drawer is closed with
  what its ledger holds. They share rows only through the accounts, whose locks
  each of them takes.
- *Writes of reports*: `positionTrend` upserts the snapshots it shows; their
  values are modelled, the rows are not, because nothing else reads them.
- The accounts of the counter exist from the first day, and `Office` has the ones
  created later.

## Plan

What is left, in this order:

1. `CashDesk` composed with payouts, so that the drawer's funds are not the
   environment's; several allocations per Pay Out, one lock step for each.
2. Sign-in: two attempts at once, and a restart that forgets the count.
