------------------------------- MODULE Office -------------------------------
(***************************************************************************)
(* The office behind the counter: financial accounts with their opening    *)
(* balances, reconciliation with outside statements, and the audit log.    *)
(* Almost every call reads what it checks before its transaction begins,   *)
(* so a call is two steps here: Begin holds what was read, and the action  *)
(* named after the method is its transaction.                              *)
(***************************************************************************)
EXTENDS Integers, Sequences, FiniteSets, Functions

CONSTANTS
    Requests,       \* the calls of a behaviour
    Accounts,       \* rows of FinancialAccount, present and future
    Providers,      \* rows of Provider, present and future
    WalletOf,       \* the account row made for a provider
    FirstAccounts,  \* the accounts of the beginning and their types
    FirstProviders, \* and the providers
    Names,          \* what accounts and providers may be called
    Money,          \* balances that may be entered
    Amounts,        \* what rates are looked up for
    SlabSets,       \* the sets of slabs an owner may enter
    Items,          \* what is kept as a name, a value and a switch
    Kind,           \* which of the settings an item is
    FirstItems,     \* the ones of the beginning
    Values,         \* what may be entered for an item
    Scopes,         \* what commission rules may be restricted to
    Users,          \* rows of User, present and future
    FirstUsers,     \* the ones of the beginning and their roles
    Loads,          \* which calls occur, what happens beside, how many at once,
                    \* and how often the rest of the system may act
    None            \* nothing

WalletAccounts == {WalletOf[p] : p \in Providers}
(* A UPI account is one like a bank. *)
Types == {"CASH", "BANK", "PROVIDER_WALLET", "OWNER_CREDIT_CARD"}
Roles == {"OWNER", "ADMIN", "STAFF"}

ASSUME OfficeAssumption ==
    /\ WalletOf \in [Providers -> Accounts] /\ IsInjective(WalletOf)
    /\ DOMAIN FirstAccounts \subseteq Accounts \ WalletAccounts
    /\ FirstAccounts \in [DOMAIN FirstAccounts -> Types \ {"PROVIDER_WALLET"}]
    /\ FirstProviders \subseteq Providers
    /\ None \notin Providers \cup Names \cup BOOLEAN \cup Nat
    /\ Money \subseteq Nat
    /\ \A l \in Loads : l.accounts \subseteq Accounts /\ l.moves \in Nat

VARIABLES
    account,    \* FinancialAccount with its LedgerAccount
    entries,    \* what the ledger holds of each account
    books,      \* debits less credits of the other ledgers: charges and adjustments
                \* of reconciliations, and whatever else is posted
    sessions,   \* the drawers with an open session, and those that ever had one
    due,        \* unsettled provider settlements with this destination
    closing,    \* DailyAccountBalance: the last closing balance of a day
    rows,       \* what was posted to accounts, in order, as it stands
    since,      \* what corrections did to an account since it was last switched
                \* on or off: history, which no action reads
    provider,   \* Provider: its name, and whether it is active
    rules,      \* the slabs ever entered, with their dates
    clock,      \* the latest date given to a slab
    item,       \* CustomerTypeConfig, PaymentTerm, CardNetwork, ExpenseCategory, gateways
    service,    \* ServiceCatalog: may a partner do it, must one
    cashIn,     \* CashInTransferType: its mode and default rate
    commission, \* CommissionRule in the order of creation
    user,       \* User
    audit,      \* AuditLog
    call,       \* the call each request is executing
    moves,      \* how often the rest of the system has acted
    load        \* the member of Loads that bounds this behaviour

accountVars == <<account, entries, books, sessions, due, closing, rows, since>>
settingVars == <<provider, rules, clock, item, service, cashIn, commission, user>>
boundVars == <<moves, load>>

---------------------------------------------------------------------------
(* Rows.  `version` counts the writes a serializable transaction would     *)
(* not survive: of the row, or of another serializable transaction.        *)

NoAccount == [type |-> "NONE", name |-> None, ledgerName |-> None, opening |-> 0,
              active |-> FALSE, version |-> 0]

NewAccount(type, name, opening) ==
    [NoAccount EXCEPT !.type = type, !.name = name, !.ledgerName = name,
                      !.opening = opening, !.active = TRUE]

Exists(a) == account[a].type # "NONE"
Own == {a \in Accounts \ WalletAccounts : Exists(a)}
Liability(a) == account[a].type = "OWNER_CREDIT_CARD"

(* A typed name, or the one a wallet takes from its provider.              *)
Typed(n) == <<n, "">>
Wallet(n) == <<n, "Wallet">>

(* FinancialValidation.balance() and the balance of the reconciliation:    *)
(* assets grow with debits, liabilities with credits.                      *)
Change(a, debit) == IF Liability(a) THEN -debit ELSE debit
Balance(a) == IF Liability(a) THEN account[a].opening - entries[a].net
                              ELSE account[a].opening + entries[a].net

Posted(a, debit) == [entries EXCEPT ![a] = [net |-> @.net + debit, count |-> @.count + 1]]

(* What a transaction posted to an account: an entry that may be edited, a *)
(* receipt for a swipe that was to be settled into account `for`, or a     *)
(* reconciliation.  The debit is 0 once it is reversed.                    *)
Row(kind, a, debit, for) == [kind |-> kind, account |-> a, debit |-> debit, for |-> for]

(* Variant of Entry that mixes up before and after.                        *)
EntrySwapped(entity, id, what, old, new) ==
    [entity |-> entity, id |-> id, what |-> what, old |-> new, new |-> old]

(* Every change is logged in its own transaction, with what was read       *)
(* before it and what the row then holds.                                  *)
Entry(entity, id, what, old, new) ==
    [entity |-> entity, id |-> id, what |-> what, old |-> old, new |-> new]
Log(new) == audit' = audit \o new

---------------------------------------------------------------------------
(* Calls.                                                                  *)

Waiting == [op |-> "waiting"]
Answered == [op |-> "answered"]
InFlight == {r \in Requests : call[r].op \notin {"waiting", "answered"}}

Committing(r, op) ==
    call[r].op = op /\ call' = [call EXCEPT ![r] = Answered] /\ UNCHANGED boundVars

(* A call that is refused in its transaction, fails to serialize, breaks a *)
(* unique index or is cut off changes nothing.                             *)
Abort(r) ==
    /\ r \in InFlight
    /\ call' = [call EXCEPT ![r] = Answered]
    /\ UNCHANGED <<accountVars, settingVars, audit, boundVars>>
=============================================================================
