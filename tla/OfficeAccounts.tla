--------------------------- MODULE OfficeAccounts ---------------------------
(***************************************************************************)
(* Financial accounts: their opening balances, their reconciliation with   *)
(* outside statements, and what the counter does to them meanwhile.        *)
(***************************************************************************)
EXTENDS Office

---------------------------------------------------------------------------
(* AccountsService.  The sets of calls hold what the checks before the     *)
(* transaction let through.                                                *)

TakenByOther(a, n) == \E b \in Accounts \ {a} : account[b].name = Typed(n)

(* create(): own accounts only; wallets come with their providers.         *)
CreateAccountCalls ==
    {c \in [op : {"createAccount"}, name : Names, type : Types \ {"PROVIDER_WALLET"},
            opening : Money, role : {"OWNER", "ADMIN"}] :
        /\ c.role # "OWNER" => c.opening = 0
        /\ ~TakenByOther(None, c.name)}

CreateAccount(r) ==
    /\ Committing(r, "createAccount")
    /\ LET c == call[r] IN \E a \in (Accounts \ WalletAccounts) \ Own :
         /\ account' = [account EXCEPT ![a] = NewAccount(c.type, Typed(c.name), c.opening)]
         /\ Log(<<Entry("account", a, "name", None, Typed(c.name)), Entry("account", a, "opening", None, c.opening)>>)
    /\ UNCHANGED <<entries, books, sessions, due, closing, rows, since, settingVars>>

Untouched(a) == entries[a].count = 0 /\ a \notin sessions.ever /\ closing[a] = None

(* setOpeningBalance() is serializable: all it reads is of the moment its  *)
(* first statement, the lock of the row, was sent.                         *)
SetOpeningCalls ==
    {c \in [op : {"setOpening"}, id : Own \cup WalletAccounts, opening : Money, seen : Range(account)] :
        /\ Exists(c.id) /\ c.seen = account[c.id]
        /\ c.opening # c.seen.opening /\ Untouched(c.id)}

Serializable(c) == account[c.id].version = c.seen.version
Written(a, row) == [account EXCEPT ![a] = [row EXCEPT !.version = @ + 1]]

SetOpeningBalance(r) ==
    /\ Committing(r, "setOpening")
    /\ LET c == call[r] IN
         /\ Serializable(c)
         /\ account' = Written(c.id, [account[c.id] EXCEPT !.opening = c.opening])
         /\ Log(<<Entry("account", c.id, "opening", c.seen.opening, c.opening)>>)
    /\ UNCHANGED <<entries, books, sessions, due, closing, rows, since, settingVars>>

(* update(): the name, on the row and on its ledger account.               *)
UpdateAccountCalls ==
    {c \in [op : {"updateAccount"}, id : Own, name : Names, seen : Range(account)] :
        c.seen = account[c.id] /\ ~TakenByOther(c.id, c.name)}

Renamed(row, name) == [row EXCEPT !.name = name, !.ledgerName = name]

UpdateAccount(r) ==
    /\ Committing(r, "updateAccount")
    /\ LET c == call[r] IN
         /\ account' = Written(c.id, Renamed(account[c.id], Typed(c.name)))
         /\ Log(<<Entry("account", c.id, "name", c.seen.name, Typed(c.name))>>)
    /\ UNCHANGED <<entries, books, sessions, due, closing, rows, since, settingVars>>

(* Variant of Settled that looks at the balance only.                      *)
SettledBalance(a) == Balance(a) = 0

(* setActive(): nothing on the account, in its drawer or on its way.       *)
Settled(a) == Balance(a) = 0 /\ a \notin sessions.open /\ due[a] = 0

NothingSince == [corrected |-> 0, reopened |-> 0]

SetAccountActiveCalls ==
    {c \in [op : {"setAccountActive"}, id : Own, active : BOOLEAN, seen : Range(account)] :
        /\ c.seen = account[c.id]
        /\ ~c.active /\ c.seen.active => Settled(c.id)}

SetAccountActive(r) ==
    /\ Committing(r, "setAccountActive")
    /\ LET c == call[r] IN
         /\ account' = Written(c.id, [account[c.id] EXCEPT !.active = c.active])
         /\ since' = [since EXCEPT ![c.id] = IF c.active = account[c.id].active THEN @ ELSE NothingSince]
         /\ Log(<<Entry("account", c.id, "active", c.seen.active, c.active)>>)
    /\ UNCHANGED <<entries, books, sessions, due, closing, rows, settingVars>>

---------------------------------------------------------------------------
(* WalletReconciliationService.                                            *)

(* preview(): the balance the owner sees and sends back as expected.       *)
Preview(a) == [balance |-> Balance(a), openSession |-> a \in sessions.open]

(* A fee explains money that is missing, or owed, and no more than that.   *)
FeeSupported(a, difference, fee) ==
    fee > 0 => /\ account[a].type # "CASH"
               /\ IF Liability(a) THEN difference >= fee ELSE -difference >= fee

(* reconcile() is serializable as well; its balance is that of the moment  *)
(* it asked for the lock, not of the moment it got it.                     *)
ReconcileCalls ==
    {c \in [op : {"reconcile"}, id : {a \in Accounts : account[a].active}, expected : Nat \cap {Balance(a) : a \in Accounts},
            target : Money, fee : Money, seen : Range(account)] :
        /\ c.seen = account[c.id]
        /\ c.expected = Preview(c.id).balance /\ ~Preview(c.id).openSession
        /\ c.target # c.expected /\ FeeSupported(c.id, c.target - c.expected, c.fee)}

(* Variant of Debit that forgets the nature of the account.                *)
DebitAsAsset(a, difference) == difference

Debit(a, difference) == IF Liability(a) THEN -difference ELSE difference

(* The fee is an expense; the rest goes to the other side of the account.  *)
Journal(c) ==
    LET difference == c.target - c.expected
        amount     == IF difference < 0 THEN -difference ELSE difference
        debit      == Debit(c.id, difference)
    IN  [account |-> debit, charge |-> c.fee,
         adjustment |-> IF debit > 0 THEN c.fee - amount ELSE amount - c.fee]

(* LedgerService.post() refuses a journal that does not balance.           *)
Balanced(j) == j.account + j.charge + j.adjustment = 0

Reconcile(r) ==
    /\ Committing(r, "reconcile")
    /\ LET c == call[r]
           j == Journal(c)
       IN  /\ Serializable(c) /\ Balanced(j)
           /\ entries' = Posted(c.id, j.account) /\ rows' = Append(rows, Row("reconciliation", c.id, j.account, None))
           /\ books' = [books EXCEPT !.charge = @ + j.charge, !.adjustment = @ + j.adjustment]
           /\ account' = Written(c.id, account[c.id])
           /\ Log(<<Entry("account", c.id, "balance", c.expected, c.target)>>)
    /\ UNCHANGED <<sessions, due, closing, since, settingVars>>

---------------------------------------------------------------------------
(* The rest of the system, as far as an account notices it.                *)

(* Something new is recorded in an account: it has to be active.           *)
Post(a, n) ==
    /\ account[a].active /\ Balance(a) + Change(a, n) >= 0
    /\ entries' = Posted(a, n) /\ rows' = Append(rows, Row("entry", a, n, None))
    /\ books' = [books EXCEPT !.other = @ - n]
    /\ UNCHANGED <<account, sessions, due, closing, since>>

(* What was recorded is corrected where it was recorded, and nobody asks   *)
(* whether the account is still active: a drawer needs an open session,    *)
(* and what leaves an account has to be there.                             *)
Correctable(a, debit) ==
    /\ account[a].type = "CASH" => a \in sessions.open
    /\ Change(a, debit) < 0 => Balance(a) + Change(a, debit) >= 0

(* reverse(): the mirror of the journal.  The settlement that a reversed   *)
(* receipt was for is open again.                                          *)
TakeBack(k) ==
    LET row == rows[k]
        a   == row.account
    IN  /\ row.debit # 0 /\ Correctable(a, -row.debit)
        /\ entries' = Posted(a, -row.debit) /\ rows' = [rows EXCEPT ![k].debit = 0]
        /\ books' = [books EXCEPT !.other = @ + row.debit]
        /\ due' = IF row.kind = "receipt" THEN [due EXCEPT ![row.for] = @ + 1] ELSE due
        /\ since' = [b \in Accounts |->
                       [corrected |-> since[b].corrected + (IF b = a THEN Change(a, -row.debit) ELSE 0),
                        reopened  |-> since[b].reopened + (IF row.kind = "receipt" /\ b = row.for THEN 1 ELSE 0)]]
        /\ UNCHANGED <<account, sessions, closing>>

(* An edit of a Pay In, a Pay Out or an expense replaces the lines of its  *)
(* journal.  Nothing is left on an account that an expense loses, though   *)
(* its lines may stay, or that an entry is moved away from (to Post it in  *)
(* another), where they go.                                                *)
Edit(k, debit) ==
    LET row    == rows[k]
        a      == row.account
        change == debit - row.debit
    IN  /\ row.kind = "entry" /\ row.debit # 0 /\ change # 0 /\ Correctable(a, change)
        /\ \E gone \in IF debit = 0 THEN {0, 1} ELSE {0} :
             entries' = [entries EXCEPT ![a] = [net |-> @.net + change, count |-> @.count - gone]]
        /\ rows' = [rows EXCEPT ![k].debit = debit]
        /\ books' = [books EXCEPT !.other = @ - change]
        /\ since' = [since EXCEPT ![a] = [corrected |-> @.corrected + Change(a, change), reopened |-> @.reopened]]
        /\ UNCHANGED <<account, sessions, due, closing>>

(* A drawer's session opens, or closes with the count that was expected.   *)
OpenDrawer(a) ==
    /\ account[a].active /\ account[a].type = "CASH" /\ a \notin sessions.open
    /\ sessions' = [open |-> sessions.open \cup {a}, ever |-> sessions.ever \cup {a}]
    /\ UNCHANGED <<account, entries, books, due, closing, rows, since>>

CloseDrawer(a) ==
    /\ a \in sessions.open
    /\ sessions' = [sessions EXCEPT !.open = @ \ {a}]
    /\ UNCHANGED <<account, entries, books, due, closing, rows, since>>

(* Where providers settle.                                                 *)
Destination(a) == account[a].type \in {"BANK", "PROVIDER_WALLET"}

(* A swipe that will be settled into the account, its receipt, here or in  *)
(* another account, and its reversal before that.                          *)
Expect(a) ==
    /\ account[a].active /\ Destination(a)
    /\ due' = [due EXCEPT ![a] = @ + 1]
    /\ UNCHANGED <<account, entries, books, sessions, closing, rows, since>>

Receive(a, b) ==
    /\ due[a] > 0 /\ account[b].active /\ Destination(b)
    /\ due' = [due EXCEPT ![a] = @ - 1]
    /\ entries' = Posted(b, 1) /\ rows' = Append(rows, Row("receipt", b, 1, a))
    /\ books' = [books EXCEPT !.other = @ - 1]
    /\ UNCHANGED <<account, sessions, closing, since>>

Withdraw(a) ==
    /\ due[a] > 0
    /\ due' = [due EXCEPT ![a] = @ - 1]
    /\ UNCHANGED <<account, entries, books, sessions, closing, rows, since>>

(* The end of a day: a closing balance for every account there is.         *)
EndDay ==
    /\ sessions.open = {}
    /\ closing' = [a \in Accounts |-> IF Exists(a) THEN [balance |-> Balance(a), net |-> entries[a].net]
                                      ELSE closing[a]]
    /\ UNCHANGED <<account, entries, books, sessions, due, rows, since>>

AccountInit ==
    /\ account = [a \in Accounts |-> IF a \in DOMAIN FirstAccounts
                                     THEN NewAccount(FirstAccounts[a], Typed(a), 0)
                                     ELSE IF \E p \in FirstProviders : WalletOf[p] = a
                                     THEN NewAccount("PROVIDER_WALLET",
                                                     Wallet(CHOOSE p \in FirstProviders : WalletOf[p] = a), 0)
                                     ELSE NoAccount]
    /\ entries = [a \in Accounts |-> [net |-> 0, count |-> 0]]
    /\ books = [charge |-> 0, adjustment |-> 0, other |-> 0]
    /\ sessions = [open |-> {}, ever |-> {}]
    /\ due = [a \in Accounts |-> 0]
    /\ closing = [a \in Accounts |-> None]
    /\ rows = << >>
    /\ since = [a \in Accounts |-> NothingSince]
=============================================================================
