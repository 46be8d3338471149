----------------------------- MODULE OfficeWork -----------------------------
(***************************************************************************)
(* The office at work: calls of one or two users at a time, while the      *)
(* counter goes on posting, opening drawers and closing days.              *)
(***************************************************************************)
EXTENDS OfficeSettings

vars == <<accountVars, settingVars, audit, call, boundVars>>

ItemCalls(kind) == CreateItemCalls(kind) \cup UpdateItemCalls(kind) \cup SetItemActiveCalls(kind)

(* What may be asked for, by what the bounds call it.                      *)
Calls(op) ==
    CASE op = "createAccount"     -> CreateAccountCalls
      [] op = "setOpening"        -> SetOpeningCalls
      [] op = "updateAccount"     -> UpdateAccountCalls
      [] op = "setAccountActive"  -> SetAccountActiveCalls
      [] op = "reconcile"         -> ReconcileCalls
      [] op = "createProvider"    -> CreateProviderCalls
      [] op = "updateProvider"    -> UpdateProviderCalls
      [] op = "setProviderActive" -> SetProviderActiveCalls
      [] op = "rules"             -> UNION {SetRulesCalls(k) : k \in Charges}
      [] op = "types"             -> ItemCalls("customerType")
      [] op = "lists"             -> UNION {ItemCalls(k) : k \in ItemKinds \ {"customerType"}}
      [] op = "services"          -> CreateServiceCalls \cup UpdateServiceCalls \cup SetServiceActiveCalls
      [] op = "cashIn"            -> CreateCashInTransferTypeCalls \cup UpdateCashInTransferTypeCalls
                                     \cup SetCashInTransferTypeActiveCalls
      [] op = "commission"        -> CreateCommissionRuleCalls \cup UpdateCommissionRuleCalls
                                     \cup SetCommissionRuleActiveCalls
      [] op = "users"             -> CreateUserCalls \cup UpdateUserCalls \cup SetUserActiveCalls
                                     \cup ResetPasswordCalls
      [] OTHER                -> {}

(* The bounds: how many calls at once, which, and on which accounts.       *)
Begin(r) ==
    /\ call[r] = Waiting
    /\ Cardinality(InFlight) < load.together
    /\ \E op \in load.ops : \E c \in Calls(op) :
         /\ call' = [call EXCEPT ![r] = c]
         /\ op \in {"setOpening", "setAccountActive", "reconcile"} => c.id \in load.accounts
    /\ UNCHANGED <<accountVars, settingVars, audit, boundVars>>

(* What is debited at a time.                                              *)
Steps == {-1, 1}

(* What happens beside the calls, or only between them.                    *)
Moving ==
    /\ load.during \/ InFlight = {}
    /\ moves < load.moves /\ moves' = moves + 1
    /\ UNCHANGED <<settingVars, audit, call, load>>

Init ==
    /\ AccountInit /\ SettingInit
    /\ audit = << >>
    /\ call = [r \in Requests |-> Waiting]
    /\ moves = 0
    /\ load \in Loads

Next ==
    \/ \E r \in Requests :
         \/ Begin(r) \/ Abort(r)
         \/ CreateAccount(r) \/ SetOpeningBalance(r) \/ UpdateAccount(r) \/ SetAccountActive(r) \/ Reconcile(r)
         \/ CreateProvider(r) \/ UpdateProvider(r) \/ SetProviderActive(r)
         \/ SetAepsProviderCommissionRules(r) \/ SetMicroAtmProviderCommissionRules(r) \/ SetPayoutChargeRules(r)
         \/ CreateCustomerType(r) \/ UpdateCustomerType(r) \/ SetCustomerTypeActive(r)
         \/ CreatePaymentTerm(r) \/ UpdatePaymentTerm(r) \/ SetPaymentTermActive(r)
         \/ CreateCardNetwork(r) \/ SetCardNetworkActive(r)
         \/ CreateExpenseCategory(r) \/ UpdateExpenseCategory(r) \/ SetExpenseCategoryActive(r)
         \/ AddGateway(r) \/ UpdateGateway(r) \/ SetGatewayActive(r)
         \/ CreateService(r) \/ UpdateService(r) \/ SetServiceActive(r)
         \/ CreateCashInTransferType(r) \/ UpdateCashInTransferType(r) \/ SetCashInTransferTypeActive(r)
         \/ CreateCommissionRule(r) \/ UpdateCommissionRule(r) \/ SetCommissionRuleActive(r)
         \/ CreateUser(r) \/ UpdateUser(r) \/ SetUserActive(r) \/ ResetPassword(r)
    \/ \E a \in load.accounts :
         \/ \E n \in Steps : Moving /\ Post(a, n)
         \/ Moving /\ OpenDrawer(a)
         \/ Moving /\ CloseDrawer(a)
         \/ Moving /\ Expect(a)
         \/ \E b \in load.accounts : Moving /\ Receive(a, b)
         \/ Moving /\ Withdraw(a)
    \/ \E k \in DOMAIN rows :
         \/ Moving /\ TakeBack(k)
         \/ \E n \in Steps \cup {0} : Moving /\ Edit(k, n)
    \/ Moving /\ load.accounts # {} /\ EndDay

Spec == Init /\ [][Next]_vars

---------------------------------------------------------------------------
(* Properties.  Alone is said of behaviours in which no two calls overlap; *)
(* what two of them can do to each other is in the README.                 *)

Alone == load.together = 1 /\ ~load.during

(* Every variable has its type.                                            *)
TypeOK ==
    /\ \A a \in Accounts : /\ account[a].type \in Types \cup {"NONE"}
                           /\ account[a].opening \in Nat /\ account[a].active \in BOOLEAN
                           /\ entries[a] \in [net : Int, count : Nat]
                           /\ due[a] \in Nat
    /\ books \in [charge : Int, adjustment : Int, other : Int]
    /\ sessions.open \subseteq sessions.ever /\ sessions.ever \subseteq Accounts
    /\ \A k \in DOMAIN rows : rows[k].account \in Accounts /\ rows[k].for \in Accounts \cup {None}
    /\ \A p \in Providers : provider[p].name \in Providers \cup Names \cup {None}
    /\ \A k \in Charges : \A x \in rules[k] : x.from \in 0..clock /\ (x.to = None \/ x.to \in 0..clock)
    /\ \A i \in Items : item[i].value \in Items \cup Values \cup {None} /\ item[i].active \in BOOLEAN
    /\ service \in [allow : BOOLEAN, only : BOOLEAN, active : BOOLEAN \cup {None}]
    /\ cashIn = NoCashIn \/ cashIn \in [mode : Modes, rate : 0..2, active : BOOLEAN]
    /\ \A k \in DOMAIN commission : commission[k].scope \in Scope
    /\ \A u \in Users : user[u].role \in Roles \cup {None} /\ user[u].active \in BOOLEAN

(* What the field an entry of the log is about holds now.                  *)
Current(e) ==
    CASE e.entity = "account"    -> account[e.id][e.what]
      [] e.entity = "provider"   -> provider[e.id][e.what]
      [] e.entity \in Charges    -> {x.slab : x \in Open(e.entity, e.id)}
      [] e.entity = "item"       -> item[e.id][e.what]
      [] e.entity = "service"    -> IF e.what = "value" THEN <<service.allow, service.only>> ELSE service.active
      [] e.entity = "cashIn"     -> IF e.what = "value" THEN <<cashIn.mode, cashIn.rate>> ELSE cashIn.active
      [] e.entity = "commission" -> commission[e.id][e.what]
      [] e.entity = "user"       -> user[e.id][e.what]

About(e) == {k \in DOMAIN audit : /\ audit[k].entity = e.entity /\ audit[k].what = e.what
                                  /\ audit[k].id = e.id}

(* The new name of a wallet is logged as its provider's only; reconciled   *)
(* balances go on changing.                                                *)
Tracked(e) ==
    /\ e.what \notin {"password", "balance"}
    /\ ~(e.entity = "account" /\ e.what = "name" /\ e.id \in WalletAccounts)

(* What the log says last of a field is what the field holds, even when    *)
(* two calls change it at once.                                            *)
AuditCurrent ==
    \A k \in DOMAIN audit :
        Tracked(audit[k]) /\ (\A j \in About(audit[k]) : j <= k) => audit[k].new = Current(audit[k])

(* What a change says was there before is what the change before it left.  *)
AuditChain ==
    Alone => \A k \in DOMAIN audit :
        LET e       == audit[k]
            earlier == {j \in About(e) : j < k}
        IN  earlier # {} /\ Tracked(e) =>
                e.old = audit[CHOOSE j \in earlier : \A i \in earlier : i <= j].new

(* An account's ledger bears its name, every provider has its wallet, and  *)
(* the wallet bears the provider's name unless two rename it at once.      *)
NamesFollow ==
    /\ \A a \in Accounts : account[a].ledgerName = account[a].name
    /\ \A p \in Providers :
         /\ p \in Present <=> account[WalletOf[p]].type = "PROVIDER_WALLET"
         /\ Alone /\ p \in Present => account[WalletOf[p]].name = Wallet(provider[p].name)

(* The balance moves by what the owner confirmed and in its direction,     *)
(* whatever was posted since the owner looked; it ends on the verified     *)
(* amount when nothing was.                                                *)
ReconciliationExplained ==
    [][\A r \in Requests, a \in Accounts :
         call[r].op = "reconcile" /\ call'[r] = Answered /\ audit' # audit /\ a = call[r].id =>
             /\ Balance(a)' - Balance(a) = call[r].target - call[r].expected
             /\ Alone => Balance(a)' = call[r].target]_vars

(* A reconciliation with confirmed charges that is let through is one the  *)
(* ledger can book.                                                        *)
FeesBook == \A r \in Requests : call[r].op = "reconcile" => Balanced(Journal(call[r]))

(* One call after the other, an account had nothing on it, in its drawer   *)
(* or on its way when it was switched off, and since then only corrections *)
(* of what was recorded before have reached it, which do not ask whether   *)
(* it is active: they account for all that is on it and on its way again,  *)
(* and never overdraw it.  To a drawer not even they come, as they need an *)
(* open session.  The opening balance of an account without any entry may  *)
(* still be set.                                                           *)
InactiveIsSettled ==
    Alone => \A a \in Own : ~account[a].active =>
        /\ a \notin sessions.open /\ due[a] <= since[a].reopened
        /\ entries[a].count > 0 => Balance(a) = since[a].corrected /\ Balance(a) >= 0
        /\ account[a].type = "CASH" => since[a].corrected = 0 /\ since[a].reopened = 0

(* A closing balance of a day stays what the opening balance and the       *)
(* entries of its time make.                                               *)
ClosedDaysStand ==
    Alone => \A a \in Accounts : closing[a] # None =>
        closing[a].balance = account[a].opening + (IF Liability(a) THEN -closing[a].net ELSE closing[a].net)

(* At no date does an amount have two rates.                               *)
OneRule ==
    Alone => \A k \in Charges, p \in Providers, n \in Amounts, date \in 0..clock :
        Cardinality(Applicable(k, p, n, date)) <= 1

(* New slabs leave the rates of earlier dates alone: what is back-dated is *)
(* charged as it was charged then.                                         *)
RatesStand ==
    [][Alone => \A k \in Charges, p \in Providers, n \in Amounts, date \in 0..(clock - 1) :
         {x.slab : x \in Applicable(k, p, n, date)'} = {x.slab : x \in Applicable(k, p, n, date)}]_vars

(* The rule a commission is resolved to fits the transaction, none that    *)
(* fits says more, and none that says as much is newer.                    *)
BestRule ==
    load.ops = {"commission"} => \A input \in Scope, aeps \in BOOLEAN :
        LET fits == {k \in DOMAIN commission : commission[k].active /\ Covers(commission[k].scope, input)}
            best == CHOOSE k \in fits : \A j \in fits :
                      \/ Score(commission[j].scope) < Score(commission[k].scope)
                      \/ Score(commission[j].scope) = Score(commission[k].scope) /\ j <= k
        IN  ResolveCommission(input, aeps) =
                IF fits # {} THEN commission[best]
                ELSE IF aeps /\ input.provider # None THEN ProviderDefault ELSE None

(* "without leaving a contradictory mode": even two calls at once do not   *)
(* leave a service only partners do but partners may not.                  *)
PartnerFlags == service.only => service.allow

(* One call after the other, some customer type remains.                   *)
SomeTypeActive == Alone => \E i \in Kept("customerType") : item[i].active

(* One call after the other, somebody can still sign in.                   *)
SomebodyActive == Alone => \E u \in Known : user[u].active

(* Nobody but an owner makes an owner, or changes one: no sequence of an   *)
(* admin's calls gets around it.                                           *)
OwnersByOwners ==
    [][Alone => \A u \in Users :
         user'[u] # user[u] /\ "OWNER" \in {user[u].role, user'[u].role} =>
             \E r \in Requests : call'[r] # call[r] /\ user[call[r].actor].role = "OWNER"]_vars

(* The log is true: what it says last of a field the field holds, and what *)
(* it says was there before was there (AuditService.log() in every call).  *)
AuditTrue == AuditCurrent /\ AuditChain

(* Accounts stay what their books say (AccountsService): their ledgers and *)
(* wallets bear their names, fees can be booked, an account is switched    *)
(* off only when it is settled and then reached by corrections alone, and  *)
(* a closed day is not moved by a later opening balance.                   *)
AccountsStand == NamesFollow /\ FeesBook /\ InactiveIsSettled /\ ClosedDaysStand

(* Settings never leave the shop unable to work (SettingsService and       *)
(* UsersService): no contradictory service, a customer type, a user.       *)
SettingsStand == TypeOK /\ PartnerFlags /\ SomeTypeActive /\ SomebodyActive

(* Whatever rates and rules are entered, one decides (ProvidersService).   *)
RulesDecide == OneRule /\ BestRule
=============================================================================
