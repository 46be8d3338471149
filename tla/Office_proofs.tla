----------------------------- MODULE Office_proofs -----------------------------
(***************************************************************************)
(* Proofs about the office: what the audit log says, what reconciliations  *)
(* and switches leave behind, rates and their dates, and that somebody can *)
(* still sign in, for any number of calls, accounts, providers, settings   *)
(* and users.                                                              *)
(***************************************************************************)
EXTENDS OfficeWork, SumLemmas, FiniteSetTheorems, SequenceTheorems, TLAPS

---------------------------------------------------------------------------
(* The rows, with all their columns.                                       *)

AccountNames == {None} \cup ((Names \cup Accounts \cup Providers) \X {"", "Wallet"})
AccountRow == [type : Types \cup {"NONE"}, name : AccountNames, ledgerName : AccountNames,
               opening : Nat, active : BOOLEAN, version : Nat]
ProviderRow == [name : Providers \cup Names \cup {None}, active : BOOLEAN]
RuleRow == [provider : Providers, slab : UNION SlabSets, from : Nat, to : Nat \cup {None}]
ItemRow == [value : Items \cup Values \cup {None}, active : BOOLEAN]
ServiceRow == [allow : BOOLEAN, only : BOOLEAN, active : BOOLEAN]
CashInRow == [mode : Modes, rate : 0..2, active : BOOLEAN]
CommissionRow == [scope : Scope, active : BOOLEAN]
UserRow == [role : Roles \cup {None}, active : BOOLEAN, password : Nat]

AccountsOK ==
    /\ account \in [Accounts -> AccountRow]
    /\ entries \in [Accounts -> [net : Int, count : Nat]]
    /\ books \in [charge : Int, adjustment : Int, other : Int]
    /\ sessions \in [open : SUBSET Accounts, ever : SUBSET Accounts]
    /\ sessions.open \subseteq sessions.ever
    /\ due \in [Accounts -> Nat]
    /\ closing \in [Accounts -> {None} \cup [balance : Int, net : Int]]
    /\ \A a \in Accounts : ~Exists(a) => closing[a] = None /\ ~account[a].active
    /\ \A a \in WalletAccounts : Exists(a) => account[a].type = "PROVIDER_WALLET"

Posting == [kind : {"entry", "receipt", "reconciliation"}, account : Accounts, debit : Int,
            for : Accounts \cup {None}]
History == [corrected : Int, reopened : Nat]

(* What was posted to an account and not taken back.                       *)
Live(a) == {k \in DOMAIN rows : rows[k].account = a /\ rows[k].debit # 0}

(* What was posted is in the ledger of its account, what providers settle  *)
(* goes to accounts they settle into.                                      *)
RowsOK ==
    /\ rows \in Seq(Posting) /\ since \in [Accounts -> History]
    /\ \A a \in Accounts : Cardinality(Live(a)) <= entries[a].count
    /\ \A a \in Accounts : due[a] > 0 => Destination(a)
    /\ \A k \in DOMAIN rows : rows[k].kind = "receipt" => rows[k].for \in Accounts /\ Destination(rows[k].for)

SettingsOK ==
    /\ provider \in [Providers -> ProviderRow]
    /\ \A p \in Present : provider[p].name # None
    /\ rules \in [Charges -> SUBSET RuleRow] /\ clock \in Nat
    /\ \A k \in Charges : \A x \in rules[k] : x.from <= clock /\ (x.to = None \/ x.to <= clock)
    /\ item \in [Items -> ItemRow]
    /\ \A i \in Items : item[i] # NoItem => item[i].value # None
    /\ service \in {NoService} \cup ServiceRow
    /\ cashIn \in {NoCashIn} \cup CashInRow
    /\ commission \in Seq(CommissionRow)
    /\ user \in [Users -> UserRow]
    /\ \A u \in Known : user[u].password > 0

(* A provider's wallet comes with it.                                      *)
WalletsOK == \A p \in Providers : p \in Present <=> account[WalletOf[p]].type = "PROVIDER_WALLET"

(* What a call names is there, and what it gives may be entered.           *)
Fits(c) ==
    /\ c.op = "createAccount" => c.name \in Names /\ c.type \in Types \ {"PROVIDER_WALLET"} /\ c.opening \in Nat
    /\ c.op \in {"setOpening", "updateAccount", "setAccountActive", "reconcile"} =>
         c.id \in Accounts /\ Exists(c.id)
    /\ c.op = "setOpening" => c.opening \in Nat
    /\ c.op = "updateAccount" => c.id \notin WalletAccounts /\ c.name \in Names
    /\ c.op = "setAccountActive" => c.id \notin WalletAccounts /\ c.active \in BOOLEAN
    /\ c.op = "reconcile" => /\ c.expected \in Nat /\ c.target \in Nat /\ c.fee \in Nat
                             /\ FeeSupported(c.id, c.target - c.expected, c.fee)
    /\ c.op = "createProvider" => c.name \in Names
    /\ c.op \in {"updateProvider", "setProviderActive"} \cup Charges => c.id \in Present
    /\ c.op = "updateProvider" => c.name \in Names
    /\ c.op = "setProviderActive" => c.active \in BOOLEAN
    /\ c.op \in Charges => c.slabs \in SlabSets /\ Acceptable(c.slabs)
    /\ c.op \in {"createItem", "updateItem"} => c.value \in Values
    /\ c.op \in {"updateItem", "setItemActive"} => c.id \in Items /\ c.id \in Kept(c.kind)
    /\ c.op = "setItemActive" => c.active \in BOOLEAN
    /\ c.op \in {"createService", "updateService"} => c.allow \in Choice /\ c.only \in Choice
    /\ c.op = "updateService" => c.seen \in ServiceRow
    /\ c.op \in {"updateService", "setServiceActive"} => service # NoService
    /\ c.op = "setServiceActive" => c.active \in BOOLEAN
    /\ c.op = "createCashIn" => c.mode \in Modes /\ c.rate \in {None, 0}
    /\ c.op = "updateCashIn" => c.mode \in Modes \cup {None} /\ c.rate \in {None, 0}
    /\ c.op \in {"updateCashIn", "setCashInActive"} => cashIn # NoCashIn
    /\ c.op = "setCashInActive" => c.active \in BOOLEAN
    /\ c.op \in {"createCommissionRule", "updateCommissionRule"} => c.scope \in Scope
    /\ c.op \in {"updateCommissionRule", "setCommissionRuleActive"} => c.id \in DOMAIN commission
    /\ c.op = "setCommissionRuleActive" => c.active \in BOOLEAN
    /\ c.op = "createUser" => c.role \in Roles
    /\ c.op \in {"updateUser", "setUserActive", "resetPassword"} => c.id \in Known
    /\ c.op = "updateUser" => c.role \in Roles \cup {None}
    /\ c.op = "setUserActive" => c.active \in BOOLEAN

(* One call after the other, what a call has read is what is there, and    *)
(* what it has checked still holds.                                        *)
Fresh(c) ==
    /\ c.op \in {"setOpening", "updateAccount", "setAccountActive", "reconcile"} => c.seen = account[c.id]
    /\ c.op = "setOpening" => Untouched(c.id)
    /\ c.op = "setAccountActive" /\ ~c.active /\ c.seen.active => Settled(c.id)
    /\ c.op = "reconcile" => c.expected = Balance(c.id) /\ account[c.id].active
    /\ c.op \in {"updateProvider", "setProviderActive"} => c.seen = provider[c.id]
    /\ c.op \in Charges => c.seen = Open(c.op, c.id)
    /\ c.op \in {"updateItem", "setItemActive"} => c.seen = item[c.id]
    /\ c.op = "setItemActive" => MaySwitch(c.kind, c.active, c.seen)
    /\ c.op \in {"updateService", "setServiceActive"} => c.seen = service
    /\ c.op \in {"updateCashIn", "setCashInActive"} => c.seen = cashIn
    /\ c.op \in {"updateCommissionRule", "setCommissionRuleActive"} => c.seen = commission[c.id]
    /\ c.op \in {"updateUser", "setUserActive", "resetPassword"} => c.seen = user[c.id]
    /\ c.op \in {"createUser", "updateUser", "setUserActive", "resetPassword"} => c.actor \in Managers
    /\ c.op = "createUser" => MayManage(c.actor, NoUser, c.role)
    /\ c.op = "updateUser" => MayManage(c.actor, c.seen, c.role)
    /\ c.op = "setUserActive" => MayDisable(c.actor, c.id, c.active)
    /\ c.op \in {"setUserActive", "resetPassword"} => MayManage(c.actor, c.seen, None)

Shape ==
    /\ AccountsOK /\ RowsOK /\ SettingsOK /\ WalletsOK
    /\ load \in Loads
    /\ call = [r \in Requests |-> call[r]]
    /\ \A r \in Requests : Fits(call[r])

InTurn ==
    Alone => /\ \A q, r \in InFlight : q = r
             /\ \A r \in InFlight : Fresh(call[r])

---------------------------------------------------------------------------
(* A call that begins: what the checks before its transaction let through. *)

\* The calls of the bounds are calls of one of the services.
LEMMA CallsAre ==
  ASSUME NEW op, NEW c \in Calls(op)
  PROVE  \/ c \in CreateAccountCalls \cup SetOpeningCalls \cup UpdateAccountCalls \cup SetAccountActiveCalls \cup ReconcileCalls
         \/ c \in CreateProviderCalls \cup UpdateProviderCalls \cup SetProviderActiveCalls
         \/ \E k \in Charges : c \in SetRulesCalls(k)
         \/ \E k \in ItemKinds : c \in ItemCalls(k)
         \/ c \in CreateServiceCalls \cup UpdateServiceCalls \cup SetServiceActiveCalls
         \/ c \in CreateCashInTransferTypeCalls \cup UpdateCashInTransferTypeCalls \cup SetCashInTransferTypeActiveCalls
         \/ c \in CreateCommissionRuleCalls \cup UpdateCommissionRuleCalls \cup SetCommissionRuleActiveCalls
         \/ c \in CreateUserCalls \cup UpdateUserCalls \cup SetUserActiveCalls \cup ResetPasswordCalls
<1>1. CASE op \in {"createAccount", "setOpening", "updateAccount", "setAccountActive", "reconcile"}
  BY <1>1 DEF Calls
<1>2. CASE op \in {"createProvider", "updateProvider", "setProviderActive"} BY <1>2 DEF Calls
<1>3. CASE op = "rules" BY <1>3 DEF Calls
<1>4. CASE op = "types"
  <2>1. c \in ItemCalls("customerType") BY <1>4 DEF Calls
  <2>2. "customerType" \in ItemKinds BY DEF ItemKinds
  <2> QED BY <2>1, <2>2
<1>5. CASE op = "lists" BY <1>5 DEF Calls
<1>6. CASE op \in {"services", "cashIn", "commission", "users"} BY <1>6 DEF Calls
<1> QED BY <1>1, <1>2, <1>3, <1>4, <1>5, <1>6 DEF Calls

\* Calls of AccountsService and of the reconciliation.
LEMMA AccountCallsBegin ==
  ASSUME AccountsOK,
         NEW c \in CreateAccountCalls \cup SetOpeningCalls \cup UpdateAccountCalls \cup SetAccountActiveCalls \cup ReconcileCalls
  PROVE  Fits(c) /\ Fresh(c)
<1>0. Money \subseteq Nat BY OfficeAssumption
<1>1. CASE c \in CreateAccountCalls
  <2>1. c.op = "createAccount" /\ c.name \in Names /\ c.type \in Types \ {"PROVIDER_WALLET"} /\ c.opening \in Nat
    BY <1>0, <1>1 DEF CreateAccountCalls
  <2> QED BY <2>1 DEF Fits, Fresh, Charges
<1>2. CASE c \in SetOpeningCalls
  <2>1. /\ c.op = "setOpening" /\ c.id \in Accounts /\ Exists(c.id) /\ c.opening \in Nat
        /\ c.seen = account[c.id] /\ Untouched(c.id)
    BY <1>0, <1>2, OfficeAssumption DEF SetOpeningCalls, Own, WalletAccounts
  <2> QED BY <2>1 DEF Fits, Fresh, Charges
<1>3. CASE c \in UpdateAccountCalls
  <2>1. /\ c.op = "updateAccount" /\ c.id \in Accounts /\ Exists(c.id) /\ c.id \notin WalletAccounts
        /\ c.name \in Names /\ c.seen = account[c.id]
    BY <1>3 DEF UpdateAccountCalls, Own
  <2> QED BY <2>1 DEF Fits, Fresh, Charges
<1>4. CASE c \in SetAccountActiveCalls
  <2>1. /\ c.op = "setAccountActive" /\ c.id \in Accounts /\ Exists(c.id) /\ c.id \notin WalletAccounts
        /\ c.active \in BOOLEAN /\ c.seen = account[c.id]
        /\ ~c.active /\ c.seen.active => Settled(c.id)
    BY <1>4 DEF SetAccountActiveCalls, Own
  <2> QED BY <2>1 DEF Fits, Fresh, Charges
<1>5. CASE c \in ReconcileCalls
  <2>1. /\ c.op = "reconcile" /\ c.id \in Accounts /\ account[c.id].active
        /\ c.expected \in Nat /\ c.target \in Nat /\ c.fee \in Nat
        /\ c.seen = account[c.id] /\ c.expected = Preview(c.id).balance
        /\ FeeSupported(c.id, c.target - c.expected, c.fee)
    BY <1>0, <1>5 DEF ReconcileCalls
  <2>2. Exists(c.id) /\ c.expected = Balance(c.id) BY <2>1 DEF AccountsOK, Preview
  <2> QED BY <2>1, <2>2 DEF Fits, Fresh, Charges
<1> QED BY <1>1, <1>2, <1>3, <1>4, <1>5

\* Calls of ProvidersService.
LEMMA ProviderCallsBegin ==
  ASSUME SettingsOK, NEW c \in CreateProviderCalls \cup UpdateProviderCalls \cup SetProviderActiveCalls
  PROVE  Fits(c) /\ Fresh(c)
<1>1. CASE c \in CreateProviderCalls
  <2>1. c.op = "createProvider" /\ c.name \in Names BY <1>1 DEF CreateProviderCalls
  <2> QED BY <2>1 DEF Fits, Fresh, Charges
<1>2. CASE c \in UpdateProviderCalls
  <2>1. c.op = "updateProvider" /\ c.id \in Present /\ c.name \in Names /\ c.seen = provider[c.id]
    BY <1>2 DEF UpdateProviderCalls
  <2> QED BY <2>1 DEF Fits, Fresh, Charges
<1>3. CASE c \in SetProviderActiveCalls
  <2>1. c.op = "setProviderActive" /\ c.id \in Present /\ c.active \in BOOLEAN /\ c.seen = provider[c.id]
    BY <1>3 DEF SetProviderActiveCalls
  <2> QED BY <2>1 DEF Fits, Fresh, Charges
<1> QED BY <1>1, <1>2, <1>3

\* New slabs for one of the three rates.
LEMMA RuleCallsBegin ==
  ASSUME SettingsOK, NEW k \in Charges, NEW c \in SetRulesCalls(k)
  PROVE  Fits(c) /\ Fresh(c)
<1>1. /\ c.op = k /\ c.id \in Present /\ c.slabs \in SlabSets
      /\ Acceptable(c.slabs) /\ c.seen = Open(k, c.id)
  BY DEF SetRulesCalls
<1>2. k \notin {"setOpening", "updateAccount", "setAccountActive", "reconcile", "createAccount", "createProvider",
               "updateProvider", "setProviderActive", "createItem", "updateItem", "setItemActive", "createService",
               "updateService", "setServiceActive", "createCashIn", "updateCashIn", "setCashInActive",
               "createCommissionRule", "updateCommissionRule", "setCommissionRuleActive", "createUser",
               "updateUser", "setUserActive", "resetPassword"}
  BY DEF Charges
<1> QED BY <1>1, <1>2 DEF Fits, Fresh

\* Names, values and switches.
LEMMA ItemCallsBegin ==
  ASSUME SettingsOK, NEW k \in ItemKinds, NEW c \in ItemCalls(k)
  PROVE  Fits(c) /\ Fresh(c)
<1>1. CASE c \in CreateItemCalls(k)
  <2>1. c.op = "createItem" /\ c.value \in Values BY <1>1 DEF CreateItemCalls
  <2> QED BY <2>1 DEF Fits, Fresh, Charges
<1>2. CASE c \in UpdateItemCalls(k)
  <2>1. c.op = "updateItem" /\ c.kind = k /\ c.id \in Kept(k) /\ c.value \in Values /\ c.seen = item[c.id]
    BY <1>2 DEF UpdateItemCalls
  <2>2. c.id \in Items BY <2>1 DEF Kept
  <2> QED BY <2>1, <2>2 DEF Fits, Fresh, Charges
<1>3. CASE c \in SetItemActiveCalls(k)
  <2>1. /\ c.op = "setItemActive" /\ c.kind = k /\ c.id \in Kept(k) /\ c.active \in BOOLEAN /\ c.seen = item[c.id]
        /\ MaySwitch(k, c.active, c.seen)
    BY <1>3 DEF SetItemActiveCalls
  <2>2. c.id \in Items BY <2>1 DEF Kept
  <2> QED BY <2>1, <2>2 DEF Fits, Fresh, Charges
<1> QED BY <1>1, <1>2, <1>3 DEF ItemCalls

\* The service, and the cash-in transfer type.
LEMMA ServiceCallsBegin ==
  ASSUME SettingsOK,
         NEW c \in CreateServiceCalls \cup UpdateServiceCalls \cup SetServiceActiveCalls \cup
                   CreateCashInTransferTypeCalls \cup UpdateCashInTransferTypeCalls \cup SetCashInTransferTypeActiveCalls
  PROVE  Fits(c) /\ Fresh(c)
<1>1. CASE c \in CreateServiceCalls
  <2>1. c.op = "createService" /\ c.allow \in Choice /\ c.only \in Choice BY <1>1 DEF CreateServiceCalls
  <2> QED BY <2>1 DEF Fits, Fresh, Charges
<1>2. CASE c \in UpdateServiceCalls
  <2>1. /\ c.op = "updateService" /\ c.allow \in Choice /\ c.only \in Choice
        /\ c.seen = service /\ service # NoService
    BY <1>2 DEF UpdateServiceCalls
  <2>2. c.seen \in ServiceRow BY <2>1 DEF SettingsOK
  <2> QED BY <2>1, <2>2 DEF Fits, Fresh, Charges
<1>3. CASE c \in SetServiceActiveCalls
  <2>1. c.op = "setServiceActive" /\ c.active \in BOOLEAN /\ c.seen = service /\ service # NoService
    BY <1>3 DEF SetServiceActiveCalls
  <2> QED BY <2>1 DEF Fits, Fresh, Charges
<1>4. CASE c \in CreateCashInTransferTypeCalls
  <2>1. c.op = "createCashIn" /\ c.mode \in Modes /\ c.rate \in {None, 0} BY <1>4 DEF CreateCashInTransferTypeCalls
  <2> QED BY <2>1 DEF Fits, Fresh, Charges
<1>5. CASE c \in UpdateCashInTransferTypeCalls
  <2>1. /\ c.op = "updateCashIn" /\ c.mode \in Modes \cup {None} /\ c.rate \in {None, 0}
        /\ c.seen = cashIn /\ cashIn # NoCashIn
    BY <1>5 DEF UpdateCashInTransferTypeCalls
  <2> QED BY <2>1 DEF Fits, Fresh, Charges
<1>6. CASE c \in SetCashInTransferTypeActiveCalls
  <2>1. c.op = "setCashInActive" /\ c.active \in BOOLEAN /\ c.seen = cashIn /\ cashIn # NoCashIn
    BY <1>6 DEF SetCashInTransferTypeActiveCalls
  <2> QED BY <2>1 DEF Fits, Fresh, Charges
<1> QED BY <1>1, <1>2, <1>3, <1>4, <1>5, <1>6

\* Commission rules.
LEMMA CommissionCallsBegin ==
  ASSUME SettingsOK, NEW c \in CreateCommissionRuleCalls \cup UpdateCommissionRuleCalls \cup SetCommissionRuleActiveCalls
  PROVE  Fits(c) /\ Fresh(c)
<1>1. CASE c \in CreateCommissionRuleCalls
  <2>1. c.op = "createCommissionRule" /\ c.scope \in Scope BY <1>1 DEF CreateCommissionRuleCalls
  <2> QED BY <2>1 DEF Fits, Fresh, Charges
<1>2. CASE c \in UpdateCommissionRuleCalls
  <2>1. c.op = "updateCommissionRule" /\ c.id \in DOMAIN commission /\ c.scope \in Scope /\ c.seen = commission[c.id]
    BY <1>2 DEF UpdateCommissionRuleCalls
  <2> QED BY <2>1 DEF Fits, Fresh, Charges
<1>3. CASE c \in SetCommissionRuleActiveCalls
  <2>1. /\ c.op = "setCommissionRuleActive" /\ c.id \in DOMAIN commission /\ c.active \in BOOLEAN
        /\ c.seen = commission[c.id]
    BY <1>3 DEF SetCommissionRuleActiveCalls
  <2> QED BY <2>1 DEF Fits, Fresh, Charges
<1> QED BY <1>1, <1>2, <1>3

\* Users.
LEMMA UserCallsBegin ==
  ASSUME SettingsOK, NEW c \in CreateUserCalls \cup UpdateUserCalls \cup SetUserActiveCalls \cup ResetPasswordCalls
  PROVE  Fits(c) /\ Fresh(c)
<1>1. CASE c \in CreateUserCalls
  <2>1. c.op = "createUser" /\ c.actor \in Managers /\ c.role \in Roles /\ MayManage(c.actor, NoUser, c.role)
    BY <1>1 DEF CreateUserCalls
  <2> QED BY <2>1 DEF Fits, Fresh, Charges
<1>2. CASE c \in UpdateUserCalls
  <2>1. /\ c.op = "updateUser" /\ c.actor \in Managers /\ c.id \in Known /\ c.role \in Roles \cup {None}
        /\ c.seen = user[c.id] /\ MayManage(c.actor, c.seen, c.role)
    BY <1>2 DEF UpdateUserCalls
  <2> QED BY <2>1 DEF Fits, Fresh, Charges
<1>3. CASE c \in SetUserActiveCalls
  <2>1. /\ c.op = "setUserActive" /\ c.actor \in Managers /\ c.id \in Known /\ c.active \in BOOLEAN
        /\ c.seen = user[c.id] /\ MayDisable(c.actor, c.id, c.active) /\ MayManage(c.actor, c.seen, None)
    BY <1>3 DEF SetUserActiveCalls
  <2> QED BY <2>1 DEF Fits, Fresh, Charges
<1>4. CASE c \in ResetPasswordCalls
  <2>1. /\ c.op = "resetPassword" /\ c.actor \in Managers /\ c.id \in Known
        /\ c.seen = user[c.id] /\ MayManage(c.actor, c.seen, None)
    BY <1>4 DEF ResetPasswordCalls
  <2> QED BY <2>1 DEF Fits, Fresh, Charges
<1> QED BY <1>1, <1>2, <1>3, <1>4

\* What a call that begins names is there, and what it has read is so.
LEMMA BeginFits ==
  ASSUME AccountsOK, SettingsOK, NEW op, NEW c \in Calls(op)
  PROVE  Fits(c) /\ Fresh(c)
BY CallsAre, AccountCallsBegin, ProviderCallsBegin, RuleCallsBegin, ItemCallsBegin, ServiceCallsBegin,
   CommissionCallsBegin, UserCallsBegin

---------------------------------------------------------------------------
(* Steps.                                                                  *)

AccountStep(r) == CreateAccount(r) \/ SetOpeningBalance(r) \/ UpdateAccount(r) \/ SetAccountActive(r) \/ Reconcile(r)
ProviderStep(r) == CreateProvider(r) \/ UpdateProvider(r) \/ SetProviderActive(r)
RuleStep(r) == \E k \in Charges : SetRules(r, k)
ItemStep(r) == \E k \in ItemKinds : CreateItem(r, k) \/ UpdateItem(r, k) \/ SetItemActive(r, k)
ServiceStep(r) == CreateService(r) \/ UpdateService(r) \/ SetServiceActive(r)
CashInStep(r) == CreateCashInTransferType(r) \/ UpdateCashInTransferType(r) \/ SetCashInTransferTypeActive(r)
CommissionStep(r) == CreateCommissionRule(r) \/ UpdateCommissionRule(r) \/ SetCommissionRuleActive(r)
UserStep(r) == CreateUser(r) \/ UpdateUser(r) \/ SetUserActive(r) \/ ResetPassword(r)

Commits(r) ==
    \/ AccountStep(r) \/ ProviderStep(r) \/ RuleStep(r) \/ ItemStep(r)
    \/ ServiceStep(r) \/ CashInStep(r) \/ CommissionStep(r) \/ UserStep(r)

CounterStep ==
    \/ \E a \in Accounts : \/ \E n \in Steps : Post(a, n)
                           \/ OpenDrawer(a) \/ CloseDrawer(a) \/ Expect(a) \/ Withdraw(a)
                           \/ \E b \in Accounts : Receive(a, b)
    \/ \E k \in DOMAIN rows : TakeBack(k) \/ \E n \in Steps \cup {0} : Edit(k, n)

\* A step is one of a call, or of the counter.
LEMMA StepIs ==
  ASSUME Next, load \in Loads
  PROVE  \/ \E r \in Requests : Begin(r) \/ Abort(r) \/ Commits(r)
         \/ Moving /\ (CounterStep \/ EndDay)
<1>0. load.accounts \subseteq Accounts BY OfficeAssumption
<1>1. ASSUME NEW r \in Requests,
             \/ SetAepsProviderCommissionRules(r) \/ SetMicroAtmProviderCommissionRules(r) \/ SetPayoutChargeRules(r)
      PROVE  RuleStep(r)
  BY <1>1 DEF RuleStep, SetAepsProviderCommissionRules, SetMicroAtmProviderCommissionRules, SetPayoutChargeRules, Charges
<1>2. ASSUME NEW r \in Requests,
             \/ CreateCustomerType(r) \/ UpdateCustomerType(r) \/ SetCustomerTypeActive(r)
             \/ CreatePaymentTerm(r) \/ UpdatePaymentTerm(r) \/ SetPaymentTermActive(r)
             \/ CreateCardNetwork(r) \/ SetCardNetworkActive(r)
             \/ CreateExpenseCategory(r) \/ UpdateExpenseCategory(r) \/ SetExpenseCategoryActive(r)
             \/ AddGateway(r) \/ UpdateGateway(r) \/ SetGatewayActive(r)
      PROVE  ItemStep(r)
  BY <1>2 DEF ItemStep, ItemKinds, CreateCustomerType, UpdateCustomerType, SetCustomerTypeActive,
     CreatePaymentTerm, UpdatePaymentTerm, SetPaymentTermActive, CreateCardNetwork, SetCardNetworkActive,
     CreateExpenseCategory, UpdateExpenseCategory, SetExpenseCategoryActive, AddGateway, UpdateGateway, SetGatewayActive
<1>3. ASSUME NEW a \in load.accounts,
             \/ \E n \in Steps : Moving /\ Post(a, n)
             \/ Moving /\ OpenDrawer(a)
             \/ Moving /\ CloseDrawer(a)
             \/ Moving /\ Expect(a)
             \/ \E b \in load.accounts : Moving /\ Receive(a, b)
             \/ Moving /\ Withdraw(a)
      PROVE  Moving /\ CounterStep
  BY <1>0, <1>3 DEF CounterStep
<1>4. CASE \E r \in Requests :
         \/ Begin(r) \/ Abort(r)
         \/ CreateAccount(r) \/ SetOpeningBalance(r) \/ UpdateAccount(r) \/ SetAccountActive(r) \/ Reconcile(r)
         \/ CreateProvider(r) \/ UpdateProvider(r) \/ SetProviderActive(r)
         \/ SetAepsProviderCommissionRules(r) \/ SetMicroAtmProviderCommissionRules(r) \/ SetPayoutChargeRules(r)
         \/ CreateCustomerType(r) \/ UpdateCustomerType(r) \/ SetCustomerTypeActive(r)
         \/ CreatePaymentTerm(r) \/ UpdatePaymentTerm(r) \/ SetPaymentTermActive(r)
         \/ CreateCardNetwork(r) \/ SetCardNetworkActive(r)
         \/ CreateExpenseCategory(r) \/ UpdateExpenseCategory(r) \/ SetExpenseCategoryActive(r)
         \/ AddGateway(r) \/ UpdateGateway(r) \/ SetGatewayActive(r)
         \/ CreateService(r) \/ UpdateService(r) \/ SetServiceActive(r)
         \/ CreateCashInTransferType(r) \/ UpdateCashInTransferType(r) \/ SetCashInTransferTypeActive(r)
         \/ CreateCommissionRule(r) \/ UpdateCommissionRule(r) \/ SetCommissionRuleActive(r)
         \/ CreateUser(r) \/ UpdateUser(r) \/ SetUserActive(r) \/ ResetPassword(r)
  BY <1>1, <1>2, <1>4 DEF Commits, AccountStep, ProviderStep, ServiceStep, CashInStep, CommissionStep, UserStep
<1>5. CASE \E a \in load.accounts :
         \/ \E n \in Steps : Moving /\ Post(a, n)
         \/ Moving /\ OpenDrawer(a)
         \/ Moving /\ CloseDrawer(a)
         \/ Moving /\ Expect(a)
         \/ \E b \in load.accounts : Moving /\ Receive(a, b)
         \/ Moving /\ Withdraw(a)
  BY <1>3, <1>5
<1>6. CASE \E k \in DOMAIN rows :
         \/ Moving /\ TakeBack(k)
         \/ \E n \in Steps \cup {0} : Moving /\ Edit(k, n)
  BY <1>6 DEF CounterStep
<1> QED BY <1>4, <1>5, <1>6 DEF Next

\* A transaction of a call answers it, and leaves the bounds alone.
LEMMA CommitAnswers ==
  ASSUME NEW r \in Requests, Commits(r)
  PROVE  /\ call[r].op \notin {"waiting", "answered"}
         /\ call' = [call EXCEPT ![r] = Answered] /\ UNCHANGED boundVars
<1>1. CASE AccountStep(r)
  BY <1>1 DEF AccountStep, CreateAccount, SetOpeningBalance, UpdateAccount, SetAccountActive, Reconcile, Committing
<1>2. CASE ProviderStep(r) BY <1>2 DEF ProviderStep, CreateProvider, UpdateProvider, SetProviderActive, Committing
<1>3. CASE RuleStep(r) BY <1>3 DEF RuleStep, SetRules, Committing, Charges
<1>4. CASE ItemStep(r) BY <1>4 DEF ItemStep, CreateItem, UpdateItem, SetItemActive, Committing
<1>5. CASE ServiceStep(r) BY <1>5 DEF ServiceStep, CreateService, UpdateService, SetServiceActive, Committing
<1>6. CASE CashInStep(r)
  BY <1>6 DEF CashInStep, CreateCashInTransferType, UpdateCashInTransferType, SetCashInTransferTypeActive, Committing
<1>7. CASE CommissionStep(r)
  BY <1>7 DEF CommissionStep, CreateCommissionRule, UpdateCommissionRule, SetCommissionRuleActive, Committing
<1>8. CASE UserStep(r) BY <1>8 DEF UserStep, CreateUser, UpdateUser, SetUserActive, ResetPassword, Committing
<1> QED BY <1>1, <1>2, <1>3, <1>4, <1>5, <1>6, <1>7, <1>8 DEF Commits

---------------------------------------------------------------------------
(* Types.  Rows keep their columns, and none goes away.                    *)

AccountsGrow == \A a \in Accounts : Exists(a) => account'[a].type = account[a].type
SettingsGrow ==
    /\ Present \subseteq Present' /\ Known \subseteq Known'
    /\ \A i \in Items : item[i] # NoItem => item'[i] # NoItem
    /\ service # NoService => service' # NoService
    /\ cashIn # NoCashIn => cashIn' # NoCashIn
    /\ DOMAIN commission \subseteq DOMAIN commission'

\* So what a call names stays there.
LEMMA FitsStays ==
  ASSUME NEW c, Fits(c), AccountsGrow, SettingsGrow
  PROVE  Fits(c)'
<1>1. c.op \in {"setOpening", "updateAccount", "setAccountActive", "reconcile"} => c.id \in Accounts /\ Exists(c.id)'
  BY DEF Fits, AccountsGrow, Exists
<1>2. c.op = "reconcile" => FeeSupported(c.id, c.target - c.expected, c.fee)'
  BY DEF Fits, AccountsGrow, FeeSupported, Liability
<1>3. c.op \in {"updateItem", "setItemActive"} => c.id \in Kept(c.kind)' BY DEF Fits, SettingsGrow, Kept
<1>4. /\ c.op \in {"updateProvider", "setProviderActive"} \cup Charges => c.id \in Present'
      /\ c.op \in {"updateUser", "setUserActive", "resetPassword"} => c.id \in Known'
      /\ c.op \in {"updateService", "setServiceActive"} => service' # NoService
      /\ c.op \in {"updateCashIn", "setCashInActive"} => cashIn' # NoCashIn
      /\ c.op \in {"updateCommissionRule", "setCommissionRuleActive"} => c.id \in DOMAIN commission'
  BY DEF Fits, SettingsGrow
<1> QED BY <1>1, <1>2, <1>3, <1>4 DEF Fits

\* A row that is written has its new columns, and the others are left alone.
LEMMA WrittenIs ==
  ASSUME account \in [Accounts -> AccountRow], NEW a \in Accounts, NEW row \in AccountRow
  PROVE  /\ Written(a, row) \in [Accounts -> AccountRow]
         /\ \A b \in Accounts \ {a} : Written(a, row)[b] = account[b]
         /\ \A f \in {"type", "name", "ledgerName", "opening", "active"} : Written(a, row)[a][f] = row[f]
<1> DEFINE new == [row EXCEPT !.version = @ + 1]
<1>1. /\ new \in AccountRow /\ new.type = row.type /\ new.name = row.name /\ new.ledgerName = row.ledgerName
      /\ new.opening = row.opening /\ new.active = row.active
  BY DEF AccountRow
<1>2. Written(a, row) = [account EXCEPT ![a] = new] BY DEF Written
<1> HIDE DEF new
<1> QED BY <1>1, <1>2

\* Names of accounts: typed ones and those of wallets.
LEMMA NamesAre ==
  /\ \A n \in Names \cup Accounts : Typed(n) \in AccountNames
  /\ \A n \in Names \cup Providers : Wallet(n) \in AccountNames
BY DEF Typed, Wallet, AccountNames

\* A new row of an account.
LEMMA NewAccountIs ==
  ASSUME NEW type \in Types, NEW name \in AccountNames, NEW opening \in Nat
  PROVE  /\ NewAccount(type, name, opening) \in AccountRow
         /\ NewAccount(type, name, opening).type = type /\ NewAccount(type, name, opening).name = name
         /\ NewAccount(type, name, opening).ledgerName = name /\ NewAccount(type, name, opening).active
         /\ NewAccount(type, name, opening).opening = opening
         /\ NoAccount \in AccountRow /\ NoAccount.type = "NONE" /\ ~NoAccount.active /\ type # "NONE"
BY DEF NewAccount, NoAccount, AccountRow, AccountNames, Types

\* What a posting makes of the books.
LEMMA PostedIs ==
  ASSUME entries \in [Accounts -> [net : Int, count : Nat]], NEW a \in Accounts, NEW n \in Int
  PROVE  /\ Posted(a, n) \in [Accounts -> [net : Int, count : Nat]]
         /\ Posted(a, n)[a].net = entries[a].net + n /\ Posted(a, n)[a].count = entries[a].count + 1
         /\ \A b \in Accounts \ {a} : Posted(a, n)[b] = entries[b]
<1> DEFINE new == [net |-> entries[a].net + n, count |-> entries[a].count + 1]
<1>1. new \in [net : Int, count : Nat] OBVIOUS
<1>2. Posted(a, n) = [entries EXCEPT ![a] = new] BY DEF Posted
<1> QED BY <1>1, <1>2

\* Rows stay what they are while nothing is posted, received or expected.
LEMMA RowsStay ==
  ASSUME RowsOK, AccountsGrow, UNCHANGED <<entries, due, rows>>, since' \in [Accounts -> History]
  PROVE  RowsOK'
<1>1. \A a \in Accounts : Destination(a) => Destination(a)' BY DEF AccountsGrow, Destination, Exists
<1> QED BY <1>1 DEF RowsOK, Live

\* They are finitely many.
LEMMA LiveIs ==
  ASSUME rows \in Seq(Posting), NEW a
  PROVE  IsFiniteSet(Live(a)) /\ Cardinality(Live(a)) \in Nat
<1>1. IsFiniteSet(1 .. Len(rows)) BY FS_Interval
<1>2. Live(a) \subseteq 1 .. Len(rows) BY DEF Live
<1> QED BY <1>1, <1>2, FS_Subset, FS_CardinalityType

\* A row more, of an account that is posted to.
LEMMA RowAdded ==
  ASSUME AccountsOK, RowsOK, AccountsGrow, NEW a \in Accounts, NEW n \in Int, NEW row \in Posting,
         row.account = a, row.kind = "receipt" => row.for \in Accounts /\ Destination(row.for),
         entries' = Posted(a, n), rows' = Append(rows, row), UNCHANGED since,
         \A b \in Accounts : due'[b] > 0 => due[b] > 0
  PROVE  RowsOK'
<1>1. \A b \in Accounts : Destination(b) => Destination(b)' BY DEF AccountsGrow, Destination, Exists
<1>2. entries \in [Accounts -> [net : Int, count : Nat]] BY DEF AccountsOK
<1>3. /\ \A b \in Accounts \ {a} : entries'[b] = entries[b]
      /\ entries'[a].count = entries[a].count + 1 /\ entries[a].count \in Nat
  BY <1>2, PostedIs
<1>4. /\ rows' \in Seq(Posting) /\ DOMAIN rows' = DOMAIN rows \cup {Len(rows) + 1}
      /\ \A k \in DOMAIN rows : rows'[k] = rows[k] /\ rows[k].account \in Accounts
      /\ rows'[Len(rows) + 1] = row
  <2>1. rows \in Seq(Posting) BY DEF RowsOK
  <2>2. /\ rows' \in Seq(Posting) /\ Len(rows') = Len(rows) + 1 /\ rows'[Len(rows) + 1] = row
        /\ \A k \in 1 .. Len(rows) : rows'[k] = rows[k]
    BY <2>1, AppendProperties
  <2>3. DOMAIN rows = 1 .. Len(rows) /\ DOMAIN rows' = 1 .. Len(rows') /\ Len(rows) \in Nat BY <2>1, <2>2
  <2>4. \A k \in DOMAIN rows : rows[k] \in Posting BY <2>1
  <2> QED BY <2>2, <2>3, <2>4 DEF Posting
<1>5. /\ IsFiniteSet(Live(a)) /\ Cardinality(Live(a)) \in Nat
      /\ \A b \in Accounts : Cardinality(Live(b)) <= entries[b].count
  BY LiveIs DEF RowsOK
<1>6. ASSUME NEW b \in Accounts PROVE Cardinality(Live(b)') <= entries'[b].count
  <2>1. CASE b # a
    <3>1. Live(b)' = Live(b) BY <1>4, <2>1 DEF Live
    <3> QED BY <1>3, <1>5, <2>1, <3>1
  <2>2. CASE b = a
    <3> DEFINE more == Live(a) \cup {Len(rows) + 1}
    <3>1. Live(a)' \subseteq more BY <1>4 DEF Live
    <3>2. IsFiniteSet(more) /\ Cardinality(more) <= Cardinality(Live(a)) + 1 /\ Cardinality(more) \in Nat
      <4>1. /\ IsFiniteSet(more)
            /\ Cardinality(more) = IF Len(rows) + 1 \in Live(a) THEN Cardinality(Live(a)) ELSE Cardinality(Live(a)) + 1
        BY <1>5, FS_AddElement
      <4> QED BY <1>5, <4>1
    <3> HIDE DEF more
    <3>3. Cardinality(Live(a)') <= Cardinality(more) /\ Cardinality(Live(a)') \in Nat
      BY <3>1, <3>2, FS_Subset, FS_CardinalityType
    <3> QED BY <1>3, <1>5, <2>2, <3>2, <3>3
  <2> QED BY <2>1, <2>2
<1>7. ASSUME NEW k \in DOMAIN rows', rows'[k].kind = "receipt"
      PROVE  (rows[k].for \in Accounts /\ Destination(rows[k].for))'
  <2>1. PICK b : b = rows'[k].for OBVIOUS
  <2>2. b \in Accounts /\ Destination(b) BY <1>4, <1>7, <2>1 DEF RowsOK
  <2>3. Destination(b)' BY <1>1, <2>2
  <2> QED BY <2>1, <2>2, <2>3 DEF Destination
<1> QED BY <1>1, <1>4, <1>6, <1>7 DEF RowsOK

(* A correction moves its account and what the history says of it alike,   *)
(* and may put a settlement back on its way.                               *)
Corrected(a, x) ==
    /\ Correctable(a, x) /\ entries[a].count > 0
    /\ entries' \in [Accounts -> [net : Int, count : Nat]] /\ entries'[a].net = entries[a].net + x
    /\ \A b \in Accounts \ {a} : entries'[b] = entries[b]
    /\ books' \in [charge : Int, adjustment : Int, other : Int]
    /\ due' \in [Accounts -> Nat] /\ since' \in [Accounts -> History]
    /\ \A b \in Accounts :
         /\ since'[b].corrected = since[b].corrected + (IF b = a THEN Change(a, x) ELSE 0)
         /\ \/ due'[b] = due[b] /\ since'[b].reopened = since[b].reopened
            \/ Destination(b) /\ due'[b] = due[b] + 1 /\ since'[b].reopened = since[b].reopened + 1
    /\ \E k \in Live(a), d \in Int : /\ rows' = [rows EXCEPT ![k].debit = d]
                                     /\ entries'[a].count >= entries[a].count - (IF d = 0 THEN 1 ELSE 0)
    /\ UNCHANGED <<account, sessions, closing>>

\* Reversals and edits are corrections.
LEMMA CorrectedIs ==
  ASSUME AccountsOK, RowsOK, NEW k \in DOMAIN rows, TakeBack(k) \/ \E n \in Steps \cup {0} : Edit(k, n)
  PROVE  \E a \in Accounts, x \in Int : Corrected(a, x)
<1>r. rows[k] \in Posting BY DEF RowsOK
<1>p. PICK a \in Accounts, debit \in Int : a = rows[k].account /\ debit = rows[k].debit BY <1>r DEF Posting
<1>0. /\ entries \in [Accounts -> [net : Int, count : Nat]] /\ due \in [Accounts -> Nat]
      /\ since \in [Accounts -> History] /\ books \in [charge : Int, adjustment : Int, other : Int]
      /\ rows[k].kind = "receipt" => rows[k].for \in Accounts /\ Destination(rows[k].for)
  BY <1>p DEF AccountsOK, RowsOK
<1>l. k \in Live(a) BY <1>p DEF Live, TakeBack, Edit
<1>h. \A b \in Accounts : /\ entries[b].net \in Int /\ entries[b].count \in Nat
                          /\ since[b].corrected \in Int /\ since[b].reopened \in Nat
  BY <1>0 DEF History
<1>m. entries[a].count > 0
  <2>1. IsFiniteSet(Live(a)) /\ Cardinality(Live(a)) \in Nat BY LiveIs DEF RowsOK
  <2>2. Cardinality(Live(a)) # 0 BY <1>l, <2>1, FS_EmptySet
  <2>3. Cardinality(Live(a)) <= entries[a].count BY DEF RowsOK
  <2> QED BY <1>h, <2>1, <2>2, <2>3
<1>c. \A x \in Int : Change(a, x) \in Int BY DEF Change
<1>1. CASE TakeBack(k)
  <2>0. PICK x \in Int : x = -debit OBVIOUS
  <2>1. /\ Correctable(a, x) /\ entries' = Posted(a, x) /\ rows' = [rows EXCEPT ![k].debit = 0]
        /\ books' = [books EXCEPT !.other = @ + debit] /\ UNCHANGED <<account, sessions, closing>>
        /\ due' = IF rows[k].kind = "receipt" THEN [due EXCEPT ![rows[k].for] = @ + 1] ELSE due
        /\ since' = [b \in Accounts |->
                       [corrected |-> since[b].corrected + (IF b = a THEN Change(a, x) ELSE 0),
                        reopened  |-> since[b].reopened + (IF rows[k].kind = "receipt" /\ b = rows[k].for THEN 1 ELSE 0)]]
    BY <1>1, <1>p, <2>0 DEF TakeBack
  <2>2. /\ entries' \in [Accounts -> [net : Int, count : Nat]]
        /\ entries'[a].net = entries[a].net + x /\ entries'[a].count >= entries[a].count
        /\ \A b \in Accounts \ {a} : entries'[b] = entries[b]
    <3>1. entries' = Posted(a, x) BY <2>1
    <3>2. /\ entries' \in [Accounts -> [net : Int, count : Nat]] /\ entries'[a].net = entries[a].net + x
          /\ entries'[a].count = entries[a].count + 1 /\ \A b \in Accounts \ {a} : entries'[b] = entries[b]
      BY <1>0, <3>1, PostedIs
    <3> QED BY <1>h, <3>2
  <2>3. books' \in [charge : Int, adjustment : Int, other : Int] BY <1>0, <2>1
  <2>4. due' \in [Accounts -> Nat] BY <1>0, <2>1
  <2>5. since' \in [Accounts -> History] BY <1>h, <1>c, <2>1 DEF History
  <2>6. ASSUME NEW b \in Accounts
        PROVE  /\ since'[b].corrected = since[b].corrected + (IF b = a THEN Change(a, x) ELSE 0)
               /\ \/ due'[b] = due[b] /\ since'[b].reopened = since[b].reopened
                  \/ Destination(b) /\ due'[b] = due[b] + 1 /\ since'[b].reopened = since[b].reopened + 1
    <3>1. CASE rows[k].kind = "receipt" /\ b = rows[k].for BY <1>0, <1>h, <1>c, <2>1, <3>1
    <3>2. CASE ~(rows[k].kind = "receipt" /\ b = rows[k].for)
      <4>1. due'[b] = due[b] BY <1>0, <2>1, <3>2
      <4> QED BY <1>h, <2>1, <3>2, <4>1
    <3> QED BY <3>1, <3>2
  <2>7. \E i \in Live(a), d \in Int : /\ rows' = [rows EXCEPT ![i].debit = d]
                                      /\ entries'[a].count >= entries[a].count - (IF d = 0 THEN 1 ELSE 0)
    <3>1. PICK d \in Int : d = 0 OBVIOUS
    <3>2. rows' = [rows EXCEPT ![k].debit = d] BY <2>1, <3>1
    <3>3. entries'[a].count >= entries[a].count - (IF d = 0 THEN 1 ELSE 0) BY <1>h, <2>2, <3>1
    <3> QED BY <1>l, <3>2, <3>3
  <2>8. Corrected(a, x) BY <1>0, <1>m, <2>1, <2>2, <2>3, <2>4, <2>5, <2>6, <2>7 DEF Corrected
  <2> QED BY <2>8
<1>2. ASSUME NEW n \in Steps \cup {0}, Edit(k, n) PROVE \E b \in Accounts, x \in Int : Corrected(b, x)
  <2>n. n \in Int BY DEF Steps
  <2>0. PICK x \in Int : x = n - debit BY <2>n
  <2>1. /\ Correctable(a, x) /\ rows' = [rows EXCEPT ![k].debit = n]
        /\ \E gone \in IF n = 0 THEN {0, 1} ELSE {0} :
             entries' = [entries EXCEPT ![a] = [net |-> @.net + x, count |-> @.count - gone]]
        /\ books' = [books EXCEPT !.other = @ - x] /\ UNCHANGED <<account, sessions, due, closing>>
        /\ since' = [since EXCEPT ![a] = [corrected |-> @.corrected + Change(a, x), reopened |-> @.reopened]]
    BY <1>2, <1>p, <2>0 DEF Edit
  <2>x. Change(a, x) \in Int BY <1>c
  <2>2. /\ entries' \in [Accounts -> [net : Int, count : Nat]] /\ entries'[a].net = entries[a].net + x
        /\ entries'[a].count >= entries[a].count - (IF n = 0 THEN 1 ELSE 0)
        /\ \A b \in Accounts \ {a} : entries'[b] = entries[b]
    <3>1. PICK gone \in IF n = 0 THEN {0, 1} ELSE {0} :
            entries' = [entries EXCEPT ![a] = [net |-> @.net + x, count |-> @.count - gone]]
      BY <2>1
    <3> DEFINE new == [net |-> entries[a].net + x, count |-> entries[a].count - gone]
    <3>2. new \in [net : Int, count : Nat] BY <1>h, <1>m, <3>1
    <3>3. entries' = [entries EXCEPT ![a] = new] BY <3>1
    <3>4. new.net = entries[a].net + x /\ new.count >= entries[a].count - (IF n = 0 THEN 1 ELSE 0) BY <1>h, <3>1
    <3> HIDE DEF new
    <3> QED BY <1>0, <3>2, <3>3, <3>4
  <2>3. books' \in [charge : Int, adjustment : Int, other : Int] BY <1>0, <1>h, <2>1, <2>x
  <2>4. since' \in [Accounts -> History] BY <1>0, <1>h, <2>1, <2>x DEF History
  <2>5. \A b \in Accounts : /\ since'[b].corrected = since[b].corrected + (IF b = a THEN Change(a, x) ELSE 0)
                            /\ due'[b] = due[b] /\ since'[b].reopened = since[b].reopened
    BY <1>0, <1>h, <2>1, <2>x
  <2>6. \E i \in Live(a), d \in Int : /\ rows' = [rows EXCEPT ![i].debit = d]
                                      /\ entries'[a].count >= entries[a].count - (IF d = 0 THEN 1 ELSE 0)
    BY <1>l, <2>n, <2>1, <2>2
  <2>7. due' \in [Accounts -> Nat] /\ UNCHANGED <<account, sessions, closing>> BY <1>0, <2>1
  <2>8. Corrected(a, x) BY <1>0, <1>m, <2>1, <2>2, <2>3, <2>4, <2>5, <2>6, <2>7 DEF Corrected
  <2> QED BY <2>8
<1> QED BY <1>1, <1>2

\* The row that is corrected stays a row of its account.
LEMMA CorrectedKeeps ==
  ASSUME AccountsOK, RowsOK, NEW a \in Accounts, NEW x \in Int, Corrected(a, x)
  PROVE  AccountsOK' /\ RowsOK'
<1>1. AccountsOK' BY DEF Corrected, AccountsOK, Exists
<1>2. PICK k \in Live(a), d \in Int : /\ rows' = [rows EXCEPT ![k].debit = d]
                                      /\ entries'[a].count >= entries[a].count - (IF d = 0 THEN 1 ELSE 0)
  BY DEF Corrected
<1>k. k \in DOMAIN rows /\ rows[k].account = a BY DEF Live
<1>3. /\ rows \in Seq(Posting) /\ \A i \in DOMAIN rows : rows[i] \in Posting BY DEF RowsOK
<1> DEFINE row == [rows[k] EXCEPT !.debit = d]
<1>4. /\ row \in Posting /\ row.account = rows[k].account /\ row.kind = rows[k].kind /\ row.for = rows[k].for
      /\ rows' = [rows EXCEPT ![k] = row]
  BY <1>2, <1>3, <1>k DEF Posting
<1>d. row.debit = d BY <1>3, <1>k DEF Posting
<1> HIDE DEF row
<1>5. rows' \in Seq(Posting) BY <1>3, <1>4, <1>k
<1>6. \A i \in DOMAIN rows' : /\ i \in DOMAIN rows /\ rows'[i].account = rows[i].account /\ rows'[i].account \in Accounts
                               /\ rows'[i].kind = rows[i].kind /\ rows'[i].for = rows[i].for
  BY <1>3, <1>4, <1>k DEF Posting
<1>7. /\ \A b \in Accounts \ {a} : entries'[b] = entries[b]
      /\ \A b \in Accounts : /\ due'[b] = due[b] \/ Destination(b)
                             /\ entries[b].count \in Nat /\ entries'[b].count \in Nat
      /\ UNCHANGED account /\ since' \in [Accounts -> History]
  BY DEF Corrected, AccountsOK
<1>8. ASSUME NEW b \in Accounts PROVE Cardinality(Live(b)') <= entries'[b].count
  <2>1. \A i \in DOMAIN rows : IF i = k THEN rows'[i].debit = d ELSE rows'[i] = rows[i] BY <1>3, <1>4, <1>d
  <2>2. DOMAIN rows' = DOMAIN rows BY <1>4
  <2>3. IsFiniteSet(Live(b)) /\ Cardinality(Live(b)) \in Nat /\ Cardinality(Live(b)) <= entries[b].count
    BY <1>3, LiveIs DEF RowsOK
  <2>4. CASE b # a
    <3>1. Live(b)' = Live(b) BY <1>6, <1>k, <2>1, <2>2, <2>4 DEF Live
    <3> QED BY <1>7, <2>3, <2>4, <3>1
  <2>5. CASE b = a /\ d # 0
    <3>1. Live(b)' \subseteq Live(b) BY <1>2, <1>6, <2>1, <2>2, <2>5 DEF Live
    <3>2. Cardinality(Live(b)') \in Nat /\ Cardinality(Live(b)') <= Cardinality(Live(b))
      BY <2>3, <3>1, FS_Subset, FS_CardinalityType
    <3> QED BY <1>2, <1>7, <2>3, <2>5, <3>2
  <2>6. CASE b = a /\ d = 0
    <3>1. Live(b)' = Live(b) \ {k} BY <1>6, <1>k, <2>1, <2>2, <2>6 DEF Live
    <3>2. Cardinality(Live(b)') = Cardinality(Live(b)) - 1 BY <1>2, <2>3, <2>6, <3>1, FS_RemoveElement
    <3> QED BY <1>2, <1>7, <2>3, <2>6, <3>2
  <2> QED BY <2>4, <2>5, <2>6
<1>9. \A b \in Accounts : due'[b] > 0 => Destination(b)' BY <1>7 DEF Destination, RowsOK
<1>11. ASSUME NEW i \in DOMAIN rows', rows'[i].kind = "receipt"
       PROVE  (rows[i].for \in Accounts /\ Destination(rows[i].for))'
  BY <1>6, <1>7, <1>11 DEF RowsOK, Destination
<1>12. RowsOK' BY <1>5, <1>7, <1>8, <1>9, <1>11 DEF RowsOK
<1> QED BY <1>1, <1>12

(* An account is written, and posted to. *)
AccountWritten(a) ==
    /\ account' \in [Accounts -> AccountRow]
    /\ \A b \in Accounts \ {a} : account'[b] = account[b] /\ entries'[b] = entries[b]
    /\ entries' \in [Accounts -> [net : Int, count : Nat]]
    /\ books' \in [charge : Int, adjustment : Int, other : Int]
    /\ IF Exists(a) THEN account'[a].type = account[a].type
       ELSE a \notin WalletAccounts /\ account'[a].type \in Types \ {"PROVIDER_WALLET"}
    /\ account[a].ledgerName = account[a].name => account'[a].ledgerName = account'[a].name
    /\ a \in WalletAccounts => account'[a].name = account[a].name
    /\ UNCHANGED <<sessions, due, closing, settingVars>>

\* Each transaction on accounts writes one row, or makes one, and posts to it at most.
LEMMA AccountStepWrites ==
  ASSUME AccountsOK, NEW r \in Requests, Fits(call[r]), AccountStep(r)
  PROVE  \E a \in Accounts : AccountWritten(a)
<1> DEFINE c == call[r]
<1>0. /\ account \in [Accounts -> AccountRow] /\ entries \in [Accounts -> [net : Int, count : Nat]]
      /\ books \in [charge : Int, adjustment : Int, other : Int]
  BY DEF AccountsOK
<1>1. CASE CreateAccount(r)
  <2>1. PICK a \in (Accounts \ WalletAccounts) \ Own :
          account' = [account EXCEPT ![a] = NewAccount(c.type, Typed(c.name), c.opening)]
    BY <1>1 DEF CreateAccount
  <2>2. /\ c.name \in Names /\ c.type \in Types \ {"PROVIDER_WALLET"} /\ c.opening \in Nat
        /\ UNCHANGED <<entries, books, sessions, due, closing, settingVars>>
    BY <1>1 DEF CreateAccount, Committing, Fits
  <2> DEFINE new == NewAccount(c.type, Typed(c.name), c.opening)
  <2>3. new \in AccountRow /\ new.type = c.type /\ new.name = new.ledgerName
    BY <2>2, NewAccountIs, NamesAre
  <2>4. ~Exists(a) /\ a \in Accounts /\ a \notin WalletAccounts BY DEF Own
  <2> HIDE DEF new
  <2>5. account' = [account EXCEPT ![a] = new] BY <2>1 DEF new
  <2>6. AccountWritten(a) BY <1>0, <2>2, <2>3, <2>4, <2>5 DEF AccountWritten
  <2> QED BY <2>4, <2>6
<1>2. CASE SetOpeningBalance(r)
  <2>1. /\ c.id \in Accounts /\ Exists(c.id) /\ c.opening \in Nat
        /\ account' = Written(c.id, [account[c.id] EXCEPT !.opening = c.opening])
        /\ UNCHANGED <<entries, books, sessions, due, closing, settingVars>>
    BY <1>2 DEF SetOpeningBalance, Committing, Fits
  <2>0. account[c.id] \in AccountRow BY <1>0, <2>1
  <2> DEFINE row == [account[c.id] EXCEPT !.opening = c.opening]
  <2>2. row \in AccountRow /\ row.type = account[c.id].type /\ row.name = account[c.id].name
        /\ row.ledgerName = account[c.id].ledgerName
    BY <2>0, <2>1 DEF AccountRow
  <2> HIDE DEF row
  <2>3. account' = Written(c.id, row) BY <2>1 DEF row
  <2>4. /\ Written(c.id, row) \in [Accounts -> AccountRow]
        /\ \A b \in Accounts \ {c.id} : Written(c.id, row)[b] = account[b]
        /\ \A f \in {"type", "name", "ledgerName"} : Written(c.id, row)[c.id][f] = row[f]
    BY <1>0, <2>1, <2>2, WrittenIs
  <2>5. AccountWritten(c.id) BY <1>0, <2>1, <2>2, <2>3, <2>4 DEF AccountWritten
  <2> QED BY <2>1, <2>5
<1>3. CASE UpdateAccount(r)
  <2>1. /\ c.id \in Accounts /\ Exists(c.id) /\ c.id \notin WalletAccounts /\ c.name \in Names
        /\ account' = Written(c.id, Renamed(account[c.id], Typed(c.name)))
        /\ UNCHANGED <<entries, books, sessions, due, closing, settingVars>>
    BY <1>3 DEF UpdateAccount, Committing, Fits
  <2>0. account[c.id] \in AccountRow BY <1>0, <2>1
  <2> DEFINE row == Renamed(account[c.id], Typed(c.name))
  <2>2. row \in AccountRow /\ row.type = account[c.id].type /\ row.name = row.ledgerName
    BY <2>0, <2>1, NamesAre DEF AccountRow, Renamed
  <2> HIDE DEF row
  <2>3. account' = Written(c.id, row) BY <2>1 DEF row
  <2>4. /\ Written(c.id, row) \in [Accounts -> AccountRow]
        /\ \A b \in Accounts \ {c.id} : Written(c.id, row)[b] = account[b]
        /\ \A f \in {"type", "name", "ledgerName"} : Written(c.id, row)[c.id][f] = row[f]
    BY <1>0, <2>1, <2>2, WrittenIs
  <2>5. AccountWritten(c.id) BY <1>0, <2>1, <2>2, <2>3, <2>4 DEF AccountWritten
  <2> QED BY <2>1, <2>5
<1>4. CASE SetAccountActive(r)
  <2>1. /\ c.id \in Accounts /\ Exists(c.id) /\ c.active \in BOOLEAN
        /\ account' = Written(c.id, [account[c.id] EXCEPT !.active = c.active])
        /\ UNCHANGED <<entries, books, sessions, due, closing, settingVars>>
    BY <1>4 DEF SetAccountActive, Committing, Fits
  <2>0. account[c.id] \in AccountRow BY <1>0, <2>1
  <2> DEFINE row == [account[c.id] EXCEPT !.active = c.active]
  <2>2. row \in AccountRow /\ row.type = account[c.id].type /\ row.name = account[c.id].name
        /\ row.ledgerName = account[c.id].ledgerName
    BY <2>0, <2>1 DEF AccountRow
  <2> HIDE DEF row
  <2>3. account' = Written(c.id, row) BY <2>1 DEF row
  <2>4. /\ Written(c.id, row) \in [Accounts -> AccountRow]
        /\ \A b \in Accounts \ {c.id} : Written(c.id, row)[b] = account[b]
        /\ \A f \in {"type", "name", "ledgerName"} : Written(c.id, row)[c.id][f] = row[f]
    BY <1>0, <2>1, <2>2, WrittenIs
  <2>5. AccountWritten(c.id) BY <1>0, <2>1, <2>2, <2>3, <2>4 DEF AccountWritten
  <2> QED BY <2>1, <2>5
<1>5. CASE Reconcile(r)
  <2> DEFINE j == Journal(c)
  <2>1. /\ c.id \in Accounts /\ Exists(c.id) /\ c.expected \in Nat /\ c.target \in Nat /\ c.fee \in Nat
        /\ account' = Written(c.id, account[c.id])
        /\ entries' = Posted(c.id, j.account)
        /\ books' = [books EXCEPT !.charge = @ + j.charge, !.adjustment = @ + j.adjustment]
        /\ UNCHANGED <<sessions, due, closing, settingVars>>
    BY <1>5 DEF Reconcile, Committing, Fits
  <2>2. j.account \in Int /\ j.charge \in Int /\ j.adjustment \in Int BY <2>1 DEF Journal, Debit
  <2> HIDE DEF j
  <2>p. PICK x \in Int, y \in Int, z \in Int :
          entries' = Posted(c.id, x) /\ books' = [books EXCEPT !.charge = @ + y, !.adjustment = @ + z]
    BY <2>1, <2>2
  <2>3. books' \in [charge : Int, adjustment : Int, other : Int]
    <3>1. books.charge + y \in Int /\ books.adjustment + z \in Int BY <1>0
    <3> DEFINE charge == books.charge + y
               adjustment == books.adjustment + z
    <3>2. books' = [[books EXCEPT !.charge = charge] EXCEPT !.adjustment = adjustment] BY <2>p
    <3> HIDE DEF charge, adjustment
    <3>3. [books EXCEPT !.charge = charge] \in [charge : Int, adjustment : Int, other : Int]
      BY <1>0, <3>1 DEF charge
    <3> QED BY <3>1, <3>2, <3>3 DEF adjustment
  <2>4. account[c.id] \in AccountRow BY <1>0, <2>1
  <2>5. /\ account' \in [Accounts -> AccountRow]
        /\ \A b \in Accounts \ {c.id} : account'[b] = account[b]
        /\ \A f \in {"type", "name", "ledgerName"} : account'[c.id][f] = account[c.id][f]
    BY <1>0, <2>1, <2>4, WrittenIs
  <2>6. entries' \in [Accounts -> [net : Int, count : Nat]] /\ \A b \in Accounts \ {c.id} : entries'[b] = entries[b]
    BY <1>0, <2>1, <2>p, PostedIs
  <2>7. AccountWritten(c.id) BY <2>1, <2>3, <2>5, <2>6 DEF AccountWritten
  <2> QED BY <2>1, <2>7
<1> QED BY <1>1, <1>2, <1>3, <1>4, <1>5 DEF AccountStep

\* So the accounts keep their types.
LEMMA AccountStepKeeps ==
  ASSUME AccountsOK, NEW r \in Requests, Fits(call[r]), AccountStep(r)
  PROVE  AccountsOK' /\ AccountsGrow /\ UNCHANGED settingVars
<1>1. PICK a \in Accounts : AccountWritten(a) BY AccountStepWrites
<1>2. Exists(a)' BY <1>1 DEF AccountWritten, Exists, Types
<1>3. \A b \in Accounts : ~Exists(b)' => closing'[b] = None /\ ~account'[b].active
  BY <1>1, <1>2 DEF AccountWritten, AccountsOK, Exists
<1>4. AccountsGrow BY <1>1 DEF AccountWritten, AccountsGrow
<1>5. \A b \in WalletAccounts : Exists(b)' => account'[b].type = "PROVIDER_WALLET"
  BY <1>1, OfficeAssumption DEF AccountWritten, AccountsOK, Exists, WalletAccounts
<1> QED BY <1>1, <1>3, <1>4, <1>5 DEF AccountWritten, AccountsOK

\* Transactions on accounts keep the rows, and a reconciliation adds one.
LEMMA AccountStepRows ==
  ASSUME AccountsOK, RowsOK, NEW r \in Requests, Fits(call[r]), AccountStep(r)
  PROVE  RowsOK'
<1> DEFINE c == call[r]
<1>0. AccountsGrow /\ since \in [Accounts -> History] BY AccountStepKeeps DEF RowsOK
<1>1. CASE CreateAccount(r) \/ SetOpeningBalance(r) \/ UpdateAccount(r)
  <2>1. UNCHANGED <<entries, due, rows, since>> BY <1>1 DEF CreateAccount, SetOpeningBalance, UpdateAccount
  <2> QED BY <1>0, <2>1, RowsStay
<1>2. CASE SetAccountActive(r)
  <2>1. /\ UNCHANGED <<entries, due, rows>>
        /\ since' = [since EXCEPT ![c.id] = IF c.active = account[c.id].active THEN @ ELSE NothingSince]
    BY <1>2 DEF SetAccountActive
  <2>2. NothingSince \in History BY DEF NothingSince, History
  <2>3. since' \in [Accounts -> History] BY <1>0, <2>1, <2>2
  <2> QED BY <1>0, <2>1, <2>3, RowsStay
<1>3. CASE Reconcile(r)
  <2>1. /\ c.id \in Accounts /\ c.expected \in Nat /\ c.target \in Nat
        /\ entries' = Posted(c.id, Journal(c).account)
        /\ rows' = Append(rows, Row("reconciliation", c.id, Journal(c).account, None))
        /\ UNCHANGED <<due, since>>
    BY <1>3 DEF Reconcile, Committing, Fits
  <2>2. Journal(c).account \in Int BY <2>1 DEF Journal, Debit
  <2> DEFINE row == Row("reconciliation", c.id, Journal(c).account, None)
  <2>3. row \in Posting /\ row.account = c.id /\ row.kind # "receipt" BY <2>1, <2>2 DEF Row, Posting
  <2>4. rows' = Append(rows, row) BY <2>1
  <2> HIDE DEF row, c
  <2> QED BY <1>0, <2>1, <2>2, <2>3, <2>4, RowAdded
<1> QED BY <1>1, <1>2, <1>3 DEF AccountStep

\* The counter posts to accounts that are there, and no row goes away.
LEMMA CounterKeeps ==
  ASSUME AccountsOK, RowsOK, Moving, CounterStep \/ EndDay
  PROVE  AccountsOK' /\ RowsOK' /\ UNCHANGED <<account, settingVars, audit, call, load>>
<1>0. /\ UNCHANGED <<settingVars, audit, call, load>>
      /\ UNCHANGED account => AccountsGrow
      /\ since \in [Accounts -> History] /\ due \in [Accounts -> Nat]
  BY DEF Moving, RowsOK, AccountsOK, AccountsGrow
<1>1. ASSUME NEW a \in Accounts, NEW n \in Steps, Post(a, n) PROVE AccountsOK' /\ RowsOK' /\ UNCHANGED account
  <2>0. entries \in [Accounts -> [net : Int, count : Nat]] /\ n \in Int BY DEF AccountsOK, Steps
  <2>1. entries' \in [Accounts -> [net : Int, count : Nat]] BY <1>1, <2>0, PostedIs DEF Post
  <2>b. books' = [books EXCEPT !.other = @ - n] /\ books \in [charge : Int, adjustment : Int, other : Int]
    BY <1>1 DEF Post, AccountsOK
  <2>2. books' \in [charge : Int, adjustment : Int, other : Int] BY <2>0, <2>b
  <2>3. AccountsOK' BY <1>1, <2>1, <2>2 DEF Post, AccountsOK, Exists
  <2> DEFINE row == Row("entry", a, n, None)
  <2>4. row \in Posting /\ row.account = a /\ row.kind # "receipt" BY <2>0 DEF Row, Posting
  <2>5. rows' = Append(rows, row) /\ entries' = Posted(a, n) /\ UNCHANGED <<account, due, since>> BY <1>1 DEF Post
  <2> HIDE DEF row
  <2>6. RowsOK' BY <1>0, <2>0, <2>4, <2>5, RowAdded
  <2> QED BY <2>3, <2>5, <2>6
<1>2. ASSUME NEW a \in Accounts, OpenDrawer(a) \/ CloseDrawer(a) PROVE AccountsOK' /\ RowsOK' /\ UNCHANGED account
  <2>1. UNCHANGED <<account, entries, due, rows, since>> BY <1>2 DEF OpenDrawer, CloseDrawer
  <2>2. AccountsOK' BY <1>2 DEF OpenDrawer, CloseDrawer, AccountsOK, Exists
  <2> QED BY <1>0, <2>1, <2>2, RowsStay
<1>3. ASSUME NEW a \in Accounts, Expect(a) PROVE AccountsOK' /\ RowsOK' /\ UNCHANGED account
  <2>1. AccountsOK' BY <1>3 DEF Expect, AccountsOK, Exists
  <2>2. RowsOK' BY <1>0, <1>3 DEF Expect, RowsOK, Live, Destination
  <2> QED BY <1>3, <2>1, <2>2 DEF Expect
<1>4. ASSUME NEW a \in Accounts, NEW b \in Accounts, Receive(a, b) PROVE AccountsOK' /\ RowsOK' /\ UNCHANGED account
  <2>0. entries \in [Accounts -> [net : Int, count : Nat]] /\ 1 \in Int BY DEF AccountsOK
  <2>1. entries' \in [Accounts -> [net : Int, count : Nat]] BY <1>4, <2>0, PostedIs DEF Receive
  <2>b. books' = [books EXCEPT !.other = @ - 1] /\ books \in [charge : Int, adjustment : Int, other : Int]
    BY <1>4 DEF Receive, AccountsOK
  <2>2. books' \in [charge : Int, adjustment : Int, other : Int] BY <2>b
  <2>3. due' \in [Accounts -> Nat] /\ \A d \in Accounts : due'[d] > 0 => due[d] > 0 BY <1>0, <1>4 DEF Receive
  <2>4. AccountsOK' BY <1>4, <2>1, <2>2, <2>3 DEF Receive, AccountsOK, Exists
  <2> DEFINE row == Row("receipt", b, 1, a)
  <2>5. row \in Posting /\ row.account = b /\ row.for = a BY DEF Row, Posting
  <2>6. rows' = Append(rows, row) /\ entries' = Posted(b, 1) /\ UNCHANGED <<account, since>> BY <1>4 DEF Receive
  <2>7. Destination(a) BY <1>4 DEF Receive, RowsOK
  <2> HIDE DEF row
  <2>8. RowsOK' BY <1>0, <2>0, <2>3, <2>5, <2>6, <2>7, RowAdded
  <2> QED BY <2>4, <2>6, <2>8
<1>5. ASSUME EndDay PROVE AccountsOK' /\ RowsOK' /\ UNCHANGED account
  <2>1. \A a \in Accounts : entries[a].net \in Int /\ Balance(a) \in Int
    BY DEF AccountsOK, Balance, AccountRow, Liability
  <2>2. \A a \in Accounts : closing'[a] \in {None} \cup [balance : Int, net : Int] BY <1>5, <2>1 DEF EndDay, AccountsOK
  <2>3. closing' \in [Accounts -> {None} \cup [balance : Int, net : Int]] BY <1>5, <2>2 DEF EndDay
  <2>4. \A a \in Accounts : ~Exists(a) => closing'[a] = None BY <1>5 DEF EndDay, AccountsOK
  <2>5. UNCHANGED <<account, entries, due, rows, since>> BY <1>5 DEF EndDay
  <2>6. RowsOK' BY <1>0, <2>5, RowsStay
  <2>7. AccountsOK' BY <1>5, <2>3, <2>4 DEF EndDay, AccountsOK, Exists
  <2> QED BY <2>5, <2>6, <2>7
<1>6. ASSUME NEW a \in Accounts, Withdraw(a) PROVE AccountsOK' /\ RowsOK' /\ UNCHANGED account
  <2>1. due' \in [Accounts -> Nat] /\ \A d \in Accounts : due'[d] > 0 => due[d] > 0 BY <1>0, <1>6 DEF Withdraw
  <2>2. UNCHANGED <<account, entries, books, sessions, closing, rows, since>> BY <1>6 DEF Withdraw
  <2>3. AccountsOK' BY <2>1, <2>2 DEF AccountsOK, Exists
  <2>4. RowsOK' BY <2>1, <2>2 DEF RowsOK, Live, Destination
  <2> QED BY <2>2, <2>3, <2>4
<1>7. ASSUME NEW k \in DOMAIN rows, TakeBack(k) \/ \E n \in Steps \cup {0} : Edit(k, n)
      PROVE  AccountsOK' /\ RowsOK' /\ UNCHANGED account
  <2>1. PICK a \in Accounts, x \in Int : Corrected(a, x) BY <1>7, CorrectedIs
  <2> QED BY <2>1, CorrectedKeeps DEF Corrected
<1> QED BY <1>0, <1>1, <1>2, <1>3, <1>4, <1>5, <1>6, <1>7 DEF CounterStep

(* Providers keep their types, and their wallets. *)
ProvidersKept ==
    /\ provider' \in [Providers -> ProviderRow] /\ Present \subseteq Present' /\ WalletsOK'
    /\ \A p \in Present' : provider'[p].name # None

\* Providers come with their wallets, and wallets follow their names.
LEMMA ProviderStepKeeps ==
  ASSUME AccountsOK, SettingsOK, NEW r \in Requests, Fits(call[r]), WalletsOK, ProviderStep(r)
  PROVE  /\ AccountsOK' /\ AccountsGrow /\ ProvidersKept
         /\ UNCHANGED <<entries, books, sessions, due, closing, rules, clock, item, service, cashIn, commission, user>>
<1> DEFINE c == call[r]
<1>0. /\ account \in [Accounts -> AccountRow] /\ provider \in [Providers -> ProviderRow]
      /\ \A p \in Providers : WalletOf[p] \in Accounts /\ WalletOf[p] \in WalletAccounts
      /\ \A p, q \in Providers : WalletOf[p] = WalletOf[q] => p = q
  BY OfficeAssumption DEF AccountsOK, SettingsOK, WalletAccounts, IsInjective
<1>1. CASE CreateProvider(r)
  <2>1. c.name \in Names BY <1>1 DEF CreateProvider, Committing, Fits
  <2>2. PICK p \in Providers \ Present :
          /\ provider' = [provider EXCEPT ![p] = [name |-> c.name, active |-> TRUE]]
          /\ account' = [account EXCEPT ![WalletOf[p]] = NewAccount("PROVIDER_WALLET", Wallet(c.name), 0)]
    BY <1>1 DEF CreateProvider
  <2> DEFINE new == NewAccount("PROVIDER_WALLET", Wallet(c.name), 0)
             row == [name |-> c.name, active |-> TRUE]
  <2>3. new \in AccountRow /\ new.type = "PROVIDER_WALLET"
    BY <2>1, NewAccountIs, NamesAre DEF Types
  <2>4. row \in ProviderRow /\ row # NoProvider BY <2>1 DEF ProviderRow, NoProvider
  <2>5. UNCHANGED <<entries, books, sessions, due, closing, rules, clock, item, service, cashIn, commission, user>>
    BY <1>1 DEF CreateProvider
  <2> HIDE DEF new, row
  <2>6. account' = [account EXCEPT ![WalletOf[p]] = new] /\ provider' = [provider EXCEPT ![p] = row]
    BY <2>2 DEF new, row
  <2>7. account' \in [Accounts -> AccountRow] BY <1>0, <2>3, <2>6
  <2>w. ~Exists(WalletOf[p]) BY <1>0, <2>2 DEF WalletsOK, AccountsOK
  <2>8. /\ AccountsGrow /\ \A b \in Accounts : ~Exists(b)' => ~Exists(b) /\ account'[b] = account[b]
        /\ \A b \in Accounts \ {WalletOf[p]} : account'[b] = account[b]
        /\ account'[WalletOf[p]].type = "PROVIDER_WALLET"
    BY <1>0, <2>3, <2>6, <2>w DEF AccountsGrow, Exists
  <2>v. \A b \in WalletAccounts : Exists(b)' => account'[b].type = "PROVIDER_WALLET"
    BY <1>0, <2>8, OfficeAssumption DEF AccountsOK, Exists, WalletAccounts
  <2>9. AccountsOK' BY <2>5, <2>7, <2>8, <2>v DEF AccountsOK
  <2>10. /\ provider' \in [Providers -> ProviderRow] /\ Present' = Present \cup {p}
         /\ \A q \in Providers \ {p} : provider'[q] = provider[q]
         /\ provider'[p].name # None
    BY <1>0, <2>1, <2>4, <2>6, OfficeAssumption DEF Present, row
  <2>11. WalletsOK' BY <1>0, <2>8, <2>10 DEF WalletsOK
  <2>n. \A q \in Present' : provider'[q].name # None BY <2>10 DEF SettingsOK, Present
  <2>12. ProvidersKept BY <2>10, <2>11, <2>n DEF ProvidersKept
  <2> QED BY <2>5, <2>8, <2>9, <2>12
<1>2. CASE UpdateProvider(r)
  <2>1. c.name \in Names /\ c.id \in Present /\ c.id \in Providers
    BY <1>2 DEF UpdateProvider, Committing, Fits, Present
  <2> DEFINE w == WalletOf[c.id]
             row == Renamed(account[w], Wallet(c.name))
  <2>2. /\ provider' = [provider EXCEPT ![c.id].name = c.name]
        /\ account' = account \/ account' = Written(w, row)
        /\ UNCHANGED <<entries, books, sessions, due, closing, rules, clock, item, service, cashIn, commission, user>>
    BY <1>2 DEF UpdateProvider
  <2>3. w \in Accounts /\ account[w] \in AccountRow BY <1>0, <2>1
  <2>4. row \in AccountRow /\ row.type = account[w].type /\ row.active = account[w].active
    BY <2>1, <2>3, NamesAre DEF Renamed, AccountRow
  <2> HIDE DEF row, w
  <2>s. /\ Written(w, row) \in [Accounts -> AccountRow]
        /\ \A b \in Accounts \ {w} : Written(w, row)[b] = account[b]
        /\ \A f \in {"type", "active"} : Written(w, row)[w][f] = row[f]
    BY <1>0, <2>3, <2>4, WrittenIs
  <2>5. /\ account' \in [Accounts -> AccountRow]
        /\ \A b \in Accounts : account'[b].type = account[b].type /\ account'[b].active = account[b].active
    BY <1>0, <2>2, <2>4, <2>s
  <2>v. \A b \in WalletAccounts : b \in Accounts BY OfficeAssumption DEF WalletAccounts
  <2>6. AccountsGrow /\ AccountsOK' BY <2>2, <2>5, <2>v DEF AccountsOK, AccountsGrow, Exists
  <2>7. provider' \in [Providers -> ProviderRow] BY <1>0, <2>1, <2>2 DEF ProviderRow
  <2>8. provider'[c.id].name = c.name BY <1>0, <2>1, <2>2 DEF ProviderRow
  <2>9. provider'[c.id] # NoProvider BY <2>1, <2>8, OfficeAssumption DEF NoProvider
  <2>n. \A q \in Providers \ {c.id} : provider'[q] = provider[q] BY <1>0, <2>2
  <2>10. Present = Present' BY <2>1, <2>9, <2>n DEF Present
  <2>11. WalletsOK' BY <1>0, <2>5, <2>10 DEF WalletsOK
  <2>12. \A p \in Present' : provider'[p].name # None
    BY <2>1, <2>8, <2>n, <2>10, OfficeAssumption DEF SettingsOK, Present
  <2> QED BY <2>2, <2>6, <2>7, <2>10, <2>11, <2>12 DEF ProvidersKept
<1>3. CASE SetProviderActive(r)
  <2>1. c.active \in BOOLEAN /\ c.id \in Present /\ c.id \in Providers
    BY <1>3 DEF SetProviderActive, Committing, Fits, Present
  <2>2. /\ provider' = [provider EXCEPT ![c.id].active = c.active]
        /\ UNCHANGED <<accountVars, rules, clock, item, service, cashIn, commission, user>>
    BY <1>3 DEF SetProviderActive
  <2>3. provider' \in [Providers -> ProviderRow] /\ provider'[c.id].name = provider[c.id].name
    BY <1>0, <2>1, <2>2 DEF ProviderRow
  <2>4. provider'[c.id].name # None BY <2>1, <2>3 DEF SettingsOK
  <2>5. provider'[c.id] # NoProvider BY <2>4 DEF NoProvider
  <2>6. \A q \in Providers \ {c.id} : provider'[q] = provider[q] BY <1>0, <2>2
  <2>7. Present = Present' BY <2>1, <2>5, <2>6 DEF Present
  <2>8. \A p \in Present' : provider'[p].name # None BY <2>1, <2>4, <2>6, <2>7 DEF SettingsOK, Present
  <2>9. AccountsOK' /\ AccountsGrow /\ WalletsOK'
    BY <2>2, <2>7 DEF AccountsOK, AccountsGrow, WalletsOK, accountVars, Exists
  <2> QED BY <2>2, <2>3, <2>7, <2>8, <2>9 DEF ProvidersKept, accountVars
<1> QED BY <1>1, <1>2, <1>3 DEF ProviderStep

\* Rates: what is replaced ends, and what replaces it begins.
LEMMA RuleStepKeeps ==
  ASSUME SettingsOK, NEW r \in Requests, Fits(call[r]), RuleStep(r)
  PROVE  /\ SettingsOK' /\ SettingsGrow
         /\ UNCHANGED <<accountVars, provider, item, service, cashIn, commission, user>>
<1> DEFINE c == call[r]
<1>1. PICK k \in Charges : SetRules(r, k) BY DEF RuleStep
<1>2. c.op = k /\ c.id \in Present /\ c.id \in Providers /\ c.slabs \in SlabSets
  BY <1>1 DEF SetRules, Committing, Fits, Present
<1>3. PICK ended \in Ended(k, c) :
        /\ clock' \in {clock, clock + 1}
        /\ rules' = [rules EXCEPT ![k] = Replaced(k, c.id, ended, c.slabs, clock')]
  BY <1>1 DEF SetRules
<1>4. UNCHANGED <<accountVars, provider, item, service, cashIn, commission, user>> BY <1>1 DEF SetRules
<1>5. rules \in [Charges -> SUBSET RuleRow] /\ clock \in Nat /\ clock' \in Nat /\ clock <= clock'
  BY <1>3 DEF SettingsOK
<1>6. ASSUME NEW x \in Replaced(k, c.id, ended, c.slabs, clock')
      PROVE  x \in RuleRow /\ x.from <= clock' /\ (x.to = None \/ x.to <= clock')
  <2>1. CASE x \in {Rule(c.id, s, clock') : s \in c.slabs} BY <1>2, <1>5, <2>1 DEF Rule, RuleRow
  <2>2. CASE x \in {IF y \in ended THEN [y EXCEPT !.to = clock'] ELSE y : y \in rules[k]}
    <3>1. PICK y \in rules[k] : x = IF y \in ended THEN [y EXCEPT !.to = clock'] ELSE y BY <2>2
    <3>2. y \in RuleRow /\ y.from <= clock /\ (y.to = None \/ y.to <= clock) BY <1>5 DEF SettingsOK
    <3>3. y.from \in Nat /\ y.to \in Nat \cup {None} BY <3>2 DEF RuleRow
    <3>4. CASE y \in ended
      <4>1. x = [y EXCEPT !.to = clock'] BY <3>1, <3>4
      <4>2. x \in RuleRow /\ x.from = y.from /\ x.to = clock' BY <1>5, <3>2, <4>1 DEF RuleRow
      <4> QED BY <1>5, <3>2, <3>3, <4>2
    <3>5. CASE y \notin ended
      <4>1. y.to = None \/ y.to \in Nat BY <3>3
      <4> QED BY <1>5, <3>1, <3>2, <3>3, <3>5, <4>1, OfficeAssumption
    <3> QED BY <3>4, <3>5
  <2> QED BY <2>1, <2>2 DEF Replaced
<1>7. rules' \in [Charges -> SUBSET RuleRow] BY <1>3, <1>5, <1>6
<1>8. \A j \in Charges : \A x \in rules'[j] : x.from <= clock' /\ (x.to = None \/ x.to <= clock')
  <2>1. SUFFICES ASSUME NEW j \in Charges, NEW x \in rules'[j]
                 PROVE  x.from <= clock' /\ (x.to = None \/ x.to <= clock')
    OBVIOUS
  <2>2. CASE j = k BY <1>3, <1>5, <1>6, <2>2
  <2>3. CASE j # k
    <3>1. x \in rules[j] BY <1>3, <1>5, <2>3
    <3>2. x \in RuleRow /\ x.from <= clock /\ (x.to = None \/ x.to <= clock) BY <1>5, <3>1 DEF SettingsOK
    <3>3. x.from \in Nat /\ x.to \in Nat \cup {None} BY <3>2 DEF RuleRow
    <3> QED BY <1>5, <3>2, <3>3
  <2> QED BY <2>2, <2>3
<1>9. Present' = Present /\ Known' = Known BY <1>4 DEF Present, Known
<1>10. SettingsOK' BY <1>4, <1>5, <1>7, <1>8, <1>9 DEF SettingsOK
<1>11. SettingsGrow BY <1>4, <1>9 DEF SettingsGrow
<1> QED BY <1>4, <1>10, <1>11

\* Names, values and switches.
LEMMA ItemStepKeeps ==
  ASSUME SettingsOK, NEW r \in Requests, Fits(call[r]), ItemStep(r)
  PROVE  /\ SettingsOK' /\ SettingsGrow
         /\ UNCHANGED <<accountVars, provider, rules, clock, service, cashIn, commission, user>>
<1> DEFINE c == call[r]
<1>0. item \in [Items -> ItemRow] BY DEF SettingsOK
<1>1. PICK k \in ItemKinds : CreateItem(r, k) \/ UpdateItem(r, k) \/ SetItemActive(r, k) BY DEF ItemStep
<1>2. UNCHANGED <<accountVars, provider, rules, clock, service, cashIn, commission, user>>
  BY <1>1 DEF CreateItem, UpdateItem, SetItemActive, OnlyItem
<1>3. /\ item' \in [Items -> ItemRow]
      /\ \A i \in Items : item[i] # NoItem => item'[i] # NoItem
      /\ \A i \in Items : item'[i] # NoItem => item'[i].value # None
  <2>1. CASE CreateItem(r, k)
    <3>1. c.value \in Values BY <2>1 DEF CreateItem, Committing, Fits
    <3>2. PICK i \in Items : item' = [item EXCEPT ![i] = [value |-> c.value, active |-> TRUE]]
      BY <2>1 DEF CreateItem, Free
    <3> DEFINE row == [value |-> c.value, active |-> TRUE]
    <3>3. row \in ItemRow /\ row # NoItem /\ row.value # None
      BY <3>1, SettingsAssumption DEF ItemRow, NoItem
    <3> HIDE DEF row
    <3>4. item' = [item EXCEPT ![i] = row] BY <3>2 DEF row
    <3> QED BY <1>0, <3>3, <3>4 DEF SettingsOK
  <2>2. CASE UpdateItem(r, k)
    <3>1. c.value \in Values /\ c.id \in Items /\ item[c.id] # NoItem
      BY <2>2 DEF UpdateItem, Committing, Fits, Kept
    <3>2. item' = [item EXCEPT ![c.id].value = c.value] BY <2>2 DEF UpdateItem
    <3>3. item'[c.id] \in ItemRow /\ item'[c.id].value = c.value /\ c.value # None
      BY <1>0, <3>1, <3>2, SettingsAssumption DEF ItemRow
    <3>4. item'[c.id] # NoItem BY <3>3 DEF NoItem
    <3>5. item' \in [Items -> ItemRow] /\ \A i \in Items \ {c.id} : item'[i] = item[i]
      BY <1>0, <3>1, <3>2, <3>3
    <3> QED BY <3>3, <3>4, <3>5 DEF SettingsOK
  <2>3. CASE SetItemActive(r, k)
    <3>1. c.active \in BOOLEAN /\ c.id \in Items /\ item[c.id] # NoItem
      BY <2>3 DEF SetItemActive, Committing, Fits, Kept
    <3>2. item' = [item EXCEPT ![c.id].active = c.active] BY <2>3 DEF SetItemActive
    <3>3. item'[c.id] \in ItemRow /\ item'[c.id].value = item[c.id].value /\ item[c.id].value # None
      BY <1>0, <3>1, <3>2 DEF ItemRow, SettingsOK
    <3>4. item'[c.id] # NoItem BY <3>3 DEF NoItem
    <3>5. item' \in [Items -> ItemRow] /\ \A i \in Items \ {c.id} : item'[i] = item[i]
      BY <1>0, <3>1, <3>2, <3>3
    <3> QED BY <3>3, <3>4, <3>5 DEF SettingsOK
  <2> QED BY <1>1, <2>1, <2>2, <2>3
<1>4. Present' = Present /\ Known' = Known BY <1>2 DEF Present, Known
<1>5. SettingsOK' BY <1>2, <1>3, <1>4 DEF SettingsOK
<1>6. SettingsGrow BY <1>2, <1>3, <1>4 DEF SettingsGrow
<1> QED BY <1>2, <1>5, <1>6

\* The service: both modes are written together, and a mode that is not given is what was read.
LEMMA ServiceStepKeeps ==
  ASSUME SettingsOK, NEW r \in Requests, Fits(call[r]), ServiceStep(r)
  PROVE  /\ SettingsOK' /\ SettingsGrow
         /\ PartnerFlags => PartnerFlags'
         /\ UNCHANGED <<accountVars, provider, rules, clock, item, cashIn, commission, user>>
<1> DEFINE c == call[r]
<1>1. UNCHANGED <<accountVars, provider, rules, clock, item, cashIn, commission, user>>
  BY DEF ServiceStep, CreateService, UpdateService, SetServiceActive, OnlyService
<1>2. service' \in ServiceRow /\ (PartnerFlags => PartnerFlags')
  <2>1. CASE CreateService(r)
    <3>1. c.allow \in Choice /\ c.only \in Choice BY <2>1 DEF CreateService, Committing, Fits
    <3>2. Given(c.only, FALSE) \in BOOLEAN /\ Given(c.allow, Given(c.only, FALSE)) \in BOOLEAN
      BY <3>1 DEF Given, Choice
    <3>3. service' = [allow |-> Given(c.allow, Given(c.only, FALSE)),
                      only |-> Given(c.allow, Given(c.only, FALSE)) /\ Given(c.only, FALSE), active |-> TRUE]
      BY <2>1 DEF CreateService
    <3> QED BY <3>2, <3>3 DEF ServiceRow, PartnerFlags
  <2>2. CASE UpdateService(r)
    <3>1. c.allow \in Choice /\ c.only \in Choice /\ c.seen \in ServiceRow /\ service \in ServiceRow
      BY <2>2 DEF UpdateService, Committing, Fits, SettingsOK
    <3> DEFINE allow == Given(c.allow, c.only = TRUE \/ c.seen.allow)
               only == allow /\ Given(c.only, c.seen.only)
    <3>2. allow \in BOOLEAN /\ only \in BOOLEAN /\ service.active \in BOOLEAN /\ (only => allow)
      BY <3>1 DEF Given, Choice, ServiceRow
    <3>3. Partnered(c) = [[c.seen EXCEPT !.allow = allow] EXCEPT !.only = only] BY <3>1 DEF Partnered, ServiceRow
    <3>4. service' = [Partnered(c) EXCEPT !.active = service.active] BY <2>2 DEF UpdateService
    <3> HIDE DEF allow, only
    <3>5. [c.seen EXCEPT !.allow = allow] \in ServiceRow /\ [c.seen EXCEPT !.allow = allow].allow = allow
      BY <3>1, <3>2 DEF ServiceRow
    <3>6. Partnered(c) \in ServiceRow /\ Partnered(c).allow = allow /\ Partnered(c).only = only
      BY <3>2, <3>3, <3>5 DEF ServiceRow
    <3>7. service' \in ServiceRow /\ service'.allow = allow /\ service'.only = only
      BY <3>2, <3>4, <3>6 DEF ServiceRow
    <3> QED BY <3>2, <3>7 DEF PartnerFlags
  <2>3. CASE SetServiceActive(r)
    <3>1. call[r].active \in BOOLEAN /\ service \in ServiceRow
      BY <2>3 DEF SetServiceActive, Committing, Fits, SettingsOK
    <3>2. service' = [service EXCEPT !.active = call[r].active] BY <2>3 DEF SetServiceActive
    <3> QED BY <3>1, <3>2 DEF ServiceRow, PartnerFlags
  <2> QED BY <2>1, <2>2, <2>3 DEF ServiceStep
<1>3. service' # NoService
  <2>1. NoService \notin ServiceRow BY OfficeAssumption DEF NoService, ServiceRow
  <2> QED BY <1>2, <2>1
<1>4. Present' = Present /\ Known' = Known BY <1>1 DEF Present, Known
<1>5. SettingsOK' BY <1>1, <1>2, <1>4 DEF SettingsOK
<1>6. SettingsGrow BY <1>1, <1>3, <1>4 DEF SettingsGrow
<1> QED BY <1>1, <1>2, <1>5, <1>6

\* The cash-in transfer type: a rate that is not given follows the mode.
LEMMA CashInStepKeeps ==
  ASSUME SettingsOK, NEW r \in Requests, Fits(call[r]), CashInStep(r)
  PROVE  /\ SettingsOK' /\ SettingsGrow
         /\ UNCHANGED <<accountVars, provider, rules, clock, item, service, commission, user>>
<1> DEFINE c == call[r]
<1>1. UNCHANGED <<accountVars, provider, rules, clock, item, service, commission, user>>
  BY DEF CashInStep, CreateCashInTransferType, UpdateCashInTransferType, SetCashInTransferTypeActive, OnlyCashIn
<1>2. cashIn' \in CashInRow
  <2>1. CASE CreateCashInTransferType(r)
    <3>1. c.mode \in Modes /\ c.rate \in {None, 0} BY <2>1 DEF CreateCashInTransferType, Committing, Fits
    <3>2. Given(c.rate, DefaultRate(c.mode)) \in 0..2 BY <3>1 DEF Given, DefaultRate
    <3>3. cashIn' = [mode |-> c.mode, rate |-> Given(c.rate, DefaultRate(c.mode)), active |-> TRUE]
      BY <2>1 DEF CreateCashInTransferType
    <3> QED BY <3>1, <3>2, <3>3 DEF CashInRow
  <2>2. CASE UpdateCashInTransferType(r)
    <3>1. c.mode \in Modes \cup {None} /\ c.rate \in {None, 0} /\ cashIn \in CashInRow
      BY <2>2 DEF UpdateCashInTransferType, Committing, Fits, SettingsOK
    <3> DEFINE mode == Given(c.mode, cashIn.mode)
               rate == IF c.rate # None THEN c.rate ELSE IF c.mode # None THEN DefaultRate(c.mode) ELSE cashIn.rate
    <3>2. mode \in Modes BY <3>1 DEF Given, CashInRow
    <3>3. rate \in 0..2 BY <3>1 DEF DefaultRate, CashInRow
    <3>4. cashIn' = [[cashIn EXCEPT !.mode = mode] EXCEPT !.rate = rate]
      BY <2>2, <3>1 DEF UpdateCashInTransferType, CashInRow
    <3> HIDE DEF mode, rate
    <3>5. [cashIn EXCEPT !.mode = mode] \in CashInRow BY <3>1, <3>2 DEF CashInRow
    <3> QED BY <3>3, <3>4, <3>5 DEF CashInRow
  <2>3. CASE SetCashInTransferTypeActive(r)
    <3>1. call[r].active \in BOOLEAN /\ cashIn \in CashInRow
      BY <2>3 DEF SetCashInTransferTypeActive, Committing, Fits, SettingsOK
    <3>2. cashIn' = [cashIn EXCEPT !.active = call[r].active] BY <2>3 DEF SetCashInTransferTypeActive
    <3> QED BY <3>1, <3>2 DEF CashInRow
  <2> QED BY <2>1, <2>2, <2>3 DEF CashInStep
<1>3. cashIn' # NoCashIn
  <2>1. NoCashIn \notin CashInRow BY OfficeAssumption DEF NoCashIn, CashInRow
  <2> QED BY <1>2, <2>1
<1>4. Present' = Present /\ Known' = Known BY <1>1 DEF Present, Known
<1>5. SettingsOK' BY <1>1, <1>2, <1>4 DEF SettingsOK
<1>6. SettingsGrow BY <1>1, <1>3, <1>4 DEF SettingsGrow
<1> QED BY <1>1, <1>5, <1>6

\* Commission rules: the list only grows, and what an edit does not give stays.
LEMMA CommissionStepKeeps ==
  ASSUME SettingsOK, NEW r \in Requests, Fits(call[r]), CommissionStep(r)
  PROVE  /\ SettingsOK' /\ SettingsGrow
         /\ UNCHANGED <<accountVars, provider, rules, clock, item, service, cashIn, user>>
<1> DEFINE c == call[r]
<1>0. commission \in Seq(CommissionRow) BY DEF SettingsOK
<1>1. UNCHANGED <<accountVars, provider, rules, clock, item, service, cashIn, user>>
  BY DEF CommissionStep, CreateCommissionRule, UpdateCommissionRule, SetCommissionRuleActive, OnlyCommission
<1>2. commission' \in Seq(CommissionRow) /\ DOMAIN commission \subseteq DOMAIN commission'
  <2>1. CASE CreateCommissionRule(r)
    <3>1. c.scope \in Scope BY <2>1 DEF CreateCommissionRule, Committing, Fits
    <3> DEFINE row == [scope |-> c.scope, active |-> TRUE]
    <3>2. row \in CommissionRow BY <3>1 DEF CommissionRow
    <3>3. commission' = Append(commission, row) BY <2>1 DEF CreateCommissionRule
    <3> HIDE DEF row
    <3> QED BY <1>0, <3>2, <3>3
  <2>2. CASE UpdateCommissionRule(r)
    <3>1. c.scope \in Scope /\ c.id \in DOMAIN commission
      BY <2>2 DEF UpdateCommissionRule, Committing, Fits
    <3> DEFINE scope == [f \in Parts |-> Given(c.scope[f], commission[c.id].scope[f])]
    <3>2. commission[c.id] \in CommissionRow BY <1>0, <3>1
    <3>3. scope \in Scope
      <4>1. \A f \in Parts : c.scope[f] \in Scopes /\ commission[c.id].scope[f] \in Scopes
        BY <3>1, <3>2 DEF CommissionRow, Scope
      <4> QED BY <4>1 DEF Scope, Given
    <3>4. commission' = [commission EXCEPT ![c.id].scope = scope] BY <2>2 DEF UpdateCommissionRule
    <3> HIDE DEF scope
    <3> DEFINE row == [commission[c.id] EXCEPT !.scope = scope]
    <3>5. row \in CommissionRow BY <3>2, <3>3 DEF CommissionRow
    <3>6. commission' = [commission EXCEPT ![c.id] = row] BY <3>4
    <3> HIDE DEF row
    <3> QED BY <1>0, <3>1, <3>5, <3>6
  <2>3. CASE SetCommissionRuleActive(r)
    <3>1. c.active \in BOOLEAN /\ c.id \in DOMAIN commission
      BY <2>3 DEF SetCommissionRuleActive, Committing, Fits
    <3>2. commission[c.id] \in CommissionRow BY <1>0, <3>1
    <3> DEFINE row == [commission[c.id] EXCEPT !.active = c.active]
    <3>3. row \in CommissionRow BY <3>1, <3>2 DEF CommissionRow
    <3>4. commission' = [commission EXCEPT ![c.id] = row] BY <2>3 DEF SetCommissionRuleActive
    <3> HIDE DEF row
    <3> QED BY <1>0, <3>1, <3>3, <3>4
  <2> QED BY <2>1, <2>2, <2>3 DEF CommissionStep
<1>3. Present' = Present /\ Known' = Known BY <1>1 DEF Present, Known
<1>4. SettingsOK' BY <1>1, <1>2, <1>3 DEF SettingsOK
<1>5. SettingsGrow BY <1>1, <1>2, <1>3 DEF SettingsGrow
<1> QED BY <1>1, <1>4, <1>5

(* A user is written. *)
UserWritten(u) ==
    /\ user' \in [Users -> UserRow] /\ user'[u].password > 0
    /\ \A v \in Users \ {u} : user'[v] = user[v]

\* Each transaction on users makes one or writes one.
LEMMA UserStepWrites ==
  ASSUME SettingsOK, NEW r \in Requests, Fits(call[r]), UserStep(r)
  PROVE  \E u \in Users : UserWritten(u)
<1> DEFINE c == call[r]
<1>0. user \in [Users -> UserRow] /\ \A u \in Known : user[u].password > 0 BY DEF SettingsOK
<1>1. CASE CreateUser(r)
  <2>1. c.role \in Roles BY <1>1 DEF CreateUser, Committing, Fits
  <2> DEFINE row == [role |-> c.role, active |-> TRUE, password |-> 1]
  <2>2. PICK u \in Users : user' = [user EXCEPT ![u] = row] BY <1>1 DEF CreateUser
  <2>3. row \in UserRow /\ row.password > 0 BY <2>1 DEF UserRow
  <2> HIDE DEF row
  <2>4. UserWritten(u) BY <1>0, <2>2, <2>3 DEF UserWritten
  <2> QED BY <2>4
<1>2. CASE UpdateUser(r)
  <2>1. c.role \in Roles \cup {None} /\ c.id \in Known BY <1>2 DEF UpdateUser, Committing, Fits
  <2>2. c.id \in Users /\ user[c.id] \in UserRow /\ user[c.id].password > 0 BY <1>0, <2>1 DEF Known
  <2> DEFINE row == [user[c.id] EXCEPT !.role = Given(c.role, @)]
  <2>3. Given(c.role, user[c.id].role) \in Roles \cup {None} BY <2>1, <2>2 DEF Given, UserRow
  <2>4. row \in UserRow /\ row.password > 0 BY <2>2, <2>3 DEF UserRow
  <2>5. user' = [user EXCEPT ![c.id] = row] BY <1>2 DEF UpdateUser
  <2> HIDE DEF row
  <2>6. UserWritten(c.id) BY <1>0, <2>2, <2>4, <2>5 DEF UserWritten
  <2> QED BY <2>2, <2>6
<1>3. CASE SetUserActive(r)
  <2>1. c.active \in BOOLEAN /\ c.id \in Known BY <1>3 DEF SetUserActive, Committing, Fits
  <2>2. c.id \in Users /\ user[c.id] \in UserRow /\ user[c.id].password > 0 BY <1>0, <2>1 DEF Known
  <2> DEFINE row == [user[c.id] EXCEPT !.active = c.active]
  <2>4. row \in UserRow /\ row.password > 0 BY <2>1, <2>2 DEF UserRow
  <2>5. user' = [user EXCEPT ![c.id] = row] BY <1>3 DEF SetUserActive
  <2> HIDE DEF row
  <2>6. UserWritten(c.id) BY <1>0, <2>2, <2>4, <2>5 DEF UserWritten
  <2> QED BY <2>2, <2>6
<1>4. CASE ResetPassword(r)
  <2>1. c.id \in Known BY <1>4 DEF ResetPassword, Committing, Fits
  <2>2. c.id \in Users /\ user[c.id] \in UserRow /\ user[c.id].password > 0 BY <1>0, <2>1 DEF Known
  <2> DEFINE row == [user[c.id] EXCEPT !.password = @ + 1]
  <2>4. row \in UserRow /\ row.password > 0 BY <2>2 DEF UserRow
  <2>5. user' = [user EXCEPT ![c.id] = row] BY <1>4 DEF ResetPassword
  <2> HIDE DEF row
  <2>6. UserWritten(c.id) BY <1>0, <2>2, <2>4, <2>5 DEF UserWritten
  <2> QED BY <2>2, <2>6
<1> QED BY <1>1, <1>2, <1>3, <1>4 DEF UserStep

\* So users keep their types, and none is forgotten.
LEMMA UserStepKeeps ==
  ASSUME SettingsOK, NEW r \in Requests, Fits(call[r]), UserStep(r)
  PROVE  /\ SettingsOK' /\ SettingsGrow
         /\ UNCHANGED <<accountVars, provider, rules, clock, item, service, cashIn, commission>>
<1>1. UNCHANGED <<accountVars, provider, rules, clock, item, service, cashIn, commission>>
  BY DEF UserStep, CreateUser, UpdateUser, SetUserActive, ResetPassword, OnlyUser
<1>2. PICK u \in Users : UserWritten(u) BY UserStepWrites
<1>3. user'[u] # NoUser BY <1>2 DEF UserWritten, NoUser
<1>4. Known \subseteq Known' /\ \A v \in Known' : user'[v].password > 0
  BY <1>2, <1>3 DEF UserWritten, Known, SettingsOK
<1>5. Present' = Present BY <1>1 DEF Present
<1>6. SettingsOK' BY <1>1, <1>2, <1>4, <1>5 DEF SettingsOK, UserWritten
<1>7. SettingsGrow BY <1>1, <1>4, <1>5 DEF SettingsGrow
<1> QED BY <1>1, <1>6, <1>7

\* Every transaction keeps the types and what calls name.
LEMMA CommitKeeps ==
  ASSUME AccountsOK, RowsOK, SettingsOK, WalletsOK, NEW r \in Requests, Fits(call[r]), Commits(r)
  PROVE  AccountsOK' /\ RowsOK' /\ SettingsOK' /\ WalletsOK' /\ AccountsGrow /\ SettingsGrow /\ (PartnerFlags => PartnerFlags')
<1>1. ASSUME UNCHANGED accountVars PROVE AccountsOK' /\ RowsOK' /\ AccountsGrow
  BY <1>1 DEF accountVars, AccountsOK, RowsOK, Live, Destination, AccountsGrow, Exists
<1>2. ASSUME UNCHANGED settingVars PROVE SettingsOK' /\ SettingsGrow /\ (PartnerFlags => PartnerFlags') /\ Present' = Present
  BY <1>2 DEF settingVars, SettingsOK, SettingsGrow, Present, Known, PartnerFlags
<1>3. ASSUME UNCHANGED <<accountVars, provider>> PROVE WalletsOK'
  BY <1>3 DEF accountVars, WalletsOK, Present
<1>4. ASSUME UNCHANGED service PROVE PartnerFlags => PartnerFlags' BY <1>4 DEF PartnerFlags
<1>5. CASE AccountStep(r)
  <2>1. PICK a \in Accounts : AccountWritten(a) BY <1>5, AccountStepWrites
  <2>2. AccountsOK' /\ RowsOK' /\ AccountsGrow /\ UNCHANGED settingVars BY <1>5, AccountStepKeeps, AccountStepRows
  <2>3. \A b \in WalletAccounts : account'[b].type = account[b].type
    BY <2>1, OfficeAssumption DEF AccountWritten, WalletAccounts
  <2>4. \A p \in Providers : WalletOf[p] \in WalletAccounts BY DEF WalletAccounts
  <2>5. WalletsOK' BY <1>2, <2>2, <2>3, <2>4 DEF WalletsOK
  <2> QED BY <1>2, <2>2, <2>5
<1>6. CASE ProviderStep(r)
  <2>1. /\ AccountsOK' /\ AccountsGrow /\ ProvidersKept
        /\ UNCHANGED <<rules, clock, item, service, cashIn, commission, user>>
    BY <1>6, ProviderStepKeeps
  <2>2. Known' = Known BY <2>1 DEF Known
  <2>3. SettingsOK' /\ SettingsGrow BY <2>1, <2>2 DEF ProvidersKept, SettingsOK, SettingsGrow
  <2>4. UNCHANGED <<entries, due, rows, since>>
    BY <1>6 DEF ProviderStep, CreateProvider, UpdateProvider, SetProviderActive, accountVars
  <2>5. RowsOK' BY <2>1, <2>4, RowsStay DEF RowsOK
  <2> QED BY <1>4, <2>1, <2>3, <2>5 DEF ProvidersKept
<1>7. CASE RuleStep(r) BY <1>1, <1>3, <1>4, <1>7, RuleStepKeeps
<1>8. CASE ItemStep(r) BY <1>1, <1>3, <1>4, <1>8, ItemStepKeeps
<1>9. CASE ServiceStep(r) BY <1>1, <1>3, <1>9, ServiceStepKeeps
<1>10. CASE CashInStep(r) BY <1>1, <1>3, <1>4, <1>10, CashInStepKeeps
<1>11. CASE CommissionStep(r) BY <1>1, <1>3, <1>4, <1>11, CommissionStepKeeps
<1>12. CASE UserStep(r) BY <1>1, <1>3, <1>4, <1>12, UserStepKeeps
<1> QED BY <1>5, <1>6, <1>7, <1>8, <1>9, <1>10, <1>11, <1>12 DEF Commits

---------------------------------------------------------------------------
(* Types, for every behaviour.                                             *)

\* What is there at first.
LEMMA ShapeInit ==
  ASSUME Init
  PROVE  Shape
<1>1. AccountsOK
  <2>1. \A a \in Accounts :
          /\ account[a] \in AccountRow
          /\ ~Exists(a) => ~account[a].active
          /\ a \in WalletAccounts /\ Exists(a) => account[a].type = "PROVIDER_WALLET"
    <3>1. SUFFICES ASSUME NEW a \in Accounts
                   PROVE  /\ account[a] \in AccountRow
                          /\ ~Exists(a) => ~account[a].active
                          /\ a \in WalletAccounts /\ Exists(a) => account[a].type = "PROVIDER_WALLET"
      OBVIOUS
    <3>2. CASE a \in DOMAIN FirstAccounts
      <4>1. account[a] = NewAccount(FirstAccounts[a], Typed(a), 0) BY <3>2 DEF Init, AccountInit
      <4>2. FirstAccounts[a] \in Types /\ Typed(a) \in AccountNames /\ a \notin WalletAccounts
        BY <3>2, OfficeAssumption, NamesAre
      <4> QED BY <4>1, <4>2, NewAccountIs DEF Exists
    <3>3. CASE a \notin DOMAIN FirstAccounts /\ \E p \in FirstProviders : WalletOf[p] = a
      <4> DEFINE p == CHOOSE p \in FirstProviders : WalletOf[p] = a
      <4>1. p \in Providers BY <3>3, OfficeAssumption
      <4>2. account[a] = NewAccount("PROVIDER_WALLET", Wallet(p), 0) BY <3>3 DEF Init, AccountInit
      <4> HIDE DEF p
      <4>3. Wallet(p) \in AccountNames /\ "PROVIDER_WALLET" \in Types BY <4>1, NamesAre DEF Types
      <4> QED BY <4>2, <4>3, NewAccountIs DEF Exists
    <3>4. CASE a \notin DOMAIN FirstAccounts /\ ~\E p \in FirstProviders : WalletOf[p] = a
      <4>1. account[a] = NoAccount BY <3>4 DEF Init, AccountInit
      <4> QED BY <4>1 DEF NoAccount, AccountRow, AccountNames, Exists
    <3> QED BY <3>2, <3>3, <3>4
  <2>2. account \in [Accounts -> AccountRow] BY <2>1 DEF Init, AccountInit
  <2>3. /\ entries \in [Accounts -> [net : Int, count : Nat]]
        /\ books \in [charge : Int, adjustment : Int, other : Int]
        /\ sessions \in [open : SUBSET Accounts, ever : SUBSET Accounts]
        /\ sessions.open \subseteq sessions.ever
        /\ due \in [Accounts -> Nat]
        /\ closing \in [Accounts -> {None} \cup [balance : Int, net : Int]]
        /\ \A a \in Accounts : closing[a] = None
    BY DEF Init, AccountInit
  <2>4. \A a \in WalletAccounts : a \in Accounts BY OfficeAssumption DEF WalletAccounts
  <2> QED BY <2>1, <2>2, <2>3, <2>4 DEF AccountsOK
<1>2. SettingsOK
  <2>1. \A p \in Providers : provider[p] \in ProviderRow /\ (provider[p] # NoProvider => provider[p].name # None)
    BY OfficeAssumption DEF Init, SettingInit, ProviderRow, NoProvider
  <2>2. \A i \in Items : item[i] \in ItemRow /\ (item[i] # NoItem => item[i].value # None)
    BY SettingsAssumption DEF Init, SettingInit, ItemRow, NoItem
  <2>3. \A u \in Users : user[u] \in UserRow /\ (user[u] # NoUser => user[u].password > 0)
    <3>1. SUFFICES ASSUME NEW u \in Users PROVE user[u] \in UserRow /\ (user[u] # NoUser => user[u].password > 0)
      OBVIOUS
    <3>2. CASE u \in DOMAIN FirstUsers
      <4>1. user[u] = [role |-> FirstUsers[u], active |-> TRUE, password |-> 1] BY <3>2 DEF Init, SettingInit
      <4>2. FirstUsers[u] \in Roles BY <3>2, SettingsAssumption
      <4> QED BY <4>1, <4>2 DEF UserRow
    <3>3. CASE u \notin DOMAIN FirstUsers
      <4>1. user[u] = NoUser BY <3>3 DEF Init, SettingInit
      <4> QED BY <4>1 DEF NoUser, UserRow
    <3> QED BY <3>2, <3>3
  <2>4. /\ provider \in [Providers -> ProviderRow] /\ item \in [Items -> ItemRow] /\ user \in [Users -> UserRow]
    BY <2>1, <2>2, <2>3 DEF Init, SettingInit
  <2>5. rules \in [Charges -> SUBSET RuleRow] /\ (\A k \in Charges : rules[k] = {}) /\ clock \in Nat
        /\ service = NoService /\ cashIn = NoCashIn /\ commission \in Seq(CommissionRow)
    BY DEF Init, SettingInit
  <2> QED BY <2>1, <2>2, <2>3, <2>4, <2>5 DEF SettingsOK, Present, Known
<1>3. WalletsOK
  <2>1. SUFFICES ASSUME NEW p \in Providers
                 PROVE  p \in Present <=> account[WalletOf[p]].type = "PROVIDER_WALLET"
    BY DEF WalletsOK
  <2>2. WalletOf[p] \in Accounts /\ WalletOf[p] \notin DOMAIN FirstAccounts
    BY OfficeAssumption DEF WalletAccounts
  <2>3. \A q \in Providers : WalletOf[q] = WalletOf[p] => q = p BY OfficeAssumption DEF IsInjective
  <2>4. CASE p \in FirstProviders
    <3>1. p \in Present BY <2>4 DEF Init, SettingInit, Present, NoProvider
    <3> DEFINE q == CHOOSE q \in FirstProviders : WalletOf[q] = WalletOf[p]
    <3>2. account[WalletOf[p]] = NewAccount("PROVIDER_WALLET", Wallet(q), 0)
      BY <2>2, <2>4 DEF Init, AccountInit
    <3> HIDE DEF q
    <3>3. account[WalletOf[p]].type = "PROVIDER_WALLET" BY <3>2 DEF NewAccount, NoAccount
    <3> QED BY <3>1, <3>3
  <2>5. CASE p \notin FirstProviders
    <3>1. p \notin Present BY <2>5 DEF Init, SettingInit, Present
    <3>2. account[WalletOf[p]] = NoAccount BY <2>2, <2>3, <2>5, OfficeAssumption DEF Init, AccountInit
    <3> QED BY <3>1, <3>2 DEF NoAccount
  <2> QED BY <2>4, <2>5
<1>4. \A r \in Requests : call[r].op = "waiting" BY DEF Init, Waiting
<1>5. \A r \in Requests : Fits(call[r]) BY <1>4 DEF Fits, Charges
<1>6. load \in Loads /\ call = [r \in Requests |-> call[r]] BY DEF Init
<1>7. RowsOK
  <2>1. rows \in Seq(Posting) /\ DOMAIN rows = {} BY DEF Init, AccountInit
  <2>2. since \in [Accounts -> History] BY DEF Init, AccountInit, NothingSince, History
  <2>3. \A a \in Accounts : entries[a].count = 0 /\ due[a] = 0 BY DEF Init, AccountInit
  <2>4. \A a \in Accounts : Live(a) = {} BY <2>1 DEF Live
  <2>5. \A a \in Accounts : Cardinality(Live(a)) <= entries[a].count BY <2>3, <2>4, FS_EmptySet
  <2> QED BY <2>1, <2>2, <2>3, <2>5 DEF RowsOK
<1> QED BY <1>1, <1>2, <1>3, <1>5, <1>6, <1>7 DEF Shape

\* A call that has been answered asks for nothing.
LEMMA AnsweredFits ==
  Answered.op = "answered" /\ Fits(Answered)' /\ Fresh(Answered)'
<1>1. Answered.op = "answered" BY DEF Answered
<1> QED BY <1>1 DEF Fits, Fresh, Charges

\* A step keeps the types, and what the calls name.
LEMMA ShapeNext ==
  ASSUME Shape, [Next]_vars
  PROVE  Shape' /\ (PartnerFlags => PartnerFlags')
<1>0. AccountsOK /\ RowsOK /\ SettingsOK /\ WalletsOK /\ load \in Loads /\ call = [r \in Requests |-> call[r]]
      /\ \A r \in Requests : Fits(call[r])
  BY DEF Shape
<1>1. ASSUME UNCHANGED <<accountVars, settingVars>>
      PROVE  AccountsOK' /\ RowsOK' /\ SettingsOK' /\ WalletsOK' /\ AccountsGrow /\ SettingsGrow /\ (PartnerFlags => PartnerFlags')
  BY <1>0, <1>1 DEF accountVars, settingVars, AccountsOK, RowsOK, Live, Destination, SettingsOK, WalletsOK, AccountsGrow, SettingsGrow,
     PartnerFlags, Exists, Present, Known
<1>2. CASE UNCHANGED vars
  <2>1. UNCHANGED <<accountVars, settingVars, call, load>> BY <1>2 DEF vars, boundVars
  <2>2. ASSUME NEW q \in Requests PROVE Fits(call[q])'
    <3>1. PICK e : e = call[q] OBVIOUS
    <3>2. Fits(e)' BY <1>0, <1>1, <2>1, <3>1, FitsStays
    <3> QED BY <2>1, <3>1, <3>2
  <2> QED BY <1>0, <1>1, <2>1, <2>2 DEF Shape
<1>3. ASSUME NEW r \in Requests, Begin(r) PROVE Shape' /\ (PartnerFlags => PartnerFlags')
  <2>0. PICK op \in load.ops : \E c \in Calls(op) : call' = [call EXCEPT ![r] = c] BY <1>3 DEF Begin
  <2>1. PICK c \in Calls(op) : call' = [call EXCEPT ![r] = c] BY <2>0
  <2>2. UNCHANGED <<accountVars, settingVars, load>> BY <1>3 DEF Begin, boundVars
  <2>3. Fits(c) BY <1>0, BeginFits
  <2>4. Fits(c)' BY <1>1, <2>2, <2>3, FitsStays
  <2>5. \A q \in Requests : call'[q] = IF q = r THEN c ELSE call[q] BY <1>0, <2>1
  <2>6. ASSUME NEW q \in Requests PROVE Fits(call[q])'
    <3>1. Fits(call[q]) BY <1>0
    <3>2. PICK e : e = call[q] OBVIOUS
    <3>3. Fits(e)' BY <1>1, <2>2, <3>1, <3>2, FitsStays
    <3> QED BY <2>4, <2>5, <3>2, <3>3
  <2>7. call' = [q \in Requests |-> call'[q]] BY <1>0, <2>1
  <2> QED BY <1>0, <1>1, <2>2, <2>6, <2>7 DEF Shape
<1>4. ASSUME NEW r \in Requests, Abort(r) \/ Commits(r) PROVE Shape' /\ (PartnerFlags => PartnerFlags')
  <2>1. call' = [call EXCEPT ![r] = Answered] /\ load' = load
    BY <1>4, CommitAnswers DEF Abort, boundVars
  <2>2. AccountsOK' /\ RowsOK' /\ SettingsOK' /\ WalletsOK' /\ AccountsGrow /\ SettingsGrow /\ (PartnerFlags => PartnerFlags')
    BY <1>0, <1>1, <1>4, CommitKeeps DEF Abort
  <2>3. \A q \in Requests : call'[q] = IF q = r THEN Answered ELSE call[q] BY <1>0, <2>1
  <2>4. ASSUME NEW q \in Requests PROVE Fits(call[q])'
    <3>1. PICK e : e = call[q] OBVIOUS
    <3>2. Fits(e)' BY <1>0, <2>2, <3>1, FitsStays
    <3> QED BY <2>3, <3>1, <3>2, AnsweredFits
  <2>5. call' = [q \in Requests |-> call'[q]] BY <1>0, <2>1
  <2> QED BY <1>0, <2>1, <2>2, <2>4, <2>5 DEF Shape
<1>5. ASSUME Moving, CounterStep \/ EndDay PROVE Shape' /\ (PartnerFlags => PartnerFlags')
  <2>1. AccountsOK' /\ RowsOK' /\ UNCHANGED <<account, settingVars, audit, call, load>> BY <1>0, <1>5, CounterKeeps
  <2>2. SettingsOK' /\ WalletsOK' /\ AccountsGrow /\ SettingsGrow /\ (PartnerFlags => PartnerFlags')
    BY <1>0, <2>1 DEF settingVars, SettingsOK, WalletsOK, AccountsGrow, SettingsGrow, PartnerFlags, Present, Known
  <2>3. ASSUME NEW q \in Requests PROVE Fits(call[q])'
    <3>1. PICK e : e = call[q] OBVIOUS
    <3>2. Fits(e)' BY <1>0, <2>2, <3>1, FitsStays
    <3> QED BY <2>1, <3>1, <3>2
  <2> QED BY <1>0, <2>1, <2>2, <2>3 DEF Shape
<1>6. CASE Next BY <1>0, <1>3, <1>4, <1>5, <1>6, StepIs
<1> QED BY <1>2, <1>6

---------------------------------------------------------------------------
(* One call after the other.                                               *)

\* While nothing changes, what was read and checked stays so.
LEMMA FreshStays ==
  ASSUME NEW c, Fresh(c), UNCHANGED <<accountVars, settingVars>>
  PROVE  Fresh(c)'
<1>1. /\ UNCHANGED <<account, entries, sessions, due, closing>>
      /\ UNCHANGED <<provider, rules, item, service, cashIn, commission, user>>
  BY DEF accountVars, settingVars
<1>2. Untouched(c.id)' <=> Untouched(c.id) BY <1>1 DEF Untouched
<1>3. Balance(c.id)' = Balance(c.id) BY <1>1 DEF Balance, Liability
<1>4. Settled(c.id)' <=> Settled(c.id) BY <1>1, <1>3 DEF Settled
<1>5. Open(c.op, c.id)' = Open(c.op, c.id) BY <1>1 DEF Open
<1>6. MaySwitch(c.kind, c.active, c.seen)' <=> MaySwitch(c.kind, c.active, c.seen) BY <1>1 DEF MaySwitch, Kept
<1>7. Managers' = Managers BY <1>1 DEF Managers, Known
<1>8. /\ MayManage(c.actor, NoUser, c.role)' <=> MayManage(c.actor, NoUser, c.role)
      /\ MayManage(c.actor, c.seen, c.role)' <=> MayManage(c.actor, c.seen, c.role)
      /\ MayManage(c.actor, c.seen, None)' <=> MayManage(c.actor, c.seen, None)
  BY <1>1 DEF MayManage
<1>9. MayDisable(c.actor, c.id, c.active)' <=> MayDisable(c.actor, c.id, c.active) BY DEF MayDisable
<1> QED BY <1>1, <1>2, <1>3, <1>4, <1>5, <1>6, <1>7, <1>8, <1>9 DEF Fresh

\* A call that has begun is neither waiting nor answered.
LEMMA CallsInFlight ==
  ASSUME AccountsOK, SettingsOK, NEW op, NEW c \in Calls(op)
  PROVE  c.op \notin {"waiting", "answered"}
<1>1. ASSUME c \in CreateAccountCalls \cup SetOpeningCalls \cup UpdateAccountCalls \cup SetAccountActiveCalls \cup ReconcileCalls
      PROVE  c.op \notin {"waiting", "answered"}
  BY <1>1 DEF CreateAccountCalls, SetOpeningCalls, UpdateAccountCalls, SetAccountActiveCalls, ReconcileCalls
<1>2. ASSUME c \in CreateProviderCalls \cup UpdateProviderCalls \cup SetProviderActiveCalls
      PROVE  c.op \notin {"waiting", "answered"}
  BY <1>2 DEF CreateProviderCalls, UpdateProviderCalls, SetProviderActiveCalls
<1>3. ASSUME NEW k \in Charges, c \in SetRulesCalls(k) PROVE c.op \notin {"waiting", "answered"}
  BY <1>3 DEF SetRulesCalls, Charges
<1>4. ASSUME NEW k \in ItemKinds, c \in ItemCalls(k) PROVE c.op \notin {"waiting", "answered"}
  BY <1>4 DEF ItemCalls, CreateItemCalls, UpdateItemCalls, SetItemActiveCalls
<1>5. ASSUME c \in CreateServiceCalls \cup UpdateServiceCalls \cup SetServiceActiveCalls
      PROVE  c.op \notin {"waiting", "answered"}
  BY <1>5 DEF CreateServiceCalls, UpdateServiceCalls, SetServiceActiveCalls
<1>6. ASSUME c \in CreateCashInTransferTypeCalls \cup UpdateCashInTransferTypeCalls \cup SetCashInTransferTypeActiveCalls
      PROVE  c.op \notin {"waiting", "answered"}
  BY <1>6 DEF CreateCashInTransferTypeCalls, UpdateCashInTransferTypeCalls, SetCashInTransferTypeActiveCalls
<1>7. ASSUME c \in CreateCommissionRuleCalls \cup UpdateCommissionRuleCalls \cup SetCommissionRuleActiveCalls
      PROVE  c.op \notin {"waiting", "answered"}
  BY <1>7 DEF CreateCommissionRuleCalls, UpdateCommissionRuleCalls, SetCommissionRuleActiveCalls
<1>8. ASSUME c \in CreateUserCalls \cup UpdateUserCalls \cup SetUserActiveCalls \cup ResetPasswordCalls
      PROVE  c.op \notin {"waiting", "answered"}
  BY <1>8 DEF CreateUserCalls, UpdateUserCalls, SetUserActiveCalls, ResetPasswordCalls
<1> QED BY CallsAre, <1>1, <1>2, <1>3, <1>4, <1>5, <1>6, <1>7, <1>8

\* Nothing is in flight at first.
LEMMA InTurnInit ==
  ASSUME Init
  PROVE  InTurn
<1>1. \A r \in Requests : call[r].op = "waiting" BY DEF Init, Waiting
<1>2. InFlight = {} BY <1>1 DEF InFlight
<1> QED BY <1>2 DEF InTurn

\* A call is begun when none is in flight, and nothing happens beside it.
LEMMA InTurnNext ==
  ASSUME Shape, InTurn, [Next]_vars
  PROVE  InTurn'
<1> SUFFICES ASSUME Alone' PROVE (\A q, r \in InFlight' : q = r) /\ \A r \in InFlight' : Fresh(call[r])'
  BY DEF InTurn
<1>0. AccountsOK /\ SettingsOK /\ load \in Loads /\ call = [r \in Requests |-> call[r]] BY DEF Shape
<1>1. load' = load
  <2>1. ASSUME Next PROVE load' = load
    BY <1>0, <2>1, StepIs, CommitAnswers DEF Begin, Abort, Moving, boundVars
  <2> QED BY <2>1 DEF vars, boundVars
<1>2. Alone /\ (\A q, r \in InFlight : q = r) /\ \A r \in InFlight : Fresh(call[r]) BY <1>1 DEF Alone, InTurn
<1>3. CASE UNCHANGED vars
  <2>1. UNCHANGED <<accountVars, settingVars, call>> BY <1>3 DEF vars
  <2>2. InFlight' = InFlight BY <2>1 DEF InFlight
  <2>3. ASSUME NEW q \in InFlight PROVE Fresh(call[q])'
    <3>1. PICK e : e = call[q] OBVIOUS
    <3>2. Fresh(e)' BY <1>2, <2>1, <3>1, FreshStays
    <3> QED BY <2>1, <3>1, <3>2
  <2> QED BY <1>2, <2>2, <2>3
<1>4. ASSUME NEW r \in Requests, Begin(r)
      PROVE  (\A q, p \in InFlight' : q = p) /\ \A q \in InFlight' : Fresh(call[q])'
  <2>0. PICK op \in load.ops : \E c \in Calls(op) : call' = [call EXCEPT ![r] = c] BY <1>4 DEF Begin
  <2>1. PICK c \in Calls(op) : call' = [call EXCEPT ![r] = c] BY <2>0
  <2>2. UNCHANGED <<accountVars, settingVars>> BY <1>4 DEF Begin
  <2>3. InFlight = {}
    <3>1. Cardinality(InFlight) < 1 BY <1>2, <1>4 DEF Begin, Alone
    <3>2. ASSUME NEW q \in InFlight PROVE FALSE
      <4>1. InFlight = {q} BY <1>2, <3>2
      <4>2. Cardinality({q}) = 1 BY FS_Singleton
      <4> QED BY <3>1, <4>1, <4>2
    <3> QED BY <3>2
  <2>4. \A q \in Requests : call'[q] = IF q = r THEN c ELSE call[q] BY <1>0, <2>1
  <2>5. InFlight' \subseteq {r} BY <2>3, <2>4 DEF InFlight
  <2>6. Fresh(c)' BY <1>0, <2>2, BeginFits, FreshStays
  <2> QED BY <2>4, <2>5, <2>6
<1>5. ASSUME NEW r \in Requests, Abort(r) \/ Commits(r)
      PROVE  (\A q, p \in InFlight' : q = p) /\ \A q \in InFlight' : Fresh(call[q])'
  <2>1. call' = [call EXCEPT ![r] = Answered] BY <1>5, CommitAnswers DEF Abort
  <2>2. r \in InFlight
    <3>1. ASSUME Commits(r) PROVE call[r].op \notin {"waiting", "answered"} BY <3>1, CommitAnswers
    <3> QED BY <1>5, <3>1 DEF Abort, InFlight
  <2>3. \A q \in Requests : call'[q] = IF q = r THEN Answered ELSE call[q] BY <1>0, <2>1
  <2>4. InFlight' = {} BY <1>2, <2>2, <2>3, AnsweredFits DEF InFlight
  <2> QED BY <2>4
<1>6. ASSUME Moving PROVE InFlight' = {}
  BY <1>2, <1>6 DEF Moving, InFlight, Alone
<1>7. CASE Next BY <1>0, <1>4, <1>5, <1>6, <1>7, StepIs
<1> QED BY <1>3, <1>7

\* Who writes what: every table has its own service.
LEMMA WhoWrites ==
  ASSUME Shape, [Next]_vars
  PROVE  /\ load' = load
         /\ UNCHANGED item \/ \E r \in Requests : ItemStep(r)
         /\ UNCHANGED user \/ \E r \in Requests : UserStep(r)
         /\ UNCHANGED <<rules, clock>> \/ \E r \in Requests : RuleStep(r)
         /\ UNCHANGED provider \/ \E r \in Requests : ProviderStep(r)
         /\ \/ UNCHANGED accountVars
            \/ \E r \in Requests : AccountStep(r) \/ ProviderStep(r)
            \/ Moving /\ (CounterStep \/ EndDay)
<1>0. AccountsOK /\ RowsOK /\ SettingsOK /\ WalletsOK /\ load \in Loads /\ \A r \in Requests : Fits(call[r]) BY DEF Shape
<1>1. CASE UNCHANGED vars BY <1>1 DEF vars, settingVars, boundVars
<1>2. ASSUME NEW r \in Requests, Begin(r) \/ Abort(r)
      PROVE  UNCHANGED <<accountVars, settingVars, load>>
  BY <1>2 DEF Begin, Abort, boundVars
<1>3. ASSUME Moving PROVE UNCHANGED <<settingVars, load>> BY <1>3 DEF Moving
<1>4. ASSUME NEW r \in Requests, Commits(r)
      PROVE  /\ load' = load
             /\ UNCHANGED item \/ ItemStep(r)
             /\ UNCHANGED user \/ UserStep(r)
             /\ UNCHANGED <<rules, clock>> \/ RuleStep(r)
             /\ UNCHANGED provider \/ ProviderStep(r)
             /\ UNCHANGED accountVars \/ AccountStep(r) \/ ProviderStep(r)
  <2>0. load' = load BY <1>4, CommitAnswers DEF boundVars
  <2>1. CASE AccountStep(r) BY <1>0, <2>0, <2>1, AccountStepKeeps DEF settingVars
  <2>2. CASE ProviderStep(r) BY <1>0, <2>0, <2>2, ProviderStepKeeps
  <2>3. CASE RuleStep(r) BY <1>0, <2>0, <2>3, RuleStepKeeps
  <2>4. CASE ItemStep(r) BY <1>0, <2>0, <2>4, ItemStepKeeps
  <2>5. CASE ServiceStep(r) BY <1>0, <2>0, <2>5, ServiceStepKeeps
  <2>6. CASE CashInStep(r) BY <1>0, <2>0, <2>6, CashInStepKeeps
  <2>7. CASE CommissionStep(r) BY <1>0, <2>0, <2>7, CommissionStepKeeps
  <2>8. CASE UserStep(r) BY <1>0, <2>0, <2>8, UserStepKeeps
  <2> QED BY <1>4, <2>1, <2>2, <2>3, <2>4, <2>5, <2>6, <2>7, <2>8 DEF Commits
<1>5. CASE Next BY <1>0, <1>2, <1>3, <1>4, <1>5, StepIs DEF settingVars
<1> QED BY <1>1, <1>5

---------------------------------------------------------------------------
(* Settings never leave the shop unable to work.                           *)

\* The last active customer type is not switched off.
LEMMA TypesStayActive ==
  ASSUME Shape, InTurn, SomeTypeActive, [Next]_vars
  PROVE  SomeTypeActive'
<1> SUFFICES ASSUME Alone' PROVE (\E i \in Kept("customerType") : item[i].active)' BY DEF SomeTypeActive
<1>0. load' = load /\ item \in [Items -> ItemRow] /\ (\A r \in Requests : Fits(call[r]))
  BY WhoWrites DEF Shape, SettingsOK
<1>1. Alone /\ \A r \in InFlight : Fresh(call[r]) BY <1>0 DEF Alone, InTurn
<1>2. PICK i \in Items : Kind[i] = "customerType" /\ item[i] # NoItem /\ item[i].active
  BY <1>1 DEF SomeTypeActive, Kept
<1>3. ASSUME item'[i].active PROVE (\E j \in Kept("customerType") : item[j].active)'
  BY <1>2, <1>3 DEF Kept, NoItem
<1>4. CASE UNCHANGED item BY <1>2, <1>3, <1>4
<1>5. ASSUME NEW r \in Requests, NEW k \in ItemKinds, CreateItem(r, k)
      PROVE  (\E j \in Kept("customerType") : item[j].active)'
  BY <1>0, <1>2, <1>3, <1>5 DEF CreateItem, Free
<1>6. ASSUME NEW r \in Requests, NEW k \in ItemKinds, UpdateItem(r, k)
      PROVE  (\E j \in Kept("customerType") : item[j].active)'
  <2>1. item' = [item EXCEPT ![call[r].id].value = call[r].value] BY <1>6 DEF UpdateItem
  <2>2. item[i] \in ItemRow BY <1>0, <1>2
  <2>3. item'[i].active BY <1>0, <1>2, <2>1, <2>2 DEF ItemRow
  <2> QED BY <1>3, <2>3
<1>7. ASSUME NEW r \in Requests, NEW k \in ItemKinds, SetItemActive(r, k)
      PROVE  (\E j \in Kept("customerType") : item[j].active)'
  <2> DEFINE c == call[r]
  <2>1. /\ item' = [item EXCEPT ![c.id].active = c.active] /\ c.kind = k /\ c.op = "setItemActive"
        /\ r \in InFlight
    BY <1>7 DEF SetItemActive, Committing, InFlight
  <2>2. /\ c.seen = item[c.id] /\ MaySwitch(k, c.active, c.seen) /\ c.active \in BOOLEAN
        /\ c.id \in Items /\ Kind[c.id] = k
    BY <1>0, <1>1, <2>1 DEF Fresh, Fits, Kept
  <2>3. CASE c.id # i
    <3>1. item'[i] = item[i] BY <1>0, <1>2, <2>1, <2>3
    <3> QED BY <1>2, <1>3, <3>1
  <2>4. CASE c.id = i /\ c.active
    <3>1. item'[i].active BY <1>0, <1>2, <2>1, <2>4 DEF ItemRow
    <3> QED BY <1>3, <3>1
  <2>5. CASE c.id = i /\ ~c.active
    <3> DEFINE A == {j \in Kept("customerType") : item[j].active}
    <3>1. Cardinality(A) > 1 BY <1>2, <2>2, <2>5 DEF MaySwitch
    <3>2. Cardinality({i}) = 1 BY FS_Singleton
    <3>3. A # {i} BY <3>1, <3>2
    <3>4. i \in A BY <1>2 DEF Kept
    <3> HIDE DEF A
    <3>5. PICK j \in A : j # i BY <3>3, <3>4
    <3>6. j \in Items /\ Kind[j] = "customerType" /\ item[j] # NoItem /\ item[j].active BY <3>5 DEF A, Kept
    <3>7. item'[j] = item[j] BY <1>0, <2>1, <2>5, <3>5, <3>6
    <3> QED BY <3>6, <3>7 DEF Kept
  <2> QED BY <2>2, <2>3, <2>4, <2>5
<1> QED BY <1>4, <1>5, <1>6, <1>7, WhoWrites DEF ItemStep

\* Whoever switches a user off stays.
LEMMA UsersStayActive ==
  ASSUME Shape, InTurn, SomebodyActive, [Next]_vars
  PROVE  SomebodyActive'
<1> SUFFICES ASSUME Alone' PROVE (\E u \in Known : user[u].active)' BY DEF SomebodyActive
<1>0. load' = load /\ user \in [Users -> UserRow] /\ (\A r \in Requests : Fits(call[r]))
  BY WhoWrites DEF Shape, SettingsOK
<1>1. Alone /\ \A r \in InFlight : Fresh(call[r]) BY <1>0 DEF Alone, InTurn
<1>2. ASSUME NEW u \in Users, user'[u].active PROVE (\E v \in Known : user[v].active)'
  BY <1>2 DEF Known, NoUser
<1>3. PICK w \in Users : w \in Known /\ user[w].active BY <1>1 DEF SomebodyActive, Known
<1>4. CASE UNCHANGED user BY <1>2, <1>3, <1>4
<1>5. ASSUME NEW r \in Requests, CreateUser(r) PROVE (\E v \in Known : user[v].active)'
  <2>1. PICK u \in Users : user' = [user EXCEPT ![u] = [role |-> call[r].role, active |-> TRUE, password |-> 1]]
    BY <1>5 DEF CreateUser
  <2>2. user'[u].active BY <1>0, <2>1
  <2> QED BY <1>2, <2>2
<1>6. ASSUME NEW r \in Requests, UpdateUser(r) PROVE (\E v \in Known : user[v].active)'
  <2>1. user' = [user EXCEPT ![call[r].id].role = Given(call[r].role, @)] BY <1>6 DEF UpdateUser
  <2>2. user[w] \in UserRow BY <1>0
  <2>3. user'[w].active BY <1>0, <1>3, <2>1, <2>2 DEF UserRow
  <2> QED BY <1>2, <2>3
<1>7. ASSUME NEW r \in Requests, ResetPassword(r) PROVE (\E v \in Known : user[v].active)'
  <2>1. user' = [user EXCEPT ![call[r].id].password = @ + 1] BY <1>7 DEF ResetPassword
  <2>2. user[w] \in UserRow BY <1>0
  <2>3. user'[w].active BY <1>0, <1>3, <2>1, <2>2 DEF UserRow
  <2> QED BY <1>2, <2>3
<1>8. ASSUME NEW r \in Requests, SetUserActive(r) PROVE (\E v \in Known : user[v].active)'
  <2> DEFINE c == call[r]
  <2>1. user' = [user EXCEPT ![c.id].active = c.active] /\ c.op = "setUserActive" /\ r \in InFlight
    BY <1>8 DEF SetUserActive, Committing, InFlight
  <2>2. /\ c.actor \in Managers /\ (c.id = c.actor => c.active) /\ c.active \in BOOLEAN
        /\ c.id \in Known
    BY <1>0, <1>1, <2>1 DEF Fresh, Fits, MayDisable
  <2>3. c.actor \in Users /\ user[c.actor].active /\ user[c.actor] \in UserRow
    BY <1>0, <2>2 DEF Managers, Known
  <2>4. user'[c.actor].active
    <3>1. CASE c.id = c.actor BY <1>0, <2>1, <2>2, <2>3, <3>1 DEF UserRow
    <3>2. CASE c.id # c.actor BY <1>0, <2>1, <2>3, <3>2
    <3> QED BY <3>1, <3>2
  <2> QED BY <1>2, <2>3, <2>4
<1> QED BY <1>4, <1>5, <1>6, <1>7, <1>8, WhoWrites DEF UserStep

\* Types of the bounds of a behaviour, from those of the rows.
LEMMA ShapeTypes ==
  ASSUME Shape
  PROVE  TypeOK
<1>1. \A a \in Accounts : /\ account[a].type \in Types \cup {"NONE"}
                          /\ account[a].opening \in Nat /\ account[a].active \in BOOLEAN
                          /\ entries[a] \in [net : Int, count : Nat] /\ due[a] \in Nat
  <2>1. \A a \in Accounts : account[a] \in AccountRow BY DEF Shape, AccountsOK
  <2> QED BY <2>1 DEF Shape, AccountsOK, AccountRow
<1>2. /\ books \in [charge : Int, adjustment : Int, other : Int]
      /\ sessions.open \subseteq sessions.ever /\ sessions.ever \subseteq Accounts
  BY DEF Shape, AccountsOK
<1>3. \A p \in Providers : provider[p].name \in Providers \cup Names \cup {None}
  <2>1. \A p \in Providers : provider[p] \in ProviderRow BY DEF Shape, SettingsOK
  <2> QED BY <2>1 DEF ProviderRow
<1>4. \A k \in Charges : \A x \in rules[k] : x.from \in 0..clock /\ (x.to = None \/ x.to \in 0..clock)
  <2>1. SUFFICES ASSUME NEW k \in Charges, NEW x \in rules[k]
                 PROVE  x.from \in 0..clock /\ (x.to = None \/ x.to \in 0..clock)
    OBVIOUS
  <2>2. x \in RuleRow /\ clock \in Nat /\ x.from <= clock /\ (x.to = None \/ x.to <= clock)
    BY DEF Shape, SettingsOK
  <2>3. x.from \in Nat /\ (x.to = None \/ x.to \in Nat) BY <2>2 DEF RuleRow
  <2> QED BY <2>2, <2>3
<1>5. \A i \in Items : item[i].value \in Items \cup Values \cup {None} /\ item[i].active \in BOOLEAN
  <2>1. \A i \in Items : item[i] \in ItemRow BY DEF Shape, SettingsOK
  <2> QED BY <2>1 DEF ItemRow
<1>6. service \in [allow : BOOLEAN, only : BOOLEAN, active : BOOLEAN \cup {None}]
  <2>1. service = NoService \/ service \in ServiceRow BY DEF Shape, SettingsOK
  <2>2. NoService \in [allow : BOOLEAN, only : BOOLEAN, active : BOOLEAN \cup {None}] BY DEF NoService
  <2>3. CASE service \in ServiceRow BY <2>3 DEF ServiceRow
  <2> QED BY <2>1, <2>2, <2>3
<1>7. cashIn = NoCashIn \/ cashIn \in [mode : Modes, rate : 0..2, active : BOOLEAN]
  BY DEF Shape, SettingsOK, CashInRow
<1>8. \A k \in DOMAIN commission : commission[k].scope \in Scope
  <2>1. \A k \in DOMAIN commission : commission[k] \in CommissionRow BY DEF Shape, SettingsOK
  <2> QED BY <2>1 DEF CommissionRow
<1>9. \A u \in Users : user[u].role \in Roles \cup {None} /\ user[u].active \in BOOLEAN
  <2>1. \A u \in Users : user[u] \in UserRow BY DEF Shape, SettingsOK
  <2> QED BY <2>1 DEF UserRow
<1>10. \A k \in DOMAIN rows : rows[k].account \in Accounts /\ rows[k].for \in Accounts \cup {None}
  <2>1. \A k \in DOMAIN rows : rows[k] \in Posting BY DEF Shape, RowsOK
  <2> QED BY <2>1 DEF Posting
<1> QED BY <1>10, <1>1, <1>2, <1>3, <1>4, <1>5, <1>6, <1>7, <1>8, <1>9 DEF TypeOK

\* What a behaviour begins with.
LEMMA SettingsInit ==
  ASSUME Init
  PROVE  PartnerFlags /\ SomeTypeActive /\ SomebodyActive
<1>1. PartnerFlags BY DEF Init, SettingInit, NoService, PartnerFlags
<1>2. SomeTypeActive
  <2>1. PICK i \in FirstItems : Kind[i] = "customerType" BY SettingsAssumption
  <2>2. i \in Items /\ item[i] = [value |-> i, active |-> TRUE] BY SettingsAssumption DEF Init, SettingInit
  <2> QED BY <2>1, <2>2 DEF SomeTypeActive, Kept, NoItem
<1>3. SomebodyActive
  <2>1. PICK u : u \in DOMAIN FirstUsers BY SettingsAssumption
  <2>2. u \in Users /\ user[u] = [role |-> FirstUsers[u], active |-> TRUE, password |-> 1]
    BY <2>1, SettingsAssumption DEF Init, SettingInit
  <2> QED BY <2>2 DEF SomebodyActive, Known, NoUser
<1> QED BY <1>1, <1>2, <1>3

(* Types, for any number of calls, accounts, providers, settings and users: *)
(* and what a call names is there, because no row is ever deleted.         *)
THEOREM ShapeInvariant == Spec => []Shape
<1>1. Init => Shape BY ShapeInit
<1>2. Shape /\ [Next]_vars => Shape' BY ShapeNext
<1> QED BY <1>1, <1>2, PTL DEF Spec

(* Settings never leave the shop unable to work (SettingsService and       *)
(* UsersService): a service only partners do is one partners may do, even  *)
(* when two calls change it at once; one call after the other, a customer  *)
(* type stays active and somebody can sign in.                             *)
THEOREM SettingsStandInvariant == Spec => []SettingsStand
<1> DEFINE Inv == Shape /\ InTurn /\ PartnerFlags /\ SomeTypeActive /\ SomebodyActive
<1>1. Init => Inv BY ShapeInit, InTurnInit, SettingsInit
<1>2. Inv /\ [Next]_vars => Inv' BY ShapeNext, InTurnNext, TypesStayActive, UsersStayActive
<1>3. Inv => SettingsStand BY ShapeTypes DEF SettingsStand
<1> HIDE DEF Inv
<1> QED BY <1>1, <1>2, <1>3, PTL DEF Spec

---------------------------------------------------------------------------
(* Accounts stay what their books say.                                     *)

\* A fee that explains a difference is one the ledger can book.
LEMMA FeesAreBooked ==
  ASSUME Shape
  PROVE  FeesBook
<1> SUFFICES ASSUME NEW r \in Requests, call[r].op = "reconcile" PROVE Balanced(Journal(call[r]))
  BY DEF FeesBook
<1> DEFINE c == call[r]
<1>1. c.expected \in Nat /\ c.target \in Nat /\ c.fee \in Nat /\ FeeSupported(c.id, c.target - c.expected, c.fee)
  BY DEF Shape, Fits
<1> DEFINE d == c.target - c.expected
<1>2. d \in Int /\ (c.fee > 0 => IF Liability(c.id) THEN d >= c.fee ELSE -d >= c.fee)
  BY <1>1 DEF FeeSupported
<1>3. Journal(c) = [account |-> Debit(c.id, d), charge |-> c.fee,
                    adjustment |-> IF Debit(c.id, d) > 0 THEN c.fee - (IF d < 0 THEN -d ELSE d)
                                   ELSE (IF d < 0 THEN -d ELSE d) - c.fee]
  BY DEF Journal
<1> HIDE DEF d
<1>4. CASE Liability(c.id) BY <1>1, <1>2, <1>3, <1>4 DEF Balanced, Debit
<1>5. CASE ~Liability(c.id) BY <1>1, <1>2, <1>3, <1>5 DEF Balanced, Debit
<1> QED BY <1>4, <1>5

\* Names follow each other through every renaming.
LEMMA NamesNext ==
  ASSUME Shape, InTurn, NamesFollow, [Next]_vars
  PROVE  NamesFollow'
<1>0. /\ account \in [Accounts -> AccountRow] /\ provider \in [Providers -> ProviderRow]
      /\ AccountsOK /\ RowsOK /\ SettingsOK /\ WalletsOK /\ load' = load /\ \A r \in Requests : Fits(call[r])
  BY WhoWrites DEF Shape, AccountsOK, SettingsOK
<1>p. /\ \A p \in Providers : WalletOf[p] \in Accounts /\ WalletOf[p] \in WalletAccounts
      /\ \A p, q \in Providers : WalletOf[p] = WalletOf[q] => p = q
      /\ \A p \in Present : p \in Providers
  BY OfficeAssumption DEF WalletAccounts, IsInjective, Present
<1>1. /\ \A a \in Accounts : account[a].ledgerName = account[a].name
      /\ Alone => \A p \in Present : account[WalletOf[p]].name = Wallet(provider[p].name)
  BY <1>p DEF NamesFollow
<1>2. WalletsOK' BY ShapeNext DEF Shape
<1>3. ASSUME \A a \in Accounts : account'[a].ledgerName = account'[a].name,
             Alone => \A p \in Present' : account'[WalletOf[p]].name = Wallet(provider'[p].name)
      PROVE  NamesFollow'
  BY <1>0, <1>2, <1>3 DEF NamesFollow, WalletsOK, Alone
<1>4. CASE UNCHANGED <<accountVars, provider>>
  BY <1>1, <1>3, <1>4 DEF accountVars, Present
<1>5. ASSUME NEW r \in Requests, AccountStep(r) PROVE NamesFollow'
  <2>1. PICK a \in Accounts : AccountWritten(a) BY <1>0, <1>5, AccountStepWrites
  <2>2. \A b \in Accounts : account'[b].ledgerName = account'[b].name BY <1>1, <2>1 DEF AccountWritten
  <2>3. UNCHANGED provider BY <1>0, <1>5, AccountStepKeeps DEF settingVars
  <2>4. Present' = Present BY <2>3 DEF Present
  <2>5. \A p \in Providers : account'[WalletOf[p]].name = account[WalletOf[p]].name
    BY <1>p, <2>1 DEF AccountWritten
  <2> QED BY <1>1, <1>3, <1>p, <2>2, <2>3, <2>4, <2>5
<1>6. ASSUME NEW r \in Requests, CreateProvider(r) PROVE NamesFollow'
  <2> DEFINE n == call[r].name
             new == NewAccount("PROVIDER_WALLET", Wallet(n), 0)
  <2>1. PICK p \in Providers \ Present :
          /\ provider' = [provider EXCEPT ![p] = [name |-> n, active |-> TRUE]]
          /\ account' = [account EXCEPT ![WalletOf[p]] = new]
    BY <1>6 DEF CreateProvider
  <2>2. new.name = Wallet(n) /\ new.ledgerName = Wallet(n) BY DEF NewAccount, NoAccount
  <2> HIDE DEF new
  <2>3. \A b \in Accounts : account'[b].ledgerName = account'[b].name BY <1>0, <1>1, <2>1, <2>2
  <2>4. ASSUME Alone, NEW q \in Present' PROVE account'[WalletOf[q]].name = Wallet(provider'[q].name)
    <3>1. CASE q = p BY <1>0, <1>p, <2>1, <2>2, <3>1
    <3>2. CASE q # p
      <4>1. q \in Providers /\ provider'[q] = provider[q] /\ q \in Present BY <1>0, <2>1, <2>4, <3>2 DEF Present
      <4>2. account'[WalletOf[q]] = account[WalletOf[q]] BY <1>0, <1>p, <2>1, <3>2, <4>1
      <4> QED BY <1>1, <2>4, <4>1, <4>2
    <3> QED BY <3>1, <3>2
  <2> QED BY <1>3, <2>3, <2>4
<1>7. ASSUME NEW r \in Requests, UpdateProvider(r) PROVE NamesFollow'
  <2> DEFINE c == call[r]
             w == WalletOf[c.id]
             row == Renamed(account[w], Wallet(c.name))
  <2>1. /\ provider' = [provider EXCEPT ![c.id].name = c.name]
        /\ account' = IF c.name = c.seen.name THEN account ELSE Written(w, row)
        /\ c.id \in Present /\ c.id \in Providers /\ c.name \in Names
        /\ c.op = "updateProvider" /\ r \in InFlight
    BY <1>0, <1>7 DEF UpdateProvider, Committing, Fits, Present, InFlight
  <2>2. Alone => c.seen = provider[c.id] BY <2>1 DEF InTurn, Fresh
  <2>3. w \in Accounts /\ account[w] \in AccountRow BY <1>0, <1>p, <2>1
  <2>4. row \in AccountRow /\ row.name = Wallet(c.name) /\ row.ledgerName = Wallet(c.name)
    BY <2>1, <2>3, NamesAre DEF Renamed, AccountRow
  <2> HIDE DEF row
  <2>5. /\ \A b \in Accounts \ {w} : Written(w, row)[b] = account[b]
        /\ \A f \in {"name", "ledgerName"} : Written(w, row)[w][f] = row[f]
    BY <1>0, <2>3, <2>4, WrittenIs
  <2>6. \A b \in Accounts : account'[b].ledgerName = account'[b].name BY <1>1, <2>1, <2>4, <2>5
  <2>7. provider'[c.id].name = c.name /\ \A q \in Providers \ {c.id} : provider'[q] = provider[q]
    BY <1>0, <2>1 DEF ProviderRow
  <2>8. ASSUME Alone, NEW q \in Present' PROVE account'[WalletOf[q]].name = Wallet(provider'[q].name)
    <3>1. CASE q = c.id
      <4>1. CASE c.name = c.seen.name BY <1>1, <2>1, <2>2, <2>7, <2>8, <3>1, <4>1
      <4>2. CASE c.name # c.seen.name BY <2>1, <2>4, <2>5, <2>7, <3>1, <4>2
      <4> QED BY <4>1, <4>2
    <3>2. CASE q # c.id
      <4>1. q \in Providers /\ provider'[q] = provider[q] /\ q \in Present BY <2>7, <2>8, <3>2 DEF Present
      <4>2. WalletOf[q] \in Accounts \ {w} BY <1>p, <2>1, <3>2, <4>1
      <4>3. account'[WalletOf[q]] = account[WalletOf[q]] BY <2>1, <2>5, <4>2
      <4> QED BY <1>1, <2>8, <4>1, <4>3
    <3> QED BY <3>1, <3>2
  <2> QED BY <1>3, <2>6, <2>8
<1>8. ASSUME NEW r \in Requests, SetProviderActive(r) PROVE NamesFollow'
  <2>1. /\ provider' = [provider EXCEPT ![call[r].id].active = call[r].active] /\ account' = account
        /\ call[r].id \in Providers /\ call[r].id \in Present
    BY <1>0, <1>8 DEF SetProviderActive, Committing, Fits, accountVars, Present
  <2>2. \A q \in Providers : provider[q] \in ProviderRow BY <1>0
  <2>3. \A q \in Providers : provider'[q].name = provider[q].name BY <1>0, <2>1, <2>2 DEF ProviderRow
  <2>4. \A q \in Present' : q \in Present BY <1>0, <2>1 DEF Present
  <2> QED BY <1>1, <1>3, <1>p, <2>1, <2>3, <2>4
<1>9. CASE Moving /\ (CounterStep \/ EndDay)
  <2>1. UNCHANGED <<account, provider>> BY <1>0, <1>9, CounterKeeps DEF settingVars
  <2> QED BY <1>1, <1>3, <2>1 DEF Present
<1>10. CASE UNCHANGED accountVars /\ \E r \in Requests : ProviderStep(r)
  BY <1>6, <1>7, <1>8, <1>10 DEF ProviderStep
<1> QED BY <1>4, <1>5, <1>6, <1>7, <1>8, <1>9, <1>10, WhoWrites DEF ProviderStep

(* What is on an account that is switched off, and its last closed day.    *)
Quiet(a) == ~account[a].active =>
    /\ a \notin sessions.open /\ due[a] <= since[a].reopened
    /\ entries[a].count > 0 => Balance(a) = since[a].corrected /\ Balance(a) >= 0
    /\ account[a].type = "CASH" => since[a].corrected = 0 /\ since[a].reopened = 0
DayStands(a) == closing[a] # None =>
    closing[a].balance = account[a].opening + (IF Liability(a) THEN -closing[a].net ELSE closing[a].net)
Standing == Alone => \A a \in Accounts : Exists(a) => Quiet(a) /\ DayStands(a)

(* Nothing of an account changes but its names and its version. *)
Untold(a) ==
    /\ \A f \in {"type", "opening", "active"} : account'[a][f] = account[a][f]
    /\ entries'[a] = entries[a] /\ due'[a] <= due[a] /\ closing'[a] = closing[a] /\ since'[a] = since[a]
    /\ a \in sessions'.open => a \in sessions.open

\* Such an account stays as quiet as it was.
LEMMA UntoldStands ==
  ASSUME AccountsOK, RowsOK, NEW a \in Accounts, Untold(a), Quiet(a), DayStands(a), due' \in [Accounts -> Nat]
  PROVE  Quiet(a)' /\ DayStands(a)'
<1>1. /\ account'[a].type = account[a].type /\ account'[a].opening = account[a].opening
      /\ account'[a].active = account[a].active
  BY DEF Untold
<1>2. Liability(a)' <=> Liability(a) BY <1>1 DEF Liability
<1>3. Balance(a)' = Balance(a) BY <1>1, <1>2 DEF Balance, Untold
<1>4. due[a] \in Nat /\ due'[a] \in Nat /\ since[a].reopened \in Nat BY DEF AccountsOK, RowsOK, History
<1>5. due[a] <= since[a].reopened => due'[a] <= since'[a].reopened BY <1>4 DEF Untold
<1>6. Quiet(a)' BY <1>1, <1>3, <1>5 DEF Untold, Quiet
<1> QED BY <1>1, <1>2, <1>6 DEF Untold, DayStands

\* An account that stays on, as one that is written while it is active.
LEMMA ActiveStands ==
  ASSUME NEW a \in Accounts, DayStands(a), account'[a].active, closing'[a] = closing[a],
         account'[a].type = account[a].type, account'[a].opening = account[a].opening
  PROVE  Quiet(a)' /\ DayStands(a)'
BY DEF Quiet, DayStands, Liability

\* Transactions on accounts: an opening balance is set before there is anything on the
\* account, one is switched off when it is settled, and only an active one is reconciled.
LEMMA AccountStepStands ==
  ASSUME AccountsOK, RowsOK, NEW r \in Requests, Fits(call[r]), Fresh(call[r]), AccountStep(r),
         \A a \in Accounts : Exists(a) => Quiet(a) /\ DayStands(a)
  PROVE  \A a \in Accounts : Exists(a)' => Quiet(a)' /\ DayStands(a)'
<1>c. PICK c : c = call[r] OBVIOUS
<1>f. Fits(c) /\ Fresh(c) BY <1>c
<1>0. /\ account \in [Accounts -> AccountRow] /\ since \in [Accounts -> History]
      /\ due \in [Accounts -> Nat] /\ \A a \in Accounts : due[a] <= due[a]
  BY DEF AccountsOK, RowsOK
<1>1. CASE CreateAccount(r)
  <2>1. PICK a \in (Accounts \ WalletAccounts) \ Own :
          account' = [account EXCEPT ![a] = NewAccount(c.type, Typed(c.name), c.opening)]
    BY <1>1, <1>c, <1>f DEF CreateAccount
  <2>2. /\ c.name \in Names /\ c.type \in Types \ {"PROVIDER_WALLET"} /\ c.opening \in Nat
        /\ UNCHANGED <<entries, books, sessions, due, closing, since, settingVars>>
    BY <1>1, <1>c, <1>f DEF CreateAccount, Committing, Fits
  <2> DEFINE new == NewAccount(c.type, Typed(c.name), c.opening)
  <2>3. new.active BY <2>2, NewAccountIs, NamesAre
  <2>4. ~Exists(a) /\ a \in Accounts BY DEF Own
  <2>5. closing[a] = None BY <2>4 DEF AccountsOK
  <2> HIDE DEF new
  <2>6. account' = [account EXCEPT ![a] = new] BY <2>1 DEF new
  <2>7. Quiet(a)' /\ DayStands(a)' BY <1>0, <2>2, <2>3, <2>4, <2>5, <2>6 DEF Quiet, DayStands
  <2>8. ASSUME NEW b \in Accounts \ {a}, Exists(b)' PROVE Quiet(b)' /\ DayStands(b)'
    <3>1. account'[b] = account[b] BY <1>0, <2>4, <2>6
    <3>2. Exists(b) BY <2>8, <3>1 DEF Exists
    <3>3. Untold(b) BY <1>0, <2>2, <3>1 DEF Untold
    <3> QED BY <1>0, <2>2, <3>2, <3>3, UntoldStands
  <2> QED BY <2>7, <2>8
<1>2. ASSUME NEW row \in AccountRow, c.id \in Accounts, Exists(c.id), account' = Written(c.id, row),
             \A b \in Accounts \ {c.id} : entries'[b] = entries[b] /\ since'[b] = since[b], UNCHANGED <<sessions, due, closing>>,
             account'[c.id].type = row.type /\ account'[c.id].opening = row.opening /\ account'[c.id].active = row.active
                 => Quiet(c.id)' /\ DayStands(c.id)'
      PROVE  \A a \in Accounts : Exists(a)' => Quiet(a)' /\ DayStands(a)'
  <2>1. /\ \A b \in Accounts \ {c.id} : account'[b] = account[b]
        /\ \A f \in {"type", "opening", "active"} : account'[c.id][f] = row[f]
    BY <1>0, <1>2, WrittenIs
  <2>2. ASSUME NEW b \in Accounts \ {c.id}, Exists(b)' PROVE Quiet(b)' /\ DayStands(b)'
    <3>1. Exists(b) BY <2>1, <2>2 DEF Exists
    <3>2. Untold(b) BY <1>0, <1>2, <2>1 DEF Untold
    <3> QED BY <1>0, <1>2, <3>1, <3>2, UntoldStands
  <2> QED BY <1>2, <2>1, <2>2
<1>3. CASE SetOpeningBalance(r)
  <2>1. /\ c.id \in Accounts /\ Exists(c.id) /\ c.opening \in Nat /\ Untouched(c.id)
        /\ account' = Written(c.id, [account[c.id] EXCEPT !.opening = c.opening])
        /\ UNCHANGED <<entries, books, sessions, due, closing, since, settingVars>>
    BY <1>3, <1>c, <1>f DEF SetOpeningBalance, Committing, Fits, Fresh
  <2>0. account[c.id] \in AccountRow BY <1>0, <2>1
  <2> DEFINE row == [account[c.id] EXCEPT !.opening = c.opening]
  <2>2. row \in AccountRow /\ row.active = account[c.id].active /\ row.type = account[c.id].type
    BY <2>0, <2>1 DEF AccountRow
  <2>3. account' = Written(c.id, row) BY <2>1
  <2> HIDE DEF row
  <2>4. Quiet(c.id) /\ entries[c.id].count = 0 /\ closing[c.id] = None BY <2>1 DEF Untouched
  <2>5. ASSUME account'[c.id].type = row.type, account'[c.id].opening = row.opening, account'[c.id].active = row.active
        PROVE  Quiet(c.id)' /\ DayStands(c.id)'
    <3> QED BY <2>1, <2>2, <2>4, <2>5 DEF Quiet, DayStands
  <2> QED BY <1>2, <2>1, <2>2, <2>3, <2>5
<1>4. CASE UpdateAccount(r)
  <2>1. /\ c.id \in Accounts /\ Exists(c.id) /\ c.name \in Names
        /\ account' = Written(c.id, Renamed(account[c.id], Typed(c.name)))
        /\ UNCHANGED <<entries, books, sessions, due, closing, since, settingVars>>
    BY <1>4, <1>c, <1>f DEF UpdateAccount, Committing, Fits
  <2>0. account[c.id] \in AccountRow BY <1>0, <2>1
  <2> DEFINE row == Renamed(account[c.id], Typed(c.name))
  <2>2. row \in AccountRow /\ row.active = account[c.id].active /\ row.type = account[c.id].type
        /\ row.opening = account[c.id].opening
    BY <2>0, <2>1, NamesAre DEF AccountRow, Renamed
  <2>3. account' = Written(c.id, row) BY <2>1
  <2> HIDE DEF row
  <2>5. ASSUME account'[c.id].type = row.type, account'[c.id].opening = row.opening, account'[c.id].active = row.active
        PROVE  Quiet(c.id)' /\ DayStands(c.id)'
    <3>1. Untold(c.id) BY <1>0, <2>1, <2>2, <2>5 DEF Untold
    <3> QED BY <1>0, <2>1, <3>1, UntoldStands
  <2> QED BY <1>2, <2>1, <2>2, <2>3, <2>5
<1>5. CASE SetAccountActive(r)
  <2>1. /\ c.id \in Accounts /\ Exists(c.id) /\ c.active \in BOOLEAN /\ c.seen = account[c.id]
        /\ ~c.active /\ account[c.id].active => Settled(c.id)
        /\ account' = Written(c.id, [account[c.id] EXCEPT !.active = c.active])
        /\ since' = [since EXCEPT ![c.id] = IF c.active = account[c.id].active THEN @ ELSE NothingSince]
        /\ UNCHANGED <<entries, books, sessions, due, closing, settingVars>>
    BY <1>5, <1>c, <1>f DEF SetAccountActive, Committing, Fits, Fresh
  <2>0. account[c.id] \in AccountRow BY <1>0, <2>1
  <2> DEFINE row == [account[c.id] EXCEPT !.active = c.active]
  <2>2. row \in AccountRow /\ row.active = c.active /\ row.type = account[c.id].type
        /\ row.opening = account[c.id].opening
    BY <2>0, <2>1 DEF AccountRow
  <2>3. account' = Written(c.id, row) BY <2>1
  <2> HIDE DEF row
  <2>5. ASSUME account'[c.id].type = row.type, account'[c.id].opening = row.opening, account'[c.id].active = row.active
        PROVE  Quiet(c.id)' /\ DayStands(c.id)'
    <3>1. (Liability(c.id)' <=> Liability(c.id)) BY <2>2, <2>5 DEF Liability
    <3>2. Balance(c.id)' = Balance(c.id) BY <2>1, <2>2, <2>5, <3>1 DEF Balance
    <3>3. DayStands(c.id)' BY <2>1, <2>2, <2>5, <3>1 DEF DayStands
    <3>4. CASE c.active = account[c.id].active
      <4>1. since'[c.id] = since[c.id] BY <1>0, <2>1, <3>4
      <4>2. Quiet(c.id) BY <2>1
      <4>3. Quiet(c.id)' BY <2>1, <2>2, <2>5, <3>2, <3>4, <4>1, <4>2 DEF Quiet
      <4> QED BY <3>3, <4>3
    <3>5. CASE c.active # account[c.id].active
      <4>1. since'[c.id] = NothingSince BY <1>0, <2>1, <3>5
      <4>2. ~account'[c.id].active => Settled(c.id) BY <1>0, <2>0, <2>1, <2>2, <2>5, <3>5 DEF AccountRow
      <4>3. Quiet(c.id)' BY <2>1, <3>2, <4>1, <4>2 DEF Quiet, Settled, NothingSince
      <4> QED BY <3>3, <4>3
    <3> QED BY <3>4, <3>5
  <2>6. \A b \in Accounts \ {c.id} : since'[b] = since[b] BY <1>0, <2>1
  <2> QED BY <1>2, <2>1, <2>2, <2>3, <2>5, <2>6
<1>6. CASE Reconcile(r)
  <2> DEFINE j == Journal(c)
  <2>1. /\ c.id \in Accounts /\ Exists(c.id) /\ account[c.id].active
        /\ c.expected \in Nat /\ c.target \in Nat
        /\ account' = Written(c.id, account[c.id])
        /\ entries' = Posted(c.id, j.account)
        /\ UNCHANGED <<sessions, due, closing, since, settingVars>>
    BY <1>6, <1>c, <1>f DEF Reconcile, Committing, Fits, Fresh
  <2>2. account[c.id] \in AccountRow BY <1>0, <2>1
  <2>3. j.account \in Int BY <2>1 DEF Journal, Debit
  <2>4. entries \in [Accounts -> [net : Int, count : Nat]] BY DEF AccountsOK
  <2> HIDE DEF j
  <2>5. \A b \in Accounts \ {c.id} : entries'[b] = entries[b] BY <2>1, <2>3, <2>4, PostedIs
  <2>6. ASSUME /\ account'[c.id].type = account[c.id].type /\ account'[c.id].opening = account[c.id].opening
               /\ account'[c.id].active = account[c.id].active
        PROVE  Quiet(c.id)' /\ DayStands(c.id)'
    BY <2>1, <2>6, ActiveStands
  <2> QED BY <1>2, <2>1, <2>2, <2>5, <2>6
<1> QED BY <1>1, <1>3, <1>4, <1>5, <1>6 DEF AccountStep

\* A correction is all that reaches an account that is switched off.
LEMMA CorrectedStands ==
  ASSUME AccountsOK, RowsOK, NEW a \in Accounts, NEW x \in Int, Corrected(a, x),
         NEW b \in Accounts, Quiet(b), DayStands(b)
  PROVE  Quiet(b)' /\ DayStands(b)'
<1>0. /\ account[b] \in AccountRow /\ entries[b].net \in Int /\ entries[b].count \in Nat
      /\ due[b] \in Nat /\ since[b].corrected \in Int /\ since[b].reopened \in Nat
      /\ account[b].opening \in Nat
  BY DEF AccountsOK, RowsOK, History, AccountRow
<1>1. DayStands(b)' BY DEF Corrected, DayStands, Liability
<1>2. SUFFICES ASSUME ~account[b].active PROVE Quiet(b)' BY <1>1 DEF Corrected, Quiet
<1>3. /\ b \notin sessions.open /\ due[b] <= since[b].reopened
      /\ entries[b].count > 0 => Balance(b) = since[b].corrected /\ Balance(b) >= 0
      /\ account[b].type = "CASH" => since[b].corrected = 0 /\ since[b].reopened = 0
  BY <1>2 DEF Quiet
<1>4. b \notin sessions'.open /\ due'[b] <= since'[b].reopened
  <2>1. \/ due'[b] = due[b] /\ since'[b].reopened = since[b].reopened
        \/ due'[b] = due[b] + 1 /\ since'[b].reopened = since[b].reopened + 1
    BY DEF Corrected
  <2> QED BY <1>0, <1>3, <2>1 DEF Corrected
<1>5. account[b].type = "CASH" => since'[b].reopened = 0 BY <1>3 DEF Corrected, Destination
<1>6. CASE b = a
  <2>1. Correctable(b, x) /\ entries[b].count > 0 /\ entries'[b].net = entries[b].net + x
        /\ since'[b].corrected = since[b].corrected + Change(b, x) /\ UNCHANGED account
    BY <1>6 DEF Corrected
  <2>2. account[b].type # "CASH" BY <1>3, <2>1 DEF Correctable
  <2>3. Balance(b) = since[b].corrected /\ Balance(b) >= 0 BY <1>3, <2>1
  <2>4. Balance(b)' = Balance(b) + Change(b, x) /\ Balance(b) \in Int /\ Change(b, x) \in Int
    BY <1>0, <2>1 DEF Balance, Liability, Change
  <2>5. Balance(b)' >= 0 BY <2>1, <2>3, <2>4 DEF Correctable
  <2>6. Balance(b)' = since'[b].corrected BY <2>1, <2>3, <2>4
  <2> QED BY <1>4, <2>1, <2>2, <2>5, <2>6 DEF Quiet
<1>7. CASE b # a
  <2>1. entries'[b] = entries[b] /\ since'[b].corrected = since[b].corrected /\ UNCHANGED account
    BY <1>0, <1>7 DEF Corrected
  <2>2. Balance(b)' = Balance(b) BY <2>1 DEF Balance, Liability
  <2> QED BY <1>3, <1>4, <1>5, <2>1, <2>2 DEF Quiet
<1> QED BY <1>6, <1>7

\* The counter posts to active accounts, corrects others, and the end of a day writes down what is there.
LEMMA CounterStands ==
  ASSUME AccountsOK, RowsOK, UNCHANGED account, CounterStep \/ EndDay, due' \in [Accounts -> Nat],
         \A a \in Accounts : Exists(a) => Quiet(a) /\ DayStands(a)
  PROVE  \A a \in Accounts : Exists(a)' => Quiet(a)' /\ DayStands(a)'
<1>0. /\ entries \in [Accounts -> [net : Int, count : Nat]] /\ due \in [Accounts -> Nat]
      /\ \A a \in Accounts : (Exists(a)' => Exists(a)) /\ due[a] <= due[a]
  BY DEF AccountsOK, Exists
<1>1. ASSUME NEW a \in Accounts, account[a].active, \A b \in Accounts \ {a} : Untold(b), UNCHANGED closing
      PROVE  \A b \in Accounts : Exists(b)' => Quiet(b)' /\ DayStands(b)'
  <2>1. ASSUME Exists(a)' PROVE Quiet(a)' /\ DayStands(a)' BY <1>0, <1>1, <2>1, ActiveStands
  <2>2. ASSUME NEW b \in Accounts \ {a}, Exists(b)' PROVE Quiet(b)' /\ DayStands(b)'
    BY <1>0, <1>1, <2>2, UntoldStands
  <2> QED BY <2>1, <2>2
<1>2. ASSUME NEW a \in Accounts, NEW n \in Steps, Post(a, n)
      PROVE  \A b \in Accounts : Exists(b)' => Quiet(b)' /\ DayStands(b)'
  <2>1. \A b \in Accounts \ {a} : entries'[b] = entries[b]
    <3>1. n \in Int BY DEF Steps
    <3> QED BY <1>0, <1>2, <3>1, PostedIs DEF Post
  <2>2. \A b \in Accounts \ {a} : Untold(b) BY <1>0, <1>2, <2>1 DEF Post, Untold
  <2> QED BY <1>1, <1>2, <2>2 DEF Post
<1>3. ASSUME NEW a \in Accounts, OpenDrawer(a)
      PROVE  \A b \in Accounts : Exists(b)' => Quiet(b)' /\ DayStands(b)'
  <2>1. \A b \in Accounts \ {a} : Untold(b) BY <1>0, <1>3 DEF OpenDrawer, Untold
  <2> QED BY <1>1, <1>3, <2>1 DEF OpenDrawer
<1>4. ASSUME NEW a \in Accounts, CloseDrawer(a)
      PROVE  \A b \in Accounts : Exists(b)' => Quiet(b)' /\ DayStands(b)'
  <2>1. sessions \in [open : SUBSET Accounts, ever : SUBSET Accounts] BY DEF AccountsOK
  <2>2. sessions'.open \subseteq sessions.open BY <1>4, <2>1 DEF CloseDrawer
  <2>3. \A b \in Accounts : Untold(b) BY <1>0, <1>4, <2>2 DEF CloseDrawer, Untold
  <2> QED BY <1>0, <2>3, UntoldStands
<1>5. ASSUME NEW a \in Accounts, Expect(a)
      PROVE  \A b \in Accounts : Exists(b)' => Quiet(b)' /\ DayStands(b)'
  <2>1. \A b \in Accounts \ {a} : Untold(b) BY <1>0, <1>5 DEF Expect, Untold
  <2> QED BY <1>1, <1>5, <2>1 DEF Expect
<1>6. ASSUME NEW a \in Accounts, NEW d \in Accounts, Receive(a, d)
      PROVE  \A b \in Accounts : Exists(b)' => Quiet(b)' /\ DayStands(b)'
  <2>1. \A b \in Accounts \ {d} : entries'[b] = entries[b]
    <3>1. 1 \in Int OBVIOUS
    <3>2. entries' = Posted(d, 1) BY <1>6 DEF Receive
    <3> QED BY <1>0, <3>1, <3>2, PostedIs
  <2>2. \A b \in Accounts : due'[b] <= due[b] BY <1>0, <1>6 DEF Receive
  <2>3. \A b \in Accounts \ {d} : Untold(b) BY <1>6, <2>1, <2>2 DEF Receive, Untold
  <2> QED BY <1>1, <1>6, <2>3 DEF Receive
<1>7. ASSUME NEW a \in Accounts, Withdraw(a)
      PROVE  \A b \in Accounts : Exists(b)' => Quiet(b)' /\ DayStands(b)'
  <2>1. \A b \in Accounts : due'[b] <= due[b] BY <1>0, <1>7 DEF Withdraw
  <2>2. \A b \in Accounts : Untold(b) BY <1>7, <2>1 DEF Withdraw, Untold
  <2> QED BY <1>0, <2>2, UntoldStands
<1>8. ASSUME NEW k \in DOMAIN rows, TakeBack(k) \/ \E n \in Steps \cup {0} : Edit(k, n)
      PROVE  \A b \in Accounts : Exists(b)' => Quiet(b)' /\ DayStands(b)'
  <2>1. PICK a \in Accounts, x \in Int : Corrected(a, x) BY <1>8, CorrectedIs
  <2> QED BY <1>0, <2>1, CorrectedStands
<1>9. ASSUME EndDay, NEW b \in Accounts, Exists(b)'
      PROVE  Quiet(b)' /\ DayStands(b)'
  <2>1. UNCHANGED <<account, entries, sessions, due, since>> /\ Exists(b) /\ Quiet(b) BY <1>0, <1>9 DEF EndDay
  <2>2. closing'[b] = [balance |-> Balance(b), net |-> entries[b].net] BY <1>9, <2>1 DEF EndDay
  <2>3. Quiet(b)' BY <2>1 DEF Quiet, Balance, Liability
  <2>4. account[b] \in AccountRow /\ entries[b].net \in Int BY <1>0 DEF AccountsOK
  <2>5. account[b].opening \in Int BY <2>4 DEF AccountRow
  <2>6. DayStands(b)' BY <2>1, <2>2, <2>4, <2>5 DEF DayStands, Balance, Liability
  <2> QED BY <2>3, <2>6
<1> QED BY <1>2, <1>3, <1>4, <1>5, <1>6, <1>7, <1>8, <1>9 DEF CounterStep

\* A provider brings an active wallet, and otherwise leaves accounts but for their names.
LEMMA ProviderStands ==
  ASSUME AccountsOK, RowsOK, SettingsOK, WalletsOK, NEW r \in Requests, Fits(call[r]), ProviderStep(r),
         \A a \in Accounts : Exists(a) => Quiet(a) /\ DayStands(a)
  PROVE  \A a \in Accounts : Exists(a)' => Quiet(a)' /\ DayStands(a)'
<1>c. PICK c : c = call[r] OBVIOUS
<1>0. /\ account \in [Accounts -> AccountRow] /\ Fits(c)
      /\ \A p \in Providers : WalletOf[p] \in Accounts /\ WalletOf[p] \in WalletAccounts
      /\ due \in [Accounts -> Nat] /\ \A a \in Accounts : due[a] <= due[a]
  BY <1>c, OfficeAssumption DEF AccountsOK, WalletAccounts
<1>u. UNCHANGED <<entries, sessions, due, closing, since>>
  BY DEF ProviderStep, CreateProvider, UpdateProvider, SetProviderActive, accountVars
<1>1. CASE CreateProvider(r)
  <2>1. PICK p \in Providers \ Present :
          account' = [account EXCEPT ![WalletOf[p]] = NewAccount("PROVIDER_WALLET", Wallet(c.name), 0)]
    BY <1>1, <1>c DEF CreateProvider
  <2>2. c.name \in Names BY <1>0, <1>1, <1>c DEF CreateProvider, Committing, Fits
  <2>w. PICK w \in Accounts : w = WalletOf[p] BY <1>0
  <2> DEFINE new == NewAccount("PROVIDER_WALLET", Wallet(c.name), 0)
  <2>3. new.active BY <2>2, NewAccountIs, NamesAre DEF Types
  <2> HIDE DEF new
  <2>4. account' = [account EXCEPT ![w] = new] BY <2>1, <2>w DEF new
  <2>5. ~Exists(w) BY <1>0, <2>1, <2>w DEF WalletsOK, AccountsOK
  <2>6. closing[w] = None BY <2>5 DEF AccountsOK
  <2>7. Quiet(w)' /\ DayStands(w)' BY <1>0, <1>u, <2>3, <2>4, <2>6 DEF Quiet, DayStands
  <2>8. ASSUME NEW b \in Accounts \ {w}, Exists(b)' PROVE Quiet(b)' /\ DayStands(b)'
    <3>1. account'[b] = account[b] BY <1>0, <2>4
    <3>2. Exists(b) BY <2>8, <3>1 DEF Exists
    <3>3. Untold(b) BY <1>0, <1>u, <3>1 DEF Untold
    <3> QED BY <1>0, <1>u, <3>2, <3>3, UntoldStands
  <2> QED BY <2>7, <2>8
<1>2. ASSUME \A b \in Accounts : Untold(b)
      PROVE  \A b \in Accounts : Exists(b)' => Quiet(b)' /\ DayStands(b)'
  <2>1. ASSUME NEW b \in Accounts, Exists(b)' PROVE Exists(b) BY <1>2, <2>1 DEF Untold, Exists
  <2> QED BY <1>0, <1>u, <1>2, <2>1, UntoldStands
<1>3. CASE UpdateProvider(r)
  <2>1. c.name \in Names /\ c.id \in Providers
    BY <1>0, <1>3, <1>c DEF UpdateProvider, Committing, Fits, Present
  <2>w. PICK w \in Accounts : w = WalletOf[c.id] BY <1>0, <2>1
  <2> DEFINE row == Renamed(account[w], Wallet(c.name))
  <2>2. account' = account \/ account' = Written(w, row) BY <1>3, <1>c, <2>w DEF UpdateProvider
  <2>3. account[w] \in AccountRow BY <1>0
  <2>4. row \in AccountRow /\ \A f \in {"type", "opening", "active"} : row[f] = account[w][f]
    BY <2>1, <2>3, NamesAre DEF Renamed, AccountRow
  <2> HIDE DEF row
  <2>5. /\ \A b \in Accounts \ {w} : Written(w, row)[b] = account[b]
        /\ \A f \in {"type", "opening", "active"} : Written(w, row)[w][f] = row[f]
    BY <1>0, <2>4, WrittenIs
  <2>6. \A b \in Accounts : \A f \in {"type", "opening", "active"} : account'[b][f] = account[b][f]
    BY <2>2, <2>4, <2>5
  <2>7. \A b \in Accounts : Untold(b) BY <1>0, <1>u, <2>6 DEF Untold
  <2> QED BY <1>2, <2>7
<1>4. CASE SetProviderActive(r)
  <2>1. UNCHANGED accountVars BY <1>4 DEF SetProviderActive
  <2>2. \A b \in Accounts : Untold(b) BY <1>0, <2>1 DEF Untold, accountVars
  <2> QED BY <1>2, <2>2
<1> QED BY <1>1, <1>3, <1>4 DEF ProviderStep

\* So only corrections move what is switched off, and a closed day stays closed.
LEMMA StandingNext ==
  ASSUME Shape, InTurn, Standing, [Next]_vars
  PROVE  Standing'
<1> SUFFICES ASSUME Alone' PROVE \A a \in Accounts : Exists(a)' => Quiet(a)' /\ DayStands(a)'
  BY DEF Standing
<1>0. load' = load /\ AccountsOK /\ RowsOK /\ SettingsOK /\ WalletsOK /\ \A r \in Requests : Fits(call[r])
  BY WhoWrites DEF Shape
<1>1. Alone /\ \A r \in InFlight : Fresh(call[r]) BY <1>0 DEF Alone, InTurn
<1>2. \A a \in Accounts : Exists(a) => Quiet(a) /\ DayStands(a) BY <1>1 DEF Standing
<1>3. CASE UNCHANGED accountVars
  BY <1>2, <1>3 DEF accountVars, Exists, Quiet, DayStands, Balance, Liability
<1>4. ASSUME NEW r \in Requests, AccountStep(r)
      PROVE  \A a \in Accounts : Exists(a)' => Quiet(a)' /\ DayStands(a)'
  <2>1. r \in InFlight
    BY <1>4 DEF AccountStep, CreateAccount, SetOpeningBalance, UpdateAccount, SetAccountActive, Reconcile, Committing, InFlight
  <2> QED BY <1>0, <1>1, <1>2, <1>4, <2>1, AccountStepStands
<1>5. ASSUME NEW r \in Requests, ProviderStep(r)
      PROVE  \A a \in Accounts : Exists(a)' => Quiet(a)' /\ DayStands(a)'
  BY <1>0, <1>2, <1>5, ProviderStands
<1>6. CASE Moving /\ (CounterStep \/ EndDay)
  <2>1. UNCHANGED account /\ due' \in [Accounts -> Nat] BY <1>0, <1>6, CounterKeeps DEF AccountsOK
  <2> QED BY <1>0, <1>2, <1>6, <2>1, CounterStands
<1> QED BY <1>3, <1>4, <1>5, <1>6, WhoWrites

\* At first every account is active, nothing is closed, and names are what they should be.
LEMMA StandingInit ==
  ASSUME Init
  PROVE  Standing /\ NamesFollow
<1>0. Shape BY ShapeInit
<1>1. ASSUME NEW a \in Accounts
      PROVE  account[a].ledgerName = account[a].name /\ (Exists(a) => account[a].active) /\ closing[a] = None
  <2> DEFINE p == CHOOSE p \in FirstProviders : WalletOf[p] = a
  <2>0. \/ account[a] = NewAccount(FirstAccounts[a], Typed(a), 0)
        \/ account[a] = NewAccount("PROVIDER_WALLET", Wallet(p), 0)
        \/ account[a] = NoAccount
    BY DEF Init, AccountInit
  <2> HIDE DEF p
  <2>1. \/ \E type, name : account[a] = NewAccount(type, name, 0)
        \/ account[a] = NoAccount
    BY <2>0
  <2>2. closing[a] = None BY DEF Init, AccountInit
  <2>3. ASSUME NEW type, NEW name, account[a] = NewAccount(type, name, 0)
        PROVE  account[a].ledgerName = account[a].name /\ account[a].active
    BY <2>3 DEF NewAccount, NoAccount
  <2>4. ASSUME account[a] = NoAccount
        PROVE  account[a].ledgerName = account[a].name /\ ~Exists(a)
    BY <2>4 DEF NoAccount, Exists
  <2> QED BY <2>1, <2>2, <2>3, <2>4
<1>2. Standing BY <1>1 DEF Standing, Quiet, DayStands
<1>3. ASSUME NEW p \in Present PROVE account[WalletOf[p]].name = Wallet(provider[p].name)
  <2>1. p \in FirstProviders /\ p \in Providers /\ provider[p] = [name |-> p, active |-> TRUE]
    BY DEF Init, SettingInit, Present
  <2>2. WalletOf[p] \in Accounts /\ WalletOf[p] \notin DOMAIN FirstAccounts
    BY <2>1, OfficeAssumption DEF WalletAccounts
  <2>3. \A q \in FirstProviders : WalletOf[q] = WalletOf[p] => q = p BY <2>1, OfficeAssumption DEF IsInjective
  <2> DEFINE q == CHOOSE q \in FirstProviders : WalletOf[q] = WalletOf[p]
  <2>4. q = p BY <2>1, <2>3
  <2>5. account[WalletOf[p]] = NewAccount("PROVIDER_WALLET", Wallet(q), 0)
    BY <2>1, <2>2 DEF Init, AccountInit
  <2> HIDE DEF q
  <2> QED BY <2>1, <2>4, <2>5 DEF NewAccount, NoAccount
<1> QED BY <1>0, <1>1, <1>2, <1>3 DEF NamesFollow, Shape, WalletsOK

(* Accounts stay what their books say (AccountsService, ProvidersService,  *)
(* WalletReconciliationService), for any number of accounts and calls:     *)
(* ledgers bear their account's name and every provider has its wallet,    *)
(* confirmed fees can be booked, and one call after the other an account   *)
(* is settled when it is switched off and only corrections of earlier      *)
(* entries move it then, and a closed day is not moved.                    *)
THEOREM AccountsStandInvariant == Spec => []AccountsStand
<1> DEFINE Inv == Shape /\ InTurn /\ NamesFollow /\ Standing
<1>1. Init => Inv BY ShapeInit, InTurnInit, StandingInit
<1>2. Inv /\ [Next]_vars => Inv' BY ShapeNext, InTurnNext, NamesNext, StandingNext
<1>3. Inv => AccountsStand
  <2>1. Standing => InactiveIsSettled BY DEF Standing, InactiveIsSettled, Own, Quiet
  <2>2. Shape /\ Standing => ClosedDaysStand BY DEF Shape, AccountsOK, Standing, ClosedDaysStand, DayStands
  <2> QED BY <2>1, <2>2, FeesAreBooked DEF AccountsStand
<1> HIDE DEF Inv
<1> QED BY <1>1, <1>2, <1>3, PTL DEF Spec

---------------------------------------------------------------------------
(* Rates and their dates.                                                  *)

(* Two rules of a provider are for different amounts, or one ends before   *)
(* the other begins.                                                       *)
Apart(s, t) == \/ Ends(s) /\ s.max < t.min
               \/ Ends(t) /\ t.max < s.min
Before(x, y) == x.to # None /\ x.to <= y.from
RulesApart ==
    Alone => \A k \in Charges : \A x, y \in rules[k] :
        x.provider = y.provider /\ x # y => Apart(x.slab, y.slab) \/ Before(x, y) \/ Before(y, x)

\* A rule that is ended at a date keeps the rest of it.
LEMMA EndedIs ==
  ASSUME NEW x \in RuleRow, NEW now \in Nat
  PROVE  LET y == [x EXCEPT !.to = now]
         IN  y.provider = x.provider /\ y.slab = x.slab /\ y.from = x.from /\ y.to = now
BY DEF RuleRow

\* Rates are set from a date that is not before any date there is; one call
\* after the other, every rule in force ends then.
LEMMA RulesAreReplaced ==
  ASSUME Shape, InTurn, Alone, NEW r \in Requests, RuleStep(r)
  PROVE  \E k \in Charges, p \in Providers, slabs \in SlabSets :
             /\ Acceptable(slabs) /\ clock' \in Nat /\ clock <= clock'
             /\ rules' = [rules EXCEPT ![k] = Replaced(k, p, Open(k, p), slabs, clock')]
<1> DEFINE c == call[r]
<1>1. PICK k \in Charges : SetRules(r, k) BY DEF RuleStep
<1>2. c.op = k /\ r \in InFlight BY <1>1 DEF SetRules, Committing, InFlight, Charges
<1>3. c.id \in Providers /\ c.slabs \in SlabSets /\ Acceptable(c.slabs) BY <1>2 DEF Shape, Fits, Present
<1>4. c.seen = Open(k, c.id) BY <1>2 DEF InTurn, Fresh
<1>5. PICK ended \in Ended(k, c) :
        /\ clock' \in {clock, clock + 1}
        /\ rules' = [rules EXCEPT ![k] = Replaced(k, c.id, ended, c.slabs, clock')]
  BY <1>1 DEF SetRules
<1>6. ended = Open(k, c.id) BY <1>4, <1>5 DEF Ended
<1>7. clock' \in Nat /\ clock <= clock' BY <1>5 DEF Shape, SettingsOK
<1> QED BY <1>3, <1>5, <1>6, <1>7

\* What a rule after such a step comes from.
LEMMA ReplacedIs ==
  ASSUME NEW k \in Charges, NEW p \in Providers, NEW slabs, NEW now \in Nat,
         rules \in [Charges -> SUBSET RuleRow],
         NEW z \in Replaced(k, p, Open(k, p), slabs, now)
  PROVE  \/ \E s \in slabs : /\ z = Rule(p, s, now) /\ z.provider = p /\ z.slab = s
                             /\ z.from = now /\ z.to = None
         \/ \E x \in rules[k] : /\ z.provider = x.provider /\ z.slab = x.slab /\ z.from = x.from
                                /\ IF x.provider = p /\ x.to = None
                                   THEN z = [x EXCEPT !.to = now] /\ z.to = now ELSE z = x
<1>1. CASE z \in {Rule(p, s, now) : s \in slabs} BY <1>1 DEF Rule
<1>2. CASE z \in {IF x \in Open(k, p) THEN [x EXCEPT !.to = now] ELSE x : x \in rules[k]}
  <2>1. PICK x \in rules[k] : z = IF x \in Open(k, p) THEN [x EXCEPT !.to = now] ELSE x BY <1>2
  <2>2. x \in RuleRow OBVIOUS
  <2>3. x \in Open(k, p) <=> x.provider = p /\ x.to = None BY DEF Open
  <2> QED BY <2>1, <2>2, <2>3, EndedIs
<1> QED BY <1>1, <1>2 DEF Replaced

\* The numbers of a rule.
LEMMA RuleNumbers ==
  ASSUME NEW x \in RuleRow
  PROVE  /\ x.from \in Nat /\ (x.to = None \/ x.to \in Nat) /\ None \notin Nat
         /\ x.slab.min \in Nat /\ (Ends(x.slab) => x.slab.max \in Nat)
BY SettingsAssumption, OfficeAssumption DEF RuleRow, Ends

\* Rules stay apart: what is replaced ends when its successors begin, and
\* these are for different amounts.
LEMMA RulesApartNext ==
  ASSUME Shape, InTurn, RulesApart, [Next]_vars
  PROVE  RulesApart'
<1> SUFFICES ASSUME Alone', NEW k \in Charges, NEW z1 \in rules'[k], NEW z2 \in rules'[k],
                    z1.provider = z2.provider, z1 # z2
             PROVE  Apart(z1.slab, z2.slab) \/ Before(z1, z2) \/ Before(z2, z1)
  BY DEF RulesApart, Apart, Before, Ends
<1>0. Alone BY WhoWrites DEF Alone
<1>1. rules \in [Charges -> SUBSET RuleRow]
      /\ \A h \in Charges : \A x \in rules[h] : x.to = None \/ x.to <= clock
  BY DEF Shape, SettingsOK
<1>2. \A x, y \in rules[k] : x.provider = y.provider /\ x # y => Apart(x.slab, y.slab) \/ Before(x, y) \/ Before(y, x)
  BY <1>0 DEF RulesApart
<1>3. CASE UNCHANGED rules BY <1>2, <1>3
<1>4. ASSUME NEW r \in Requests, RuleStep(r)
      PROVE  Apart(z1.slab, z2.slab) \/ Before(z1, z2) \/ Before(z2, z1)
  <2>1. PICK h \in Charges, p \in Providers, slabs \in SlabSets :
             /\ Acceptable(slabs) /\ clock' \in Nat /\ clock <= clock'
             /\ rules' = [rules EXCEPT ![h] = Replaced(h, p, Open(h, p), slabs, clock')]
    BY <1>0, <1>4, RulesAreReplaced
  <2>2. CASE k # h BY <1>1, <1>2, <2>1, <2>2
  <2>3. CASE k = h
    <3>0. PICK now \in Nat : now = clock' BY <2>1
    <3>1. z1 \in Replaced(k, p, Open(k, p), slabs, now) /\ z2 \in Replaced(k, p, Open(k, p), slabs, now)
      BY <1>1, <2>1, <2>3, <3>0
    <3> DEFINE New(z) == \E s \in slabs : z.provider = p /\ z.slab = s /\ z.from = now /\ z.to = None /\ z = Rule(p, s, now)
               From(z, x) == /\ z.provider = x.provider /\ z.slab = x.slab /\ z.from = x.from
                             /\ IF x.provider = p /\ x.to = None
                                THEN z = [x EXCEPT !.to = now] /\ z.to = now ELSE z = x
    <3>2. ASSUME NEW z \in Replaced(k, p, Open(k, p), slabs, now) PROVE New(z) \/ \E x \in rules[k] : From(z, x)
      BY <1>1, ReplacedIs
    <3>3. ASSUME NEW a, NEW b, New(b), NEW x \in rules[k], From(a, x), a.provider = b.provider PROVE Before(a, b)
      <4>1. x \in RuleRow /\ (x.to = None \/ x.to <= clock) BY <1>1
      <4>2. (x.to = None \/ x.to \in Nat) /\ None \notin Nat /\ clock \in Nat /\ clock <= now
        BY <2>1, <3>0, <4>1, RuleNumbers DEF Shape, SettingsOK
      <4>3. b.from = now /\ x.provider = p BY <3>3
      <4>4. CASE x.to = None BY <3>3, <4>2, <4>3, <4>4 DEF Before
      <4>5. CASE x.to # None BY <3>3, <4>1, <4>2, <4>3, <4>5 DEF Before
      <4> QED BY <4>4, <4>5
    <3>4. CASE New(z1) /\ New(z2)
      <4>1. PICK s \in slabs : z1.slab = s /\ z1 = Rule(p, s, now) BY <3>4
      <4>2. PICK t \in slabs : z2.slab = t /\ z2 = Rule(p, t, now) BY <3>4
      <4>3. s # t BY <4>1, <4>2
      <4>4. s.min \in Nat /\ t.min \in Nat BY <2>1, SettingsAssumption
      <4>5. s.min <= t.min \/ t.min <= s.min BY <4>4
      <4> QED BY <2>1, <4>1, <4>2, <4>3, <4>5 DEF Acceptable, Apart
    <3>5. ASSUME NEW x \in rules[k], NEW y \in rules[k], From(z1, x), From(z2, y)
          PROVE  Apart(z1.slab, z2.slab) \/ Before(z1, z2) \/ Before(z2, z1)
      <4>1. x # y /\ x.provider = y.provider BY <3>5
      <4>2. CASE Apart(x.slab, y.slab) BY <3>5, <4>2
      <4>3. CASE Before(x, y) BY <3>5, <4>3 DEF Before
      <4>4. CASE Before(y, x) BY <3>5, <4>4 DEF Before
      <4> QED BY <1>2, <4>1, <4>2, <4>3, <4>4
    <3>6. New(z1) \/ \E x \in rules[k] : From(z1, x) BY <3>1, <3>2
    <3>7. New(z2) \/ \E x \in rules[k] : From(z2, x) BY <3>1, <3>2
    <3> HIDE DEF New, From
    <3> QED BY <3>3, <3>4, <3>5, <3>6, <3>7
  <2> QED BY <2>2, <2>3
<1> QED BY <1>3, <1>4, WhoWrites

\* Of rules that are apart, at most one applies.
LEMMA OneApplies ==
  ASSUME Shape, RulesApart
  PROVE  OneRule
<1> SUFFICES ASSUME Alone, NEW k \in Charges, NEW p \in Providers, NEW n \in Amounts, NEW date \in 0..clock
             PROVE  Cardinality(Applicable(k, p, n, date)) <= 1
  BY DEF OneRule
<1>0. rules[k] \subseteq RuleRow /\ n \in Nat /\ date \in Nat
  BY SettingsAssumption DEF Shape, SettingsOK
<1>1. ASSUME NEW x \in Applicable(k, p, n, date), NEW y \in Applicable(k, p, n, date), x # y PROVE FALSE
  <2>1. /\ x \in rules[k] /\ y \in rules[k] /\ x.provider = y.provider
        /\ InForce(x, date) /\ InForce(y, date) /\ x.slab.min <= n /\ y.slab.min <= n
        /\ Ends(x.slab) => n <= x.slab.max
        /\ Ends(y.slab) => n <= y.slab.max
    BY DEF Applicable
  <2>2. x \in RuleRow /\ y \in RuleRow BY <1>0, <2>1
  <2>3. Apart(x.slab, y.slab) \/ Before(x, y) \/ Before(y, x) BY <1>1, <2>1 DEF RulesApart
  <2>4. ~Apart(x.slab, y.slab) BY <1>0, <2>1, <2>2, RuleNumbers DEF Apart
  <2>5. ~Before(x, y) /\ ~Before(y, x) BY <1>0, <2>1, <2>2, RuleNumbers DEF Before, InForce
  <2> QED BY <2>3, <2>4, <2>5
<1> DEFINE A == Applicable(k, p, n, date)
<1>2. A = {} \/ \E x \in A : A = {x} BY <1>1
<1> HIDE DEF A
<1>3. ASSUME NEW x, A = {x} PROVE Cardinality(A) <= 1
  <2>1. Cardinality({x}) = 1 BY FS_Singleton
  <2> QED BY <1>3, <2>1
<1>4. ASSUME A = {} PROVE Cardinality(A) <= 1
  <2>1. Cardinality({}) = 0 BY FS_EmptySet
  <2> QED BY <1>4, <2>1
<1>5. Cardinality(A) <= 1 BY <1>2, <1>3, <1>4
<1> QED BY <1>5 DEF A

(* At no date does an amount have two rates, for any number of providers,  *)
(* slabs and changes of them, as long as one call comes after the other    *)
(* (ProvidersService: slabs are refused that overlap, and what they        *)
(* replace ends when they begin).                                          *)
THEOREM OneRuleInvariant == Spec => []OneRule
<1> DEFINE Inv == Shape /\ InTurn /\ RulesApart
<1>1. Init => Inv
  <2>1. Init => RulesApart BY DEF Init, SettingInit, RulesApart
  <2> QED BY <2>1, ShapeInit, InTurnInit
<1>2. Inv /\ [Next]_vars => Inv' BY ShapeNext, InTurnNext, RulesApartNext
<1>3. Inv => OneRule BY OneApplies
<1> HIDE DEF Inv
<1> QED BY <1>1, <1>2, <1>3, PTL DEF Spec

\* A rule that ends now was in force at every earlier date it began before.
LEMMA RatesStandNext ==
  ASSUME Shape, InTurn, [Next]_vars, Alone, NEW k \in Charges, NEW p \in Providers, NEW n \in Amounts,
         NEW date \in 0..(clock - 1)
  PROVE  {x.slab : x \in Applicable(k, p, n, date)'} = {x.slab : x \in Applicable(k, p, n, date)}
<1>0. /\ rules \in [Charges -> SUBSET RuleRow] /\ clock \in Nat /\ date \in Nat /\ date < clock
      /\ \A x \in rules[k] : x \in RuleRow
  BY DEF Shape, SettingsOK
<1>1. CASE UNCHANGED rules BY <1>1 DEF Applicable
<1>2. ASSUME NEW r \in Requests, RuleStep(r)
      PROVE  {x.slab : x \in Applicable(k, p, n, date)'} = {x.slab : x \in Applicable(k, p, n, date)}
  <2>1. PICK h \in Charges, q \in Providers, slabs \in SlabSets :
             /\ clock' \in Nat /\ clock <= clock'
             /\ rules' = [rules EXCEPT ![h] = Replaced(h, q, Open(h, q), slabs, clock')]
    BY <1>2, RulesAreReplaced
  <2>2. CASE k # h
    <3>1. rules'[k] = rules[k] BY <1>0, <2>1, <2>2
    <3> QED BY <3>1 DEF Applicable
  <2>3. CASE k = h
    <3>0. PICK now \in Nat : now = clock' /\ clock <= now BY <2>1
    <3>1. rules'[k] = Replaced(k, q, Open(k, q), slabs, now) BY <1>0, <2>1, <2>3, <3>0
    <3>2. ASSUME NEW z \in Applicable(k, p, n, date)' PROVE \E x \in Applicable(k, p, n, date) : x.slab = z.slab
      <4>1. /\ z \in Replaced(k, q, Open(k, q), slabs, now) /\ z.provider = p /\ z.from <= date
            /\ z.to # None => date < z.to
            /\ z.slab.min <= n /\ (Ends(z.slab) => n <= z.slab.max)
        BY <3>1, <3>2 DEF Applicable, InForce
      <4>2. z.from # now BY <1>0, <3>0, <4>1
      <4>3. PICK x \in rules[k] : /\ z.provider = x.provider /\ z.slab = x.slab /\ z.from = x.from
                                  /\ IF x.provider = q /\ x.to = None
                                     THEN z = [x EXCEPT !.to = now] /\ z.to = now ELSE z = x
        BY <1>0, <4>1, <4>2, ReplacedIs
      <4>4. x \in Applicable(k, p, n, date) BY <4>1, <4>3 DEF Applicable, InForce
      <4> QED BY <4>3, <4>4
    <3>3. ASSUME NEW x \in Applicable(k, p, n, date) PROVE \E z \in Applicable(k, p, n, date)' : z.slab = x.slab
      <4>1. /\ x \in rules[k] /\ x \in RuleRow /\ x.provider = p /\ x.from <= date
            /\ x.to # None => date < x.to
            /\ x.slab.min <= n /\ (Ends(x.slab) => n <= x.slab.max)
        BY <1>0, <3>3 DEF Applicable, InForce
      <4>2. CASE x \in Open(k, q)
        <5> DEFINE z == [x EXCEPT !.to = now]
        <5>1. z \in rules'[k] BY <3>1, <4>1, <4>2 DEF Replaced
        <5>2. z.provider = x.provider /\ z.slab = x.slab /\ z.from = x.from /\ z.to = now BY <4>1, EndedIs
        <5> HIDE DEF z
        <5>3. date < now BY <1>0, <3>0
        <5>4. z \in Applicable(k, p, n, date)' BY <4>1, <5>1, <5>2, <5>3 DEF Applicable, InForce
        <5> QED BY <5>2, <5>4
      <4>3. CASE x \notin Open(k, q)
        <5>1. x \in rules'[k] BY <3>1, <4>1, <4>3 DEF Replaced
        <5>2. x \in Applicable(k, p, n, date)' BY <4>1, <5>1 DEF Applicable, InForce
        <5> QED BY <5>2
      <4> QED BY <4>2, <4>3
    <3> QED BY <3>2, <3>3
  <2> QED BY <2>2, <2>3
<1> QED BY <1>1, <1>2, WhoWrites

(* New slabs leave the rates of earlier dates alone: what is back-dated is *)
(* charged as it was charged then (ProvidersService).                      *)
THEOREM RatesStandProperty == Spec => RatesStand
<1> DEFINE Inv == Shape /\ InTurn
           Stands == Alone => \A k \in Charges, p \in Providers, n \in Amounts, date \in 0..(clock - 1) :
                {x.slab : x \in Applicable(k, p, n, date)'} = {x.slab : x \in Applicable(k, p, n, date)}
<1>1. Init => Inv BY ShapeInit, InTurnInit
<1>2. Inv /\ [Next]_vars => Inv' BY ShapeNext, InTurnNext
<1>3. Inv /\ [Next]_vars => Stands BY RatesStandNext
<1> HIDE DEF Inv
<1>4. Spec => [][Stands]_vars BY <1>1, <1>2, <1>3, PTL DEF Spec
<1> QED BY <1>4 DEF RatesStand

---------------------------------------------------------------------------
(* Reconciliation.                                                         *)

\* The balance moves by what was confirmed, in its direction, whatever was posted meanwhile.
LEMMA ReconcileMoves ==
  ASSUME Shape, NEW r \in Requests, NEW c, c = call[r], Reconcile(r)
  PROVE  Balance(c.id)' - Balance(c.id) = c.target - c.expected /\ Balance(c.id) \in Int /\ Balance(c.id)' \in Int
<1>0. account \in [Accounts -> AccountRow] /\ entries \in [Accounts -> [net : Int, count : Nat]]
  BY DEF Shape, AccountsOK
<1>1. /\ c.id \in Accounts /\ c.expected \in Nat /\ c.target \in Nat
      /\ account' = Written(c.id, account[c.id])
      /\ entries' = Posted(c.id, Journal(c).account)
  BY DEF Reconcile, Committing, Shape, Fits
<1>2. account[c.id] \in AccountRow BY <1>0, <1>1
<1>3. \A f \in {"type", "opening"} : account'[c.id][f] = account[c.id][f] BY <1>0, <1>1, <1>2, WrittenIs
<1> DEFINE d == c.target - c.expected
<1>4. d \in Int /\ Journal(c).account = Debit(c.id, d) BY <1>1 DEF Journal
<1>5. Debit(c.id, d) \in Int BY <1>4 DEF Debit
<1>6. entries'[c.id].net = entries[c.id].net + Debit(c.id, d) BY <1>0, <1>1, <1>4, <1>5, PostedIs
<1>7. entries[c.id].net \in Int /\ account[c.id].opening \in Int BY <1>0, <1>1, <1>2 DEF AccountRow
<1>8. (Liability(c.id)' <=> Liability(c.id)) /\ account'[c.id].opening = account[c.id].opening
  BY <1>3 DEF Liability
<1> HIDE DEF d
<1>9. Balance(c.id)' - Balance(c.id) = d /\ Balance(c.id) \in Int /\ Balance(c.id)' \in Int
  <2>1. CASE Liability(c.id) BY <1>4, <1>6, <1>7, <1>8, <2>1 DEF Balance, Debit
  <2>2. CASE ~Liability(c.id) BY <1>4, <1>6, <1>7, <1>8, <2>2 DEF Balance, Debit
  <2> QED BY <2>1, <2>2
<1> QED BY <1>9 DEF d

\* Who logs something has committed it.
LEMMA LoggedIsCommitted ==
  ASSUME Shape, [Next]_vars, audit' # audit
  PROVE  \E q \in Requests : Commits(q)
<1>1. load \in Loads BY DEF Shape
<1>2. Next BY DEF vars
<1> QED BY <1>1, <1>2, StepIs DEF Begin, Abort, Moving

\* A call for a reconciliation commits one.
LEMMA ReconcileIs ==
  ASSUME NEW r \in Requests, Commits(r), call[r].op = "reconcile"
  PROVE  Reconcile(r)
<1>1. ~ProviderStep(r) BY DEF ProviderStep, CreateProvider, UpdateProvider, SetProviderActive, Committing
<1>2. ~RuleStep(r) BY DEF RuleStep, SetRules, Committing, Charges
<1>3. ~ItemStep(r) BY DEF ItemStep, CreateItem, UpdateItem, SetItemActive, Committing
<1>4. ~ServiceStep(r) BY DEF ServiceStep, CreateService, UpdateService, SetServiceActive, Committing
<1>5. ~CashInStep(r)
  BY DEF CashInStep, CreateCashInTransferType, UpdateCashInTransferType, SetCashInTransferTypeActive, Committing
<1>6. ~CommissionStep(r)
  BY DEF CommissionStep, CreateCommissionRule, UpdateCommissionRule, SetCommissionRuleActive, Committing
<1>7. ~UserStep(r) BY DEF UserStep, CreateUser, UpdateUser, SetUserActive, ResetPassword, Committing
<1>8. AccountStep(r) BY <1>1, <1>2, <1>3, <1>4, <1>5, <1>6, <1>7 DEF Commits
<1> QED BY <1>8 DEF AccountStep, CreateAccount, SetOpeningBalance, UpdateAccount, SetAccountActive, Committing

(* A reconciliation moves the balance by what the owner confirmed and in   *)
(* its direction, whatever was posted since the owner looked; it ends on   *)
(* the verified amount when nothing was (WalletReconciliationService).     *)
THEOREM ReconciliationProperty == Spec => ReconciliationExplained
<1> DEFINE Inv == Shape /\ InTurn
           Explained == \A r \in Requests, a \in Accounts :
             call[r].op = "reconcile" /\ call'[r] = Answered /\ audit' # audit /\ a = call[r].id =>
                 /\ Balance(a)' - Balance(a) = call[r].target - call[r].expected
                 /\ Alone => Balance(a)' = call[r].target
<1>1. Init => Inv BY ShapeInit, InTurnInit
<1>2. Inv /\ [Next]_vars => Inv' BY ShapeNext, InTurnNext
<1>3. Inv /\ [Next]_vars => Explained
  <2> SUFFICES ASSUME Inv, [Next]_vars, NEW r \in Requests, NEW a \in Accounts,
                      call[r].op = "reconcile", call'[r] = Answered, audit' # audit, a = call[r].id
               PROVE  /\ Balance(a)' - Balance(a) = call[r].target - call[r].expected
                      /\ Alone => Balance(a)' = call[r].target
    OBVIOUS
  <2>1. PICK q \in Requests : Commits(q) BY LoggedIsCommitted
  <2>2. call' = [call EXCEPT ![q] = Answered] BY <2>1, CommitAnswers
  <2>3. q = r
    <3>1. ASSUME q # r PROVE call'[r] = call[r] BY <2>2, <3>1 DEF Shape
    <3> QED BY <3>1 DEF Answered
  <2>4. Reconcile(r) BY <2>1, <2>3, ReconcileIs
  <2>c. PICK c : c = call[r] OBVIOUS
  <2>5. /\ Balance(a)' - Balance(a) = c.target - c.expected /\ Balance(a) \in Int /\ Balance(a)' \in Int
        /\ c.target \in Nat /\ c.expected \in Nat
    <3>1. /\ Balance(c.id)' - Balance(c.id) = c.target - c.expected
          /\ Balance(c.id) \in Int /\ Balance(c.id)' \in Int
      BY <2>4, <2>c, ReconcileMoves
    <3>2. a = c.id BY <2>c
    <3> QED BY <2>c, <3>1, <3>2 DEF Shape, Fits
  <2>6. Alone => Balance(a) = c.expected
    <3>1. r \in InFlight BY DEF InFlight
    <3> QED BY <2>c, <3>1 DEF InTurn, Fresh
  <2> QED BY <2>c, <2>5, <2>6
<1> HIDE DEF Inv
<1>4. Spec => [][Explained]_vars BY <1>1, <1>2, <1>3, PTL DEF Spec
<1> QED BY <1>4 DEF ReconciliationExplained

---------------------------------------------------------------------------
(* Who makes an owner.                                                     *)

\* A change of a user that touches an owner is asked for by one.
LEMMA OwnersAsk ==
  ASSUME Shape, InTurn, Alone, NEW r \in Requests, UserStep(r), NEW u \in Users,
         user'[u] # user[u], "OWNER" \in {user[u].role, user'[u].role}
  PROVE  user[call[r].actor].role = "OWNER"
<1> DEFINE c == call[r]
<1>0. user \in [Users -> UserRow] /\ user[u] \in UserRow BY DEF Shape, SettingsOK
<1>f. r \in InFlight => Fresh(c) BY DEF InTurn
<1>1. CASE CreateUser(r)
  <2>1. c.op = "createUser" /\ r \in InFlight BY <1>1 DEF CreateUser, Committing, InFlight
  <2>2. MayManage(c.actor, NoUser, c.role) BY <1>f, <2>1 DEF Fresh
  <2>3. PICK v \in Users \ Known : user' = [user EXCEPT ![v] = [role |-> c.role, active |-> TRUE, password |-> 1]]
    BY <1>1 DEF CreateUser
  <2>4. u = v BY <1>0, <2>3
  <2>5. user[u].role = NoUser.role /\ user'[u].role = c.role BY <1>0, <2>3, <2>4 DEF Known
  <2> QED BY <2>2, <2>5 DEF MayManage
<1>2. CASE UpdateUser(r)
  <2>1. c.op = "updateUser" /\ r \in InFlight BY <1>2 DEF UpdateUser, Committing, InFlight
  <2>2. MayManage(c.actor, c.seen, c.role) /\ c.seen = user[c.id] BY <1>f, <2>1 DEF Fresh
  <2>3. user' = [user EXCEPT ![c.id].role = Given(c.role, @)] BY <1>2 DEF UpdateUser
  <2>4. u = c.id BY <1>0, <2>3
  <2>5. user'[u].role = Given(c.role, user[u].role) BY <1>0, <2>3, <2>4 DEF UserRow
  <2> QED BY <2>2, <2>4, <2>5 DEF MayManage, Given
<1>3. CASE SetUserActive(r)
  <2>1. c.op = "setUserActive" /\ r \in InFlight BY <1>3 DEF SetUserActive, Committing, InFlight
  <2>2. MayManage(c.actor, c.seen, None) /\ c.seen = user[c.id] BY <1>f, <2>1 DEF Fresh
  <2>3. user' = [user EXCEPT ![c.id].active = c.active] BY <1>3 DEF SetUserActive
  <2>4. u = c.id BY <1>0, <2>3
  <2>5. user'[u].role = user[u].role BY <1>0, <2>3, <2>4 DEF UserRow
  <2> QED BY <2>2, <2>4, <2>5 DEF MayManage
<1>4. CASE ResetPassword(r)
  <2>1. c.op = "resetPassword" /\ r \in InFlight BY <1>4 DEF ResetPassword, Committing, InFlight
  <2>2. MayManage(c.actor, c.seen, None) /\ c.seen = user[c.id] BY <1>f, <2>1 DEF Fresh
  <2>3. user' = [user EXCEPT ![c.id].password = @ + 1] BY <1>4 DEF ResetPassword
  <2>4. u = c.id BY <1>0, <2>3
  <2>5. user'[u].role = user[u].role BY <1>0, <2>3, <2>4 DEF UserRow
  <2> QED BY <2>2, <2>4, <2>5 DEF MayManage
<1> QED BY <1>1, <1>2, <1>3, <1>4 DEF UserStep

(* Nobody but an owner makes an owner, or changes one, for any number of   *)
(* users and any sequence of calls that come one after the other: what the *)
(* guard reads of the caller is what the caller still is (UsersService).   *)
THEOREM OwnersByOwnersProperty == Spec => OwnersByOwners
<1> DEFINE Inv == Shape /\ InTurn
           ByOwners == Alone => \A u \in Users :
             user'[u] # user[u] /\ "OWNER" \in {user[u].role, user'[u].role} =>
                 \E r \in Requests : call'[r] # call[r] /\ user[call[r].actor].role = "OWNER"
<1>1. Init => Inv BY ShapeInit, InTurnInit
<1>2. Inv /\ [Next]_vars => Inv' BY ShapeNext, InTurnNext
<1>3. Inv /\ [Next]_vars => ByOwners
  <2> SUFFICES ASSUME Inv, [Next]_vars, Alone, NEW u \in Users,
                      user'[u] # user[u], "OWNER" \in {user[u].role, user'[u].role}
               PROVE  \E r \in Requests : call'[r] # call[r] /\ user[call[r].actor].role = "OWNER"
    OBVIOUS
  <2>1. PICK r \in Requests : UserStep(r) BY WhoWrites
  <2>2. user[call[r].actor].role = "OWNER" BY <2>1, OwnersAsk
  <2>3. call[r].op # "answered" /\ call' = [call EXCEPT ![r] = Answered] BY <2>1, CommitAnswers DEF Commits
  <2>4. call'[r] # call[r] BY <2>3 DEF Shape, Answered
  <2> QED BY <2>2, <2>4
<1> HIDE DEF Inv
<1>4. Spec => [][ByOwners]_vars BY <1>1, <1>2, <1>3, PTL DEF Spec
<1> QED BY <1>4 DEF OwnersByOwners

---------------------------------------------------------------------------
(* The audit log.                                                          *)

(* The log speaks of lines that are there. *)
Named(e) ==
    /\ e.entity \in {"account", "provider", "item", "service", "cashIn", "commission", "user"} \cup Charges
    /\ e.entity = "account" => e.id \in Accounts /\ Exists(e.id) /\ e.what \in {"name", "opening", "active", "balance"}
    /\ e.entity = "provider" => e.id \in Present /\ e.what \in {"name", "active"}
    /\ e.entity \in Charges => e.id \in Providers /\ e.what = "slabs"
    /\ e.entity = "item" => e.id \in Items /\ item[e.id] # NoItem /\ e.what \in {"value", "active"}
    /\ e.entity = "service" => e.id = None /\ service # NoService /\ e.what \in {"value", "active"}
    /\ e.entity = "cashIn" => e.id = None /\ cashIn # NoCashIn /\ e.what \in {"value", "active"}
    /\ e.entity = "commission" => e.id \in DOMAIN commission /\ e.what \in {"scope", "active"}
    /\ e.entity = "user" => e.id \in Known /\ e.what \in {"role", "active", "password"}

LogOK == (\E S : audit \in Seq(S)) /\ \A k \in DOMAIN audit : Named(audit[k])

Same(e, f) == e.entity = f.entity /\ e.id = f.id /\ e.what = f.what

(* A step logs what it changes and nothing else: the new values are what   *)
(* the fields then hold and, one call after the other, the old ones what   *)
(* they held.                                                              *)
Speaks(e) ==
    /\ Named(e)'
    /\ Tracked(e) => e.new = Current(e)'
    /\ Alone /\ Named(e) /\ Tracked(e) => e.old = Current(e)

Logged(lines) ==
    /\ audit' = audit \o lines /\ \E S : lines \in Seq(S)
    /\ \A i \in DOMAIN lines : Speaks(lines[i])
    /\ \A i, j \in DOMAIN lines : i # j => ~Same(lines[i], lines[j])
    /\ \A e : Named(e) /\ Tracked(e) /\ (\A i \in DOMAIN lines : ~Same(e, lines[i])) => Current(e)' = Current(e)

\* Entries about the same field agree on what it holds.
LEMMA SameField ==
  ASSUME NEW e, NEW f, Same(e, f)
  PROVE  Current(e) = Current(f) /\ (Tracked(e) <=> Tracked(f)) /\ (Named(e) <=> Named(f))
<1>1. Current(e) = Current(f) BY DEF Same, Current
<1>2. Tracked(e) <=> Tracked(f) BY DEF Same, Tracked
<1>3. Named(e) <=> Named(f) BY DEF Same, Named
<1> QED BY <1>1, <1>2, <1>3

\* What is logged is appended to the log.
LEMMA AppendedIs ==
  ASSUME NEW s, \E S : s \in Seq(S), NEW t, \E S : t \in Seq(S)
  PROVE  /\ \E S : s \o t \in Seq(S)
         /\ Len(s) \in Nat /\ Len(t) \in Nat /\ DOMAIN s = 1..Len(s) /\ DOMAIN t = 1..Len(t)
         /\ DOMAIN (s \o t) = 1..(Len(s) + Len(t))
         /\ \A k \in 1..Len(s) : (s \o t)[k] = s[k]
         /\ \A k \in 1..Len(t) : (s \o t)[Len(s) + k] = t[k]
<1>1. PICK S : s \in Seq(S) OBVIOUS
<1>2. PICK T : t \in Seq(T) OBVIOUS
<1> DEFINE U == S \cup T
<1>3. s \in Seq(U) /\ t \in Seq(U)
  <2>1. \A A, B : A \subseteq B => Seq(A) \subseteq Seq(B) OBVIOUS
  <2>2. S \subseteq U /\ T \subseteq U OBVIOUS
  <2> HIDE DEF U
  <2> QED BY <1>1, <1>2, <2>1, <2>2
<1> HIDE DEF U
<1>4. /\ s \o t \in Seq(U) /\ Len(s \o t) = Len(s) + Len(t)
      /\ \A i \in 1..(Len(s) + Len(t)) : (s \o t)[i] = IF i <= Len(s) THEN s[i] ELSE t[i - Len(s)]
  BY <1>3, ConcatProperties
<1>5. Len(s) \in Nat /\ Len(t) \in Nat /\ DOMAIN s = 1..Len(s) /\ DOMAIN t = 1..Len(t) BY <1>3
<1>6. DOMAIN (s \o t) = 1..(Len(s) + Len(t)) BY <1>4
<1> HIDE DEF U
<1>7. \A k \in 1..Len(s) : (s \o t)[k] = s[k] BY <1>4, <1>5
<1>8. ASSUME NEW k \in 1..Len(t) PROVE (s \o t)[Len(s) + k] = t[k]
  <2>1. Len(s) + k \in 1..(Len(s) + Len(t)) /\ ~(Len(s) + k <= Len(s)) /\ (Len(s) + k) - Len(s) = k BY <1>5
  <2> QED BY <1>4, <2>1
<1> QED BY <1>4, <1>5, <1>6, <1>7, <1>8

\* The last of some entries.
LEMMA LastOf ==
  ASSUME NEW n \in Nat, NEW S \in SUBSET (1..n), S # {}
  PROVE  LET j == CHOOSE j \in S : \A i \in S : i <= j IN j \in S /\ \A i \in S : i <= j
<1> DEFINE f == [k \in 1..n |-> k]
<1>1. IsFiniteSet(1..n) /\ f \in [1..n -> Int] BY FS_Interval
<1>2. \E x \in S : \A y \in S : f[y] <= f[x] BY <1>1, Greatest
<1>3. \E x \in S : \A y \in S : y <= x BY <1>2
<1> QED BY <1>3

\* A log that is true stays true when a step logs what it changes.
LEMMA LogKeeps ==
  ASSUME LogOK, AuditCurrent, AuditChain, NEW lines, Logged(lines), load' = load, \A e : Named(e) => Named(e)'
  PROVE  LogOK' /\ AuditCurrent' /\ AuditChain'
<1> DEFINE n == Len(audit)
           m == Len(lines)
<1>0. /\ \E S : audit' \in Seq(S)
      /\ n \in Nat /\ m \in Nat /\ DOMAIN audit = 1..n /\ DOMAIN lines = 1..m
      /\ DOMAIN audit' = 1..(n + m)
      /\ \A k \in 1..n : audit'[k] = audit[k]
      /\ \A k \in 1..m : audit'[n + k] = lines[k]
  <2>1. /\ audit' = audit \o lines /\ (\E S : lines \in Seq(S)) /\ \E S : audit \in Seq(S) BY DEF Logged, LogOK
  <2>2. PICK s, t : s = audit /\ t = lines OBVIOUS
  <2>3. (\E S : s \in Seq(S)) /\ (\E S : t \in Seq(S)) BY <2>1, <2>2
  <2>4. /\ \E S : s \o t \in Seq(S)
        /\ Len(s) \in Nat /\ Len(t) \in Nat /\ DOMAIN s = 1..Len(s) /\ DOMAIN t = 1..Len(t)
        /\ DOMAIN (s \o t) = 1..(Len(s) + Len(t))
        /\ \A k \in 1..Len(s) : (s \o t)[k] = s[k]
        /\ \A k \in 1..Len(t) : (s \o t)[Len(s) + k] = t[k]
    BY <2>3, AppendedIs
  <2>5. audit' = s \o t /\ Len(s) = n /\ Len(t) = m BY <2>1, <2>2
  <2> HIDE DEF n, m
  <2> QED BY <2>2, <2>4, <2>5
<1> HIDE DEF n, m
<1>1. \A k \in DOMAIN audit' : k \in 1..n \/ \E i \in 1..m : k = n + i
  <2>1. SUFFICES ASSUME NEW k \in 1..(n + m), k \notin 1..n PROVE \E i \in 1..m : k = n + i BY <1>0
  <2>n. n \in Nat /\ m \in Nat BY <1>0
  <2>2. k - n \in 1..m /\ k = n + (k - n) BY <2>1, <2>n
  <2> QED BY <2>2
<1>2. \A i \in 1..m : n + i \in DOMAIN audit' /\ n + i \notin 1..n /\ n + i > n BY <1>0
<1>3. \A k \in 1..n : k \in DOMAIN audit' BY <1>0
<1>4. ASSUME NEW k \in DOMAIN audit' PROVE Named(audit[k])'
  <2>1. CASE k \in 1..n
    <3>1. PICK e : e = audit[k] OBVIOUS
    <3>2. Named(e)' BY <1>0, <2>1, <3>1 DEF LogOK
    <3>3. e = audit'[k] BY <1>0, <2>1, <3>1
    <3> QED BY <3>2, <3>3
  <2>2. CASE \E i \in 1..m : k = n + i
    <3>1. PICK i \in 1..m : k = n + i BY <2>2
    <3>2. PICK e : e = lines[i] OBVIOUS
    <3>3. Named(e)' /\ e = audit'[k] BY <1>0, <3>1, <3>2 DEF Logged, Speaks
    <3> QED BY <3>3
  <2> QED BY <1>1, <2>1, <2>2
<1>5. LogOK' BY <1>0, <1>4 DEF LogOK
<1>6. ASSUME NEW k \in DOMAIN audit', NEW e, e = audit'[k], Tracked(e),
             \A j \in DOMAIN audit' : Same(audit'[j], e) => j <= k
      PROVE  e.new = Current(e)'
  <2>1. CASE k \in 1..n
    <3>1. e = audit[k] /\ Named(e) BY <1>0, <1>6, <2>1 DEF LogOK
    <3>2. \A j \in About(e) : j <= k
      <4>1. \A j \in About(e) : j \in DOMAIN audit' /\ Same(audit'[j], e) BY <1>0, <1>3 DEF About, Same
      <4> QED BY <1>6, <4>1
    <3>3. e.new = Current(e) BY <1>0, <1>6, <2>1, <3>1, <3>2 DEF AuditCurrent
    <3>4. \A i \in 1..m : ~Same(e, lines[i])
      <4>1. SUFFICES ASSUME NEW i \in 1..m, Same(e, lines[i]) PROVE FALSE OBVIOUS
      <4>2. Same(audit'[n + i], e) BY <1>0, <4>1 DEF Same
      <4>3. n + i <= k BY <1>2, <1>6, <4>2
      <4> QED BY <1>0, <1>2, <2>1, <4>3
    <3>5. Current(e)' = Current(e) BY <1>0, <1>6, <3>1, <3>4 DEF Logged
    <3> QED BY <3>3, <3>5
  <2>2. CASE \E i \in 1..m : k = n + i
    <3>1. PICK i \in 1..m : k = n + i BY <2>2
    <3>2. e = lines[i] BY <1>0, <1>6, <3>1
    <3>3. Speaks(e) BY <1>0, <3>2 DEF Logged
    <3> QED BY <1>6, <3>3 DEF Speaks
  <2> QED BY <1>1, <2>1, <2>2
<1>7. AuditCurrent'
  <2>1. SUFFICES ASSUME NEW k \in DOMAIN audit', Tracked(audit'[k]), \A j \in About(audit[k])' : j <= k
                 PROVE  audit'[k].new = Current(audit[k])'
    BY DEF AuditCurrent, Tracked
  <2>2. PICK e : e = audit'[k] OBVIOUS
  <2>3. \A j \in DOMAIN audit' : Same(audit'[j], e) => j <= k BY <2>1, <2>2 DEF About, Same
  <2>4. e.new = Current(e)' BY <1>6, <2>1, <2>2, <2>3
  <2> QED BY <2>2, <2>4
<1>8. ASSUME Alone, NEW k \in DOMAIN audit', NEW e, e = audit'[k], Tracked(e), NEW S,
             S = {j \in DOMAIN audit' : Same(audit'[j], e) /\ j < k}, S # {}
      PROVE  e.old = audit'[CHOOSE j \in S : \A i \in S : i <= j].new
  <2>1. CASE k \in 1..n
    <3>1. e = audit[k] BY <1>0, <1>8, <2>1
    <3>2. S = {j \in About(e) : j < k}
      <4>1. ASSUME NEW j \in S PROVE j \in About(e) /\ j < k
        <5>1. j \in DOMAIN audit' /\ j < k /\ Same(audit'[j], e) BY <1>8
        <5>2. j \in 1..n BY <1>0, <2>1, <5>1
        <5> QED BY <1>0, <5>1, <5>2 DEF About, Same
      <4>2. ASSUME NEW j \in About(e), j < k PROVE j \in S
        <5>1. j \in 1..n /\ Same(audit[j], e) BY <1>0 DEF About, Same
        <5> QED BY <1>0, <1>3, <1>8, <4>2, <5>1
      <4> QED BY <4>1, <4>2
    <3> DEFINE j == CHOOSE j \in S : \A i \in S : i <= j
    <3>3. e.old = audit[j].new BY <1>0, <1>8, <2>1, <3>1, <3>2 DEF AuditChain
    <3>4. S \in SUBSET (1..n) BY <1>0, <3>2 DEF About
    <3>5. j \in S BY <1>0, <1>8, <3>4, LastOf
    <3> HIDE DEF j
    <3>6. audit'[j] = audit[j] BY <1>0, <3>4, <3>5
    <3> QED BY <3>3, <3>6 DEF j
  <2>2. CASE \E i \in 1..m : k = n + i
    <3>1. PICK i \in 1..m : k = n + i BY <2>2
    <3>2. e = lines[i] /\ Speaks(e) BY <1>0, <1>8, <3>1 DEF Logged
    <3>3. ASSUME NEW j \in S PROVE j \in 1..n /\ Same(audit[j], e)
      <4>1. j \in DOMAIN audit' /\ Same(audit'[j], e) /\ j < k BY <1>8
      <4>2. ASSUME NEW h \in 1..m, j = n + h PROVE FALSE
        <5>1. Same(lines[h], lines[i]) BY <1>0, <3>2, <4>1, <4>2
        <5>2. h # i BY <1>0, <3>1, <4>1, <4>2
        <5> QED BY <1>0, <5>1, <5>2 DEF Logged
      <4>3. j \in 1..n BY <1>1, <4>1, <4>2
      <4> QED BY <1>0, <4>1, <4>3
    <3>4. S \in SUBSET (1..n) BY <3>3
    <3> DEFINE j == CHOOSE j \in S : \A h \in S : h <= j
    <3>5. j \in S /\ \A h \in S : h <= j BY <1>0, <1>8, <3>4, LastOf
    <3> HIDE DEF j
    <3>6. PICK f : f = audit[j] OBVIOUS
    <3>7. j \in 1..n /\ Same(f, e) /\ Named(f) /\ audit'[j] = f BY <1>0, <3>3, <3>5, <3>6 DEF LogOK
    <3>8. \A h \in About(f) : h <= j
      <4>1. SUFFICES ASSUME NEW h \in About(f) PROVE h \in S BY <3>5
      <4>2. h \in 1..n /\ Same(audit[h], f) BY <1>0 DEF About, Same
      <4>3. Same(audit'[h], e) BY <1>0, <3>7, <4>2 DEF Same
      <4>4. h \in DOMAIN audit' /\ h < k BY <1>0, <1>3, <3>1, <4>2
      <4> QED BY <1>8, <4>3, <4>4
    <3>9. Current(e) = Current(f) /\ Tracked(f) /\ Named(e) BY <1>8, <3>7, SameField
    <3>10. f.new = Current(f) BY <1>0, <3>6, <3>7, <3>8, <3>9 DEF AuditCurrent
    <3>11. e.old = Current(e) BY <1>8, <3>2, <3>9 DEF Speaks
    <3> QED BY <3>7, <3>9, <3>10, <3>11 DEF j
  <2> QED BY <1>1, <2>1, <2>2
<1>9. AuditChain'
  <2> DEFINE E(k) == {j \in About(audit[k])' : j < k}
  <2>1. ASSUME Alone, NEW k \in DOMAIN audit', E(k) # {}, Tracked(audit'[k])
        PROVE  audit'[k].old = audit'[CHOOSE j \in E(k) : \A i \in E(k) : i <= j].new
    <3>1. PICK e : e = audit'[k] OBVIOUS
    <3>2. PICK S : S = E(k) OBVIOUS
    <3>3. S = {j \in DOMAIN audit' : Same(audit'[j], e) /\ j < k} BY <3>1, <3>2 DEF About, Same
    <3>4. e.old = audit'[CHOOSE j \in S : \A i \in S : i <= j].new BY <1>8, <2>1, <3>1, <3>2, <3>3
    <3> QED BY <3>1, <3>2, <3>4
  <2>2. Alone' <=> Alone BY DEF Alone
  <2>3. \A k \in DOMAIN audit' : Tracked(audit[k])' <=> Tracked(audit'[k]) BY DEF Tracked
  <2> QED BY <2>1, <2>2, <2>3 DEF AuditChain
<1> QED BY <1>5, <1>7, <1>9

\* What the entries about each table say of it.
LEMMA CurrentIs ==
  ASSUME NEW e
  PROVE  /\ e.entity = "account" => Current(e) = account[e.id][e.what] /\ Current(e)' = account'[e.id][e.what]
         /\ e.entity = "provider" => Current(e) = provider[e.id][e.what] /\ Current(e)' = provider'[e.id][e.what]
         /\ e.entity \in Charges => /\ Current(e) = {x.slab : x \in Open(e.entity, e.id)}
                                    /\ Current(e)' = {x.slab : x \in Open(e.entity, e.id)'}
         /\ e.entity = "item" => Current(e) = item[e.id][e.what] /\ Current(e)' = item'[e.id][e.what]
         /\ e.entity = "service" /\ e.what = "value" => /\ Current(e) = <<service.allow, service.only>>
                                                        /\ Current(e)' = <<service'.allow, service'.only>>
         /\ e.entity = "service" /\ e.what = "active" => Current(e) = service.active /\ Current(e)' = service'.active
         /\ e.entity = "cashIn" /\ e.what = "value" => /\ Current(e) = <<cashIn.mode, cashIn.rate>>
                                                       /\ Current(e)' = <<cashIn'.mode, cashIn'.rate>>
         /\ e.entity = "cashIn" /\ e.what = "active" => Current(e) = cashIn.active /\ Current(e)' = cashIn'.active
         /\ e.entity = "commission" => Current(e) = commission[e.id][e.what] /\ Current(e)' = commission'[e.id][e.what]
         /\ e.entity = "user" => Current(e) = user[e.id][e.what] /\ Current(e)' = user'[e.id][e.what]
<1>1. e.entity = "account" => Current(e) = account[e.id][e.what] /\ Current(e)' = account'[e.id][e.what]
  BY DEF Current, Charges
<1>2. e.entity = "provider" => Current(e) = provider[e.id][e.what] /\ Current(e)' = provider'[e.id][e.what]
  BY DEF Current, Charges
<1>3. e.entity \in Charges => /\ Current(e) = {x.slab : x \in Open(e.entity, e.id)}
                              /\ Current(e)' = {x.slab : x \in Open(e.entity, e.id)'}
  BY DEF Current, Charges
<1>4. e.entity = "item" => Current(e) = item[e.id][e.what] /\ Current(e)' = item'[e.id][e.what]
  BY DEF Current, Charges
<1>5. /\ e.entity = "service" /\ e.what = "value" => /\ Current(e) = <<service.allow, service.only>>
                                                     /\ Current(e)' = <<service'.allow, service'.only>>
      /\ e.entity = "service" /\ e.what = "active" => Current(e) = service.active /\ Current(e)' = service'.active
  BY DEF Current, Charges
<1>6. /\ e.entity = "cashIn" /\ e.what = "value" => /\ Current(e) = <<cashIn.mode, cashIn.rate>>
                                                    /\ Current(e)' = <<cashIn'.mode, cashIn'.rate>>
      /\ e.entity = "cashIn" /\ e.what = "active" => Current(e) = cashIn.active /\ Current(e)' = cashIn'.active
  BY DEF Current, Charges
<1>7. e.entity = "commission" => Current(e) = commission[e.id][e.what] /\ Current(e)' = commission'[e.id][e.what]
  BY DEF Current, Charges
<1>8. e.entity = "user" => Current(e) = user[e.id][e.what] /\ Current(e)' = user'[e.id][e.what]
  BY DEF Current, Charges
<1> QED BY <1>1, <1>2, <1>3, <1>4, <1>5, <1>6, <1>7, <1>8

\* Fields of a table that is not written stay.
LEMMA TablesStay ==
  ASSUME NEW f, Named(f)
  PROVE  /\ f.entity = "account" /\ UNCHANGED account => Current(f)' = Current(f)
         /\ f.entity = "provider" /\ UNCHANGED provider => Current(f)' = Current(f)
         /\ f.entity \in Charges /\ UNCHANGED rules => Current(f)' = Current(f)
         /\ f.entity = "item" /\ UNCHANGED item => Current(f)' = Current(f)
         /\ f.entity = "service" /\ UNCHANGED service => Current(f)' = Current(f)
         /\ f.entity = "cashIn" /\ UNCHANGED cashIn => Current(f)' = Current(f)
         /\ f.entity = "commission" /\ UNCHANGED commission => Current(f)' = Current(f)
         /\ f.entity = "user" /\ UNCHANGED user => Current(f)' = Current(f)
<1>1. f.entity \in Charges /\ UNCHANGED rules => Current(f)' = Current(f) BY CurrentIs DEF Open
<1>2. f.entity = "service" /\ UNCHANGED service => Current(f)' = Current(f) BY CurrentIs DEF Named
<1>3. f.entity = "cashIn" /\ UNCHANGED cashIn => Current(f)' = Current(f) BY CurrentIs DEF Named
<1> QED BY <1>1, <1>2, <1>3, CurrentIs

\* A step that logs one entry, and one that logs two.
LEMMA OneLogged ==
  ASSUME NEW e, audit' = audit \o <<e>>, Speaks(e),
         \A f : Named(f) /\ Tracked(f) /\ ~Same(f, e) => Current(f)' = Current(f)
  PROVE  \E lines : Logged(lines)
<1> DEFINE lines == <<e>>
<1>1. DOMAIN lines = {1} /\ lines[1] = e /\ lines \in Seq({e}) OBVIOUS
<1>2. audit' = audit \o lines OBVIOUS
<1> HIDE DEF lines
<1>3. Logged(lines) BY <1>1, <1>2 DEF Logged
<1> QED BY <1>3

\* Two entries about different fields.
LEMMA TwoLogged ==
  ASSUME NEW e, NEW g, audit' = audit \o <<e, g>>, Speaks(e), Speaks(g), ~Same(e, g), ~Same(g, e),
         \A f : Named(f) /\ Tracked(f) /\ ~Same(f, e) /\ ~Same(f, g) => Current(f)' = Current(f)
  PROVE  \E lines : Logged(lines)
<1> DEFINE lines == <<e, g>>
<1>1. DOMAIN lines = {1, 2} /\ lines[1] = e /\ lines[2] = g /\ lines \in Seq({e, g}) OBVIOUS
<1>2. audit' = audit \o lines OBVIOUS
<1> HIDE DEF lines
<1>3. Logged(lines) BY <1>1, <1>2 DEF Logged
<1> QED BY <1>3

\* Four entries about different fields.
LEMMA FourLogged ==
  ASSUME NEW e, NEW g, NEW h, NEW i, audit' = audit \o <<e, g, h, i>>, Speaks(e), Speaks(g), Speaks(h), Speaks(i),
         ~Same(e, g), ~Same(e, h), ~Same(e, i), ~Same(g, h), ~Same(g, i), ~Same(h, i),
         \A f : Named(f) /\ Tracked(f) /\ ~Same(f, e) /\ ~Same(f, g) /\ ~Same(f, h) /\ ~Same(f, i)
              => Current(f)' = Current(f)
  PROVE  \E lines : Logged(lines)
<1> DEFINE lines == <<e, g, h, i>>
<1>1. DOMAIN lines = {1, 2, 3, 4} /\ lines[1] = e /\ lines[2] = g /\ lines[3] = h /\ lines[4] = i /\ lines \in Seq({e, g, h, i})
  OBVIOUS
<1>2. audit' = audit \o lines OBVIOUS
<1> HIDE DEF lines
<1>3. \A x, y \in {1, 2, 3, 4} : x # y => ~Same(lines[x], lines[y])
  <2>1. \A x, y : Same(x, y) <=> Same(y, x) BY DEF Same
  <2> QED BY <1>1, <2>1
<1>4. \A x \in {1, 2, 3, 4} : Speaks(lines[x]) BY <1>1
<1>5. ASSUME NEW f, Named(f), Tracked(f), \A x \in {1, 2, 3, 4} : ~Same(f, lines[x]) PROVE Current(f)' = Current(f)
  BY <1>1, <1>5
<1>6. Logged(lines) BY <1>1, <1>2, <1>3, <1>4, <1>5 DEF Logged
<1> QED BY <1>6

\* Nothing is logged, and nothing that is logged changes.
LEMMA NoneLogged ==
  ASSUME LogOK, audit' = audit, \A f : Named(f) /\ Tracked(f) => Current(f)' = Current(f)
  PROVE  \E lines : Logged(lines)
<1>1. audit \o << >> = audit BY ConcatEmptySeq DEF LogOK
<1> DEFINE lines == << >>
<1>2. DOMAIN lines = {} /\ lines \in Seq({}) /\ audit' = audit \o lines BY <1>1
<1> HIDE DEF lines
<1>3. Logged(lines) BY <1>2 DEF Logged
<1> QED BY <1>3

\* Names, values and switches are logged as they are written.
LEMMA ItemLogs ==
  ASSUME SettingsOK, NEW r \in Requests, Fits(call[r]), Alone => Fresh(call[r]), ItemStep(r)
  PROVE  \E lines : Logged(lines)
<1>c. PICK c : c = call[r] OBVIOUS
<1>0. item \in [Items -> ItemRow] /\ Fits(c) /\ (Alone => Fresh(c)) BY <1>c DEF SettingsOK
<1>k. PICK k \in ItemKinds : CreateItem(r, k) \/ UpdateItem(r, k) \/ SetItemActive(r, k) BY DEF ItemStep
<1>1. UNCHANGED <<account, provider, rules, service, cashIn, commission, user>>
  BY <1>k DEF CreateItem, UpdateItem, SetItemActive, OnlyItem, accountVars
<1>2. ASSUME NEW f, Named(f), f.entity # "item" \/ item'[f.id][f.what] = item[f.id][f.what]
      PROVE  Current(f)' = Current(f)
  <2>1. CASE f.entity = "item" BY <1>2, <2>1, CurrentIs
  <2>2. CASE f.entity # "item" BY <1>1, <1>2, <2>2, TablesStay DEF Named
  <2> QED BY <2>1, <2>2
<1>3. ASSUME NEW e, e.entity = "item", e.id \in Items, e.what \in {"value", "active"}, item'[e.id] # NoItem,
             e.new = item'[e.id][e.what], Alone /\ item[e.id] # NoItem => e.old = item[e.id][e.what]
      PROVE  Speaks(e)
  <2>1. Named(e)' BY <1>3 DEF Named, Charges
  <2>2. e.new = Current(e)' /\ (Named(e) /\ Alone => e.old = Current(e)) BY <1>3, CurrentIs DEF Named
  <2> QED BY <2>1, <2>2 DEF Speaks
<1>4. CASE CreateItem(r, k)
  <2>0. PICK i \in Free(k) :
          /\ item' = [item EXCEPT ![i] = [value |-> c.value, active |-> TRUE]]
          /\ audit' = audit \o <<Entry("item", i, "value", None, c.value), Entry("item", i, "active", None, TRUE)>>
    BY <1>4, <1>c DEF CreateItem, Log
  <2>1. /\ i \in Items /\ item[i] = NoItem /\ item' = [item EXCEPT ![i] = [value |-> c.value, active |-> TRUE]]
        /\ audit' = audit \o <<Entry("item", i, "value", None, c.value), Entry("item", i, "active", None, TRUE)>>
    BY <2>0 DEF Free
  <2>2. c.value \in Values BY <1>0, <1>4, <1>c DEF CreateItem, Committing, Fits
  <2> DEFINE row == [value |-> c.value, active |-> TRUE]
  <2>3. row # NoItem /\ row.value = c.value /\ row.active = TRUE BY <2>2, SettingsAssumption DEF NoItem
  <2>4. item' = [item EXCEPT ![i] = row] BY <2>1
  <2> HIDE DEF row
  <2>e. PICK e, g : e = Entry("item", i, "value", None, c.value) /\ g = Entry("item", i, "active", None, TRUE) OBVIOUS
  <2>5. /\ e.entity = "item" /\ e.id = i /\ e.what = "value" /\ e.new = c.value
        /\ g.entity = "item" /\ g.id = i /\ g.what = "active" /\ g.new = TRUE
    BY <2>e DEF Entry
  <2>6. Speaks(e) /\ Speaks(g) BY <1>0, <1>3, <2>1, <2>3, <2>4, <2>5
  <2>7. ASSUME NEW f, Named(f), Tracked(f) PROVE Current(f)' = Current(f)
    <3>1. f.entity = "item" => f.id # i /\ f.id \in Items BY <2>1, <2>7 DEF Named
    <3>2. f.entity = "item" => item'[f.id] = item[f.id] BY <1>0, <2>4, <3>1
    <3> QED BY <1>2, <2>7, <3>2
  <2>8. ~Same(e, g) /\ ~Same(g, e) BY <2>5 DEF Same
  <2>9. audit' = audit \o <<e, g>> BY <2>1, <2>e
  <2> QED BY <2>6, <2>7, <2>8, <2>9, TwoLogged
<1>5. CASE UpdateItem(r, k)
  <2>1. /\ item' = [item EXCEPT ![c.id].value = c.value]
        /\ audit' = audit \o <<Entry("item", c.id, "value", c.seen.value, c.value)>>
        /\ c.value \in Values /\ c.id \in Items /\ (Alone => c.seen = item[c.id])
    BY <1>0, <1>5, <1>c DEF UpdateItem, Committing, Fits, Fresh, Log
  <2>2. item[c.id] \in ItemRow BY <1>0, <2>1
  <2>3. item'[c.id].value = c.value /\ item'[c.id].active = item[c.id].active BY <1>0, <2>1, <2>2 DEF ItemRow
  <2>4. item'[c.id] # NoItem BY <2>1, <2>3, SettingsAssumption DEF NoItem
  <2>5. \A j \in Items \ {c.id} : item'[j] = item[j] BY <1>0, <2>1
  <2>e. PICK e : e = Entry("item", c.id, "value", c.seen.value, c.value) OBVIOUS
  <2>6. e.entity = "item" /\ e.id = c.id /\ e.what = "value" /\ e.old = c.seen.value /\ e.new = c.value BY <2>e DEF Entry
  <2>7. Speaks(e) BY <1>3, <2>1, <2>3, <2>4, <2>6
  <2>8. ASSUME NEW f, Named(f), Tracked(f), ~Same(f, e) PROVE Current(f)' = Current(f)
    <3>1. f.entity = "item" => item'[f.id][f.what] = item[f.id][f.what]
      BY <2>3, <2>5, <2>6, <2>8 DEF Named, Same
    <3> QED BY <1>2, <2>8, <3>1
  <2> QED BY <2>1, <2>e, <2>7, <2>8, OneLogged
<1>6. CASE SetItemActive(r, k)
  <2>1. /\ item' = [item EXCEPT ![c.id].active = c.active]
        /\ audit' = audit \o <<Entry("item", c.id, "active", c.seen.active, c.active)>>
        /\ c.active \in BOOLEAN /\ c.id \in Items /\ c.id \in Kept(c.kind) /\ (Alone => c.seen = item[c.id])
    BY <1>0, <1>6, <1>c DEF SetItemActive, Committing, Fits, Fresh, Log
  <2>2. item[c.id] \in ItemRow BY <1>0, <2>1
  <2>3. item'[c.id].active = c.active /\ item'[c.id].value = item[c.id].value BY <1>0, <2>1, <2>2 DEF ItemRow
  <2>4. item'[c.id] # NoItem BY <2>1, <2>3 DEF NoItem, SettingsOK, Kept
  <2>5. \A j \in Items \ {c.id} : item'[j] = item[j] BY <1>0, <2>1
  <2>e. PICK e : e = Entry("item", c.id, "active", c.seen.active, c.active) OBVIOUS
  <2>6. e.entity = "item" /\ e.id = c.id /\ e.what = "active" /\ e.old = c.seen.active /\ e.new = c.active BY <2>e DEF Entry
  <2>7. Speaks(e) BY <1>3, <2>1, <2>3, <2>4, <2>6
  <2>8. ASSUME NEW f, Named(f), Tracked(f), ~Same(f, e) PROVE Current(f)' = Current(f)
    <3>1. f.entity = "item" => item'[f.id][f.what] = item[f.id][f.what]
      BY <2>3, <2>5, <2>6, <2>8 DEF Named, Same
    <3> QED BY <1>2, <2>8, <3>1
  <2> QED BY <2>1, <2>e, <2>7, <2>8, OneLogged
<1> QED BY <1>k, <1>4, <1>5, <1>6

\* The service.
LEMMA ServiceLogs ==
  ASSUME SettingsOK, NEW r \in Requests, Fits(call[r]), Alone => Fresh(call[r]), ServiceStep(r)
  PROVE  \E lines : Logged(lines)
<1>c. PICK c : c = call[r] OBVIOUS
<1>0. (service = NoService \/ service \in ServiceRow) /\ Fits(c) /\ (Alone => Fresh(c)) BY <1>c DEF SettingsOK
<1>1. UNCHANGED <<account, provider, rules, item, cashIn, commission, user>> /\ service' # NoService
  <2>1. UNCHANGED <<accountVars, provider, rules, item, cashIn, commission, user>>
        /\ SettingsGrow /\ SettingsOK'
    BY ServiceStepKeeps
  <2>2. service' # NoService
    <3>1. CASE CreateService(r)
      <4>1. service'.active = TRUE BY <3>1 DEF CreateService
      <4>2. NoService.active = None BY DEF NoService
      <4> QED BY <4>1, <4>2, OfficeAssumption
    <3>2. ASSUME service # NoService PROVE service' # NoService BY <2>1, <3>2 DEF SettingsGrow
    <3>3. CASE UpdateService(r) \/ SetServiceActive(r)
      <4>1. c.op \in {"updateService", "setServiceActive"} BY <1>c, <3>3 DEF UpdateService, SetServiceActive, Committing
      <4> QED BY <1>0, <3>2, <4>1 DEF Fits
    <3> QED BY <3>1, <3>3 DEF ServiceStep
  <2> QED BY <2>1, <2>2 DEF accountVars
<1>2. ASSUME NEW f, Named(f), f.entity # "service" PROVE Current(f)' = Current(f)
  BY <1>1, <1>2, TablesStay DEF Named
<1>3. ASSUME NEW e, e.entity = "service", e.what \in {"value", "active"}, e.new = Current(e)',
             e.id = None, Alone /\ service # NoService => e.old = Current(e)
      PROVE  Speaks(e)
  <2>1. Named(e)' /\ (Named(e) => service # NoService) BY <1>1, <1>3 DEF Named, Charges
  <2> QED BY <1>3, <2>1 DEF Speaks
<1>4. CASE CreateService(r)
  <2>1. PICK v : v = <<service'.allow, service'.only>> OBVIOUS
  <2>2. /\ audit' = audit \o <<Entry("service", None, "value", None, v), Entry("service", None, "active", None, TRUE)>>
        /\ service = NoService /\ service'.active = TRUE
    BY <1>4, <2>1 DEF CreateService, Log
  <2>e. PICK e, g : e = Entry("service", None, "value", None, v) /\ g = Entry("service", None, "active", None, TRUE) OBVIOUS
  <2>3. /\ e.entity = "service" /\ e.id = None /\ e.what = "value" /\ e.new = v
        /\ g.entity = "service" /\ g.id = None /\ g.what = "active" /\ g.new = TRUE
    BY <2>e DEF Entry
  <2>4. e.new = Current(e)' /\ g.new = Current(g)' BY <2>1, <2>2, <2>3, CurrentIs
  <2>5. Speaks(e) /\ Speaks(g) BY <1>3, <2>2, <2>3, <2>4
  <2>6. ASSUME NEW f, Named(f), Tracked(f) PROVE Current(f)' = Current(f)
    <3>1. f.entity # "service" BY <2>2, <2>6 DEF Named
    <3> QED BY <1>2, <2>6, <3>1
  <2>7. ~Same(e, g) /\ ~Same(g, e) BY <2>3 DEF Same
  <2>8. audit' = audit \o <<e, g>> BY <2>2, <2>e
  <2> QED BY <2>5, <2>6, <2>7, <2>8, TwoLogged
<1>5. CASE UpdateService(r)
  <2>1. PICK v : v = <<service'.allow, service'.only>> OBVIOUS
  <2>2. /\ audit' = audit \o <<Entry("service", None, "value", <<c.seen.allow, c.seen.only>>, v)>>
        /\ service' = [Partnered(c) EXCEPT !.active = service.active]
        /\ c.seen \in ServiceRow /\ (Alone => c.seen = service)
    BY <1>0, <1>5, <1>c, <2>1 DEF UpdateService, Log, Committing, Fits, Fresh
  <2>p. service'.active = service.active
    <3>1. "active" \in DOMAIN c.seen BY <2>2 DEF ServiceRow
    <3>2. DOMAIN Partnered(c) = DOMAIN c.seen BY DEF Partnered
    <3> QED BY <2>2, <3>1, <3>2
  <2>e. PICK e : e = Entry("service", None, "value", <<c.seen.allow, c.seen.only>>, v) OBVIOUS
  <2>3. e.entity = "service" /\ e.id = None /\ e.what = "value" /\ e.old = <<c.seen.allow, c.seen.only>> /\ e.new = v
    BY <2>e DEF Entry
  <2>4. e.new = Current(e)' /\ (Alone => e.old = Current(e)) BY <2>1, <2>2, <2>3, CurrentIs
  <2>5. Speaks(e) BY <1>3, <2>3, <2>4
  <2>6. ASSUME NEW f, Named(f), Tracked(f), ~Same(f, e) PROVE Current(f)' = Current(f)
    <3>1. CASE f.entity = "service" /\ f.what = "active" BY <2>p, <3>1, CurrentIs
    <3>2. CASE f.entity = "service" /\ f.what = "value" BY <2>3, <2>6, <3>2 DEF Named, Same
    <3>3. CASE f.entity # "service" BY <1>2, <2>6, <3>3
    <3> QED BY <2>6, <3>1, <3>2, <3>3 DEF Named
  <2> QED BY <2>2, <2>e, <2>5, <2>6, OneLogged
<1>6. CASE SetServiceActive(r)
  <2>1. /\ audit' = audit \o <<Entry("service", None, "active", c.seen.active, c.active)>>
        /\ service' = [service EXCEPT !.active = c.active]
        /\ service # NoService /\ (Alone => c.seen = service)
    BY <1>0, <1>6, <1>c DEF SetServiceActive, Log, Committing, Fits, Fresh
  <2>2. service \in ServiceRow BY <1>0, <2>1
  <2>p. service'.active = c.active /\ service'.allow = service.allow /\ service'.only = service.only
    BY <2>1, <2>2 DEF ServiceRow
  <2>e. PICK e : e = Entry("service", None, "active", c.seen.active, c.active) OBVIOUS
  <2>3. e.entity = "service" /\ e.id = None /\ e.what = "active" /\ e.old = c.seen.active /\ e.new = c.active
    BY <2>e DEF Entry
  <2>4. e.new = Current(e)' /\ (Alone => e.old = Current(e)) BY <2>1, <2>p, <2>3, CurrentIs
  <2>5. Speaks(e) BY <1>3, <2>3, <2>4
  <2>6. ASSUME NEW f, Named(f), Tracked(f), ~Same(f, e) PROVE Current(f)' = Current(f)
    <3>1. CASE f.entity = "service" /\ f.what = "value" BY <2>p, <3>1, CurrentIs
    <3>2. CASE f.entity = "service" /\ f.what = "active" BY <2>3, <2>6, <3>2 DEF Named, Same
    <3>3. CASE f.entity # "service" BY <1>2, <2>6, <3>3
    <3> QED BY <2>6, <3>1, <3>2, <3>3 DEF Named
  <2> QED BY <2>1, <2>e, <2>5, <2>6, OneLogged
<1> QED BY <1>4, <1>5, <1>6 DEF ServiceStep

\* The cash-in transfer type.
LEMMA CashInLogs ==
  ASSUME SettingsOK, NEW r \in Requests, Fits(call[r]), Alone => Fresh(call[r]), CashInStep(r)
  PROVE  \E lines : Logged(lines)
<1>c. PICK c : c = call[r] OBVIOUS
<1>0. (cashIn = NoCashIn \/ cashIn \in CashInRow) /\ Fits(c) /\ (Alone => Fresh(c)) BY <1>c DEF SettingsOK
<1>1. UNCHANGED <<account, provider, rules, item, service, commission, user>> /\ cashIn' # NoCashIn
  <2>1. /\ UNCHANGED <<accountVars, provider, rules, item, service, commission, user>>
        /\ SettingsGrow /\ SettingsOK'
    BY CashInStepKeeps
  <2>2. cashIn' # NoCashIn
    <3>1. CASE CreateCashInTransferType(r)
      <4>1. cashIn'.active = TRUE BY <3>1 DEF CreateCashInTransferType
      <4>2. NoCashIn.active = FALSE BY DEF NoCashIn
      <4> QED BY <4>1, <4>2
    <3>2. ASSUME cashIn # NoCashIn PROVE cashIn' # NoCashIn BY <2>1, <3>2 DEF SettingsGrow
    <3>3. CASE UpdateCashInTransferType(r) \/ SetCashInTransferTypeActive(r)
      <4>1. c.op \in {"updateCashIn", "setCashInActive"}
        BY <1>c, <3>3 DEF UpdateCashInTransferType, SetCashInTransferTypeActive, Committing
      <4> QED BY <1>0, <3>2, <4>1 DEF Fits
    <3> QED BY <3>1, <3>3 DEF CashInStep
  <2> QED BY <2>1, <2>2 DEF accountVars
<1>2. ASSUME NEW f, Named(f), f.entity # "cashIn" PROVE Current(f)' = Current(f)
  BY <1>1, <1>2, TablesStay DEF Named
<1>3. ASSUME NEW e, e.entity = "cashIn", e.what \in {"value", "active"}, e.new = Current(e)',
             e.id = None, Alone /\ cashIn # NoCashIn => e.old = Current(e)
      PROVE  Speaks(e)
  <2>1. Named(e)' /\ (Named(e) => cashIn # NoCashIn) BY <1>1, <1>3 DEF Named, Charges
  <2> QED BY <1>3, <2>1 DEF Speaks
<1>4. CASE CreateCashInTransferType(r)
  <2>1. PICK v : v = <<cashIn'.mode, cashIn'.rate>> OBVIOUS
  <2>2. /\ audit' = audit \o <<Entry("cashIn", None, "value", None, v), Entry("cashIn", None, "active", None, TRUE)>>
        /\ cashIn = NoCashIn /\ cashIn'.active = TRUE
    BY <1>4, <2>1 DEF CreateCashInTransferType, Log
  <2>e. PICK e, g : e = Entry("cashIn", None, "value", None, v) /\ g = Entry("cashIn", None, "active", None, TRUE) OBVIOUS
  <2>3. /\ e.entity = "cashIn" /\ e.id = None /\ e.what = "value" /\ e.new = v
        /\ g.entity = "cashIn" /\ g.id = None /\ g.what = "active" /\ g.new = TRUE
    BY <2>e DEF Entry
  <2>4. e.new = Current(e)' /\ g.new = Current(g)' BY <2>1, <2>2, <2>3, CurrentIs
  <2>5. Speaks(e) /\ Speaks(g) BY <1>3, <2>2, <2>3, <2>4
  <2>6. ASSUME NEW f, Named(f), Tracked(f) PROVE Current(f)' = Current(f)
    <3>1. f.entity # "cashIn" BY <2>2, <2>6 DEF Named
    <3> QED BY <1>2, <2>6, <3>1
  <2>7. ~Same(e, g) /\ ~Same(g, e) BY <2>3 DEF Same
  <2>8. audit' = audit \o <<e, g>> BY <2>2, <2>e
  <2> QED BY <2>5, <2>6, <2>7, <2>8, TwoLogged
<1>5. CASE UpdateCashInTransferType(r)
  <2>1. PICK v : v = <<cashIn'.mode, cashIn'.rate>> OBVIOUS
  <2>2. /\ audit' = audit \o <<Entry("cashIn", None, "value", <<c.seen.mode, c.seen.rate>>, v)>>
        /\ cashIn # NoCashIn /\ (Alone => c.seen = cashIn)
    BY <1>0, <1>5, <1>c, <2>1 DEF UpdateCashInTransferType, Log, Committing, Fits, Fresh
  <2>p. cashIn'.active = cashIn.active
    <3>1. cashIn \in CashInRow BY <1>0, <2>2
    <3> DEFINE mode == Given(c.mode, cashIn.mode)
               rate == IF c.rate # None THEN c.rate ELSE IF c.mode # None THEN DefaultRate(c.mode) ELSE cashIn.rate
    <3>2. cashIn' = [[cashIn EXCEPT !.mode = mode] EXCEPT !.rate = rate]
      BY <1>5, <1>c, <3>1 DEF UpdateCashInTransferType, CashInRow
    <3> HIDE DEF mode, rate
    <3> QED BY <3>1, <3>2 DEF CashInRow
  <2>e. PICK e : e = Entry("cashIn", None, "value", <<c.seen.mode, c.seen.rate>>, v) OBVIOUS
  <2>3. e.entity = "cashIn" /\ e.id = None /\ e.what = "value" /\ e.old = <<c.seen.mode, c.seen.rate>> /\ e.new = v
    BY <2>e DEF Entry
  <2>4. e.new = Current(e)' /\ (Alone => e.old = Current(e)) BY <2>1, <2>2, <2>3, CurrentIs
  <2>5. Speaks(e) BY <1>3, <2>3, <2>4
  <2>6. ASSUME NEW f, Named(f), Tracked(f), ~Same(f, e) PROVE Current(f)' = Current(f)
    <3>1. CASE f.entity = "cashIn" /\ f.what = "active" BY <2>p, <3>1, CurrentIs
    <3>2. CASE f.entity = "cashIn" /\ f.what = "value" BY <2>3, <2>6, <3>2 DEF Named, Same
    <3>3. CASE f.entity # "cashIn" BY <1>2, <2>6, <3>3
    <3> QED BY <2>6, <3>1, <3>2, <3>3 DEF Named
  <2> QED BY <2>2, <2>e, <2>5, <2>6, OneLogged
<1>6. CASE SetCashInTransferTypeActive(r)
  <2>1. /\ audit' = audit \o <<Entry("cashIn", None, "active", c.seen.active, c.active)>>
        /\ cashIn' = [cashIn EXCEPT !.active = c.active]
        /\ cashIn # NoCashIn /\ (Alone => c.seen = cashIn)
    BY <1>0, <1>6, <1>c DEF SetCashInTransferTypeActive, Log, Committing, Fits, Fresh
  <2>2. cashIn \in CashInRow BY <1>0, <2>1
  <2>p. cashIn'.active = c.active /\ cashIn'.mode = cashIn.mode /\ cashIn'.rate = cashIn.rate
    BY <2>1, <2>2 DEF CashInRow
  <2>e. PICK e : e = Entry("cashIn", None, "active", c.seen.active, c.active) OBVIOUS
  <2>3. e.entity = "cashIn" /\ e.id = None /\ e.what = "active" /\ e.old = c.seen.active /\ e.new = c.active
    BY <2>e DEF Entry
  <2>4. e.new = Current(e)' /\ (Alone => e.old = Current(e)) BY <2>1, <2>p, <2>3, CurrentIs
  <2>5. Speaks(e) BY <1>3, <2>3, <2>4
  <2>6. ASSUME NEW f, Named(f), Tracked(f), ~Same(f, e) PROVE Current(f)' = Current(f)
    <3>1. CASE f.entity = "cashIn" /\ f.what = "value" BY <2>p, <3>1, CurrentIs
    <3>2. CASE f.entity = "cashIn" /\ f.what = "active" BY <2>3, <2>6, <3>2 DEF Named, Same
    <3>3. CASE f.entity # "cashIn" BY <1>2, <2>6, <3>3
    <3> QED BY <2>6, <3>1, <3>2, <3>3 DEF Named
  <2> QED BY <2>1, <2>e, <2>5, <2>6, OneLogged
<1> QED BY <1>4, <1>5, <1>6 DEF CashInStep

\* Commission rules.
LEMMA CommissionLogs ==
  ASSUME SettingsOK, NEW r \in Requests, Fits(call[r]), Alone => Fresh(call[r]), CommissionStep(r)
  PROVE  \E lines : Logged(lines)
<1>c. PICK c : c = call[r] OBVIOUS
<1>0. commission \in Seq(CommissionRow) /\ Fits(c) /\ (Alone => Fresh(c)) BY <1>c DEF SettingsOK
<1>1. /\ UNCHANGED <<account, provider, rules, item, service, cashIn, user>>
      /\ DOMAIN commission \subseteq DOMAIN commission'
  BY CommissionStepKeeps DEF accountVars, SettingsGrow
<1>2. ASSUME NEW f, Named(f), f.entity # "commission" \/ commission'[f.id][f.what] = commission[f.id][f.what]
      PROVE  Current(f)' = Current(f)
  <2>1. CASE f.entity = "commission" BY <1>2, <2>1, CurrentIs
  <2>2. CASE f.entity # "commission" BY <1>1, <1>2, <2>2, TablesStay DEF Named
  <2> QED BY <2>1, <2>2
<1>3. ASSUME NEW e, e.entity = "commission", e.what \in {"scope", "active"}, e.id \in DOMAIN commission',
             e.new = commission'[e.id][e.what],
             Alone /\ e.id \in DOMAIN commission => e.old = commission[e.id][e.what]
      PROVE  Speaks(e)
  <2>1. Named(e)' BY <1>3 DEF Named, Charges
  <2>2. e.new = Current(e)' /\ (Named(e) /\ Alone => e.old = Current(e)) BY <1>3, CurrentIs DEF Named
  <2> QED BY <2>1, <2>2 DEF Speaks
<1>4. CASE CreateCommissionRule(r)
  <2> DEFINE row == [scope |-> c.scope, active |-> TRUE]
  <2>1. PICK n : n = Len(commission') OBVIOUS
  <2>2. /\ audit' = audit \o <<Entry("commission", n, "scope", None, c.scope), Entry("commission", n, "active", None, TRUE)>>
        /\ commission' = Append(commission, row) /\ c.scope \in Scope
    BY <1>0, <1>4, <1>c, <2>1 DEF CreateCommissionRule, Log, Committing, Fits
  <2>3. row \in CommissionRow /\ row.scope = c.scope /\ row.active = TRUE BY <2>2 DEF CommissionRow
  <2> HIDE DEF row
  <2>4. /\ n = Len(commission) + 1 /\ n \in DOMAIN commission' /\ n \notin DOMAIN commission
        /\ commission'[n] = row /\ \A i \in DOMAIN commission : commission'[i] = commission[i]
    BY <1>0, <2>1, <2>2, <2>3
  <2>e. PICK e, g : e = Entry("commission", n, "scope", None, c.scope) /\ g = Entry("commission", n, "active", None, TRUE)
    OBVIOUS
  <2>5. /\ e.entity = "commission" /\ e.id = n /\ e.what = "scope" /\ e.new = c.scope
        /\ g.entity = "commission" /\ g.id = n /\ g.what = "active" /\ g.new = TRUE
    BY <2>e DEF Entry
  <2>6. Speaks(e) /\ Speaks(g) BY <1>3, <2>3, <2>4, <2>5
  <2>7. ASSUME NEW f, Named(f), Tracked(f) PROVE Current(f)' = Current(f)
    <3>1. f.entity = "commission" => commission'[f.id] = commission[f.id] BY <2>4, <2>7 DEF Named
    <3> QED BY <1>2, <2>7, <3>1
  <2>8. ~Same(e, g) /\ ~Same(g, e) BY <2>5 DEF Same
  <2>9. audit' = audit \o <<e, g>> BY <2>2, <2>e
  <2> QED BY <2>6, <2>7, <2>8, <2>9, TwoLogged
<1>5. CASE UpdateCommissionRule(r)
  <2> DEFINE scope == [f \in Parts |-> Given(c.scope[f], commission[c.id].scope[f])]
  <2>1. PICK v : v = commission'[c.id].scope OBVIOUS
  <2>2. /\ audit' = audit \o <<Entry("commission", c.id, "scope", c.seen.scope, v)>>
        /\ c.id \in DOMAIN commission /\ (Alone => c.seen = commission[c.id])
    BY <1>0, <1>5, <1>c, <2>1 DEF UpdateCommissionRule, Log, Committing, Fits, Fresh
  <2>3. commission' = [commission EXCEPT ![c.id].scope = scope] BY <1>5, <1>c DEF UpdateCommissionRule
  <2> HIDE DEF scope
  <2>4. commission[c.id] \in CommissionRow BY <1>0, <2>2
  <2>5. commission'[c.id].active = commission[c.id].active BY <1>0, <2>2, <2>3, <2>4 DEF CommissionRow
  <2>6. c.id \in DOMAIN commission' /\ \A i \in DOMAIN commission \ {c.id} : commission'[i] = commission[i]
    BY <1>0, <2>2, <2>3
  <2>e. PICK e : e = Entry("commission", c.id, "scope", c.seen.scope, v) OBVIOUS
  <2>7. e.entity = "commission" /\ e.id = c.id /\ e.what = "scope" /\ e.old = c.seen.scope /\ e.new = v BY <2>e DEF Entry
  <2>8. Speaks(e) BY <1>3, <2>1, <2>2, <2>6, <2>7
  <2>9. ASSUME NEW f, Named(f), Tracked(f), ~Same(f, e) PROVE Current(f)' = Current(f)
    <3>1. f.entity = "commission" => commission'[f.id][f.what] = commission[f.id][f.what]
      BY <2>5, <2>6, <2>7, <2>9 DEF Named, Same
    <3> QED BY <1>2, <2>9, <3>1
  <2> QED BY <2>2, <2>e, <2>8, <2>9, OneLogged
<1>6. CASE SetCommissionRuleActive(r)
  <2>1. /\ audit' = audit \o <<Entry("commission", c.id, "active", c.seen.active, c.active)>>
        /\ commission' = [commission EXCEPT ![c.id].active = c.active]
        /\ c.id \in DOMAIN commission /\ (Alone => c.seen = commission[c.id])
    BY <1>0, <1>6, <1>c DEF SetCommissionRuleActive, Log, Committing, Fits, Fresh
  <2>2. commission[c.id] \in CommissionRow BY <1>0, <2>1
  <2>3. commission'[c.id].active = c.active /\ commission'[c.id].scope = commission[c.id].scope
    BY <1>0, <2>1, <2>2 DEF CommissionRow
  <2>4. c.id \in DOMAIN commission' /\ \A i \in DOMAIN commission \ {c.id} : commission'[i] = commission[i]
    BY <1>0, <2>1
  <2>e. PICK e : e = Entry("commission", c.id, "active", c.seen.active, c.active) OBVIOUS
  <2>5. e.entity = "commission" /\ e.id = c.id /\ e.what = "active" /\ e.old = c.seen.active /\ e.new = c.active
    BY <2>e DEF Entry
  <2>6. Speaks(e) BY <1>3, <2>1, <2>3, <2>4, <2>5
  <2>7. ASSUME NEW f, Named(f), Tracked(f), ~Same(f, e) PROVE Current(f)' = Current(f)
    <3>1. f.entity = "commission" => commission'[f.id][f.what] = commission[f.id][f.what]
      BY <2>3, <2>4, <2>5, <2>7 DEF Named, Same
    <3> QED BY <1>2, <2>7, <3>1
  <2> QED BY <2>1, <2>e, <2>6, <2>7, OneLogged
<1> QED BY <1>4, <1>5, <1>6 DEF CommissionStep

\* Users; that a password was reset is logged without the password.
LEMMA UserLogs ==
  ASSUME SettingsOK, NEW r \in Requests, Fits(call[r]), Alone => Fresh(call[r]), UserStep(r)
  PROVE  \E lines : Logged(lines)
<1>c. PICK c : c = call[r] OBVIOUS
<1>0. user \in [Users -> UserRow] /\ Fits(c) /\ (Alone => Fresh(c)) BY <1>c DEF SettingsOK
<1>1. /\ UNCHANGED <<account, provider, rules, item, service, cashIn, commission>>
      /\ Known \subseteq Known'
  BY UserStepKeeps DEF accountVars, SettingsGrow
<1>2. ASSUME NEW f, Named(f), f.entity # "user" \/ user'[f.id][f.what] = user[f.id][f.what]
      PROVE  Current(f)' = Current(f)
  <2>1. CASE f.entity = "user" BY <1>2, <2>1, CurrentIs
  <2>2. CASE f.entity # "user" BY <1>1, <1>2, <2>2, TablesStay DEF Named
  <2> QED BY <2>1, <2>2
<1>3. ASSUME NEW e, e.entity = "user", e.what \in {"role", "active"}, e.id \in Known',
             e.new = user'[e.id][e.what], Alone /\ e.id \in Known => e.old = user[e.id][e.what]
      PROVE  Speaks(e)
  <2>1. Named(e)' BY <1>3 DEF Named, Charges
  <2>2. e.new = Current(e)' /\ (Named(e) /\ Alone => e.old = Current(e)) BY <1>3, CurrentIs DEF Named
  <2> QED BY <2>1, <2>2 DEF Speaks
<1>4. CASE CreateUser(r)
  <2> DEFINE row == [role |-> c.role, active |-> TRUE, password |-> 1]
  <2>0. PICK u \in Users \ Known :
          /\ user' = [user EXCEPT ![u] = row]
          /\ audit' = audit \o <<Entry("user", u, "role", None, c.role), Entry("user", u, "active", None, TRUE)>>
    BY <1>4, <1>c DEF CreateUser, Log
  <2>3. row.role = c.role /\ row.active = TRUE /\ row.password = 1 OBVIOUS
  <2> HIDE DEF row
  <2>4. user'[u] = row /\ \A v \in Users \ {u} : user'[v] = user[v] BY <1>0, <2>0
  <2>5. u \in Known' BY <2>3, <2>4 DEF Known, NoUser
  <2>e. PICK e, g : e = Entry("user", u, "role", None, c.role) /\ g = Entry("user", u, "active", None, TRUE) OBVIOUS
  <2>6. /\ e.entity = "user" /\ e.id = u /\ e.what = "role" /\ e.new = c.role
        /\ g.entity = "user" /\ g.id = u /\ g.what = "active" /\ g.new = TRUE
    BY <2>e DEF Entry
  <2>7. Speaks(e) /\ Speaks(g) BY <1>3, <2>0, <2>3, <2>4, <2>5, <2>6
  <2>8. ASSUME NEW f, Named(f), Tracked(f) PROVE Current(f)' = Current(f)
    <3>1. f.entity = "user" => f.id \in Users \ {u} BY <2>0, <2>8 DEF Named, Known
    <3>2. f.entity = "user" => user'[f.id] = user[f.id] BY <2>4, <3>1
    <3> QED BY <1>2, <2>8, <3>2
  <2>9. ~Same(e, g) /\ ~Same(g, e) BY <2>6 DEF Same
  <2>10. audit' = audit \o <<e, g>> BY <2>0, <2>e
  <2> QED BY <2>7, <2>8, <2>9, <2>10, TwoLogged
<1>5. CASE UpdateUser(r)
  <2>1. PICK v : v = user'[c.id].role OBVIOUS
  <2>2. /\ audit' = audit \o <<Entry("user", c.id, "role", c.seen.role, v)>>
        /\ user' = [user EXCEPT ![c.id].role = Given(c.role, @)]
        /\ c.id \in Known /\ (Alone => c.seen = user[c.id])
    BY <1>0, <1>5, <1>c, <2>1 DEF UpdateUser, Log, Committing, Fits, Fresh
  <2>3. c.id \in Users /\ user[c.id] \in UserRow BY <1>0, <2>2 DEF Known
  <2>4. user'[c.id].active = user[c.id].active /\ user'[c.id].password = user[c.id].password
    BY <1>0, <2>2, <2>3 DEF UserRow
  <2>5. c.id \in Known' /\ \A u \in Users \ {c.id} : user'[u] = user[u] BY <1>0, <1>1, <2>2, <2>3
  <2>e. PICK e : e = Entry("user", c.id, "role", c.seen.role, v) OBVIOUS
  <2>6. e.entity = "user" /\ e.id = c.id /\ e.what = "role" /\ e.old = c.seen.role /\ e.new = v BY <2>e DEF Entry
  <2>7. Speaks(e) BY <1>3, <2>1, <2>2, <2>5, <2>6
  <2>8. ASSUME NEW f, Named(f), Tracked(f), ~Same(f, e) PROVE Current(f)' = Current(f)
    <3>1. f.entity = "user" => user'[f.id][f.what] = user[f.id][f.what]
      BY <2>4, <2>5, <2>6, <2>8 DEF Named, Same, Known
    <3> QED BY <1>2, <2>8, <3>1
  <2> QED BY <2>2, <2>e, <2>7, <2>8, OneLogged
<1>6. CASE SetUserActive(r)
  <2>1. /\ audit' = audit \o <<Entry("user", c.id, "active", c.seen.active, c.active)>>
        /\ user' = [user EXCEPT ![c.id].active = c.active]
        /\ c.id \in Known /\ (Alone => c.seen = user[c.id])
    BY <1>0, <1>6, <1>c DEF SetUserActive, Log, Committing, Fits, Fresh
  <2>2. c.id \in Users /\ user[c.id] \in UserRow BY <1>0, <2>1 DEF Known
  <2>3. /\ user'[c.id].active = c.active /\ user'[c.id].role = user[c.id].role
        /\ user'[c.id].password = user[c.id].password
    BY <1>0, <2>1, <2>2 DEF UserRow
  <2>4. c.id \in Known' /\ \A u \in Users \ {c.id} : user'[u] = user[u] BY <1>0, <1>1, <2>1, <2>2
  <2>e. PICK e : e = Entry("user", c.id, "active", c.seen.active, c.active) OBVIOUS
  <2>5. e.entity = "user" /\ e.id = c.id /\ e.what = "active" /\ e.old = c.seen.active /\ e.new = c.active
    BY <2>e DEF Entry
  <2>6. Speaks(e) BY <1>3, <2>1, <2>3, <2>4, <2>5
  <2>7. ASSUME NEW f, Named(f), Tracked(f), ~Same(f, e) PROVE Current(f)' = Current(f)
    <3>1. f.entity = "user" => user'[f.id][f.what] = user[f.id][f.what]
      BY <2>3, <2>4, <2>5, <2>7 DEF Named, Same, Known
    <3> QED BY <1>2, <2>7, <3>1
  <2> QED BY <2>1, <2>e, <2>6, <2>7, OneLogged
<1>7. CASE ResetPassword(r)
  <2>1. /\ audit' = audit \o <<Entry("user", c.id, "password", None, None)>>
        /\ user' = [user EXCEPT ![c.id].password = @ + 1] /\ c.id \in Known
    BY <1>0, <1>7, <1>c DEF ResetPassword, Log, Committing, Fits
  <2>2. c.id \in Users /\ user[c.id] \in UserRow BY <1>0, <2>1 DEF Known
  <2>3. user'[c.id].active = user[c.id].active /\ user'[c.id].role = user[c.id].role
    BY <1>0, <2>1, <2>2 DEF UserRow
  <2>4. c.id \in Known' /\ \A u \in Users \ {c.id} : user'[u] = user[u] BY <1>0, <1>1, <2>1, <2>2
  <2>e. PICK e : e = Entry("user", c.id, "password", None, None) OBVIOUS
  <2>5. e.entity = "user" /\ e.id = c.id /\ e.what = "password" BY <2>e DEF Entry
  <2>6. Named(e)' /\ ~Tracked(e) BY <2>4, <2>5 DEF Named, Charges, Tracked
  <2>7. Speaks(e) BY <2>6 DEF Speaks
  <2>8. ASSUME NEW f, Named(f), Tracked(f), ~Same(f, e) PROVE Current(f)' = Current(f)
    <3>1. f.entity = "user" => user'[f.id][f.what] = user[f.id][f.what]
      BY <2>3, <2>4, <2>8 DEF Named, Tracked, Known
    <3> QED BY <1>2, <2>8, <3>1
  <2> QED BY <2>1, <2>e, <2>7, <2>8, OneLogged
<1> QED BY <1>4, <1>5, <1>6, <1>7 DEF UserStep

\* Accounts; a reconciled balance is logged, and goes on changing.
LEMMA AccountLogs ==
  ASSUME AccountsOK, NEW r \in Requests, Fits(call[r]), Alone => Fresh(call[r]), AccountStep(r)
  PROVE  \E lines : Logged(lines)
<1>c. PICK c : c = call[r] OBVIOUS
<1>0. account \in [Accounts -> AccountRow] /\ Fits(c) /\ (Alone => Fresh(c)) BY <1>c DEF AccountsOK
<1>1. UNCHANGED <<provider, rules, item, service, cashIn, commission, user>> /\ AccountsGrow
  BY AccountStepKeeps DEF settingVars
<1>2. ASSUME NEW f, Named(f), f.entity # "account" \/ account'[f.id][f.what] = account[f.id][f.what]
      PROVE  Current(f)' = Current(f)
  <2>1. CASE f.entity = "account" BY <1>2, <2>1, CurrentIs
  <2>2. CASE f.entity # "account" BY <1>1, <1>2, <2>2, TablesStay DEF Named
  <2> QED BY <2>1, <2>2
<1>3. ASSUME NEW e, e.entity = "account", e.what \in {"name", "opening", "active"}, e.id \in Accounts, Exists(e.id)',
             e.new = account'[e.id][e.what], Alone /\ Exists(e.id) => e.old = account[e.id][e.what]
      PROVE  Speaks(e)
  <2>1. Named(e)' BY <1>3 DEF Named, Charges
  <2>2. e.new = Current(e)' /\ (Named(e) /\ Alone => e.old = Current(e)) BY <1>3, CurrentIs DEF Named
  <2> QED BY <2>1, <2>2 DEF Speaks
<1>4. CASE CreateAccount(r)
  <2> DEFINE new == NewAccount(c.type, Typed(c.name), c.opening)
             name == Typed(c.name)
  <2>0. PICK a \in (Accounts \ WalletAccounts) \ Own :
          /\ account' = [account EXCEPT ![a] = new]
          /\ audit' = audit \o <<Entry("account", a, "name", None, name), Entry("account", a, "opening", None, c.opening)>>
    BY <1>4, <1>c DEF CreateAccount, Log
  <2>1. c.name \in Names /\ c.type \in Types \ {"PROVIDER_WALLET"} /\ c.opening \in Nat
    BY <1>0, <1>4, <1>c DEF CreateAccount, Committing, Fits
  <2>2. new.type = c.type /\ new.name = name /\ new.opening = c.opening BY <2>1, NewAccountIs, NamesAre
  <2>3. a \in Accounts /\ ~Exists(a) BY <2>0 DEF Own
  <2> HIDE DEF new, name
  <2>4. account'[a] = new /\ \A b \in Accounts \ {a} : account'[b] = account[b] BY <1>0, <2>0, <2>3
  <2>5. Exists(a)' BY <2>1, <2>2, <2>4 DEF Exists, Types
  <2>e. PICK e, g : e = Entry("account", a, "name", None, name) /\ g = Entry("account", a, "opening", None, c.opening)
    OBVIOUS
  <2>6. /\ e.entity = "account" /\ e.id = a /\ e.what = "name" /\ e.new = name
        /\ g.entity = "account" /\ g.id = a /\ g.what = "opening" /\ g.new = c.opening
    BY <2>e DEF Entry
  <2>7. Speaks(e) /\ Speaks(g) BY <1>3, <2>2, <2>3, <2>4, <2>5, <2>6
  <2>8. ASSUME NEW f, Named(f), Tracked(f) PROVE Current(f)' = Current(f)
    <3>1. f.entity = "account" => f.id \in Accounts \ {a} BY <2>3, <2>8 DEF Named
    <3>2. f.entity = "account" => account'[f.id] = account[f.id] BY <2>4, <3>1
    <3> QED BY <1>2, <2>8, <3>2
  <2>9. ~Same(e, g) /\ ~Same(g, e) BY <2>6 DEF Same
  <2>10. audit' = audit \o <<e, g>> BY <2>0, <2>e
  <2> QED BY <2>7, <2>8, <2>9, <2>10, TwoLogged
<1>w. ASSUME c.id \in Accounts, Exists(c.id), NEW row \in AccountRow, account' = Written(c.id, row), row.type = account[c.id].type
      PROVE  /\ \A b \in Accounts \ {c.id} : account'[b] = account[b]
             /\ \A f \in {"name", "opening", "active"} : account'[c.id][f] = row[f]
             /\ Exists(c.id)'
  <2>1. /\ \A b \in Accounts \ {c.id} : account'[b] = account[b]
        /\ \A f \in {"type", "name", "ledgerName", "opening", "active"} : account'[c.id][f] = row[f]
    BY <1>0, <1>w, WrittenIs
  <2> QED BY <1>w, <2>1 DEF Exists
<1>5. CASE SetOpeningBalance(r)
  <2> DEFINE row == [account[c.id] EXCEPT !.opening = c.opening]
  <2>1. /\ audit' = audit \o <<Entry("account", c.id, "opening", c.seen.opening, c.opening)>>
        /\ account' = Written(c.id, row) /\ c.opening \in Nat
        /\ c.id \in Accounts /\ Exists(c.id) /\ (Alone => c.seen = account[c.id])
    BY <1>0, <1>5, <1>c DEF SetOpeningBalance, Log, Committing, Fits, Fresh
  <2>2. account[c.id] \in AccountRow BY <1>0, <2>1
  <2>3. /\ row \in AccountRow /\ row.type = account[c.id].type /\ row.opening = c.opening
        /\ row.name = account[c.id].name /\ row.active = account[c.id].active
    BY <2>1, <2>2 DEF AccountRow
  <2> HIDE DEF row
  <2>4. /\ \A b \in Accounts \ {c.id} : account'[b] = account[b]
        /\ \A f \in {"name", "opening", "active"} : account'[c.id][f] = row[f]
        /\ Exists(c.id)'
    BY <1>w, <2>1, <2>3
  <2>e. PICK e : e = Entry("account", c.id, "opening", c.seen.opening, c.opening) OBVIOUS
  <2>5. /\ e.entity = "account" /\ e.id = c.id /\ e.what = "opening"
        /\ e.old = c.seen.opening /\ e.new = c.opening
    BY <2>e DEF Entry
  <2>6. Speaks(e) BY <1>3, <2>1, <2>3, <2>4, <2>5
  <2>7. ASSUME NEW f, Named(f), Tracked(f), ~Same(f, e) PROVE Current(f)' = Current(f)
    <3>1. f.entity = "account" => account'[f.id][f.what] = account[f.id][f.what]
      BY <2>3, <2>4, <2>5, <2>7 DEF Named, Same, Tracked
    <3> QED BY <1>2, <2>7, <3>1
  <2> QED BY <2>1, <2>e, <2>6, <2>7, OneLogged
<1>6. CASE UpdateAccount(r)
  <2> DEFINE name == Typed(c.name)
             row == Renamed(account[c.id], name)
  <2>1. /\ audit' = audit \o <<Entry("account", c.id, "name", c.seen.name, name)>>
        /\ account' = Written(c.id, row) /\ c.name \in Names
        /\ c.id \in Accounts /\ Exists(c.id) /\ (Alone => c.seen = account[c.id])
    BY <1>0, <1>6, <1>c DEF UpdateAccount, Log, Committing, Fits, Fresh
  <2>2. account[c.id] \in AccountRow BY <1>0, <2>1
  <2>3. /\ row \in AccountRow /\ row.type = account[c.id].type /\ row.name = name
        /\ row.opening = account[c.id].opening /\ row.active = account[c.id].active
    BY <2>1, <2>2, NamesAre DEF AccountRow, Renamed
  <2> HIDE DEF row, name
  <2>4. /\ \A b \in Accounts \ {c.id} : account'[b] = account[b]
        /\ \A f \in {"name", "opening", "active"} : account'[c.id][f] = row[f]
        /\ Exists(c.id)'
    BY <1>w, <2>1, <2>3
  <2>e. PICK e : e = Entry("account", c.id, "name", c.seen.name, name) OBVIOUS
  <2>5. e.entity = "account" /\ e.id = c.id /\ e.what = "name" /\ e.old = c.seen.name /\ e.new = name
    BY <2>e DEF Entry
  <2>6. Speaks(e) BY <1>3, <2>1, <2>3, <2>4, <2>5
  <2>7. ASSUME NEW f, Named(f), Tracked(f), ~Same(f, e) PROVE Current(f)' = Current(f)
    <3>1. f.entity = "account" => account'[f.id][f.what] = account[f.id][f.what]
      BY <2>3, <2>4, <2>5, <2>7 DEF Named, Same, Tracked
    <3> QED BY <1>2, <2>7, <3>1
  <2> QED BY <2>1, <2>e, <2>6, <2>7, OneLogged
<1>7. CASE SetAccountActive(r)
  <2> DEFINE row == [account[c.id] EXCEPT !.active = c.active]
  <2>1. /\ audit' = audit \o <<Entry("account", c.id, "active", c.seen.active, c.active)>>
        /\ account' = Written(c.id, row) /\ c.active \in BOOLEAN
        /\ c.id \in Accounts /\ Exists(c.id) /\ (Alone => c.seen = account[c.id])
    BY <1>0, <1>7, <1>c DEF SetAccountActive, Log, Committing, Fits, Fresh
  <2>2. account[c.id] \in AccountRow BY <1>0, <2>1
  <2>3. /\ row \in AccountRow /\ row.type = account[c.id].type /\ row.active = c.active
        /\ row.name = account[c.id].name /\ row.opening = account[c.id].opening
    BY <2>1, <2>2 DEF AccountRow
  <2> HIDE DEF row
  <2>4. /\ \A b \in Accounts \ {c.id} : account'[b] = account[b]
        /\ \A f \in {"name", "opening", "active"} : account'[c.id][f] = row[f]
        /\ Exists(c.id)'
    BY <1>w, <2>1, <2>3
  <2>e. PICK e : e = Entry("account", c.id, "active", c.seen.active, c.active) OBVIOUS
  <2>5. e.entity = "account" /\ e.id = c.id /\ e.what = "active" /\ e.old = c.seen.active /\ e.new = c.active
    BY <2>e DEF Entry
  <2>6. Speaks(e) BY <1>3, <2>1, <2>3, <2>4, <2>5
  <2>7. ASSUME NEW f, Named(f), Tracked(f), ~Same(f, e) PROVE Current(f)' = Current(f)
    <3>1. f.entity = "account" => account'[f.id][f.what] = account[f.id][f.what]
      BY <2>3, <2>4, <2>5, <2>7 DEF Named, Same, Tracked
    <3> QED BY <1>2, <2>7, <3>1
  <2> QED BY <2>1, <2>e, <2>6, <2>7, OneLogged
<1>8. CASE Reconcile(r)
  <2>1. /\ audit' = audit \o <<Entry("account", c.id, "balance", c.expected, c.target)>>
        /\ account' = Written(c.id, account[c.id]) /\ c.id \in Accounts /\ Exists(c.id)
    BY <1>0, <1>8, <1>c DEF Reconcile, Log, Committing, Fits
  <2>2. account[c.id] \in AccountRow BY <1>0, <2>1
  <2>4. /\ \A b \in Accounts \ {c.id} : account'[b] = account[b]
        /\ \A f \in {"name", "opening", "active"} : account'[c.id][f] = account[c.id][f]
        /\ Exists(c.id)'
    BY <1>w, <2>1, <2>2
  <2>e. PICK e : e = Entry("account", c.id, "balance", c.expected, c.target) OBVIOUS
  <2>5. e.entity = "account" /\ e.id = c.id /\ e.what = "balance" BY <2>e DEF Entry
  <2>6. Named(e)' /\ ~Tracked(e) BY <2>1, <2>4, <2>5 DEF Named, Charges, Tracked
  <2>7. Speaks(e) BY <2>6 DEF Speaks
  <2>8. ASSUME NEW f, Named(f), Tracked(f), ~Same(f, e) PROVE Current(f)' = Current(f)
    <3>1. f.entity = "account" => account'[f.id][f.what] = account[f.id][f.what]
      BY <2>4, <2>8 DEF Named, Tracked
    <3> QED BY <1>2, <2>8, <3>1
  <2> QED BY <2>1, <2>e, <2>7, <2>8, OneLogged
<1> QED BY <1>4, <1>5, <1>6, <1>7, <1>8 DEF AccountStep

\* Providers; the new name of a wallet is logged as its provider's.
LEMMA ProviderLogs ==
  ASSUME AccountsOK, SettingsOK, WalletsOK, NEW r \in Requests, Fits(call[r]), Alone => Fresh(call[r]), ProviderStep(r)
  PROVE  \E lines : Logged(lines)
<1>c. PICK c : c = call[r] OBVIOUS
<1>0. /\ account \in [Accounts -> AccountRow] /\ provider \in [Providers -> ProviderRow]
      /\ \A p \in Providers : WalletOf[p] \in Accounts /\ WalletOf[p] \in WalletAccounts
      /\ Fits(c) /\ (Alone => Fresh(c))
  BY <1>c, OfficeAssumption DEF AccountsOK, SettingsOK, WalletAccounts
<1>1. /\ UNCHANGED <<rules, item, service, cashIn, commission, user>> /\ AccountsGrow /\ Present \subseteq Present'
  BY ProviderStepKeeps DEF ProvidersKept
<1>2. ASSUME NEW f, Named(f), f.entity = "account" => account'[f.id][f.what] = account[f.id][f.what],
             f.entity = "provider" => provider'[f.id][f.what] = provider[f.id][f.what]
      PROVE  Current(f)' = Current(f)
  <2>1. CASE f.entity \in {"account", "provider"} BY <1>2, <2>1, CurrentIs
  <2>2. CASE f.entity \notin {"account", "provider"} BY <1>1, <1>2, <2>2, TablesStay DEF Named
  <2> QED BY <2>1, <2>2
<1>3. ASSUME NEW e, e.entity = "provider", e.what \in {"name", "active"}, e.id \in Present',
             e.new = provider'[e.id][e.what], Alone /\ e.id \in Present => e.old = provider[e.id][e.what]
      PROVE  Speaks(e)
  <2>1. Named(e)' BY <1>3 DEF Named, Charges
  <2>2. e.new = Current(e)' /\ (Named(e) /\ Alone => e.old = Current(e)) BY <1>3, CurrentIs DEF Named
  <2> QED BY <2>1, <2>2 DEF Speaks
<1>4. CASE CreateProvider(r)
  <2> DEFINE wallet == Wallet(c.name)
             new == NewAccount("PROVIDER_WALLET", wallet, 0)
             row == [name |-> c.name, active |-> TRUE]
  <2>0. PICK p \in Providers \ Present :
          /\ provider' = [provider EXCEPT ![p] = row] /\ account' = [account EXCEPT ![WalletOf[p]] = new]
          /\ audit' = audit \o <<Entry("provider", p, "name", None, c.name), Entry("provider", p, "active", None, TRUE),
                                 Entry("account", WalletOf[p], "name", None, wallet),
                                 Entry("account", WalletOf[p], "opening", None, 0)>>
    BY <1>4, <1>c DEF CreateProvider, Log
  <2>1. c.name \in Names BY <1>0, <1>4, <1>c DEF CreateProvider, Committing, Fits
  <2>2. /\ new.type = "PROVIDER_WALLET" /\ new.name = wallet /\ new.opening = 0
        /\ row.name = c.name /\ row.active = TRUE /\ row # NoProvider
    BY <2>1, NewAccountIs, NamesAre DEF Types, NoProvider
  <2>w. PICK w : w = WalletOf[p] OBVIOUS
  <2>3. w \in Accounts /\ w \in WalletAccounts /\ ~Exists(w) BY <1>0, <2>0, <2>w DEF WalletsOK, AccountsOK
  <2> HIDE DEF wallet, new, row
  <2>4. /\ account'[w] = new /\ \A b \in Accounts \ {w} : account'[b] = account[b]
        /\ provider'[p] = row /\ \A q \in Providers \ {p} : provider'[q] = provider[q]
    BY <1>0, <2>0, <2>w, <2>3
  <2>5. Exists(w)' /\ p \in Present' BY <2>2, <2>4 DEF Exists, Present
  <2>e. PICK e, g, h, i :
          /\ e = Entry("provider", p, "name", None, c.name) /\ g = Entry("provider", p, "active", None, TRUE)
          /\ h = Entry("account", w, "name", None, wallet) /\ i = Entry("account", w, "opening", None, 0)
    OBVIOUS
  <2>6. /\ e.entity = "provider" /\ e.id = p /\ e.what = "name" /\ e.new = c.name
        /\ g.entity = "provider" /\ g.id = p /\ g.what = "active" /\ g.new = TRUE
        /\ h.entity = "account" /\ h.id = w /\ h.what = "name" /\ h.new = wallet
        /\ i.entity = "account" /\ i.id = w /\ i.what = "opening" /\ i.new = 0
    BY <2>e DEF Entry
  <2>7. Speaks(e) /\ Speaks(g)
    <3>1. e.new = provider'[e.id][e.what] /\ g.new = provider'[g.id][g.what] BY <2>2, <2>4, <2>6
    <3>2. e.id \in Present' /\ g.id \in Present' /\ e.id \notin Present /\ g.id \notin Present BY <2>5, <2>6
    <3> QED BY <1>3, <2>6, <3>1, <3>2
  <2>8. ASSUME NEW x \in {h, i} PROVE Speaks(x)
    <3>1. Named(x)' BY <2>3, <2>5, <2>6 DEF Named, Charges
    <3>2. ~Named(x) BY <2>3, <2>6 DEF Named
    <3>3. x.new = Current(x)' BY <2>2, <2>4, <2>6, CurrentIs
    <3> QED BY <3>1, <3>2, <3>3 DEF Speaks
  <2>9. ASSUME NEW f, Named(f), Tracked(f) PROVE Current(f)' = Current(f)
    <3>1. f.entity = "account" => f.id \in Accounts \ {w} BY <2>3, <2>9 DEF Named
    <3>2. f.entity = "provider" => f.id \in Providers \ {p} BY <2>0, <2>9 DEF Named, Present
    <3> QED BY <1>2, <2>4, <2>9, <3>1, <3>2
  <2>10. ~Same(e, g) /\ ~Same(e, h) /\ ~Same(e, i) /\ ~Same(g, h) /\ ~Same(g, i) /\ ~Same(h, i) BY <2>6 DEF Same
  <2>11. audit' = audit \o <<e, g, h, i>> BY <2>0, <2>e, <2>w
  <2> QED BY <2>7, <2>8, <2>9, <2>10, <2>11, FourLogged
<1>5. CASE UpdateProvider(r)
  <2> DEFINE wallet == Wallet(c.name)
  <2>1. /\ audit' = audit \o <<Entry("provider", c.id, "name", c.seen.name, c.name)>>
        /\ provider' = [provider EXCEPT ![c.id].name = c.name] /\ c.name \in Names
        /\ account' = account \/ account' = Written(WalletOf[c.id], Renamed(account[WalletOf[c.id]], wallet))
        /\ c.id \in Present /\ c.id \in Providers /\ (Alone => c.seen = provider[c.id])
    BY <1>0, <1>5, <1>c DEF UpdateProvider, Log, Committing, Fits, Fresh, Present
  <2>w. PICK w : w = WalletOf[c.id] OBVIOUS
  <2>2. w \in Accounts /\ w \in WalletAccounts /\ account[w] \in AccountRow BY <1>0, <2>1, <2>w
  <2>3. ASSUME NEW b \in Accounts, NEW x \in {"name", "opening", "active"}, x = "name" => b # w
        PROVE  account'[b][x] = account[b][x]
    <3> DEFINE row == Renamed(account[w], wallet)
    <3>1. row \in AccountRow /\ row.opening = account[w].opening /\ row.active = account[w].active
      BY <2>1, <2>2, NamesAre DEF Renamed, AccountRow
    <3>2. account' = account \/ account' = Written(w, row) BY <2>1, <2>w
    <3> HIDE DEF row
    <3>3. /\ \A a \in Accounts \ {w} : Written(w, row)[a] = account[a]
          /\ \A f \in {"type", "name", "ledgerName", "opening", "active"} : Written(w, row)[w][f] = row[f]
      BY <1>0, <2>2, <3>1, WrittenIs
    <3> QED BY <2>3, <3>1, <3>2, <3>3
  <2>4. provider'[c.id].name = c.name /\ provider'[c.id].active = provider[c.id].active
    BY <1>0, <2>1 DEF ProviderRow
  <2>5. c.id \in Present' /\ \A q \in Providers \ {c.id} : provider'[q] = provider[q] BY <1>0, <1>1, <2>1
  <2>e. PICK e : e = Entry("provider", c.id, "name", c.seen.name, c.name) OBVIOUS
  <2>6. e.entity = "provider" /\ e.id = c.id /\ e.what = "name" /\ e.old = c.seen.name /\ e.new = c.name
    BY <2>e DEF Entry
  <2>7. Speaks(e) BY <1>3, <2>1, <2>4, <2>5, <2>6
  <2>8. ASSUME NEW f, Named(f), Tracked(f), ~Same(f, e) PROVE Current(f)' = Current(f)
    <3>1. f.entity = "provider" => provider'[f.id][f.what] = provider[f.id][f.what]
      BY <2>4, <2>5, <2>6, <2>8 DEF Named, Same, Present
    <3>2. f.entity = "account" => /\ f.id \in Accounts /\ f.what \in {"name", "opening", "active"}
                                  /\ f.what = "name" => f.id # w
      BY <2>2, <2>8 DEF Named, Tracked
    <3>3. f.entity = "account" => account'[f.id][f.what] = account[f.id][f.what] BY <2>3, <3>2
    <3> QED BY <1>2, <2>8, <3>1, <3>3
  <2> QED BY <2>1, <2>e, <2>7, <2>8, OneLogged
<1>6. CASE SetProviderActive(r)
  <2>1. /\ audit' = audit \o <<Entry("provider", c.id, "active", c.seen.active, c.active)>>
        /\ provider' = [provider EXCEPT ![c.id].active = c.active] /\ UNCHANGED account
        /\ c.id \in Present /\ c.id \in Providers /\ (Alone => c.seen = provider[c.id])
    BY <1>0, <1>6, <1>c DEF SetProviderActive, Log, Committing, Fits, Fresh, Present, accountVars
  <2>4. provider'[c.id].active = c.active /\ provider'[c.id].name = provider[c.id].name
    BY <1>0, <2>1 DEF ProviderRow
  <2>5. c.id \in Present' /\ \A q \in Providers \ {c.id} : provider'[q] = provider[q] BY <1>0, <1>1, <2>1
  <2>e. PICK e : e = Entry("provider", c.id, "active", c.seen.active, c.active) OBVIOUS
  <2>6. e.entity = "provider" /\ e.id = c.id /\ e.what = "active" /\ e.old = c.seen.active /\ e.new = c.active
    BY <2>e DEF Entry
  <2>7. Speaks(e) BY <1>3, <2>1, <2>4, <2>5, <2>6
  <2>8. ASSUME NEW f, Named(f), Tracked(f), ~Same(f, e) PROVE Current(f)' = Current(f)
    <3>1. f.entity = "provider" => provider'[f.id][f.what] = provider[f.id][f.what]
      BY <2>4, <2>5, <2>6, <2>8 DEF Named, Same, Present
    <3> QED BY <1>2, <2>1, <2>8, <3>1
  <2> QED BY <2>1, <2>e, <2>7, <2>8, OneLogged
<1> QED BY <1>4, <1>5, <1>6 DEF ProviderStep

\* What is open after new slabs: these, and what is open of the other providers.
LEMMA OpenIs ==
  ASSUME NEW k \in Charges, NEW p \in Providers, NEW slabs, NEW now \in Nat,
         rules \in [Charges -> SUBSET RuleRow],
         rules' = [rules EXCEPT ![k] = Replaced(k, p, Open(k, p), slabs, now)]
  PROVE  /\ {x.slab : x \in Open(k, p)'} = slabs
         /\ \A q \in Providers \ {p} : Open(k, q)' = Open(k, q)
         /\ \A h \in Charges \ {k} : \A q : Open(h, q)' = Open(h, q)
<1> DEFINE R == Replaced(k, p, Open(k, p), slabs, now)
<1>0. None \notin Nat BY OfficeAssumption
<1>1. rules'[k] = R /\ \A h \in Charges \ {k} : rules'[h] = rules[h] OBVIOUS
<1>2. \A z \in R :
         \/ \E s \in slabs : /\ z = Rule(p, s, now) /\ z.provider = p /\ z.slab = s
                             /\ z.from = now /\ z.to = None
         \/ \E x \in rules[k] : /\ z.provider = x.provider /\ z.slab = x.slab /\ z.from = x.from
                                /\ IF x.provider = p /\ x.to = None
                                   THEN z = [x EXCEPT !.to = now] /\ z.to = now ELSE z = x
  BY ReplacedIs
<1>3. \A s \in slabs : Rule(p, s, now) \in R BY DEF Replaced
<1>4. \A x \in rules[k] : x.provider # p => x \in R BY DEF Replaced, Open
<1>5. \A s : Rule(p, s, now).provider = p /\ Rule(p, s, now).slab = s /\ Rule(p, s, now).to = None BY DEF Rule
<1> HIDE DEF R
<1>6. {x.slab : x \in Open(k, p)'} = slabs
  <2>1. ASSUME NEW z \in Open(k, p)' PROVE z.slab \in slabs
    <3>1. z \in R /\ z.provider = p /\ z.to = None BY <1>1 DEF Open
    <3> QED BY <1>0, <1>2, <3>1
  <2>2. ASSUME NEW s \in slabs PROVE \E z \in Open(k, p)' : z.slab = s
    <3>1. Rule(p, s, now) \in Open(k, p)' BY <1>1, <1>3, <1>5 DEF Open
    <3> QED BY <1>5, <3>1
  <2> QED BY <2>1, <2>2
<1>7. ASSUME NEW q \in Providers \ {p} PROVE Open(k, q)' = Open(k, q)
  <2>1. ASSUME NEW z \in Open(k, q)' PROVE z \in Open(k, q)
    <3>1. z \in R /\ z.provider = q /\ z.to = None BY <1>1 DEF Open
    <3>2. z \in rules[k] BY <1>2, <3>1
    <3> QED BY <3>1, <3>2 DEF Open
  <2>2. ASSUME NEW z \in Open(k, q) PROVE z \in Open(k, q)' BY <1>1, <1>4 DEF Open
  <2> QED BY <2>1, <2>2
<1>8. \A h \in Charges \ {k} : \A q : Open(h, q)' = Open(h, q) BY <1>1 DEF Open
<1> QED BY <1>6, <1>7, <1>8

\* One call after the other, the slabs that are logged are the open ones.
LEMMA RuleLogs ==
  ASSUME SettingsOK, NEW r \in Requests, Fits(call[r]), Fresh(call[r]), RuleStep(r)
  PROVE  \E lines : Logged(lines)
<1>c. PICK c : c = call[r] OBVIOUS
<1>k. PICK k \in Charges : SetRules(r, k) BY DEF RuleStep
<1>0. rules \in [Charges -> SUBSET RuleRow] /\ clock \in Nat /\ Fits(c) /\ Fresh(c) BY <1>c DEF SettingsOK
<1>1. UNCHANGED <<account, provider, item, service, cashIn, commission, user>> /\ c.op = k
  BY <1>c, <1>k DEF SetRules, Committing, accountVars
<1>2. c.id \in Present /\ c.id \in Providers /\ c.seen = Open(k, c.id) BY <1>0, <1>1 DEF Fits, Fresh, Present
<1>p. PICK p, slabs, old : p = c.id /\ slabs = c.slabs /\ old = {x.slab : x \in c.seen} OBVIOUS
<1>3. PICK ended \in Ended(k, c) :
        /\ clock' \in {clock, clock + 1}
        /\ rules' = [rules EXCEPT ![k] = Replaced(k, p, ended, slabs, clock')]
        /\ audit' = audit \o <<Entry(k, p, "slabs", old, slabs)>>
  BY <1>c, <1>k, <1>p DEF SetRules, Log
<1>4. ended = Open(k, p) BY <1>2, <1>3, <1>p DEF Ended
<1>5. clock' \in Nat BY <1>0, <1>3
<1>n. PICK now \in Nat : now = clock' BY <1>5
<1>6. /\ {x.slab : x \in Open(k, p)'} = slabs
      /\ \A q \in Providers \ {p} : Open(k, q)' = Open(k, q)
      /\ \A h \in Charges \ {k} : \A q : Open(h, q)' = Open(h, q)
  <2>1. p \in Providers /\ rules' = [rules EXCEPT ![k] = Replaced(k, p, Open(k, p), slabs, now)]
    BY <1>2, <1>3, <1>4, <1>n, <1>p
  <2> QED BY <1>0, <2>1, OpenIs
<1>e. PICK e : e = Entry(k, p, "slabs", old, slabs) OBVIOUS
<1>7. e.entity = k /\ e.id = p /\ e.what = "slabs" /\ e.old = old /\ e.new = slabs BY <1>e DEF Entry
<1>8. Speaks(e)
  <2>1. Named(e)' BY <1>1, <1>2, <1>7, <1>p DEF Named, Charges, Present
  <2>2. e.new = Current(e)' BY <1>6, <1>7, CurrentIs
  <2>3. e.old = Current(e) BY <1>2, <1>7, <1>p, CurrentIs
  <2> QED BY <2>1, <2>2, <2>3 DEF Speaks
<1>9. ASSUME NEW f, Named(f), Tracked(f), ~Same(f, e) PROVE Current(f)' = Current(f)
  <2>1. CASE f.entity \in Charges
    <3>1. f.id \in Providers BY <1>9, <2>1 DEF Named
    <3>2. f.entity # k \/ f.id # p BY <1>7, <1>9, <2>1 DEF Named, Same
    <3>3. Open(f.entity, f.id)' = Open(f.entity, f.id) BY <1>6, <2>1, <3>1, <3>2
    <3> QED BY <2>1, <3>3, CurrentIs
  <2>2. CASE f.entity \notin Charges BY <1>1, <1>9, <2>2, TablesStay DEF Named
  <2> QED BY <2>1, <2>2
<1> QED BY <1>3, <1>e, <1>8, <1>9, OneLogged

(* Two calls that set the slabs of one provider at once may leave both     *)
(* sets open, and the log then tells of the later one only; the others     *)
(* write what they log however they overlap.                               *)
RulesAlone == \A l \in Loads : "rules" \in l.ops => l.together = 1 /\ ~l.during

(* Calls that set slabs are made where the bounds have them.               *)
RulesBounded == \A r \in Requests : call[r].op \in Charges => "rules" \in load.ops

\* Only such calls are named after what they set.
LEMMA RulesAsk ==
  ASSUME AccountsOK, SettingsOK, NEW op, NEW c \in Calls(op), c.op \in Charges
  PROVE  op = "rules"
<1>1. CASE op \in {"createAccount", "setOpening", "updateAccount", "setAccountActive", "reconcile"}
  BY <1>1 DEF Calls, CreateAccountCalls, SetOpeningCalls, UpdateAccountCalls, SetAccountActiveCalls, ReconcileCalls, Charges
<1>2. CASE op \in {"createProvider", "updateProvider", "setProviderActive"}
  BY <1>2 DEF Calls, CreateProviderCalls, UpdateProviderCalls, SetProviderActiveCalls, Charges
<1>3. ASSUME NEW k \in ItemKinds, c \in ItemCalls(k) PROVE FALSE
  BY <1>3 DEF ItemCalls, CreateItemCalls, UpdateItemCalls, SetItemActiveCalls, Charges
<1>4. CASE op = "types"
  <2>1. c \in ItemCalls("customerType") BY <1>4 DEF Calls
  <2>2. "customerType" \in ItemKinds BY DEF ItemKinds
  <2> QED BY <1>3, <2>1, <2>2
<1>5. CASE op = "lists"
  <2>1. c \in UNION {ItemCalls(k) : k \in ItemKinds \ {"customerType"}} BY <1>5 DEF Calls
  <2>2. PICK k \in ItemKinds : c \in ItemCalls(k) BY <2>1
  <2> QED BY <1>3, <2>2
<1>6. CASE op = "services"
  BY <1>6 DEF Calls, CreateServiceCalls, UpdateServiceCalls, SetServiceActiveCalls, Charges
<1>7. CASE op = "cashIn"
  BY <1>7 DEF Calls, CreateCashInTransferTypeCalls, UpdateCashInTransferTypeCalls, SetCashInTransferTypeActiveCalls, Charges
<1>8. CASE op = "commission"
  BY <1>8 DEF Calls, CreateCommissionRuleCalls, UpdateCommissionRuleCalls, SetCommissionRuleActiveCalls, Charges
<1>9. CASE op = "users"
  BY <1>9 DEF Calls, CreateUserCalls, UpdateUserCalls, SetUserActiveCalls, ResetPasswordCalls, Charges
<1> QED BY <1>1, <1>2, <1>4, <1>5, <1>6, <1>7, <1>8, <1>9 DEF Calls

\* So the bounds have them.
LEMMA RulesBoundedNext ==
  ASSUME Shape, RulesBounded, [Next]_vars
  PROVE  RulesBounded'
<1>0. AccountsOK /\ SettingsOK /\ load \in Loads /\ call = [r \in Requests |-> call[r]] /\ load' = load
  BY WhoWrites DEF Shape
<1>1. CASE UNCHANGED call BY <1>0, <1>1 DEF RulesBounded
<1>2. ASSUME NEW r \in Requests, Begin(r) PROVE RulesBounded'
  <2>0. PICK op \in load.ops : \E c \in Calls(op) : call' = [call EXCEPT ![r] = c] BY <1>2 DEF Begin
  <2>1. PICK c \in Calls(op) : call' = [call EXCEPT ![r] = c] BY <2>0
  <2>2. c.op \in Charges => "rules" \in load.ops BY <1>0, <2>0, RulesAsk
  <2>3. \A q \in Requests : call'[q] = IF q = r THEN c ELSE call[q] BY <1>0, <2>1
  <2> QED BY <1>0, <2>2, <2>3 DEF RulesBounded
<1>3. ASSUME NEW r \in Requests, call' = [call EXCEPT ![r] = Answered] PROVE RulesBounded'
  <2>1. \A q \in Requests : call'[q] = IF q = r THEN Answered ELSE call[q] BY <1>0, <1>3
  <2>2. Answered.op \notin Charges BY DEF Answered, Charges
  <2> QED BY <1>0, <2>1, <2>2 DEF RulesBounded
<1>4. CASE UNCHANGED vars BY <1>1, <1>4 DEF vars
<1>5. CASE Next
  <2>1. \/ \E r \in Requests : Begin(r) \/ Abort(r) \/ Commits(r)
        \/ Moving /\ (CounterStep \/ EndDay)
    BY <1>0, <1>5, StepIs
  <2> QED BY <1>1, <1>2, <1>3, <2>1, CommitAnswers DEF Abort, Moving
<1> QED BY <1>4, <1>5

\* What the log names stays there.
LEMMA NamedStays ==
  ASSUME NEW e, Named(e), AccountsGrow, SettingsGrow
  PROVE  Named(e)'
<1>1. e.entity = "account" => Exists(e.id)' BY DEF Named, AccountsGrow, Exists
<1>2. /\ e.entity = "provider" => e.id \in Present'
      /\ e.entity = "item" => item'[e.id] # NoItem
      /\ e.entity = "service" => service' # NoService
      /\ e.entity = "cashIn" => cashIn' # NoCashIn
      /\ e.entity = "commission" => e.id \in DOMAIN commission'
      /\ e.entity = "user" => e.id \in Known'
  BY DEF Named, SettingsGrow
<1> QED BY <1>1, <1>2 DEF Named

\* Every transaction logs what it changes.
LEMMA CommitLogs ==
  ASSUME RulesAlone, Shape, InTurn, RulesBounded, NEW r \in Requests, Commits(r)
  PROVE  \E lines : Logged(lines)
<1>0. AccountsOK /\ RowsOK /\ SettingsOK /\ WalletsOK /\ load \in Loads /\ Fits(call[r]) BY DEF Shape
<1>1. r \in InFlight BY CommitAnswers DEF InFlight
<1>2. Alone => Fresh(call[r]) BY <1>1 DEF InTurn
<1>3. CASE RuleStep(r)
  <2>1. call[r].op \in Charges BY <1>3 DEF RuleStep, SetRules, Committing
  <2>2. Alone BY <1>0, <2>1 DEF RulesBounded, RulesAlone, Alone
  <2> QED BY <1>0, <1>2, <1>3, <2>2, RuleLogs
<1>4. CASE AccountStep(r) BY <1>0, <1>2, <1>4, AccountLogs
<1>5. CASE ProviderStep(r) BY <1>0, <1>2, <1>5, ProviderLogs
<1>6. CASE ItemStep(r) BY <1>0, <1>2, <1>6, ItemLogs
<1>7. CASE ServiceStep(r) BY <1>0, <1>2, <1>7, ServiceLogs
<1>8. CASE CashInStep(r) BY <1>0, <1>2, <1>8, CashInLogs
<1>9. CASE CommissionStep(r) BY <1>0, <1>2, <1>9, CommissionLogs
<1>10. CASE UserStep(r) BY <1>0, <1>2, <1>10, UserLogs
<1> QED BY <1>3, <1>4, <1>5, <1>6, <1>7, <1>8, <1>9, <1>10 DEF Commits

\* Every step keeps the log true.
LEMMA AuditNext ==
  ASSUME RulesAlone, Shape, InTurn, RulesBounded, LogOK, AuditCurrent, AuditChain, [Next]_vars
  PROVE  LogOK' /\ AuditCurrent' /\ AuditChain'
<1>0. AccountsOK /\ RowsOK /\ SettingsOK /\ WalletsOK /\ load \in Loads /\ load' = load /\ \A r \in Requests : Fits(call[r])
  BY WhoWrites DEF Shape
<1>1. ASSUME UNCHANGED <<account, settingVars, audit>>
      PROVE  (\E lines : Logged(lines)) /\ \A e : Named(e) => Named(e)'
  <2>1. UNCHANGED <<account, provider, rules, item, service, cashIn, commission, user>> BY <1>1 DEF settingVars
  <2>2. ASSUME NEW f, Named(f) PROVE Current(f)' = Current(f) BY <2>1, <2>2, TablesStay DEF Named
  <2>3. \E lines : Logged(lines) BY <1>1, <2>2, NoneLogged
  <2>4. AccountsGrow /\ SettingsGrow BY <2>1 DEF AccountsGrow, SettingsGrow, Present, Known
  <2> QED BY <2>3, <2>4, NamedStays
<1>2. ASSUME NEW r \in Requests, Commits(r)
      PROVE  (\E lines : Logged(lines)) /\ \A e : Named(e) => Named(e)'
  <2>1. AccountsGrow /\ SettingsGrow BY <1>0, <1>2, CommitKeeps
  <2>2. \E lines : Logged(lines) BY <1>2, CommitLogs
  <2> QED BY <2>1, <2>2, NamedStays
<1>3. UNCHANGED vars => UNCHANGED <<account, settingVars, audit>> BY DEF vars, accountVars
<1>4. ASSUME Next
      PROVE  (\E lines : Logged(lines)) /\ \A e : Named(e) => Named(e)'
  <2>1. \/ \E r \in Requests : Begin(r) \/ Abort(r) \/ Commits(r)
        \/ Moving /\ (CounterStep \/ EndDay)
    BY <1>0, <1>4, StepIs
  <2>2. ASSUME NEW r \in Requests, Begin(r) \/ Abort(r) PROVE UNCHANGED <<account, settingVars, audit>>
    BY <2>2 DEF Begin, Abort, accountVars
  <2>3. ASSUME Moving /\ (CounterStep \/ EndDay) PROVE UNCHANGED <<account, settingVars, audit>>
    BY <1>0, <2>3, CounterKeeps
  <2> QED BY <1>1, <1>2, <2>1, <2>2, <2>3
<1>5. (\E lines : Logged(lines)) /\ \A e : Named(e) => Named(e)' BY <1>1, <1>2, <1>3, <1>4
<1>6. PICK lines : Logged(lines) BY <1>5
<1> QED BY <1>0, <1>5, <1>6, LogKeeps

\* The log is true in every reachable state: what it says last of a field
\* the field holds, however calls overlap, and one call after the other
\* what it says was there before was there (AuditService.log()).
THEOREM AuditTrueInvariant ==
  ASSUME RulesAlone
  PROVE  Spec => []AuditTrue
<1> DEFINE Inv == Shape /\ InTurn /\ RulesBounded /\ LogOK /\ AuditCurrent /\ AuditChain
<1>1. Init => Inv
  <2>1. SUFFICES ASSUME Init PROVE Inv OBVIOUS
  <2>2. audit = << >> BY <2>1 DEF Init
  <2>3. DOMAIN audit = {} /\ audit \in Seq({}) BY <2>2
  <2>4. LogOK /\ AuditCurrent /\ AuditChain BY <2>3 DEF LogOK, AuditCurrent, AuditChain
  <2>5. \A r \in Requests : call[r].op = "waiting" BY <2>1 DEF Init, Waiting
  <2>6. RulesBounded BY <2>5 DEF RulesBounded, Charges
  <2> QED BY <2>1, <2>4, <2>6, ShapeInit, InTurnInit
<1>2. Inv /\ [Next]_vars => Inv' BY ShapeNext, InTurnNext, RulesBoundedNext, AuditNext
<1>3. Inv => AuditTrue BY DEF AuditTrue
<1> HIDE DEF Inv
<1> QED BY <1>1, <1>2, <1>3, PTL DEF Spec

=============================================================================
