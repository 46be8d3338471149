--------------------------- MODULE OfficeSettings ---------------------------
(***************************************************************************)
(* Providers with their wallets and dated slabs of rates, the settings the *)
(* owner maintains, and the users.                                         *)
(***************************************************************************)
EXTENDS OfficeAccounts, SequencesExt

Charges == {"aeps", "microAtm", "payout"}
ItemKinds == {"customerType", "paymentTerm", "cardNetwork", "expenseCategory", "gateway"}
Parts == {"customer", "provider", "gateway", "term"}
Scope == [Parts -> Scopes]

ASSUME SettingsAssumption ==
    /\ Kind \in [Items -> ItemKinds] /\ FirstItems \subseteq Items
    /\ \E i \in FirstItems : Kind[i] = "customerType"
    /\ DOMAIN FirstUsers \subseteq Users /\ DOMAIN FirstUsers # {}
    /\ FirstUsers \in [DOMAIN FirstUsers -> Roles]
    /\ None \notin Items \cup Values
    /\ Amounts \subseteq Nat
    /\ \A slabs \in SlabSets : \A s \in slabs : s.min \in Nat /\ s.max \in Nat \cup {None}

---------------------------------------------------------------------------
(* ProvidersService.                                                       *)

NoProvider == [name |-> None, active |-> FALSE]
Present == {p \in Providers : provider[p] # NoProvider}

(* create(): the provider, its wallet, the wallet's ledger account.        *)
CreateProviderCalls == [op : {"createProvider"}, name : Names]

CreateProvider(r) ==
    /\ Committing(r, "createProvider")
    /\ LET n == call[r].name IN \E p \in Providers \ Present :
         /\ \A q \in Present : provider[q].name # n
         /\ provider' = [provider EXCEPT ![p] = [name |-> n, active |-> TRUE]]
         /\ account' = [account EXCEPT ![WalletOf[p]] = NewAccount("PROVIDER_WALLET", Wallet(n), 0)]
         /\ Log(<<Entry("provider", p, "name", None, n), Entry("provider", p, "active", None, TRUE),
                  Entry("account", WalletOf[p], "name", None, Wallet(n)), Entry("account", WalletOf[p], "opening", None, 0)>>)
    /\ UNCHANGED <<entries, books, sessions, due, closing, rows, since,
                   rules, clock, item, service, cashIn, commission, user>>

(* updateProvider(): the wallet follows when the name is another one than  *)
(* it was before the transaction.                                          *)
UpdateProviderCalls ==
    {c \in [op : {"updateProvider"}, id : Present, name : Names, seen : Range(provider)] :
        c.seen = provider[c.id]}

UpdateProvider(r) ==
    /\ Committing(r, "updateProvider")
    /\ LET c == call[r]
           w == WalletOf[c.id]
       IN  /\ \A q \in Present \ {c.id} : provider[q].name # c.name
           /\ provider' = [provider EXCEPT ![c.id].name = c.name]
           /\ account' = IF c.name = c.seen.name THEN account
                         ELSE Written(w, Renamed(account[w], Wallet(c.name)))
           /\ Log(<<Entry("provider", c.id, "name", c.seen.name, c.name)>>)
    /\ UNCHANGED <<entries, books, sessions, due, closing, rows, since,
                   rules, clock, item, service, cashIn, commission, user>>

SetProviderActiveCalls ==
    {c \in [op : {"setProviderActive"}, id : Present, active : BOOLEAN, seen : Range(provider)] :
        c.seen = provider[c.id]}

SetProviderActive(r) ==
    /\ Committing(r, "setProviderActive")
    /\ LET c == call[r] IN
         /\ provider' = [provider EXCEPT ![c.id].active = c.active]
         /\ Log(<<Entry("provider", c.id, "active", c.seen.active, c.active)>>)
    /\ UNCHANGED <<accountVars, rules, clock, item, service, cashIn, commission, user>>

(* Slabs: from an amount up to another, or (None) without end.             *)
Ends(s) == s.max # None

(* Variant of Acceptable that lets neighbours share their common amount.   *)
AcceptableTouching(slabs) ==
    /\ \A s \in slabs : Ends(s) => s.max >= s.min
    /\ \A s, t \in slabs : s # t /\ s.min <= t.min => Ends(s) /\ s.max <= t.min

(* Sorted by their minimum, every slab ends before the next begins.        *)
Acceptable(slabs) ==
    /\ \A s \in slabs : Ends(s) => s.max >= s.min
    /\ \A s, t \in slabs : s # t /\ s.min <= t.min => Ends(s) /\ s.max < t.min

Rule(p, slab, from) == [provider |-> p, slab |-> slab, from |-> from, to |-> None]

(* The rules in force from now on.                                         *)
Open(kind, p) == {x \in rules[kind] : x.provider = p /\ x.to = None}

(* Variant of Replaced that deletes what it replaces.                      *)
ReplacedForgotten(kind, p, ended, slabs, now) ==
    (rules[kind] \ ended) \cup {Rule(p, s, now) : s \in slabs}

(* What was in force ends when its successors begin.                       *)
Replaced(kind, p, ended, slabs, now) ==
    {IF x \in ended THEN [x EXCEPT !.to = now] ELSE x : x \in rules[kind]}
    \cup {Rule(p, s, now) : s \in slabs}

SetRulesCalls(kind) ==
    {c \in [op : {kind}, id : Present, slabs : SlabSets, seen : {Open(kind, p) : p \in Present}] :
        Acceptable(c.slabs) /\ c.seen = Open(kind, c.id)}

(* Dates may repeat within a millisecond.  A call that found rules ends    *)
(* those it found and, unless it looked too early, those entered since; a  *)
(* call that found none ends none.                                         *)
Ended(kind, c) == {c.seen, IF c.seen = {} THEN {} ELSE Open(kind, c.id)}

SetRules(r, kind) ==
    /\ Committing(r, kind)
    /\ LET c == call[r] IN \E ended \in Ended(kind, c) :
         /\ clock' \in {clock, clock + 1}
         /\ rules' = [rules EXCEPT ![kind] = Replaced(kind, c.id, ended, c.slabs, clock')]
         /\ Log(<<Entry(kind, c.id, "slabs", {x.slab : x \in c.seen}, c.slabs)>>)
    /\ UNCHANGED <<accountVars, provider, item, service, cashIn, commission, user>>

SetAepsProviderCommissionRules(r) == SetRules(r, "aeps")
SetMicroAtmProviderCommissionRules(r) == SetRules(r, "microAtm")
SetPayoutChargeRules(r) == SetRules(r, "payout")

(* A rule applies from its date until, and not at, the date it ends.       *)
InForce(x, date) == x.from <= date /\ (x.to # None => date < x.to)

(* The rules a charge or commission of this amount is computed by.         *)
Applicable(kind, p, amount, date) ==
    {x \in rules[kind] : /\ x.provider = p /\ InForce(x, date)
                         /\ x.slab.min <= amount /\ (Ends(x.slab) => amount <= x.slab.max)}

---------------------------------------------------------------------------
(* SettingsService: names, values and switches.                            *)

NoItem == [value |-> None, active |-> FALSE]
Kept(kind) == {i \in Items : Kind[i] = kind /\ item[i] # NoItem}
Free(kind) == {i \in Items : Kind[i] = kind /\ item[i] = NoItem}

(* The value of a customer type is its name; a taken one is refused, as    *)
(* the unique index refuses it for the others.                             *)
Taken(kind, but, value) == \E i \in Kept(kind) \ {but} : item[i].value = value

OnlyItem == UNCHANGED <<accountVars, provider, rules, clock, service, cashIn, commission, user>>

CreateItem(r, kind) ==
    /\ Committing(r, "createItem") /\ call[r].kind = kind
    /\ LET v == call[r].value IN \E i \in Free(kind) :
         /\ ~Taken(kind, None, v)
         /\ item' = [item EXCEPT ![i] = [value |-> v, active |-> TRUE]]
         /\ Log(<<Entry("item", i, "value", None, v), Entry("item", i, "active", None, TRUE)>>)
    /\ OnlyItem

UpdateItem(r, kind) ==
    /\ Committing(r, "updateItem") /\ call[r].kind = kind
    /\ LET c == call[r] IN
         /\ ~Taken(kind, c.id, c.value)
         /\ item' = [item EXCEPT ![c.id].value = c.value]
         /\ Log(<<Entry("item", c.id, "value", c.seen.value, c.value)>>)
    /\ OnlyItem

SetItemActive(r, kind) ==
    /\ Committing(r, "setItemActive") /\ call[r].kind = kind
    /\ LET c == call[r] IN
         /\ item' = [item EXCEPT ![c.id].active = c.active]
         /\ Log(<<Entry("item", c.id, "active", c.seen.active, c.active)>>)
    /\ OnlyItem

CreateItemCalls(kind) ==
    {c \in [op : {"createItem"}, kind : {kind}, value : Values] :
        kind = "customerType" => ~Taken(kind, None, c.value)}

UpdateItemCalls(kind) ==
    {c \in [op : {"updateItem"}, kind : {kind}, id : Kept(kind), value : Values, seen : Range(item)] :
        c.seen = item[c.id] /\ (kind = "customerType" => ~Taken(kind, c.id, c.value))}

(* "At least one customer type must remain active."                        *)
MaySwitch(kind, active, seen) ==
    kind = "customerType" /\ ~active /\ seen.active =>
        Cardinality({i \in Kept(kind) : item[i].active}) > 1

SetItemActiveCalls(kind) ==
    {c \in [op : {"setItemActive"}, kind : {kind}, id : Kept(kind), active : BOOLEAN, seen : Range(item)] :
        c.seen = item[c.id] /\ MaySwitch(kind, c.active, c.seen)}

CreateCustomerType(r)    == CreateItem(r, "customerType")
UpdateCustomerType(r)    == UpdateItem(r, "customerType")
SetCustomerTypeActive(r) == SetItemActive(r, "customerType")
CreatePaymentTerm(r)     == CreateItem(r, "paymentTerm")
UpdatePaymentTerm(r)     == UpdateItem(r, "paymentTerm")
SetPaymentTermActive(r)  == SetItemActive(r, "paymentTerm")
CreateCardNetwork(r)     == CreateItem(r, "cardNetwork")
SetCardNetworkActive(r)  == SetItemActive(r, "cardNetwork")
CreateExpenseCategory(r) == CreateItem(r, "expenseCategory")
UpdateExpenseCategory(r) == UpdateItem(r, "expenseCategory")
SetExpenseCategoryActive(r) == SetItemActive(r, "expenseCategory")
AddGateway(r)            == CreateItem(r, "gateway")
UpdateGateway(r)         == UpdateItem(r, "gateway")
SetGatewayActive(r)      == SetItemActive(r, "gateway")

(* createService(): a service only partners do is one that partners may do.*)
(* Its name is unique: of two calls at once the second is refused.         *)
NoService == [allow |-> FALSE, only |-> FALSE, active |-> None]
Choice == BOOLEAN \cup {None}
Given(choice, default) == IF choice = None THEN default ELSE choice

OnlyService == UNCHANGED <<accountVars, provider, rules, clock, item, cashIn, commission, user>>

CreateServiceCalls ==
    IF service # NoService THEN {} ELSE [op : {"createService"}, allow : Choice, only : Choice]

CreateService(r) ==
    /\ Committing(r, "createService") /\ service = NoService
    /\ LET c     == call[r]
           allow == Given(c.allow, Given(c.only, FALSE))
       IN  /\ service' = [allow |-> allow, only |-> allow /\ Given(c.only, FALSE), active |-> TRUE]
           /\ Log(<<Entry("service", None, "value", None, <<service'.allow, service'.only>>),
                    Entry("service", None, "active", None, TRUE)>>)
    /\ OnlyService

(* Variant of Partnered that keeps a mode it was not given.                *)
PartneredStale(c) == [c.seen EXCEPT !.allow = Given(c.allow, @), !.only = Given(c.only, @)]

(* updateService(): both modes are computed from what was read before and  *)
(* written together.                                                       *)
Partnered(c) ==
    LET allow == Given(c.allow, c.only = TRUE \/ c.seen.allow)
    IN  [c.seen EXCEPT !.allow = allow, !.only = allow /\ Given(c.only, @)]

UpdateServiceCalls ==
    IF service = NoService THEN {}
    ELSE [op : {"updateService"}, allow : Choice, only : Choice, seen : {service}]

UpdateService(r) ==
    /\ Committing(r, "updateService")
    /\ LET c == call[r] IN
         /\ service' = [Partnered(c) EXCEPT !.active = service.active]
         /\ Log(<<Entry("service", None, "value", <<c.seen.allow, c.seen.only>>,
                        <<service'.allow, service'.only>>)>>)
    /\ OnlyService

SetServiceActiveCalls ==
    IF service = NoService THEN {}
    ELSE [op : {"setServiceActive"}, active : BOOLEAN, seen : {service}]

SetServiceActive(r) ==
    /\ Committing(r, "setServiceActive")
    /\ service' = [service EXCEPT !.active = call[r].active]
    /\ Log(<<Entry("service", None, "active", call[r].seen.active, call[r].active)>>)
    /\ OnlyService

(* Cash-in transfer types: the rate follows the mode unless it is given.   *)
NoCashIn == [mode |-> None, rate |-> None, active |-> FALSE]
Modes == {"UPI", "BANK"}

DefaultRate(mode) == IF mode = "UPI" THEN 2 ELSE 1

OnlyCashIn == UNCHANGED <<accountVars, provider, rules, clock, item, service, commission, user>>

CreateCashInTransferTypeCalls ==
    IF cashIn # NoCashIn THEN {}
    ELSE [op : {"createCashIn"}, mode : Modes, rate : {None, 0}]

CreateCashInTransferType(r) ==
    /\ Committing(r, "createCashIn") /\ cashIn = NoCashIn
    /\ LET c == call[r] IN
         cashIn' = [mode |-> c.mode, rate |-> Given(c.rate, DefaultRate(c.mode)), active |-> TRUE]
    /\ Log(<<Entry("cashIn", None, "value", None, <<cashIn'.mode, cashIn'.rate>>),
             Entry("cashIn", None, "active", None, TRUE)>>)
    /\ OnlyCashIn

UpdateCashInTransferTypeCalls ==
    IF cashIn = NoCashIn THEN {}
    ELSE [op : {"updateCashIn"}, mode : Modes \cup {None}, rate : {None, 0}, seen : {cashIn}]

(* update() writes only the columns it is given; the rest is what another  *)
(* call may just have left there.                                          *)
UpdateCashInTransferType(r) ==
    /\ Committing(r, "updateCashIn")
    /\ LET c == call[r] IN
         /\ cashIn' = [cashIn EXCEPT
                         !.mode = Given(c.mode, @),
                         !.rate = IF c.rate # None THEN c.rate
                                  ELSE IF c.mode # None THEN DefaultRate(c.mode) ELSE @]
         /\ Log(<<Entry("cashIn", None, "value", <<c.seen.mode, c.seen.rate>>,
                        <<cashIn'.mode, cashIn'.rate>>)>>)
    /\ OnlyCashIn

SetCashInTransferTypeActiveCalls ==
    IF cashIn = NoCashIn THEN {}
    ELSE [op : {"setCashInActive"}, active : BOOLEAN, seen : {cashIn}]

SetCashInTransferTypeActive(r) ==
    /\ Committing(r, "setCashInActive")
    /\ cashIn' = [cashIn EXCEPT !.active = call[r].active]
    /\ Log(<<Entry("cashIn", None, "active", call[r].seen.active, call[r].active)>>)
    /\ OnlyCashIn

---------------------------------------------------------------------------
(* Commission rules, oldest first.  What a rule leaves open is None.       *)

OnlyCommission == UNCHANGED <<accountVars, provider, rules, clock, item, service, cashIn, user>>

CreateCommissionRuleCalls == [op : {"createCommissionRule"}, scope : Scope]

CreateCommissionRule(r) ==
    /\ Committing(r, "createCommissionRule")
    /\ LET c == call[r] IN
         /\ commission' = Append(commission, [scope |-> c.scope, active |-> TRUE])
         /\ Log(<<Entry("commission", Len(commission'), "scope", None, c.scope),
                  Entry("commission", Len(commission'), "active", None, TRUE)>>)
    /\ OnlyCommission

UpdateCommissionRuleCalls ==
    {c \in [op : {"updateCommissionRule"}, id : DOMAIN commission, scope : Scope, seen : Range(commission)] :
        c.seen = commission[c.id]}

UpdateCommissionRule(r) ==
    /\ Committing(r, "updateCommissionRule")
    /\ LET c == call[r] IN
         /\ commission' = [commission EXCEPT ![c.id].scope =
                              [f \in Parts |-> Given(c.scope[f], @[f])]]
         /\ Log(<<Entry("commission", c.id, "scope", c.seen.scope, commission'[c.id].scope)>>)
    /\ OnlyCommission

SetCommissionRuleActiveCalls ==
    {c \in [op : {"setCommissionRuleActive"}, id : DOMAIN commission, active : BOOLEAN, seen : Range(commission)] :
        c.seen = commission[c.id]}

SetCommissionRuleActive(r) ==
    /\ Committing(r, "setCommissionRuleActive")
    /\ LET c == call[r] IN
         /\ commission' = [commission EXCEPT ![c.id].active = c.active]
         /\ Log(<<Entry("commission", c.id, "active", c.seen.active, c.active)>>)
    /\ OnlyCommission

Covers(scope, input) == \A f \in Parts : scope[f] # None => scope[f] = input[f]
Score(scope) == Cardinality({f \in Parts : scope[f] # None})

(* A stable sort: by how much a rule says, then newest first.              *)
Ranked(found) ==
    FlattenSeq([k \in 1..5 |-> SelectSeq(found, LAMBDA x : Score(x.scope) = 5 - k)])

ProviderDefault == [scope |-> "provider default", active |-> TRUE]

(* resolveCommission(): the first ranked rule or, of an AePS withdrawal at *)
(* an active provider that supports it (aeps), the provider's own rate.    *)
ResolveCommission(input, aeps) ==
    LET newest == Reverse(commission)
        ranked == Ranked(SelectSeq(newest, LAMBDA x : x.active /\ Covers(x.scope, input)))
        first(test(_)) == SelectSeq(ranked, test)
        explicit == first(LAMBDA x : Score(x.scope) > 0)
        general  == first(LAMBDA x : Score(x.scope) = 0)
    IN  CASE explicit # << >> -> Head(explicit)
          [] explicit = << >> /\ general # << >> -> Head(general)
          [] OTHER -> IF aeps /\ input.provider # None THEN ProviderDefault ELSE None

---------------------------------------------------------------------------
(* UsersService.  The guard of a request reads the caller's role when the  *)
(* request arrives, and turns an inactive user away.                       *)

NoUser == [role |-> None, active |-> FALSE, password |-> 0]
Known == {u \in Users : user[u] # NoUser}
Managers == {u \in Known : user[u].active /\ user[u].role \in {"OWNER", "ADMIN"}}

OnlyUser == UNCHANGED <<accountVars, provider, rules, clock, item, service, cashIn, commission>>

(* Variant of MayManage that asks for the role given only.                 *)
MayManageGiven(actor, seen, role) == role = "OWNER" => user[actor].role = "OWNER"

(* Only an owner touches an owner, or makes one.                           *)
MayManage(actor, seen, role) == "OWNER" \in {seen.role, role} => user[actor].role = "OWNER"

CreateUserCalls ==
    {c \in [op : {"createUser"}, actor : Managers, role : Roles] : MayManage(c.actor, NoUser, c.role)}

CreateUser(r) ==
    /\ Committing(r, "createUser")
    /\ \E u \in Users \ Known :
         /\ user' = [user EXCEPT ![u] = [role |-> call[r].role, active |-> TRUE, password |-> 1]]
         /\ Log(<<Entry("user", u, "role", None, call[r].role), Entry("user", u, "active", None, TRUE)>>)
    /\ OnlyUser

UpdateUserCalls ==
    {c \in [op : {"updateUser"}, actor : Managers, id : Known, role : Roles \cup {None}, seen : Range(user)] :
        c.seen = user[c.id] /\ MayManage(c.actor, c.seen, c.role)}

UpdateUser(r) ==
    /\ Committing(r, "updateUser")
    /\ LET c == call[r] IN
         /\ user' = [user EXCEPT ![c.id].role = Given(c.role, @)]
         /\ Log(<<Entry("user", c.id, "role", c.seen.role, user'[c.id].role)>>)
    /\ OnlyUser

(* "You cannot disable your own account."                                  *)
MayDisable(actor, id, active) == id = actor => active

SetUserActiveCalls ==
    {c \in [op : {"setUserActive"}, actor : Managers, id : Known, active : BOOLEAN, seen : Range(user)] :
        /\ c.seen = user[c.id]
        /\ MayDisable(c.actor, c.id, c.active) /\ MayManage(c.actor, c.seen, None)}

SetUserActive(r) ==
    /\ Committing(r, "setUserActive")
    /\ LET c == call[r] IN
         /\ user' = [user EXCEPT ![c.id].active = c.active]
         /\ Log(<<Entry("user", c.id, "active", c.seen.active, c.active)>>)
    /\ OnlyUser

ResetPasswordCalls ==
    {c \in [op : {"resetPassword"}, actor : Managers, id : Known, seen : Range(user)] :
        c.seen = user[c.id] /\ MayManage(c.actor, c.seen, None)}

ResetPassword(r) ==
    /\ Committing(r, "resetPassword")
    /\ user' = [user EXCEPT ![call[r].id].password = @ + 1]
    /\ Log(<<Entry("user", call[r].id, "password", None, None)>>)
    /\ OnlyUser

SettingInit ==
    /\ provider = [p \in Providers |-> IF p \in FirstProviders THEN [name |-> p, active |-> TRUE]
                                       ELSE NoProvider]
    /\ rules = [k \in Charges |-> {}]
    /\ clock = 0
    /\ item = [i \in Items |-> IF i \in FirstItems THEN [value |-> i, active |-> TRUE] ELSE NoItem]
    /\ service = NoService
    /\ cashIn = NoCashIn
    /\ commission = << >>
    /\ user = [u \in Users |-> IF u \in DOMAIN FirstUsers
                               THEN [role |-> FirstUsers[u], active |-> TRUE, password |-> 1] ELSE NoUser]
=============================================================================
