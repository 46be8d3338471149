------------------------------ MODULE MCOffice ------------------------------
(***************************************************************************)
(* Small instances of OfficeWork: a bank account, a till, a credit card    *)
(* and a wallet, room for one more of each, and a handful of settings.     *)
(***************************************************************************)
EXTENDS OfficeWork, TLC

CONSTANTS bank, till, card, spare, wallet, spareWallet, pay, sparePay,
          regular, business, walkIn, term, network, category, gate, owner, admin, clerk

Wallets == pay :> wallet @@ sparePay :> spareWallet
Started == bank :> "BANK" @@ till :> "CASH" @@ card :> "OWNER_CREDIT_CARD"
Team == owner :> "OWNER" @@ admin :> "ADMIN"
Sorts == regular :> "customerType" @@ business :> "customerType" @@ walkIn :> "customerType" @@ term :> "paymentTerm"
         @@ network :> "cardNetwork" @@ category :> "expenseCategory" @@ gate :> "gateway"

Slab(min, max) == [min |-> min, max |-> max]
Slabs == {{}, {Slab(0, None)}, {Slab(0, 1), Slab(2, None)}, {Slab(0, 1), Slab(1, 2)}, {Slab(1, 1), Slab(0, None)}}

Bounded(ops, accounts, together, during, often) ==
    [ops |-> ops, accounts |-> accounts, together |-> together, during |-> during, moves |-> often]
One(ops) == Bounded(ops, {}, 1, FALSE, 0)
Two(ops) == Bounded(ops, {}, 2, FALSE, 0)
Off(accounts, often) == Bounded({"setAccountActive"}, accounts, 1, FALSE, often)

Desk == {"setOpening", "setAccountActive", "reconcile"}
Offices == {
    Bounded(Desk, {bank}, 1, FALSE, 2), Bounded(Desk, {till}, 1, FALSE, 2), Bounded(Desk, {card}, 1, FALSE, 2),
    Off({bank}, 5), Off({bank, wallet}, 4), Off({till}, 5), Off({card}, 4),
    Bounded({"setOpening", "reconcile"}, {bank}, 2, TRUE, 2),
    One({"createAccount", "updateAccount", "createProvider", "updateProvider"}),
    Two({"updateAccount", "updateProvider"}), Two({"setProviderActive"}), Bounded({"setAccountActive"}, {till}, 2, TRUE, 2),
    One({"rules"}), One({"types"}), Two({"types"}), Two({"services"}), Two({"cashIn"}),
    One({"lists"}), One({"commission"}), One({"users"})}

Symmetric == Permutations(Requests)
=============================================================================
