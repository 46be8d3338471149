---------------------------- MODULE Obligations -----------------------------
(***************************************************************************)
(* What an amount owed promises, whoever owes it to whom: a customer's     *)
(* payable, a receivable, the principal and the commission of a card due,  *)
(* a provider's settlement.  It is incurred once, settled and unsettled in *)
(* parts, and voided only while nothing of it is settled.  One step of the *)
(* shop may touch several of them.                                         *)
(***************************************************************************)
EXTENDS Integers

CONSTANTS
    Items,          \* the amounts owed
    Adjustable      \* those whose amount itself may change

VARIABLES
    state,      \* "none" before it is incurred, "owed", "void"
    amount,     \* what is owed in all
    settled,    \* what of it has been settled
    remaining   \* what is still open

vars == <<state, amount, settled, remaining>>

Init ==
    /\ state = [i \in Items |-> "none"]
    /\ amount = [i \in Items |-> 0]
    /\ settled = [i \in Items |-> 0]
    /\ remaining = [i \in Items |-> 0]

(* What is open is what is owed and not settled.                           *)
Owed(i) ==
    /\ state'[i] = "owed"
    /\ settled'[i] \in 0..amount'[i]
    /\ remaining'[i] = amount'[i] - settled'[i]

(* A part may be settled as it is incurred.                                *)
Incur(i) == state[i] = "none" /\ amount'[i] \in Nat /\ Owed(i)

Settle(i) ==
    state[i] = "owed" /\ settled'[i] > settled[i] /\ amount'[i] = amount[i] /\ Owed(i)

Unsettle(i) ==
    state[i] = "owed" /\ settled'[i] < settled[i] /\ amount'[i] = amount[i] /\ Owed(i)

(* The amount is assessed anew, and what was settled stays settled, or is  *)
(* settled or given back with it.                                          *)
Adjust(i) == i \in Adjustable /\ state[i] = "owed" /\ amount'[i] \in Nat /\ Owed(i)

Void(i) ==
    /\ state[i] = "owed" /\ settled[i] = 0
    /\ state'[i] = "void" /\ remaining'[i] = 0
    /\ amount'[i] = amount[i] /\ settled'[i] = 0

Keep(i) ==
    /\ state'[i] = state[i] /\ amount'[i] = amount[i]
    /\ settled'[i] = settled[i] /\ remaining'[i] = remaining[i]

Next ==
    \A i \in Items :
        Incur(i) \/ Settle(i) \/ Unsettle(i) \/ Adjust(i) \/ Void(i) \/ Keep(i)

Spec == Init /\ [][Next]_vars
=============================================================================
