----------------------------- MODULE IdealChannel -----------------------------
(***************************************************************************)
(* What an RGB channel promises its two users: a ledger.  A payment is     *)
(* offered out of money its payer can spend, its payee decides it once,    *)
(* and the money then becomes spendable exactly once, by the payee if the  *)
(* payment was claimed and by the payer otherwise.                         *)
(***************************************************************************)
EXTENDS Integers, FiniteSets, FiniteSetsExt

CONSTANTS Nodes, Payments, Payer, Payee, Amount, Deposit

VARIABLES
    status,     \* what has been decided about each payment
    settled,    \* payments whose money is spendable again
    spendable   \* what each node can offer

vars == <<status, settled, spendable>>

Statuses == {"idle", "offered", "claimed", "returned"}

Total(S) == MapThenSumSet(LAMBDA p : Amount[p], S)

Init ==
    /\ status = [p \in Payments |-> "idle"]
    /\ settled = {}
    /\ spendable = Deposit

Offer(p) ==
    /\ status[p] = "idle"
    /\ Amount[p] <= spendable[Payer[p]]
    /\ status' = [status EXCEPT ![p] = "offered"]
    /\ spendable' = [spendable EXCEPT ![Payer[p]] = @ - Amount[p]]
    /\ UNCHANGED settled

Claim(p) ==
    /\ status[p] = "offered"
    /\ status' = [status EXCEPT ![p] = "claimed"]
    /\ UNCHANGED <<settled, spendable>>

(* Node n gets money: of payments it claimed, and of payments it offered   *)
(* that nobody claimed, which nobody can claim from here on.               *)
Settle(n, credited, returned) ==
    /\ \A p \in credited : Payee[p] = n /\ status[p] = "claimed" /\ p \notin settled
    /\ \A p \in returned : Payer[p] = n /\ status[p] = "offered"
    /\ status' = [p \in Payments |-> IF p \in returned THEN "returned" ELSE status[p]]
    /\ settled' = settled \cup credited \cup returned
    /\ spendable' = [spendable EXCEPT ![n] = @ + Total(credited \cup returned)]

Next ==
    \/ \E p \in Payments : Offer(p) \/ Claim(p)
    \/ \E n \in Nodes : \E credited, returned \in SUBSET Payments :
            Settle(n, credited, returned)

Spec == Init /\ [][Next]_vars

=============================================================================
