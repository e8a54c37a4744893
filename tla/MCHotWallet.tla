----------------------------- MODULE MCHotWallet -----------------------------
(***************************************************************************)
(* Instances of HotWallet for TLC: every withdrawal serves one request.    *)
(***************************************************************************)
EXTENDS HotWallet, TLC

OneRequest == [t \in Withdrawals |-> "request"]

\* Calls for the one request differ only in their name.
CallSymmetry == Permutations(Withdrawals)

=============================================================================
