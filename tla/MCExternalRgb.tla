---------------------------- MODULE MCExternalRgb ----------------------------
(***************************************************************************)
(* Instances of ExternalRgb for TLC: one account owns every operation and  *)
(* coin, and every peer carrier pays it.                                   *)
(***************************************************************************)
EXTENDS ExternalRgb, TLC

CONSTANT a1

OneAccount == {a1}
OneAccountOf == [x \in Ops |-> a1]
OneCoinOwner == [o \in Coins |-> a1]
OnePayee == [t \in PeerTxs |-> a1]

\* Operations of one kind differ only in their id.
OpSymmetry == Permutations(Sends) \cup Permutations(Receives)

=============================================================================
