----------------------------- MODULE MCRgbChannel -----------------------------
(***************************************************************************)
(* Instances of RgbChannel for TLC.  The opener starts with all the RGB,   *)
(* so the acceptor can pay only after it was paid.                         *)
(***************************************************************************)
EXTENDS RgbChannel, TLC

CONSTANTS a, b, p1, p2, p3

\* p1 and p3 leave the opener, p2 comes back out of what p1 brought.
Payers == [p \in Payments |-> IF p = p2 THEN b ELSE a]
Amounts == [p \in Payments |-> IF p = p2 THEN 1 ELSE 2]

=============================================================================
