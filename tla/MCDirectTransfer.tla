--------------------------- MODULE MCDirectTransfer ---------------------------
(***************************************************************************)
(* Instances of DirectTransfer for TLC: every transfer comes from a and    *)
(* goes to b, or the first one to c; all spend one coin or a coin each.    *)
(***************************************************************************)
EXTENDS DirectTransfer

CONSTANTS a, b, c, k

AllSendA == [t \in Transfers |-> a]
AllToB == [t \in Transfers |-> b]
FirstToC == [t \in Transfers |-> IF t = 1 THEN c ELSE b]
OneCoin == [t \in Transfers |-> k]
OwnCoins == [t \in Transfers |-> <<k, t>>]

=============================================================================
