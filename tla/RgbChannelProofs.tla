--------------------------- MODULE RgbChannelProofs ---------------------------
(***************************************************************************)
(* Theorems about an RGB channel between any two nodes, with any payments, *)
(* amounts, funding and number of lost connections.  Every step of         *)
(* RgbChannel keeps the invariant of RgbChannelLemmas and is a step of a   *)
(* ledger: payments are settled at one node, one payment is offered, or    *)
(* one is claimed.  The types, the outcome a payer hears and the balance   *)
(* follow, and so does the refinement of IdealChannel.                     *)
(***************************************************************************)
EXTENDS RgbChannelLemmas


-----------------------------------------------------------------------------
(* Steps of the ledger: what a step of the channel does to the money.      *)

(* The money of node c moves: the HTLCs X that came in and Y that went out *)
(* are gone, the waiting additions F were given up and those that no       *)
(* longer wait otherwise were placed.                                      *)
Moves(c, d, C, X, Y, F) ==
    /\ X \subseteq Pays(c.inb) /\ Y \subseteq Pays(c.out)
    /\ AddsIn(d) \subseteq AddsIn(c) /\ F \subseteq AddsIn(c) \ AddsIn(d)
    /\ \A p \in C : p \in Pays(d.inb) <=> p \in Pays(c.inb) /\ p \notin X
    /\ Pays(d.out) = (Pays(c.out) \ Y) \cup ((AddsIn(c) \ AddsIn(d)) \ F)
    /\ d.toSelf = c.toSelf + Worth(X \cap C) - Worth(Y \cap C)

\* A node settles payments, and its peer stands still.
Settles(K, K2, C) ==
    \E n \in Nodes : \E X, Y, F \in SUBSET Payments :
        Moves(K[n], K2[n], C, X, Y, F) /\ Still(K[Peer(n)], K2[Peer(n)], C)

\* p is a new payment of c, placed or waiting.
Sent(c, d, p) ==
    /\ d.toSelf = c.toSelf /\ Pays(d.inb) = Pays(c.inb)
    /\ \/ Pays(d.out) = Pays(c.out) \cup {p} /\ AddsIn(d) = AddsIn(c)
       \/ Pays(d.out) = Pays(c.out) /\ AddsIn(d) = AddsIn(c) \cup {p}

\* A payment is offered out of what its payer can spend.
Offers(K, K2, S, S2, C) ==
    \E p \in Payments :
        /\ p \notin S /\ S2 = S \cup {p} /\ Amount[p] <= AvailableRgb(K[PayFrom[p]])
        /\ Sent(K[PayFrom[p]], K2[PayFrom[p]], p)
        /\ Still(K[PayTo(p)], K2[PayTo(p)], C)

\* A payment is claimed while both nodes have it under way.
Claims(K, K2, C, C2) ==
    \E p \in Payments :
        /\ p \notin C /\ C2 = C \cup {p} /\ p \in Pays(K[PayTo(p)].inb)
        /\ p \in Pays(K[PayFrom[p]].out)
        /\ \A n \in Nodes : Moves(K[n], K2[n], C2, {}, {}, {})

\* The steps of the ledger.
LedgerStep(K, K2, S, S2, C, C2) ==
    \/ S2 = S /\ C2 = C /\ Settles(K, K2, C)
    \/ C2 = C /\ Offers(K, K2, S, S2, C)
    \/ S2 = S /\ Claims(K, K2, C, C2)

\* The state after a step of the ledger has the invariant.
After(K, S, C, K2, N2, S2, L2, C2, R2, T2) ==
    /\ \E J : Decision(J, K2, N2, S2, L2, C2, R2, T2)
    /\ LedgerStep(K, K2, S, S2, C, C2)

\* The payments that wait in a holding cell.
LEMMA AddsWait ==
    ASSUME NEW n, NEW c, NEW I, NEW S, NEW L, NEW C, NEW R, NodeOK(n, c, I, S, L, C, R)
    PROVE  \A p \in AddsIn(c) : p \in Payments /\ p \in S /\ PayFrom[p] = n /\ I[p] = -1
<1>1. c.cell \in Seq(Waiting(n, I, S, C, R))
  BY DEF NodeOK, CellOK
<1>2. \A u \in Waiting(n, I, S, C, R) : u.op = "add" =>
        u.pay \in Payments /\ u.pay \in S /\ PayFrom[u.pay] = n /\ I[u.pay] = -1
  BY DEF Waiting, Updates
<1>3. \A i \in DOMAIN c.cell : c.cell[i] \in Waiting(n, I, S, C, R)
  BY <1>1
<1> QED BY <1>2, <1>3 DEF AddsIn, CellAdds, ToSet

\* The payments a node has under way.
LEMMA PaysPlaced ==
    ASSUME NEW n \in Nodes, NEW c, NEW I, NEW S, NEW L, NEW C, NEW R,
           NodeOK(n, c, I, S, L, C, R)
    PROVE  /\ \A p \in Pays(c.out) : p \in Payments /\ PayFrom[p] = n /\ I[p] \in Nat
           /\ \A p \in Pays(c.inb) : p \in Payments /\ PayTo(p) = n /\ I[p] \in Nat
           /\ c \in Channel /\ c.toSelf \in Int /\ c.nextId \in Nat
           /\ IsFiniteSet(Pays(c.out)) /\ IsFiniteSet(Pays(c.inb))
<1>1. c \in Channel /\ OutOK(n, c, I, C, R) /\ InOK(n, c, I, L, C, R)
  BY DEF NodeOK
<1>2. /\ c.inb \subseteq InHtlcs /\ c.out \subseteq OutHtlcs /\ c.toSelf \in Int
      /\ c.nextId \in Nat
  BY <1>1 DEF Channel
<1>3. \A p \in Pays(c.out) : p \in Payments /\ PayFrom[p] = n /\ I[p] \in Nat
  BY <1>1, <1>2 DEF Pays, OutOK, OutHtlcs
<1>4. \A p \in Pays(c.inb) : p \in Payments /\ PayTo(p) = n /\ I[p] \in Nat
  BY <1>1, <1>2 DEF Pays, InOK, InHtlcs
<1>5. ASSUME NEW X, IsFiniteSet(X) PROVE IsFiniteSet(Pays(X))
  <2> DEFINE r == [h \in X |-> h.pay]
  <2>1. Pays(X) = {r[h] : h \in X}
    BY DEF Pays
  <2> HIDE DEF r
  <2> QED BY <1>5, <2>1, ImageFinite
<1> QED BY <1>1, <1>2, <1>3, <1>4, <1>5 DEF OutOK, InOK

\* Standing still moves nothing.
LEMMA StillMoves ==
    ASSUME NEW c \in Channel, NEW d \in Channel, NEW C, Still(c, d, C)
    PROVE  Moves(c, d, C, {}, {}, {})
<1>1. c.toSelf \in Int
  BY DEF Channel
<1>2. Worth({} \cap C) = 0
  <2>1. {} \cap C = {}
    OBVIOUS
  <2> QED BY <2>1, WorthAdds
<1>3. AddsIn(d) = AddsIn(c)
  BY DEF Still, AddsIn, CellAdds
<1>4. d.toSelf = c.toSelf + Worth({} \cap C) - Worth({} \cap C)
  BY <1>1, <1>2 DEF Still
<1> QED BY <1>3, <1>4 DEF Still, Moves

\* A node whose money is the same stands still in the ledger.
LEMMA MoneyStill ==
    ASSUME NEW c, NEW d, NEW C, SameMoney(c, d)
    PROVE  Still(c, d, C) /\ AddsIn(d) = AddsIn(c)
  BY DEF SameMoney, Still, AddsIn, CellAdds

-----------------------------------------------------------------------------
(* A step of one node. *)

\* The ledger of ids grows by additions that waited.
IdsGrow(n, c, d, I, J, S) ==
    /\ J \in [Payments -> Int] /\ IdsUnique(J)
    /\ \A p \in Payments : p \notin AddsIn(c) => J[p] = I[p]
    /\ \A p \in Payments : J[p] # -1 =>
            J[p] >= 0 /\ p \in S /\ (PayFrom[p] = n => J[p] < d.nextId)

\* The messages on their way may be delivered.
NetOK(N, I, C, R) ==
    /\ N = [m \in Nodes |-> N[m]]
    /\ \A m \in Nodes : N[m] \in Seq(Deliverable(m, I, C, R))

\* The payer at n, whose channel is d, may be told the outcome o of the payments G.
Hears(n, d, J, S, C, R, G, o) ==
    \/ o = "sent" /\ G \subseteq C
    \/ /\ o = "failed"
       /\ \A p \in G : \/ p \in R
                       \/ p \in S /\ J[p] = -1 /\ PayFrom[p] = n /\ p \notin AddsIn(d)

\* The user is told o of each payment of G.
Telling(T, G, o) == [p \in Payments |-> IF p \in G THEN T[p] \cup {o} ELSE T[p]]

\* A step of one node that keeps its invariant, gives ids only to additions
\* that waited, sends what may be sent and tells its user what was decided
\* keeps the decision, and moves money as a step of the ledger does.
LEMMA NodeStep ==
    ASSUME NEW I, NEW K, NEW N, NEW S, NEW L, NEW C, NEW R, NEW T,
           Decision(I, K, N, S, L, C, R, T), NEW n \in Nodes, NEW d, NEW J,
           NodeOK(n, d, J, S, L, C, R), IdsGrow(n, K[n], d, I, J, S),
           NEW N2, NetOK(N2, I, C, R),
           NEW X \in SUBSET Payments, NEW Y \in SUBSET Payments, NEW F \in SUBSET Payments,
           Moves(K[n], d, C, X, Y, F),
           NEW G, NEW o, Hears(n, d, J, S, C, R, G, o), NEW T2, T2 = Telling(T, G, o),
           NEW K2, K2 = [K EXCEPT ![n] = d]
    PROVE  After(K, S, C, K2, N2, S, L, C, R, T2)
<1> DEFINE m == Peer(n)
<1>1. /\ m \in Nodes /\ m # n /\ \A x \in Nodes : x = n \/ x = m
      /\ \A p \in Payments : PayFrom[p] \in Nodes
  BY PeerFacts
<1>2. K2[n] = d /\ K2[m] = K[m] /\ K2 = [x \in Nodes |-> K2[x]]
  BY <1>1 DEF Decision
<1>3. /\ IdsOK(I, K, S) /\ DecidedOK(I, L, C, R) /\ NodeOK(n, K[n], I, S, L, C, R)
      /\ NodeOK(m, K[m], I, S, L, C, R) /\ ToldOK(I, K, S, C, R, T)
      /\ S \subseteq Payments
  BY <1>1 DEF Decision
<1>4. /\ I \in [Payments -> Int] /\ J \in [Payments -> Int]
      /\ L \in SUBSET Payments /\ C \in SUBSET Payments /\ R \in SUBSET Payments
  BY <1>3 DEF IdsOK, DecidedOK, IdsGrow
<1>5. \A p \in Payments : I[p] # -1 \/ PayFrom[p] # n => J[p] = I[p]
  <2>1. \A p \in AddsIn(K[n]) : PayFrom[p] = n /\ I[p] = -1
    BY <1>3, AddsWait
  <2> QED BY <2>1 DEF IdsGrow
<1>6. NodeOK(m, K[m], J, S, L, C, R)
  <2>1. \A p \in Payments : I[p] # -1 \/ PayFrom[p] = m => J[p] = I[p]
    BY <1>1, <1>5
  <2>2. \A p \in L \cup C \cup R : I[p] # -1
    BY <1>3 DEF DecidedOK
  <2> HIDE DEF m
  <2> QED BY <1>1, <1>3, <1>4, <2>1, <2>2, OthersKeep
<1>7. IdsOK(J, K2, S)
  <2>1. ASSUME NEW p \in Payments, J[p] # -1
        PROVE  J[p] >= 0 /\ p \in S /\ J[p] < K2[PayFrom[p]].nextId
    <3>1. CASE PayFrom[p] = n
      BY <1>2, <2>1, <3>1 DEF IdsGrow
    <3>2. CASE PayFrom[p] # n
      <4>1. J[p] = I[p] /\ PayFrom[p] = m
        BY <1>1, <1>5, <3>2
      <4> QED BY <1>2, <1>3, <2>1, <4>1 DEF IdsOK
    <3> QED BY <3>1, <3>2
  <2> QED BY <1>3, <1>4, <2>1 DEF IdsOK, IdsGrow, IdsUnique
<1>8. DecidedOK(J, L, C, R)
  BY <1>3, <1>4, <1>5 DEF DecidedOK
<1>9. \A x \in Nodes : N2[x] \in Seq(Deliverable(x, J, C, R))
  <2>1. SUFFICES ASSUME NEW x \in Nodes PROVE N2[x] \in Seq(Deliverable(x, J, C, R))
    OBVIOUS
  <2>2. Seq(Deliverable(x, I, C, R)) \subseteq Seq(Deliverable(x, J, C, R))
    BY <1>4, <1>5, OthersDeliver
  <2> QED BY <2>2 DEF NetOK
<1>10. ToldOK(J, K2, S, C, R, T2)
  <2>1. T2 \in [Payments -> SUBSET {"sent", "failed"}]
    BY <1>3 DEF ToldOK, Telling, Hears
  <2>2. ASSUME NEW p \in Payments, "sent" \in T2[p] PROVE p \in C
    BY <1>3, <2>2 DEF ToldOK, Telling, Hears
  <2>3. ASSUME NEW p \in Payments, "failed" \in T2[p]
        PROVE  \/ p \in R
               \/ p \in S /\ J[p] = -1 /\ p \notin AddsIn(K2[PayFrom[p]])
    <3>1. CASE p \in G /\ o = "failed"
      BY <1>2, <3>1 DEF Hears
    <3>2. CASE "failed" \in T[p]
      <4>1. CASE p \in S /\ I[p] = -1 /\ p \notin AddsIn(K[PayFrom[p]])
        <5>1. CASE PayFrom[p] = n
          BY <1>2, <4>1, <5>1 DEF Moves, IdsGrow
        <5>2. CASE PayFrom[p] # n
          <6>1. PayFrom[p] = m /\ J[p] = I[p]
            BY <1>1, <1>5, <5>2
          <6> QED BY <1>2, <4>1, <6>1
        <5> QED BY <5>1, <5>2
      <4> QED BY <1>3, <3>2, <4>1 DEF ToldOK
    <3> QED BY <2>3, <3>1, <3>2 DEF Telling
  <2> QED BY <2>1, <2>2, <2>3 DEF ToldOK
<1>11. Decision(J, K2, N2, S, L, C, R, T2)
  <2>1. \A x \in Nodes : NodeOK(x, K2[x], J, S, L, C, R)
    BY <1>1, <1>2, <1>6
  <2> QED BY <1>2, <1>3, <1>7, <1>8, <1>9, <1>10, <2>1 DEF Decision, NetOK
<1>12. LedgerStep(K, K2, S, S, C, C)
  <2>1. Still(K[m], K2[m], C)
    BY <1>2 DEF Still
  <2>2. Settles(K, K2, C)
    BY <1>2, <2>1 DEF Settles
  <2> QED BY <2>2 DEF LedgerStep
<1> QED BY <1>11, <1>12 DEF After

\* Messages sent, and answers to a message that was handled, are deliverable.
LEMMA NetSends ==
    ASSUME NEW N, NEW I, NEW C, NEW R, NetOK(N, I, C, R), NEW n \in Nodes,
           NEW msgs \in Seq(Deliverable(Peer(n), I, C, R))
    PROVE  /\ NetOK([N EXCEPT ![Peer(n)] = @ \o msgs], I, C, R)
           /\ N[n] # <<>> =>
                /\ NetOK([N EXCEPT ![n] = Tail(@), ![Peer(n)] = @ \o msgs], I, C, R)
                /\ Head(N[n]) \in Deliverable(n, I, C, R)
<1> DEFINE m == Peer(n)
           D(x) == Deliverable(x, I, C, R)
<1>1. m \in Nodes /\ m # n /\ \A x \in Nodes : x = n \/ x = m
  BY PeerFacts
<1>2. N[n] \in Seq(D(n)) /\ N[m] \in Seq(D(m)) /\ msgs \in Seq(D(m))
  BY <1>1 DEF NetOK
<1> HIDE DEF D
<1>3. N[m] \o msgs \in Seq(D(m))
  BY <1>2
<1>4. N[n] # <<>> => Tail(N[n]) \in Seq(D(n)) /\ Head(N[n]) \in D(n)
  BY <1>2
<1> HIDE DEF m
<1> DEFINE N1 == [N EXCEPT ![m] = @ \o msgs]
           N2 == [N EXCEPT ![n] = Tail(@), ![m] = @ \o msgs]
<1>5. DOMAIN N = Nodes /\ N = [x \in Nodes |-> N[x]]
  BY DEF NetOK
<1>6. N1 = [x \in Nodes |-> N1[x]] /\ N1[m] = N[m] \o msgs /\ N1[n] = N[n]
  BY <1>1, <1>5
<1>7. N2 = [x \in Nodes |-> N2[x]] /\ N2[m] = N[m] \o msgs /\ N2[n] = Tail(N[n])
  BY <1>1, <1>5
<1> HIDE DEF N1, N2
<1>8. NetOK(N1, I, C, R)
  <2>1. \A x \in Nodes : N1[x] \in Seq(D(x))
    BY <1>1, <1>2, <1>3, <1>6
  <2> QED BY <1>6, <2>1 DEF NetOK, D
<1>9. N[n] # <<>> => NetOK(N2, I, C, R)
  <2>1. N[n] # <<>> => \A x \in Nodes : N2[x] \in Seq(D(x))
    BY <1>1, <1>3, <1>4, <1>7
  <2> QED BY <1>7, <2>1 DEF NetOK, D
<1> QED BY <1>4, <1>8, <1>9 DEF N1, N2, m, D

\* A step that moves no money and places nothing.
LEMMA QuietStep ==
    ASSUME NEW I, NEW K, NEW N, NEW S, NEW L, NEW C, NEW R, NEW T,
           Decision(I, K, N, S, L, C, R, T), NEW n \in Nodes, NEW d,
           NodeOK(n, d, I, S, L, C, R), Still(K[n], d, C),
           NEW N2, NetOK(N2, I, C, R),
           NEW G, NEW o, Hears(n, d, I, S, C, R, G, o), NEW T2, T2 = Telling(T, G, o),
           NEW K2, K2 = [K EXCEPT ![n] = d]
    PROVE  After(K, S, C, K2, N2, S, L, C, R, T2)
<1>1. NodeOK(n, K[n], I, S, L, C, R) /\ IdsOK(I, K, S)
  BY DEF Decision
<1>2. K[n] \in Channel /\ d \in Channel
  BY <1>1 DEF NodeOK
<1>3. Moves(K[n], d, C, {}, {}, {})
  BY <1>2, StillMoves
<1>4. IdsGrow(n, K[n], d, I, I, S)
  BY <1>1 DEF IdsGrow, IdsOK, IdsUnique, Still
<1>5. {} \in SUBSET Payments
  OBVIOUS
<1> QED BY <1>3, <1>4, <1>5, NodeStep

\* Nobody is told anything.
LEMMA NobodyHears ==
    ASSUME NEW I, NEW K, NEW N, NEW S, NEW L, NEW C, NEW R, NEW T,
           Decision(I, K, N, S, L, C, R, T)
    PROVE  /\ \A n, d, J : Hears(n, d, J, S, C, R, {}, "sent")
           /\ T = Telling(T, {}, "sent")
  BY DEF Hears, Telling, Decision, ToldOK

\* The channel before and after a step.
Before(I) == Decision(I, ch, net, started, claimable, claimed, refused, told)
Stepped == After(ch, started, claimed,
                 ch', net', started', claimable', claimed', refused', told')

\* What the invariant says of the node that takes a step.
LEMMA NodeFacts ==
    ASSUME NEW I, NEW K, NEW N, NEW S, NEW L, NEW C, NEW R, NEW T,
           Decision(I, K, N, S, L, C, R, T), NEW n \in Nodes
    PROVE  /\ NodeOK(n, K[n], I, S, L, C, R) /\ K[n] \in Channel
           /\ I \in [Payments -> Int] /\ IdsUnique(I)
           /\ L \in SUBSET Payments /\ C \in SUBSET Payments /\ R \in SUBSET Payments
           /\ C \cap R = {} /\ S \subseteq Payments /\ IsFiniteSet(S)
           /\ \A q \in L \cup C \cup R : I[q] # -1
           /\ NetOK(N, I, C, R)
           /\ \A p \in Payments : I[p] # -1 =>
                I[p] >= 0 /\ p \in S /\ (PayFrom[p] = n => I[p] < K[n].nextId)
  BY DEF Decision, DecidedOK, IdsOK, IdsUnique, NodeOK, NetOK

\* A node that handles a message, moves no money and tells nobody.
LEMMA QuietReply ==
    ASSUME NEW I, Before(I), NEW n \in Nodes, net[n] # <<>>, NEW d,
           NodeOK(n, d, I, started, claimable, claimed, refused), Still(ch[n], d, claimed),
           NEW msgs \in Seq(Deliverable(Peer(n), I, claimed, refused)),
           Becomes(n, d), Replies(n, msgs), UNCHANGED payVars
    PROVE  Stepped
<1>1. /\ ch' = [ch EXCEPT ![n] = d]
      /\ net' = [net EXCEPT ![n] = Tail(@), ![Peer(n)] = @ \o msgs]
      /\ started' = started /\ claimable' = claimable /\ claimed' = claimed
      /\ refused' = refused /\ told' = told
  BY DEF Becomes, Replies, payVars
<1>2. NetOK(net, I, claimed, refused)
  BY NodeFacts DEF Before
<1>3. NetOK(net', I, claimed, refused)
  BY <1>1, <1>2, NetSends
<1>4. /\ Hears(n, d, I, started, claimed, refused, {}, "sent")
      /\ told' = Telling(told, {}, "sent")
  BY <1>1, NobodyHears DEF Before
<1>5. After(ch, started, claimed, ch', net', started, claimable, claimed, refused, told')
  <2>1. \A N2, K2, T2 : /\ NetOK(N2, I, claimed, refused) /\ K2 = [ch EXCEPT ![n] = d]
                        /\ T2 = Telling(told, {}, "sent")
            => After(ch, started, claimed, K2, N2, started, claimable, claimed, refused, T2)
    BY <1>4, QuietStep DEF Before
  <2> QED BY <1>1, <1>3, <1>4, <2>1
<1> QED BY <1>1, <1>5 DEF Stepped

-----------------------------------------------------------------------------
(* Messages from the peer. *)

\* What a message that arrives carries.
LEMMA MessageFacts ==
    ASSUME NEW n, NEW I, NEW C, NEW R, NEW m \in Deliverable(n, I, C, R)
    PROVE  /\ m.t = "add" => /\ m.id \in Nat /\ m.pay \in Payments
                             /\ PayTo(m.pay) = n /\ I[m.pay] = m.id
           /\ m.t = "fulfil" => m.id \in Nat /\ \E p \in C : PayFrom[p] = n /\ I[p] = m.id
           /\ m.t = "fail" => m.id \in Nat /\ \E p \in R : PayFrom[p] = n /\ I[p] = m.id
           /\ m.t = "closing" => m \in Closings /\ m.fee \in Nat
  BY DEF Deliverable, Messages, Closings

\* Giving the channel up keeps the node's invariant and its money.
LEMMA EndsStill ==
    ASSUME NEW n, NEW c, NEW I, NEW S, NEW L, NEW C, NEW R, NodeOK(n, c, I, S, L, C, R),
           NEW why \in {"open", "closed"} \cup Errors
    PROVE  NodeOK(n, Ends(c, why), I, S, L, C, R) /\ Still(c, Ends(c, why), C)
<1>1. c \in Channel
  BY DEF NodeOK
<1>2. Ends(c, why) \in Channel /\ SameBooks(c, Ends(c, why))
  BY <1>1, EndsKeeps
<1> QED BY <1>2, BooksDecide, MoneyStill

\* The node that handles a message, and the message.
LEMMA IncomingFacts ==
    ASSUME NEW I, Before(I), NEW n \in Nodes, NEW t, Incoming(n, t)
    PROVE  /\ NodeOK(n, ch[n], I, started, claimable, claimed, refused) /\ ch[n] \in Channel
           /\ I \in [Payments -> Int] /\ IdsUnique(I) /\ claimable \in SUBSET Payments
           /\ claimed \in SUBSET Payments /\ refused \in SUBSET Payments
           /\ net[n] # <<>> /\ Head(net[n]).t = t
           /\ Head(net[n]) \in Deliverable(n, I, claimed, refused)
           /\ <<>> \in Seq(Deliverable(Peer(n), I, claimed, refused))
<1>1. NetOK(net, I, claimed, refused) /\ net[n] # <<>>
  BY NodeFacts DEF Before, Incoming
<1>2. <<>> \in Seq(Deliverable(Peer(n), I, claimed, refused))
  OBVIOUS
<1>3. Head(net[n]) \in Deliverable(n, I, claimed, refused)
  BY <1>1, <1>2, NetSends
<1> QED BY <1>1, <1>2, <1>3, NodeFacts DEF Before, Incoming

\* The payee takes in the next HTLC (update_add_htlc).
LEMMA UpdateAddStep ==
    ASSUME NEW I, Before(I), NEW n \in Nodes, UpdateAddHtlc(n)
    PROVE  Stepped
<1> DEFINE c == ch[n]
           m == Head(net[n])
           e == [c EXCEPT !.nextCpId = @ + 1,
                          !.inb = @ \cup {[id |-> m.id, pay |-> m.pay,
                                    st |-> "RemoteAnnounced", out |-> "none"]}]
           d == CASE c.remoteShut -> Ends(c, "add_after_shutdown")
                  [] ~c.remoteShut /\ c.disc -> Ends(c, "reestablish")
                  [] ~c.remoteShut /\ ~c.disc /\ m.id # c.nextCpId -> Ends(c, "htlc_id")
                  [] OTHER -> e
<1>1. /\ Incoming(n, "add") /\ Becomes(n, d) /\ Replies(n, <<>>) /\ UNCHANGED payVars
  BY DEF UpdateAddHtlc
<1>2. /\ NodeOK(n, c, I, started, claimable, claimed, refused)
      /\ I \in [Payments -> Int] /\ claimable \in SUBSET Payments
      /\ claimed \in SUBSET Payments /\ refused \in SUBSET Payments
      /\ net[n] # <<>> /\ m.t = "add" /\ m \in Deliverable(n, I, claimed, refused)
      /\ <<>> \in Seq(Deliverable(Peer(n), I, claimed, refused))
  BY <1>1, IncomingFacts
<1>3. m.pay \in Payments /\ PayTo(m.pay) = n /\ I[m.pay] = m.id
  BY <1>2, MessageFacts
<1>4. m.id = c.nextCpId =>
        NodeOK(n, e, I, started, claimable, claimed, refused) /\ Still(c, e, claimed)
  <2>1. ASSUME m.id = c.nextCpId
        PROVE  NodeOK(n, e, I, started, claimable, claimed, refused) /\ Still(c, e, claimed)
    <3> HIDE DEF c, m
    <3>1. /\ NodeOK(n, Received(c, m.id, m.pay), I, started, claimable, claimed, refused)
          /\ Still(c, Received(c, m.id, m.pay), claimed)
      BY <1>2, <1>3, <2>1, AddKeeps
    <3> QED BY <3>1 DEF Received
  <2> QED BY <2>1
<1> HIDE DEF e
<1>5. NodeOK(n, d, I, started, claimable, claimed, refused) /\ Still(c, d, claimed)
  <2>1. ASSUME NEW why \in {"add_after_shutdown", "reestablish", "htlc_id"}
        PROVE  /\ NodeOK(n, Ends(c, why), I, started, claimable, claimed, refused)
               /\ Still(c, Ends(c, why), claimed)
    <3>1. why \in {"open", "closed"} \cup Errors
      BY DEF Errors
    <3> QED BY <1>2, <3>1, EndsStill
  <2> HIDE DEF c, m
  <2> QED BY <1>4, <2>1
<1> HIDE DEF d
<1> QED BY <1>1, <1>2, <1>5, QuietReply

\* The payer hears that an HTLC failed (update_fail_htlc).
LEMMA UpdateFailStep ==
    ASSUME NEW I, Before(I), NEW n \in Nodes, UpdateFailHtlc(n)
    PROVE  Stepped
<1> DEFINE c == ch[n]
           m == Head(net[n])
           d == IF c.disc THEN Ends(c, "reestablish") ELSE RemoteRemove(c, m.id, "fail")
<1>1. /\ Incoming(n, "fail") /\ Becomes(n, d) /\ Replies(n, <<>>) /\ UNCHANGED payVars
  BY DEF UpdateFailHtlc
<1>2. /\ NodeOK(n, c, I, started, claimable, claimed, refused)
      /\ I \in [Payments -> Int] /\ IdsUnique(I) /\ claimable \in SUBSET Payments
      /\ claimed \in SUBSET Payments /\ refused \in SUBSET Payments
      /\ net[n] # <<>> /\ m.t = "fail" /\ m \in Deliverable(n, I, claimed, refused)
      /\ <<>> \in Seq(Deliverable(Peer(n), I, claimed, refused))
  BY <1>1, IncomingFacts
<1>3. PICK p \in refused : m.id \in Nat /\ PayFrom[p] = n /\ I[p] = m.id
  BY <1>2, MessageFacts
<1>4. /\ NodeOK(n, RemoteRemove(c, m.id, "fail"), I, started, claimable, claimed, refused)
      /\ Still(c, RemoteRemove(c, m.id, "fail"), claimed)
  <2>1. p \in Payments
    BY <1>2
  <2> HIDE DEF c, m
  <2>2. /\ NodeOK(n, RemoteRemove(c, m.id, "fail"), I, started, claimable, claimed, refused)
        /\ SameMoney(c, RemoteRemove(c, m.id, "fail"))
    BY <1>2, <1>3, <2>1, RemoteRemoveKeeps
  <2> QED BY <2>2, MoneyStill
<1>5. NodeOK(n, d, I, started, claimable, claimed, refused) /\ Still(c, d, claimed)
  <2>1. "reestablish" \in {"open", "closed"} \cup Errors
    BY DEF Errors
  <2> HIDE DEF c, m
  <2> QED BY <1>2, <1>4, <2>1, EndsStill
<1> HIDE DEF d
<1> QED BY <1>1, <1>2, <1>5, QuietReply

\* The payer hears that an HTLC was claimed (update_fulfill_htlc).
LEMMA UpdateFulfillStep ==
    ASSUME NEW I, Before(I), NEW n \in Nodes, UpdateFulfillHtlc(n)
    PROVE  Stepped
<1> DEFINE c == ch[n]
           m == Head(net[n])
           e == RemoteRemove(c, m.id, "fulfil")
           d == IF c.disc THEN Ends(c, "reestablish") ELSE e
           G == IF e.fate = "open" /\ ~c.disc THEN PaysOf(c, m.id) ELSE {}
<1>1. /\ Incoming(n, "fulfil") /\ Becomes(n, d) /\ Replies(n, <<>>) /\ Tells(G, "sent")
      /\ started' = started /\ claimable' = claimable /\ claimed' = claimed
      /\ refused' = refused
  BY DEF UpdateFulfillHtlc
<1>2. /\ NodeOK(n, c, I, started, claimable, claimed, refused)
      /\ I \in [Payments -> Int] /\ IdsUnique(I) /\ claimable \in SUBSET Payments
      /\ claimed \in SUBSET Payments /\ refused \in SUBSET Payments
      /\ net[n] # <<>> /\ m.t = "fulfil" /\ m \in Deliverable(n, I, claimed, refused)
      /\ <<>> \in Seq(Deliverable(Peer(n), I, claimed, refused))
  BY <1>1, IncomingFacts
<1>3. PICK p \in claimed : m.id \in Nat /\ PayFrom[p] = n /\ I[p] = m.id
  BY <1>2, MessageFacts
<1>4. /\ NodeOK(n, e, I, started, claimable, claimed, refused)
      /\ Still(c, e, claimed) /\ PaysOf(c, m.id) \subseteq {p}
  <2>1. p \in Payments
    BY <1>2
  <2> HIDE DEF c, m
  <2>2. /\ NodeOK(n, e, I, started, claimable, claimed, refused)
        /\ SameMoney(c, e) /\ OnlyPays(c, m.id, p)
    BY <1>2, <1>3, <2>1, RemoteRemoveKeeps
  <2> QED BY <2>2, MoneyStill DEF OnlyPays
<1> HIDE DEF e
<1>5. NodeOK(n, d, I, started, claimable, claimed, refused) /\ Still(c, d, claimed)
  <2>1. "reestablish" \in {"open", "closed"} \cup Errors
    BY DEF Errors
  <2> HIDE DEF c, m
  <2> QED BY <1>2, <1>4, <2>1, EndsStill
<1>6. Hears(n, d, I, started, claimed, refused, G, "sent")
  <2>1. G \subseteq claimed
    <3> HIDE DEF c, m
    <3> QED BY <1>3, <1>4
  <2> QED BY <2>1 DEF Hears
<1>7. told' = Telling(told, G, "sent") /\ ch' = [ch EXCEPT ![n] = d]
  BY <1>1 DEF Tells, Telling, Becomes
<1>8. NetOK(net', I, claimed, refused)
  <2>1. NetOK(net, I, claimed, refused)
    BY NodeFacts DEF Before
  <2> QED BY <1>1, <1>2, <2>1, NetSends DEF Replies
<1> HIDE DEF d, G
<1>9. After(ch, started, claimed, ch', net', started, claimable, claimed, refused, told')
  <2>1. \A N2, K2, T2 : /\ NetOK(N2, I, claimed, refused) /\ K2 = [ch EXCEPT ![n] = d]
                        /\ T2 = Telling(told, G, "sent")
            => After(ch, started, claimed, K2, N2, started, claimable, claimed, refused, T2)
    BY <1>5, <1>6, QuietStep DEF Before
  <2> QED BY <1>7, <1>8, <2>1
<1> QED BY <1>1, <1>9 DEF Stepped

\* A node takes a new commitment of its own (commitment_signed).
LEMMA CommitmentSignedStep ==
    ASSUME NEW I, Before(I), NEW n \in Nodes, CommitmentSigned(n)
    PROVE  Stepped
<1> DEFINE c == ch[n]
           m == Head(net[n])
           tx == build_commitment_transaction(n, c, c.holderNum, FALSE)
           e == commitment_signed_update_monitor(n, c, tx)
           d == CASE c.disc -> Ends(c, "reestablish")
                  [] ~c.disc /\ ClosingStarted(c) -> Ends(c, "update_while_closing")
                  [] ~c.disc /\ ~ClosingStarted(c)
                             /\ ~BuildAsserts(n, c, FALSE) -> Ends(c, "assert")
                  [] ~c.disc /\ ~ClosingStarted(c) /\ BuildAsserts(n, c, FALSE)
                             /\ tx # m.tx -> Ends(c, "signature")
                  [] OTHER -> e
<1>1. /\ Incoming(n, "cs") /\ Becomes(n, d) /\ Replies(n, <<>>) /\ UNCHANGED payVars
  BY DEF CommitmentSigned
<1>2. /\ NodeOK(n, c, I, started, claimable, claimed, refused) /\ c \in Channel
      /\ I \in [Payments -> Int] /\ claimable \in SUBSET Payments
      /\ claimed \in SUBSET Payments /\ refused \in SUBSET Payments /\ net[n] # <<>>
      /\ <<>> \in Seq(Deliverable(Peer(n), I, claimed, refused))
  BY <1>1, IncomingFacts
<1>3. tx \in Txs
  <2>1. c.holderNum \in Nat /\ IsFiniteSet(c.inb) /\ IsFiniteSet(c.out)
    BY <1>2 DEF Channel, NodeOK, InOK, OutOK
  <2> HIDE DEF c
  <2> QED BY <1>2, <2>1, TxTyped
<1>4. NodeOK(n, e, I, started, claimable, claimed, refused) /\ Still(c, e, claimed)
  <2> HIDE DEF c, tx
  <2> QED BY <1>2, <1>3, SignedKeeps, MoneyStill
<1> HIDE DEF e
<1>5. NodeOK(n, d, I, started, claimable, claimed, refused) /\ Still(c, d, claimed)
  <2>1. ASSUME NEW why \in {"reestablish", "update_while_closing", "assert", "signature"}
        PROVE  /\ NodeOK(n, Ends(c, why), I, started, claimable, claimed, refused)
               /\ Still(c, Ends(c, why), claimed)
    <3>1. why \in {"open", "closed"} \cup Errors
      BY DEF Errors
    <3> QED BY <1>2, <3>1, EndsStill
  <2> HIDE DEF c, m, tx
  <2> QED BY <1>4, <2>1
<1> HIDE DEF d
<1> QED BY <1>1, <1>2, <1>5, QuietReply

\* A message for a channel that is closed is dropped.
LEMMA MessageAfterCloseStep ==
    ASSUME NEW I, Before(I), NEW n \in Nodes, MessageAfterClose(n)
    PROVE  Stepped
<1> DEFINE bogus == [t |-> "reestablish", nextLocal |-> 0, nextRemote |-> 0]
           msgs == IF Head(net[n]).t = "reestablish" THEN <<bogus>> ELSE <<>>
<1>1. net[n] # <<>> /\ Replies(n, msgs) /\ ch' = ch /\ UNCHANGED payVars
  BY DEF MessageAfterClose
<1>2. bogus \in Deliverable(Peer(n), I, claimed, refused)
  <2>1. bogus \in Messages /\ bogus.t = "reestablish"
    BY DEF Messages
  <2> HIDE DEF bogus
  <2> QED BY <2>1 DEF Deliverable
<1>3. msgs \in Seq(Deliverable(Peer(n), I, claimed, refused))
  <2> HIDE DEF bogus
  <2> QED BY <1>2
<1>4. /\ NodeOK(n, ch[n], I, started, claimable, claimed, refused)
      /\ Still(ch[n], ch[n], claimed) /\ ch = [x \in Nodes |-> ch[x]]
  BY NodeFacts DEF Before, Still, Decision
<1>5. Becomes(n, ch[n])
  BY <1>1, <1>4 DEF Becomes
<1> HIDE DEF msgs
<1> QED BY <1>1, <1>3, <1>4, <1>5, QuietReply

\* A node resends what its peer has not seen (channel_reestablish).
LEMMA ReestablishStep ==
    ASSUME NEW I, Before(I), NEW n \in Nodes, ChannelReestablish(n)
    PROVE  Stepped
<1> DEFINE c == ch[n]
           m == Head(net[n])
           needRaa == m.nextRemote + 1 = c.holderNum - 1
           needCs == m.nextLocal + 1 = c.cpNum + (IF c.awaitRaa THEN 1 ELSE 0)
           a == needRaa /\ c.monBusy
           b == needCs /\ c.monBusy
           d == [c EXCEPT !.disc = FALSE, !.pendRaa = @ \/ a, !.pendCs = @ \/ b]
           x == needRaa /\ ~c.monBusy
           y == needCs /\ ~c.monBusy
           msgs == get_outbound_shutdown(d) \o Resumption(n, d, x, y)
           err == ReestablishError(c, m)
<1>1. /\ Incoming(n, "reestablish") /\ UNCHANGED payVars
      /\ IF err # "open" THEN Becomes(n, Ends(c, err)) /\ Replies(n, <<>>)
         ELSE Becomes(n, d) /\ Replies(n, msgs)
  BY DEF ChannelReestablish
<1>2. /\ NodeOK(n, c, I, started, claimable, claimed, refused) /\ c \in Channel
      /\ I \in [Payments -> Int] /\ IdsUnique(I) /\ claimable \in SUBSET Payments
      /\ claimed \in SUBSET Payments /\ refused \in SUBSET Payments /\ net[n] # <<>>
      /\ <<>> \in Seq(Deliverable(Peer(n), I, claimed, refused))
  BY <1>1, IncomingFacts
<1>3. a \in BOOLEAN /\ b \in BOOLEAN
  OBVIOUS
<1>4. err \in {"open", "closed"} \cup Errors
  BY DEF ReestablishError, Errors
<1> HIDE DEF c, m, a, b, x, y, err
<1>5. d \in Channel /\ SameBooks(c, d)
  <2> DEFINE p == c.pendRaa \/ a
             q == c.pendCs \/ b
  <2>1. c \in Channel
    BY <1>2
  <2>2. p \in BOOLEAN /\ q \in BOOLEAN
    OBVIOUS
  <2>3. d = [c EXCEPT !.disc = FALSE, !.pendRaa = p, !.pendCs = q]
    OBVIOUS
  <2> HIDE DEF p, q, d
  <2> QED BY ONLY <2>1, <2>2, <2>3 DEF Channel, SameBooks
<1> HIDE DEF d
<1>6. NodeOK(n, d, I, started, claimable, claimed, refused) /\ Still(c, d, claimed)
  BY <1>2, <1>5, BooksDecide, MoneyStill
<1>7. msgs \in Seq(Deliverable(Peer(n), I, claimed, refused))
  <2> DEFINE D == Deliverable(Peer(n), I, claimed, refused)
  <2>1. Resumption(n, d, x, y) \in Seq(D) /\ get_outbound_shutdown(d) \in Seq(D)
    BY <1>2, <1>6, ResumptionDeliverable
  <2> HIDE DEF D
  <2>2. msgs \in Seq(D)
    BY <2>1
  <2> QED BY <2>2 DEF D
<1>8. NodeOK(n, Ends(c, err), I, started, claimable, claimed, refused)
      /\ Still(c, Ends(c, err), claimed)
  BY <1>2, <1>4, EndsStill
<1> HIDE DEF msgs
<1>9. CASE err = "open"
  <2>1. Becomes(n, d) /\ Replies(n, msgs) /\ Still(ch[n], d, claimed)
    BY <1>1, <1>6, <1>9 DEF c
  <2> QED BY <1>1, <1>2, <1>6, <1>7, <2>1, QuietReply
<1>10. CASE err # "open"
  <2> DEFINE e == Ends(c, err)
  <2>1. /\ Becomes(n, e) /\ Replies(n, <<>>) /\ Still(ch[n], e, claimed)
        /\ NodeOK(n, e, I, started, claimable, claimed, refused)
    BY <1>1, <1>8, <1>10 DEF c
  <2> HIDE DEF e
  <2> QED BY <1>1, <1>2, <2>1, QuietReply
<1> QED BY <1>9, <1>10

-----------------------------------------------------------------------------
(* Closing. *)

\* A closing proposal is a message.
LEMMA ClosingDeliverable ==
    ASSUME NEW n \in Nodes, NEW c \in Channel, NEW fee \in Nat, NEW I, NEW C, NEW R
    PROVE  /\ ClosingMsg(n, c, fee) \in Closings
           /\ <<ClosingMsg(n, c, fee)>> \in Seq(Deliverable(Peer(n), I, C, R))
<1> DEFINE m == ClosingMsg(n, c, fee)
<1>1. Split(n, c) \in [Nodes -> Int]
  <2>1. c.toSelf \in Int /\ Funding - c.toSelf \in Int
    BY ChannelAssumption DEF Channel
  <2> QED BY <2>1 DEF Split
<1>2. m \in Closings /\ m.t = "closing"
  BY <1>1 DEF ClosingMsg, Closings
<1> HIDE DEF m
<1>3. m \in Deliverable(Peer(n), I, C, R)
  BY <1>2 DEF Deliverable, Messages
<1> QED BY <1>2, <1>3 DEF m

\* Answering a closing proposal moves nothing.
LEMMA AnswerKeeps ==
    ASSUME NEW n \in Nodes, NEW c, NEW I, NEW S, NEW L, NEW C, NEW R,
           NodeOK(n, c, I, S, L, C, R), NEW m \in Closings, NEW fee \in ClosingFees(n, m)
    PROVE  /\ NodeOK(n, AnswerClosing(n, c, m, fee).c, I, S, L, C, R)
           /\ Still(c, AnswerClosing(n, c, m, fee).c, C)
           /\ AnswerClosing(n, c, m, fee).out \in Seq(Deliverable(Peer(n), I, C, R))
<1> DEFINE fate == IF fee = m.fee THEN "closed" ELSE "open"
           e == [c EXCEPT !.feeSent = fee, !.fate = fate]
           A == AnswerClosing(n, c, m, fee)
<1>1. fee \in Nat /\ c \in Channel
  BY ChannelAssumption DEF ClosingFees, Closings, NodeOK
<1>2. e \in Channel /\ SameBooks(c, e)
  <2>1. fate \in {"open", "closed"} \cup Errors
    OBVIOUS
  <2> HIDE DEF fate
  <2> QED BY <1>1, <2>1 DEF Channel, SameBooks
<1>3. A = IF m.split # Split(n, c) THEN [c |-> Ends(c, "closing_signature"), out |-> <<>>]
          ELSE IF c.feeSent = m.fee THEN [c |-> Ends(c, "closed"), out |-> <<>>]
          ELSE [c |-> e, out |-> <<ClosingMsg(n, c, fee)>>]
  BY DEF AnswerClosing
<1> HIDE DEF e, A
<1>4. NodeOK(n, e, I, S, L, C, R) /\ Still(c, e, C)
  BY <1>2, BooksDecide, MoneyStill
<1>5. ASSUME NEW why \in {"closing_signature", "closed"}
      PROVE  NodeOK(n, Ends(c, why), I, S, L, C, R) /\ Still(c, Ends(c, why), C)
  <2>1. why \in {"open", "closed"} \cup Errors
    BY DEF Errors
  <2> QED BY <2>1, EndsStill
<1>6. NodeOK(n, A.c, I, S, L, C, R) /\ Still(c, A.c, C)
  BY <1>3, <1>4, <1>5
<1>7. A.out \in Seq(Deliverable(Peer(n), I, C, R))
  <2> DEFINE D == Deliverable(Peer(n), I, C, R)
             q == <<ClosingMsg(n, c, fee)>>
  <2>1. q \in Seq(D)
    BY <1>1, ClosingDeliverable
  <2>2. <<>> \in Seq(D)
    OBVIOUS
  <2>3. A.out = <<>> \/ A.out = q
    BY <1>3
  <2> HIDE DEF q, D
  <2>4. A.out \in Seq(D)
    BY <2>1, <2>2, <2>3
  <2> QED BY <2>4 DEF D
<1> QED BY <1>6, <1>7 DEF A

\* A node answers a proposed closing fee (closing_signed).
LEMMA ClosingSignedStep ==
    ASSUME NEW I, Before(I), NEW n \in Nodes, ClosingSigned(n)
    PROVE  Stepped
<1> DEFINE c == ch[n]
           m == Head(net[n])
<1>1. Incoming(n, "closing") /\ UNCHANGED payVars
  BY DEF ClosingSigned
<1>2. /\ NodeOK(n, c, I, started, claimable, claimed, refused) /\ c \in Channel
      /\ net[n] # <<>> /\ m.t = "closing" /\ m \in Deliverable(n, I, claimed, refused)
      /\ <<>> \in Seq(Deliverable(Peer(n), I, claimed, refused))
  BY <1>1, IncomingFacts
<1>3. m \in Closings
  BY <1>2, MessageFacts
<1>4. CASE ClosingError(n, c)
  <2> DEFINE e == Ends(c, "closing_order")
  <2>1. Becomes(n, e) /\ Replies(n, <<>>)
    BY <1>4 DEF ClosingSigned
  <2>2. NodeOK(n, e, I, started, claimable, claimed, refused) /\ Still(c, e, claimed)
    <3>1. "closing_order" \in {"open", "closed"} \cup Errors
      BY DEF Errors
    <3> QED BY <1>2, <3>1, EndsStill
  <2> HIDE DEF e
  <2> QED BY <1>1, <1>2, <2>1, <2>2, QuietReply
<1>5. CASE ~ClosingError(n, c) /\ c.monBusy
  <2> DEFINE e == [c EXCEPT !.pendClosing = m]
  <2>1. Becomes(n, e) /\ Replies(n, <<>>)
    BY <1>5 DEF ClosingSigned
  <2>2. e \in Channel /\ SameBooks(c, e)
    <3>1. m \in Closings \cup {NoClosing}
      BY <1>3
    <3> HIDE DEF c, m
    <3> QED BY ONLY <1>2, <3>1 DEF Channel, SameBooks
  <2> HIDE DEF e
  <2>3. NodeOK(n, e, I, started, claimable, claimed, refused) /\ Still(c, e, claimed)
    BY <1>2, <2>2, BooksDecide, MoneyStill
  <2> QED BY <1>1, <1>2, <2>1, <2>3, QuietReply
<1>6. CASE ~ClosingError(n, c) /\ ~c.monBusy
  <2>1. PICK fee \in ClosingFees(n, m) :
            /\ Becomes(n, AnswerClosing(n, c, m, fee).c)
            /\ Replies(n, AnswerClosing(n, c, m, fee).out)
    BY <1>6 DEF ClosingSigned
  <2> DEFINE e == AnswerClosing(n, c, m, fee).c
             out == AnswerClosing(n, c, m, fee).out
  <2>2. /\ NodeOK(n, e, I, started, claimable, claimed, refused) /\ Still(c, e, claimed)
        /\ out \in Seq(Deliverable(Peer(n), I, claimed, refused))
    BY <1>2, <1>3, AnswerKeeps
  <2>3. Becomes(n, e) /\ Replies(n, out)
    BY <2>1
  <2> HIDE DEF e, out
  <2> QED BY <1>1, <1>2, <2>2, <2>3, QuietReply
<1> QED BY <1>4, <1>5, <1>6

\* A node that sends, moves no money and tells nobody.
LEMMA QuietSend ==
    ASSUME NEW I, Before(I), NEW n \in Nodes, NEW d,
           NodeOK(n, d, I, started, claimable, claimed, refused), Still(ch[n], d, claimed),
           NEW msgs \in Seq(Deliverable(Peer(n), I, claimed, refused)),
           Becomes(n, d), Sends(n, msgs), UNCHANGED payVars
    PROVE  Stepped
<1>1. /\ ch' = [ch EXCEPT ![n] = d]
      /\ net' = [net EXCEPT ![Peer(n)] = @ \o msgs]
      /\ started' = started /\ claimable' = claimable /\ claimed' = claimed
      /\ refused' = refused /\ told' = told
  BY DEF Becomes, Sends, payVars
<1>2. NetOK(net, I, claimed, refused)
  BY NodeFacts DEF Before
<1>3. NetOK(net', I, claimed, refused)
  BY <1>1, <1>2, NetSends
<1>4. /\ Hears(n, d, I, started, claimed, refused, {}, "sent")
      /\ told' = Telling(told, {}, "sent")
  BY <1>1, NobodyHears DEF Before
<1>5. After(ch, started, claimed, ch', net', started, claimable, claimed, refused, told')
  <2>1. \A N2, K2, T2 : /\ NetOK(N2, I, claimed, refused) /\ K2 = [ch EXCEPT ![n] = d]
                        /\ T2 = Telling(told, {}, "sent")
            => After(ch, started, claimed, K2, N2, started, claimable, claimed, refused, T2)
    BY <1>4, QuietStep DEF Before
  <2> QED BY <1>1, <1>3, <1>4, <2>1
<1> QED BY <1>1, <1>5 DEF Stepped

\* The opener proposes the first fee (maybe_propose_closing_signed).
LEMMA ProposeStep ==
    ASSUME NEW I, Before(I), NEW n \in Nodes, ProposeClosing(n)
    PROVE  Stepped
<1> DEFINE c == ch[n]
           e == [c EXCEPT !.feeSent = 1]
           q == <<ClosingMsg(n, c, 1)>>
<1>1. Becomes(n, e) /\ Sends(n, q) /\ UNCHANGED payVars
  BY DEF ProposeClosing
<1>2. NodeOK(n, c, I, started, claimable, claimed, refused) /\ c \in Channel
  BY NodeFacts DEF Before
<1>3. e \in Channel /\ SameBooks(c, e)
  <2> HIDE DEF c
  <2> QED BY ONLY <1>2 DEF Channel, SameBooks
<1>4. q \in Seq(Deliverable(Peer(n), I, claimed, refused))
  BY <1>2, ClosingDeliverable
<1> HIDE DEF e, q
<1>5. NodeOK(n, e, I, started, claimable, claimed, refused) /\ Still(c, e, claimed)
  BY <1>2, <1>3, BooksDecide, MoneyStill
<1> QED BY <1>1, <1>4, <1>5, QuietSend

\* A closing_signed that came too early is answered later.
LEMMA AnswerDeferredStep ==
    ASSUME NEW I, Before(I), NEW n \in Nodes, AnswerDeferredClosing(n)
    PROVE  Stepped
<1> DEFINE c == [ch[n] EXCEPT !.pendClosing = NoClosing]
           m == ch[n].pendClosing
<1>1. m # NoClosing /\ UNCHANGED payVars
  BY DEF AnswerDeferredClosing
<1>2. NodeOK(n, ch[n], I, started, claimable, claimed, refused) /\ ch[n] \in Channel
  BY NodeFacts DEF Before
<1>3. c \in Channel /\ SameBooks(ch[n], c)
  BY ONLY <1>2 DEF Channel, SameBooks
<1>4. m \in Closings
  BY <1>1, <1>2 DEF Channel
<1>5. PICK fee \in ClosingFees(n, m) :
            /\ Becomes(n, AnswerClosing(n, c, m, fee).c)
            /\ Sends(n, AnswerClosing(n, c, m, fee).out)
  BY DEF AnswerDeferredClosing
<1> HIDE DEF c
<1>6. NodeOK(n, c, I, started, claimable, claimed, refused) /\ Still(ch[n], c, claimed)
  BY <1>2, <1>3, BooksDecide, MoneyStill
<1> DEFINE e == AnswerClosing(n, c, m, fee).c
           out == AnswerClosing(n, c, m, fee).out
<1>7. /\ NodeOK(n, e, I, started, claimable, claimed, refused) /\ Still(c, e, claimed)
      /\ out \in Seq(Deliverable(Peer(n), I, claimed, refused))
  BY <1>4, <1>6, AnswerKeeps
<1>8. Still(ch[n], e, claimed)
  <2> HIDE DEF e
  <2> QED BY <1>6, <1>7 DEF Still
<1>9. Becomes(n, e) /\ Sends(n, out)
  BY <1>5
<1> HIDE DEF e, out
<1> QED BY <1>1, <1>7, <1>8, <1>9, QuietSend

\* The holding cell without its additions, which are given up.
LEMMA EmptiedKeeps ==
    ASSUME NEW n \in Nodes, NEW c, NEW I, NEW S, NEW L, NEW C, NEW R,
           NodeOK(n, c, I, S, L, C, R), NEW d \in Channel, d.cell = WithoutAdds(c.cell),
           d.inb = c.inb, d.out = c.out, d.toSelf = c.toSelf, d.nextId = c.nextId,
           d.nextCpId = c.nextCpId, d.pendAdds = c.pendAdds, d.pendFails = c.pendFails
    PROVE  /\ NodeOK(n, d, I, S, L, C, R) /\ Moves(c, d, C, {}, {}, AddsIn(c))
           /\ AddsIn(d) = {}
<1>1. CellOK(n, d.cell, I, S, C, R) /\ \A i \in 1 .. Len(d.cell) : d.cell[i].op # "add"
  BY WithoutAddsKeeps DEF NodeOK
<1>2. AddsIn(d) = {}
  <2>1. DOMAIN d.cell = 1 .. Len(d.cell)
    BY <1>1 DEF CellOK
  <2> QED BY <1>1, <2>1 DEF AddsIn, CellAdds, ToSet
<1>3. OutOK(n, d, I, C, R) /\ InOK(n, d, I, L, C, R)
  BY DEF NodeOK, OutOK, InOK
<1>4. \E k \in Nat : SeenOK(n, d, I, L, C, R, k)
  <2>1. PICK k \in Nat : SeenOK(n, c, I, L, C, R, k)
    BY DEF NodeOK
  <2>2. SeenOK(n, d, I, L, C, R, k)
    BY <2>1 DEF SeenOK
  <2> QED BY <2>2
<1>5. NodeOK(n, d, I, S, L, C, R)
  BY <1>1, <1>3, <1>4 DEF NodeOK
<1>6. d.toSelf = c.toSelf + Worth({} \cap C) - Worth({} \cap C)
  <2>1. {} \cap C = {} /\ c.toSelf \in Int
    BY DEF NodeOK, Channel
  <2>2. Worth({} \cap C) = 0
    BY <2>1, WorthAdds
  <2> QED BY <2>1, <2>2
<1>7. Moves(c, d, C, {}, {}, AddsIn(c))
  BY <1>2, <1>6 DEF Moves
<1> QED BY <1>2, <1>5, <1>7

\* A node that gives its waiting additions up and tells the payer so.
LEMMA EmptiedStep ==
    ASSUME NEW I, Before(I), NEW n \in Nodes, NEW d,
           NodeOK(n, d, I, started, claimable, claimed, refused),
           Moves(ch[n], d, claimed, {}, {}, AddsIn(ch[n])), AddsIn(d) = {},
           d.nextId = ch[n].nextId, NetOK(net', I, claimed, refused),
           Becomes(n, d), Tells(AddsIn(ch[n]), "failed"),
           started' = started, claimable' = claimable, claimed' = claimed, refused' = refused
    PROVE  Stepped
<1> DEFINE G == AddsIn(ch[n])
<1>1. /\ NodeOK(n, ch[n], I, started, claimable, claimed, refused)
      /\ I \in [Payments -> Int] /\ IdsUnique(I)
      /\ \A p \in Payments : I[p] # -1 =>
                I[p] >= 0 /\ p \in started /\ (PayFrom[p] = n => I[p] < ch[n].nextId)
  BY NodeFacts DEF Before
<1>2. \A p \in G : p \in Payments /\ p \in started /\ PayFrom[p] = n /\ I[p] = -1
  BY <1>1, AddsWait
<1>3. Hears(n, d, I, started, claimed, refused, G, "failed")
  BY <1>2 DEF Hears
<1>4. IdsGrow(n, ch[n], d, I, I, started)
  BY <1>1 DEF IdsGrow
<1>5. told' = Telling(told, G, "failed") /\ ch' = [ch EXCEPT ![n] = d]
  BY DEF Tells, Telling, Becomes
<1>6. {} \in SUBSET Payments /\ G \in SUBSET Payments
  BY <1>2
<1> HIDE DEF G
<1>7. \A N2, K2, T2 : /\ NetOK(N2, I, claimed, refused) /\ K2 = [ch EXCEPT ![n] = d]
                      /\ T2 = Telling(told, G, "failed")
        => After(ch, started, claimed, K2, N2, started, claimable, claimed, refused, T2)
  <2>1. Moves(ch[n], d, claimed, {}, {}, G)
    BY DEF G
  <2> QED BY <1>3, <1>4, <1>6, <2>1, NodeStep DEF Before
<1>8. After(ch, started, claimed, ch', net', started, claimable, claimed, refused, told')
  BY <1>5, <1>7
<1> QED BY <1>8 DEF Stepped

\* A shutdown is a message.
LEMMA ShutdownDeliverable ==
    ASSUME NEW n, NEW I, NEW C, NEW R
    PROVE  <<[t |-> "shutdown"]>> \in Seq(Deliverable(n, I, C, R))
<1> DEFINE m == [t |-> "shutdown"]
<1>1. m \in Messages /\ m.t = "shutdown"
  BY DEF Messages
<1> HIDE DEF m
<1>2. m \in Deliverable(n, I, C, R)
  BY <1>1 DEF Deliverable
<1> QED BY <1>2 DEF m

\* What is left of a holding cell is one.
LEMMA CellTyped ==
    ASSUME NEW n, NEW c, NEW I, NEW S, NEW L, NEW C, NEW R, NodeOK(n, c, I, S, L, C, R)
    PROVE  WithoutAdds(c.cell) \in Seq(Updates)
<1>1. WithoutAdds(c.cell) \in Seq(Waiting(n, I, S, C, R))
  BY WithoutAddsKeeps DEF NodeOK, CellOK
<1>2. Waiting(n, I, S, C, R) \subseteq Updates
  BY DEF Waiting
<1> QED BY <1>1, <1>2

\* The peer wants to close: waiting additions fail (shutdown).
LEMMA ShutdownStep ==
    ASSUME NEW I, Before(I), NEW n \in Nodes, ShutdownReceived(n)
    PROVE  Stepped
<1> DEFINE c == ch[n]
           bad == \E h \in c.inb : h.st = "RemoteAnnounced"
<1>1. /\ Incoming(n, "shutdown") /\ started' = started /\ claimable' = claimable
      /\ claimed' = claimed /\ refused' = refused
  BY DEF ShutdownReceived
<1>2. /\ NodeOK(n, c, I, started, claimable, claimed, refused) /\ c \in Channel
      /\ net[n] # <<>> /\ <<>> \in Seq(Deliverable(Peer(n), I, claimed, refused))
  BY <1>1, IncomingFacts
<1>3. CASE c.disc \/ bad
  <2> DEFINE why == IF c.disc THEN "reestablish" ELSE "shutdown_with_adds"
             e == Ends(c, why)
  <2>1. Becomes(n, e) /\ Replies(n, <<>>) /\ told' = told
    BY <1>3 DEF ShutdownReceived
  <2>2. NodeOK(n, e, I, started, claimable, claimed, refused) /\ Still(c, e, claimed)
    <3>1. why \in {"open", "closed"} \cup Errors
      BY DEF Errors
    <3> HIDE DEF why
    <3> QED BY <1>2, <3>1, EndsStill
  <2>3. UNCHANGED payVars
    BY <1>1, <2>1 DEF payVars
  <2> HIDE DEF e
  <2> QED BY <1>2, <2>1, <2>2, <2>3, QuietReply
<1>4. CASE ~(c.disc \/ bad)
  <2> DEFINE W == WithoutAdds(c.cell)
             e == [c EXCEPT !.remoteShut = TRUE, !.localShut = TRUE, !.cell = W]
             msgs == IF c.localShut THEN <<>> ELSE <<[t |-> "shutdown"]>>
  <2>1. Becomes(n, e) /\ Replies(n, msgs) /\ Tells(AddsIn(c), "failed")
    BY <1>4 DEF ShutdownReceived
  <2>2. W \in Seq(Updates)
    BY <1>2, CellTyped
  <2> HIDE DEF W
  <2>3. /\ e \in Channel /\ e.cell = W /\ e.inb = c.inb /\ e.out = c.out
        /\ e.toSelf = c.toSelf /\ e.nextId = c.nextId
        /\ e.nextCpId = c.nextCpId /\ e.pendAdds = c.pendAdds /\ e.pendFails = c.pendFails
    <3> HIDE DEF c
    <3>1. c \in Channel
      BY <1>2
    <3> QED BY ONLY <2>2, <3>1 DEF Channel
  <2> HIDE DEF e
  <2>4. /\ NodeOK(n, e, I, started, claimable, claimed, refused)
        /\ Moves(c, e, claimed, {}, {}, AddsIn(c)) /\ AddsIn(e) = {}
    BY <1>2, <2>3, EmptiedKeeps DEF W
  <2>5. msgs \in Seq(Deliverable(Peer(n), I, claimed, refused))
    BY <1>2, ShutdownDeliverable
  <2>6. NetOK(net', I, claimed, refused)
    <3>1. NetOK(net, I, claimed, refused)
      BY NodeFacts DEF Before
    <3> HIDE DEF msgs
    <3> QED BY <1>2, <2>1, <2>5, <3>1, NetSends DEF Replies
  <2> QED BY <1>1, <2>1, <2>3, <2>4, <2>6, EmptiedStep
<1> QED BY <1>3, <1>4

\* The user wants to close: waiting additions fail (get_shutdown).
LEMMA CloseStep ==
    ASSUME NEW I, Before(I), NEW n \in Nodes, CloseChannel(n)
    PROVE  Stepped
<1> DEFINE c == ch[n]
           W == WithoutAdds(c.cell)
           e == [c EXCEPT !.localShut = TRUE, !.cell = W]
           msgs == <<[t |-> "shutdown"]>>
<1>1. /\ started' = started /\ claimable' = claimable
      /\ claimed' = claimed /\ refused' = refused
      /\ Becomes(n, e) /\ Sends(n, msgs) /\ Tells(AddsIn(c), "failed")
  BY DEF CloseChannel
<1>2. /\ NodeOK(n, c, I, started, claimable, claimed, refused) /\ c \in Channel
      /\ NetOK(net, I, claimed, refused)
  BY NodeFacts DEF Before
<1>3. W \in Seq(Updates)
  BY <1>2, CellTyped
<1> HIDE DEF W
<1>4. /\ e \in Channel /\ e.cell = W /\ e.inb = c.inb /\ e.out = c.out
      /\ e.toSelf = c.toSelf /\ e.nextId = c.nextId
      /\ e.nextCpId = c.nextCpId /\ e.pendAdds = c.pendAdds /\ e.pendFails = c.pendFails
  <2> HIDE DEF c
  <2>1. c \in Channel
    BY <1>2
  <2> QED BY ONLY <1>3, <2>1 DEF Channel
<1> HIDE DEF e
<1>5. /\ NodeOK(n, e, I, started, claimable, claimed, refused)
      /\ Moves(c, e, claimed, {}, {}, AddsIn(c)) /\ AddsIn(e) = {}
  BY <1>2, <1>4, EmptiedKeeps DEF W
<1>6. msgs \in Seq(Deliverable(Peer(n), I, claimed, refused))
  BY ShutdownDeliverable
<1>7. NetOK(net', I, claimed, refused)
  <2> HIDE DEF msgs
  <2> QED BY <1>1, <1>2, <1>6, NetSends DEF Sends
<1> QED BY <1>1, <1>4, <1>5, <1>7, EmptiedStep

-----------------------------------------------------------------------------
(* The connection. *)

\* Both nodes send channel_reestablish.
LEMMA ReconnectStep ==
    ASSUME NEW I, Before(I), Reconnect
    PROVE  Stepped
<1> DEFINE msg(n) == get_channel_reestablish(ch[Peer(n)])
           new(n) == IF ch[Peer(n)].fate = "open" THEN <<msg(n)>> ELSE <<>>
<1>1. net' = [n \in Nodes |-> new(n)] /\ ch' = ch /\ UNCHANGED payVars
  BY DEF Reconnect
<1>2. ASSUME NEW n \in Nodes PROVE new(n) \in Seq(Deliverable(n, I, claimed, refused))
  <2> DEFINE m == Peer(n)
  <2>1. m \in Nodes
    BY PeerFacts
  <2>2. ch[m] \in Channel
    <3> HIDE DEF m
    <3> QED BY <2>1, NodeFacts DEF Before
  <2>3. ch[m].holderNum \in Int /\ ch[m].cpNum - 1 \in Int
    BY <2>2 DEF Channel
  <2>4. msg(n) \in Messages /\ msg(n).t = "reestablish"
    BY <2>3 DEF get_channel_reestablish, Messages
  <2> HIDE DEF msg
  <2>5. msg(n) \in Deliverable(n, I, claimed, refused)
    BY <2>4 DEF Deliverable
  <2> QED BY <2>5
<1>3. NetOK(net', I, claimed, refused)
  <2> HIDE DEF new
  <2> QED BY <1>1, <1>2 DEF NetOK
<1>4. Opener \in Nodes
  BY DEF Nodes
<1>5. /\ NodeOK(Opener, ch[Opener], I, started, claimable, claimed, refused)
      /\ Still(ch[Opener], ch[Opener], claimed) /\ ch = [x \in Nodes |-> ch[x]]
  BY <1>4, NodeFacts DEF Before, Still, Decision
<1>6. /\ Hears(Opener, ch[Opener], I, started, claimed, refused, {}, "sent")
      /\ told' = Telling(told, {}, "sent")
  BY <1>1, NobodyHears DEF Before, payVars
<1>7. \A N2, K2, T2 : /\ NetOK(N2, I, claimed, refused)
                      /\ K2 = [ch EXCEPT ![Opener] = ch[Opener]]
                      /\ T2 = Telling(told, {}, "sent")
        => After(ch, started, claimed, K2, N2, started, claimable, claimed, refused, T2)
  BY <1>4, <1>5, <1>6, QuietStep DEF Before
<1>8. ch' = [ch EXCEPT ![Opener] = ch[Opener]]
  BY <1>1, <1>5
<1>9. After(ch, started, claimed, ch', net', started, claimable, claimed, refused, told')
  BY <1>3, <1>6, <1>7, <1>8
<1> QED BY <1>1, <1>9 DEF Stepped, payVars

\* Messages are lost, and both nodes forget what was announced but never
\* committed (remove_uncommitted_htlcs_and_mark_paused).
LEMMA DisconnectStep ==
    ASSUME NEW I, Before(I), Disconnect
    PROVE  Stepped
<1> DEFINE gone(c) == remove_uncommitted_htlcs_and_mark_paused(c)
           new(n) == IF ch[n].fate = "open" THEN gone(ch[n]) ELSE ch[n]
<1>1. /\ ch' = [n \in Nodes |-> new(n)] /\ net' = [n \in Nodes |-> <<>>]
      /\ started' = started /\ claimable' = claimable /\ claimed' = claimed
      /\ refused' = refused /\ told' = told
  BY DEF Disconnect, payVars
<1> HIDE DEF gone
<1>2. ASSUME NEW n \in Nodes
      PROVE  /\ NodeOK(n, new(n), I, started, claimable, claimed, refused)
             /\ Still(ch[n], new(n), claimed)
  <2>1. /\ NodeOK(n, ch[n], I, started, claimable, claimed, refused)
        /\ I \in [Payments -> Int] /\ IdsUnique(I) /\ claimable \in SUBSET Payments
        /\ claimed \in SUBSET Payments /\ refused \in SUBSET Payments
    BY NodeFacts DEF Before
  <2>2. /\ NodeOK(n, gone(ch[n]), I, started, claimable, claimed, refused)
        /\ Still(ch[n], gone(ch[n]), claimed)
    BY <2>1, DroppedKeeps DEF gone
  <2>3. Still(ch[n], ch[n], claimed)
    BY DEF Still
  <2> QED BY <2>1, <2>2, <2>3
<1> HIDE DEF new
<1>3. \A n \in Nodes : ch'[n] = new(n)
  BY <1>1
<1>4. \A n \in Nodes : new(n).nextId = ch[n].nextId /\ AddsIn(new(n)) = AddsIn(ch[n])
  BY <1>2 DEF Still, AddsIn, CellAdds
<1>5. ASSUME NEW K2, K2 = [n \in Nodes |-> new(n)], NEW N2, N2 = [n \in Nodes |-> <<>>]
      PROVE  After(ch, started, claimed, K2, N2, started, claimable, claimed, refused, told)
  <2>0. \A n \in Nodes : K2[n] = new(n) /\ N2[n] = <<>>
    BY <1>5
  <2>1. Decision(I, K2, N2, started, claimable, claimed, refused, told)
    <3>1. \A n \in Nodes : NodeOK(n, K2[n], I, started, claimable, claimed, refused)
      BY <1>2, <2>0
    <3>2. \A n \in Nodes : N2[n] \in Seq(Deliverable(n, I, claimed, refused))
      <4>1. SUFFICES ASSUME NEW n \in Nodes
                     PROVE  N2[n] \in Seq(Deliverable(n, I, claimed, refused))
        OBVIOUS
      <4>2. <<>> \in Seq(Deliverable(n, I, claimed, refused))
        OBVIOUS
      <4> QED BY <2>0, <4>2
    <3>3. \A p \in Payments : PayFrom[p] \in Nodes
      BY PeerFacts
    <3>4. IdsOK(I, K2, started)
      BY <1>4, <2>0, <3>3 DEF Before, Decision, IdsOK
    <3>5. ToldOK(I, K2, started, claimed, refused, told)
      BY <1>4, <2>0, <3>3 DEF Before, Decision, ToldOK
    <3>6. K2 = [n \in Nodes |-> K2[n]] /\ N2 = [n \in Nodes |-> N2[n]]
      BY <1>5
    <3> QED BY <3>1, <3>2, <3>4, <3>5, <3>6 DEF Before, Decision
  <2>2. Settles(ch, K2, claimed)
    <3>1. Opener \in Nodes /\ Peer(Opener) \in Nodes
      BY PeerFacts DEF Nodes
    <3>2. Still(ch[Opener], K2[Opener], claimed) /\ Still(ch[Peer(Opener)], K2[Peer(Opener)], claimed)
      BY <1>2, <2>0, <3>1
    <3>3. ch[Opener] \in Channel /\ K2[Opener] \in Channel
      BY <2>1, <3>1, NodeFacts DEF Before
    <3>4. Moves(ch[Opener], K2[Opener], claimed, {}, {}, {}) /\ {} \in SUBSET Payments
      BY <3>2, <3>3, StillMoves
    <3> QED BY <3>1, <3>2, <3>4 DEF Settles
  <2>3. LedgerStep(ch, K2, started, started, claimed, claimed)
    BY <2>2 DEF LedgerStep
  <2> QED BY <2>1, <2>3 DEF After
<1>6. After(ch, started, claimed, ch', net', started, claimable, claimed, refused, told)
  <2>1. \A K2, N2 : K2 = [n \in Nodes |-> new(n)] /\ N2 = [n \in Nodes |-> <<>>] =>
            After(ch, started, claimed, K2, N2, started, claimable, claimed, refused, told)
    BY <1>5
  <2> QED BY <1>1, <2>1
<1> QED BY <1>1, <1>6 DEF Stepped

-----------------------------------------------------------------------------
(* Freeing the holding cell. *)

\* What moves no further money moves what was moved before.
LEMMA MovesOn ==
    ASSUME NEW n, NEW c, NEW d, NEW e, NEW C, NEW X, NEW Y, NEW F, NEW I, NEW J, NEW S,
           Moves(c, d, C, X, Y, F), IdsGrow(n, c, d, I, J, S), SameMoney(d, e)
    PROVE  Moves(c, e, C, X, Y, F) /\ IdsGrow(n, c, e, I, J, S)
<1>1. AddsIn(e) = AddsIn(d) /\ e.nextId = d.nextId /\ e.toSelf = d.toSelf
  BY DEF SameMoney, AddsIn, CellAdds
<1>2. Pays(e.inb) = Pays(d.inb) /\ Pays(e.out) = Pays(d.out)
  BY DEF SameMoney
<1>3. Moves(c, e, C, X, Y, F)
  BY <1>1, <1>2 DEF Moves
<1>4. IdsGrow(n, c, e, I, J, S)
  BY <1>1 DEF IdsGrow
<1> QED BY <1>3, <1>4

\* The holding cell of d may have been freed into e, which gives ids J.
FreedTo(n, d, e, I, J, S, L, C, R) ==
    /\ NodeOK(n, e.c, J, S, L, C, R) /\ IdsGrow(n, d, e.c, I, J, S)
    /\ Moves(d, e.c, C, {}, {}, e.failed)
    /\ \A p \in e.failed : p \in Payments /\ J[p] = -1

\* Additions are placed in the order of the cell, or given up.
LEMMA FreedMoves ==
    ASSUME NEW n \in Nodes, NEW c, NEW e, NEW I, NEW J, NEW S, NEW L, NEW C, NEW R,
           NodeOK(n, c, I, S, L, C, R), Freed(n, c, AddsIn(c), e, I, J, S, L, C, R)
    PROVE  FreedTo(n, c, e, I, J, S, L, C, R)
<1>1. \A p \in AddsIn(c) : p \in Payments
  BY AddsWait
<1>2. NodeOK(n, e.c, J, S, L, C, R)
  BY DEF Freed
<1>3. IdsGrow(n, c, e.c, I, J, S)
  BY DEF Freed, IdsGrow
<1>4. \A p \in e.failed : p \in Payments /\ J[p] = -1
  BY <1>1 DEF Freed
<1>5. AddsIn(e.c) = {}
  BY DEF Freed, AddsIn, CellAdds, ToSet
<1>6. e.c.toSelf = c.toSelf + Worth({} \cap C) - Worth({} \cap C)
  <2>1. {} \cap C = {} /\ c.toSelf \in Int
    BY DEF NodeOK, Channel
  <2>2. Worth({} \cap C) = 0
    BY <2>1, WorthAdds
  <2> QED BY <2>1, <2>2 DEF Freed
<1>7. Moves(c, e.c, C, {}, {}, e.failed)
  BY <1>5, <1>6 DEF Moves, Freed
<1> QED BY <1>2, <1>3, <1>4, <1>7 DEF FreedTo

\* Leaving the cell alone frees nothing.
LEMMA UnfreedMoves ==
    ASSUME NEW n \in Nodes, NEW c, NEW I \in [Payments -> Int], NEW S, NEW L, NEW C, NEW R,
           NodeOK(n, c, I, S, L, C, R), IdsUnique(I),
           \A p \in Payments : I[p] # -1 =>
                I[p] >= 0 /\ p \in S /\ (PayFrom[p] = n => I[p] < c.nextId),
           NEW e, e.c = c, e.failed = {}
    PROVE  FreedTo(n, c, e, I, I, S, L, C, R)
<1>1. c \in Channel /\ Still(c, c, C)
  BY DEF NodeOK, Still
<1>2. Moves(c, c, C, {}, {}, {})
  BY <1>1, StillMoves
<1>3. IdsGrow(n, c, c, I, I, S)
  BY DEF IdsGrow
<1> QED BY <1>2, <1>3 DEF FreedTo

\* Freeing the holding cell, if the channel may, keeps the invariant of the
\* node under a ledger of ids that has the placed additions as well
\* (maybe_free_holding_cell_htlcs).
LEMMA MaybeFreeKeeps ==
    ASSUME NEW n \in Nodes, NEW c, NEW I \in [Payments -> Int], NEW S,
           NEW L \in SUBSET Payments, NEW C \in SUBSET Payments, NEW R \in SUBSET Payments,
           \A q \in L \cup C \cup R : I[q] # -1,
           NodeOK(n, c, I, S, L, C, R), IdsUnique(I),
           \A p \in Payments : I[p] # -1 =>
                I[p] >= 0 /\ p \in S /\ (PayFrom[p] = n => I[p] < c.nextId),
           NEW tight, NEW e, e = maybe_free_holding_cell_htlcs(n, c, tight)
    PROVE  /\ e \in Accs
           /\ \E J : FreedTo(n, c, e, I, J, S, L, C, R)
<1>1. CASE can_generate_new_commitment(c)
  <2>1. e = free_holding_cell_htlcs(n, c, tight)
    BY <1>1 DEF maybe_free_holding_cell_htlcs
  <2>2. /\ \E J : Freed(n, c, AddsIn(c), e, I, J, S, L, C, R)
        /\ e \in [c : Channel, failed : SUBSET Payments, did : BOOLEAN]
    <3>1. /\ n \in Nodes /\ I \in [Payments -> Int] /\ L \in SUBSET Payments
          /\ C \in SUBSET Payments /\ R \in SUBSET Payments
      OBVIOUS
    <3>2. /\ \A q \in L \cup C \cup R : I[q] # -1
          /\ NodeOK(n, c, I, S, L, C, R) /\ IdsUnique(I)
          /\ \A p \in Payments : I[p] # -1 =>
                I[p] >= 0 /\ p \in S /\ (PayFrom[p] = n => I[p] < c.nextId)
      OBVIOUS
    <3> QED BY ONLY <1>1, <2>1, <3>1, <3>2, FreeKeeps
  <2>3. PICK J : Freed(n, c, AddsIn(c), e, I, J, S, L, C, R)
    BY <2>2
  <2>4. FreedTo(n, c, e, I, J, S, L, C, R)
    BY <2>3, FreedMoves
  <2> QED BY <2>2, <2>4 DEF Accs
<1>2. CASE ~can_generate_new_commitment(c)
  <2>1. e = [c |-> c, failed |-> {}, did |-> FALSE]
    BY <1>2 DEF maybe_free_holding_cell_htlcs
  <2>2. c \in Channel /\ e.c = c /\ e.failed = {}
    BY <2>1 DEF NodeOK
  <2>3. e \in Accs
    BY <2>1, <2>2 DEF Accs
  <2>4. FreedTo(n, c, e, I, I, S, L, C, R)
    BY <2>2, UnfreedMoves
  <2> QED BY <2>3, <2>4
<1> QED BY <1>1, <1>2

\* A node that settles, places or gives up payments and tells of what it gave up.
LEMMA FreedStep ==
    ASSUME NEW I, Before(I), NEW n \in Nodes, NEW d, NEW J,
           NodeOK(n, d, J, started, claimable, claimed, refused),
           IdsGrow(n, ch[n], d, I, J, started),
           NEW X \in SUBSET Payments, NEW Y \in SUBSET Payments, NEW F \in SUBSET Payments,
           Moves(ch[n], d, claimed, X, Y, F), \A p \in F : J[p] = -1,
           NetOK(net', I, claimed, refused), Becomes(n, d), Tells(F, "failed"),
           started' = started, claimable' = claimable, claimed' = claimed, refused' = refused
    PROVE  Stepped
<1>1. NodeOK(n, ch[n], I, started, claimable, claimed, refused)
  BY NodeFacts DEF Before
<1>2. \A p \in AddsIn(ch[n]) : p \in Payments /\ p \in started /\ PayFrom[p] = n
  BY <1>1, AddsWait
<1>3. Hears(n, d, J, started, claimed, refused, F, "failed")
  BY <1>2 DEF Hears, Moves
<1>4. told' = Telling(told, F, "failed") /\ ch' = [ch EXCEPT ![n] = d]
  BY DEF Tells, Telling, Becomes
<1>5. \A N2, K2, T2 : /\ NetOK(N2, I, claimed, refused) /\ K2 = [ch EXCEPT ![n] = d]
                      /\ T2 = Telling(told, F, "failed")
        => After(ch, started, claimed, K2, N2, started, claimable, claimed, refused, T2)
  BY <1>3, NodeStep DEF Before
<1>6. After(ch, started, claimed, ch', net', started, claimable, claimed, refused, told')
  BY <1>4, <1>5
<1> QED BY <1>6 DEF Stepped

\* The manager frees a holding cell (check_free_holding_cells).
LEMMA FreeHoldingCellsStep ==
    ASSUME NEW I, Before(I), NEW n \in Nodes, FreeHoldingCells(n)
    PROVE  Stepped
<1> DEFINE c == ch[n]
<1>1. PICK tight \in SUBSET AddsIn(c) :
        /\ Becomes(n, maybe_free_holding_cell_htlcs(n, c, tight).c)
        /\ Tells(maybe_free_holding_cell_htlcs(n, c, tight).failed, "failed")
  BY DEF FreeHoldingCells
<1>2. /\ net' = net /\ started' = started /\ claimable' = claimable
      /\ claimed' = claimed /\ refused' = refused
  BY DEF FreeHoldingCells
<1> DEFINE e == maybe_free_holding_cell_htlcs(n, c, tight)
<1>3. /\ NodeOK(n, c, I, started, claimable, claimed, refused)
      /\ I \in [Payments -> Int] /\ IdsUnique(I) /\ claimable \in SUBSET Payments
      /\ claimed \in SUBSET Payments /\ refused \in SUBSET Payments
      /\ \A q \in claimable \cup claimed \cup refused : I[q] # -1
      /\ NetOK(net, I, claimed, refused)
      /\ \A p \in Payments : I[p] # -1 =>
            I[p] >= 0 /\ p \in started /\ (PayFrom[p] = n => I[p] < c.nextId)
  BY NodeFacts DEF Before
<1>4. /\ e \in Accs
      /\ \E J : FreedTo(n, c, e, I, J, started, claimable, claimed, refused)
  <2> HIDE DEF c, e
  <2>1. e = maybe_free_holding_cell_htlcs(n, c, tight) /\ n \in Nodes
    BY DEF e
  <2> QED BY ONLY <1>3, <2>1, MaybeFreeKeeps
<1>5. PICK J : FreedTo(n, c, e, I, J, started, claimable, claimed, refused)
  BY <1>4
<1> DEFINE d == e.c
           F == e.failed
<1>6. Becomes(n, d) /\ Tells(F, "failed") /\ NetOK(net', I, claimed, refused)
  BY <1>1, <1>2, <1>3
<1> HIDE DEF e
<1>7. /\ NodeOK(n, d, J, started, claimable, claimed, refused)
      /\ IdsGrow(n, ch[n], d, I, J, started) /\ Moves(ch[n], d, claimed, {}, {}, F)
      /\ \A p \in F : J[p] = -1
      /\ F \in SUBSET Payments /\ {} \in SUBSET Payments
  BY <1>5 DEF FreedTo
<1> HIDE DEF d, F
<1> QED BY <1>2, <1>6, <1>7, FreedStep

-----------------------------------------------------------------------------
(* Revocation. *)

\* Revoking and then freeing the holding cell settles what was removed.
LEMMA RevokedMoves ==
    ASSUME NEW n, NEW c, NEW d, NEW e, NEW I, NEW J, NEW S, NEW C, NEW R, NEW F,
           d.toSelf \in Int, e.toSelf \in Int,
           Revoked(c, d, C, R), Moves(d, e, C, {}, {}, F), IdsGrow(n, d, e, I, J, S)
    PROVE  /\ Moves(c, e, C, Pays(Gone(c)), Pays(Resolved(c)), F)
           /\ IdsGrow(n, c, e, I, J, S)
<1>1. AddsIn(d) = AddsIn(c) /\ d.nextId = c.nextId
  BY DEF Revoked, AddsIn, CellAdds
<1>2. e.toSelf = d.toSelf
  <2>1. {} \cap C = {}
    OBVIOUS
  <2>2. Worth({} \cap C) = 0
    BY <2>1, WorthAdds
  <2> QED BY <2>2 DEF Moves
<1>3. e.toSelf = c.toSelf + Worth(Pays(Gone(c)) \cap C) - Worth(Pays(Resolved(c)) \cap C)
  BY <1>2 DEF Revoked
<1>4. \A p \in C : p \in Pays(e.inb) <=> p \in Pays(c.inb) /\ p \notin Pays(Gone(c))
  BY DEF Moves, Revoked
<1>5. Pays(e.out) = (Pays(c.out) \ Pays(Resolved(c))) \cup ((AddsIn(c) \ AddsIn(e)) \ F)
  BY <1>1 DEF Moves, Revoked
<1>6. /\ Pays(Gone(c)) \subseteq Pays(c.inb) /\ Pays(Resolved(c)) \subseteq Pays(c.out)
      /\ AddsIn(e) \subseteq AddsIn(c) /\ F \subseteq AddsIn(c) \ AddsIn(e)
  BY <1>1 DEF Moves, Revoked
<1>7. Moves(c, e, C, Pays(Gone(c)), Pays(Resolved(c)), F)
  BY <1>3, <1>4, <1>5, <1>6 DEF Moves
<1>8. IdsGrow(n, c, e, I, J, S)
  BY <1>1 DEF IdsGrow
<1> QED BY <1>7, <1>8

\* The outcome r of freeing agrees with e on the money and on what was given up.
SameOutcome(e, r) == SameMoney(e.c, r.c) /\ r.failed = e.failed

\* Whatever revoke_and_ack signs next moves no further money.
LEMMA RevokeEnds ==
    ASSUME NEW n \in Nodes, NEW c, NEW d, d = ApplyRevocation(c), NEW tight,
           NEW e \in Accs, e = maybe_free_holding_cell_htlcs(n, d, tight),
           NEW J \in [Payments -> Int], NEW S, NEW L \in SUBSET Payments,
           NEW C \in SUBSET Payments, NEW R \in SUBSET Payments,
           NodeOK(n, e.c, J, S, L, C, R), NEW r, r = revoke_and_ack(n, c, tight)
    PROVE  NodeOK(n, r.c, J, S, L, C, R) /\ SameOutcome(e, r)
<1> DEFINE b == BuildAndPause(n, e.c)
           q == monitor_updating_paused(e.c, FALSE, FALSE)
<1>1. r = CASE e.did -> e
            [] ~e.did /\ RequireCommitment(c) -> [e EXCEPT !.c = b]
            [] ~e.did /\ ~RequireCommitment(c) -> [e EXCEPT !.c = q]
  BY DEF revoke_and_ack
<1>2. NodeOK(n, b, J, S, L, C, R) /\ SameMoney(e.c, b)
  BY BuildAndPauseKeeps
<1>3. NodeOK(n, q, J, S, L, C, R) /\ SameMoney(e.c, q)
  <2> DEFINE x == e.c
  <2>1. x \in Channel /\ NodeOK(n, x, J, S, L, C, R)
    BY DEF NodeOK
  <2>2. q \in Channel /\ SameBooks(x, q)
    BY <2>1, PausedKeeps
  <2> HIDE DEF x, q
  <2>3. NodeOK(n, q, J, S, L, C, R) /\ SameMoney(x, q)
    BY ONLY <2>1, <2>2, BooksDecide
  <2> QED BY <2>3 DEF x
<1> HIDE DEF b, q
<1>4. e = [c |-> e.c, failed |-> e.failed, did |-> e.did] /\ e.did \in BOOLEAN
  BY DEF Accs
<1>5. SameMoney(e.c, e.c)
  BY DEF SameMoney
<1>6. CASE e.did
  BY <1>1, <1>5, <1>6 DEF SameOutcome
<1>7. CASE ~e.did /\ RequireCommitment(c)
  <2>1. r = [e EXCEPT !.c = b]
    BY <1>1, <1>7
  <2>2. r.c = b /\ r.failed = e.failed
    BY <1>4, <2>1
  <2> QED BY <1>2, <2>2 DEF SameOutcome
<1>8. CASE ~e.did /\ ~RequireCommitment(c)
  <2>1. r = [e EXCEPT !.c = q]
    BY <1>1, <1>8
  <2>2. r.c = q /\ r.failed = e.failed
    BY <1>4, <2>1
  <2> QED BY <1>3, <2>2 DEF SameOutcome
<1> QED BY <1>6, <1>7, <1>8

\* The peer revokes its commitment: HTLCs move on, the resolved ones move
\* their money, and the holding cell is freed (revoke_and_ack).
LEMMA RevokeAndAckStep ==
    ASSUME NEW I, Before(I), NEW n \in Nodes, RevokeAndAck(n)
    PROVE  Stepped
<1> DEFINE c == ch[n]
           err == RevokeError(c, Head(net[n]))
<1>1. /\ Incoming(n, "raa") /\ Replies(n, <<>>)
      /\ started' = started /\ claimable' = claimable /\ claimed' = claimed
      /\ refused' = refused
  BY DEF RevokeAndAck
<1>2. /\ NodeOK(n, c, I, started, claimable, claimed, refused) /\ c \in Channel
      /\ I \in [Payments -> Int] /\ IdsUnique(I) /\ claimable \in SUBSET Payments
      /\ claimed \in SUBSET Payments /\ refused \in SUBSET Payments /\ net[n] # <<>>
      /\ <<>> \in Seq(Deliverable(Peer(n), I, claimed, refused))
  BY <1>1, IncomingFacts
<1>3. CASE err # "open"
  <2> DEFINE e == Ends(c, err)
  <2>1. Becomes(n, e) /\ told' = told
    BY <1>3 DEF RevokeAndAck
  <2>2. err \in {"open", "closed"} \cup Errors
    BY DEF RevokeError, Errors
  <2> HIDE DEF err
  <2>3. NodeOK(n, e, I, started, claimable, claimed, refused) /\ Still(ch[n], e, claimed)
    BY <1>2, <2>2, EndsStill
  <2>4. UNCHANGED payVars
    BY <1>1, <2>1 DEF payVars
  <2> HIDE DEF e
  <2> QED BY <1>1, <1>2, <2>1, <2>3, <2>4, QuietReply
<1>4. CASE err = "open"
  <2>1. PICK tight \in SUBSET AddsIn(c) :
            /\ Becomes(n, revoke_and_ack(n, c, tight).c)
            /\ Tells(revoke_and_ack(n, c, tight).failed, "failed")
    BY <1>4 DEF RevokeAndAck
  <2> DEFINE d == ApplyRevocation(c)
             e == maybe_free_holding_cell_htlcs(n, d, tight)
             r == revoke_and_ack(n, c, tight)
             f == r.c
             F == e.failed
             X == Pays(Gone(c))
             Y == Pays(Resolved(c))
  <2>2. /\ \A q \in claimable \cup claimed \cup refused : I[q] # -1
        /\ NetOK(net, I, claimed, refused) /\ claimed \cap refused = {}
        /\ \A p \in Payments : I[p] # -1 =>
                I[p] >= 0 /\ p \in started /\ (PayFrom[p] = n => I[p] < c.nextId)
    BY NodeFacts DEF Before
  <2>3. Becomes(n, f) /\ Tells(r.failed, "failed")
    BY <2>1
  <2>4. d = ApplyRevocation(c) /\ e = maybe_free_holding_cell_htlcs(n, d, tight)
        /\ r = revoke_and_ack(n, c, tight)
    OBVIOUS
  <2> HIDE DEF c, d, e, r, err
  <2>5. NodeOK(n, d, I, started, claimable, claimed, refused)
    BY <1>2, <2>4, RevokedKeeps
  <2>6. Revoked(c, d, claimed, refused)
    BY <1>2, <2>2, <2>4, RevokedMoney
  <2>7. \A p \in Payments : I[p] # -1 =>
            I[p] >= 0 /\ p \in started /\ (PayFrom[p] = n => I[p] < d.nextId)
    BY <2>2, <2>6 DEF Revoked
  <2>8. /\ e \in Accs
        /\ \E J : FreedTo(n, d, e, I, J, started, claimable, claimed, refused)
    BY <1>2, <2>2, <2>4, <2>5, <2>7, MaybeFreeKeeps
  <2>9. PICK J : FreedTo(n, d, e, I, J, started, claimable, claimed, refused)
    BY <2>8
  <2>10. /\ NodeOK(n, e.c, J, started, claimable, claimed, refused)
         /\ IdsGrow(n, d, e.c, I, J, started) /\ Moves(d, e.c, claimed, {}, {}, F)
         /\ \A p \in F : p \in Payments /\ J[p] = -1
    BY <2>9 DEF FreedTo
  <2>11. J \in [Payments -> Int] /\ d.toSelf \in Int /\ e.c.toSelf \in Int
    BY <2>5, <2>10 DEF IdsGrow, NodeOK, Channel
  <2> HIDE DEF F
  <2>12. Moves(c, e.c, claimed, X, Y, F) /\ IdsGrow(n, c, e.c, I, J, started)
    BY <2>6, <2>10, <2>11, RevokedMoves
  <2>13. /\ NodeOK(n, f, J, started, claimable, claimed, refused) /\ SameMoney(e.c, f)
         /\ r.failed = F
    <3>1. /\ n \in Nodes /\ e \in Accs /\ J \in [Payments -> Int]
          /\ claimable \in SUBSET Payments
          /\ claimed \in SUBSET Payments /\ refused \in SUBSET Payments
          /\ NodeOK(n, e.c, J, started, claimable, claimed, refused)
      BY <1>2, <2>8, <2>10, <2>11
    <3>2. /\ NodeOK(n, r.c, J, started, claimable, claimed, refused)
          /\ SameOutcome(e, r)
      BY ONLY <2>4, <3>1, RevokeEnds
    <3> QED BY <3>2 DEF F, SameOutcome
  <2>14. X \in SUBSET Payments /\ Y \in SUBSET Payments
    <3>1. X \subseteq Pays(c.inb) /\ Y \subseteq Pays(c.out)
      BY <2>6 DEF Revoked
    <3> QED BY <1>2, <3>1, PaysPlaced
  <2> HIDE DEF f, X, Y
  <2>15. Moves(c, f, claimed, X, Y, F) /\ IdsGrow(n, c, f, I, J, started)
    BY <2>12, <2>13, MovesOn
  <2>16. NetOK(net', I, claimed, refused)
    BY <1>1, <1>2, <2>2, NetSends DEF Replies
  <2>17. F \in SUBSET Payments /\ (\A p \in F : J[p] = -1) /\ Tells(F, "failed")
    BY <2>3, <2>10, <2>13
  <2>18. Moves(ch[n], f, claimed, X, Y, F) /\ IdsGrow(n, ch[n], f, I, J, started)
    BY <2>15 DEF c
  <2> QED BY <1>1, <2>3, <2>13, <2>14, <2>16, <2>17, <2>18, FreedStep
<1> QED BY <1>3, <1>4

-----------------------------------------------------------------------------
(* Steps that change what was started or decided. *)

\* The payments that wait are worth what the additions in the cell are.
LEMMA CellAddsFacts ==
    ASSUME NEW c \in Channel
    PROVE  /\ IsFiniteSet(CellAdds(c)) /\ IsFiniteSet(AddsIn(c))
           /\ \A u \in CellAdds(c) : u.pay \in Payments
           /\ SumAmounts(CellAdds(c)) = Worth(AddsIn(c))
<1> DEFINE A == CellAdds(c)
           s == c.cell
           D == 1 .. Len(s)
<1>1. s \in Seq(Updates)
  BY DEF Channel
<1>2. IsFiniteSet(D)
  BY <1>1, FS_Interval
<1>3. ToSet(s) = {s[i] : i \in D}
  BY <1>1 DEF ToSet
<1>4. \A i \in D : s[i] \in Updates
  BY <1>1
<1> HIDE DEF D, s
<1>5. IsFiniteSet(ToSet(s))
  BY <1>2, <1>3, ImageFinite
<1>6. \A u \in A : u \in ToSet(s) /\ u \in Updates /\ u.op = "add"
  BY <1>3, <1>4 DEF CellAdds, s
<1>7. IsFiniteSet(A)
  <2>1. A \subseteq ToSet(s)
    BY <1>6
  <2> QED BY <1>5, <2>1, FS_Subset
<1>8. \A u \in A : u \in [op : {"add"}, pay : Payments]
  BY <1>6 DEF Updates
<1> HIDE DEF A
<1>9. (\A u \in A : u.pay \in Payments) /\ \A u, v \in A : u.pay = v.pay => u = v
  BY <1>8
<1>10. AddsIn(c) = {u.pay : u \in A}
  BY DEF AddsIn, A
<1>11. SumAmounts(A) = Worth({u.pay : u \in A})
  BY <1>7, <1>9, SumAmountsIsWorth
<1>12. IsFiniteSet(AddsIn(c))
  <2> DEFINE r == [u \in A |-> u.pay]
  <2>1. AddsIn(c) = {r[u] : u \in A}
    BY <1>10
  <2> HIDE DEF r
  <2> QED BY <1>7, <2>1, ImageFinite
<1> QED BY <1>7, <1>9, <1>10, <1>11, <1>12 DEF A

\* What a node can offer: its balance without what it has offered already.
LEMMA AvailableIs ==
    ASSUME NEW n \in Nodes, NEW c, NEW I, NEW S, NEW L, NEW C, NEW R,
           NodeOK(n, c, I, S, L, C, R)
    PROVE  /\ AvailableRgb(c) = c.toSelf - Worth(Pays(c.out)) - Worth(AddsIn(c))
           /\ AvailableRgb(c) \in Int
<1>1. c \in Channel /\ c.toSelf \in Int /\ IsFiniteSet(Pays(c.out))
      /\ \A p \in Pays(c.out) : p \in Payments
  BY PaysPlaced
<1>2. /\ IsFiniteSet(AddsIn(c)) /\ AddsIn(c) \subseteq Payments
      /\ SumAmounts(CellAdds(c)) = Worth(AddsIn(c))
  BY <1>1, CellAddsFacts DEF AddsIn
<1>3. SumAmounts(c.out) = Worth(Pays(c.out))
  <2>1. /\ IsFiniteSet(c.out) /\ \A h \in c.out : h.pay \in Payments
        /\ \A g, h \in c.out : g.pay = h.pay => g = h
    BY <1>1 DEF NodeOK, OutOK, Pays
  <2>2. SumAmounts(c.out) = Worth({h.pay : h \in c.out})
    BY <2>1, SumAmountsIsWorth
  <2> QED BY <2>2 DEF Pays
<1>4. Worth(Pays(c.out)) \in Int /\ Worth(AddsIn(c)) \in Int
  BY <1>1, <1>2, WorthAdds
<1> QED BY <1>1, <1>2, <1>3, <1>4 DEF AvailableRgb

\* The two channels have the same money, free and under way.
SameLedger(c, d) ==
    /\ d.toSelf = c.toSelf /\ d.nextId = c.nextId /\ AddsIn(d) = AddsIn(c)
    /\ Pays(d.inb) = Pays(c.inb) /\ Pays(d.out) = Pays(c.out)

\* A node with the same ledger moves nothing.
LEMMA LedgerMoves ==
    ASSUME NEW c \in Channel, NEW d, NEW C, SameLedger(c, d)
    PROVE  Moves(c, d, C, {}, {}, {})
<1>1. {} \cap C = {} /\ c.toSelf \in Int
  BY DEF Channel
<1>2. Worth({} \cap C) = 0
  BY <1>1, WorthAdds
<1>3. d.toSelf = c.toSelf + Worth({} \cap C) - Worth({} \cap C)
  BY <1>1, <1>2 DEF SameLedger
<1> QED BY <1>3 DEF SameLedger, Moves

\* d is c with one more update in its holding cell.
Appended(c, d, u) ==
    /\ d.toSelf = c.toSelf /\ d.nextId = c.nextId
    /\ Pays(d.inb) = Pays(c.inb) /\ Pays(d.out) = Pays(c.out)
    /\ AddsIn(d) = IF u.op = "add" THEN AddsIn(c) \cup {u.pay} ELSE AddsIn(c)

\* An update that is put into the holding cell keeps the node's invariant.
LEMMA AppendKeeps ==
    ASSUME NEW n \in Nodes, NEW c, NEW I, NEW S, NEW L, NEW C, NEW R,
           NodeOK(n, c, I, S, L, C, R),
           NEW u \in Waiting(n, I, S, C, R), u.op = "add" => u.pay \notin AddsIn(c),
           NEW d, d = [c EXCEPT !.cell = Append(@, u)]
    PROVE  NodeOK(n, d, I, S, L, C, R) /\ Appended(c, d, u)
<1> DEFINE s == Append(c.cell, u)
           W == Waiting(n, I, S, C, R)
<1>1. c \in Channel /\ c.cell \in Seq(W) /\ u \in W
      /\ \A i, j \in 1 .. Len(c.cell) : c.cell[i] = c.cell[j] /\ c.cell[i].op = "add" => i = j
  BY DEF NodeOK, CellOK
<1>2. W \subseteq Updates
  BY DEF Waiting
<1> HIDE DEF W
<1>3. /\ s \in Seq(W) /\ Len(s) = Len(c.cell) + 1 /\ Len(c.cell) \in Nat
      /\ s[Len(c.cell) + 1] = u /\ \A i \in 1 .. Len(c.cell) : s[i] = c.cell[i]
  BY <1>1
<1>4. s \in Seq(Updates)
  BY <1>2, <1>3
<1>5. DOMAIN s = 1 .. Len(c.cell) + 1 /\ DOMAIN c.cell = 1 .. Len(c.cell)
  BY <1>1, <1>3
<1> HIDE DEF s
<1>6. ToSet(s) = ToSet(c.cell) \cup {u}
  <2>1. ToSet(s) = {s[i] : i \in 1 .. Len(c.cell) + 1}
        /\ ToSet(c.cell) = {c.cell[i] : i \in 1 .. Len(c.cell)}
    BY <1>5 DEF ToSet
  <2>2. \A i \in 1 .. Len(c.cell) + 1 : i \in 1 .. Len(c.cell) \/ i = Len(c.cell) + 1
    BY <1>3
  <2>3. Len(c.cell) + 1 \in 1 .. Len(c.cell) + 1
        /\ \A i \in 1 .. Len(c.cell) : i \in 1 .. Len(c.cell) + 1
    BY <1>3
  <2> QED BY <1>3, <2>1, <2>2, <2>3
<1>7. /\ d \in Channel /\ d.cell = s
      /\ d.inb = c.inb /\ d.out = c.out /\ d.toSelf = c.toSelf /\ d.nextId = c.nextId
      /\ d.nextCpId = c.nextCpId /\ d.pendAdds = c.pendAdds /\ d.pendFails = c.pendFails
  <2>1. d = [c EXCEPT !.cell = s]
    BY DEF s
  <2> QED BY ONLY <1>1, <1>4, <2>1 DEF Channel
<1>8. OutOK(n, d, I, C, R) /\ InOK(n, d, I, L, C, R)
  BY <1>7 DEF NodeOK, OutOK, InOK
<1>9. \E k \in Nat : SeenOK(n, d, I, L, C, R, k)
  <2>1. PICK k \in Nat : SeenOK(n, c, I, L, C, R, k)
    BY DEF NodeOK
  <2>2. SeenOK(n, d, I, L, C, R, k)
    BY <1>7, <2>1 DEF SeenOK
  <2> QED BY <2>2
<1>10. ASSUME u.op = "add" PROVE \A i \in 1 .. Len(c.cell) : c.cell[i] # u
  BY <1>5, <1>10 DEF AddsIn, CellAdds, ToSet
<1>11. CellOK(n, d.cell, I, S, C, R)
  <2>1. ASSUME NEW i \in 1 .. Len(s), NEW j \in 1 .. Len(s), s[i] = s[j], s[i].op = "add"
        PROVE  i = j
    <3>1. (i \in 1 .. Len(c.cell) \/ i = Len(c.cell) + 1)
          /\ (j \in 1 .. Len(c.cell) \/ j = Len(c.cell) + 1)
      BY <1>3
    <3>2. CASE i \in 1 .. Len(c.cell) /\ j \in 1 .. Len(c.cell)
      BY <1>1, <1>3, <2>1, <3>2
    <3>3. CASE i = Len(c.cell) + 1 /\ j \in 1 .. Len(c.cell)
      BY <1>3, <1>10, <2>1, <3>3
    <3>4. CASE j = Len(c.cell) + 1 /\ i \in 1 .. Len(c.cell)
      BY <1>3, <1>10, <2>1, <3>4
    <3> QED BY <3>1, <3>2, <3>3, <3>4
  <2>2. s \in Seq(Waiting(n, I, S, C, R))
    BY <1>3 DEF W
  <2>3. CellOK(n, s, I, S, C, R)
    BY ONLY <2>1, <2>2 DEF CellOK
  <2> QED BY <1>7, <2>3
<1>12. AddsIn(d) = IF u.op = "add" THEN AddsIn(c) \cup {u.pay} ELSE AddsIn(c)
  BY <1>6, <1>7 DEF AddsIn, CellAdds
<1> QED BY <1>7, <1>8, <1>9, <1>11, <1>12 DEF NodeOK, Appended

\* The ids J after a step of n that started, handed on or decided payments.
Decides(n, c, d, I, J, S, S2, L, L2, C, C2, R, R2) ==
    /\ J \in [Payments -> Int] /\ IdsUnique(J)
    /\ \A p \in Payments : I[p] # -1 \/ PayFrom[p] # n => J[p] = I[p]
    /\ \A p \in Payments : J[p] # -1 =>
            J[p] >= 0 /\ p \in S2 /\ (PayFrom[p] = n => J[p] < d.nextId)
    /\ S \subseteq S2 /\ S2 \subseteq Payments /\ IsFiniteSet(S2)
    /\ DecidedOK(J, L2, C2, R2) /\ C \subseteq C2 /\ R \subseteq R2
    /\ \A p \in Payments : PayFrom[p] = n => (p \in L2 \cup C2 \cup R2 <=> p \in L \cup C \cup R)
    /\ \A p \in S : PayFrom[p] = n /\ I[p] = -1 /\ p \notin AddsIn(c)
            => J[p] = -1 /\ p \notin AddsIn(d)

\* Such a step keeps the invariant of both nodes.
LEMMA DecidesStep ==
    ASSUME NEW I, NEW K, NEW N, NEW S, NEW L, NEW C, NEW R, NEW T,
           Decision(I, K, N, S, L, C, R, T), NEW n \in Nodes, NEW d, NEW J,
           NEW S2, NEW L2, NEW C2, NEW R2, NodeOK(n, d, J, S2, L2, C2, R2),
           Decides(n, K[n], d, I, J, S, S2, L, L2, C, C2, R, R2),
           NEW N2, NetOK(N2, I, C, R),
           NEW G, NEW o, Hears(n, d, J, S2, C2, R2, G, o), NEW T2, T2 = Telling(T, G, o),
           NEW K2, K2 = [K EXCEPT ![n] = d]
    PROVE  Decision(J, K2, N2, S2, L2, C2, R2, T2)
<1> DEFINE m == Peer(n)
<1>1. /\ m \in Nodes /\ m # n /\ \A x \in Nodes : x = n \/ x = m
      /\ \A p \in Payments : PayFrom[p] \in Nodes
      /\ \A p \in Payments : PayTo(p) = m <=> PayFrom[p] = n
  BY PeerFacts
<1>2. K2[n] = d /\ K2[m] = K[m] /\ K2 = [x \in Nodes |-> K2[x]]
  BY <1>1 DEF Decision
<1>3. /\ IdsOK(I, K, S) /\ DecidedOK(I, L, C, R) /\ NodeOK(m, K[m], I, S, L, C, R)
      /\ ToldOK(I, K, S, C, R, T)
  BY <1>1 DEF Decision
<1>4. /\ I \in [Payments -> Int] /\ J \in [Payments -> Int]
      /\ L \in SUBSET Payments /\ C \in SUBSET Payments /\ R \in SUBSET Payments
      /\ L2 \in SUBSET Payments /\ C2 \in SUBSET Payments /\ R2 \in SUBSET Payments
      /\ C \subseteq C2 /\ R \subseteq R2 /\ S \subseteq S2
  BY <1>3 DEF IdsOK, DecidedOK, Decides
<1>5. \A p \in Payments : I[p] # -1 \/ PayFrom[p] # n => J[p] = I[p]
  BY DEF Decides
<1> HIDE DEF m
<1>6. NodeOK(m, K[m], J, S2, L2, C2, R2)
  <2>1. \A p \in Payments : I[p] # -1 \/ PayFrom[p] = m => J[p] = I[p]
    BY <1>1, <1>5
  <2>2. \A p \in L \cup C \cup R : I[p] # -1
    BY <1>3 DEF DecidedOK
  <2>3. \A p \in Payments : PayTo(p) = m =>
            (p \in L2 \cup C2 \cup R2 <=> p \in L \cup C \cup R)
    BY <1>1 DEF Decides
  <2> QED BY <1>1, <1>3, <1>4, <2>1, <2>2, <2>3, OthersKeep
<1>7. IdsOK(J, K2, S2)
  <2>1. ASSUME NEW p \in Payments, J[p] # -1
        PROVE  J[p] >= 0 /\ p \in S2 /\ J[p] < K2[PayFrom[p]].nextId
    <3>1. CASE PayFrom[p] = n
      BY <1>2, <2>1, <3>1 DEF Decides
    <3>2. CASE PayFrom[p] # n
      <4>1. J[p] = I[p] /\ PayFrom[p] = m
        BY <1>1, <1>5, <3>2
      <4> QED BY <1>2, <1>3, <1>4, <2>1, <4>1 DEF IdsOK
    <3> QED BY <3>1, <3>2
  <2> QED BY <1>4, <2>1 DEF IdsOK, Decides, IdsUnique
<1>8. \A x \in Nodes : N2[x] \in Seq(Deliverable(x, J, C2, R2))
  <2>1. SUFFICES ASSUME NEW x \in Nodes PROVE N2[x] \in Seq(Deliverable(x, J, C2, R2))
    OBVIOUS
  <2>2. Seq(Deliverable(x, I, C, R)) \subseteq Seq(Deliverable(x, J, C2, R2))
    BY <1>4, <1>5, OthersDeliver
  <2> QED BY <2>2 DEF NetOK
<1>9. ToldOK(J, K2, S2, C2, R2, T2)
  <2>1. T2 \in [Payments -> SUBSET {"sent", "failed"}]
    BY <1>3 DEF ToldOK, Telling, Hears
  <2>2. ASSUME NEW p \in Payments, "sent" \in T2[p] PROVE p \in C2
    BY <1>3, <1>4, <2>2 DEF ToldOK, Telling, Hears
  <2>3. ASSUME NEW p \in Payments, "failed" \in T2[p]
        PROVE  \/ p \in R2
               \/ p \in S2 /\ J[p] = -1 /\ p \notin AddsIn(K2[PayFrom[p]])
    <3>1. CASE p \in G /\ o = "failed"
      BY <1>2, <3>1 DEF Hears
    <3>2. CASE "failed" \in T[p]
      <4>1. CASE p \in S /\ I[p] = -1 /\ p \notin AddsIn(K[PayFrom[p]])
        <5>1. CASE PayFrom[p] = n
          BY <1>2, <1>4, <4>1, <5>1 DEF Decides
        <5>2. CASE PayFrom[p] # n
          <6>1. PayFrom[p] = m /\ J[p] = I[p]
            BY <1>1, <1>5, <5>2
          <6> QED BY <1>2, <1>4, <4>1, <6>1
        <5> QED BY <5>1, <5>2
      <4> QED BY <1>3, <1>4, <3>2, <4>1 DEF ToldOK
    <3> QED BY <2>3, <3>1, <3>2 DEF Telling
  <2> QED BY <2>1, <2>2, <2>3 DEF ToldOK
<1>10. \A x \in Nodes : NodeOK(x, K2[x], J, S2, L2, C2, R2)
  BY <1>1, <1>2, <1>6
<1> QED BY <1>2, <1>7, <1>8, <1>9, <1>10 DEF Decision, NetOK, Decides

\* The updates that were held back leave, and what arrived is handed on.
LEMMA RestoredKeeps ==
    ASSUME NEW n \in Nodes, NEW c, NEW I, NEW S, NEW L, NEW C, NEW R,
           NodeOK(n, c, I, S, L, C, R),
           NEW d, d = [c EXCEPT !.monBusy = FALSE, !.pendRaa = FALSE,
                                !.pendCs = FALSE, !.pendAdds = {}, !.pendFails = {}]
    PROVE  NodeOK(n, d, I, S, L \cup c.pendAdds, C, R) /\ Still(c, d, C)
<1>1. c \in Channel
  BY DEF NodeOK
<1>2. /\ d \in Channel /\ d.cell = c.cell
      /\ d.inb = c.inb /\ d.out = c.out /\ d.toSelf = c.toSelf /\ d.nextId = c.nextId
      /\ d.nextCpId = c.nextCpId /\ d.pendAdds = {} /\ d.pendFails = {}
  <2> DEFINE e == [c EXCEPT !.monBusy = FALSE, !.pendRaa = FALSE, !.pendCs = FALSE]
  <2>1. e \in Channel /\ SameBooks(c, e)
    BY ONLY <1>1 DEF Channel, SameBooks
  <2>2. d = [e EXCEPT !.pendAdds = {}, !.pendFails = {}]
    BY <1>1 DEF Channel
  <2>3. {} \in SUBSET Payments
    OBVIOUS
  <2> HIDE DEF e
  <2> QED BY ONLY <2>1, <2>2, <2>3 DEF Channel, SameBooks
<1>3. OutOK(n, d, I, C, R)
  BY <1>2 DEF NodeOK, OutOK
<1>4. InOK(n, d, I, L \cup c.pendAdds, C, R)
  BY <1>2 DEF NodeOK, InOK
<1>5. \E k \in Nat : SeenOK(n, d, I, L \cup c.pendAdds, C, R, k)
  <2>1. PICK k \in Nat : SeenOK(n, c, I, L, C, R, k)
    BY DEF NodeOK
  <2>2. SeenOK(n, d, I, L \cup c.pendAdds, C, R, k)
    BY <1>2, <2>1 DEF SeenOK
  <2> QED BY <2>2
<1>6. NodeOK(n, d, I, S, L \cup c.pendAdds, C, R)
  BY <1>2, <1>3, <1>4, <1>5 DEF NodeOK
<1> QED BY <1>2, <1>6 DEF Still

\* monitor_updating_restored
LEMMA MonitorRestoredStep ==
    ASSUME NEW I, Before(I), NEW n \in Nodes, MonitorRestored(n)
    PROVE  Stepped
<1> DEFINE c == ch[n]
           d == [c EXCEPT !.monBusy = FALSE, !.pendRaa = FALSE,
                          !.pendCs = FALSE, !.pendAdds = {}, !.pendFails = {}]
           msgs == IF c.disc THEN <<>> ELSE Resumption(n, c, c.pendRaa, c.pendCs)
           L2 == claimable \cup c.pendAdds
           G == c.pendFails
<1>1. /\ Becomes(n, d) /\ Sends(n, msgs) /\ Tells(G, "failed") /\ claimable' = L2
      /\ started' = started /\ claimed' = claimed /\ refused' = refused
  BY DEF MonitorRestored
<1>2. /\ NodeOK(n, c, I, started, claimable, claimed, refused) /\ c \in Channel
      /\ I \in [Payments -> Int] /\ IdsUnique(I) /\ claimable \in SUBSET Payments
      /\ claimed \in SUBSET Payments /\ refused \in SUBSET Payments
      /\ started \subseteq Payments /\ IsFiniteSet(started)
      /\ NetOK(net, I, claimed, refused)
      /\ \A p \in Payments : I[p] # -1 =>
            I[p] >= 0 /\ p \in started /\ (PayFrom[p] = n => I[p] < c.nextId)
  BY NodeFacts DEF Before
<1>3. DecidedOK(I, claimable, claimed, refused)
  BY DEF Before, Decision
<1>4. d = [c EXCEPT !.monBusy = FALSE, !.pendRaa = FALSE,
                    !.pendCs = FALSE, !.pendAdds = {}, !.pendFails = {}]
  OBVIOUS
<1>5. ch' = [ch EXCEPT ![n] = d] /\ told' = Telling(told, G, "failed")
  BY <1>1 DEF Becomes, Tells, Telling
<1>6. msgs \in Seq(Deliverable(Peer(n), I, claimed, refused))
  <2>1. <<>> \in Seq(Deliverable(Peer(n), I, claimed, refused))
    OBVIOUS
  <2> HIDE DEF c
  <2>2. Resumption(n, c, c.pendRaa, c.pendCs) \in Seq(Deliverable(Peer(n), I, claimed, refused))
    BY <1>2, ResumptionDeliverable
  <2> QED BY <2>1, <2>2
<1> HIDE DEF msgs
<1>7. NetOK(net', I, claimed, refused)
  BY <1>1, <1>2, <1>6, NetSends DEF Sends
<1> HIDE DEF c, d
<1>8. NodeOK(n, d, I, started, L2, claimed, refused) /\ Still(c, d, claimed)
  BY <1>2, <1>4, RestoredKeeps
<1>9. Decides(n, c, d, I, I, started, started, claimable, L2, claimed, claimed, refused, refused)
  <2>1. \A p \in c.pendAdds : /\ p \in Payments /\ PayTo(p) = n /\ I[p] # -1
                              /\ p \notin claimable \cup claimed \cup refused
    BY <1>2 DEF NodeOK, InOK, Channel
  <2>2. DecidedOK(I, L2, claimed, refused)
    BY <1>3, <2>1 DEF DecidedOK
  <2>3. \A p \in Payments : PayTo(p) = n <=> PayFrom[p] # n
    BY PeerFacts
  <2>4. d.nextId = c.nextId /\ AddsIn(d) = AddsIn(c)
    BY <1>8 DEF Still, AddsIn, CellAdds
  <2> QED BY <1>2, <2>1, <2>2, <2>3, <2>4 DEF Decides
<1>10. Hears(n, d, I, started, claimed, refused, G, "failed")
  BY <1>2 DEF Hears, NodeOK, OutOK
<1> HIDE DEF L2, G
<1>11. \A N2, K2, T2 : /\ NetOK(N2, I, claimed, refused) /\ K2 = [ch EXCEPT ![n] = d]
                       /\ T2 = Telling(told, G, "failed")
        => After(ch, started, claimed, K2, N2, started, L2, claimed, refused, T2)
  <2> SUFFICES ASSUME NEW N2, NEW K2, NEW T2, NetOK(N2, I, claimed, refused),
                      K2 = [ch EXCEPT ![n] = d], T2 = Telling(told, G, "failed")
               PROVE  After(ch, started, claimed, K2, N2, started, L2, claimed, refused, T2)
    OBVIOUS
  <2>1. Decision(I, K2, N2, started, L2, claimed, refused, T2)
    <3>1. /\ Decision(I, ch, net, started, claimable, claimed, refused, told)
          /\ Decides(n, ch[n], d, I, I, started, started, claimable, L2,
                     claimed, claimed, refused, refused)
      BY <1>9 DEF Before, c
    <3> QED BY <1>8, <1>10, <3>1, DecidesStep
  <2>2. LedgerStep(ch, K2, started, started, claimed, claimed)
    <3>1. Peer(n) \in Nodes /\ Peer(n) # n
      BY PeerFacts
    <3>2. K2[n] = d /\ K2[Peer(n)] = ch[Peer(n)]
      BY <3>1 DEF Before, Decision
    <3>3. Moves(ch[n], d, claimed, {}, {}, {}) /\ {} \in SUBSET Payments
      <4>1. d \in Channel
        BY <1>8 DEF NodeOK
      <4>2. Moves(c, d, claimed, {}, {}, {})
        BY <1>2, <1>8, <4>1, StillMoves
      <4> QED BY <4>2 DEF c
    <3>4. Still(ch[Peer(n)], K2[Peer(n)], claimed)
      BY <3>2 DEF Still
    <3>5. Settles(ch, K2, claimed)
      BY <3>2, <3>3, <3>4 DEF Settles
    <3> QED BY <3>5 DEF LedgerStep
  <2> QED BY <2>1, <2>2 DEF After
<1>12. After(ch, started, claimed, ch', net', started, L2, claimed, refused, told')
  BY <1>5, <1>7, <1>11
<1> QED BY <1>1, <1>12 DEF Stepped

-----------------------------------------------------------------------------
(* The user's calls. *)

\* The nodes after a step of n.
LEMMA PeerStays ==
    ASSUME NEW I, Before(I), NEW n \in Nodes, NEW d, NEW K2, K2 = [ch EXCEPT ![n] = d]
    PROVE  /\ K2[n] = d /\ K2[Peer(n)] = ch[Peer(n)] /\ Peer(n) \in Nodes /\ Peer(n) # n
           /\ \A C : Still(ch[Peer(n)], K2[Peer(n)], C)
           /\ \A x \in Nodes : x = n \/ x = Peer(n)
<1>1. Peer(n) \in Nodes /\ Peer(n) # n /\ \A x \in Nodes : x = n \/ x = Peer(n)
  BY PeerFacts
<1>2. K2[n] = d /\ K2[Peer(n)] = ch[Peer(n)]
  BY <1>1 DEF Before, Decision
<1> QED BY <1>1, <1>2 DEF Still

\* The payee decides: claimable payments become claimed or refused.
LEMMA DecidedNow ==
    ASSUME NEW I, NEW L, NEW C, NEW R, NEW L2, NEW C2, NEW R2, NEW p \in L,
           DecidedOK(I, L, C, R), L2 = L \ {p},
           \/ C2 = C \cup {p} /\ R2 = R
           \/ C2 = C /\ R2 = R \cup {p}
    PROVE  /\ DecidedOK(I, L2, C2, R2) /\ C \subseteq C2 /\ R \subseteq R2
           /\ \A q \in Payments : q \in L2 \cup C2 \cup R2 <=> q \in L \cup C \cup R
           /\ p \in Payments /\ I[p] # -1 /\ p \notin C \cup R
  BY DEF DecidedOK

\* The node's invariant does not mind which of the two it is.
LEMMA DecidedKeeps ==
    ASSUME NEW n \in Nodes, NEW c, NEW I \in [Payments -> Int], NEW S, NEW L, NEW C, NEW R,
           NodeOK(n, c, I, S, L, C, R), DecidedOK(I, L, C, R),
           NEW L2, NEW C2, NEW R2, DecidedOK(I, L2, C2, R2), C \subseteq C2, R \subseteq R2,
           \A q \in Payments : q \in L2 \cup C2 \cup R2 <=> q \in L \cup C \cup R
    PROVE  NodeOK(n, c, I, S, L2, C2, R2)
<1>1. /\ L \in SUBSET Payments /\ C \in SUBSET Payments /\ R \in SUBSET Payments
      /\ L2 \in SUBSET Payments /\ C2 \in SUBSET Payments /\ R2 \in SUBSET Payments
      /\ \A q \in L \cup C \cup R : I[q] # -1
  BY DEF DecidedOK
<1>2. /\ \A q \in Payments : I[q] # -1 \/ PayFrom[q] = n => I[q] = I[q]
      /\ \A q \in Payments : PayTo(q) = n =>
            (q \in L2 \cup C2 \cup R2 <=> q \in L \cup C \cup R)
      /\ S \subseteq S
  OBVIOUS
<1> QED BY <1>1, <1>2, OthersKeep

\* claim_funds and fail_htlc_backwards: what the decision does to the node.
LEMMA DecideStep ==
    ASSUME NEW I, Before(I), NEW n \in Nodes, NEW p \in claimable, PayTo(p) = n,
           NEW L2, NEW C2, NEW R2, L2 = claimable \ {p},
           \/ C2 = claimed \cup {p} /\ R2 = refused
           \/ C2 = claimed /\ R2 = refused \cup {p},
           NEW d, NodeOK(n, d, I, started, L2, C2, R2), SameLedger(ch[n], d),
           p \in Pays(ch[n].inb), NEW K2, K2 = [ch EXCEPT ![n] = d]
    PROVE  After(ch, started, claimed, K2, net, started, L2, C2, R2, told)
<1>1. /\ NodeOK(n, ch[n], I, started, claimable, claimed, refused) /\ ch[n] \in Channel
      /\ I \in [Payments -> Int] /\ IdsUnique(I)
      /\ started \subseteq Payments /\ IsFiniteSet(started)
      /\ NetOK(net, I, claimed, refused)
      /\ \A q \in Payments : I[q] # -1 =>
            I[q] >= 0 /\ q \in started /\ (PayFrom[q] = n => I[q] < ch[n].nextId)
  BY NodeFacts DEF Before
<1>2. DecidedOK(I, claimable, claimed, refused)
  BY DEF Before, Decision
<1>3. /\ DecidedOK(I, L2, C2, R2) /\ claimed \subseteq C2 /\ refused \subseteq R2
      /\ \A q \in Payments : q \in L2 \cup C2 \cup R2
                             <=> q \in claimable \cup claimed \cup refused
      /\ p \in Payments /\ I[p] # -1 /\ p \notin claimed \cup refused
  BY <1>2, DecidedNow
<1>4. Decides(n, ch[n], d, I, I, started, started, claimable, L2, claimed, C2, refused, R2)
  BY <1>1, <1>3 DEF Decides, SameLedger
<1>5. Hears(n, d, I, started, C2, R2, {}, "sent") /\ told = Telling(told, {}, "sent")
  BY NobodyHears DEF Before, Hears
<1>6. Decision(I, K2, net, started, L2, C2, R2, told)
  <2>1. /\ Decision(I, ch, net, started, claimable, claimed, refused, told) /\ n \in Nodes
        /\ NodeOK(n, d, I, started, L2, C2, R2) /\ K2 = [ch EXCEPT ![n] = d]
    BY DEF Before
  <2>2. \A T2 : T2 = Telling(told, {}, "sent") =>
            Decision(I, K2, net, started, L2, C2, R2, T2)
    BY ONLY <1>1, <1>4, <1>5, <2>1, DecidesStep
  <2> QED BY <1>5, <2>2
<1>7. /\ K2[n] = d /\ K2[Peer(n)] = ch[Peer(n)] /\ Peer(n) \in Nodes
      /\ Still(ch[Peer(n)], K2[Peer(n)], claimed) /\ Still(ch[Peer(n)], K2[Peer(n)], C2)
      /\ \A x \in Nodes : x = n \/ x = Peer(n)
  BY PeerStays
<1>8. Moves(ch[n], d, claimed, {}, {}, {}) /\ Moves(ch[n], d, C2, {}, {}, {})
  BY <1>1, LedgerMoves
<1>9. LedgerStep(ch, K2, started, started, claimed, C2)
  <2>1. CASE C2 = claimed
    <3>1. {} \in SUBSET Payments /\ n \in Nodes
      OBVIOUS
    <3>2. Settles(ch, K2, claimed)
      BY ONLY <1>7, <1>8, <3>1 DEF Settles
    <3> QED BY <2>1, <3>2 DEF LedgerStep
  <2>2. CASE C2 = claimed \cup {p}
    <3>1. PayFrom[p] = Peer(n)
      BY <1>3, PeerFacts
    <3>2. NodeOK(Peer(n), ch[Peer(n)], I, started, claimable, claimed, refused)
          /\ ch[Peer(n)] \in Channel
      BY <1>7, NodeFacts DEF Before
    <3>3. p \in Pays(ch[Peer(n)].out)
      BY <1>3, <3>1, <3>2 DEF NodeOK, OutOK, Pays
    <3>4. Moves(ch[Peer(n)], K2[Peer(n)], C2, {}, {}, {})
      BY <1>7, <3>2, StillMoves
    <3>5. \A x \in Nodes : Moves(ch[x], K2[x], C2, {}, {}, {})
      BY <1>7, <1>8, <3>4
    <3>6. Claims(ch, K2, claimed, C2)
      BY <1>3, <2>2, <3>1, <3>3, <3>5 DEF Claims
    <3> QED BY <3>6 DEF LedgerStep
  <2> QED BY <2>1, <2>2
<1> QED BY <1>6, <1>9 DEF After

\* The payee's user claims a payment (claim_funds, get_update_fulfill_htlc).
LEMMA ClaimFundsStep ==
    ASSUME NEW I, Before(I), NEW n \in Nodes, NEW p \in Payments, ClaimFunds(n, p)
    PROVE  Stepped
<1> DEFINE c == ch[n]
           L2 == claimable \ {p}
           C2 == claimed \cup {p}
<1>1. /\ PayTo(p) = n /\ p \in claimable
      /\ claimable' = L2 /\ claimed' = C2
      /\ net' = net /\ started' = started /\ refused' = refused /\ told' = told
  BY DEF ClaimFunds
<1>2. PICK h \in c.inb : h.pay = p /\
        IF can_generate_new_commitment(c)
        THEN Becomes(n, BuildAndPause(n, LocalRemove(c, h.id, "fulfil")))
        ELSE Becomes(n, monitor_updating_paused(
                [c EXCEPT !.cell = Append(@, [op |-> "claim", id |-> h.id])], FALSE, FALSE))
  BY DEF ClaimFunds
<1> DEFINE u == [op |-> "claim", id |-> h.id]
           a == LocalRemove(c, h.id, "fulfil")
           b == [c EXCEPT !.cell = Append(@, u)]
           d == IF can_generate_new_commitment(c) THEN BuildAndPause(n, a)
                ELSE monitor_updating_paused(b, FALSE, FALSE)
<1>3. ch' = [ch EXCEPT ![n] = d]
  BY <1>2 DEF Becomes
<1>4. /\ NodeOK(n, c, I, started, claimable, claimed, refused) /\ c \in Channel
      /\ I \in [Payments -> Int] /\ IdsUnique(I)
  BY NodeFacts DEF Before
<1>5. DecidedOK(I, claimable, claimed, refused)
  BY DEF Before, Decision
<1>6. h.id = I[p] /\ h.id \in Nat /\ p \in Pays(c.inb)
  BY <1>2, <1>4 DEF NodeOK, InOK, Channel, InHtlcs, Pays
<1> HIDE DEF c
<1>7. /\ DecidedOK(I, L2, C2, refused) /\ claimed \subseteq C2 /\ refused \subseteq refused
      /\ \A q \in Payments : q \in L2 \cup C2 \cup refused
                             <=> q \in claimable \cup claimed \cup refused
  BY <1>1, <1>5, DecidedNow
<1>8. L2 \in SUBSET Payments /\ C2 \in SUBSET Payments /\ refused \in SUBSET Payments
      /\ p \in C2
  BY <1>7 DEF DecidedOK
<1> HIDE DEF L2, C2
<1>9. NodeOK(n, c, I, started, L2, C2, refused)
  BY <1>4, <1>5, <1>7, DecidedKeeps
<1>10. /\ NodeOK(n, BuildAndPause(n, a), I, started, L2, C2, refused)
       /\ SameLedger(c, BuildAndPause(n, a))
  <2>1. NodeOK(n, a, I, started, L2, C2, refused) /\ SameMoney(c, a)
    BY <1>1, <1>4, <1>6, <1>8, <1>9, LocalRemoveKeeps
  <2> HIDE DEF a
  <2>2. /\ NodeOK(n, BuildAndPause(n, a), I, started, L2, C2, refused)
        /\ SameMoney(a, BuildAndPause(n, a))
    BY <1>4, <1>8, <2>1, BuildAndPauseKeeps
  <2> QED BY <2>1, <2>2 DEF SameMoney, SameLedger, AddsIn, CellAdds
<1>11. /\ NodeOK(n, monitor_updating_paused(b, FALSE, FALSE), I, started, L2, C2, refused)
       /\ SameLedger(c, monitor_updating_paused(b, FALSE, FALSE))
  <2>1. u \in Waiting(n, I, started, C2, refused) /\ u.op # "add"
    BY <1>1, <1>6, <1>8 DEF Waiting, Updates
  <2>2. b = [c EXCEPT !.cell = Append(@, u)]
    OBVIOUS
  <2> HIDE DEF u, b
  <2>3. NodeOK(n, b, I, started, L2, C2, refused) /\ Appended(c, b, u)
    BY <1>9, <2>1, <2>2, AppendKeeps
  <2>4. b \in Channel
    BY <2>3 DEF NodeOK
  <2> DEFINE e == monitor_updating_paused(b, FALSE, FALSE)
  <2>5. e \in Channel /\ SameBooks(b, e)
    BY <2>4, PausedKeeps
  <2> HIDE DEF e
  <2>6. NodeOK(n, e, I, started, L2, C2, refused) /\ SameMoney(b, e)
    BY <2>3, <2>5, BooksDecide
  <2>7. SameLedger(c, e)
    BY <2>1, <2>3, <2>6 DEF Appended, SameMoney, SameLedger, AddsIn, CellAdds
  <2> QED BY <2>6, <2>7 DEF e
<1>12. NodeOK(n, d, I, started, L2, C2, refused) /\ SameLedger(c, d)
  <2> HIDE DEF a, b, u
  <2> QED BY <1>10, <1>11
<1> HIDE DEF d
<1>13. SameLedger(ch[n], d) /\ p \in Pays(ch[n].inb) /\ n \in Nodes /\ Before(I)
  BY <1>6, <1>12 DEF c
<1>14. L2 = claimable \ {p} /\ C2 = claimed \cup {p}
  BY DEF L2, C2
<1>15. \A K2 : K2 = [ch EXCEPT ![n] = d] =>
        After(ch, started, claimed, K2, net, started, L2, C2, refused, told)
  BY ONLY <1>1, <1>12, <1>13, <1>14, DecideStep
<1>16. After(ch, started, claimed, ch', net, started, L2, C2, refused, told)
  BY <1>3, <1>15
<1> QED BY <1>1, <1>16 DEF Stepped

\* The payee's user refuses a payment (fail_htlc_backwards, fail_htlc).
LEMMA FailBackwardsStep ==
    ASSUME NEW I, Before(I), NEW n \in Nodes, NEW p \in Payments, FailBackwards(n, p)
    PROVE  Stepped
<1> DEFINE c == ch[n]
           L2 == claimable \ {p}
           R2 == refused \cup {p}
<1>1. /\ PayTo(p) = n /\ p \in claimable
      /\ claimable' = L2 /\ refused' = R2
      /\ net' = net /\ started' = started /\ claimed' = claimed /\ told' = told
  BY DEF FailBackwards
<1>2. PICK h \in c.inb : h.pay = p /\
        Becomes(n, IF h.st # "Committed" \/ CellResolves(c, h.id) THEN c
                   ELSE [c EXCEPT !.cell = Append(@, [op |-> "fail", id |-> h.id])])
  BY DEF FailBackwards
<1> DEFINE u == [op |-> "fail", id |-> h.id]
           b == [c EXCEPT !.cell = Append(@, u)]
           d == IF h.st # "Committed" \/ CellResolves(c, h.id) THEN c ELSE b
<1>3. ch' = [ch EXCEPT ![n] = d]
  BY <1>2 DEF Becomes
<1>4. /\ NodeOK(n, c, I, started, claimable, claimed, refused) /\ c \in Channel
      /\ I \in [Payments -> Int] /\ IdsUnique(I)
  BY NodeFacts DEF Before
<1>5. DecidedOK(I, claimable, claimed, refused)
  BY DEF Before, Decision
<1>6. h.id = I[p] /\ h.id \in Nat /\ p \in Pays(c.inb)
  BY <1>2, <1>4 DEF NodeOK, InOK, Channel, InHtlcs, Pays
<1> HIDE DEF c
<1>7. /\ DecidedOK(I, L2, claimed, R2) /\ claimed \subseteq claimed /\ refused \subseteq R2
      /\ \A q \in Payments : q \in L2 \cup claimed \cup R2
                             <=> q \in claimable \cup claimed \cup refused
  BY <1>1, <1>5, DecidedNow
<1>8. p \in R2
  OBVIOUS
<1> HIDE DEF L2, R2
<1>9. NodeOK(n, c, I, started, L2, claimed, R2)
  BY <1>4, <1>5, <1>7, DecidedKeeps
<1>10. NodeOK(n, b, I, started, L2, claimed, R2) /\ SameLedger(c, b)
  <2>1. u \in Waiting(n, I, started, claimed, R2) /\ u.op # "add"
    BY <1>1, <1>6, <1>8 DEF Waiting, Updates
  <2>2. b = [c EXCEPT !.cell = Append(@, u)]
    OBVIOUS
  <2> HIDE DEF u, b
  <2>3. NodeOK(n, b, I, started, L2, claimed, R2) /\ Appended(c, b, u)
    BY <1>9, <2>1, <2>2, AppendKeeps
  <2> QED BY <2>1, <2>3 DEF Appended, SameLedger
<1>11. NodeOK(n, d, I, started, L2, claimed, R2) /\ SameLedger(c, d)
  <2>1. SameLedger(c, c)
    BY DEF SameLedger
  <2> HIDE DEF b, u
  <2> QED BY <1>9, <1>10, <2>1
<1> HIDE DEF d
<1>12. SameLedger(ch[n], d) /\ p \in Pays(ch[n].inb) /\ n \in Nodes /\ Before(I)
  BY <1>6, <1>11 DEF c
<1>13. L2 = claimable \ {p} /\ R2 = refused \cup {p}
  BY DEF L2, R2
<1>14. \A K2 : K2 = [ch EXCEPT ![n] = d] =>
        After(ch, started, claimed, K2, net, started, L2, claimed, R2, told)
  BY ONLY <1>1, <1>11, <1>12, <1>13, DecideStep
<1>15. After(ch, started, claimed, ch', net, started, L2, claimed, R2, told)
  BY <1>3, <1>14
<1> QED BY <1>1, <1>15 DEF Stepped

\* send_payment: the HTLC is placed at once or waits in the holding cell.
LEMMA SentKeeps ==
    ASSUME NEW I, Before(I), NEW n \in Nodes, NEW p \in Payments, PayFrom[p] = n,
           p \notin started, NEW S2, S2 = started \cup {p}, NEW c, c = ch[n],
           NEW d, d = IF can_generate_new_commitment(c) THEN BuildAndPause(n, PlaceHtlc(c, p))
                      ELSE PlaceHtlc(c, p)
    PROVE  /\ Sent(c, d, p)
           /\ \E J : /\ NodeOK(n, d, J, S2, claimable, claimed, refused)
                     /\ Decides(n, c, d, I, J, started, S2, claimable, claimable,
                                claimed, claimed, refused, refused)
<1>1. /\ NodeOK(n, c, I, started, claimable, claimed, refused) /\ c \in Channel
      /\ I \in [Payments -> Int] /\ IdsUnique(I) /\ claimable \in SUBSET Payments
      /\ claimed \in SUBSET Payments /\ refused \in SUBSET Payments
      /\ started \subseteq Payments /\ IsFiniteSet(started)
      /\ \A q \in claimable \cup claimed \cup refused : I[q] # -1
      /\ \A q \in Payments : I[q] # -1 =>
            I[q] >= 0 /\ q \in started /\ (PayFrom[q] = n => I[q] < c.nextId)
  BY NodeFacts DEF Before
<1>2. DecidedOK(I, claimable, claimed, refused)
  BY DEF Before, Decision
<1>3. I[p] = -1 /\ p \notin AddsIn(c)
  BY <1>1, AddsWait
<1>4. S2 \subseteq Payments /\ IsFiniteSet(S2) /\ started \subseteq S2
  BY <1>1, FS_AddElement
<1>5. NodeOK(n, c, I, S2, claimable, claimed, refused)
  <2>1. /\ \A q \in Payments : I[q] # -1 \/ PayFrom[q] = n => I[q] = I[q]
        /\ \A q \in Payments : PayTo(q) = n => (q \in claimable \cup claimed \cup refused
                                               <=> q \in claimable \cup claimed \cup refused)
        /\ claimed \subseteq claimed /\ refused \subseteq refused
    OBVIOUS
  <2> QED BY <1>1, <1>4, <2>1, OthersKeep
<1>6. CASE can_generate_new_commitment(c)
  <2> DEFINE e == PlaceHtlc(c, p)
             J == Placed(I, p, c.nextId)
  <2>1. NodeOK(n, e, J, S2, claimable, claimed, refused) /\ Offered(c, e, p)
    BY <1>1, <1>3, <1>5, <1>6, PlaceKeeps
  <2>2. c.nextId \in Nat
    BY <1>1 DEF Channel
  <2>3. /\ J \in [Payments -> Int] /\ J[p] = c.nextId
        /\ \A q \in Payments : q # p => J[q] = I[q]
    BY <1>1, <2>2 DEF Placed
  <2> HIDE DEF e, J
  <2>4. d = BuildAndPause(n, e)
    BY <1>6 DEF e
  <2>5. NodeOK(n, d, J, S2, claimable, claimed, refused) /\ SameMoney(e, d)
    BY <1>1, <2>1, <2>3, <2>4, BuildAndPauseKeeps
  <2>6. AddsIn(d) = AddsIn(c) /\ d.nextId = c.nextId + 1
    BY <2>1, <2>5 DEF Offered, SameMoney, AddsIn, CellAdds
  <2>7. Sent(c, d, p)
    BY <2>1, <2>5, <2>6 DEF Sent, Offered, SameMoney
  <2>8. IdsUnique(J)
    <3> SUFFICES ASSUME NEW q \in Payments, NEW r \in Payments, J[q] = J[r], J[q] # -1,
                        PayFrom[q] = PayFrom[r]
                 PROVE  q = r
      BY DEF IdsUnique
    <3>1. CASE q # p /\ r # p
      BY <1>1, <2>3, <3>1 DEF IdsUnique
    <3>2. CASE q = p /\ r # p
      <4>1. I[r] = c.nextId /\ PayFrom[r] = n /\ c.nextId # -1
        BY <2>2, <2>3, <3>2
      <4>2. I[r] < c.nextId
        BY <1>1, <4>1
      <4> QED BY <2>2, <4>1, <4>2
    <3>3. CASE q # p /\ r = p
      <4>1. I[q] = c.nextId /\ PayFrom[q] = n /\ c.nextId # -1
        BY <2>2, <2>3, <3>3
      <4>2. I[q] < c.nextId
        BY <1>1, <4>1
      <4> QED BY <2>2, <4>1, <4>2
    <3> QED BY <3>1, <3>2, <3>3
  <2>9. ASSUME NEW q \in Payments, J[q] # -1
        PROVE  J[q] >= 0 /\ q \in S2 /\ (PayFrom[q] = n => J[q] < d.nextId)
    <3>1. CASE q = p
      BY <2>2, <2>3, <2>6, <3>1
    <3>2. CASE q # p
      <4>1. J[q] = I[q] /\ I[q] \in Int
        BY <1>1, <2>3, <3>2
      <4>2. I[q] >= 0 /\ q \in started /\ (PayFrom[q] = n => I[q] < c.nextId)
        BY <1>1, <2>9, <4>1
      <4> QED BY <1>4, <2>2, <2>6, <4>1, <4>2
    <3> QED BY <3>1, <3>2
  <2>10. \A q \in Payments : I[q] # -1 \/ PayFrom[q] # n => J[q] = I[q]
    BY <1>3, <2>3
  <2>11. DecidedOK(J, claimable, claimed, refused)
    BY <1>2, <2>10 DEF DecidedOK
  <2>12. \A q \in started : PayFrom[q] = n /\ I[q] = -1 /\ q \notin AddsIn(c)
            => J[q] = -1 /\ q \notin AddsIn(d)
    BY <1>1, <2>3, <2>6
  <2>13. Decides(n, c, d, I, J, started, S2, claimable, claimable,
                 claimed, claimed, refused, refused)
    BY <1>4, <2>3, <2>8, <2>9, <2>10, <2>11, <2>12 DEF Decides
  <2> QED BY <2>5, <2>7, <2>13
<1>7. CASE ~can_generate_new_commitment(c)
  <2> DEFINE u == [op |-> "add", pay |-> p]
  <2>1. d = [c EXCEPT !.cell = Append(@, u)]
    BY <1>7 DEF PlaceHtlc
  <2>2. u \in Waiting(n, I, S2, claimed, refused) /\ u.op = "add" /\ u.pay = p
    BY <1>3 DEF Waiting, Updates
  <2> HIDE DEF u
  <2>3. NodeOK(n, d, I, S2, claimable, claimed, refused) /\ Appended(c, d, u)
    BY <1>3, <1>5, <2>1, <2>2, AppendKeeps
  <2>4. d.nextId = c.nextId /\ AddsIn(d) = AddsIn(c) \cup {p}
    BY <2>2, <2>3 DEF Appended
  <2>5. Sent(c, d, p)
    BY <2>3, <2>4 DEF Sent, Appended
  <2>6. Decides(n, c, d, I, I, started, S2, claimable, claimable,
                claimed, claimed, refused, refused)
    BY <1>1, <1>2, <1>4, <2>4 DEF Decides
  <2> QED BY <2>3, <2>5, <2>6
<1> QED BY <1>6, <1>7

\* The payer's user sends a payment, placed or held back (send_htlc).
LEMMA SendPaymentStep ==
    ASSUME NEW I, Before(I), NEW n \in Nodes, NEW p \in Payments, SendPayment(n, p)
    PROVE  Stepped
<1> DEFINE c == ch[n]
           S2 == started \cup {p}
           d == IF can_generate_new_commitment(c) THEN BuildAndPause(n, PlaceHtlc(c, p))
                ELSE PlaceHtlc(c, p)
<1>1. /\ PayFrom[p] = n /\ p \notin started /\ ~SendRefused(c, p)
      /\ ch' = [ch EXCEPT ![n] = d] /\ started' = S2
      /\ net' = net /\ claimable' = claimable /\ claimed' = claimed
      /\ refused' = refused /\ told' = told
  BY DEF SendPayment, Becomes
<1>2. c = ch[n] /\ S2 = started \cup {p}
      /\ d = IF can_generate_new_commitment(c) THEN BuildAndPause(n, PlaceHtlc(c, p))
             ELSE PlaceHtlc(c, p)
  OBVIOUS
<1> HIDE DEF c, S2, d
<1>3. /\ Sent(c, d, p)
      /\ \E J : /\ NodeOK(n, d, J, S2, claimable, claimed, refused)
                /\ Decides(n, c, d, I, J, started, S2, claimable, claimable,
                           claimed, claimed, refused, refused)
  BY <1>1, <1>2, SentKeeps
<1>4. PICK J : /\ NodeOK(n, d, J, S2, claimable, claimed, refused)
               /\ Decides(n, c, d, I, J, started, S2, claimable, claimable,
                          claimed, claimed, refused, refused)
  BY <1>3
<1>5. Amount[p] <= AvailableRgb(c)
  <2>1. AvailableRgb(c) \in Int /\ Amount[p] \in Int
    <3>1. NodeOK(n, c, I, started, claimable, claimed, refused)
      BY <1>2, NodeFacts DEF Before
    <3> QED BY <3>1, AvailableIs, ChannelAssumption
  <2> QED BY <1>1, <2>1 DEF SendRefused
<1>6. NetOK(net, I, claimed, refused) /\ told = Telling(told, {}, "sent")
      /\ Hears(n, d, J, S2, claimed, refused, {}, "sent")
  BY NodeFacts, NobodyHears DEF Before, Hears
<1>7. ASSUME NEW K2, K2 = [ch EXCEPT ![n] = d]
      PROVE  After(ch, started, claimed, K2, net, S2, claimable, claimed, refused, told)
  <2>1. Decision(J, K2, net, S2, claimable, claimed, refused, told)
    <3>1. /\ Decision(I, ch, net, started, claimable, claimed, refused, told) /\ n \in Nodes
          /\ Decides(n, ch[n], d, I, J, started, S2, claimable, claimable,
                     claimed, claimed, refused, refused)
      BY <1>2, <1>4 DEF Before
    <3>2. \A T2 : T2 = Telling(told, {}, "sent") =>
            Decision(J, K2, net, S2, claimable, claimed, refused, T2)
      BY ONLY <1>4, <1>6, <1>7, <3>1, DecidesStep
    <3> QED BY <1>6, <3>2
  <2>2. K2[n] = d /\ Still(ch[Peer(n)], K2[Peer(n)], claimed) /\ PayTo(p) = Peer(n)
    <3>1. K2[n] = d /\ Still(ch[Peer(n)], K2[Peer(n)], claimed)
      BY <1>7, PeerStays
    <3> QED BY <1>1, <3>1 DEF PayTo
  <2>3. Offers(ch, K2, started, S2, claimed)
    BY <1>1, <1>2, <1>3, <1>5, <2>2 DEF Offers
  <2>4. LedgerStep(ch, K2, started, S2, claimed, claimed)
    BY <2>3 DEF LedgerStep
  <2> QED BY <2>1, <2>4 DEF After
<1>8. After(ch, started, claimed, ch', net, S2, claimable, claimed, refused, told)
  <2>1. \A K2 : K2 = [ch EXCEPT ![n] = d] =>
            After(ch, started, claimed, K2, net, S2, claimable, claimed, refused, told)
    BY <1>7
  <2> QED BY <1>1, <2>1
<1> QED BY <1>1, <1>8 DEF Stepped

-----------------------------------------------------------------------------
(* The invariant holds. *)

\* The funded channel: no ids are given, nothing is on its way.
LEMMA InitDecision == Init => DecisionInv
<1> SUFFICES ASSUME Init PROVE DecisionInv
  OBVIOUS
<1> DEFINE I == [p \in Payments |-> -1]
           new(n) ==
        [inb |-> {}, out |-> {}, cell |-> <<>>, toSelf |-> Start(n),
         awaitRaa |-> FALSE, monBusy |-> FALSE, disc |-> FALSE,
         pendRaa |-> FALSE, pendCs |-> FALSE,
         pendAdds |-> {}, pendFails |-> {},
         order |-> "CommitmentFirst", nextId |-> 0, nextCpId |-> 0,
         holderNum |-> 1, cpNum |-> 1,
         txs |-> [prev |-> InitialTx, cur |-> InitialTx],
         expCs |-> FALSE, localShut |-> FALSE, remoteShut |-> FALSE,
         feeSent |-> 0, pendClosing |-> NoClosing, fate |-> "open"]
<1>1. /\ ch = [n \in Nodes |-> new(n)] /\ net = [n \in Nodes |-> <<>>]
      /\ conn = TRUE /\ drops = 0
      /\ started = {} /\ claimable = {} /\ claimed = {} /\ refused = {}
      /\ told = [p \in Payments |-> {}]
  BY DEF Init
<1>2. ASSUME NEW n \in Nodes PROVE NodeOK(n, new(n), I, {}, {}, {}, {})
  <2> DEFINE c == new(n)
             tx == [prev |-> InitialTx, cur |-> InitialTx]
             s == Start(n)
             z == <<>>
  <2>1. s \in Int /\ z \in Seq(Updates)
    BY ChannelAssumption DEF Start
  <2>2. InitialTx \in Txs
    <3>1. [x \in Nodes |-> Start(x)] \in [Nodes -> Int]
      BY ChannelAssumption DEF Start
    <3> QED BY <3>1 DEF InitialTx, Txs
  <2>3. tx \in [prev : Txs, cur : Txs]
    BY <2>2
  <2>4. /\ c.inb = {} /\ c.out = {} /\ c.cell = z /\ c.pendAdds = {} /\ c.pendFails = {}
        /\ c.nextCpId = 0
    OBVIOUS
  <2>5. c \in Channel
    <3> HIDE DEF tx, s, z
    <3>1. c = [inb |-> {}, out |-> {}, cell |-> z, toSelf |-> s,
         awaitRaa |-> FALSE, monBusy |-> FALSE, disc |-> FALSE,
         pendRaa |-> FALSE, pendCs |-> FALSE,
         pendAdds |-> {}, pendFails |-> {},
         order |-> "CommitmentFirst", nextId |-> 0, nextCpId |-> 0,
         holderNum |-> 1, cpNum |-> 1, txs |-> tx,
         expCs |-> FALSE, localShut |-> FALSE, remoteShut |-> FALSE,
         feeSent |-> 0, pendClosing |-> NoClosing, fate |-> "open"]
      BY DEF tx, s, z
    <3> HIDE DEF c, new
    <3> QED BY ONLY <2>1, <2>3, <3>1 DEF Channel
  <2> HIDE DEF c, new
  <2>6. IsFiniteSet({})
    BY FS_EmptySet
  <2>7. OutOK(n, c, I, {}, {})
    BY <2>4, <2>6 DEF OutOK
  <2>8. InOK(n, c, I, {}, {}, {})
    BY <2>4, <2>6 DEF InOK
  <2>9. SeenOK(n, c, I, {}, {}, {}, 0)
    BY <2>4 DEF SeenOK
  <2>10. CellOK(n, c.cell, I, {}, {}, {})
    <3>1. z \in Seq(Waiting(n, I, {}, {}, {})) /\ Len(z) = 0
      OBVIOUS
    <3> QED BY <2>4, <3>1 DEF CellOK
  <2>11. \E k \in Nat : SeenOK(n, c, I, {}, {}, {}, k)
    BY <2>9
  <2> QED BY <2>5, <2>7, <2>8, <2>10, <2>11 DEF NodeOK, c
<1> HIDE DEF new
<1>3. \A n \in Nodes : NodeOK(n, ch[n], I, started, claimable, claimed, refused)
  BY <1>1, <1>2
<1>4. \A n \in Nodes : net[n] \in Seq(Deliverable(n, I, claimed, refused))
  <2> SUFFICES ASSUME NEW n \in Nodes
               PROVE  net[n] \in Seq(Deliverable(n, I, claimed, refused))
    OBVIOUS
  <2>1. <<>> \in Seq(Deliverable(n, I, claimed, refused))
    OBVIOUS
  <2> QED BY <1>1, <2>1
<1>5. IdsOK(I, ch, started)
  BY <1>1, FS_EmptySet DEF IdsOK
<1>6. DecidedOK(I, claimable, claimed, refused)
  BY <1>1 DEF DecidedOK
<1>7. ToldOK(I, ch, started, claimed, refused, told)
  BY <1>1 DEF ToldOK
<1>8. Decision(I, ch, net, started, claimable, claimed, refused, told)
  <2>1. ch = [n \in Nodes |-> ch[n]] /\ net = [n \in Nodes |-> net[n]] /\ started \subseteq Payments
    BY <1>1
  <2> QED BY <1>3, <1>4, <1>5, <1>6, <1>7, <2>1 DEF Decision
<1>9. conn \in BOOLEAN /\ drops \in 0 .. MaxDrops
  BY <1>1, ChannelAssumption
<1> HIDE DEF I
<1> QED BY <1>8, <1>9 DEF DecisionInv

(* Every step of a node, of its user or of the connection keeps the        *)
(* decision and is a step of the ledger.                                   *)
LEMMA NextStep ==
    ASSUME NEW I, Before(I), Next
    PROVE  Stepped
<1>1. ASSUME NEW n \in Nodes, Receive(n) PROVE Stepped
  BY <1>1, UpdateAddStep, UpdateFulfillStep, UpdateFailStep, CommitmentSignedStep,
     RevokeAndAckStep, ReestablishStep, ShutdownStep, ClosingSignedStep,
     MessageAfterCloseStep DEF Receive
<1>2. ASSUME NEW n \in Nodes, Manager(n) PROVE Stepped
  BY <1>2, MonitorRestoredStep, FreeHoldingCellsStep, ProposeStep, AnswerDeferredStep
     DEF Manager
<1>3. ASSUME NEW n \in Nodes, User(n) PROVE Stepped
  BY <1>3, SendPaymentStep, ClaimFundsStep, FailBackwardsStep, CloseStep DEF User
<1> QED BY <1>1, <1>2, <1>3, DisconnectStep, ReconnectStep DEF Next

\* Only losing and making a connection touches it.
LEMMA ConnStep ==
    ASSUME Next
    PROVE  (conn' = conn /\ drops' = drops) \/ Disconnect \/ Reconnect
<1>1. ASSUME NEW n \in Nodes, Receive(n) PROVE conn' = conn /\ drops' = drops
  BY <1>1 DEF Receive, UpdateAddHtlc, UpdateFulfillHtlc, UpdateFailHtlc, CommitmentSigned,
     RevokeAndAck, ChannelReestablish, ShutdownReceived, ClosingSigned, MessageAfterClose
<1>2. ASSUME NEW n \in Nodes, Manager(n) PROVE conn' = conn /\ drops' = drops
  BY <1>2 DEF Manager, MonitorRestored, FreeHoldingCells, ProposeClosing,
     AnswerDeferredClosing
<1>3. ASSUME NEW n \in Nodes, User(n) PROVE conn' = conn /\ drops' = drops
  BY <1>3 DEF User, SendPayment, ClaimFunds, FailBackwards, CloseChannel
<1> QED BY <1>1, <1>2, <1>3 DEF Next

\* The invariant is inductive.
LEMMA NextDecision == DecisionInv /\ [Next]_vars => DecisionInv'
<1> SUFFICES ASSUME DecisionInv, [Next]_vars PROVE DecisionInv'
  OBVIOUS
<1>1. CASE vars' = vars
  <2>1. /\ ch' = ch /\ net' = net /\ conn' = conn /\ drops' = drops /\ started' = started
        /\ claimable' = claimable /\ claimed' = claimed /\ refused' = refused
        /\ told' = told
    BY <1>1 DEF vars
  <2> QED BY <2>1 DEF DecisionInv
<1>2. CASE Next
  <2>1. PICK I : Before(I)
    BY DEF DecisionInv, Before
  <2>2. Stepped
    BY <1>2, <2>1, NextStep
  <2>3. \E J : Decision(J, ch', net', started', claimable', claimed', refused', told')
    BY <2>2 DEF Stepped, After
  <2>4. conn' \in BOOLEAN /\ drops' \in 0 .. MaxDrops
    <3>1. conn \in BOOLEAN /\ drops \in 0 .. MaxDrops
      BY DEF DecisionInv
    <3>2. CASE Disconnect
      <4>1. conn' = FALSE /\ drops' = drops + 1 /\ drops < MaxDrops
        BY <3>2 DEF Disconnect
      <4>2. MaxDrops \in Nat
        BY ChannelAssumption
      <4>3. drops' \in 0 .. MaxDrops
        BY ONLY <3>1, <4>1, <4>2
      <4> QED BY <4>1, <4>3
    <3>3. CASE Reconnect
      BY <3>1, <3>3 DEF Reconnect
    <3> QED BY <1>2, <3>1, <3>2, <3>3, ConnStep
  <2> QED BY <2>3, <2>4 DEF DecisionInv
<1> QED BY <1>1, <1>2

(* Whatever is lost, resent or held back: the ids of HTLCs agree between   *)
(* the two nodes, and an HTLC is resolved as its payee decided, once.      *)
THEOREM DecisionHolds == Spec => []DecisionInv
<1>1. Init => DecisionInv
  BY InitDecision
<1>2. DecisionInv /\ [Next]_vars => DecisionInv'
  BY NextDecision
<1> QED BY <1>1, <1>2, PTL DEF Spec

\* Every variable of the channel keeps its type.
THEOREM ChannelTypeCorrect == Spec => []TypeOK
<1>1. DecisionInv => TypeOK
  <2> SUFFICES ASSUME DecisionInv PROVE TypeOK
    OBVIOUS
  <2>1. PICK I : Decision(I, ch, net, started, claimable, claimed, refused, told)
    BY DEF DecisionInv
  <2>2. ch \in [Nodes -> Channel]
    <3>1. ch = [n \in Nodes |-> ch[n]] /\ \A n \in Nodes : ch[n] \in Channel
      BY <2>1 DEF Decision, NodeOK
    <3> QED BY <3>1
  <2> QED BY <2>1, <2>2 DEF Decision, DecidedOK, ToldOK, TypeOK, DecisionInv
<1> QED BY <1>1, DecisionHolds, PTL

(* The payer hears one outcome, the payee's: never both, "sent" only of a  *)
(* claimed payment, "failed" only of one that nobody can claim any more    *)
(* (update_fulfill_htlc, monitor_updating_restored, free_holding_cell).    *)
THEOREM OutcomeCorrect == Spec => []OneOutcome
<1>1. DecisionInv => OneOutcome
  <2> SUFFICES ASSUME DecisionInv, NEW p \in Payments
               PROVE  /\ told[p] # {"sent", "failed"}
                      /\ "sent" \in told[p] => p \in claimed
                      /\ "failed" \in told[p] => p \notin claimed \cup claimable
    BY DEF OneOutcome
  <2>1. PICK I : Decision(I, ch, net, started, claimable, claimed, refused, told)
    BY DEF DecisionInv
  <2>2. "sent" \in told[p] => p \in claimed
    BY <2>1 DEF Decision, ToldOK
  <2>3. "failed" \in told[p] => p \in refused \/ I[p] = -1
    BY <2>1 DEF Decision, ToldOK
  <2>4. "failed" \in told[p] => p \notin claimed \cup claimable
    BY <2>1, <2>3 DEF Decision, DecidedOK
  <2> QED BY <2>2, <2>4
<1> QED BY <1>1, DecisionHolds, PTL

-----------------------------------------------------------------------------
(* The balance. *)

\* The claimed payments that have come in, and those that have gone out.
CreditedTo(n, c, C) == {p \in C : PayTo(p) = n /\ p \notin Pays(c.inb)}
DebitedTo(n, c, C) == {p \in C : PayFrom[p] = n /\ p \notin Pays(c.out)}

\* BalanceIsLedger, of one node.
Balance(n, c, C) ==
    c.toSelf = Start(n) + Worth(CreditedTo(n, c, C)) - Worth(DebitedTo(n, c, C))

\* What the invariant says of claimed payments.
LEMMA ClaimedFacts ==
    ASSUME NEW I, NEW K, NEW N, NEW S, NEW L, NEW C, NEW R, NEW T,
           Decision(I, K, N, S, L, C, R, T), NEW n \in Nodes
    PROVE  /\ C \subseteq Payments /\ IsFiniteSet(C) /\ C \subseteq S
           /\ \A p \in C : p \notin AddsIn(K[n])
           /\ \A X : X \subseteq C => X \subseteq Payments /\ IsFiniteSet(X)
<1>1. /\ C \subseteq Payments /\ IsFiniteSet(S) /\ (\A p \in C : I[p] # -1)
      /\ \A p \in Payments : I[p] # -1 => p \in S
  BY DEF Decision, DecidedOK, IdsOK
<1>2. C \subseteq S
  BY <1>1
<1>3. IsFiniteSet(C)
  BY <1>1, <1>2, FS_Subset
<1>4. \A p \in C : p \notin AddsIn(K[n])
  <2>1. NodeOK(n, K[n], I, S, L, C, R)
    BY DEF Decision
  <2> QED BY <1>1, <2>1, AddsWait
<1>5. ASSUME NEW X, X \subseteq C PROVE X \subseteq Payments /\ IsFiniteSet(X)
  BY <1>1, <1>3, <1>5, FS_Subset
<1> QED BY <1>1, <1>2, <1>3, <1>4, <1>5

\* Settling moves the balance by what is settled.
LEMMA MovesBalance ==
    ASSUME NEW I, NEW K, NEW N, NEW S, NEW L, NEW C, NEW R, NEW T,
           Decision(I, K, N, S, L, C, R, T), NEW n \in Nodes, Balance(n, K[n], C),
           NEW d, NEW X, NEW Y, NEW F, Moves(K[n], d, C, X, Y, F)
    PROVE  Balance(n, d, C)
<1> DEFINE c == K[n]
           A == CreditedTo(n, c, C)
           B == DebitedTo(n, c, C)
<1>1. /\ NodeOK(n, c, I, S, L, C, R)
      /\ \A p \in C : p \notin AddsIn(c)
      /\ \A Z : Z \subseteq C => Z \subseteq Payments /\ IsFiniteSet(Z)
  BY ClaimedFacts DEF Decision
<1>2. /\ \A p \in Pays(c.out) : p \in Payments /\ PayFrom[p] = n
      /\ \A p \in Pays(c.inb) : p \in Payments /\ PayTo(p) = n
      /\ c.toSelf \in Int
  BY <1>1, PaysPlaced
<1> HIDE DEF c
<1>3. Moves(c, d, C, X, Y, F) /\ Balance(n, c, C)
  BY DEF c
<1>4. CreditedTo(n, d, C) = A \cup (X \cap C) /\ A \cap (X \cap C) = {}
  BY <1>2, <1>3 DEF Moves, CreditedTo
<1>5. DebitedTo(n, d, C) = B \cup (Y \cap C) /\ B \cap (Y \cap C) = {}
  <2>1. \A p \in C : p \in Pays(d.out) <=> p \in Pays(c.out) /\ p \notin Y
    BY <1>1, <1>3 DEF Moves
  <2>2. Y \subseteq Pays(c.out)
    BY <1>3 DEF Moves
  <2> QED BY <1>2, <2>1, <2>2 DEF DebitedTo
<1>6. A \subseteq C /\ B \subseteq C /\ X \cap C \subseteq C /\ Y \cap C \subseteq C
  BY DEF CreditedTo, DebitedTo
<1> DEFINE x == X \cap C
           y == Y \cap C
<1>7. /\ A \subseteq Payments /\ IsFiniteSet(A) /\ B \subseteq Payments /\ IsFiniteSet(B)
      /\ x \subseteq Payments /\ IsFiniteSet(x) /\ y \subseteq Payments /\ IsFiniteSet(y)
  BY <1>1, <1>6
<1>8. d.toSelf = c.toSelf + Worth(x) - Worth(y)
  BY <1>3 DEF Moves
<1>9. c.toSelf = Start(n) + Worth(A) - Worth(B)
  BY <1>3 DEF Balance
<1> HIDE DEF A, B, x, y
<1>10. A \cap x = {} /\ B \cap y = {}
  BY <1>4, <1>5 DEF x, y
<1>11. Worth(A \cup x) = Worth(A) + Worth(x) /\ Worth(B \cup y) = Worth(B) + Worth(y)
  BY <1>7, <1>10, WorthAdds
<1>12. /\ Worth(A) \in Int /\ Worth(B) \in Int /\ Worth(x) \in Int /\ Worth(y) \in Int
       /\ Start(n) \in Int
  <2>1. Start(n) \in Int
    BY ChannelAssumption DEF Start
  <2> QED BY <1>7, <2>1, WorthAdds
<1>13. d.toSelf = Start(n) + Worth(A \cup x) - Worth(B \cup y)
  BY ONLY <1>8, <1>9, <1>11, <1>12
<1>14. CreditedTo(n, d, C) = A \cup x /\ DebitedTo(n, d, C) = B \cup y
  BY <1>4, <1>5 DEF x, y
<1> QED BY <1>13, <1>14 DEF Balance

\* A node that stands still keeps its balance.
LEMMA StillBalance ==
    ASSUME NEW n, NEW c, NEW d, NEW C, Balance(n, c, C), Still(c, d, C)
    PROVE  Balance(n, d, C)
<1>1. CreditedTo(n, d, C) = CreditedTo(n, c, C) /\ DebitedTo(n, d, C) = DebitedTo(n, c, C)
  BY DEF Still, CreditedTo, DebitedTo
<1> QED BY <1>1 DEF Balance, Still

\* Every step of the ledger keeps both balances.
LEMMA LedgerBalance ==
    ASSUME NEW I, NEW K, NEW N, NEW S, NEW L, NEW C, NEW R, NEW T,
           Decision(I, K, N, S, L, C, R, T), \A n \in Nodes : Balance(n, K[n], C),
           NEW K2, NEW S2, NEW C2, LedgerStep(K, K2, S, S2, C, C2)
    PROVE  \A n \in Nodes : Balance(n, K2[n], C2)
<1>1. CASE C2 = C /\ Settles(K, K2, C)
  <2>1. PICK n \in Nodes, X \in SUBSET Payments, Y \in SUBSET Payments, F \in SUBSET Payments :
            Moves(K[n], K2[n], C, X, Y, F) /\ Still(K[Peer(n)], K2[Peer(n)], C)
    BY <1>1 DEF Settles
  <2>2. Peer(n) \in Nodes /\ \A x \in Nodes : x = n \/ x = Peer(n)
    BY PeerFacts
  <2>3. Balance(n, K[n], C) /\ Balance(Peer(n), K[Peer(n)], C)
    BY <2>2
  <2>4. Balance(n, K2[n], C)
    BY <2>1, <2>3, MovesBalance
  <2>5. Balance(Peer(n), K2[Peer(n)], C)
    BY <2>1, <2>3, StillBalance
  <2> QED BY <1>1, <2>2, <2>4, <2>5
<1>2. CASE C2 = C /\ Offers(K, K2, S, S2, C)
  <2>1. PICK p \in Payments : /\ p \notin S /\ Sent(K[PayFrom[p]], K2[PayFrom[p]], p)
                              /\ Still(K[PayTo(p)], K2[PayTo(p)], C)
    BY <1>2 DEF Offers
  <2> DEFINE n == PayFrom[p]
             m == PayTo(p)
  <2>2. n \in Nodes /\ m \in Nodes /\ \A x \in Nodes : x = n \/ x = m
    BY PeerFacts
  <2>3. p \notin C
    BY <2>1, <2>2, ClaimedFacts
  <2>4. Balance(n, K[n], C) /\ Balance(m, K[m], C)
    BY <2>2
  <2>5. Balance(m, K2[m], C)
    BY <2>1, <2>4, StillBalance
  <2> HIDE DEF n, m
  <2>6. Sent(K[n], K2[n], p)
    BY <2>1 DEF n
  <2>7. /\ CreditedTo(n, K2[n], C) = CreditedTo(n, K[n], C)
        /\ DebitedTo(n, K2[n], C) = DebitedTo(n, K[n], C)
    BY <2>3, <2>6 DEF Sent, CreditedTo, DebitedTo
  <2>8. Balance(n, K2[n], C)
    BY <2>4, <2>6, <2>7 DEF Balance, Sent
  <2> QED BY <1>2, <2>2, <2>5, <2>8
<1>3. CASE Claims(K, K2, C, C2)
  <2>1. PICK p \in Payments :
            /\ p \notin C /\ C2 = C \cup {p} /\ p \in Pays(K[PayTo(p)].inb)
            /\ p \in Pays(K[PayFrom[p]].out)
            /\ \A n \in Nodes : Moves(K[n], K2[n], C2, {}, {}, {})
    BY <1>3 DEF Claims
  <2> SUFFICES ASSUME NEW n \in Nodes PROVE Balance(n, K2[n], C2)
    OBVIOUS
  <2> DEFINE c == K[n]
             d == K2[n]
  <2>2. Moves(c, d, C2, {}, {}, {}) /\ Balance(n, c, C)
    BY <2>1
  <2>3. \A q \in C : q \notin AddsIn(c)
    BY ClaimedFacts
  <2>4. (PayTo(p) = n => p \in Pays(c.inb)) /\ (PayFrom[p] = n => p \in Pays(c.out))
    BY <2>1
  <2>5. c.toSelf \in Int
    BY DEF Decision, NodeOK, Channel
  <2> HIDE DEF c, d
  <2>6. CreditedTo(n, d, C2) = CreditedTo(n, c, C)
    <3>1. \A q \in C2 : q \in Pays(d.inb) <=> q \in Pays(c.inb)
      BY <2>2 DEF Moves
    <3> QED BY <2>1, <2>4, <3>1 DEF CreditedTo
  <2>7. DebitedTo(n, d, C2) = DebitedTo(n, c, C)
    <3>1. \A q \in C : q \in Pays(d.out) <=> q \in Pays(c.out)
      BY <2>2, <2>3 DEF Moves
    <3>2. Pays(c.out) \subseteq Pays(d.out)
      BY <2>2 DEF Moves
    <3> QED BY <2>1, <2>4, <3>1, <3>2 DEF DebitedTo
  <2>8. d.toSelf = c.toSelf
    <3>1. {} \cap C2 = {}
      OBVIOUS
    <3>2. Worth({} \cap C2) = 0
      BY <3>1, WorthAdds
    <3> QED BY <2>2, <2>5, <3>2 DEF Moves
  <2>9. Balance(n, d, C2)
    BY <2>2, <2>6, <2>7, <2>8 DEF Balance
  <2> QED BY <2>9 DEF d
<1> QED BY <1>1, <1>2, <1>3 DEF LedgerStep

\* The inductive invariant of the balance.
BalanceInv == DecisionInv /\ \A n \in Nodes : Balance(n, ch[n], claimed)

\* The balance is right at first: nothing is claimed.
LEMMA InitBalance == Init => BalanceInv
<1> SUFFICES ASSUME Init PROVE BalanceInv
  OBVIOUS
<1>1. DecisionInv
  BY InitDecision
<1>2. ASSUME NEW n \in Nodes PROVE Balance(n, ch[n], claimed)
  <2>1. ch[n].toSelf = Start(n) /\ claimed = {}
    BY DEF Init
  <2>2. CreditedTo(n, ch[n], claimed) = {} /\ DebitedTo(n, ch[n], claimed) = {}
    BY <2>1 DEF CreditedTo, DebitedTo
  <2>3. Worth({}) = 0 /\ Start(n) \in Int
    BY WorthAdds, ChannelAssumption DEF Start
  <2> QED BY <2>1, <2>2, <2>3 DEF Balance
<1> QED BY <1>1, <1>2 DEF BalanceInv

\* The balance stays right over every step of the ledger.
LEMMA NextBalance == BalanceInv /\ [Next]_vars => BalanceInv'
<1> SUFFICES ASSUME BalanceInv, [Next]_vars PROVE BalanceInv'
  OBVIOUS
<1>1. DecisionInv'
  BY NextDecision DEF BalanceInv
<1>2. CASE vars' = vars
  <2>1. ch' = ch /\ claimed' = claimed
    BY <1>2 DEF vars
  <2> QED BY <1>1, <2>1 DEF BalanceInv
<1>3. CASE Next
  <2>1. PICK I : Before(I)
    BY DEF BalanceInv, DecisionInv, Before
  <2>2. Stepped
    BY <1>3, <2>1, NextStep
  <2>3. \A K2, S2, C2 : LedgerStep(ch, K2, started, S2, claimed, C2)
            => \A n \in Nodes : Balance(n, K2[n], C2)
    BY <2>1, LedgerBalance DEF BalanceInv, Before
  <2>4. LedgerStep(ch, ch', started, started', claimed, claimed')
    BY <2>2 DEF Stepped, After
  <2>5. \A n \in Nodes : Balance(n, ch'[n], claimed')
    BY <2>3, <2>4
  <2> QED BY <1>1, <2>5 DEF BalanceInv
<1> QED BY <1>2, <1>3

(* to_self of each node is the ledger of the claimed payments that left    *)
(* its HTLCs: revoke_and_ack moves each amount once, on both sides.        *)
THEOREM BalanceCorrect == Spec => []BalanceIsLedger
<1>1. BalanceInv => BalanceIsLedger
  <2> SUFFICES ASSUME BalanceInv, NEW n \in Nodes
               PROVE  ch[n].toSelf = Start(n)
            + MapThenSumSet(LAMBDA p : Amount[p],
                {p \in claimed : PayTo(p) = n /\ p \notin {h.pay : h \in ch[n].inb}})
            - MapThenSumSet(LAMBDA p : Amount[p],
                {p \in claimed : PayFrom[p] = n /\ p \notin {h.pay : h \in ch[n].out}})
    BY DEF BalanceIsLedger
  <2> DEFINE A == {p \in claimed : PayTo(p) = n /\ p \notin {h.pay : h \in ch[n].inb}}
             B == {p \in claimed : PayFrom[p] = n /\ p \notin {h.pay : h \in ch[n].out}}
  <2>1. ch[n].toSelf = Start(n) + Worth(A) - Worth(B)
    BY DEF BalanceInv, Balance, CreditedTo, DebitedTo, Pays
  <2> HIDE DEF A, B
  <2>2. /\ MapThenSumSet(LAMBDA p : Amount[p], A) = Worth(A)
        /\ MapThenSumSet(LAMBDA p : Amount[p], B) = Worth(B)
    BY WorthIsMapped
  <2> QED BY <2>1, <2>2 DEF A, B
<1>2. Init => BalanceInv
  BY InitBalance
<1>3. BalanceInv /\ [Next]_vars => BalanceInv'
  BY NextBalance
<1> QED BY <1>1, <1>2, <1>3, PTL DEF Spec

-----------------------------------------------------------------------------
(* The channel implements the ledger of IdealChannel. *)

\* The refinement mapping, of a state given by its channels K, S and C.
StatusOf(p, K, S, C) ==
    IF p \notin S THEN "idle"
    ELSE IF p \in C THEN "claimed"
    ELSE IF p \in Pays(K[PayFrom[p]].out) \cup AddsIn(K[PayFrom[p]]) THEN "offered"
    ELSE "returned"
StatusMap(K, S, C) == [p \in Payments |-> StatusOf(p, K, S, C)]
SettledSet(K, S, C) ==
    {p \in Payments : \/ StatusOf(p, K, S, C) = "returned"
                      \/ p \in C /\ p \notin Pays(K[PayTo(p)].inb)}
SpendMap(K) == [n \in Nodes |-> AvailableRgb(K[n])]

\* The steps of IdealChannel, between states given by their values.
IdealOffer(p, st, se, sp, st2, se2, sp2) ==
    /\ st[p] = "idle" /\ Amount[p] <= sp[PayFrom[p]]
    /\ st2 = [st EXCEPT ![p] = "offered"] /\ se2 = se
    /\ sp2 = [sp EXCEPT ![PayFrom[p]] = @ - Amount[p]]
IdealClaim(p, st, se, sp, st2, se2, sp2) ==
    /\ st[p] = "offered" /\ st2 = [st EXCEPT ![p] = "claimed"] /\ se2 = se /\ sp2 = sp
IdealSettle(n, cr, re, st, se, sp, st2, se2, sp2) ==
    /\ \A p \in cr : PayTo(p) = n /\ st[p] = "claimed" /\ p \notin se
    /\ \A p \in re : PayFrom[p] = n /\ st[p] = "offered"
    /\ st2 = [p \in Payments |-> IF p \in re THEN "returned" ELSE st[p]]
    /\ se2 = se \cup cr \cup re
    /\ sp2 = [sp EXCEPT ![n] = @ + Worth(cr \cup re)]

\* What a step of a node makes spendable again.
LEMMA MovesAvailable ==
    ASSUME NEW n \in Nodes, NEW c, NEW d, NEW I, NEW S, NEW L, NEW C, NEW R,
           NEW J, NEW S2, NEW L2, NEW C2, NEW R2,
           NodeOK(n, c, I, S, L, C, R), NodeOK(n, d, J, S2, L2, C2, R2),
           NEW Q, NEW X, NEW Y, NEW F, Moves(c, d, Q, X, Y, F)
    PROVE  AvailableRgb(d) = AvailableRgb(c) + Worth((X \cap Q) \cup ((Y \ Q) \cup F))
<1> DEFINE A == AddsIn(c)
           A2 == AddsIn(d)
           O == Pays(c.out)
           G == (A \ A2) \ F
           x == X \cap Q
           y == Y \cap Q
           z == Y \ Q
           P == O \ Y
           Fin(Z) == Z \subseteq Payments /\ IsFiniteSet(Z)
<1>1. /\ \A p \in O : p \in Payments /\ PayFrom[p] = n /\ I[p] \in Nat
      /\ \A p \in Pays(c.inb) : p \in Payments /\ PayTo(p) = n
      /\ c \in Channel /\ c.toSelf \in Int /\ IsFiniteSet(O) /\ IsFiniteSet(Pays(c.inb))
  BY PaysPlaced
<1>2. d \in Channel
  BY DEF NodeOK
<1>3. \A p \in A : p \in Payments /\ PayFrom[p] = n /\ I[p] = -1
  BY AddsWait
<1>4. IsFiniteSet(A) /\ IsFiniteSet(A2)
  BY <1>1, <1>2, CellAddsFacts
<1>5. /\ X \subseteq Pays(c.inb) /\ Y \subseteq O /\ A2 \subseteq A /\ F \subseteq A \ A2
      /\ Pays(d.out) = P \cup G
      /\ d.toSelf = c.toSelf + Worth(x) - Worth(y)
  BY DEF Moves
<1>6. /\ AvailableRgb(c) = c.toSelf - Worth(O) - Worth(A)
      /\ AvailableRgb(d) = d.toSelf - Worth(Pays(d.out)) - Worth(A2)
  BY AvailableIs
<1>7. \A p \in Payments : PayTo(p) = n <=> PayFrom[p] # n
  BY PeerFacts
<1> HIDE DEF A, A2, O
<1>8. O \cap A = {}
  BY <1>1, <1>3
<1>9. Fin(O) /\ Fin(A) /\ Fin(Pays(c.inb))
  BY <1>1, <1>3, <1>4
<1>10. ASSUME NEW Z, NEW W, Fin(W), Z \subseteq W PROVE Fin(Z)
  BY <1>10, FS_Subset
<1>11. Fin(x) /\ Fin(y) /\ Fin(z) /\ Fin(P) /\ Fin(F) /\ Fin(G) /\ Fin(A2) /\ Fin(Y)
  <2>1. x \subseteq Pays(c.inb) /\ y \subseteq O /\ z \subseteq O /\ P \subseteq O
        /\ F \subseteq A /\ G \subseteq A /\ A2 \subseteq A /\ Y \subseteq O
    BY <1>5
  <2> HIDE DEF x, y, z, P, G, Fin
  <2> QED BY <1>9, <1>10, <2>1
<1>12. /\ O = P \cup Y /\ P \cap Y = {} /\ Y = y \cup z /\ y \cap z = {}
       /\ P \cap G = {}
       /\ A = A2 \cup (F \cup G) /\ A2 \cap (F \cup G) = {} /\ F \cap G = {}
       /\ z \cap F = {}
  BY <1>5, <1>8
<1>13. x \cap (z \cup F) = {}
  <2>1. \A p \in x : p \in Payments /\ PayTo(p) = n
    BY <1>1, <1>5
  <2>2. \A p \in z \cup F : PayFrom[p] = n
    BY <1>1, <1>3, <1>5
  <2> QED BY <1>7, <2>1, <2>2
<1>14. Fin(F \cup G) /\ Fin(z \cup F)
  BY <1>11, FS_Union
<1>15. \A V, W : Fin(V) /\ Fin(W) /\ V \cap W = {} => Worth(V \cup W) = Worth(V) + Worth(W)
  BY WorthAdds
<1>16. \A V : Fin(V) => Worth(V) \in Int
  BY WorthAdds
<1> HIDE DEF x, y, z, P, G, Fin
<1>17. /\ Worth(O) = Worth(P) + Worth(Y) /\ Worth(Y) = Worth(y) + Worth(z)
       /\ Worth(P \cup G) = Worth(P) + Worth(G)
       /\ Worth(A) = Worth(A2) + Worth(F \cup G) /\ Worth(F \cup G) = Worth(F) + Worth(G)
       /\ Worth(z \cup F) = Worth(z) + Worth(F)
       /\ Worth(x \cup (z \cup F)) = Worth(x) + Worth(z \cup F)
  <2>1. Worth(P \cup Y) = Worth(P) + Worth(Y) /\ Worth(y \cup z) = Worth(y) + Worth(z)
    BY <1>11, <1>12, <1>15
  <2>2. Worth(P \cup G) = Worth(P) + Worth(G) /\ Worth(F \cup G) = Worth(F) + Worth(G)
    BY <1>11, <1>12, <1>15
  <2>3. Worth(A2 \cup (F \cup G)) = Worth(A2) + Worth(F \cup G)
    BY <1>11, <1>12, <1>14, <1>15
  <2>4. /\ Worth(z \cup F) = Worth(z) + Worth(F)
        /\ Worth(x \cup (z \cup F)) = Worth(x) + Worth(z \cup F)
    BY <1>11, <1>12, <1>13, <1>14, <1>15
  <2> QED BY <1>12, <2>1, <2>2, <2>3, <2>4
<1>18. /\ Worth(x) \in Int /\ Worth(y) \in Int /\ Worth(z) \in Int /\ Worth(P) \in Int
       /\ Worth(F) \in Int /\ Worth(G) \in Int /\ Worth(A2) \in Int /\ c.toSelf \in Int
  BY <1>1, <1>11, <1>16
<1>19. AvailableRgb(d) = AvailableRgb(c) + Worth(x \cup (z \cup F))
  <2>1. Worth(Pays(d.out)) = Worth(P) + Worth(G)
    BY <1>5, <1>17
  <2>2. d.toSelf = c.toSelf + Worth(x) - Worth(y)
    BY <1>5
  <2>3. AvailableRgb(c) =
            c.toSelf - (Worth(P) + (Worth(y) + Worth(z))) - (Worth(A2) + (Worth(F) + Worth(G)))
    BY <1>6, <1>17
  <2>4. AvailableRgb(d) =
            (c.toSelf + Worth(x) - Worth(y)) - (Worth(P) + Worth(G)) - Worth(A2)
    BY <1>6, <2>1, <2>2
  <2>5. Worth(x \cup (z \cup F)) = Worth(x) + (Worth(z) + Worth(F))
    BY <1>17
  <2> QED BY ONLY <1>18, <2>3, <2>4, <2>5
<1> QED BY <1>19 DEF x, z

\* A node that stands still can spend what it could.
LEMMA StillAvailable ==
    ASSUME NEW n \in Nodes, NEW c, NEW d, NEW I, NEW S, NEW L, NEW C, NEW R,
           NEW J, NEW S2, NEW L2, NEW C2, NEW R2,
           NodeOK(n, c, I, S, L, C, R), NodeOK(n, d, J, S2, L2, C2, R2),
           NEW Q, Still(c, d, Q)
    PROVE  AvailableRgb(d) = AvailableRgb(c) /\ AddsIn(d) = AddsIn(c)
<1>1. AddsIn(d) = AddsIn(c)
  BY DEF Still, AddsIn, CellAdds
<1>2. /\ AvailableRgb(c) = c.toSelf - Worth(Pays(c.out)) - Worth(AddsIn(c))
      /\ AvailableRgb(d) = d.toSelf - Worth(Pays(d.out)) - Worth(AddsIn(d))
  BY AvailableIs
<1> QED BY <1>1, <1>2 DEF Still

\* Settling is a step of the ledger.
LEMMA SettlesIdeal ==
    ASSUME NEW I, NEW K, NEW N, NEW S, NEW L, NEW C, NEW R, NEW T,
           Decision(I, K, N, S, L, C, R, T),
           NEW J, NEW K2, NEW N2, NEW L2, NEW R2, NEW T2,
           Decision(J, K2, N2, S, L2, C, R2, T2), Settles(K, K2, C)
    PROVE  \E n \in Nodes : \E cr, re \in SUBSET Payments :
            IdealSettle(n, cr, re, StatusMap(K, S, C), SettledSet(K, S, C), SpendMap(K),
                        StatusMap(K2, S, C), SettledSet(K2, S, C), SpendMap(K2))
<1>1. PICK n \in Nodes, X \in SUBSET Payments, Y \in SUBSET Payments, F \in SUBSET Payments :
            Moves(K[n], K2[n], C, X, Y, F) /\ Still(K[Peer(n)], K2[Peer(n)], C)
  BY DEF Settles
<1> DEFINE m == Peer(n)
           c == K[n]
           d == K2[n]
           cr == X \cap C
           re == (Y \ C) \cup F
           St(p) == StatusOf(p, K, S, C)
           St2(p) == StatusOf(p, K2, S, C)
<1>2. /\ m \in Nodes /\ m # n /\ \A x \in Nodes : x = n \/ x = m
      /\ \A p \in Payments : PayFrom[p] \in Nodes /\ PayTo(p) \in Nodes
      /\ \A p \in Payments : PayTo(p) = n <=> PayFrom[p] # n
      /\ \A p \in Payments : PayTo(p) = n <=> PayFrom[p] = m
  BY PeerFacts
<1>3. /\ NodeOK(n, c, I, S, L, C, R) /\ NodeOK(n, d, J, S, L2, C, R2)
      /\ NodeOK(m, K[m], I, S, L, C, R) /\ NodeOK(m, K2[m], J, S, L2, C, R2)
  BY <1>2 DEF Decision
<1>4. /\ \A p \in Pays(c.out) : p \in Payments /\ PayFrom[p] = n /\ I[p] \in Nat
      /\ \A p \in Pays(c.inb) : p \in Payments /\ PayTo(p) = n
      /\ \A p \in AddsIn(c) : p \in Payments /\ p \in S /\ PayFrom[p] = n /\ I[p] = -1
  BY <1>3, PaysPlaced, AddsWait
<1>5. /\ C \subseteq S /\ (\A p \in C : p \notin AddsIn(c))
      /\ \A p \in Payments : I[p] # -1 => p \in S
  <2>1. \A p \in Payments : I[p] # -1 => p \in S
    BY DEF Decision, IdsOK
  <2>2. C \subseteq S /\ (\A p \in C : p \notin AddsIn(K[n]))
    BY ClaimedFacts
  <2> QED BY <2>1, <2>2
<1>6. /\ AvailableRgb(d) = AvailableRgb(c) + Worth(cr \cup re)
      /\ AvailableRgb(K2[m]) = AvailableRgb(K[m]) /\ AddsIn(K2[m]) = AddsIn(K[m])
  <2>1. AvailableRgb(d) = AvailableRgb(c) + Worth(cr \cup re)
    BY <1>1, <1>3, MovesAvailable
  <2>2. AvailableRgb(K2[m]) = AvailableRgb(K[m]) /\ AddsIn(K2[m]) = AddsIn(K[m])
    <3> HIDE DEF m
    <3>1. Still(K[m], K2[m], C)
      BY <1>1 DEF m
    <3> QED BY <1>2, <1>3, <3>1, StillAvailable
  <2> QED BY <2>1, <2>2
<1>7. /\ Moves(c, d, C, X, Y, F) /\ Still(K[m], K2[m], C)
  BY <1>1
<1> HIDE DEF m
<1>8. \A p \in re : p \in Payments /\ PayFrom[p] = n /\ p \in S /\ p \notin C
                    /\ p \in Pays(c.out) \cup AddsIn(c)
  <2>1. Y \subseteq Pays(c.out) /\ F \subseteq AddsIn(c)
    BY <1>7 DEF Moves
  <2> HIDE DEF c, d
  <2> QED BY <1>4, <1>5, <2>1
<1>9. ASSUME NEW p \in Payments
      PROVE  St2(p) = IF p \in re THEN "returned" ELSE St(p)
  <2>1. CASE PayFrom[p] = n
    <3> HIDE DEF c, d, re
    <3>1. p \in Pays(d.out) \cup AddsIn(d)
            <=> (p \in Pays(c.out) /\ p \notin Y) \/ (p \in AddsIn(c) /\ p \notin F)
      BY <1>7 DEF Moves
    <3>2. p \in Pays(c.out) => p \notin AddsIn(c)
      BY <1>4
    <3>3. Y \subseteq Pays(c.out) /\ F \subseteq AddsIn(c)
      BY <1>7 DEF Moves
    <3>4. p \in re <=> (p \in Y /\ p \notin C) \/ p \in F
      BY DEF re
    <3>5. St(p) = IF p \notin S THEN "idle" ELSE IF p \in C THEN "claimed"
                  ELSE IF p \in Pays(c.out) \cup AddsIn(c) THEN "offered" ELSE "returned"
      BY <2>1 DEF StatusOf, c
    <3>6. St2(p) = IF p \notin S THEN "idle" ELSE IF p \in C THEN "claimed"
                   ELSE IF p \in Pays(d.out) \cup AddsIn(d) THEN "offered" ELSE "returned"
      BY <2>1 DEF StatusOf, d
    <3>7. CASE p \in S /\ p \notin C
      BY <3>1, <3>2, <3>3, <3>4, <3>5, <3>6, <3>7
    <3>8. CASE p \notin S \/ p \in C
      BY <1>8, <3>5, <3>6, <3>8
    <3> QED BY <3>7, <3>8
  <2>2. CASE PayFrom[p] # n
    <3>1. PayFrom[p] = m /\ p \notin re
      BY <1>2, <1>8, <2>2
    <3> HIDE DEF re, c, d
    <3>2. Pays(K2[m].out) = Pays(K[m].out)
      BY <1>7 DEF Still
    <3> QED BY <1>6, <3>1, <3>2 DEF StatusOf
  <2> QED BY <2>1, <2>2
<1>10. \A p \in cr : p \in Payments /\ PayTo(p) = n /\ p \in C /\ p \in Pays(c.inb)
  BY <1>4, <1>7 DEF Moves
<1>11. ASSUME NEW p \in C
       PROVE  p \notin Pays(K2[PayTo(p)].inb) <=> p \notin Pays(K[PayTo(p)].inb) \/ p \in cr
  <2>0. p \in Payments
    BY DEF Decision, DecidedOK
  <2>1. CASE PayTo(p) = n
    <3> HIDE DEF c, d
    <3>1. p \in Pays(d.inb) <=> p \in Pays(c.inb) /\ p \notin X
      BY <1>7 DEF Moves
    <3> QED BY <2>1, <3>1 DEF c, d
  <2>2. CASE PayTo(p) # n
    <3>1. PayTo(p) = m /\ p \notin cr
      BY <1>2, <1>10, <2>0, <2>2
    <3>2. p \in Pays(K2[m].inb) <=> p \in Pays(K[m].inb)
      BY <1>7 DEF Still
    <3> QED BY <3>1, <3>2
  <2> QED BY <2>1, <2>2
<1> DEFINE st == StatusMap(K, S, C)
           se == SettledSet(K, S, C)
           sp == SpendMap(K)
           st2 == StatusMap(K2, S, C)
           se2 == SettledSet(K2, S, C)
           sp2 == SpendMap(K2)
<1>12. \A p \in cr : PayTo(p) = n /\ st[p] = "claimed" /\ p \notin se
  <2> SUFFICES ASSUME NEW p \in cr PROVE PayTo(p) = n /\ st[p] = "claimed" /\ p \notin se
    OBVIOUS
  <2>1. p \in Payments /\ PayTo(p) = n /\ p \in C /\ p \in S /\ p \in Pays(K[PayTo(p)].inb)
    BY <1>5, <1>10
  <2>2. St(p) = "claimed"
    BY <2>1 DEF StatusOf
  <2> QED BY <2>1, <2>2 DEF StatusMap, SettledSet
<1>13. \A p \in re : PayFrom[p] = n /\ st[p] = "offered"
  <2> SUFFICES ASSUME NEW p \in re PROVE PayFrom[p] = n /\ st[p] = "offered"
    OBVIOUS
  <2>1. p \in Payments /\ PayFrom[p] = n /\ p \in S /\ p \notin C
        /\ p \in Pays(K[PayFrom[p]].out) \cup AddsIn(K[PayFrom[p]])
    BY <1>8
  <2>2. St(p) = "offered"
    BY <2>1 DEF StatusOf
  <2> QED BY <2>1, <2>2 DEF StatusMap
<1>14. st2 = [p \in Payments |-> IF p \in re THEN "returned" ELSE st[p]]
  <2> HIDE DEF re
  <2> QED BY <1>9 DEF StatusMap
<1>15. se2 = se \cup cr \cup re
  <2>1. cr \subseteq Payments /\ re \subseteq Payments
    BY <1>8, <1>10
  <2>2. ASSUME NEW p \in Payments PROVE p \in se2 <=> p \in se \/ p \in cr \/ p \in re
    <3>1. p \in se <=> St(p) = "returned" \/ (p \in C /\ p \notin Pays(K[PayTo(p)].inb))
      BY DEF SettledSet
    <3>2. p \in se2 <=> St2(p) = "returned" \/ (p \in C /\ p \notin Pays(K2[PayTo(p)].inb))
      BY DEF SettledSet
    <3>3. p \in cr => p \in C
      OBVIOUS
    <3> HIDE DEF St, St2, se, se2, cr, re
    <3> QED BY <1>9, <1>11, <3>1, <3>2, <3>3
  <2>3. se \subseteq Payments /\ se2 \subseteq Payments
    BY DEF SettledSet
  <2> HIDE DEF se, se2, cr, re
  <2> QED BY <2>1, <2>2, <2>3
<1>16. sp2 = [sp EXCEPT ![n] = @ + Worth(cr \cup re)]
  <2> HIDE DEF cr, re
  <2> QED BY <1>2, <1>6 DEF SpendMap
<1>17. cr \in SUBSET Payments /\ re \in SUBSET Payments
  BY <1>8, <1>10
<1> HIDE DEF cr, re, st, se, sp, st2, se2, sp2
<1>18. IdealSettle(n, cr, re, st, se, sp, st2, se2, sp2)
  BY <1>12, <1>13, <1>14, <1>15, <1>16 DEF IdealSettle
<1> QED BY <1>17, <1>18 DEF st, se, sp, st2, se2, sp2

\* Sending is an offer.
LEMMA OffersIdeal ==
    ASSUME NEW I, NEW K, NEW N, NEW S, NEW L, NEW C, NEW R, NEW T,
           Decision(I, K, N, S, L, C, R, T),
           NEW J, NEW K2, NEW N2, NEW S2, NEW L2, NEW R2, NEW T2,
           Decision(J, K2, N2, S2, L2, C, R2, T2), Offers(K, K2, S, S2, C)
    PROVE  \E p \in Payments :
            IdealOffer(p, StatusMap(K, S, C), SettledSet(K, S, C), SpendMap(K),
                       StatusMap(K2, S2, C), SettledSet(K2, S2, C), SpendMap(K2))
<1>1. PICK p \in Payments :
        /\ p \notin S /\ S2 = S \cup {p} /\ Amount[p] <= AvailableRgb(K[PayFrom[p]])
        /\ Sent(K[PayFrom[p]], K2[PayFrom[p]], p) /\ Still(K[PayTo(p)], K2[PayTo(p)], C)
  BY DEF Offers
<1> DEFINE n == PayFrom[p]
           m == PayTo(p)
           c == K[n]
           d == K2[n]
<1>2. /\ n \in Nodes /\ m \in Nodes /\ m # n /\ \A x \in Nodes : x = n \/ x = m
      /\ \A q \in Payments : PayFrom[q] \in Nodes /\ PayTo(q) \in Nodes
  BY PeerFacts
<1>3. /\ NodeOK(n, c, I, S, L, C, R) /\ NodeOK(n, d, J, S2, L2, C, R2)
      /\ NodeOK(m, K[m], I, S, L, C, R) /\ NodeOK(m, K2[m], J, S2, L2, C, R2)
  BY <1>2 DEF Decision
<1>4. C \subseteq S /\ C \subseteq Payments
  BY <1>2, ClaimedFacts
<1>5. \A q \in Payments : I[q] # -1 => q \in S
  BY DEF Decision, IdsOK
<1> HIDE DEF n, m
<1>6. Sent(c, d, p) /\ Still(K[m], K2[m], C) /\ Amount[p] <= AvailableRgb(c)
  BY <1>1 DEF n, m
<1>7. /\ \A q \in Pays(c.out) : q \in Payments /\ I[q] \in Nat
      /\ IsFiniteSet(Pays(c.out)) /\ c \in Channel /\ c.toSelf \in Int
      /\ \A q \in AddsIn(c) : q \in Payments /\ q \in S
  BY <1>2, <1>3, PaysPlaced, AddsWait
<1>8. IsFiniteSet(AddsIn(c))
  BY <1>7, CellAddsFacts
<1>9. p \notin Pays(c.out) /\ p \notin AddsIn(c) /\ p \notin C
  BY <1>1, <1>4, <1>5, <1>7
<1>10. AvailableRgb(K2[m]) = AvailableRgb(K[m]) /\ AddsIn(K2[m]) = AddsIn(K[m])
       /\ Pays(K2[m].out) = Pays(K[m].out)
  <2>1. AvailableRgb(K2[m]) = AvailableRgb(K[m]) /\ AddsIn(K2[m]) = AddsIn(K[m])
    BY <1>2, <1>3, <1>6, StillAvailable
  <2> QED BY <1>6, <2>1 DEF Still
<1>11. AvailableRgb(d) = AvailableRgb(c) - Amount[p]
  <2> DEFINE O == Pays(c.out)
             A == AddsIn(c)
  <2>1. /\ AvailableRgb(c) = c.toSelf - Worth(O) - Worth(A)
        /\ AvailableRgb(d) = d.toSelf - Worth(Pays(d.out)) - Worth(AddsIn(d))
    BY <1>2, <1>3, AvailableIs
  <2>2. O \subseteq Payments /\ A \subseteq Payments
    BY <1>7
  <2>3. IsFiniteSet({p}) /\ {p} \subseteq Payments
    BY FS_Singleton
  <2>4. O \cap {p} = {} /\ A \cap {p} = {}
    BY <1>9
  <2>5. d.toSelf = c.toSelf
        /\ \/ Pays(d.out) = O \cup {p} /\ AddsIn(d) = A
           \/ Pays(d.out) = O /\ AddsIn(d) = A \cup {p}
    BY <1>6 DEF Sent
  <2>6. IsFiniteSet(O) /\ IsFiniteSet(A)
    BY <1>7, <1>8
  <2> HIDE DEF O, A, c, d
  <2>7. Worth(O \cup {p}) = Worth(O) + Worth({p}) /\ Worth(A \cup {p}) = Worth(A) + Worth({p})
    BY <2>2, <2>3, <2>4, <2>6, WorthAdds
  <2>8. Worth({p}) = Amount[p] /\ Worth(O) \in Int /\ Worth(A) \in Int
    BY <2>2, <2>6, WorthAdds
  <2>9. Amount[p] \in Int /\ c.toSelf \in Int
    BY <1>7, ChannelAssumption
  <2>10. CASE Pays(d.out) = O \cup {p} /\ AddsIn(d) = A
    <3>1. AvailableRgb(d) = c.toSelf - (Worth(O) + Amount[p]) - Worth(A)
      BY ONLY <2>1, <2>5, <2>7, <2>8, <2>10
    <3> QED BY ONLY <2>1, <2>8, <2>9, <3>1
  <2>11. CASE Pays(d.out) = O /\ AddsIn(d) = A \cup {p}
    <3>1. AvailableRgb(d) = c.toSelf - Worth(O) - (Worth(A) + Amount[p])
      BY ONLY <2>1, <2>5, <2>7, <2>8, <2>11
    <3> QED BY ONLY <2>1, <2>8, <2>9, <3>1
  <2> QED BY <2>5, <2>10, <2>11
<1> DEFINE st == StatusMap(K, S, C)
           se == SettledSet(K, S, C)
           sp == SpendMap(K)
           st2 == StatusMap(K2, S2, C)
           se2 == SettledSet(K2, S2, C)
           sp2 == SpendMap(K2)
<1>12. ASSUME NEW q \in Payments
       PROVE  StatusOf(q, K2, S2, C) = IF q = p THEN "offered" ELSE StatusOf(q, K, S, C)
  <2> HIDE DEF c, d
  <2>1. CASE q = p
    <3>1. p \in Pays(d.out) \cup AddsIn(d)
      BY <1>6 DEF Sent
    <3>2. p \in Pays(K2[PayFrom[p]].out) \cup AddsIn(K2[PayFrom[p]]) /\ p \in S2
      BY <1>1, <3>1 DEF d, n
    <3> QED BY <1>9, <2>1, <3>2 DEF StatusOf
  <2>2. CASE q # p /\ PayFrom[q] = n
    <3>1. q \in Pays(d.out) \cup AddsIn(d) <=> q \in Pays(c.out) \cup AddsIn(c)
      BY <1>6, <2>2 DEF Sent
    <3>2. q \in Pays(K2[PayFrom[q]].out) \cup AddsIn(K2[PayFrom[q]])
          <=> q \in Pays(K[PayFrom[q]].out) \cup AddsIn(K[PayFrom[q]])
      BY <2>2, <3>1 DEF c, d
    <3>3. q \in S2 <=> q \in S
      BY <1>1, <2>2
    <3> QED BY <2>2, <3>2, <3>3 DEF StatusOf
  <2>3. CASE q # p /\ PayFrom[q] # n
    <3>1. PayFrom[q] = m
      BY <1>2, <2>3
    <3>2. q \in Pays(K2[PayFrom[q]].out) \cup AddsIn(K2[PayFrom[q]])
          <=> q \in Pays(K[PayFrom[q]].out) \cup AddsIn(K[PayFrom[q]])
      BY <1>10, <3>1
    <3>3. q \in S2 <=> q \in S
      BY <1>1, <2>3
    <3> QED BY <2>3, <3>2, <3>3 DEF StatusOf
  <2> QED BY <2>1, <2>2, <2>3
<1>13. StatusOf(p, K, S, C) = "idle"
  BY <1>1 DEF StatusOf
<1>14. st[p] = "idle" /\ Amount[p] <= sp[n]
  BY <1>2, <1>6, <1>13 DEF StatusMap, SpendMap
<1>15. st2 = [st EXCEPT ![p] = "offered"]
  BY <1>12 DEF StatusMap
<1>16. se2 = se
  <2>1. ASSUME NEW q \in C PROVE q \in Pays(K2[PayTo(q)].inb) <=> q \in Pays(K[PayTo(q)].inb)
    <3>1. PayTo(q) \in Nodes
      BY <1>2, <1>4
    <3>2. CASE PayTo(q) = n
      BY <1>6, <3>2 DEF Sent
    <3>3. CASE PayTo(q) = m
      BY <1>6, <3>3 DEF Still
    <3> QED BY <1>2, <3>1, <3>2, <3>3
  <2>2. ASSUME NEW q \in Payments PROVE q \in se2 <=> q \in se
    <3>1. q \in se <=> StatusOf(q, K, S, C) = "returned"
                       \/ (q \in C /\ q \notin Pays(K[PayTo(q)].inb))
      BY DEF SettledSet
    <3>2. q \in se2 <=> StatusOf(q, K2, S2, C) = "returned"
                        \/ (q \in C /\ q \notin Pays(K2[PayTo(q)].inb))
      BY DEF SettledSet
    <3> HIDE DEF se, se2
    <3> QED BY <1>12, <1>13, <2>1, <3>1, <3>2
  <2>3. se \subseteq Payments /\ se2 \subseteq Payments
    BY DEF SettledSet
  <2> HIDE DEF se, se2
  <2> QED BY <2>2, <2>3
<1>17. sp2 = [sp EXCEPT ![n] = @ - Amount[p]]
  BY <1>2, <1>10, <1>11 DEF SpendMap
<1> HIDE DEF st, se, sp, st2, se2, sp2
<1>18. IdealOffer(p, st, se, sp, st2, se2, sp2)
  BY <1>14, <1>15, <1>16, <1>17 DEF IdealOffer, n
<1> QED BY <1>18 DEF st, se, sp, st2, se2, sp2

\* Claiming is a claim.
LEMMA ClaimsIdeal ==
    ASSUME NEW I, NEW K, NEW N, NEW S, NEW L, NEW C, NEW R, NEW T,
           Decision(I, K, N, S, L, C, R, T),
           NEW J, NEW K2, NEW N2, NEW L2, NEW C2, NEW R2, NEW T2,
           Decision(J, K2, N2, S, L2, C2, R2, T2), Claims(K, K2, C, C2)
    PROVE  \E p \in Payments :
            IdealClaim(p, StatusMap(K, S, C), SettledSet(K, S, C), SpendMap(K),
                       StatusMap(K2, S, C2), SettledSet(K2, S, C2), SpendMap(K2))
<1>1. PICK p \in Payments :
        /\ p \notin C /\ C2 = C \cup {p} /\ p \in Pays(K[PayTo(p)].inb)
        /\ p \in Pays(K[PayFrom[p]].out)
        /\ \A n \in Nodes : Moves(K[n], K2[n], C2, {}, {}, {})
  BY DEF Claims
<1>2. \A q \in Payments : PayFrom[q] \in Nodes /\ PayTo(q) \in Nodes
  BY PeerFacts
<1>3. \A n \in Nodes : NodeOK(n, K[n], I, S, L, C, R) /\ NodeOK(n, K2[n], J, S, L2, C2, R2)
  BY DEF Decision
<1>4. p \in S
  <2>1. I[p] \in Nat
    BY <1>1, <1>2, <1>3, PaysPlaced
  <2> QED BY <2>1 DEF Decision, IdsOK
<1>5. ASSUME NEW n \in Nodes PROVE AvailableRgb(K2[n]) = AvailableRgb(K[n])
  <2> DEFINE Z == {}
  <2>1. /\ Moves(K[n], K2[n], C2, Z, Z, Z)
        /\ NodeOK(n, K[n], I, S, L, C, R) /\ NodeOK(n, K2[n], J, S, L2, C2, R2)
    BY <1>1, <1>3
  <2>2. (Z \cap C2) \cup ((Z \ C2) \cup Z) = {}
    OBVIOUS
  <2> HIDE DEF Z
  <2>3. AvailableRgb(K2[n]) = AvailableRgb(K[n]) + Worth((Z \cap C2) \cup ((Z \ C2) \cup Z))
    BY <2>1, MovesAvailable
  <2>4. AvailableRgb(K[n]) \in Int
    BY <2>1, AvailableIs
  <2>5. Worth({}) = 0
    BY WorthAdds
  <2> QED BY <2>2, <2>3, <2>4, <2>5
<1>6. ASSUME NEW q \in Payments
      PROVE  q \in Pays(K2[PayFrom[q]].out) \cup AddsIn(K2[PayFrom[q]])
             <=> q \in Pays(K[PayFrom[q]].out) \cup AddsIn(K[PayFrom[q]])
  <2>1. Moves(K[PayFrom[q]], K2[PayFrom[q]], C2, {}, {}, {})
    BY <1>1, <1>2
  <2> QED BY <2>1 DEF Moves
<1>7. ASSUME NEW q \in C2 PROVE q \in Pays(K2[PayTo(q)].inb) <=> q \in Pays(K[PayTo(q)].inb)
  <2>1. q \in Payments
    BY DEF Decision, DecidedOK
  <2>2. Moves(K[PayTo(q)], K2[PayTo(q)], C2, {}, {}, {})
    BY <1>1, <1>2, <2>1
  <2> QED BY <2>2 DEF Moves
<1>8. ASSUME NEW q \in Payments
      PROVE  StatusOf(q, K2, S, C2) = IF q = p THEN "claimed" ELSE StatusOf(q, K, S, C)
  BY <1>1, <1>4, <1>6 DEF StatusOf
<1>9. StatusOf(p, K, S, C) = "offered"
  BY <1>1, <1>4 DEF StatusOf
<1> DEFINE st == StatusMap(K, S, C)
           se == SettledSet(K, S, C)
           sp == SpendMap(K)
           st2 == StatusMap(K2, S, C2)
           se2 == SettledSet(K2, S, C2)
           sp2 == SpendMap(K2)
<1>10. st[p] = "offered" /\ st2 = [st EXCEPT ![p] = "claimed"]
  BY <1>8, <1>9 DEF StatusMap
<1>11. sp2 = sp
  BY <1>5 DEF SpendMap
<1>12. se2 = se
  <2>1. ASSUME NEW q \in Payments PROVE q \in se2 <=> q \in se
    <3>1. q \in se <=> StatusOf(q, K, S, C) = "returned"
                       \/ (q \in C /\ q \notin Pays(K[PayTo(q)].inb))
      BY DEF SettledSet
    <3>2. q \in se2 <=> StatusOf(q, K2, S, C2) = "returned"
                        \/ (q \in C2 /\ q \notin Pays(K2[PayTo(q)].inb))
      BY DEF SettledSet
    <3> HIDE DEF se, se2
    <3> QED BY <1>1, <1>7, <1>8, <1>9, <3>1, <3>2
  <2>2. se \subseteq Payments /\ se2 \subseteq Payments
    BY DEF SettledSet
  <2> HIDE DEF se, se2
  <2> QED BY <2>1, <2>2
<1> HIDE DEF st, se, sp, st2, se2, sp2
<1>13. IdealClaim(p, st, se, sp, st2, se2, sp2)
  BY <1>10, <1>11, <1>12 DEF IdealClaim
<1> QED BY <1>13 DEF st, se, sp, st2, se2, sp2

\* A step of IdealChannel between states given by their values.
IdealNext(st, se, sp, st2, se2, sp2) ==
    \/ \E p \in Payments : \/ IdealOffer(p, st, se, sp, st2, se2, sp2)
                           \/ IdealClaim(p, st, se, sp, st2, se2, sp2)
    \/ \E n \in Nodes : \E cr, re \in SUBSET Payments :
            IdealSettle(n, cr, re, st, se, sp, st2, se2, sp2)

\* A step of the channel, seen through the mapping, is one of the ledger.
LEMMA LedgerIdeal ==
    ASSUME NEW I, NEW K, NEW N, NEW S, NEW L, NEW C, NEW R, NEW T,
           Decision(I, K, N, S, L, C, R, T),
           NEW K2, NEW N2, NEW S2, NEW L2, NEW C2, NEW R2, NEW T2,
           After(K, S, C, K2, N2, S2, L2, C2, R2, T2)
    PROVE  IdealNext(StatusMap(K, S, C), SettledSet(K, S, C), SpendMap(K),
                     StatusMap(K2, S2, C2), SettledSet(K2, S2, C2), SpendMap(K2))
<1>1. PICK J : Decision(J, K2, N2, S2, L2, C2, R2, T2)
  BY DEF After
<1>2. CASE S2 = S /\ C2 = C /\ Settles(K, K2, C)
  BY <1>1, <1>2, SettlesIdeal DEF IdealNext
<1>3. CASE C2 = C /\ Offers(K, K2, S, S2, C)
  BY <1>1, <1>3, OffersIdeal DEF IdealNext
<1>4. CASE S2 = S /\ Claims(K, K2, C, C2)
  BY <1>1, <1>4, ClaimsIdeal DEF IdealNext
<1> QED BY <1>2, <1>3, <1>4 DEF After, LedgerStep

\* The mapping of RgbChannel is the one above.
SettledNow == {p \in Payments : \/ LedgerStatus[p] = "returned"
                                \/ /\ p \in claimed
                                   /\ \A h \in ch[PayTo(p)].inb : h.pay # p}
SpendableNow == [n \in Nodes |-> AvailableRgb(ch[n])]

\* The mapping, in the state before a step,
LEMMA MappedNow ==
    /\ LedgerStatus = StatusMap(ch, started, claimed)
    /\ SettledNow = SettledSet(ch, started, claimed)
    /\ SpendableNow = SpendMap(ch)
<1>1. LedgerStatus = StatusMap(ch, started, claimed)
  BY DEF LedgerStatus, StatusMap, StatusOf, Pays
<1>2. \A p \in Payments : LedgerStatus[p] = StatusOf(p, ch, started, claimed)
  BY <1>1 DEF StatusMap
<1>3. SettledNow = SettledSet(ch, started, claimed)
  BY <1>2 DEF SettledNow, SettledSet, Pays
<1> QED BY <1>1, <1>3 DEF SpendableNow, SpendMap

\* and in the state after it.
LEMMA MappedThen ==
    /\ LedgerStatus' = StatusMap(ch', started', claimed')
    /\ SettledNow' = SettledSet(ch', started', claimed')
    /\ SpendableNow' = SpendMap(ch')
<1>1. LedgerStatus' = StatusMap(ch', started', claimed')
  BY DEF LedgerStatus, StatusMap, StatusOf, Pays
<1>2. \A p \in Payments : LedgerStatus'[p] = StatusOf(p, ch', started', claimed')
  BY <1>1 DEF StatusMap
<1>3. SettledNow' = SettledSet(ch', started', claimed')
  BY <1>2 DEF SettledNow, SettledSet, Pays
<1> QED BY <1>1, <1>3 DEF SpendableNow, SpendMap

\* The ledger adds amounts up as Worth does.
LEMMA LedgerTotal ==
    ASSUME NEW Z
    PROVE  Ledger!Total(Z) = Worth(Z)
<1>1. Worth(Z) = (CHOOSE g : IsSum(Amount, Z, g))[Z]
  BY SumUnfolded DEF Worth
<1>2. Ledger!Total(Z) = (CHOOSE g : IsSum(Amount, Z, g))[Z]
  BY DEF Ledger!Total, Ledger!MapThenSumSet, Ledger!MapThenFoldSet, IsSum, Taken
<1> QED BY <1>1, <1>2

(* Every behaviour of the channel is one of the ideal ledger: money is     *)
(* offered out of what the payer can spend, decided once, and spendable    *)
(* again once, at the node it belongs to.                                  *)
THEOREM LedgerRefined == Spec => ImplementsLedger
<1>1. Init => Ledger!Init
  <2> SUFFICES ASSUME Init PROVE Ledger!Init
    OBVIOUS
  <2>1. /\ started = {} /\ claimed = {} /\ ch = [n \in Nodes |-> ch[n]]
        /\ \A n \in Nodes : /\ ch[n].toSelf = Start(n) /\ ch[n].out = {}
                            /\ ch[n].cell = <<>>
    BY DEF Init
  <2>2. LedgerStatus = [p \in Payments |-> "idle"]
    BY <2>1 DEF LedgerStatus
  <2>3. SettledNow = {}
    BY <2>1, <2>2 DEF SettledNow
  <2>4. SpendableNow = [n \in Nodes |-> Start(n)]
    <3> SUFFICES ASSUME NEW n \in Nodes PROVE AvailableRgb(ch[n]) = Start(n)
      BY DEF SpendableNow
    <3>1. PICK I : Before(I)
      BY InitDecision DEF DecisionInv, Before
    <3>2. AvailableRgb(ch[n]) = ch[n].toSelf - Worth(Pays(ch[n].out)) - Worth(AddsIn(ch[n]))
      BY <3>1, AvailableIs DEF Before, Decision
    <3>3. Pays(ch[n].out) = {} /\ AddsIn(ch[n]) = {}
      BY <2>1 DEF Pays, AddsIn, CellAdds, ToSet
    <3>4. Worth({}) = 0 /\ Start(n) \in Int
      BY WorthAdds, ChannelAssumption DEF Start
    <3>5. ch[n].toSelf = Start(n)
      BY <2>1
    <3>6. AvailableRgb(ch[n]) = Start(n) - 0 - 0
      BY ONLY <3>2, <3>3, <3>4, <3>5
    <3> QED BY ONLY <3>4, <3>6
  <2> QED BY <2>2, <2>3, <2>4 DEF Ledger!Init, SettledNow, SpendableNow
<1>2. DecisionInv /\ [Next]_vars => [Ledger!Next]_(Ledger!vars)
  <2> SUFFICES ASSUME DecisionInv, [Next]_vars PROVE [Ledger!Next]_(Ledger!vars)
    OBVIOUS
  <2>1. CASE vars' = vars
    <3>1. ch' = ch /\ started' = started /\ claimed' = claimed
      BY <2>1 DEF vars
    <3>2. LedgerStatus' = LedgerStatus /\ SettledNow' = SettledNow
          /\ SpendableNow' = SpendableNow
      BY <3>1, MappedNow, MappedThen
    <3> QED BY <3>2 DEF Ledger!vars, SettledNow, SpendableNow
  <2>2. CASE Next
    <3>1. PICK I : Before(I)
      BY DEF DecisionInv, Before
    <3>2. Stepped
      BY <2>2, <3>1, NextStep
    <3>3. IdealNext(StatusMap(ch, started, claimed), SettledSet(ch, started, claimed),
                    SpendMap(ch), StatusMap(ch', started', claimed'),
                    SettledSet(ch', started', claimed'), SpendMap(ch'))
      <4>1. \A K2, N2, S2, L2, C2, R2, T2 :
                After(ch, started, claimed, K2, N2, S2, L2, C2, R2, T2) =>
                IdealNext(StatusMap(ch, started, claimed), SettledSet(ch, started, claimed),
                          SpendMap(ch), StatusMap(K2, S2, C2), SettledSet(K2, S2, C2),
                          SpendMap(K2))
        BY <3>1, LedgerIdeal DEF Before
      <4> QED BY <3>2, <4>1 DEF Stepped
    <3>4. IdealNext(LedgerStatus, SettledNow, SpendableNow,
                    LedgerStatus', SettledNow', SpendableNow')
      BY <3>3, MappedNow, MappedThen
    <3>5. ASSUME NEW p \in Payments,
                 IdealOffer(p, LedgerStatus, SettledNow, SpendableNow,
                            LedgerStatus', SettledNow', SpendableNow')
          PROVE  Ledger!Offer(p)
      BY <3>5 DEF IdealOffer, Ledger!Offer, SettledNow, SpendableNow
    <3>6. ASSUME NEW p \in Payments,
                 IdealClaim(p, LedgerStatus, SettledNow, SpendableNow,
                            LedgerStatus', SettledNow', SpendableNow')
          PROVE  Ledger!Claim(p)
      BY <3>6 DEF IdealClaim, Ledger!Claim, SettledNow, SpendableNow
    <3>7. ASSUME NEW n \in Nodes, NEW cr \in SUBSET Payments, NEW re \in SUBSET Payments,
                 IdealSettle(n, cr, re, LedgerStatus, SettledNow, SpendableNow,
                             LedgerStatus', SettledNow', SpendableNow')
          PROVE  Ledger!Settle(n, cr, re)
      <4>1. Ledger!Total(cr \cup re) = Worth(cr \cup re)
        BY LedgerTotal
      <4>2. \A p \in cr : [q \in Payments |-> PayTo(q)][p] = PayTo(p)
        OBVIOUS
      <4> QED BY <3>7, <4>1, <4>2 DEF IdealSettle, Ledger!Settle, SettledNow, SpendableNow
    <3>8. Ledger!Next
      BY <3>4, <3>5, <3>6, <3>7 DEF IdealNext, Ledger!Next
    <3> QED BY <3>8
  <2> QED BY <2>1, <2>2
<1> QED BY <1>1, <1>2, DecisionHolds, PTL DEF Spec, ImplementsLedger, Ledger!Spec
=============================================================================
