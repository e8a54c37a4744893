-------------------------- MODULE RgbChannelDance -----------------------------
(*****************************************************************************)
(* How the two nodes of RgbChannel keep in step: one direction of the        *)
(* commitment dance, as a relation between the sender, its queue and the     *)
(* receiver. Link says which messages may be on their way and what each      *)
(* node still owes, Adds and Rems which updates, Pair in which two states    *)
(* the HTLC of one payment may be, OutputsOf which commitments hold it.      *)
(* The lemmas show what each kind of change to a node or to its queue does   *)
(* to them; RgbChannelDanceProofs turns the actions of the channel into      *)
(* those changes.                                                            *)
(*****************************************************************************)
EXTENDS RgbChannelProofs

-----------------------------------------------------------------------------
(* The states the invariant speaks of.                                     *)

\* The state of p's HTLC in a set of HTLCs, or none.
StOf(htlcs, p) ==
    IF \E h \in htlcs : h.pay = p THEN (CHOOSE h \in htlcs : h.pay = p).st ELSE "none"

\* The state of p's HTLC among those a node offers.
OutSt(c, p) == StOf(c.out, p)

\* The state of p's HTLC among those offered to a node.
InSt(c, p) == StOf(c.inb, p)

\* The id of p's HTLC.
IdOf(htlcs, p) == (CHOOSE h \in htlcs : h.pay = p).id

\* The id of p's HTLC among those a node offers.
OutId(c, p) == IdOf(c.out, p)

\* The id of p's HTLC among those offered to a node.
InId(c, p) == IdOf(c.inb, p)

\* The messages that announce what the next commitment_signed covers.
Upd == {"add", "fulfil", "fail"}

\* The messages that resolve an HTLC.
Rem == {"fulfil", "fail"}

\* A message of one of the kinds T is on its way.
Has(q, T) == \E i \in 1 .. Len(q) : q[i].t \in T

\* At most one message of kind t is on its way.
One(q, t) == \A i, j \in 1 .. Len(q) : q[i].t = t /\ q[j].t = t => i = j

\* Every message of the kinds T arrives before any of the kinds U.
Precedes(q, T, U) == \A i, j \in 1 .. Len(q) : q[i].t \in T /\ q[j].t \in U => i < j

\* A message of one of the kinds T about the HTLC with this id is on its way.
Carries(q, T, id) == \E i \in 1 .. Len(q) : q[i].t \in T /\ q[i].id = id

\* No two messages of the kinds T are about the same HTLC.
Distinct(q, T) == \A i, j \in 1 .. Len(q) :
    q[i].t \in T /\ q[j].t \in T /\ q[i].id = q[j].id => i = j

\* Additions arrive in the order of their ids.
Rising(q) == \A i, j \in 1 .. Len(q) :
    q[i].t = "add" /\ q[j].t = "add" /\ i < j => q[i].id < q[j].id

\* Every commitment_signed on its way signs tx.
Signed(q, tx) == \A i \in 1 .. Len(q) : q[i].t = "cs" => q[i].tx = tx

\* Every revoke_and_ack on its way reveals the secret of commitment k.
Reveals(q, k) == \A i \in 1 .. Len(q) : q[i].t = "raa" => q[i].num = k

\* A channel_reestablish is the first message, and it is m.
Resumes(q, m) == \A i \in 1 .. Len(q) : q[i].t = "reestablish" => i = 1 /\ q[i] = m

\* c has built a commitment for d's node that has not arrived there.
OwesCs(c, d) == c.awaitRaa /\ d.holderNum = c.cpNum

\* c has accepted a commitment and d's node does not know the one before is revoked.
OwesRaa(c, d) == c.holderNum = d.cpNum + 1

\* c resends its revocation before its commitment.
RaaFirst(c) == c.order = "RevokeAndACKFirst"

\* The commitment counters of two channels are at most one apart, and only when an answer is
\* awaited.
Turns(c, d) == d.holderNum = c.cpNum \/ (d.holderNum = c.cpNum + 1 /\ c.awaitRaa)

\* What c owes is held back by its monitor, or in the queue q to d's node, never both, unless the
\* connection was lost.
Pending(c, d, q) ==
    /\ c.pendCs => c.monBusy /\ OwesCs(c, d) /\ ~Has(q, {"cs"})
    /\ c.pendRaa => c.monBusy /\ OwesRaa(c, d) /\ ~Has(q, {"raa"})
    /\ ~c.disc /\ OwesCs(c, d) => c.pendCs \/ Has(q, {"cs"})
    /\ ~c.disc /\ OwesRaa(c, d) => c.pendRaa \/ Has(q, {"raa"})
    /\ Has(q, {"cs"}) => OwesCs(c, d)
    /\ Has(q, {"raa"}) => OwesRaa(c, d)

\* A queue starts with the reestablish its receiver waits for, and a lost connection carries
\* nothing.
Connected(c, d, q, k) ==
    /\ c.disc => \A i \in 1 .. Len(q) : q[i].t = "reestablish"
    /\ Resumes(q, get_channel_reestablish(c))
    /\ Has(q, {"reestablish"}) => d.disc
    /\ k = "up" /\ d.disc => q # <<>> /\ Head(q).t = "reestablish"
    /\ k # "up" => q = <<>> /\ c.disc

\* A queue holds at most one commitment with the updates it covers before it, and one revocation,
\* in c's resend order.
Line(c, q) ==
    /\ One(q, "cs") /\ One(q, "raa")
    /\ Has(q, Upd) => Has(q, {"cs"})
    /\ Precedes(q, Upd, {"cs"})
    /\ Reveals(q, c.holderNum - 2)
    /\ RaaFirst(c) => Precedes(q, {"raa"}, {"cs"})
    /\ ~RaaFirst(c) => Precedes(q, {"cs"}, {"raa"})
    /\ c.pendCs /\ Has(q, {"raa"}) => RaaFirst(c)
    /\ c.pendRaa /\ Has(q, {"cs"}) => ~RaaFirst(c)

\* How far the commitment protocol has come between c, the queue q to its peer, and the peer's d.
Link(c, d, q, k) == Turns(c, d) /\ Pending(c, d, q) /\ Connected(c, d, q, k) /\ Line(c, q)

\* The additions of c that d has not taken in are the ids from d.nextCpId on, in q in their order
\* if a commitment is.
Adds(c, d, q) ==
    /\ d.nextCpId <= c.nextId
    /\ \A i \in d.nextCpId .. c.nextId - 1 : \E p \in Payments : OutSt(c, p) # "none" /\ OutId(c, p) = i
    /\ \A p \in Payments : OutSt(c, p) # "none" =>
            (OutId(c, p) >= d.nextCpId <=> OutSt(c, p) = "LocalAnnounced" /\ InSt(d, p) = "none")
    /\ Rising(q)
    /\ \A id \in Nat : Carries(q, {"add"}, id) <=> Has(q, {"cs"}) /\ d.nextCpId <= id /\ id < c.nextId
    /\ (\E p \in Payments : InSt(d, p) = "RemoteAnnounced") => Has(q, {"cs"})

\* The removals on their way are those of c that d has not taken in, each of them once.
Rems(c, d, q) ==
    /\ Distinct(q, Rem)
    /\ \A id \in Nat : Carries(q, Rem, id) => \E p \in Payments :
            InId(c, p) = id /\ InSt(c, p) = "LocalRemoved" /\ OutSt(d, p) = "Committed"
    /\ Has(q, {"cs"}) => \A p \in Payments :
            InSt(c, p) = "LocalRemoved" /\ OutSt(d, p) = "Committed" => Carries(q, Rem, InId(c, p))
    /\ (\E p \in Payments : OutSt(d, p) = "RemoteRemoved") => Has(q, {"cs"})

\* cx: x owes a commitment_signed, rx: a revoke_and_ack, fx: the latter first
Pair(so, si, cx, rx, fx, cy, ry, fy) ==
    \/ so = "none" /\ si = "none"
    \/ so = "LocalAnnounced" /\ si \in {"none", "RemoteAnnounced"} /\ cx
    \/ so = "LocalAnnounced" /\ si = "AwaitingRemoteRevokeToAnnounce" /\ ry /\ (rx \/ (cy /\ ~fy))
    \/ so = "LocalAnnounced" /\ si = "AwaitingAnnouncedRemoteRevoke" /\ ry /\ cy /\ fy
    \/ so = "Committed" /\ si = "AwaitingRemoteRevokeToAnnounce" /\ rx
    \/ so = "Committed" /\ si = "AwaitingAnnouncedRemoteRevoke" /\ (cy \/ rx)
    \/ so = "Committed" /\ si = "Committed"
    \/ so \in {"Committed", "RemoteRemoved"} /\ si = "LocalRemoved" /\ cy
    \/ so = "AwaitingRemoteRevokeToRemove" /\ si = "LocalRemoved" /\ rx /\ (ry \/ (cx /\ ~fx))
    \/ so = "AwaitingRemovedRemoteRevoke" /\ si = "LocalRemoved" /\ rx /\ cx /\ fx
    \/ so = "AwaitingRemoteRevokeToRemove" /\ si = "none" /\ ry
    \/ so = "AwaitingRemovedRemoteRevoke" /\ si = "none" /\ (cx \/ ry)

\* The states of p's HTLC on both sides, given what is owed.
PairOf(c, d, p) ==
    Pair(OutSt(c, p), InSt(d, p), OwesCs(c, d), OwesRaa(c, d), RaaFirst(c),
         OwesCs(d, c), OwesRaa(d, c), RaaFirst(d))

\* p's payer has channel c, the payee d: what their transactions hold
OutputsOf(c, d, p) ==
    /\ InSt(d, p) \notin {"none", "RemoteAnnounced"} => p \in d.txs.cur.htlcs
    /\ p \in c.txs.cur.htlcs => OutSt(c, p) \in {"Committed", "RemoteRemoved"}
    /\ InSt(d, p) = "Committed" => p \in c.txs.cur.htlcs
    /\ InSt(d, p) = "Committed" /\ OwesRaa(c, d) => p \in c.txs.prev.htlcs
    /\ InSt(d, p) = "AwaitingAnnouncedRemoteRevoke" /\ OwesRaa(c, d) => p \in c.txs.cur.htlcs
    /\ p \in d.txs.cur.htlcs => OutSt(c, p) # "none"
    /\ p \in d.txs.cur.htlcs /\ OutSt(c, p) = "AwaitingRemovedRemoteRevoke" => OwesCs(c, d)
    /\ p \in d.txs.prev.htlcs /\ OwesRaa(d, c) => OutSt(c, p) # "none"

\* The numbers of the holder commitments that c keeps.
Numbers(c, d) ==
    /\ c.txs.cur.num = c.holderNum - 1
    /\ c.txs.prev.num = c.holderNum - 2 \/ c.txs.prev = c.txs.cur
    /\ OwesRaa(c, d) => c.txs.prev.num = c.holderNum - 2

\* Whether the connection is up.
Wire == IF conn THEN "up" ELSE "down"

\* Neither node is done with the channel.
BothOpen == \A n \in Nodes : ch[n].fate = "open"

-----------------------------------------------------------------------------
(* Queues: taking the head, appending, losing everything.                  *)

\* The elements of two queues in a row.
LEMMA Spliced ==
    ASSUME NEW M, NEW q \in Seq(M), NEW s \in Seq(M)
    PROVE  /\ q \o s \in Seq(M) /\ Len(q \o s) = Len(q) + Len(s)
           /\ Len(q) \in Nat /\ Len(s) \in Nat
           /\ \A i \in 1 .. Len(q) : i \in 1 .. Len(q \o s) /\ (q \o s)[i] = q[i]
           /\ \A i \in 1 .. Len(s) : Len(q) + i \in 1 .. Len(q \o s) /\ (q \o s)[Len(q) + i] = s[i]
           /\ \A i \in 1 .. Len(q \o s) :
                \/ i \in 1 .. Len(q)
                \/ i > Len(q) /\ i - Len(q) \in 1 .. Len(s) /\ (q \o s)[i] = s[i - Len(q)]
  OBVIOUS

\* The elements of a queue without its head.
LEMMA Popped ==
    ASSUME NEW M, NEW q \in Seq(M), q # <<>>
    PROVE  /\ Tail(q) \in Seq(M) /\ Len(Tail(q)) = Len(q) - 1 /\ Len(q) \in Nat
           /\ 1 \in 1 .. Len(q) /\ q[1] = Head(q)
           /\ \A i \in 1 .. Len(Tail(q)) : i + 1 \in 1 .. Len(q) /\ Tail(q)[i] = q[i + 1]
           /\ \A i \in 1 .. Len(q) : i # 1 => i - 1 \in 1 .. Len(Tail(q)) /\ Tail(q)[i - 1] = q[i]
  OBVIOUS

\* What is in two queues in a row.
LEMMA CatHas ==
    ASSUME NEW M, NEW q \in Seq(M), NEW s \in Seq(M)
    PROVE  /\ \A T : Has(q \o s, T) <=> Has(q, T) \/ Has(s, T)
           /\ \A T, id : Carries(q \o s, T, id) <=> Carries(q, T, id) \/ Carries(s, T, id)
<1> DEFINE n == Len(q)
           u == q \o s
<1>0. /\ \A i \in 1 .. Len(u) :
            \/ i \in 1 .. n /\ u[i] = q[i]
            \/ i - n \in 1 .. Len(s) /\ u[i] = s[i - n]
      /\ \A i \in 1 .. n : i \in 1 .. Len(u) /\ u[i] = q[i]
      /\ \A i \in 1 .. Len(s) : n + i \in 1 .. Len(u) /\ u[n + i] = s[i]
  BY Spliced
<1> HIDE DEF n, u
<1>1. ASSUME NEW T PROVE Has(u, T) <=> Has(q, T) \/ Has(s, T)
  <2>1. Has(u, T) => Has(q, T) \/ Has(s, T)
    BY <1>0 DEF Has, n
  <2>2. Has(q, T) => Has(u, T)
    BY <1>0 DEF Has, n
  <2>3. Has(s, T) => Has(u, T)
    BY <1>0 DEF Has
  <2> QED BY <2>1, <2>2, <2>3
<1>2. ASSUME NEW T, NEW id PROVE Carries(u, T, id) <=> Carries(q, T, id) \/ Carries(s, T, id)
  <2>1. Carries(u, T, id) => Carries(q, T, id) \/ Carries(s, T, id)
    BY <1>0 DEF Carries, n
  <2>2. Carries(q, T, id) => Carries(u, T, id)
    BY <1>0 DEF Carries, n
  <2>3. Carries(s, T, id) => Carries(u, T, id)
    BY <1>0 DEF Carries
  <2> QED BY <2>1, <2>2, <2>3
<1> QED BY <1>1, <1>2 DEF u

\* What is in a queue without its head.
LEMMA TailHas ==
    ASSUME NEW M, NEW q \in Seq(M), q # <<>>
    PROVE  /\ \A T : Has(q, T) <=> Head(q).t \in T \/ Has(Tail(q), T)
           /\ \A T, id : Carries(q, T, id) <=> \/ Head(q).t \in T /\ Head(q).id = id
                                               \/ Carries(Tail(q), T, id)
<1> DEFINE u == Tail(q)
           m == Head(q)
<1>0. /\ 1 \in 1 .. Len(q) /\ q[1] = m
      /\ \A i \in 1 .. Len(u) : i + 1 \in 1 .. Len(q) /\ u[i] = q[i + 1]
      /\ \A i \in 1 .. Len(q) : i = 1 \/ (i - 1 \in 1 .. Len(u) /\ u[i - 1] = q[i])
  BY Popped
<1> HIDE DEF u, m
<1>1. ASSUME NEW T PROVE Has(q, T) <=> m.t \in T \/ Has(u, T)
  <2>1. Has(q, T) => m.t \in T \/ Has(u, T)
    BY <1>0 DEF Has
  <2>2. m.t \in T => Has(q, T)
    BY <1>0 DEF Has
  <2>3. Has(u, T) => Has(q, T)
    BY <1>0 DEF Has
  <2> QED BY <2>1, <2>2, <2>3
<1>2. ASSUME NEW T, NEW id
      PROVE  Carries(q, T, id) <=> (m.t \in T /\ m.id = id) \/ Carries(u, T, id)
  <2>1. Carries(q, T, id) => (m.t \in T /\ m.id = id) \/ Carries(u, T, id)
    BY <1>0 DEF Carries
  <2>2. m.t \in T /\ m.id = id => Carries(q, T, id)
    BY <1>0 DEF Carries
  <2>3. Carries(u, T, id) => Carries(q, T, id)
    BY <1>0 DEF Carries
  <2> QED BY <2>1, <2>2, <2>3
<1> QED BY <1>1, <1>2 DEF u, m

\* Nothing is in an empty queue.
LEMMA EmptyHas ==
    /\ \A T : ~Has(<<>>, T)
    /\ \A T, id : ~Carries(<<>>, T, id)
  BY DEF Has, Carries

\* Order in a queue without its head.
LEMMA TailOrder ==
    ASSUME NEW M, NEW q \in Seq(M), q # <<>>
    PROVE  /\ \A t : One(q, t) => One(Tail(q), t) /\ (Head(q).t = t => ~Has(Tail(q), {t}))
           /\ \A T, U : Precedes(q, T, U) =>
                /\ Precedes(Tail(q), T, U)
                /\ Head(q).t \in U => ~Has(q, T)
           /\ \A T : Distinct(q, T) =>
                /\ Distinct(Tail(q), T)
                /\ Head(q).t \in T => ~Carries(Tail(q), T, Head(q).id)
           /\ Rising(q) => /\ Rising(Tail(q))
                           /\ Head(q).t = "add" =>
                                \A i \in 1 .. Len(Tail(q)) :
                                    Tail(q)[i].t = "add" => Head(q).id < Tail(q)[i].id
           /\ \A tx : Signed(q, tx) => Signed(Tail(q), tx) /\ (Head(q).t = "cs" => Head(q).tx = tx)
           /\ \A k : Reveals(q, k) => Reveals(Tail(q), k) /\ (Head(q).t = "raa" => Head(q).num = k)
           /\ \A m : Resumes(q, m) =>
                ~Has(Tail(q), {"reestablish"}) /\ (Head(q).t = "reestablish" => Head(q) = m)
<1>0. /\ Len(Tail(q)) = Len(q) - 1 /\ Len(q) \in Nat
      /\ 1 \in 1 .. Len(q) /\ q[1] = Head(q)
      /\ \A i \in 1 .. Len(Tail(q)) : i + 1 \in 1 .. Len(q) /\ Tail(q)[i] = q[i + 1]
  BY Popped
<1>1. \A i \in 1 .. Len(Tail(q)) : i + 1 # 1 /\ 1 < i + 1 /\ i \in Int
  BY <1>0
<1>2. \A i, j \in 1 .. Len(Tail(q)) : (i + 1 = j + 1 => i = j) /\ (i + 1 < j + 1 => i < j)
  BY <1>0
<1>2a. \A i, j \in 1 .. Len(Tail(q)) : i < j => i + 1 < j + 1
  BY <1>0
<1>3. ASSUME NEW t, One(q, t)
      PROVE  One(Tail(q), t) /\ (Head(q).t = t => ~Has(Tail(q), {t}))
  BY <1>0, <1>1, <1>2, <1>3 DEF One, Has
<1>4. ASSUME NEW T, NEW U, Precedes(q, T, U)
      PROVE  Precedes(Tail(q), T, U) /\ (Head(q).t \in U => ~Has(q, T))
  <2>1. Precedes(Tail(q), T, U)
    BY <1>0, <1>2, <1>4 DEF Precedes
  <2>2. \A i \in 1 .. Len(q) : ~(i < 1)
    BY <1>0
  <2> QED BY <1>0, <1>4, <2>1, <2>2 DEF Precedes, Has
<1>5. ASSUME NEW T, Distinct(q, T)
      PROVE  Distinct(Tail(q), T) /\ (Head(q).t \in T => ~Carries(Tail(q), T, Head(q).id))
  BY <1>0, <1>1, <1>2, <1>5 DEF Distinct, Carries
<1>6. ASSUME Rising(q)
      PROVE  /\ Rising(Tail(q))
             /\ Head(q).t = "add" => \A i \in 1 .. Len(Tail(q)) :
                    Tail(q)[i].t = "add" => Head(q).id < Tail(q)[i].id
  <2>1. Rising(Tail(q))
    BY <1>0, <1>2a, <1>6 DEF Rising
  <2> QED BY <1>0, <1>1, <1>6, <2>1 DEF Rising
<1>7. ASSUME NEW tx, Signed(q, tx)
      PROVE  Signed(Tail(q), tx) /\ (Head(q).t = "cs" => Head(q).tx = tx)
  BY <1>0, <1>7 DEF Signed
<1>8. ASSUME NEW k, Reveals(q, k)
      PROVE  Reveals(Tail(q), k) /\ (Head(q).t = "raa" => Head(q).num = k)
  BY <1>0, <1>8 DEF Reveals
<1>9. ASSUME NEW m, Resumes(q, m)
      PROVE  ~Has(Tail(q), {"reestablish"}) /\ (Head(q).t = "reestablish" => Head(q) = m)
  BY <1>0, <1>1, <1>9 DEF Resumes, Has
<1> QED BY <1>3, <1>4, <1>5, <1>6, <1>7, <1>8, <1>9

\* Order in two queues in a row.
LEMMA CatOrder ==
    ASSUME NEW M, NEW q \in Seq(M), NEW s \in Seq(M)
    PROVE  /\ \A t : One(q, t) /\ One(s, t) /\ ~(Has(q, {t}) /\ Has(s, {t})) => One(q \o s, t)
           /\ \A T, U : Precedes(q, T, U) /\ Precedes(s, T, U) /\ ~(Has(q, U) /\ Has(s, T))
                => Precedes(q \o s, T, U)
           /\ \A T : Distinct(q, T) /\ Distinct(s, T) /\ ~(Has(q, T) /\ Has(s, T))
                => Distinct(q \o s, T)
           /\ Rising(q) /\ Rising(s) /\ ~(Has(q, {"add"}) /\ Has(s, {"add"})) => Rising(q \o s)
           /\ \A tx : Signed(q, tx) /\ Signed(s, tx) => Signed(q \o s, tx)
           /\ \A k : Reveals(q, k) /\ Reveals(s, k) => Reveals(q \o s, k)
           /\ \A m : Resumes(q, m) /\ ~Has(s, {"reestablish"}) => Resumes(q \o s, m)
<1> DEFINE n == Len(q)
           u == q \o s
<1>0. /\ n \in Nat /\ Len(s) \in Nat
      /\ \A i \in 1 .. Len(u) :
            \/ i \in 1 .. n /\ u[i] = q[i]
            \/ i > n /\ i \in Int /\ i - n \in 1 .. Len(s) /\ u[i] = s[i - n]
  BY Spliced
<1>1. \A i, j \in Int : (i - n = j - n => i = j) /\ (i - n < j - n <=> i < j)
  BY <1>0
<1>2. \A i \in 1 .. n : \A j \in Int : j > n => i < j /\ i # j /\ ~(j < i)
  BY <1>0
<1>2a. \A i \in 1 .. n : i \in Int
  OBVIOUS
<1> HIDE DEF n, u
<1>3. ASSUME NEW t, One(q, t), One(s, t), ~(Has(q, {t}) /\ Has(s, {t})) PROVE One(u, t)
  <2> SUFFICES ASSUME NEW i \in 1 .. Len(u), NEW j \in 1 .. Len(u), u[i].t = t, u[j].t = t
               PROVE  i = j
    BY DEF One
  <2> QED BY <1>0, <1>1, <1>3 DEF One, Has, n
<1>4. ASSUME NEW T, NEW U, Precedes(q, T, U), Precedes(s, T, U), ~(Has(q, U) /\ Has(s, T))
      PROVE  Precedes(u, T, U)
  <2> SUFFICES ASSUME NEW i \in 1 .. Len(u), NEW j \in 1 .. Len(u), u[i].t \in T, u[j].t \in U
               PROVE  i < j
    BY DEF Precedes
  <2>1. CASE i \in 1 .. n /\ u[i] = q[i]
    BY <1>0, <1>2, <1>4, <2>1 DEF Precedes, n
  <2>2. CASE i > n /\ i \in Int /\ i - n \in 1 .. Len(s) /\ u[i] = s[i - n]
    <3>1. j > n /\ j \in Int /\ j - n \in 1 .. Len(s) /\ u[j] = s[j - n]
      BY <1>0, <1>4, <2>2 DEF Has, n
    <3> QED BY <1>1, <1>4, <2>2, <3>1 DEF Precedes
  <2> QED BY <1>0, <2>1, <2>2
<1>5. ASSUME NEW T, Distinct(q, T), Distinct(s, T), ~(Has(q, T) /\ Has(s, T)) PROVE Distinct(u, T)
  <2> SUFFICES ASSUME NEW i \in 1 .. Len(u), NEW j \in 1 .. Len(u), u[i].t \in T, u[j].t \in T,
                      u[i].id = u[j].id
               PROVE  i = j
    BY DEF Distinct
  <2>1. CASE i \in 1 .. n /\ u[i] = q[i]
    <3>1. j \in 1 .. n /\ u[j] = q[j]
      BY <1>0, <1>5, <2>1 DEF Has, n
    <3> QED BY <1>5, <2>1, <3>1 DEF Distinct, n
  <2>2. CASE i > n /\ i \in Int /\ i - n \in 1 .. Len(s) /\ u[i] = s[i - n]
    <3>1. j > n /\ j \in Int /\ j - n \in 1 .. Len(s) /\ u[j] = s[j - n]
      BY <1>0, <1>5, <2>2 DEF Has, n
    <3>2. i - n = j - n
      BY <1>5, <2>2, <3>1 DEF Distinct
    <3> QED BY <1>1, <2>2, <3>1, <3>2
  <2> QED BY <1>0, <2>1, <2>2
<1>6. ASSUME Rising(q), Rising(s), ~(Has(q, {"add"}) /\ Has(s, {"add"})) PROVE Rising(u)
  <2> SUFFICES ASSUME NEW i \in 1 .. Len(u), NEW j \in 1 .. Len(u), u[i].t = "add",
                      u[j].t = "add", i < j
               PROVE  u[i].id < u[j].id
    BY DEF Rising
  <2>1. CASE i \in 1 .. n /\ u[i] = q[i]
    <3>1. j \in 1 .. n /\ u[j] = q[j]
      BY <1>0, <1>6, <2>1 DEF Has, n
    <3> QED BY <1>6, <2>1, <3>1 DEF Rising, n
  <2>2. CASE i > n /\ i \in Int /\ i - n \in 1 .. Len(s) /\ u[i] = s[i - n]
    <3>0. ~(j \in 1 .. n /\ u[j] = q[j])
      BY <1>2, <2>2
    <3>1. j > n /\ j \in Int /\ j - n \in 1 .. Len(s) /\ u[j] = s[j - n]
      BY <1>0, <3>0
    <3>2. i - n < j - n
      BY <1>1, <2>2, <3>1
    <3> QED BY <1>6, <2>2, <3>1, <3>2 DEF Rising
  <2> QED BY <1>0, <2>1, <2>2
<1>7. ASSUME NEW tx, Signed(q, tx), Signed(s, tx) PROVE Signed(u, tx)
  BY <1>0, <1>7 DEF Signed, n
<1>8. ASSUME NEW k, Reveals(q, k), Reveals(s, k) PROVE Reveals(u, k)
  BY <1>0, <1>8 DEF Reveals, n
<1>9. ASSUME NEW m, Resumes(q, m), ~Has(s, {"reestablish"}) PROVE Resumes(u, m)
  BY <1>0, <1>9 DEF Resumes, Has, n
<1> QED BY <1>3, <1>4, <1>5, <1>6, <1>7, <1>8, <1>9 DEF u

\* An empty queue is in order.
LEMMA EmptyOrder ==
    /\ \A t : One(<<>>, t)
    /\ \A T, U : Precedes(<<>>, T, U)
    /\ \A T : Distinct(<<>>, T)
    /\ Rising(<<>>)
    /\ \A tx : Signed(<<>>, tx)
    /\ \A k : Reveals(<<>>, k)
    /\ \A m : Resumes(<<>>, m)
  BY DEF One, Precedes, Distinct, Rising, Signed, Reveals, Resumes

-----------------------------------------------------------------------------
(* The runs of messages a node writes.                                     *)

\* HTLCs in the order of their ids, each of them once.
LEMMA ByIdAll ==
    ASSUME NEW S, IsFiniteSet(S), \A h \in S : h.id \in Int,
           \A g, h \in S : g.id = h.id => g = h
    PROVE  /\ Cardinality(S) \in Nat
           /\ ById(S) \in [1 .. Cardinality(S) -> S]
           /\ \A i, j \in 1 .. Cardinality(S) : i < j => ById(S)[i].id < ById(S)[j].id
           /\ \A h \in S : \E i \in 1 .. Cardinality(S) : ById(S)[i] = h
<1> DEFINE n == Cardinality(S)
           f == ById(S)
<1>1. n \in Nat
  BY FS_CardinalityType
<1>2. /\ f \in [1 .. n -> S]
      /\ \A i, j \in 1 .. n : i < j => f[i].id < f[j].id
  BY ByIdSorts
<1>3. IsFiniteSet(1 .. n) /\ Cardinality(1 .. n) = n
  BY <1>1, FS_Interval
<1> HIDE DEF n, f
<1>4. \A i, j \in 1 .. n : f[i] = f[j] => i = j
  <2>1. SUFFICES ASSUME NEW i \in 1 .. n, NEW j \in 1 .. n, f[i] = f[j], i # j PROVE FALSE
    OBVIOUS
  <2>2. i < j \/ j < i
    BY <1>1, <2>1
  <2>3. f[i].id < f[j].id \/ f[j].id < f[i].id
    BY <1>2, <2>2
  <2>4. f[i].id = f[j].id /\ f[i].id \in Int
    BY <1>2, <2>1
  <2> QED BY <2>3, <2>4
<1>5. f \in Injection(1 .. n, S)
  BY <1>2, <1>4 DEF Injection, IsInjective
<1>6. f \in Surjection(1 .. n, S)
  BY <1>3, <1>5, FS_Injection DEF n
<1> QED BY <1>1, <1>2, <1>6 DEF n, f, Surjection

\* In a channel, ids of one direction are given once.
IdsOnce(S) == \A g, h \in S : g.id = h.id => g = h

\* In a channel, a payment has at most one HTLC of one direction.
OncePaid(S) == \A g, h \in S : g.pay = h.pay => g = h

\* What a commitment update carries: the additions in the order of their ids,
\* the removals, and the signature.
Written(n, c, s) ==
    /\ s \in Seq(Messages)
    /\ Has(s, {"cs"}) /\ ~Has(s, {"raa"}) /\ ~Has(s, {"reestablish", "shutdown", "closing"})
    /\ One(s, "cs") /\ Precedes(s, Upd, {"cs"}) /\ Rising(s) /\ Distinct(s, Rem)
    /\ Signed(s, build_commitment_transaction(n, c, c.cpNum, TRUE))
    /\ \A id : Carries(s, {"add"}, id) <=> \E h \in c.out : h.st = "LocalAnnounced" /\ h.id = id
    /\ \A id : Carries(s, Rem, id) <=> \E g \in c.inb : g.st = "LocalRemoved" /\ g.id = id

\* A run of messages of one kind, one for each HTLC of X.
RunOf(s, k, X) ==
    /\ s \in Seq(Messages)
    /\ \A i \in 1 .. Len(s) : s[i].t = k /\ \E h \in X : s[i].id = h.id
    /\ \A h \in X : \E i \in 1 .. Len(s) : s[i].id = h.id
    /\ \A i, j \in 1 .. Len(s) : i < j => s[i].id < s[j].id

\* What a run of messages holds.
LEMMA RunFacts ==
    ASSUME NEW s, NEW k, NEW X, RunOf(s, k, X)
    PROVE  /\ \A T : Has(s, T) => k \in T
           /\ \A T, id : Carries(s, T, id) <=> k \in T /\ \E h \in X : h.id = id
<1>1. \A i \in 1 .. Len(s) : s[i].t = k
  BY DEF RunOf
<1>2. \A T : Has(s, T) => k \in T
  BY <1>1 DEF Has
<1>3. \A T, id : Carries(s, T, id) <=> k \in T /\ \E h \in X : h.id = id
  BY <1>1 DEF Carries, RunOf
<1> QED BY <1>2, <1>3

\* The order of a run of messages.
LEMMA RunOrder ==
    ASSUME NEW s, NEW k \in Upd, NEW X, RunOf(s, k, X)
    PROVE  /\ \A T : Distinct(s, T)
           /\ Rising(s)
           /\ \A t : t # k => One(s, t)
           /\ \A T, U : k \notin T \/ k \notin U => Precedes(s, T, U)
           /\ \A tx : Signed(s, tx)
<1>1. s \in Seq(Messages) /\ Len(s) \in Nat
  BY DEF RunOf
<1>2. k # "cs" /\ \A i \in 1 .. Len(s) : s[i].t = k
  BY DEF RunOf, Upd
<1>3. \A i \in 1 .. Len(s) : s[i].id \in Int
  <2>1. \A i \in 1 .. Len(s) : s[i] \in Messages
    BY <1>1
  <2>2. \A m \in Messages : m.t \in Upd => m.id \in Int
    BY DEF Messages, Upd, Closings
  <2> QED BY <1>2, <2>1, <2>2
<1>4. \A i, j \in 1 .. Len(s) : s[i].id = s[j].id => i = j
  <2>1. SUFFICES ASSUME NEW i \in 1 .. Len(s), NEW j \in 1 .. Len(s), s[i].id = s[j].id, i # j
                 PROVE  FALSE
    OBVIOUS
  <2>2. i < j \/ j < i
    BY <1>1, <2>1
  <2>3. s[i].id < s[j].id \/ s[j].id < s[i].id
    BY <2>2 DEF RunOf
  <2> QED BY <1>3, <2>1, <2>3
<1>7. \A T : Distinct(s, T)
  BY <1>4 DEF Distinct
<1>8. Rising(s)
  BY DEF Rising, RunOf
<1>9. \A t : t # k => One(s, t)
  BY <1>2 DEF One
<1>10. \A T, U : k \notin T \/ k \notin U => Precedes(s, T, U)
  BY <1>2 DEF Precedes
<1>11. \A tx : Signed(s, tx)
  BY <1>2 DEF Signed
<1> QED BY <1>7, <1>8, <1>9, <1>10, <1>11

\* A message of its own.
LEMMA SingleFacts ==
    ASSUME NEW M, NEW m \in M
    PROVE  /\ <<m>> \in Seq(M)
           /\ \A T : Has(<<m>>, T) <=> m.t \in T
           /\ \A T, id : Carries(<<m>>, T, id) <=> m.t \in T /\ m.id = id
           /\ \A T : Distinct(<<m>>, T)
           /\ Rising(<<m>>)
           /\ \A t : One(<<m>>, t)
           /\ \A T, U : m.t \notin T \/ m.t \notin U => Precedes(<<m>>, T, U)
           /\ \A tx : Signed(<<m>>, tx) <=> (m.t = "cs" => m.tx = tx)
           /\ \A k : Reveals(<<m>>, k) <=> (m.t = "raa" => m.num = k)
<1>1. /\ <<m>> \in Seq(M) /\ Len(<<m>>) = 1 /\ <<m>>[1] = m
      /\ \A i \in 1 .. 1 : i = 1
      /\ 1 \in 1 .. 1 /\ ~(1 < 1)
  OBVIOUS
<1> DEFINE s == <<m>>
<1> HIDE DEF s
<1>2. \A i \in 1 .. Len(s) : i = 1 /\ s[i] = m
  BY <1>1 DEF s
<1>3. 1 \in 1 .. Len(s) /\ s[1] = m /\ ~(1 < 1)
  BY <1>1 DEF s
<1>4. \A T : Has(s, T) <=> m.t \in T
  BY <1>2, <1>3 DEF Has
<1>5. \A T, id : Carries(s, T, id) <=> m.t \in T /\ m.id = id
  BY <1>2, <1>3 DEF Carries
<1>6. \A T : Distinct(s, T)
  BY <1>2, <1>3 DEF Distinct
<1>7. Rising(s)
  BY <1>2, <1>3 DEF Rising
<1>8. \A t : One(s, t)
  BY <1>2, <1>3 DEF One
<1>9. \A T, U : m.t \notin T \/ m.t \notin U => Precedes(s, T, U)
  BY <1>2, <1>3 DEF Precedes
<1>10. \A tx : Signed(s, tx) <=> (m.t = "cs" => m.tx = tx)
  BY <1>2, <1>3 DEF Signed
<1>11. \A k : Reveals(s, k) <=> (m.t = "raa" => m.num = k)
  BY <1>2, <1>3 DEF Reveals
<1> QED BY <1>1, <1>4, <1>5, <1>6, <1>7, <1>8, <1>9, <1>10, <1>11 DEF s

-----------------------------------------------------------------------------
(* What a commitment update and a resumption put on the wire.              *)

\* Two queues that share no id carry different ids.
LEMMA CatDistinct ==
    ASSUME NEW M, NEW q \in Seq(M), NEW s \in Seq(M), NEW T, Distinct(q, T), Distinct(s, T),
           \A id : ~(Carries(q, T, id) /\ Carries(s, T, id))
    PROVE  Distinct(q \o s, T)
<1> DEFINE n == Len(q)
           u == q \o s
<1>0. /\ n \in Nat /\ Len(s) \in Nat
      /\ \A i \in 1 .. Len(u) :
            \/ i \in 1 .. n /\ u[i] = q[i]
            \/ i > n /\ i \in Int /\ i - n \in 1 .. Len(s) /\ u[i] = s[i - n]
  BY Spliced
<1>1. \A i, j \in Int : i - n = j - n => i = j
  BY <1>0
<1> HIDE DEF u, n
<1> SUFFICES ASSUME NEW i \in 1 .. Len(u), NEW j \in 1 .. Len(u), u[i].t \in T, u[j].t \in T,
                    u[i].id = u[j].id
             PROVE  i = j
  BY DEF Distinct, u
<1>2. CASE i \in 1 .. n /\ u[i] = q[i]
  <2>1. j \in 1 .. n /\ u[j] = q[j]
    BY <1>0, <1>2 DEF Carries, n
  <2> QED BY <1>2, <2>1 DEF Distinct, n
<1>3. CASE i > n /\ i \in Int /\ i - n \in 1 .. Len(s) /\ u[i] = s[i - n]
  <2>1. j > n /\ j \in Int /\ j - n \in 1 .. Len(s) /\ u[j] = s[j - n]
    BY <1>0, <1>3 DEF Carries, n
  <2>2. i - n = j - n
    BY <1>3, <2>1 DEF Distinct
  <2> QED BY <1>1, <1>3, <2>1, <2>2
<1> QED BY <1>0, <1>2, <1>3

\* What an invariant node's HTLCs have in common.
LEMMA HtlcFacts ==
    ASSUME NEW n \in Nodes, NEW c, NEW I \in [Payments -> Int], NEW S,
           NEW L \in SUBSET Payments, NEW C \in SUBSET Payments, NEW R \in SUBSET Payments,
           NodeOK(n, c, I, S, L, C, R), IdsUnique(I)
    PROVE  /\ c \in Channel /\ c.inb \subseteq InHtlcs /\ c.out \subseteq OutHtlcs
           /\ IsFiniteSet(c.inb) /\ IsFiniteSet(c.out)
           /\ OncePaid(c.inb) /\ OncePaid(c.out) /\ IdsOnce(c.inb) /\ IdsOnce(c.out)
           /\ \A h \in c.inb : h.id \in Nat /\ h.pay \in Payments /\ PayTo(h.pay) = n /\ h.id = I[h.pay]
           /\ \A h \in c.out : h.id \in Nat /\ h.pay \in Payments /\ PayFrom[h.pay] = n /\ h.id = I[h.pay]
           /\ \A h \in c.inb : h.st = "LocalRemoved" => h.out \in {"fulfil", "fail"}
<1>1. c \in Channel /\ OutOK(n, c, I, C, R) /\ InOK(n, c, I, L, C, R)
  BY DEF NodeOK
<1>2. c.inb \subseteq InHtlcs /\ c.out \subseteq OutHtlcs
  BY <1>1 DEF Channel
<1>3. IsFiniteSet(c.inb) /\ IsFiniteSet(c.out) /\ OncePaid(c.inb) /\ OncePaid(c.out)
  BY <1>1 DEF OutOK, InOK, OncePaid
<1>4. \A h \in c.inb : h.id \in Nat /\ h.pay \in Payments /\ PayTo(h.pay) = n /\ h.id = I[h.pay]
  BY <1>1, <1>2 DEF InOK, InHtlcs
<1>5. \A h \in c.out : h.id \in Nat /\ h.pay \in Payments /\ PayFrom[h.pay] = n /\ h.id = I[h.pay]
  BY <1>1, <1>2 DEF OutOK, OutHtlcs
<1>6. \A h \in c.inb : h.st = "LocalRemoved" => h.out \in {"fulfil", "fail"}
  BY <1>1 DEF InOK, Decided
<1>7. IdsOnce(c.out)
  <2>1. SUFFICES ASSUME NEW g \in c.out, NEW h \in c.out, g.id = h.id PROVE g = h
    BY DEF IdsOnce
  <2>2. I[g.pay] = I[h.pay] /\ I[g.pay] # -1 /\ PayFrom[g.pay] = PayFrom[h.pay]
    BY <1>5, <2>1
  <2>3. g.pay = h.pay
    BY <1>5, <2>2 DEF IdsUnique
  <2> QED BY <1>3, <2>3 DEF OncePaid
<1>8. IdsOnce(c.inb)
  <2>1. SUFFICES ASSUME NEW g \in c.inb, NEW h \in c.inb, g.id = h.id PROVE g = h
    BY DEF IdsOnce
  <2>2. I[g.pay] = I[h.pay] /\ I[g.pay] # -1 /\ PayTo(g.pay) = PayTo(h.pay)
    BY <1>4, <2>1
  <2>3. PayFrom[g.pay] = PayFrom[h.pay]
    BY <1>4, <2>2, PeerFacts
  <2>4. g.pay = h.pay
    BY <1>4, <2>2, <2>3 DEF IdsUnique
  <2> QED BY <1>3, <2>4 DEF OncePaid
<1> QED BY <1>1, <1>2, <1>3, <1>4, <1>5, <1>6, <1>7, <1>8

\* The HTLCs of X in the order of their ids make a run of messages.
LEMMA RunMade ==
    ASSUME NEW X, IsFiniteSet(X), \A h \in X : h.id \in Nat, IdsOnce(X), NEW k,
           NEW w, \A h \in X : w[h] \in Messages /\ w[h].t = k /\ w[h].id = h.id,
           NEW s, s = [i \in DOMAIN ById(X) |-> w[ById(X)[i]]]
    PROVE  RunOf(s, k, X)
<1> DEFINE f == ById(X)
           n == Cardinality(X)
<1>1. /\ n \in Nat /\ f \in [1 .. n -> X]
      /\ \A i, j \in 1 .. n : i < j => f[i].id < f[j].id
      /\ \A h \in X : \E i \in 1 .. n : f[i] = h
  BY ByIdAll DEF IdsOnce
<1> HIDE DEF f, n
<1>2. s = [i \in 1 .. n |-> w[f[i]]]
  BY <1>1 DEF f
<1>3. s \in [1 .. n -> Messages]
  BY <1>1, <1>2
<1>4. s \in Seq(Messages) /\ Len(s) = n
  BY <1>1, <1>3
<1>5. \A i \in 1 .. n : s[i].t = k /\ s[i].id = f[i].id /\ f[i] \in X
  BY <1>1, <1>2
<1> QED BY <1>1, <1>4, <1>5 DEF RunOf

\* A commitment update carries what the channel has to announce.
LEMMA UpdateWritten ==
    ASSUME NEW n \in Nodes, NEW c, NEW I \in [Payments -> Int], NEW S,
           NEW L \in SUBSET Payments, NEW C \in SUBSET Payments, NEW R \in SUBSET Payments,
           NodeOK(n, c, I, S, L, C, R), IdsUnique(I)
    PROVE  Written(n, c, get_last_commitment_update_for_send(n, c))
<1> DEFINE XA == {h \in c.out : h.st = "LocalAnnounced"}
           XR(o) == {h \in c.inb : h.st = "LocalRemoved" /\ h.out = o}
           adds == ById(XA)
           gone(o) == ById(XR(o))
           removals(o) == [i \in DOMAIN gone(o) |-> [t |-> o, id |-> gone(o)[i].id]]
           A == [i \in DOMAIN adds |-> [t |-> "add", id |-> adds[i].id, pay |-> adds[i].pay]]
           tx == build_commitment_transaction(n, c, c.cpNum, TRUE)
           cs == [t |-> "cs", tx |-> tx]
<1>0. get_last_commitment_update_for_send(n, c) =
        A \o removals("fulfil") \o removals("fail") \o <<cs>>
  BY DEF get_last_commitment_update_for_send
<1>1. /\ c \in Channel /\ IsFiniteSet(c.inb) /\ IsFiniteSet(c.out)
      /\ IdsOnce(c.inb) /\ IdsOnce(c.out)
      /\ \A h \in c.inb : h.id \in Nat
      /\ \A h \in c.out : h.id \in Nat /\ h.pay \in Payments
      /\ \A h \in c.inb : h.st = "LocalRemoved" => h.out \in {"fulfil", "fail"}
  BY HtlcFacts
<1>2. RunOf(A, "add", XA)
  <2> DEFINE w == [h \in XA |-> [t |-> "add", id |-> h.id, pay |-> h.pay]]
  <2>1. IsFiniteSet(XA) /\ IdsOnce(XA) /\ \A h \in XA : h.id \in Nat
    BY <1>1, FS_Subset DEF IdsOnce
  <2>2. ASSUME NEW h \in XA PROVE w[h] \in Messages /\ w[h].t = "add" /\ w[h].id = h.id
    BY <1>1 DEF Messages
  <2>3. adds \in [1 .. Cardinality(XA) -> XA]
    <3>1. \A h \in XA : h.id \in Int
      BY <2>1
    <3> HIDE DEF XA
    <3> QED BY <2>1, <3>1, ByIdAll DEF IdsOnce
  <2>4. A = [i \in DOMAIN adds |-> w[adds[i]]]
    <3> HIDE DEF adds, XA
    <3> QED BY <2>3
  <2> HIDE DEF w, XA, A
  <2> QED BY <2>1, <2>2, <2>4, RunMade
<1>3. ASSUME NEW o \in {"fulfil", "fail"} PROVE RunOf(removals(o), o, XR(o))
  <2> DEFINE X == XR(o)
             w == [h \in X |-> [t |-> o, id |-> h.id]]
             q == removals(o)
  <2>1. IsFiniteSet(X) /\ IdsOnce(X) /\ \A h \in X : h.id \in Nat
    BY <1>1, FS_Subset DEF IdsOnce
  <2>2. ASSUME NEW h \in X PROVE w[h] \in Messages /\ w[h].t = o /\ w[h].id = h.id
    BY <1>1 DEF Messages
  <2>3. ById(X) \in [1 .. Cardinality(X) -> X]
    <3>1. \A h \in X : h.id \in Int
      BY <2>1
    <3> HIDE DEF X
    <3> QED BY <2>1, <3>1, ByIdAll DEF IdsOnce
  <2>4. q = [i \in DOMAIN ById(X) |-> w[ById(X)[i]]]
    <3>1. q = [i \in DOMAIN ById(X) |-> [t |-> o, id |-> ById(X)[i].id]]
      OBVIOUS
    <3> HIDE DEF X, q
    <3> QED BY <2>3, <3>1
  <2> HIDE DEF w, X, q
  <2>5. RunOf(q, o, X)
    BY <2>1, <2>2, <2>4, RunMade
  <2> QED BY <2>5 DEF q, X
<1>4. cs \in Messages /\ cs.t = "cs" /\ cs.tx = tx
  <2>1. tx \in Txs
    <3>1. c.cpNum \in Nat
      BY <1>1 DEF Channel
    <3> QED BY <1>1, <3>1, TxTyped
  <2> HIDE DEF tx
  <2> QED BY <2>1 DEF Messages
<1> DEFINE F == removals("fulfil")
           G == removals("fail")
           XF == XR("fulfil")
           XG == XR("fail")
<1>5. RunOf(F, "fulfil", XF) /\ RunOf(G, "fail", XG)
  BY <1>3
<1>6. \A id : (\E g \in c.inb : g.st = "LocalRemoved" /\ g.id = id)
                <=> (\E h \in XF : h.id = id) \/ (\E h \in XG : h.id = id)
  BY <1>1
<1>6a. \A h \in XF : h \notin XG
  OBVIOUS
<1>6b. XF \subseteq c.inb /\ XG \subseteq c.inb
  OBVIOUS
<1>7. \A id : (\E h \in XA : h.id = id) <=> (\E h \in c.out : h.st = "LocalAnnounced" /\ h.id = id)
  OBVIOUS
<1> HIDE DEF A, F, G, cs, XA, XF, XG, tx
<1> DEFINE s1 == A \o F
           s2 == s1 \o G
           s == s2 \o <<cs>>
<1>8. /\ A \in Seq(Messages) /\ F \in Seq(Messages) /\ G \in Seq(Messages)
      /\ <<cs>> \in Seq(Messages) /\ s1 \in Seq(Messages) /\ s2 \in Seq(Messages)
      /\ s \in Seq(Messages)
  <2>1. /\ A \in Seq(Messages) /\ F \in Seq(Messages) /\ G \in Seq(Messages)
    BY <1>2, <1>5 DEF RunOf
  <2>2. <<cs>> \in Seq(Messages)
    BY <1>4
  <2> QED BY <2>1, <2>2
<1>9. /\ \A T : Has(A, T) => "add" \in T
      /\ \A T : Has(F, T) => "fulfil" \in T
      /\ \A T : Has(G, T) => "fail" \in T
      /\ \A T : Has(<<cs>>, T) <=> "cs" \in T
      /\ \A T, id : Carries(A, T, id) <=> "add" \in T /\ \E h \in XA : h.id = id
      /\ \A T, id : Carries(F, T, id) <=> "fulfil" \in T /\ \E h \in XF : h.id = id
      /\ \A T, id : Carries(G, T, id) <=> "fail" \in T /\ \E h \in XG : h.id = id
      /\ \A T, id : Carries(<<cs>>, T, id) => "cs" \in T
  <2>1. "add" \in Upd /\ "fulfil" \in Upd /\ "fail" \in Upd
    BY DEF Upd
  <2>2. /\ \A T : Has(A, T) => "add" \in T
        /\ \A T, id : Carries(A, T, id) <=> "add" \in T /\ \E h \in XA : h.id = id
    BY <1>2, <2>1, RunFacts
  <2>3. /\ \A T : Has(F, T) => "fulfil" \in T
        /\ \A T, id : Carries(F, T, id) <=> "fulfil" \in T /\ \E h \in XF : h.id = id
    <3>1. RunOf(F, "fulfil", XF)
      BY <1>5
    <3> QED BY ONLY <3>1, <2>1, RunFacts
  <2>4. /\ \A T : Has(G, T) => "fail" \in T
        /\ \A T, id : Carries(G, T, id) <=> "fail" \in T /\ \E h \in XG : h.id = id
    <3>1. RunOf(G, "fail", XG)
      BY <1>5
    <3> QED BY ONLY <3>1, <2>1, RunFacts
  <2>5. /\ \A T : Has(<<cs>>, T) <=> "cs" \in T
        /\ \A T, id : Carries(<<cs>>, T, id) => "cs" \in T
    <3>1. /\ \A T : Has(<<cs>>, T) <=> cs.t \in T
          /\ \A T, id : Carries(<<cs>>, T, id) <=> cs.t \in T /\ cs.id = id
      BY <1>4, SingleFacts
    <3> QED BY ONLY <1>4, <3>1
  <2> QED BY ONLY <2>2, <2>3, <2>4, <2>5
<1>10. /\ \A T : Has(s1, T) <=> Has(A, T) \/ Has(F, T)
       /\ \A T, id : Carries(s1, T, id) <=> Carries(A, T, id) \/ Carries(F, T, id)
  BY <1>8, CatHas
<1>11. /\ \A T : Has(s2, T) <=> Has(s1, T) \/ Has(G, T)
       /\ \A T, id : Carries(s2, T, id) <=> Carries(s1, T, id) \/ Carries(G, T, id)
  <2> HIDE DEF s1
  <2> QED BY <1>8, CatHas
<1>12. /\ \A T : Has(s, T) <=> Has(s2, T) \/ Has(<<cs>>, T)
       /\ \A T, id : Carries(s, T, id) <=> Carries(s2, T, id) \/ Carries(<<cs>>, T, id)
  <2> HIDE DEF s2
  <2> QED BY <1>8, CatHas
<1>13. \A id : ~(Carries(s1, Rem, id) /\ Carries(G, Rem, id))
  <2>1. \A g \in XF : \A h \in XG : g.id # h.id
    BY <1>1, <1>6a, <1>6b DEF IdsOnce
  <2>2. "add" \notin Rem
    BY DEF Rem
  <2> QED BY <1>9, <1>10, <2>1, <2>2
<1>14. Distinct(s, Rem)
  <2>1. ~Has(A, Rem) /\ ~Has(<<cs>>, Rem)
    BY <1>9 DEF Rem
  <2>2. Distinct(A, Rem) /\ Distinct(F, Rem) /\ Distinct(G, Rem) /\ Distinct(<<cs>>, Rem)
    BY <1>2, <1>4, <1>5, RunOrder, SingleFacts DEF Upd
  <2>3. Distinct(s1, Rem)
    BY <1>8, <2>1, <2>2, CatOrder
  <2>4. Distinct(s2, Rem)
    <3> HIDE DEF s1
    <3> QED BY <1>8, <1>13, <2>2, <2>3, CatDistinct
  <2> HIDE DEF s2
  <2> QED BY <1>8, <2>1, <2>2, <2>4, CatOrder
<1>15. Rising(s)
  <2>1. ~Has(F, {"add"}) /\ ~Has(G, {"add"}) /\ ~Has(<<cs>>, {"add"})
    BY <1>9
  <2>2. Rising(A) /\ Rising(F) /\ Rising(G) /\ Rising(<<cs>>)
    BY <1>2, <1>4, <1>5, RunOrder, SingleFacts DEF Upd
  <2>3. Rising(s1)
    BY <1>8, <2>1, <2>2, CatOrder
  <2>4. Rising(s2)
    <3> HIDE DEF s1
    <3> QED BY <1>8, <2>1, <2>2, <2>3, CatOrder
  <2> HIDE DEF s2
  <2> QED BY <1>8, <2>1, <2>2, <2>4, CatOrder
<1>16. ~Has(s2, {"cs", "raa", "reestablish", "shutdown", "closing"}) /\ ~Has(s2, {"cs"})
       /\ ~Has(s2, {"raa"}) /\ ~Has(s2, {"reestablish", "shutdown", "closing"})
  BY <1>9, <1>10, <1>11
<1>17. /\ One(s, "cs") /\ Precedes(s, Upd, {"cs"})
       /\ Signed(s, tx)
  <2>1. One(s2, "cs") /\ Precedes(s2, Upd, {"cs"}) /\ Signed(s2, tx)
    BY <1>16 DEF One, Precedes, Signed, Has
  <2>2. One(<<cs>>, "cs") /\ Precedes(<<cs>>, Upd, {"cs"}) /\ Signed(<<cs>>, tx)
    BY <1>4, SingleFacts DEF Upd
  <2> HIDE DEF s2
  <2> QED BY <1>8, <1>16, <2>1, <2>2, CatOrder
<1>18. Has(s, {"cs"}) /\ ~Has(s, {"raa"}) /\ ~Has(s, {"reestablish", "shutdown", "closing"})
  BY <1>9, <1>12, <1>16
<1>19. \A id : Carries(s, {"add"}, id) <=> \E h \in c.out : h.st = "LocalAnnounced" /\ h.id = id
  BY <1>7, <1>9, <1>10, <1>11, <1>12
<1>20. \A id : Carries(s, Rem, id) <=> \E g \in c.inb : g.st = "LocalRemoved" /\ g.id = id
  <2>1. "add" \notin Rem /\ "cs" \notin Rem /\ "fulfil" \in Rem /\ "fail" \in Rem
    BY DEF Rem
  <2> QED BY <1>6, <1>9, <1>10, <1>11, <1>12, <2>1
<1>21. get_last_commitment_update_for_send(n, c) = s
  BY <1>0 DEF F, G
<1> HIDE DEF s
<1> QED BY <1>8, <1>14, <1>15, <1>17, <1>18, <1>19, <1>20, <1>21 DEF Written, tx

\* What a channel that resumes sends: the revocation, the commitment update, in its order.
Resent(n, c, raa, cs, s) ==
    /\ s \in Seq(Messages)
    /\ Has(s, {"cs"}) <=> cs
    /\ Has(s, {"raa"}) <=> raa
    /\ ~Has(s, {"reestablish", "shutdown", "closing"})
    /\ One(s, "cs") /\ One(s, "raa") /\ Precedes(s, Upd, {"cs"})
    /\ Has(s, Upd) => cs
    /\ Rising(s) /\ Distinct(s, Rem)
    /\ Signed(s, build_commitment_transaction(n, c, c.cpNum, TRUE))
    /\ Reveals(s, c.holderNum - 2)
    /\ RaaFirst(c) => Precedes(s, {"raa"}, {"cs"})
    /\ ~RaaFirst(c) => Precedes(s, {"cs"}, {"raa"})
    /\ \A id : Carries(s, {"add"}, id) <=>
                cs /\ \E h \in c.out : h.st = "LocalAnnounced" /\ h.id = id
    /\ \A id : Carries(s, Rem, id) <=>
                cs /\ \E g \in c.inb : g.st = "LocalRemoved" /\ g.id = id

\* handle_channel_resumption sends what is asked for, in the channel's order.
LEMMA ResumptionResent ==
    ASSUME NEW n \in Nodes, NEW c, NEW I \in [Payments -> Int], NEW S,
           NEW L \in SUBSET Payments, NEW C \in SUBSET Payments, NEW R \in SUBSET Payments,
           NodeOK(n, c, I, S, L, C, R), IdsUnique(I), NEW raa \in BOOLEAN, NEW cs \in BOOLEAN
    PROVE  Resent(n, c, raa, cs, Resumption(n, c, raa, cs))
<1> DEFINE m == [t |-> "raa", num |-> c.holderNum - 2]
           r == IF raa THEN <<m>> ELSE <<>>
           upd == get_last_commitment_update_for_send(n, c)
           u == IF cs THEN upd ELSE <<>>
           tx == build_commitment_transaction(n, c, c.cpNum, TRUE)
           k == c.holderNum - 2
<1>1. c \in Channel
  BY DEF NodeOK
<1>2. c.holderNum \in Nat /\ (c.order = "CommitmentFirst" <=> ~RaaFirst(c))
  BY <1>1 DEF Channel, RaaFirst
<1>3. m \in Messages /\ m.t = "raa" /\ m.num = k
  BY <1>2 DEF Messages
<1>4. Written(n, c, upd)
  BY UpdateWritten
<1>5. Resumption(n, c, raa, cs) = IF RaaFirst(c) THEN r \o u ELSE u \o r
  BY <1>2 DEF Resumption, get_last_revoke_and_ack
<1> HIDE DEF m, upd, tx, k
<1> DEFINE Kinds == {"reestablish", "shutdown", "closing"}
<1>6. /\ r \in Seq(Messages)
      /\ \A T : Has(r, T) <=> raa /\ "raa" \in T
      /\ \A T, id : Carries(r, T, id) => "raa" \in T
      /\ One(r, "cs") /\ One(r, "raa") /\ Precedes(r, Upd, {"cs"})
      /\ Precedes(r, {"raa"}, {"cs"}) /\ Precedes(r, {"cs"}, {"raa"})
      /\ Rising(r) /\ Distinct(r, Rem) /\ Signed(r, tx) /\ Reveals(r, k)
  <2>1. CASE raa
    BY <1>3, <2>1, SingleFacts
  <2>2. CASE ~raa
    BY <2>2, EmptyHas, EmptyOrder
  <2> QED BY <2>1, <2>2
<1>7. /\ u \in Seq(Messages)
      /\ Has(u, {"cs"}) <=> cs
      /\ ~Has(u, {"raa"}) /\ ~Has(u, Kinds)
      /\ Has(u, Upd) => cs
      /\ One(u, "cs") /\ Precedes(u, Upd, {"cs"})
      /\ Rising(u) /\ Distinct(u, Rem) /\ Signed(u, tx)
      /\ \A id : Carries(u, {"add"}, id) <=> cs /\ \E h \in c.out : h.st = "LocalAnnounced" /\ h.id = id
      /\ \A id : Carries(u, Rem, id) <=> cs /\ \E g \in c.inb : g.st = "LocalRemoved" /\ g.id = id
  <2>1. CASE cs
    BY <1>4, <2>1 DEF Written, tx
  <2>2. CASE ~cs
    BY <2>2, EmptyHas, EmptyOrder
  <2> QED BY <2>1, <2>2
<1>8. One(u, "raa") /\ Reveals(u, k) /\ Precedes(u, {"raa"}, {"cs"}) /\ Precedes(u, {"cs"}, {"raa"})
  BY <1>7 DEF Has, One, Reveals, Precedes
<1>9. ~Has(r, Kinds) /\ ~Has(r, {"cs"}) /\ ~Has(r, Upd) /\ ~Has(r, Rem) /\ ~Has(r, {"add"})
      /\ (Has(r, {"raa"}) <=> raa)
  BY <1>6 DEF Upd, Rem
<1>9a. \A id : ~Carries(r, {"add"}, id) /\ ~Carries(r, Rem, id)
  BY <1>6 DEF Rem
<1> DEFINE tidy(s) == /\ s \in Seq(Messages)
                      /\ Has(s, {"cs"}) <=> cs
                      /\ Has(s, {"raa"}) <=> raa
                      /\ ~Has(s, Kinds)
                      /\ One(s, "cs") /\ One(s, "raa") /\ Precedes(s, Upd, {"cs"})
                      /\ Has(s, Upd) => cs
                      /\ Rising(s) /\ Distinct(s, Rem) /\ Signed(s, tx) /\ Reveals(s, k)
                      /\ \A id : Carries(s, {"add"}, id) <=>
                                cs /\ \E h \in c.out : h.st = "LocalAnnounced" /\ h.id = id
                      /\ \A id : Carries(s, Rem, id) <=>
                                cs /\ \E g \in c.inb : g.st = "LocalRemoved" /\ g.id = id
<1> HIDE DEF r, u, Kinds
<1>10. tidy(r \o u) /\ Precedes(r \o u, {"raa"}, {"cs"})
  <2>1. r \o u \in Seq(Messages)
    BY <1>6, <1>7
  <2>2. /\ \A T : Has(r \o u, T) <=> Has(r, T) \/ Has(u, T)
        /\ \A T, id : Carries(r \o u, T, id) <=> Carries(r, T, id) \/ Carries(u, T, id)
    BY <1>6, <1>7, CatHas
  <2>3. One(r \o u, "cs") /\ One(r \o u, "raa")
    BY <1>6, <1>7, <1>8, <1>9, CatOrder
  <2>4. Precedes(r \o u, Upd, {"cs"}) /\ Precedes(r \o u, {"raa"}, {"cs"})
    BY <1>6, <1>7, <1>8, <1>9, CatOrder
  <2>5. Rising(r \o u) /\ Distinct(r \o u, Rem) /\ Signed(r \o u, tx) /\ Reveals(r \o u, k)
    BY <1>6, <1>7, <1>8, <1>9, CatOrder
  <2> QED BY <1>7, <1>9, <1>9a, <2>1, <2>2, <2>3, <2>4, <2>5
<1>11. tidy(u \o r) /\ Precedes(u \o r, {"cs"}, {"raa"})
  <2>1. u \o r \in Seq(Messages)
    BY <1>6, <1>7
  <2>2. /\ \A T : Has(u \o r, T) <=> Has(u, T) \/ Has(r, T)
        /\ \A T, id : Carries(u \o r, T, id) <=> Carries(u, T, id) \/ Carries(r, T, id)
    BY <1>6, <1>7, CatHas
  <2>3. One(u \o r, "cs") /\ One(u \o r, "raa")
    BY <1>6, <1>7, <1>8, <1>9, CatOrder
  <2>4. Precedes(u \o r, Upd, {"cs"}) /\ Precedes(u \o r, {"cs"}, {"raa"})
    BY <1>6, <1>7, <1>8, <1>9, CatOrder
  <2>5. Rising(u \o r) /\ Distinct(u \o r, Rem) /\ Signed(u \o r, tx) /\ Reveals(u \o r, k)
    BY <1>6, <1>7, <1>8, <1>9, CatOrder
  <2> QED BY <1>7, <1>9, <1>9a, <2>1, <2>2, <2>3, <2>4, <2>5
<1>12. CASE RaaFirst(c)
  <2> DEFINE s == r \o u
  <2>1. tidy(s) /\ Precedes(s, {"raa"}, {"cs"})
    BY <1>10
  <2>2. Resumption(n, c, raa, cs) = s
    BY <1>5, <1>12
  <2> HIDE DEF s
  <2>3. Resent(n, c, raa, cs, s)
    BY ONLY <1>12, <2>1 DEF Resent, tx, k, Kinds
  <2> QED BY <2>2, <2>3
<1>13. CASE ~RaaFirst(c)
  <2> DEFINE s == u \o r
  <2>1. tidy(s) /\ Precedes(s, {"cs"}, {"raa"})
    BY <1>11
  <2>2. Resumption(n, c, raa, cs) = s
    BY <1>5, <1>13
  <2> HIDE DEF s
  <2>3. Resent(n, c, raa, cs, s)
    BY ONLY <1>13, <2>1 DEF Resent, tx, k, Kinds
  <2> QED BY <2>2, <2>3
<1> QED BY <1>12, <1>13

-----------------------------------------------------------------------------
(* Turns and debts: who owes a commitment or a revocation.                 *)

\* The fields the turns of the protocol depend on are typed.
Counted(c) == c.holderNum \in Nat /\ c.cpNum \in Nat

\* Messages outside the commitment protocol, and all but the answers.
Aside == {"shutdown", "closing"}

\* Nothing the turns depend on changes, but a monitor update may start.
Steady(c, f) ==
    /\ (f.awaitRaa <=> c.awaitRaa) /\ (f.disc <=> c.disc) /\ f.order = c.order
    /\ f.holderNum = c.holderNum /\ f.cpNum = c.cpNum
    /\ (f.pendRaa <=> c.pendRaa) /\ (f.pendCs <=> c.pendCs)
    /\ c.monBusy => f.monBusy

\* A commitment is built for the peer.
Builds(c, f) ==
    /\ ~c.awaitRaa /\ ~c.monBusy /\ ~c.disc
    /\ f.awaitRaa /\ f.monBusy /\ f.pendCs /\ RaaFirst(f)
    /\ (f.pendRaa <=> c.pendRaa) /\ ~f.disc
    /\ f.holderNum = c.holderNum /\ f.cpNum = c.cpNum

\* A commitment_signed is accepted; b: and one is built in answer.
Accepts(c, f, b) ==
    /\ ~c.disc /\ ~f.disc /\ (b = "build" => ~c.awaitRaa)
    /\ f.holderNum = c.holderNum + 1 /\ f.cpNum = c.cpNum
    /\ f.pendRaa /\ f.monBusy /\ (f.pendCs <=> c.pendCs \/ b = "build")
    /\ (f.awaitRaa <=> c.awaitRaa \/ b = "build")
    /\ (RaaFirst(f) <=> b = "build")

\* A revoke_and_ack is accepted; b: and a commitment is built after it.
Revokes(c, f, b) ==
    /\ ~c.disc /\ ~f.disc /\ c.awaitRaa
    /\ f.holderNum = c.holderNum /\ f.cpNum = c.cpNum + 1
    /\ (f.pendRaa <=> c.pendRaa) /\ f.monBusy /\ (f.pendCs <=> c.pendCs \/ b = "build")
    /\ (f.awaitRaa <=> b = "build")
    /\ (RaaFirst(f) <=> RaaFirst(c) \/ b = "build")

\* The monitor updates are durable.
Restores(c, f) ==
    /\ (f.awaitRaa <=> c.awaitRaa) /\ (f.disc <=> c.disc) /\ f.order = c.order
    /\ f.holderNum = c.holderNum /\ f.cpNum = c.cpNum
    /\ ~f.pendRaa /\ ~f.pendCs /\ ~f.monBusy

\* The channel is taken up again after a reconnection.
TakesUp(c, f, raa, cs) ==
    /\ (f.awaitRaa <=> c.awaitRaa) /\ c.disc /\ ~f.disc /\ f.order = c.order
    /\ f.holderNum = c.holderNum /\ f.cpNum = c.cpNum
    /\ (f.pendRaa <=> c.pendRaa \/ (raa /\ c.monBusy))
    /\ (f.pendCs <=> c.pendCs \/ (cs /\ c.monBusy))
    /\ (f.monBusy <=> c.monBusy)

\* The connection is lost.
Drops(c, f) ==
    /\ (f.awaitRaa <=> c.awaitRaa) /\ f.disc /\ f.order = c.order
    /\ f.holderNum = c.holderNum /\ f.cpNum = c.cpNum
    /\ (f.pendRaa <=> c.pendRaa) /\ (f.pendCs <=> c.pendCs) /\ (f.monBusy <=> c.monBusy)

\* Who waits for a revocation has its commitment under way or is owed the answer.
LEMMA WhoseTurn ==
    ASSUME NEW c, NEW d, Counted(c), Counted(d), Turns(c, d)
    PROVE  /\ c.awaitRaa <=> OwesCs(c, d) \/ OwesRaa(d, c)
           /\ ~(OwesCs(c, d) /\ OwesRaa(d, c))
  BY DEF Counted, Turns, OwesCs, OwesRaa

\* What is owed, step by step: n has channel c, then f; its peer has d.
LEMMA OwedSteady ==
    ASSUME NEW c, NEW d, NEW f, Steady(c, f) \/ Restores(c, f) \/ Drops(c, f)
              \/ \E raa, cs : TakesUp(c, f, raa, cs)
    PROVE  /\ (Turns(f, d) <=> Turns(c, d)) /\ (Turns(d, f) <=> Turns(d, c))
           /\ (OwesCs(f, d) <=> OwesCs(c, d)) /\ (OwesRaa(f, d) <=> OwesRaa(c, d))
           /\ (OwesCs(d, f) <=> OwesCs(d, c)) /\ (OwesRaa(d, f) <=> OwesRaa(d, c))
           /\ (RaaFirst(f) <=> RaaFirst(c))
  BY DEF Steady, Restores, Drops, TakesUp, Turns, OwesCs, OwesRaa, RaaFirst

\* What is owed after a commitment was built.
LEMMA OwedBuilds ==
    ASSUME NEW c, NEW d, NEW f, Counted(c), Counted(d), Turns(c, d), Turns(d, c), Builds(c, f)
    PROVE  /\ Turns(f, d) /\ Turns(d, f)
           /\ ~OwesCs(c, d) /\ OwesCs(f, d) /\ (OwesRaa(f, d) <=> OwesRaa(c, d))
           /\ (OwesCs(d, f) <=> OwesCs(d, c)) /\ ~OwesRaa(d, c) /\ ~OwesRaa(d, f)
           /\ RaaFirst(f)
  BY DEF Builds, Counted, Turns, OwesCs, OwesRaa

\* What is owed after a commitment_signed was accepted.
LEMMA OwedAccepts ==
    ASSUME NEW c, NEW d, NEW f, Counted(c), Counted(d), Turns(c, d), Turns(d, c),
           NEW b, Accepts(c, f, b), OwesCs(d, c)
    PROVE  /\ Turns(f, d) /\ Turns(d, f)
           /\ (OwesCs(f, d) <=> OwesCs(c, d) \/ b = "build") /\ ~OwesRaa(c, d) /\ OwesRaa(f, d)
           /\ ~OwesCs(d, f) /\ (OwesRaa(d, f) <=> OwesRaa(d, c))
           /\ (RaaFirst(f) <=> b = "build") /\ (b = "build" => ~OwesCs(c, d) /\ ~OwesRaa(d, c))
           /\ (b # "build" /\ c.awaitRaa => OwesCs(c, d) \/ OwesRaa(d, c))
<1>1. /\ f.holderNum = c.holderNum + 1 /\ f.cpNum = c.cpNum /\ c.holderNum = d.cpNum
      /\ c.holderNum \in Nat /\ c.cpNum \in Nat /\ d.holderNum \in Nat /\ d.cpNum \in Nat
      /\ d.awaitRaa
      /\ d.holderNum = c.cpNum \/ (d.holderNum = c.cpNum + 1 /\ c.awaitRaa)
  BY DEF Accepts, Counted, Turns, OwesCs
<1>2. CASE b = "build"
  <2>1. f.awaitRaa /\ ~c.awaitRaa /\ RaaFirst(f)
    BY <1>2 DEF Accepts
  <2> QED BY <1>1, <1>2, <2>1 DEF Turns, OwesCs, OwesRaa
<1>3. CASE b # "build"
  <2>1. (f.awaitRaa <=> c.awaitRaa) /\ ~RaaFirst(f)
    BY <1>3 DEF Accepts
  <2> QED BY <1>1, <1>3, <2>1 DEF Turns, OwesCs, OwesRaa
<1> QED BY <1>2, <1>3

\* What is owed after a revoke_and_ack was accepted.
LEMMA OwedRevokes ==
    ASSUME NEW c, NEW d, NEW f, Counted(c), Counted(d), Turns(c, d), Turns(d, c),
           NEW b, Revokes(c, f, b), OwesRaa(d, c)
    PROVE  /\ Turns(f, d) /\ Turns(d, f)
           /\ ~OwesCs(c, d) /\ (OwesCs(f, d) <=> b = "build") /\ (OwesRaa(f, d) <=> OwesRaa(c, d))
           /\ (OwesCs(d, f) <=> OwesCs(d, c)) /\ ~OwesRaa(d, f)
           /\ (RaaFirst(f) <=> RaaFirst(c) \/ b = "build")
  BY DEF Revokes, Counted, Turns, OwesCs, OwesRaa

\* A quiet step: the sender's side,
LEMMA LinkSteadyOut ==
    ASSUME NEW c, NEW d, NEW f, NEW M, NEW q \in Seq(M), NEW k, Link(c, d, q, k),
           Steady(c, f), NEW s \in Seq(M), \A T : Has(s, T) => T \cap Aside # {},
           s = <<>> \/ ~c.disc
    PROVE  Link(f, d, q \o s, k)
<1>0. (OwesCs(f, d) <=> OwesCs(c, d)) /\ (OwesRaa(f, d) <=> OwesRaa(c, d)) /\ Turns(f, d)
      /\ (RaaFirst(f) <=> RaaFirst(c))
  BY OwedSteady DEF Link
<1>1. ~Has(s, {"cs"}) /\ ~Has(s, {"raa"}) /\ ~Has(s, Upd) /\ ~Has(s, {"reestablish"})
  BY DEF Aside, Upd
<1>2. /\ Has(q \o s, {"cs"}) <=> Has(q, {"cs"})
      /\ Has(q \o s, {"raa"}) <=> Has(q, {"raa"})
      /\ Has(q \o s, Upd) <=> Has(q, Upd)
      /\ Has(q \o s, {"reestablish"}) <=> Has(q, {"reestablish"})
  BY <1>1, CatHas
<1>3. One(s, "cs") /\ One(s, "raa") /\ \A T : Precedes(s, T, {"cs"}) /\ Precedes(s, T, {"raa"})
  BY <1>1 DEF One, Precedes, Has
<1>4. \A x : Reveals(s, x)
  BY <1>1 DEF Reveals, Has
<1>5. Pending(f, d, q \o s)
  BY <1>0, <1>2 DEF Link, Pending, Steady
<1>6. Line(f, q \o s)
  <2>1. One(q \o s, "cs") /\ One(q \o s, "raa")
    BY <1>1, <1>3, CatOrder DEF Link, Line
  <2>2. Precedes(q \o s, Upd, {"cs"})
    BY <1>1, <1>3, CatOrder DEF Link, Line
  <2>3. RaaFirst(f) => Precedes(q \o s, {"raa"}, {"cs"})
    BY <1>0, <1>1, <1>3, CatOrder DEF Link, Line
  <2>4. ~RaaFirst(f) => Precedes(q \o s, {"cs"}, {"raa"})
    BY <1>0, <1>1, <1>3, CatOrder DEF Link, Line
  <2>5. Reveals(q \o s, f.holderNum - 2)
    BY <1>4, CatOrder DEF Link, Line, Steady
  <2> QED BY <1>0, <1>2, <2>1, <2>2, <2>3, <2>4, <2>5 DEF Link, Line, Steady
<1>7. Connected(f, d, q \o s, k)
  <2>1. get_channel_reestablish(f) = get_channel_reestablish(c)
    BY DEF get_channel_reestablish, Steady
  <2>2. Resumes(q \o s, get_channel_reestablish(f))
    BY <1>1, <2>1, CatOrder DEF Link, Connected
  <2>3. f.disc => \A i \in 1 .. Len(q \o s) : (q \o s)[i].t = "reestablish"
    <3>1. s = <<>> => q \o s = q
      OBVIOUS
    <3> QED BY <3>1 DEF Link, Connected, Steady
  <2>4. k = "up" /\ d.disc => q \o s # <<>> /\ Head(q \o s).t = "reestablish"
    <3>1. q # <<>> => q \o s # <<>> /\ Head(q \o s) = Head(q)
      OBVIOUS
    <3> QED BY <3>1 DEF Link, Connected
  <2>5. k # "up" => q \o s = <<>> /\ f.disc
    <3>1. s = <<>> => q \o s = q
      OBVIOUS
    <3> QED BY <3>1 DEF Link, Connected, Steady
  <2> QED BY <1>2, <2>2, <2>3, <2>4, <2>5 DEF Link, Connected
<1> QED BY <1>0, <1>5, <1>6, <1>7 DEF Link

\* and the receiver's, which may have taken a message that answers nothing.
LEMMA LinkSteadyIn ==
    ASSUME NEW c, NEW d, NEW f, NEW M, NEW r \in Seq(M), NEW k, Link(d, c, r, k),
           Steady(c, f), NEW u,
           \/ u = r
           \/ r # <<>> /\ Head(r).t \in Upd \cup Aside /\ u = Tail(r)
    PROVE  Link(d, f, u, k) /\ (u # r => ~c.disc)
<1>0. (OwesCs(d, f) <=> OwesCs(d, c)) /\ (OwesRaa(d, f) <=> OwesRaa(d, c)) /\ Turns(d, f)
  BY OwedSteady DEF Link
<1>1. CASE u = r
  <2>1. Pending(d, f, u)
    BY <1>0, <1>1 DEF Link, Pending
  <2>2. Connected(d, f, u, k)
    BY <1>1 DEF Link, Connected, Steady
  <2> QED BY <1>0, <1>1, <2>1, <2>2 DEF Link
<1>2. CASE r # <<>> /\ Head(r).t \in Upd \cup Aside /\ u = Tail(r)
  <2>1. Head(r).t \notin {"cs", "raa", "reestablish"}
    BY <1>2 DEF Upd, Aside
  <2>2. /\ Has(r, {"cs"}) <=> Has(u, {"cs"})
        /\ Has(r, {"raa"}) <=> Has(u, {"raa"})
        /\ Has(u, Upd) => Has(r, Upd)
        /\ Has(r, {"reestablish"}) <=> Has(u, {"reestablish"})
    BY <1>2, <2>1, TailHas
  <2>3. k = "up" /\ ~c.disc
    BY <1>2, <2>1 DEF Link, Connected
  <2>4. Pending(d, f, u)
    BY <1>0, <2>2 DEF Link, Pending
  <2>5. Line(d, u)
    BY <1>2, <2>2, TailOrder DEF Link, Line
  <2>6. Connected(d, f, u, k)
    <3>1. ~Has(u, {"reestablish"})
      BY <1>2, TailOrder DEF Link, Connected
    <3>2. Resumes(u, get_channel_reestablish(d))
      BY <3>1 DEF Resumes, Has
    <3>3. ~d.disc
      <4>1. 1 \in 1 .. Len(r) /\ r[1] = Head(r)
        BY <1>2, Popped
      <4> QED BY <2>1, <4>1 DEF Link, Connected
    <3> QED BY <2>3, <3>1, <3>2, <3>3 DEF Connected, Steady
  <2> QED BY <1>0, <2>3, <2>4, <2>5, <2>6 DEF Link
<1> QED BY <1>1, <1>2

\* A commitment is built: both sides.
LEMMA LinkBuilds ==
    ASSUME NEW c, NEW d, NEW f, NEW q, NEW r, NEW k, Counted(c), Counted(d),
           Link(c, d, q, k), Link(d, c, r, k), Builds(c, f)
    PROVE  Link(f, d, q, k) /\ Link(d, f, r, k)
<1>0. /\ Turns(f, d) /\ Turns(d, f)
      /\ ~OwesCs(c, d) /\ OwesCs(f, d) /\ (OwesRaa(f, d) <=> OwesRaa(c, d))
      /\ (OwesCs(d, f) <=> OwesCs(d, c)) /\ ~OwesRaa(d, c) /\ ~OwesRaa(d, f)
      /\ RaaFirst(f)
  BY OwedBuilds DEF Link
<1>1. ~Has(q, {"cs"}) /\ ~c.pendRaa
  BY <1>0 DEF Link, Pending, Builds
<1>2. Pending(f, d, q) /\ Pending(d, f, r)
  BY <1>0, <1>1 DEF Link, Pending, Builds
<1>3. Line(f, q)
  BY <1>0, <1>1 DEF Link, Line, Builds, Has, Precedes
<1>4. Connected(f, d, q, k) /\ Connected(d, f, r, k)
  BY DEF Link, Connected, Builds, get_channel_reestablish
<1> QED BY <1>0, <1>2, <1>3, <1>4 DEF Link

\* The head of a queue that is neither an update nor aside.
LEMMA LinkHead ==
    ASSUME NEW c, NEW d, NEW M, NEW r \in Seq(M), NEW k, Link(d, c, r, k), r # <<>>
    PROVE  /\ Head(r).t # "reestablish" => k = "up" /\ ~c.disc /\ ~d.disc
           /\ Head(r).t = "reestablish" => k = "up" /\ c.disc /\ Head(r) = get_channel_reestablish(d)
           /\ Head(r).t = "cs" => OwesCs(d, c) /\ ~(RaaFirst(d) /\ OwesRaa(d, c)) /\ ~Has(r, Upd)
           /\ Head(r).t = "raa" => /\ OwesRaa(d, c) /\ ~(~RaaFirst(d) /\ OwesCs(d, c))
                                   /\ Head(r).num = d.holderNum - 2
           /\ ~Has(Tail(r), {"reestablish"})
<1>1. 1 \in 1 .. Len(r) /\ r[1] = Head(r)
  BY Popped
<1>2. Head(r).t # "reestablish" => k = "up" /\ ~c.disc /\ ~d.disc
  BY <1>1 DEF Link, Connected
<1>3. Head(r).t = "reestablish" => k = "up" /\ c.disc /\ Head(r) = get_channel_reestablish(d)
  BY <1>1 DEF Link, Connected, Resumes, Has
<1>4. ASSUME Head(r).t = "cs"
      PROVE  OwesCs(d, c) /\ ~(RaaFirst(d) /\ OwesRaa(d, c)) /\ ~Has(r, Upd)
  <2>1. Has(r, {"cs"}) /\ OwesCs(d, c)
    BY <1>1, <1>4 DEF Has, Link, Pending
  <2>2. ~Has(r, Upd)
    BY <1>4, TailOrder DEF Link, Line
  <2>3. ASSUME RaaFirst(d), OwesRaa(d, c) PROVE FALSE
    <3>1. Has(r, {"raa"})
      BY <1>2, <1>4, <2>1, <2>3 DEF Link, Pending, Line
    <3>2. ~Has(r, {"raa"})
      BY <1>4, <2>3, TailOrder DEF Link, Line
    <3> QED BY <3>1, <3>2
  <2> QED BY <2>1, <2>2, <2>3
<1>5. ASSUME Head(r).t = "raa"
      PROVE  /\ OwesRaa(d, c) /\ ~(~RaaFirst(d) /\ OwesCs(d, c))
             /\ Head(r).num = d.holderNum - 2
  <2>1. Has(r, {"raa"}) /\ OwesRaa(d, c)
    BY <1>1, <1>5 DEF Has, Link, Pending
  <2>2. Head(r).num = d.holderNum - 2
    BY <1>5, TailOrder DEF Link, Line
  <2>3. ASSUME ~RaaFirst(d), OwesCs(d, c) PROVE FALSE
    <3>1. Has(r, {"cs"})
      BY <1>2, <1>5, <2>1, <2>3 DEF Link, Pending, Line
    <3>2. ~Has(r, {"cs"})
      BY <1>5, <2>3, TailOrder DEF Link, Line
    <3> QED BY <3>1, <3>2
  <2> QED BY <2>1, <2>2, <2>3
<1>6. ~Has(Tail(r), {"reestablish"})
  BY TailOrder DEF Link, Connected
<1> QED BY <1>2, <1>3, <1>4, <1>5, <1>6

-----------------------------------------------------------------------------
(* The queue of one direction when messages are taken or written.          *)

\* The queue after a cs or raa was taken from it.
LEMMA LinkTaken ==
    ASSUME NEW c, NEW d, NEW M, NEW r \in Seq(M), NEW k, Link(d, c, r, k), r # <<>>,
           Head(r).t \in {"cs", "raa"}
    PROVE  /\ Line(d, Tail(r))
           /\ Resumes(Tail(r), get_channel_reestablish(d)) /\ ~Has(Tail(r), {"reestablish"})
           /\ k = "up" /\ ~c.disc /\ ~d.disc
           /\ Head(r).t = "cs" => /\ ~Has(Tail(r), {"cs"}) /\ ~Has(Tail(r), Upd)
                                  /\ Has(Tail(r), {"raa"}) <=> Has(r, {"raa"})
           /\ Head(r).t = "raa" => /\ ~Has(Tail(r), {"raa"})
                                   /\ Has(Tail(r), {"cs"}) <=> Has(r, {"cs"})
                                   /\ Has(Tail(r), Upd) <=> Has(r, Upd)
<1> DEFINE u == Tail(r)
<1>1. /\ \A T : Has(r, T) <=> Head(r).t \in T \/ Has(u, T)
      /\ "cs" \notin Upd /\ "raa" \notin Upd
  BY TailHas DEF Upd
<1>2. /\ Head(r).t = "cs" => ~Has(u, {"cs"})
      /\ Head(r).t = "raa" => ~Has(u, {"raa"})
  BY TailOrder DEF Link, Line
<1>3. Head(r).t = "cs" => ~Has(u, Upd)
  <2>1. Head(r).t = "cs" => ~Has(r, Upd)
    BY LinkHead
  <2> QED BY <1>1, <2>1
<1>4. ~Has(u, {"reestablish"})
  BY LinkHead
<1>5. Resumes(u, get_channel_reestablish(d))
  BY <1>4 DEF Resumes, Has
<1>6. k = "up" /\ ~c.disc /\ ~d.disc
  <2>1. Head(r).t # "reestablish"
    OBVIOUS
  <2> QED BY <2>1, LinkHead
<1>7. Has(u, Upd) => Has(u, {"cs"})
  BY <1>1, <1>3 DEF Link, Line
<1>8. Line(d, u)
  <2>1. One(u, "cs") /\ One(u, "raa")
    BY TailOrder DEF Link, Line
  <2>2. Precedes(u, Upd, {"cs"})
    BY TailOrder DEF Link, Line
  <2>3. RaaFirst(d) => Precedes(u, {"raa"}, {"cs"})
    BY TailOrder DEF Link, Line
  <2>4. ~RaaFirst(d) => Precedes(u, {"cs"}, {"raa"})
    BY TailOrder DEF Link, Line
  <2>5. Reveals(u, d.holderNum - 2)
    BY TailOrder DEF Link, Line
  <2>6. /\ Has(u, {"raa"}) => Has(r, {"raa"})
        /\ Has(u, {"cs"}) => Has(r, {"cs"})
    BY <1>1
  <2> QED BY <1>7, <2>1, <2>2, <2>3, <2>4, <2>5, <2>6 DEF Link, Line
<1> QED BY <1>1, <1>2, <1>3, <1>4, <1>5, <1>6, <1>8

\* A commitment_signed is accepted: both sides.
LEMMA LinkAccepts ==
    ASSUME NEW c, NEW d, NEW f, NEW q, NEW M, NEW r \in Seq(M), NEW k, Counted(c), Counted(d),
           Link(c, d, q, k), Link(d, c, r, k), r # <<>>, Head(r).t = "cs",
           NEW b, Accepts(c, f, b)
    PROVE  Link(f, d, q, k) /\ Link(d, f, Tail(r), k)
<1> DEFINE u == Tail(r)
<1>1. OwesCs(d, c)
  BY LinkHead
<1>2. /\ Turns(f, d) /\ Turns(d, f)
      /\ (OwesCs(f, d) <=> OwesCs(c, d) \/ b = "build") /\ ~OwesRaa(c, d) /\ OwesRaa(f, d)
      /\ ~OwesCs(d, f) /\ (OwesRaa(d, f) <=> OwesRaa(d, c))
      /\ (RaaFirst(f) <=> b = "build") /\ (b = "build" => ~OwesCs(c, d) /\ ~OwesRaa(d, c))
  <2>1. Turns(c, d) /\ Turns(d, c)
    BY DEF Link
  <2> QED BY <1>1, <2>1, OwedAccepts
<1>3. ~Has(q, {"raa"}) /\ ~c.pendRaa /\ (b = "build" => ~Has(q, {"cs"}) /\ ~c.pendCs)
  BY <1>2 DEF Link, Pending
<1>4. /\ Line(d, u)
      /\ Resumes(u, get_channel_reestablish(d)) /\ ~Has(u, {"reestablish"})
      /\ k = "up" /\ ~c.disc /\ ~d.disc
      /\ ~Has(u, {"cs"}) /\ (Has(u, {"raa"}) <=> Has(r, {"raa"}))
  <2>1. Head(r).t \in {"cs", "raa"} /\ Head(r).t # "reestablish"
    OBVIOUS
  <2>2. Line(d, u)
    BY <2>1, LinkTaken
  <2>3. Resumes(u, get_channel_reestablish(d)) /\ ~Has(u, {"reestablish"})
    BY <2>1, LinkTaken
  <2>4. k = "up" /\ ~c.disc /\ ~d.disc
    BY <2>1, LinkHead
  <2>5. ~Has(u, {"cs"}) /\ (Has(u, {"raa"}) <=> Has(r, {"raa"}))
    BY <2>1, LinkTaken
  <2> QED BY <2>2, <2>3, <2>4, <2>5
<1> HIDE DEF u
<1>5. Pending(f, d, q)
  BY <1>2, <1>3 DEF Link, Pending, Accepts
<1>6. Pending(d, f, u)
  <2>1. ~d.pendCs
    <3>1. Has(r, {"cs"})
      BY TailHas
    <3> QED BY <3>1 DEF Link, Pending
  <2> QED BY <1>2, <1>4, <2>1 DEF Link, Pending
<1>7. Line(f, q)
  <2>1. \A x : Reveals(q, x)
    BY <1>3 DEF Reveals, Has
  <2>2. Precedes(q, {"raa"}, {"cs"}) /\ Precedes(q, {"cs"}, {"raa"})
    BY <1>3 DEF Precedes, Has
  <2> QED BY <1>2, <1>3, <2>1, <2>2 DEF Link, Line, Accepts
<1>8. Connected(f, d, q, k)
  <2>1. ~Has(q, {"reestablish"})
    BY <1>4 DEF Link, Connected
  <2>2. Resumes(q, get_channel_reestablish(f))
    BY <2>1 DEF Resumes, Has
  <2> QED BY <1>4, <2>1, <2>2 DEF Connected, Accepts
<1>9. Connected(d, f, u, k)
  BY <1>4 DEF Connected, Accepts
<1> QED BY <1>2, <1>4, <1>5, <1>6, <1>7, <1>8, <1>9 DEF Link, u

\* A revoke_and_ack is accepted: both sides.
LEMMA LinkRevokes ==
    ASSUME NEW c, NEW d, NEW f, NEW q, NEW M, NEW r \in Seq(M), NEW k, Counted(c), Counted(d),
           Link(c, d, q, k), Link(d, c, r, k), r # <<>>, Head(r).t = "raa",
           NEW b, Revokes(c, f, b)
    PROVE  Link(f, d, q, k) /\ Link(d, f, Tail(r), k)
<1> DEFINE u == Tail(r)
<1>1. OwesRaa(d, c)
  BY LinkHead
<1>2. /\ Turns(f, d) /\ Turns(d, f)
      /\ ~OwesCs(c, d) /\ (OwesCs(f, d) <=> b = "build") /\ (OwesRaa(f, d) <=> OwesRaa(c, d))
      /\ (OwesCs(d, f) <=> OwesCs(d, c)) /\ ~OwesRaa(d, f)
      /\ (RaaFirst(f) <=> RaaFirst(c) \/ b = "build")
  BY <1>1, OwedRevokes DEF Link
<1>3. ~Has(q, {"cs"}) /\ ~c.pendCs
  BY <1>2 DEF Link, Pending
<1>4. /\ Line(d, u)
      /\ Resumes(u, get_channel_reestablish(d)) /\ ~Has(u, {"reestablish"})
      /\ k = "up" /\ ~c.disc /\ ~d.disc
      /\ ~Has(u, {"raa"}) /\ (Has(u, {"cs"}) <=> Has(r, {"cs"}))
  <2>1. Head(r).t \in {"cs", "raa"} /\ Head(r).t # "reestablish"
    OBVIOUS
  <2>2. Line(d, u)
    BY <2>1, LinkTaken
  <2>3. Resumes(u, get_channel_reestablish(d)) /\ ~Has(u, {"reestablish"})
    BY <2>1, LinkTaken
  <2>4. k = "up" /\ ~c.disc /\ ~d.disc
    BY <2>1, LinkHead
  <2>5. ~Has(u, {"raa"}) /\ (Has(u, {"cs"}) <=> Has(r, {"cs"}))
    BY <2>1, LinkTaken
  <2> QED BY <2>2, <2>3, <2>4, <2>5
<1> HIDE DEF u
<1>5. Pending(f, d, q)
  BY <1>2, <1>3 DEF Link, Pending, Revokes
<1>6. Pending(d, f, u)
  <2>1. ~d.pendRaa
    <3>1. Has(r, {"raa"})
      BY TailHas
    <3> QED BY <3>1 DEF Link, Pending
  <2> QED BY <1>2, <1>4, <2>1 DEF Link, Pending
<1>7. Line(f, q)
  <2>2. Precedes(q, {"raa"}, {"cs"})
    BY <1>3 DEF Precedes, Has
  <2> QED BY <1>2, <1>3, <2>2 DEF Link, Line, Revokes
<1>8. Connected(f, d, q, k)
  <2>1. ~Has(q, {"reestablish"})
    BY <1>4 DEF Link, Connected
  <2>2. Resumes(q, get_channel_reestablish(f))
    BY <2>1 DEF Resumes, Has
  <2> QED BY <1>4, <2>1, <2>2 DEF Connected, Revokes
<1>9. Connected(d, f, u, k)
  BY <1>4 DEF Connected, Revokes
<1> QED BY <1>2, <1>4, <1>5, <1>6, <1>7, <1>8, <1>9 DEF Link, u

\* What is resent follows what is on its way.
LEMMA LinkResent ==
    ASSUME NEW n, NEW c, NEW q \in Seq(Messages), Line(c, q),
           NEW raa \in BOOLEAN, NEW cs \in BOOLEAN, NEW s, Resent(n, c, raa, cs, s),
           raa => ~Has(q, {"raa"}), cs => ~Has(q, {"cs"}),
           cs /\ Has(q, {"raa"}) => RaaFirst(c),
           raa /\ Has(q, {"cs"}) => ~RaaFirst(c)
    PROVE  /\ One(q \o s, "cs") /\ One(q \o s, "raa")
           /\ Has(q \o s, Upd) => Has(q \o s, {"cs"})
           /\ Precedes(q \o s, Upd, {"cs"})
           /\ Reveals(q \o s, c.holderNum - 2)
           /\ RaaFirst(c) => Precedes(q \o s, {"raa"}, {"cs"})
           /\ ~RaaFirst(c) => Precedes(q \o s, {"cs"}, {"raa"})
           /\ Has(q \o s, {"cs"}) <=> Has(q, {"cs"}) \/ cs
           /\ Has(q \o s, {"raa"}) <=> Has(q, {"raa"}) \/ raa
<1>1. /\ s \in Seq(Messages)
      /\ (Has(s, {"cs"}) <=> cs) /\ (Has(s, {"raa"}) <=> raa) /\ (Has(s, Upd) => cs)
      /\ One(s, "cs") /\ One(s, "raa") /\ Precedes(s, Upd, {"cs"}) /\ Reveals(s, c.holderNum - 2)
      /\ RaaFirst(c) => Precedes(s, {"raa"}, {"cs"})
      /\ ~RaaFirst(c) => Precedes(s, {"cs"}, {"raa"})
  BY DEF Resent
<1>2. /\ One(q, "cs") /\ One(q, "raa")
      /\ Has(q, Upd) => Has(q, {"cs"})
      /\ Precedes(q, Upd, {"cs"})
      /\ Reveals(q, c.holderNum - 2)
      /\ RaaFirst(c) => Precedes(q, {"raa"}, {"cs"})
      /\ ~RaaFirst(c) => Precedes(q, {"cs"}, {"raa"})
  BY DEF Line
<1>3. \A T : Has(q \o s, T) <=> Has(q, T) \/ Has(s, T)
  BY <1>1, CatHas
<1>4. One(q \o s, "cs") /\ One(q \o s, "raa")
  BY <1>1, <1>2, CatOrder
<1>5. Precedes(q \o s, Upd, {"cs"})
  BY <1>1, <1>2, CatOrder
<1>6. Reveals(q \o s, c.holderNum - 2)
  BY <1>1, <1>2, CatOrder
<1>7. RaaFirst(c) => Precedes(q \o s, {"raa"}, {"cs"})
  <2>1. SUFFICES ASSUME RaaFirst(c) PROVE Precedes(q \o s, {"raa"}, {"cs"})
    OBVIOUS
  <2>2. ~(Has(q, {"cs"}) /\ Has(s, {"raa"}))
    BY <1>1, <2>1
  <2> QED BY <1>1, <1>2, <2>1, <2>2, CatOrder
<1>8. ~RaaFirst(c) => Precedes(q \o s, {"cs"}, {"raa"})
  <2>1. SUFFICES ASSUME ~RaaFirst(c) PROVE Precedes(q \o s, {"cs"}, {"raa"})
    OBVIOUS
  <2>2. ~(Has(q, {"raa"}) /\ Has(s, {"cs"}))
    BY <1>1, <2>1
  <2> QED BY <1>1, <1>2, <2>1, <2>2, CatOrder
<1> QED BY <1>1, <1>2, <1>3, <1>4, <1>5, <1>6, <1>7, <1>8

\* The monitor updates are durable, and what waited for them is sent.
LateSent(n, c, s) ==
    /\ c.pendRaa \in BOOLEAN /\ c.pendCs \in BOOLEAN
    /\ c.disc => s = <<>>
    /\ ~c.disc => Resent(n, c, c.pendRaa, c.pendCs, s)

\* Monitor updates become durable: both sides.
LEMMA LinkRestores ==
    ASSUME NEW n, NEW c, NEW d, NEW f, NEW q \in Seq(Messages), NEW r, NEW k,
           Link(c, d, q, k), Link(d, c, r, k), Restores(c, f), NEW s, LateSent(n, c, s)
    PROVE  Link(f, d, q \o s, k) /\ Link(d, f, r, k)
<1>1. /\ Turns(f, d) /\ Turns(d, f)
      /\ (OwesCs(f, d) <=> OwesCs(c, d)) /\ (OwesRaa(f, d) <=> OwesRaa(c, d))
      /\ (OwesCs(d, f) <=> OwesCs(d, c)) /\ (OwesRaa(d, f) <=> OwesRaa(d, c))
      /\ (RaaFirst(f) <=> RaaFirst(c))
  BY OwedSteady DEF Link
<1>2. Link(d, f, r, k)
  <2>1. Pending(d, f, r)
    BY <1>1 DEF Link, Pending
  <2>2. Connected(d, f, r, k)
    BY DEF Link, Connected, Restores
  <2> QED BY <1>1, <2>1, <2>2 DEF Link
<1>3. get_channel_reestablish(f) = get_channel_reestablish(c)
  BY DEF get_channel_reestablish, Restores
<1>4. CASE c.disc
  <2>1. q \o s = q
    BY <1>4 DEF LateSent
  <2>2. Pending(f, d, q)
    BY <1>1, <1>4 DEF Link, Pending, Restores
  <2>3. Connected(f, d, q, k)
    BY <1>3 DEF Link, Connected, Restores
  <2>4. Line(f, q)
    BY <1>1 DEF Link, Line, Restores
  <2> QED BY <1>1, <1>2, <2>1, <2>2, <2>3, <2>4 DEF Link
<1>5. CASE ~c.disc
  <2>0. Resent(n, c, c.pendRaa, c.pendCs, s) /\ c.pendRaa \in BOOLEAN /\ c.pendCs \in BOOLEAN
    BY <1>5 DEF LateSent
  <2>1. /\ One(q \o s, "cs") /\ One(q \o s, "raa")
        /\ Has(q \o s, Upd) => Has(q \o s, {"cs"})
        /\ Precedes(q \o s, Upd, {"cs"})
        /\ Reveals(q \o s, c.holderNum - 2)
        /\ RaaFirst(c) => Precedes(q \o s, {"raa"}, {"cs"})
        /\ ~RaaFirst(c) => Precedes(q \o s, {"cs"}, {"raa"})
        /\ Has(q \o s, {"cs"}) <=> Has(q, {"cs"}) \/ c.pendCs
        /\ Has(q \o s, {"raa"}) <=> Has(q, {"raa"}) \/ c.pendRaa
    <3>0. Line(c, q)
      BY DEF Link
    <3>1. /\ c.pendRaa => ~Has(q, {"raa"})
          /\ c.pendCs => ~Has(q, {"cs"})
          /\ c.pendCs /\ Has(q, {"raa"}) => RaaFirst(c)
          /\ c.pendRaa /\ Has(q, {"cs"}) => ~RaaFirst(c)
      BY DEF Link, Pending, Line
    <3> QED BY <2>0, <3>0, <3>1, LinkResent
  <2>2. Pending(f, d, q \o s)
    BY <1>1, <1>5, <2>1 DEF Link, Pending, Restores
  <2>3. Line(f, q \o s)
    BY <1>1, <2>1 DEF Line, Restores
  <2>4. s \in Seq(Messages) /\ ~Has(s, {"reestablish"})
    BY <2>0 DEF Resent, Has
  <2>5. Connected(f, d, q \o s, k)
    <3>1. Resumes(q \o s, get_channel_reestablish(f))
      BY <1>3, <2>4, CatOrder DEF Link, Connected
    <3>2. Has(q \o s, {"reestablish"}) => Has(q, {"reestablish"})
      BY <2>4, CatHas
    <3>3. q # <<>> => q \o s # <<>> /\ Head(q \o s) = Head(q)
      BY <2>4
    <3> QED BY <1>5, <3>1, <3>2, <3>3 DEF Link, Connected, Restores
  <2> QED BY <1>1, <1>2, <2>2, <2>3, <2>5 DEF Link
<1> QED BY <1>4, <1>5

-----------------------------------------------------------------------------
(* The queue of one direction across a lost connection.                    *)

\* A reestablish says what its receiver owes.
LEMMA ReestablishSays ==
    ASSUME NEW c \in Channel, NEW d \in Channel, Turns(c, d), Turns(d, c), c.disc, d.holderNum >= 1,
           NEW m, m = get_channel_reestablish(d)
    PROVE  /\ m.nextRemote + 1 = c.holderNum - 1 <=> OwesRaa(c, d)
           /\ m.nextLocal + 1 = c.cpNum + (IF c.awaitRaa THEN 1 ELSE 0) <=> OwesCs(c, d)
           /\ ReestablishError(c, m) = "open"
<1>1. /\ m.nextLocal = d.holderNum /\ m.nextRemote = d.cpNum - 1
      /\ c.holderNum \in Int /\ c.cpNum \in Int /\ d.holderNum \in Int /\ d.cpNum \in Int
  BY DEF get_channel_reestablish, Channel
<1>2. c.holderNum = d.cpNum \/ c.holderNum = d.cpNum + 1
  BY DEF Turns
<1>3. CASE c.awaitRaa
  <2>1. d.holderNum = c.cpNum \/ d.holderNum = c.cpNum + 1
    BY DEF Turns
  <2>2. ReestablishError(c, m) = "open"
    BY <1>1, <1>2, <1>3, <2>1 DEF ReestablishError
  <2> QED BY <1>1, <1>2, <1>3, <2>1, <2>2 DEF OwesRaa, OwesCs
<1>4. CASE ~c.awaitRaa
  <2>1. d.holderNum = c.cpNum
    BY <1>4 DEF Turns
  <2>2. ReestablishError(c, m) = "open"
    BY <1>1, <1>2, <1>4, <2>1 DEF ReestablishError
  <2> QED BY <1>1, <1>2, <1>4, <2>1, <2>2 DEF OwesRaa, OwesCs
<1> QED BY <1>3, <1>4

\* The channel is taken up: both sides.
LEMMA LinkTakesUp ==
    ASSUME NEW n, NEW c, NEW d, NEW f, NEW q \in Seq(Messages), NEW r \in Seq(Messages), NEW k,
           Counted(c), Counted(d), Link(c, d, q, k), Link(d, c, r, k),
           r # <<>>, Head(r).t = "reestablish",
           NEW raa \in BOOLEAN, NEW cs \in BOOLEAN, raa <=> OwesRaa(c, d), cs <=> OwesCs(c, d),
           TakesUp(c, f, raa, cs), c.monBusy \in BOOLEAN,
           NEW s \in Seq(Messages), \A T : Has(s, T) => T \cap Aside # {},
           NEW v, Resent(n, f, raa /\ ~c.monBusy, cs /\ ~c.monBusy, v)
    PROVE  Link(f, d, q \o (s \o v), k) /\ Link(d, f, Tail(r), k)
<1> DEFINE u == Tail(r)
           w == q \o s
           z == w \o v
<1>1. /\ Turns(f, d) /\ Turns(d, f)
      /\ (OwesCs(f, d) <=> OwesCs(c, d)) /\ (OwesRaa(f, d) <=> OwesRaa(c, d))
      /\ (OwesCs(d, f) <=> OwesCs(d, c)) /\ (OwesRaa(d, f) <=> OwesRaa(d, c))
      /\ (RaaFirst(f) <=> RaaFirst(c))
  BY OwedSteady DEF Link
<1>2. k = "up" /\ c.disc /\ ~Has(u, {"reestablish"})
  BY LinkHead
<1>3. \A T : Has(r, T) <=> Head(r).t \in T \/ Has(u, T)
  BY TailHas
<1>4. Link(d, f, u, k)
  <2>1. /\ Has(r, {"cs"}) <=> Has(u, {"cs"})
        /\ Has(r, {"raa"}) <=> Has(u, {"raa"})
        /\ Has(r, Upd) <=> Has(u, Upd)
    BY <1>3 DEF Upd
  <2>2. Pending(d, f, u)
    BY <1>1, <2>1 DEF Link, Pending
  <2>3. One(u, "cs") /\ One(u, "raa")
    BY TailOrder DEF Link, Line
  <2>4. Precedes(u, Upd, {"cs"})
    BY TailOrder DEF Link, Line
  <2>5. RaaFirst(d) => Precedes(u, {"raa"}, {"cs"})
    BY TailOrder DEF Link, Line
  <2>6. ~RaaFirst(d) => Precedes(u, {"cs"}, {"raa"})
    BY TailOrder DEF Link, Line
  <2>7. Reveals(u, d.holderNum - 2)
    BY TailOrder DEF Link, Line
  <2>8. Line(d, u)
    BY <2>1, <2>3, <2>4, <2>5, <2>6, <2>7 DEF Link, Line
  <2>9. Connected(d, f, u, k)
    <3>1. Resumes(u, get_channel_reestablish(d))
      BY <1>2 DEF Resumes, Has
    <3>2. d.disc => u = <<>>
      <4>1. SUFFICES ASSUME d.disc, u # <<>> PROVE FALSE
        OBVIOUS
      <4>2. Tail(r) \in Seq(Messages) /\ 1 \in 1 .. Len(Tail(r)) /\ \A i \in 1 .. Len(Tail(r)) : i + 1 \in 1 .. Len(r) /\ Tail(r)[i] = r[i + 1]
        BY <4>1, Popped
      <4>3. \A i \in 1 .. Len(r) : r[i].t = "reestablish"
        BY <4>1 DEF Link, Connected
      <4> QED BY <1>2, <4>2, <4>3 DEF Has
    <3>3. ~f.disc
      BY DEF TakesUp
    <3> HIDE DEF u
    <3>4. d.disc => \A i \in 1 .. Len(u) : u[i].t = "reestablish"
      <4>1. u = <<>> => Len(u) = 0
        OBVIOUS
      <4> QED BY <3>2, <4>1
    <3>5. Has(u, {"reestablish"}) => f.disc
      BY <1>2
    <3>6. k = "up" /\ f.disc => u # <<>> /\ Head(u).t = "reestablish"
      BY <3>3
    <3>7. k # "up" => u = <<>> /\ d.disc
      BY <1>2
    <3> QED BY <3>1, <3>4, <3>5, <3>6, <3>7 DEF Connected
  <2> HIDE DEF u
  <2> QED BY <1>1, <2>2, <2>8, <2>9 DEF Link
<1>5. \A i \in 1 .. Len(q) : q[i].t = "reestablish"
  BY <1>2 DEF Link, Connected
<1>6. ~Has(q, {"cs"}) /\ ~Has(q, {"raa"}) /\ ~Has(q, Upd)
  BY <1>5 DEF Has, Upd
<1>7. ~Has(s, {"cs"}) /\ ~Has(s, {"raa"}) /\ ~Has(s, Upd) /\ ~Has(s, {"reestablish"})
  BY DEF Aside, Upd
<1>8. w \in Seq(Messages) /\ \A T : Has(w, T) <=> Has(q, T) \/ Has(s, T)
  BY CatHas, Spliced
<1>9. Line(f, w)
  <2> HIDE DEF w
  <2>1. ~Has(w, {"cs"}) /\ ~Has(w, {"raa"}) /\ ~Has(w, Upd)
    BY <1>6, <1>7, <1>8
  <2>2. One(w, "cs") /\ One(w, "raa") /\ Precedes(w, Upd, {"cs"}) /\ Reveals(w, f.holderNum - 2)
        /\ Precedes(w, {"raa"}, {"cs"}) /\ Precedes(w, {"cs"}, {"raa"})
    BY <2>1 DEF One, Precedes, Has, Reveals
  <2> QED BY <2>1, <2>2 DEF Line
<1>10. v \in Seq(Messages) /\ ~Has(v, {"reestablish"})
  BY DEF Resent, Has
<1> DEFINE rr == raa /\ ~c.monBusy
           ss == cs /\ ~c.monBusy
<1>11. rr \in BOOLEAN /\ ss \in BOOLEAN /\ Resent(n, f, rr, ss, v)
  OBVIOUS
<1>12. ~Has(w, {"raa"}) /\ ~Has(w, {"cs"})
  BY <1>6, <1>7, <1>8
<1> HIDE DEF rr, ss, w
<1>13. /\ One(z, "cs") /\ One(z, "raa")
       /\ Has(z, Upd) => Has(z, {"cs"})
       /\ Precedes(z, Upd, {"cs"})
       /\ Reveals(z, f.holderNum - 2)
       /\ RaaFirst(f) => Precedes(z, {"raa"}, {"cs"})
       /\ ~RaaFirst(f) => Precedes(z, {"cs"}, {"raa"})
       /\ Has(z, {"cs"}) <=> Has(w, {"cs"}) \/ ss
       /\ Has(z, {"raa"}) <=> Has(w, {"raa"}) \/ rr
  BY <1>8, <1>9, <1>11, <1>12, LinkResent
<1>14. \A T : Has(z, T) <=> Has(w, T) \/ Has(v, T)
  BY <1>8, <1>10, CatHas
<1>15. Resumes(z, get_channel_reestablish(f))
  <2>1. get_channel_reestablish(f) = get_channel_reestablish(c)
    BY DEF get_channel_reestablish, TakesUp
  <2>2. Resumes(w, get_channel_reestablish(c))
    BY <1>7, CatOrder DEF Link, Connected, w
  <2> QED BY <1>8, <1>10, <2>1, <2>2, CatOrder
<1>16. k = "up" /\ d.disc => z # <<>> /\ Head(z).t = "reestablish"
  <2>1. q # <<>> => w # <<>> /\ Head(w) = Head(q)
    BY DEF w
  <2>2. w # <<>> => z # <<>> /\ Head(z) = Head(w)
    BY <1>8, <1>10
  <2> QED BY <2>1, <2>2 DEF Link, Connected
<1>17. z = q \o (s \o v)
  BY <1>10 DEF w
<1> HIDE DEF z
<1>18. Pending(f, d, z)
  <2>1. (f.pendCs <=> c.pendCs \/ (OwesCs(c, d) /\ c.monBusy)) /\ (f.pendRaa <=> c.pendRaa \/ (OwesRaa(c, d) /\ c.monBusy))
        /\ (f.monBusy <=> c.monBusy) /\ ~f.disc
    BY DEF TakesUp
  <2>2. (Has(z, {"cs"}) <=> OwesCs(c, d) /\ ~c.monBusy) /\ (Has(z, {"raa"}) <=> OwesRaa(c, d) /\ ~c.monBusy)
    BY <1>12, <1>13 DEF rr, ss
  <2>3. (c.pendCs => c.monBusy /\ OwesCs(c, d)) /\ (c.pendRaa => c.monBusy /\ OwesRaa(c, d))
    BY DEF Link, Pending
  <2> QED BY <1>1, <2>1, <2>2, <2>3 DEF Pending
<1>19. Line(f, z)
  <2>1. (f.pendCs => c.monBusy) /\ (f.pendRaa => c.monBusy)
    BY DEF TakesUp, Link, Pending
  <2>2. (Has(z, {"cs"}) => ~c.monBusy) /\ (Has(z, {"raa"}) => ~c.monBusy)
    BY <1>12, <1>13 DEF rr, ss
  <2> QED BY <1>13, <2>1, <2>2 DEF Line
<1>20. Connected(f, d, z, k)
  <2>1. ~f.disc
    BY DEF TakesUp
  <2>2. Has(z, {"reestablish"}) => d.disc
    BY <1>7, <1>8, <1>10, <1>14 DEF Link, Connected
  <2> QED BY <1>2, <1>15, <1>16, <2>1, <2>2 DEF Connected
<1> QED BY <1>1, <1>4, <1>17, <1>18, <1>19, <1>20 DEF Link

\* The connection is lost.
LEMMA LinkDrops ==
    ASSUME NEW c, NEW d, NEW f, NEW g, NEW q, NEW k, NEW j, Link(c, d, q, k),
           Drops(c, f), Drops(d, g), j # "up"
    PROVE  Link(f, g, <<>>, j)
<1>1. Turns(f, g) /\ (OwesCs(f, g) <=> OwesCs(c, d)) /\ (OwesRaa(f, g) <=> OwesRaa(c, d))
  <2>1. Turns(f, d) /\ (OwesCs(f, d) <=> OwesCs(c, d)) /\ (OwesRaa(f, d) <=> OwesRaa(c, d))
    BY OwedSteady DEF Link
  <2>2. (Turns(f, g) <=> Turns(f, d)) /\ (OwesCs(f, g) <=> OwesCs(f, d)) /\ (OwesRaa(f, g) <=> OwesRaa(f, d))
    BY OwedSteady
  <2> QED BY <2>1, <2>2
<1>2. Pending(f, g, <<>>)
  BY <1>1, EmptyHas DEF Link, Pending, Drops
<1>3. Line(f, <<>>)
  BY EmptyHas, EmptyOrder DEF Line
<1>4. Connected(f, g, <<>>, j)
  BY EmptyHas, EmptyOrder DEF Connected, Drops
<1> QED BY <1>1, <1>2, <1>3, <1>4 DEF Link

\* The connection is made again.
LEMMA LinkMet ==
    ASSUME NEW c \in Channel, NEW d, NEW q, NEW k, NEW j, Link(c, d, q, k), k # "up", j = "up", d.disc
    PROVE  Link(c, d, <<get_channel_reestablish(c)>>, j)
<1> DEFINE m == get_channel_reestablish(c)
           u == <<m>>
<1>0. m \in Messages /\ m.t = "reestablish"
  BY DEF Channel, get_channel_reestablish, Messages
<1>1. /\ \A T : Has(u, T) <=> "reestablish" \in T
      /\ One(u, "cs") /\ One(u, "raa") /\ \A T : Precedes(u, T, {"cs"}) /\ Precedes(u, T, {"raa"})
      /\ \A x : Reveals(u, x)
  <2> HIDE DEF m
  <2>1. /\ \A T : Has(u, T) <=> m.t \in T
        /\ \A t : One(u, t)
        /\ \A x : Reveals(u, x) <=> (m.t = "raa" => m.num = x)
    BY <1>0, SingleFacts
  <2>2. \A T, U : m.t \notin T \/ m.t \notin U => Precedes(u, T, U)
    BY <1>0, SingleFacts
  <2> HIDE DEF u
  <2> QED BY <1>0, <2>1, <2>2
<1>2. /\ u # <<>> /\ Head(u) = m /\ \A i \in 1 .. Len(u) : i = 1 /\ u[i] = m
  OBVIOUS
<1>3. q = <<>> /\ c.disc
  BY DEF Link, Connected
<1> HIDE DEF u
<1>4. Pending(c, d, u)
  BY <1>1, <1>3 DEF Link, Pending
<1>5. Line(c, u)
  BY <1>1, <1>3 DEF Line, Upd
<1>6. Connected(c, d, u, j)
  BY <1>0, <1>1, <1>2, <1>3 DEF Connected, Resumes
<1> QED BY <1>4, <1>5, <1>6 DEF Link, u

-----------------------------------------------------------------------------
(* The state of one HTLC after sets of HTLCs change.                       *)

\* HTLCs that can be told apart by their payments.
Viewed(S) == OncePaid(S) /\ \A h \in S : h.st # "none"

\* What is read off a set of HTLCs.
LEMMA ViewOf ==
    ASSUME NEW S, Viewed(S)
    PROVE  /\ \A h \in S : StOf(S, h.pay) = h.st /\ IdOf(S, h.pay) = h.id
           /\ \A p : StOf(S, p) = "none" <=> ~\E h \in S : h.pay = p
           /\ \A p : StOf(S, p) # "none" => \E h \in S : h.pay = p /\ h.st = StOf(S, p) /\ h.id = IdOf(S, p)
<1>1. ASSUME NEW h \in S PROVE StOf(S, h.pay) = h.st /\ IdOf(S, h.pay) = h.id
  <2>1. (CHOOSE g \in S : g.pay = h.pay) = h
    <3>1. \A g \in S : g.pay = h.pay <=> g = h
      BY DEF Viewed, OncePaid
    <3> QED BY <3>1
  <2> QED BY <2>1 DEF StOf, IdOf
<1>2. ASSUME NEW p PROVE StOf(S, p) = "none" <=> ~\E h \in S : h.pay = p
  <2>1. CASE \E h \in S : h.pay = p
    <3>1. PICK h \in S : h.pay = p
      BY <2>1
    <3>2. StOf(S, p) = h.st /\ h.st # "none"
      BY <1>1, <3>1 DEF Viewed
    <3> QED BY <2>1, <3>2
  <2>2. CASE ~\E h \in S : h.pay = p
    BY <2>2 DEF StOf
  <2> QED BY <2>1, <2>2
<1> QED BY <1>1, <1>2

\* HTLCs rewritten one by one: T has for each HTLC of S one of the same
\* payment and id.
Recast(S, T) ==
    /\ \A g \in T : g.st # "none" /\ \E h \in S : g.pay = h.pay
    /\ \A h \in S : \E g \in T : g.pay = h.pay /\ g.id = h.id
    /\ \A g, h \in T : g.pay = h.pay => g = h

\* Rewriting HTLCs keeps which payments have one, and its id.
LEMMA RecastView ==
    ASSUME NEW S, Viewed(S), NEW T, Recast(S, T)
    PROVE  /\ Viewed(T)
           /\ \A p : StOf(T, p) = "none" <=> StOf(S, p) = "none"
           /\ \A p : StOf(S, p) # "none" => IdOf(T, p) = IdOf(S, p)
<1>1. Viewed(T)
  BY DEF Viewed, OncePaid, Recast
<1>2. \A p : (\E g \in T : g.pay = p) <=> (\E h \in S : h.pay = p)
  BY DEF Recast
<1>3. \A p : StOf(T, p) = "none" <=> StOf(S, p) = "none"
  <2>1. \A p : StOf(S, p) = "none" <=> ~\E h \in S : h.pay = p
    BY ViewOf
  <2>2. \A p : StOf(T, p) = "none" <=> ~\E h \in T : h.pay = p
    BY <1>1, ViewOf
  <2> QED BY <1>2, <2>1, <2>2
<1>4. ASSUME NEW p, StOf(S, p) # "none" PROVE IdOf(T, p) = IdOf(S, p)
  <2>1. PICK h \in S : h.pay = p /\ h.id = IdOf(S, p)
    BY <1>4, ViewOf
  <2>2. PICK g \in T : g.pay = p /\ g.id = h.id
    BY <2>1 DEF Recast
  <2> QED BY <1>1, <2>1, <2>2, ViewOf
<1> QED BY <1>1, <1>3, <1>4

\* HTLCs that move on.
LEMMA PromoteView ==
    ASSUME NEW S, Viewed(S), NEW from, NEW to, to # "none",
           S \subseteq InHtlcs \/ S \subseteq OutHtlcs
    PROVE  /\ Viewed(Promote(S, from, to))
           /\ \A p : /\ StOf(S, p) = "none" <=> StOf(Promote(S, from, to), p) = "none"
                     /\ StOf(S, p) # "none" =>
                          /\ StOf(Promote(S, from, to), p) = IF StOf(S, p) = from THEN to ELSE StOf(S, p)
                          /\ IdOf(Promote(S, from, to), p) = IdOf(S, p)
<1> DEFINE r == [h \in S |-> IF h.st = from THEN [h EXCEPT !.st = to] ELSE h]
           T == Promote(S, from, to)
<1>1. T = {r[h] : h \in S}
  BY DEF Promote
<1>2. \A h \in S : /\ r[h].pay = h.pay /\ r[h].id = h.id
                   /\ r[h].st = IF h.st = from THEN to ELSE h.st
  BY DEF InHtlcs, OutHtlcs
<1> HIDE DEF r, T
<1>3. Recast(S, T)
  BY <1>1, <1>2 DEF Recast, Viewed, OncePaid
<1>4. /\ Viewed(T)
      /\ \A p : StOf(T, p) = "none" <=> StOf(S, p) = "none"
      /\ \A p : StOf(S, p) # "none" => IdOf(T, p) = IdOf(S, p)
  BY <1>3, RecastView
<1>5. ASSUME NEW p, StOf(S, p) # "none"
      PROVE  StOf(T, p) = (IF StOf(S, p) = from THEN to ELSE StOf(S, p)) /\ IdOf(T, p) = IdOf(S, p)
  <2>1. PICK h \in S : h.pay = p /\ h.st = StOf(S, p)
    BY <1>5, ViewOf
  <2>2. r[h] \in T /\ r[h].pay = p /\ r[h].st = IF h.st = from THEN to ELSE h.st
    BY <1>1, <1>2, <2>1
  <2>3. StOf(T, p) = r[h].st
    BY <1>4, <2>2, ViewOf
  <2> QED BY <1>4, <1>5, <2>1, <2>2, <2>3
<1> QED BY <1>4, <1>5 DEF T

\* HTLCs of a state taken out.
LEMMA MinusView ==
    ASSUME NEW S, Viewed(S), NEW st, NEW T, T = S \ {h \in S : h.st = st}
    PROVE  /\ Viewed(T)
           /\ \A p : /\ StOf(T, p) = "none" <=> StOf(S, p) \in {"none", st}
                     /\ StOf(S, p) \notin {"none", st} => StOf(T, p) = StOf(S, p) /\ IdOf(T, p) = IdOf(S, p)
<1>1. Viewed(T)
  BY DEF Viewed, OncePaid
<1>2. ASSUME NEW p, StOf(S, p) \notin {"none", st}
      PROVE  StOf(T, p) = StOf(S, p) /\ IdOf(T, p) = IdOf(S, p) /\ StOf(T, p) # "none"
  <2>1. PICK h \in S : h.pay = p /\ h.st = StOf(S, p) /\ h.id = IdOf(S, p)
    BY <1>2, ViewOf
  <2>2. h \in T
    BY <1>2, <2>1
  <2> QED BY <1>1, <1>2, <2>1, <2>2, ViewOf
<1>3. ASSUME NEW p, StOf(S, p) \in {"none", st} PROVE StOf(T, p) = "none"
  <2>1. \A h \in T : h \in S /\ h.st # st
    OBVIOUS
  <2>2. \A h \in S : StOf(S, h.pay) = h.st /\ h.st # "none"
    BY ViewOf DEF Viewed
  <2>3. ~\E h \in T : h.pay = p
    BY <1>3, <2>1, <2>2
  <2> QED BY <1>1, <2>3, ViewOf
<1> QED BY <1>1, <1>2, <1>3

\* A new HTLC.
LEMMA InsertView ==
    ASSUME NEW S, Viewed(S), NEW g, StOf(S, g.pay) = "none", g.st # "none", NEW T, T = S \cup {g}
    PROVE  /\ Viewed(T)
           /\ StOf(T, g.pay) = g.st /\ IdOf(T, g.pay) = g.id
           /\ \A p : p # g.pay => /\ StOf(T, p) = StOf(S, p)
                                  /\ StOf(S, p) # "none" => IdOf(T, p) = IdOf(S, p)
<1>1. ~\E h \in S : h.pay = g.pay
  BY ViewOf
<1>2. Viewed(T)
  BY <1>1 DEF Viewed, OncePaid
<1>3. StOf(T, g.pay) = g.st /\ IdOf(T, g.pay) = g.id
  BY <1>2, ViewOf
<1>4. ASSUME NEW p, p # g.pay
      PROVE  StOf(T, p) = StOf(S, p) /\ (StOf(S, p) # "none" => IdOf(T, p) = IdOf(S, p))
  <2>1. CASE StOf(S, p) = "none"
    <3>1. ~\E h \in T : h.pay = p
      BY <1>4, <2>1, ViewOf
    <3> QED BY <1>2, <2>1, <3>1, ViewOf
  <2>2. CASE StOf(S, p) # "none"
    <3>1. PICK h \in S : h.pay = p /\ h.st = StOf(S, p) /\ h.id = IdOf(S, p)
      BY <2>2, ViewOf
    <3>2. h \in T
      BY <3>1
    <3> QED BY <1>2, <3>1, <3>2, ViewOf
  <2> QED BY <2>1, <2>2
<1> QED BY <1>2, <1>3, <1>4

-----------------------------------------------------------------------------
(* The pair of states of one HTLC.                                         *)

\* How a step moves an HTLC on.
OutBuilt(s) == IF s = "AwaitingRemoteRevokeToRemove" THEN "AwaitingRemovedRemoteRevoke" ELSE s

\* How a commitment that is built moves an inbound HTLC on.
InBuilt(s) == IF s = "AwaitingRemoteRevokeToAnnounce" THEN "AwaitingAnnouncedRemoteRevoke" ELSE s

\* How a commitment that is accepted moves an outbound HTLC on.
OutAccepted(s) == IF s = "RemoteRemoved" THEN "AwaitingRemoteRevokeToRemove" ELSE s

\* How a commitment that is accepted moves an inbound HTLC on.
InAccepted(s) == IF s = "RemoteAnnounced" THEN "AwaitingRemoteRevokeToAnnounce" ELSE s

\* How a revocation moves an outbound HTLC on.
OutRevoked(s) == CASE s = "LocalAnnounced" -> "Committed"
                   [] s = "AwaitingRemoteRevokeToRemove" -> "AwaitingRemovedRemoteRevoke"
                   [] s = "AwaitingRemovedRemoteRevoke" -> "none"
                   [] OTHER -> s

\* How a revocation moves an inbound HTLC on.
InRevoked(s) == CASE s = "LocalRemoved" -> "none"
                  [] s = "AwaitingAnnouncedRemoteRevoke" -> "Committed"
                  [] s = "AwaitingRemoteRevokeToAnnounce" -> "AwaitingAnnouncedRemoteRevoke"
                  [] OTHER -> s

\* An HTLC that c did not have is placed.
NewOut(c, f, p) == /\ OutSt(c, p) = "none" /\ OutSt(f, p) = "LocalAnnounced"
                   /\ OutId(f, p) \in c.nextId .. f.nextId - 1

\* The ids of HTLCs stay, and new ones are given to new HTLCs only.
IdsKept(c, f) ==
    /\ \A p \in Payments : OutSt(c, p) # "none" /\ OutSt(f, p) # "none" => OutId(f, p) = OutId(c, p)
    /\ \A p \in Payments : InSt(c, p) # "none" /\ InSt(f, p) # "none" => InId(f, p) = InId(c, p)
    /\ c.nextId <= f.nextId
    /\ \A i \in c.nextId .. f.nextId - 1 : \E p \in Payments : NewOut(c, f, p) /\ OutId(f, p) = i

\* The HTLCs of f are those of c.
SameView(c, f) ==
    /\ \A p \in Payments : OutSt(f, p) = OutSt(c, p) /\ InSt(f, p) = InSt(c, p)
    /\ IdsKept(c, f) /\ f.nextId = c.nextId /\ f.nextCpId = c.nextCpId /\ f.txs = c.txs

\* The HTLCs after a commitment was built, and placed or resolved before that.
BuildView(c, f) ==
    /\ \A p \in Payments : OutSt(f, p) = OutBuilt(OutSt(c, p)) \/ NewOut(c, f, p)
    /\ \A p \in Payments : \/ InSt(f, p) = InBuilt(InSt(c, p))
                           \/ InSt(c, p) = "Committed" /\ InSt(f, p) = "LocalRemoved"
    /\ IdsKept(c, f) /\ f.nextCpId = c.nextCpId /\ f.txs = c.txs

\* The HTLCs after the commitment tx was accepted; b: and one was built in answer.
AcceptView(c, f, b, tx) ==
    /\ \A p \in Payments : OutSt(f, p) = IF b = "build" THEN OutBuilt(OutAccepted(OutSt(c, p)))
                                         ELSE OutAccepted(OutSt(c, p))
    /\ \A p \in Payments : InSt(f, p) = IF b = "build" THEN InBuilt(InAccepted(InSt(c, p)))
                                        ELSE InAccepted(InSt(c, p))
    /\ b # "build" => \/ c.awaitRaa
                      \/ \A p \in Payments : /\ InSt(c, p) # "RemoteAnnounced"
                                             /\ OutSt(c, p) # "RemoteRemoved"
    /\ \A p \in Payments : p \in tx.htlcs <=> InSt(c, p) # "none" \/ OutSt(c, p) = "Committed"
    /\ tx.num = c.holderNum
    /\ IdsKept(c, f) /\ f.nextId = c.nextId /\ f.nextCpId = c.nextCpId
    /\ f.txs = [prev |-> c.txs.cur, cur |-> tx]

\* The HTLCs after a revocation was accepted; b: and a commitment was built after it.
RevokeView(c, f, b) ==
    /\ \A p \in Payments : IF b = "build"
                           THEN OutSt(f, p) = OutBuilt(OutRevoked(OutSt(c, p))) \/ NewOut(c, f, p)
                           ELSE OutSt(f, p) = OutRevoked(OutSt(c, p))
    /\ \A p \in Payments :
            IF b = "build"
            THEN \/ InSt(f, p) = InBuilt(InRevoked(InSt(c, p)))
                 \/ InRevoked(InSt(c, p)) = "Committed" /\ InSt(f, p) = "LocalRemoved"
            ELSE InSt(f, p) = InRevoked(InSt(c, p))
    /\ b # "build" => \A p \in Payments : /\ InSt(c, p) # "AwaitingRemoteRevokeToAnnounce"
                                          /\ OutSt(c, p) # "AwaitingRemoteRevokeToRemove"
    /\ IdsKept(c, f) /\ (b # "build" => f.nextId = c.nextId) /\ f.nextCpId = c.nextCpId /\ f.txs = c.txs

\* The HTLCs after p's was taken in from the peer.
AddView(c, f, p) ==
    /\ p \in Payments /\ InSt(c, p) = "none" /\ InSt(f, p) = "RemoteAnnounced" /\ InId(f, p) = c.nextCpId
    /\ \A o \in Payments : OutSt(f, o) = OutSt(c, o) /\ (o # p => InSt(f, o) = InSt(c, o))
    /\ IdsKept(c, f) /\ f.nextId = c.nextId /\ f.nextCpId = c.nextCpId + 1 /\ f.txs = c.txs

\* The HTLCs after the peer removed p's.
RemView(c, f, p) ==
    /\ p \in Payments /\ OutSt(c, p) = "Committed" /\ OutSt(f, p) = "RemoteRemoved"
    /\ \A o \in Payments : InSt(f, o) = InSt(c, o) /\ (o # p => OutSt(f, o) = OutSt(c, o))
    /\ IdsKept(c, f) /\ f.nextId = c.nextId /\ f.nextCpId = c.nextCpId /\ f.txs = c.txs

\* The HTLCs after the connection was lost: what was not signed for is forgotten.
DropView(c, f) ==
    /\ \A p \in Payments :
        /\ InSt(f, p) = IF InSt(c, p) = "RemoteAnnounced" THEN "none" ELSE InSt(c, p)
        /\ OutSt(f, p) = IF OutSt(c, p) = "RemoteRemoved" THEN "Committed" ELSE OutSt(c, p)
    /\ \A p \in Payments : InSt(c, p) = "RemoteAnnounced" => InId(c, p) \in f.nextCpId .. c.nextCpId - 1
    /\ \A i \in f.nextCpId .. c.nextCpId - 1 : \E p \in Payments : InSt(c, p) = "RemoteAnnounced" /\ InId(c, p) = i
    /\ IdsKept(c, f) /\ f.nextId = c.nextId /\ f.nextCpId <= c.nextCpId /\ f.nextCpId \in Nat /\ f.txs = c.txs

\* The payments of two nodes, as far as they are under way.
Sorted(c) == \A p \in Payments : OutSt(c, p) \in OutStates \cup {"none"} /\ InSt(c, p) \in InStates \cup {"none"}

-----------------------------------------------------------------------------

\* The pairs of states stay when the HTLCs do.
LEMMA PairSame ==
    ASSUME NEW c, NEW d, NEW f, SameView(c, f), Steady(c, f) \/ Restores(c, f) \/ \E raa, cs : TakesUp(c, f, raa, cs),
           NEW p \in Payments
    PROVE  /\ PairOf(c, d, p) => PairOf(f, d, p)
           /\ PairOf(d, c, p) => PairOf(d, f, p)
<1>1. /\ (OwesCs(f, d) <=> OwesCs(c, d)) /\ (OwesRaa(f, d) <=> OwesRaa(c, d))
      /\ (OwesCs(d, f) <=> OwesCs(d, c)) /\ (OwesRaa(d, f) <=> OwesRaa(d, c))
      /\ (RaaFirst(f) <=> RaaFirst(c))
  BY OwedSteady
<1>2. OutSt(f, p) = OutSt(c, p) /\ InSt(f, p) = InSt(c, p)
  BY DEF SameView
<1>3. PairOf(c, d, p) => PairOf(f, d, p)
  BY <1>1, <1>2 DEF PairOf, Pair
<1>4. PairOf(d, c, p) => PairOf(d, f, p)
  BY <1>1, <1>2 DEF PairOf, Pair
<1> QED BY <1>3, <1>4

\* An HTLC taken in keeps the pairs of states.
LEMMA PairAdd ==
    ASSUME NEW c, NEW d, NEW f, NEW p, AddView(c, f, p), Steady(c, f), NEW o \in Payments,
           PairOf(c, d, o), PairOf(d, c, o), OwesCs(d, c), OutSt(d, p) = "LocalAnnounced"
    PROVE  PairOf(f, d, o) /\ PairOf(d, f, o)
<1>1. /\ (OwesCs(f, d) <=> OwesCs(c, d)) /\ (OwesRaa(f, d) <=> OwesRaa(c, d))
      /\ (OwesCs(d, f) <=> OwesCs(d, c)) /\ (OwesRaa(d, f) <=> OwesRaa(d, c))
      /\ (RaaFirst(f) <=> RaaFirst(c))
  BY OwedSteady
<1>2. /\ OutSt(f, o) = OutSt(c, o)
      /\ o # p => InSt(f, o) = InSt(c, o)
      /\ o = p => InSt(c, o) = "none" /\ InSt(f, o) = "RemoteAnnounced" /\ OutSt(d, o) = "LocalAnnounced"
  BY DEF AddView
<1>3. PairOf(f, d, o)
  BY <1>1, <1>2 DEF PairOf, Pair
<1>4. PairOf(d, f, o)
  BY <1>1, <1>2 DEF PairOf, Pair
<1> QED BY <1>3, <1>4

\* A removal taken in keeps the pairs of states.
LEMMA PairRem ==
    ASSUME NEW c, NEW d, NEW f, NEW p, RemView(c, f, p), Steady(c, f), NEW o \in Payments,
           PairOf(c, d, o), PairOf(d, c, o), InSt(d, p) = "LocalRemoved"
    PROVE  PairOf(f, d, o) /\ PairOf(d, f, o)
<1>1. /\ (OwesCs(f, d) <=> OwesCs(c, d)) /\ (OwesRaa(f, d) <=> OwesRaa(c, d))
      /\ (OwesCs(d, f) <=> OwesCs(d, c)) /\ (OwesRaa(d, f) <=> OwesRaa(d, c))
      /\ (RaaFirst(f) <=> RaaFirst(c))
  BY OwedSteady
<1>2. /\ InSt(f, o) = InSt(c, o)
      /\ o # p => OutSt(f, o) = OutSt(c, o)
      /\ o = p => OutSt(c, o) = "Committed" /\ OutSt(f, o) = "RemoteRemoved" /\ InSt(d, o) = "LocalRemoved"
  BY DEF RemView
<1>3. PairOf(f, d, o)
  BY <1>1, <1>2 DEF PairOf, Pair
<1>4. PairOf(d, f, o)
  BY <1>1, <1>2 DEF PairOf, Pair
<1> QED BY <1>3, <1>4

\* A commitment that is built keeps the pairs of states.
LEMMA PairBuild ==
    ASSUME NEW c, NEW d, NEW f, Counted(c), Counted(d), Turns(c, d), Turns(d, c),
           BuildView(c, f), Builds(c, f), NEW p \in Payments, PairOf(c, d, p), PairOf(d, c, p)
    PROVE  PairOf(f, d, p) /\ PairOf(d, f, p)
<1>1. /\ ~OwesCs(c, d) /\ OwesCs(f, d) /\ (OwesRaa(f, d) <=> OwesRaa(c, d))
      /\ (OwesCs(d, f) <=> OwesCs(d, c)) /\ ~OwesRaa(d, c) /\ ~OwesRaa(d, f)
      /\ RaaFirst(f)
  BY OwedBuilds
<1>2. OutSt(f, p) = OutBuilt(OutSt(c, p)) \/ (OutSt(c, p) = "none" /\ OutSt(f, p) = "LocalAnnounced")
  BY DEF BuildView, NewOut
<1>3. InSt(f, p) = InBuilt(InSt(c, p)) \/ (InSt(c, p) = "Committed" /\ InSt(f, p) = "LocalRemoved")
  BY DEF BuildView
<1>4. PairOf(f, d, p)
  BY <1>1, <1>2 DEF PairOf, Pair, OutBuilt
<1>5. PairOf(d, f, p)
  BY <1>1, <1>3 DEF PairOf, Pair, InBuilt
<1> QED BY <1>4, <1>5

\* A commitment that is accepted keeps the pairs of states.
LEMMA PairAccept ==
    ASSUME NEW c, NEW d, NEW f, Counted(c), Counted(d), Turns(c, d), Turns(d, c), NEW b, NEW tx,
           AcceptView(c, f, b, tx), Accepts(c, f, b), OwesCs(d, c), ~(RaaFirst(d) /\ OwesRaa(d, c)),
           NEW p \in Payments, PairOf(c, d, p), PairOf(d, c, p),
           InSt(c, p) = "none" => OutSt(d, p) # "LocalAnnounced",
           InSt(d, p) = "LocalRemoved" => OutSt(c, p) # "Committed"
    PROVE  PairOf(f, d, p) /\ PairOf(d, f, p)
<1>1. /\ (OwesCs(f, d) <=> OwesCs(c, d) \/ b = "build") /\ ~OwesRaa(c, d) /\ OwesRaa(f, d)
      /\ ~OwesCs(d, f) /\ (OwesRaa(d, f) <=> OwesRaa(d, c))
      /\ (RaaFirst(f) <=> b = "build") /\ (b = "build" => ~OwesCs(c, d) /\ ~OwesRaa(d, c))
      /\ (b # "build" /\ c.awaitRaa => OwesCs(c, d) \/ OwesRaa(d, c))
  BY OwedAccepts
<1>2. CASE b = "build"
  <2>1. OutSt(f, p) = OutBuilt(OutAccepted(OutSt(c, p))) /\ InSt(f, p) = InBuilt(InAccepted(InSt(c, p)))
    BY <1>2 DEF AcceptView
  <2>2. PairOf(f, d, p)
    BY <1>1, <1>2, <2>1 DEF PairOf, Pair, OutBuilt, OutAccepted
  <2>3. PairOf(d, f, p)
    BY <1>1, <1>2, <2>1 DEF PairOf, Pair, InBuilt, InAccepted
  <2> QED BY <2>2, <2>3
<1>3. CASE b # "build"
  <2>1. OutSt(f, p) = OutAccepted(OutSt(c, p)) /\ InSt(f, p) = InAccepted(InSt(c, p))
    BY <1>3 DEF AcceptView
  <2>2. InSt(c, p) = "RemoteAnnounced" \/ OutSt(c, p) = "RemoteRemoved" => OwesCs(c, d) \/ OwesRaa(d, c)
    BY <1>1, <1>3 DEF AcceptView
  <2>3. PairOf(f, d, p)
    BY <1>1, <1>3, <2>1, <2>2 DEF PairOf, Pair, OutAccepted
  <2>4. PairOf(d, f, p)
    BY <1>1, <1>3, <2>1, <2>2 DEF PairOf, Pair, InAccepted
  <2> QED BY <2>3, <2>4
<1> QED BY <1>2, <1>3

\* A revocation that is accepted keeps the pairs of states.
LEMMA PairRevoke ==
    ASSUME NEW c, NEW d, NEW f, Counted(c), Counted(d), Turns(c, d), Turns(d, c), NEW b,
           RevokeView(c, f, b), Revokes(c, f, b), OwesRaa(d, c), ~(~RaaFirst(d) /\ OwesCs(d, c)),
           NEW p \in Payments, PairOf(c, d, p), PairOf(d, c, p)
    PROVE  PairOf(f, d, p) /\ PairOf(d, f, p)
<1>1. /\ ~OwesCs(c, d) /\ (OwesCs(f, d) <=> b = "build") /\ (OwesRaa(f, d) <=> OwesRaa(c, d))
      /\ (OwesCs(d, f) <=> OwesCs(d, c)) /\ ~OwesRaa(d, f)
      /\ (RaaFirst(f) <=> RaaFirst(c) \/ b = "build")
  BY OwedRevokes
<1>2. CASE b = "build"
  <2>1. OutSt(f, p) = OutBuilt(OutRevoked(OutSt(c, p))) \/ (OutSt(c, p) = "none" /\ OutSt(f, p) = "LocalAnnounced")
    BY <1>2 DEF RevokeView, NewOut
  <2>2. InSt(f, p) = InBuilt(InRevoked(InSt(c, p))) \/ (InRevoked(InSt(c, p)) = "Committed" /\ InSt(f, p) = "LocalRemoved")
    BY <1>2 DEF RevokeView
  <2>3. PairOf(f, d, p)
    BY <1>1, <1>2, <2>1 DEF PairOf, Pair, OutBuilt, OutRevoked
  <2>4. PairOf(d, f, p)
    BY <1>1, <1>2, <2>2 DEF PairOf, Pair, InBuilt, InRevoked
  <2> QED BY <2>3, <2>4
<1>3. CASE b # "build"
  <2>1. OutSt(f, p) = OutRevoked(OutSt(c, p)) /\ InSt(f, p) = InRevoked(InSt(c, p))
        /\ InSt(c, p) # "AwaitingRemoteRevokeToAnnounce" /\ OutSt(c, p) # "AwaitingRemoteRevokeToRemove"
    BY <1>3 DEF RevokeView
  <2>2. PairOf(f, d, p)
    BY <1>1, <1>3, <2>1 DEF PairOf, Pair, OutRevoked
  <2>3. PairOf(d, f, p)
    BY <1>1, <1>3, <2>1 DEF PairOf, Pair, InRevoked
  <2> QED BY <2>2, <2>3
<1> QED BY <1>2, <1>3

\* Both nodes forget what was not signed for.
LEMMA PairDrop ==
    ASSUME NEW c, NEW d, NEW f, NEW g, DropView(c, f), DropView(d, g), Drops(c, f), Drops(d, g),
           NEW p \in Payments, PairOf(c, d, p)
    PROVE  PairOf(f, g, p)
<1>1. /\ (OwesCs(f, g) <=> OwesCs(c, d)) /\ (OwesRaa(f, g) <=> OwesRaa(c, d))
      /\ (OwesCs(g, f) <=> OwesCs(d, c)) /\ (OwesRaa(g, f) <=> OwesRaa(d, c))
      /\ (RaaFirst(f) <=> RaaFirst(c)) /\ (RaaFirst(g) <=> RaaFirst(d))
  <2>1. /\ (OwesCs(f, d) <=> OwesCs(c, d)) /\ (OwesRaa(f, d) <=> OwesRaa(c, d))
        /\ (OwesCs(d, f) <=> OwesCs(d, c)) /\ (OwesRaa(d, f) <=> OwesRaa(d, c))
        /\ (RaaFirst(f) <=> RaaFirst(c))
    BY OwedSteady
  <2>2. /\ (OwesCs(f, g) <=> OwesCs(f, d)) /\ (OwesRaa(f, g) <=> OwesRaa(f, d))
        /\ (OwesCs(g, f) <=> OwesCs(d, f)) /\ (OwesRaa(g, f) <=> OwesRaa(d, f))
        /\ (RaaFirst(g) <=> RaaFirst(d))
    BY OwedSteady
  <2> QED BY <2>1, <2>2
<1>2. /\ OutSt(f, p) = IF OutSt(c, p) = "RemoteRemoved" THEN "Committed" ELSE OutSt(c, p)
      /\ InSt(g, p) = IF InSt(d, p) = "RemoteAnnounced" THEN "none" ELSE InSt(d, p)
  BY DEF DropView
<1> QED BY <1>1, <1>2 DEF PairOf, Pair

-----------------------------------------------------------------------------
(* Outputs of the commitments that may still be broadcast.                 *)

\* A payment of c's node: nothing comes in for it there, and nothing goes out at d's.
Paid(c, d, p) == InSt(c, p) = "none" /\ OutSt(d, p) = "none"

\* What the commitments pay stays when the HTLCs do.
LEMMA OutputsSame ==
    ASSUME NEW c, NEW d, NEW f, SameView(c, f), Steady(c, f) \/ Restores(c, f) \/ \E raa, cs : TakesUp(c, f, raa, cs),
           NEW p \in Payments
    PROVE  /\ OutputsOf(c, d, p) => OutputsOf(f, d, p)
           /\ OutputsOf(d, c, p) => OutputsOf(d, f, p)
<1>1. /\ (OwesCs(f, d) <=> OwesCs(c, d)) /\ (OwesRaa(f, d) <=> OwesRaa(c, d))
      /\ (OwesCs(d, f) <=> OwesCs(d, c)) /\ (OwesRaa(d, f) <=> OwesRaa(d, c))
  BY OwedSteady
<1>2. OutSt(f, p) = OutSt(c, p) /\ InSt(f, p) = InSt(c, p) /\ f.txs = c.txs
  BY DEF SameView
<1>3. OutputsOf(c, d, p) => OutputsOf(f, d, p)
  BY <1>1, <1>2 DEF OutputsOf
<1>4. OutputsOf(d, c, p) => OutputsOf(d, f, p)
  BY <1>1, <1>2 DEF OutputsOf
<1> QED BY <1>3, <1>4

\* An HTLC taken in leaves what the commitments pay.
LEMMA OutputsAdd ==
    ASSUME NEW c, NEW d, NEW f, NEW p, AddView(c, f, p), Steady(c, f), NEW o \in Payments
    PROVE  /\ OutputsOf(c, d, o) => OutputsOf(f, d, o)
           /\ OutputsOf(d, c, o) => OutputsOf(d, f, o)
<1>1. /\ (OwesCs(f, d) <=> OwesCs(c, d)) /\ (OwesRaa(f, d) <=> OwesRaa(c, d))
      /\ (OwesCs(d, f) <=> OwesCs(d, c)) /\ (OwesRaa(d, f) <=> OwesRaa(d, c))
  BY OwedSteady
<1>2. /\ OutSt(f, o) = OutSt(c, o) /\ f.txs = c.txs
      /\ InSt(f, o) = InSt(c, o) \/ (InSt(c, o) = "none" /\ InSt(f, o) = "RemoteAnnounced")
  BY DEF AddView
<1>3. OutputsOf(c, d, o) => OutputsOf(f, d, o)
  BY <1>1, <1>2 DEF OutputsOf
<1>4. OutputsOf(d, c, o) => OutputsOf(d, f, o)
  BY <1>1, <1>2 DEF OutputsOf
<1> QED BY <1>3, <1>4

\* A removal taken in leaves what the commitments pay.
LEMMA OutputsRem ==
    ASSUME NEW c, NEW d, NEW f, NEW p, RemView(c, f, p), Steady(c, f), NEW o \in Payments
    PROVE  /\ OutputsOf(c, d, o) => OutputsOf(f, d, o)
           /\ OutputsOf(d, c, o) => OutputsOf(d, f, o)
<1>1. /\ (OwesCs(f, d) <=> OwesCs(c, d)) /\ (OwesRaa(f, d) <=> OwesRaa(c, d))
      /\ (OwesCs(d, f) <=> OwesCs(d, c)) /\ (OwesRaa(d, f) <=> OwesRaa(d, c))
  BY OwedSteady
<1>2. /\ InSt(f, o) = InSt(c, o) /\ f.txs = c.txs
      /\ OutSt(f, o) = OutSt(c, o) \/ (OutSt(c, o) = "Committed" /\ OutSt(f, o) = "RemoteRemoved")
  BY DEF RemView
<1>3. OutputsOf(c, d, o) => OutputsOf(f, d, o)
  BY <1>1, <1>2 DEF OutputsOf
<1>4. OutputsOf(d, c, o) => OutputsOf(d, f, o)
  BY <1>1, <1>2 DEF OutputsOf
<1> QED BY <1>3, <1>4

\* A commitment that is built leaves what the holders' commitments pay.
LEMMA OutputsBuild ==
    ASSUME NEW c, NEW d, NEW f, Counted(c), Counted(d), Turns(c, d), Turns(d, c),
           BuildView(c, f), Builds(c, f), NEW p \in Payments
    PROVE  /\ OutputsOf(c, d, p) => OutputsOf(f, d, p)
           /\ OutputsOf(d, c, p) => OutputsOf(d, f, p)
<1>1. /\ ~OwesCs(c, d) /\ OwesCs(f, d) /\ (OwesRaa(f, d) <=> OwesRaa(c, d))
      /\ (OwesCs(d, f) <=> OwesCs(d, c)) /\ ~OwesRaa(d, c) /\ ~OwesRaa(d, f)
  BY OwedBuilds
<1>2. OutSt(f, p) = OutBuilt(OutSt(c, p)) \/ (OutSt(c, p) = "none" /\ OutSt(f, p) = "LocalAnnounced")
  BY DEF BuildView, NewOut
<1>3. InSt(f, p) = InBuilt(InSt(c, p)) \/ (InSt(c, p) = "Committed" /\ InSt(f, p) = "LocalRemoved")
  BY DEF BuildView
<1>4. f.txs = c.txs
  BY DEF BuildView
<1>5. OutputsOf(c, d, p) => OutputsOf(f, d, p)
  BY <1>1, <1>2, <1>4 DEF OutputsOf, OutBuilt
<1>6. OutputsOf(d, c, p) => OutputsOf(d, f, p)
  BY <1>1, <1>3, <1>4 DEF OutputsOf, InBuilt
<1> QED BY <1>5, <1>6

\* An accepted commitment pays what the states of the HTLCs call for.
LEMMA OutputsAccept ==
    ASSUME NEW c, NEW d, NEW f, Counted(c), Counted(d), Turns(c, d), Turns(d, c), NEW b, NEW tx,
           AcceptView(c, f, b, tx), Accepts(c, f, b), OwesCs(d, c), ~(RaaFirst(d) /\ OwesRaa(d, c)),
           NEW p \in Payments, PairOf(c, d, p), PairOf(d, c, p)
    PROVE  /\ Paid(c, d, p) /\ OutputsOf(c, d, p) => OutputsOf(f, d, p)
           /\ Paid(d, c, p) /\ OutputsOf(d, c, p) => OutputsOf(d, f, p)
<1>1. /\ (OwesCs(f, d) <=> OwesCs(c, d) \/ b = "build") /\ ~OwesRaa(c, d) /\ OwesRaa(f, d)
      /\ ~OwesCs(d, f) /\ (OwesRaa(d, f) <=> OwesRaa(d, c))
      /\ (b = "build" => ~OwesCs(c, d) /\ ~OwesRaa(d, c))
  BY OwedAccepts
<1>2. f.txs.prev = c.txs.cur /\ f.txs.cur = tx
  BY DEF AcceptView
<1>3. /\ OutSt(f, p) = (IF b = "build" THEN OutBuilt(OutAccepted(OutSt(c, p))) ELSE OutAccepted(OutSt(c, p)))
      /\ InSt(f, p) = (IF b = "build" THEN InBuilt(InAccepted(InSt(c, p))) ELSE InAccepted(InSt(c, p)))
      /\ p \in tx.htlcs <=> InSt(c, p) # "none" \/ OutSt(c, p) = "Committed"
  BY DEF AcceptView
<1>4. ASSUME Paid(c, d, p), OutputsOf(c, d, p) PROVE OutputsOf(f, d, p)
  <2>1. p \in tx.htlcs <=> OutSt(c, p) = "Committed"
    BY <1>3, <1>4 DEF Paid
  <2>2. InSt(d, p) = "Committed" => OutSt(c, p) = "Committed"
    BY DEF PairOf, Pair
  <2>3. InSt(d, p) = "AwaitingAnnouncedRemoteRevoke" => OutSt(c, p) = "Committed"
    BY DEF PairOf, Pair
  <2>4. OutSt(c, p) = "Committed" => OutSt(f, p) = "Committed"
    BY <1>3 DEF OutBuilt, OutAccepted
  <2>5. OutSt(f, p) = "none" <=> OutSt(c, p) = "none"
    BY <1>3 DEF OutBuilt, OutAccepted
  <2>6. OutSt(f, p) = "AwaitingRemovedRemoteRevoke" => OutSt(c, p) = "AwaitingRemovedRemoteRevoke" \/ b = "build"
    BY <1>3 DEF OutBuilt, OutAccepted
  <2> QED BY <1>1, <1>2, <1>4, <2>1, <2>2, <2>3, <2>4, <2>5, <2>6 DEF OutputsOf
<1>5. ASSUME Paid(d, c, p), OutputsOf(d, c, p) PROVE OutputsOf(d, f, p)
  <2>1. p \in tx.htlcs <=> InSt(c, p) # "none"
    BY <1>3, <1>5 DEF Paid
  <2>2. InSt(f, p) # "none" => InSt(c, p) # "none"
    BY <1>3 DEF InBuilt, InAccepted
  <2>3. InSt(f, p) = "Committed" <=> InSt(c, p) = "Committed"
    BY <1>3 DEF InBuilt, InAccepted
  <2>4. InSt(f, p) = "AwaitingAnnouncedRemoteRevoke" => InSt(c, p) = "AwaitingAnnouncedRemoteRevoke" \/ b = "build"
    BY <1>3 DEF InBuilt, InAccepted
  <2>5. InSt(c, p) # "none" => OutSt(d, p) # "none" /\ OutSt(d, p) # "AwaitingRemovedRemoteRevoke"
    BY DEF PairOf, Pair
  <2> QED BY <1>1, <1>2, <1>5, <2>1, <2>2, <2>3, <2>4, <2>5 DEF OutputsOf
<1> QED BY <1>4, <1>5

\* After a revocation the remaining commitments pay what the states call for.
LEMMA OutputsRevoke ==
    ASSUME NEW c, NEW d, NEW f, Counted(c), Counted(d), Turns(c, d), Turns(d, c), NEW b,
           RevokeView(c, f, b), Revokes(c, f, b), OwesRaa(d, c), NEW p \in Payments
    PROVE  /\ OutputsOf(c, d, p) => OutputsOf(f, d, p)
           /\ OutputsOf(d, c, p) => OutputsOf(d, f, p)
<1>1. /\ ~OwesCs(c, d) /\ (OwesCs(f, d) <=> b = "build") /\ (OwesRaa(f, d) <=> OwesRaa(c, d))
      /\ (OwesCs(d, f) <=> OwesCs(d, c)) /\ ~OwesRaa(d, f)
  BY OwedRevokes
<1>2. f.txs = c.txs
  BY DEF RevokeView
<1>3. \/ /\ OutSt(f, p) = OutBuilt(OutRevoked(OutSt(c, p))) \/ (OutSt(c, p) = "none" /\ OutSt(f, p) = "LocalAnnounced")
         /\ b = "build"
      \/ OutSt(f, p) = OutRevoked(OutSt(c, p)) /\ OutSt(c, p) # "AwaitingRemoteRevokeToRemove"
  BY DEF RevokeView, NewOut
<1>4. \/ InSt(f, p) = InBuilt(InRevoked(InSt(c, p)))
      \/ InRevoked(InSt(c, p)) = "Committed" /\ InSt(f, p) = "LocalRemoved"
      \/ InSt(f, p) = InRevoked(InSt(c, p))
  BY DEF RevokeView
<1>5. OutputsOf(c, d, p) => OutputsOf(f, d, p)
  <2>1. OutSt(f, p) = "none" => OutSt(c, p) \in {"none", "AwaitingRemovedRemoteRevoke"}
    BY <1>3 DEF OutBuilt, OutRevoked
  <2>2. OutSt(f, p) = "AwaitingRemovedRemoteRevoke" => b = "build"
    BY <1>3 DEF OutBuilt, OutRevoked
  <2>3. OutSt(c, p) \in {"Committed", "RemoteRemoved"} => OutSt(f, p) = OutSt(c, p)
    BY <1>3 DEF OutBuilt, OutRevoked
  <2> QED BY <1>1, <1>2, <2>1, <2>2, <2>3 DEF OutputsOf
<1>6. OutputsOf(d, c, p) => OutputsOf(d, f, p)
  <2>1. InSt(f, p) \notin {"none", "RemoteAnnounced"} => InSt(c, p) \notin {"none", "RemoteAnnounced"}
    BY <1>4 DEF InBuilt, InRevoked
  <2>2. InSt(f, p) = "Committed" => InSt(c, p) \in {"Committed", "AwaitingAnnouncedRemoteRevoke"}
    BY <1>4 DEF InBuilt, InRevoked
  <2> QED BY <1>1, <1>2, <2>1, <2>2 DEF OutputsOf
<1> QED BY <1>5, <1>6

\* A lost connection leaves what the commitments pay.
LEMMA OutputsDrop ==
    ASSUME NEW c, NEW d, NEW f, NEW g, DropView(c, f), DropView(d, g), Drops(c, f), Drops(d, g),
           NEW p \in Payments, OutputsOf(c, d, p)
    PROVE  OutputsOf(f, g, p)
<1>1. /\ (OwesCs(f, g) <=> OwesCs(c, d)) /\ (OwesRaa(f, g) <=> OwesRaa(c, d))
      /\ (OwesCs(g, f) <=> OwesCs(d, c)) /\ (OwesRaa(g, f) <=> OwesRaa(d, c))
  <2>1. /\ (OwesCs(f, d) <=> OwesCs(c, d)) /\ (OwesRaa(f, d) <=> OwesRaa(c, d))
        /\ (OwesCs(d, f) <=> OwesCs(d, c)) /\ (OwesRaa(d, f) <=> OwesRaa(d, c))
    BY OwedSteady
  <2>2. /\ (OwesCs(f, g) <=> OwesCs(f, d)) /\ (OwesRaa(f, g) <=> OwesRaa(f, d))
        /\ (OwesCs(g, f) <=> OwesCs(d, f)) /\ (OwesRaa(g, f) <=> OwesRaa(d, f))
    BY OwedSteady
  <2> QED BY <2>1, <2>2
<1>2. /\ OutSt(f, p) = IF OutSt(c, p) = "RemoteRemoved" THEN "Committed" ELSE OutSt(c, p)
      /\ InSt(g, p) = IF InSt(d, p) = "RemoteAnnounced" THEN "none" ELSE InSt(d, p)
      /\ f.txs = c.txs /\ g.txs = d.txs
  BY DEF DropView
<1> QED BY <1>1, <1>2 DEF OutputsOf

-----------------------------------------------------------------------------

\* Steps that accept no commitment keep their numbers.
LEMMA NumbersKept ==
    ASSUME NEW c, NEW d, NEW f, f.txs = c.txs,
           Steady(c, f) \/ Restores(c, f) \/ Drops(c, f) \/ \E raa, cs : TakesUp(c, f, raa, cs)
    PROVE  /\ Numbers(c, d) => Numbers(f, d)
           /\ Numbers(d, c) => Numbers(d, f)
<1>1. (OwesRaa(f, d) <=> OwesRaa(c, d)) /\ (OwesRaa(d, f) <=> OwesRaa(d, c))
  BY OwedSteady
<1>2. f.holderNum = c.holderNum
  BY DEF Steady, Restores, Drops, TakesUp
<1> QED BY <1>1, <1>2 DEF Numbers

\* Commitments are numbered in a row as they are accepted and revoked.
LEMMA NumbersMoved ==
    ASSUME NEW c, NEW d, NEW f, Counted(c), Counted(d), Turns(c, d), Turns(d, c)
    PROVE  /\ Builds(c, f) /\ f.txs = c.txs =>
                (Numbers(c, d) => Numbers(f, d)) /\ (Numbers(d, c) => Numbers(d, f))
           /\ \A b : Revokes(c, f, b) /\ OwesRaa(d, c) /\ f.txs = c.txs =>
                (Numbers(c, d) => Numbers(f, d)) /\ (Numbers(d, c) => Numbers(d, f))
           /\ \A b, tx : Accepts(c, f, b) /\ OwesCs(d, c) /\ tx.num = c.holderNum /\ f.txs = [prev |-> c.txs.cur, cur |-> tx] =>
                (Numbers(c, d) => Numbers(f, d)) /\ (Numbers(d, c) => Numbers(d, f))
<1>1. ASSUME Builds(c, f), f.txs = c.txs
      PROVE (Numbers(c, d) => Numbers(f, d)) /\ (Numbers(d, c) => Numbers(d, f))
  BY <1>1, OwedBuilds DEF Numbers, Builds
<1>2. ASSUME NEW b, Revokes(c, f, b), OwesRaa(d, c), f.txs = c.txs
      PROVE (Numbers(c, d) => Numbers(f, d)) /\ (Numbers(d, c) => Numbers(d, f))
  BY <1>2, OwedRevokes DEF Numbers, Revokes
<1>3. ASSUME NEW b, NEW tx, Accepts(c, f, b), OwesCs(d, c), tx.num = c.holderNum,
             f.txs = [prev |-> c.txs.cur, cur |-> tx]
      PROVE (Numbers(c, d) => Numbers(f, d)) /\ (Numbers(d, c) => Numbers(d, f))
  <2>1. (OwesRaa(d, f) <=> OwesRaa(d, c))
    BY <1>3, OwedAccepts
  <2>2. f.holderNum = c.holderNum + 1 /\ f.txs.cur = tx /\ f.txs.prev = c.txs.cur /\ c.holderNum \in Nat
    BY <1>3 DEF Accepts, Counted
  <2> QED BY <1>3, <2>1, <2>2 DEF Numbers
<1> QED BY <1>1, <1>2, <1>3

-----------------------------------------------------------------------------
(* Additions under way: steps that write.                                  *)

\* Ids tell HTLCs apart and are the same on both sides: c's node pays, d's is paid.
Matched(c, d) ==
    /\ c.nextId \in Nat /\ d.nextCpId \in Nat
    /\ \A p \in Payments : OutSt(c, p) # "none" => OutId(c, p) \in 0 .. c.nextId - 1
    /\ \A p \in Payments : InSt(d, p) # "none" => InId(d, p) \in Nat
    /\ \A p \in Payments : OutSt(c, p) # "none" /\ InSt(d, p) # "none" => OutId(c, p) = InId(d, p)
    /\ \A p, o \in Payments : OutSt(c, p) # "none" /\ OutSt(c, o) # "none" /\ OutId(c, p) = OutId(c, o) => p = o
    /\ \A p, o \in Payments : InSt(d, p) # "none" /\ InSt(d, o) # "none" /\ InId(d, p) = InId(d, o) => p = o

\* A queue with the same additions, with the same removals.
SameAdds(q, v) ==
    /\ \A id : Carries(v, {"add"}, id) <=> Carries(q, {"add"}, id)
    /\ Has(v, {"cs"}) <=> Has(q, {"cs"})
    /\ Rising(q) => Rising(v)

\* A queue with the same removals.
SameRems(q, v) ==
    /\ \A id : Carries(v, Rem, id) <=> Carries(q, Rem, id)
    /\ Has(v, {"cs"}) <=> Has(q, {"cs"})
    /\ Distinct(q, Rem) => Distinct(v, Rem)

\* A queue has the same updates as itself.
LEMMA SameSelf == \A q : SameAdds(q, q) /\ SameRems(q, q)
  BY DEF SameAdds, SameRems

\* A message aside from the commitment protocol adds no update.
LEMMA SameAside ==
    ASSUME NEW M, NEW q \in Seq(M), NEW s \in Seq(M), \A T : Has(s, T) => T \cap Aside # {}
    PROVE  SameAdds(q, q \o s) /\ SameRems(q, q \o s)
<1>1. ~Has(s, {"cs"}) /\ ~Has(s, {"add"}) /\ ~Has(s, Rem)
  BY DEF Aside, Rem
<1>2. \A id : ~Carries(s, {"add"}, id) /\ ~Carries(s, Rem, id)
  BY <1>1 DEF Has, Carries
<1>3. Rising(s) /\ Distinct(s, Rem)
  BY <1>1 DEF Has, Rising, Distinct
<1>4. Rising(q) => Rising(q \o s)
  BY <1>1, <1>3, CatOrder
<1>5. Distinct(q, Rem) => Distinct(q \o s, Rem)
  BY <1>1, <1>3, CatOrder
<1>6. Has(q \o s, {"cs"}) <=> Has(q, {"cs"})
  BY <1>1, CatHas
<1>7. \A id : Carries(q \o s, {"add"}, id) <=> Carries(q, {"add"}, id)
  BY <1>2, CatHas
<1>8. \A id : Carries(q \o s, Rem, id) <=> Carries(q, Rem, id)
  BY <1>2, CatHas
<1> QED BY <1>4, <1>5, <1>6, <1>7, <1>8 DEF SameAdds, SameRems

\* Taking a message that is no update from a queue keeps its updates.
LEMMA SameTail ==
    ASSUME NEW M, NEW r \in Seq(M), r # <<>>
    PROVE  /\ Head(r).t \notin {"add", "cs"} => SameAdds(r, Tail(r))
           /\ Head(r).t \notin {"fulfil", "fail", "cs"} => SameRems(r, Tail(r))
<1>1. Rising(r) => Rising(Tail(r))
  BY TailOrder
<1>2. Distinct(r, Rem) => Distinct(Tail(r), Rem)
  BY TailOrder
<1>3. Has(r, {"cs"}) <=> Head(r).t \in {"cs"} \/ Has(Tail(r), {"cs"})
  BY TailHas
<1>4. \A id : Carries(r, {"add"}, id) <=> (Head(r).t \in {"add"} /\ Head(r).id = id) \/ Carries(Tail(r), {"add"}, id)
  BY TailHas
<1>5. \A id : Carries(r, Rem, id) <=> (Head(r).t \in Rem /\ Head(r).id = id) \/ Carries(Tail(r), Rem, id)
  BY TailHas
<1> QED BY <1>1, <1>2, <1>3, <1>4, <1>5 DEF SameAdds, SameRems, Rem

\* What the additions depend on is as it was, on the payer's side, on the payee's.
AlikeOut(c, f) ==
    /\ f.nextId = c.nextId
    /\ \A p \in Payments : /\ OutSt(f, p) = "none" <=> OutSt(c, p) = "none"
                           /\ OutSt(f, p) = "LocalAnnounced" <=> OutSt(c, p) = "LocalAnnounced"
                           /\ OutSt(c, p) # "none" => OutId(f, p) = OutId(c, p)

\* What the additions depend on is as it was, on the payee's side.
AlikeIn(d, g) ==
    /\ g.nextCpId = d.nextCpId
    /\ \A p \in Payments : /\ InSt(g, p) = "none" <=> InSt(d, p) = "none"
                           /\ InSt(g, p) = "RemoteAnnounced" <=> InSt(d, p) = "RemoteAnnounced"

\* The additions are those they were.
LEMMA AddsStay ==
    ASSUME NEW c, NEW d, NEW f, NEW g, NEW q, NEW v, Adds(c, d, q), AlikeOut(c, f), AlikeIn(d, g), SameAdds(q, v)
    PROVE  Adds(f, g, v)
<1>1. f.nextId = c.nextId /\ g.nextCpId = d.nextCpId
  BY DEF AlikeOut, AlikeIn
<1>2. \A i \in g.nextCpId .. f.nextId - 1 : \E p \in Payments : OutSt(f, p) # "none" /\ OutId(f, p) = i
  BY <1>1 DEF Adds, AlikeOut
<1>3. \A p \in Payments : OutSt(f, p) # "none" =>
            (OutId(f, p) >= g.nextCpId <=> OutSt(f, p) = "LocalAnnounced" /\ InSt(g, p) = "none")
  BY <1>1 DEF Adds, AlikeOut, AlikeIn
<1>4. \A id \in Nat : Carries(v, {"add"}, id) <=> Has(v, {"cs"}) /\ g.nextCpId <= id /\ id < f.nextId
  BY <1>1 DEF Adds, SameAdds
<1>5. (\E p \in Payments : InSt(g, p) = "RemoteAnnounced") => Has(v, {"cs"})
  BY DEF Adds, AlikeIn, SameAdds
<1>6. Rising(v)
  BY DEF Adds, SameAdds
<1> QED BY <1>1, <1>2, <1>3, <1>4, <1>5, <1>6 DEF Adds

\* Steps that leave what the additions depend on as it was.
LEMMA AlikeSteps ==
    ASSUME NEW c, NEW f
    PROVE  /\ SameView(c, f) => AlikeOut(c, f) /\ AlikeIn(c, f)
           /\ BuildView(c, f) => AlikeIn(c, f)
           /\ \A b, tx : AcceptView(c, f, b, tx) => AlikeOut(c, f)
           /\ \A p : AddView(c, f, p) => AlikeOut(c, f)
           /\ \A p : RemView(c, f, p) => AlikeOut(c, f) /\ AlikeIn(c, f)
<1>1. SameView(c, f) => AlikeOut(c, f) /\ AlikeIn(c, f)
  BY DEF SameView, IdsKept, AlikeOut, AlikeIn
<1>2. BuildView(c, f) => AlikeIn(c, f)
  BY DEF BuildView, InBuilt, AlikeIn
<1>3. ASSUME NEW b, NEW tx, AcceptView(c, f, b, tx) PROVE AlikeOut(c, f)
  <2>1. f.nextId = c.nextId
    BY <1>3 DEF AcceptView
  <2>2. ASSUME NEW p \in Payments
        PROVE  /\ OutSt(f, p) = "none" <=> OutSt(c, p) = "none"
               /\ OutSt(f, p) = "LocalAnnounced" <=> OutSt(c, p) = "LocalAnnounced"
    <3>1. OutSt(f, p) = (IF b = "build" THEN OutBuilt(OutAccepted(OutSt(c, p))) ELSE OutAccepted(OutSt(c, p)))
      BY <1>3 DEF AcceptView
    <3> QED BY <3>1 DEF OutBuilt, OutAccepted
  <2>3. IdsKept(c, f)
    BY <1>3 DEF AcceptView
  <2> QED BY <2>1, <2>2, <2>3 DEF AlikeOut, IdsKept
<1>4. ASSUME NEW p, AddView(c, f, p) PROVE AlikeOut(c, f)
  BY <1>4 DEF AddView, IdsKept, AlikeOut
<1>5. ASSUME NEW p, RemView(c, f, p) PROVE AlikeOut(c, f) /\ AlikeIn(c, f)
  BY <1>5 DEF RemView, IdsKept, AlikeOut, AlikeIn
<1> QED BY <1>1, <1>2, <1>3, <1>4, <1>5

\* The payer builds or revokes: nothing is on its way.
LEMMA AddsBuilt ==
    ASSUME NEW c, NEW d, NEW f, NEW q, Adds(c, d, q), BuildView(c, f), Matched(c, d), f.nextId \in Nat,
           ~Has(q, {"cs"}), \A p \in Payments : OutSt(c, p) = "none" => InSt(d, p) = "none"
    PROVE  Adds(f, d, q)
<1>1. /\ d.nextCpId <= c.nextId /\ c.nextId <= f.nextId /\ c.nextId \in Nat /\ d.nextCpId \in Nat
  BY DEF Adds, BuildView, IdsKept, Matched
<1>2. ASSUME NEW p \in Payments, OutSt(c, p) # "none"
      PROVE  /\ OutSt(f, p) # "none" /\ OutId(f, p) = OutId(c, p)
             /\ OutSt(f, p) = "LocalAnnounced" <=> OutSt(c, p) = "LocalAnnounced"
  BY <1>2 DEF BuildView, OutBuilt, NewOut, IdsKept
<1>3. ASSUME NEW p \in Payments, OutSt(c, p) = "none", OutSt(f, p) # "none"
      PROVE  OutSt(f, p) = "LocalAnnounced" /\ OutId(f, p) >= c.nextId /\ OutId(f, p) \in Int
  BY <1>1, <1>3 DEF BuildView, OutBuilt, NewOut
<1>4. ASSUME NEW i \in d.nextCpId .. f.nextId - 1 PROVE \E p \in Payments : OutSt(f, p) # "none" /\ OutId(f, p) = i
  <2>1. CASE i < c.nextId
    <3>1. i \in d.nextCpId .. c.nextId - 1
      BY <1>1, <2>1
    <3>2. PICK p \in Payments : OutSt(c, p) # "none" /\ OutId(c, p) = i
      BY <3>1 DEF Adds
    <3> QED BY <1>2, <3>2
  <2>2. CASE i >= c.nextId
    <3>1. i \in c.nextId .. f.nextId - 1
      BY <1>1, <2>2
    <3>2. PICK p \in Payments : NewOut(c, f, p) /\ OutId(f, p) = i
      BY <3>1 DEF BuildView, IdsKept
    <3> QED BY <3>2 DEF NewOut
  <2> QED BY <1>1, <2>1, <2>2
<1>5. ASSUME NEW p \in Payments, OutSt(f, p) # "none"
      PROVE  OutId(f, p) >= d.nextCpId <=> OutSt(f, p) = "LocalAnnounced" /\ InSt(d, p) = "none"
  <2>1. CASE OutSt(c, p) # "none"
    BY <1>2, <2>1 DEF Adds
  <2>2. CASE OutSt(c, p) = "none"
    BY <1>1, <1>3, <1>5, <2>2
  <2> QED BY <2>1, <2>2
<1>6. \A id \in Nat : ~Carries(q, {"add"}, id)
  BY DEF Adds
<1>7. d.nextCpId <= f.nextId
  BY <1>1
<1>8. Rising(q) /\ ~\E p \in Payments : InSt(d, p) = "RemoteAnnounced"
  BY DEF Adds
<1> QED BY <1>4, <1>5, <1>6, <1>7, <1>8 DEF Adds

\* The payer accepts a revocation: every addition it had announced has arrived.
LEMMA AddsRevoked ==
    ASSUME NEW c, NEW d, NEW f, NEW q, Adds(c, d, q), NEW b, RevokeView(c, f, b), Matched(c, d), f.nextId \in Nat,
           ~Has(q, {"cs"}), \A p \in Payments : OutSt(c, p) = "none" => InSt(d, p) = "none",
           \A p \in Payments : OutSt(c, p) = "LocalAnnounced" => InSt(d, p) # "none"
    PROVE  Adds(f, d, q)
<1>1. /\ d.nextCpId <= c.nextId /\ c.nextId <= f.nextId /\ c.nextId \in Nat /\ d.nextCpId \in Nat
  BY DEF Adds, RevokeView, IdsKept, Matched
<1>2. ASSUME NEW p \in Payments, OutSt(c, p) # "none", OutSt(f, p) # "none"
      PROVE  /\ OutId(f, p) = OutId(c, p) /\ OutId(c, p) < d.nextCpId /\ OutSt(f, p) # "LocalAnnounced"
  <2>1. OutSt(f, p) # "LocalAnnounced" /\ OutId(f, p) = OutId(c, p)
    BY <1>2 DEF RevokeView, OutBuilt, OutRevoked, NewOut, IdsKept
  <2>2. ~(OutId(c, p) >= d.nextCpId) /\ OutId(c, p) \in Nat
    BY <1>1, <1>2 DEF Adds, Matched
  <2> QED BY <1>1, <2>1, <2>2
<1>3. ASSUME NEW p \in Payments, OutSt(c, p) = "none", OutSt(f, p) # "none"
      PROVE  OutSt(f, p) = "LocalAnnounced" /\ OutId(f, p) >= c.nextId /\ OutId(f, p) \in Int
  BY <1>1, <1>3 DEF RevokeView, OutBuilt, OutRevoked, NewOut
<1>9. d.nextCpId = c.nextId
  <2>1. SUFFICES ASSUME d.nextCpId < c.nextId PROVE FALSE
    BY <1>1
  <2>2. d.nextCpId \in d.nextCpId .. c.nextId - 1
    BY <1>1, <2>1
  <2>3. PICK p \in Payments : OutSt(c, p) # "none" /\ OutId(c, p) = d.nextCpId
    BY <2>2 DEF Adds
  <2>4. OutSt(c, p) = "LocalAnnounced" /\ InSt(d, p) = "none"
    BY <1>1, <2>3 DEF Adds
  <2> QED BY <2>4
<1>4. ASSUME NEW i \in d.nextCpId .. f.nextId - 1 PROVE \E p \in Payments : OutSt(f, p) # "none" /\ OutId(f, p) = i
  <2>1. i \in c.nextId .. f.nextId - 1
    BY <1>9
  <2>2. PICK p \in Payments : NewOut(c, f, p) /\ OutId(f, p) = i
    BY <2>1 DEF RevokeView, IdsKept
  <2> QED BY <2>2 DEF NewOut
<1>5. ASSUME NEW p \in Payments, OutSt(f, p) # "none"
      PROVE  OutId(f, p) >= d.nextCpId <=> OutSt(f, p) = "LocalAnnounced" /\ InSt(d, p) = "none"
  <2>1. CASE OutSt(c, p) # "none"
    <3>1. OutId(f, p) < d.nextCpId /\ OutSt(f, p) # "LocalAnnounced" /\ OutId(f, p) \in Nat
      BY <1>2, <1>5, <2>1 DEF Matched
    <3> QED BY <1>1, <3>1
  <2>2. CASE OutSt(c, p) = "none"
    BY <1>1, <1>3, <1>5, <2>2
  <2> QED BY <2>1, <2>2
<1>6. \A id \in Nat : ~Carries(q, {"add"}, id)
  BY DEF Adds
<1>7. d.nextCpId <= f.nextId
  BY <1>1
<1>8. Rising(q) /\ ~\E p \in Payments : InSt(d, p) = "RemoteAnnounced"
  BY DEF Adds
<1> QED BY <1>4, <1>5, <1>6, <1>7, <1>8 DEF Adds

\* The payee accepts a commitment_signed, or revocation.
LEMMA AddsAccepted ==
    ASSUME NEW c, NEW d, NEW f, NEW r, Adds(d, c, r), NEW b, NEW tx, AcceptView(c, f, b, tx), Matched(d, c),
           NEW u, ~Has(u, {"cs"}), ~Has(u, Upd), Rising(r) => Rising(u),
           \A p \in Payments : InSt(c, p) = "none" => OutSt(d, p) # "LocalAnnounced"
    PROVE  Adds(d, f, u)
<1>1. f.nextCpId = c.nextCpId
  BY DEF AcceptView
<1>2. ASSUME NEW p \in Payments
      PROVE  (InSt(f, p) = "none" <=> InSt(c, p) = "none") /\ InSt(f, p) # "RemoteAnnounced"
  <2>1. InSt(f, p) = IF b = "build" THEN InBuilt(InAccepted(InSt(c, p))) ELSE InAccepted(InSt(c, p))
    BY DEF AcceptView
  <2> QED BY <2>1 DEF InBuilt, InAccepted
<1>3. ~Carries(u, {"add"}, 0) /\ \A id : ~Carries(u, {"add"}, id)
  BY DEF Has, Carries, Upd
<1>4. \A id \in Nat : ~(f.nextCpId <= id /\ id < d.nextId)
  <2>1. SUFFICES ASSUME NEW id \in Nat, c.nextCpId <= id, id < d.nextId PROVE FALSE
    BY <1>1
  <2>2. id \in c.nextCpId .. d.nextId - 1
    BY <2>1 DEF Matched
  <2>3. PICK p \in Payments : OutSt(d, p) # "none" /\ OutId(d, p) = id
    BY <2>2 DEF Adds
  <2> QED BY <2>1, <2>3 DEF Adds
<1>5. Rising(u)
  BY DEF Adds
<1>6. /\ \A p \in Payments : OutSt(d, p) # "none" =>
            (OutId(d, p) >= f.nextCpId <=> OutSt(d, p) = "LocalAnnounced" /\ InSt(f, p) = "none")
      /\ f.nextCpId <= d.nextId
      /\ \A i \in f.nextCpId .. d.nextId - 1 : \E p \in Payments : OutSt(d, p) # "none" /\ OutId(d, p) = i
  BY <1>1, <1>2 DEF Adds
<1> QED BY <1>2, <1>3, <1>4, <1>5, <1>6 DEF Adds

\* The payee accepts a revocation.
LEMMA AddsAnswered ==
    ASSUME NEW c, NEW d, NEW f, NEW r, Adds(d, c, r), NEW b, RevokeView(c, f, b), NEW u, SameAdds(r, u),
           \A p \in Payments : InSt(c, p) = "LocalRemoved" => OutSt(d, p) # "LocalAnnounced"
    PROVE  Adds(d, f, u)
<1>1. f.nextCpId = c.nextCpId
  BY DEF RevokeView
<1>2. ASSUME NEW p \in Payments
      PROVE  /\ InSt(c, p) = "none" => InSt(f, p) = "none"
             /\ InSt(f, p) = "none" => InSt(c, p) \in {"none", "LocalRemoved"}
             /\ InSt(f, p) = "RemoteAnnounced" <=> InSt(c, p) = "RemoteAnnounced"
  BY DEF RevokeView, InBuilt, InRevoked
<1>3. \A p \in Payments : OutSt(d, p) # "none" =>
            (OutId(d, p) >= f.nextCpId <=> OutSt(d, p) = "LocalAnnounced" /\ InSt(f, p) = "none")
  BY <1>1, <1>2 DEF Adds
<1>4. /\ f.nextCpId <= d.nextId
      /\ \A i \in f.nextCpId .. d.nextId - 1 : \E p \in Payments : OutSt(d, p) # "none" /\ OutId(d, p) = i
  BY <1>1 DEF Adds
<1>5. \A id \in Nat : Carries(u, {"add"}, id) <=> Has(u, {"cs"}) /\ f.nextCpId <= id /\ id < d.nextId
  BY <1>1 DEF Adds, SameAdds
<1>6. (\E p \in Payments : InSt(f, p) = "RemoteAnnounced") => Has(u, {"cs"})
  BY <1>2 DEF Adds, SameAdds
<1>7. Rising(u)
  BY DEF Adds, SameAdds
<1> QED BY <1>3, <1>4, <1>5, <1>6, <1>7 DEF Adds

-----------------------------------------------------------------------------
(* Additions and removals under way: steps that read.                      *)

\* The head of a queue that starts with an addition is the HTLC the payee expects.
LEMMA AddsHead ==
    ASSUME NEW c, NEW d, NEW r \in Seq(Messages), Adds(d, c, r), Matched(d, c), r # <<>>, Head(r).t = "add"
    PROVE  /\ Head(r).id = c.nextCpId /\ c.nextCpId < d.nextId /\ Has(r, {"cs"})
           /\ \A p \in Payments : OutSt(d, p) # "none" /\ OutId(d, p) = c.nextCpId
                => OutSt(d, p) = "LocalAnnounced" /\ InSt(c, p) = "none"
           /\ \E p \in Payments : OutSt(d, p) # "none" /\ OutId(d, p) = c.nextCpId
<1> DEFINE m == Head(r)
<1>0. m \in Messages /\ m.id \in Nat /\ c.nextCpId \in Nat /\ d.nextId \in Nat
  BY DEF Messages, Closings, Matched
<1>1. Carries(r, {"add"}, m.id)
  BY TailHas
<1>2. Has(r, {"cs"}) /\ c.nextCpId <= m.id /\ m.id < d.nextId
  BY <1>0, <1>1 DEF Adds
<1>3. Carries(r, {"add"}, c.nextCpId)
  BY <1>0, <1>2 DEF Adds
<1>4. m.id = c.nextCpId
  <2>1. m.id = c.nextCpId \/ Carries(Tail(r), {"add"}, c.nextCpId)
    BY <1>3, TailHas
  <2>2. \A id : Carries(Tail(r), {"add"}, id) => m.id < id
    <3>1. \A i \in 1 .. Len(Tail(r)) : Tail(r)[i].t = "add" => m.id < Tail(r)[i].id
      BY TailOrder DEF Adds
    <3> QED BY <3>1 DEF Carries
  <2> QED BY <1>0, <1>2, <2>1, <2>2
<1>5. c.nextCpId < d.nextId
  BY <1>2, <1>4
<1>6. ASSUME NEW p \in Payments, OutSt(d, p) # "none", OutId(d, p) = c.nextCpId
      PROVE  OutSt(d, p) = "LocalAnnounced" /\ InSt(c, p) = "none"
  BY <1>0, <1>6 DEF Adds
<1>7. c.nextCpId \in c.nextCpId .. d.nextId - 1
  BY <1>0, <1>5
<1>8. \E p \in Payments : OutSt(d, p) # "none" /\ OutId(d, p) = c.nextCpId
  BY <1>7 DEF Adds
<1> QED BY <1>2, <1>4, <1>5, <1>6, <1>8

\* The payee takes in the addition that is next.
LEMMA AddsTaken ==
    ASSUME NEW c, NEW d, NEW f, NEW r \in Seq(Messages), Adds(d, c, r), Matched(d, c), r # <<>>, Head(r).t = "add",
           NEW p, AddView(c, f, p), OutSt(d, p) # "none", OutId(d, p) = c.nextCpId
    PROVE  Adds(d, f, Tail(r))
<1> DEFINE u == Tail(r)
<1>0. c.nextCpId \in Nat /\ d.nextId \in Nat /\ f.nextCpId = c.nextCpId + 1 /\ p \in Payments
  BY DEF Matched, AddView
<1>1. Head(r).id = c.nextCpId /\ c.nextCpId < d.nextId /\ Has(r, {"cs"})
  BY AddsHead
<1>2. Has(u, {"cs"})
  BY <1>1, TailHas
<1>3. Rising(u) /\ \A id : Carries(u, {"add"}, id) => c.nextCpId < id
  <2>1. Rising(u) /\ \A i \in 1 .. Len(u) : u[i].t = "add" => Head(r).id < u[i].id
    BY TailOrder DEF Adds
  <2> QED BY <1>1, <2>1 DEF Carries
<1>4. \A id : Carries(r, {"add"}, id) <=> id = c.nextCpId \/ Carries(u, {"add"}, id)
  BY <1>1, TailHas
<1> HIDE DEF u
<1>5. \A id \in Nat : Carries(u, {"add"}, id) <=> Has(u, {"cs"}) /\ f.nextCpId <= id /\ id < d.nextId
  <2>1. \A id \in Nat : Carries(r, {"add"}, id) <=> c.nextCpId <= id /\ id < d.nextId
    BY <1>1 DEF Adds
  <2>2. ASSUME NEW id \in Nat PROVE Carries(u, {"add"}, id) <=> f.nextCpId <= id /\ id < d.nextId
    <3>1. CASE id = c.nextCpId
      BY <1>0, <1>3, <3>1
    <3>2. CASE id # c.nextCpId
      BY <1>0, <1>4, <2>1, <3>2
    <3> QED BY <3>1, <3>2
  <2> QED BY <1>2, <2>2
<1>6. ASSUME NEW o \in Payments, OutSt(d, o) # "none"
      PROVE  OutId(d, o) >= f.nextCpId <=> OutSt(d, o) = "LocalAnnounced" /\ InSt(f, o) = "none"
  <2>0. OutId(d, o) \in Nat
    BY <1>6 DEF Matched
  <2>1. CASE o = p
    <3>1. InSt(f, o) # "none"
      BY <2>1 DEF AddView
    <3> QED BY <1>0, <2>1, <3>1
  <2>2. CASE o # p
    <3>1. InSt(f, o) = InSt(c, o)
      BY <2>2 DEF AddView
    <3>2. OutId(d, o) # c.nextCpId
      BY <1>0, <1>6, <2>2 DEF Matched
    <3>3. OutId(d, o) >= f.nextCpId <=> OutId(d, o) >= c.nextCpId
      BY <1>0, <2>0, <3>2
    <3> QED BY <1>6, <3>1, <3>3 DEF Adds
  <2> QED BY <2>1, <2>2
<1>7. f.nextCpId <= d.nextId
  BY <1>0, <1>1
<1>8. ASSUME NEW i \in f.nextCpId .. d.nextId - 1 PROVE \E o \in Payments : OutSt(d, o) # "none" /\ OutId(d, o) = i
  <2>1. i \in c.nextCpId .. d.nextId - 1
    BY <1>0
  <2> QED BY <2>1 DEF Adds
<1>9. Adds(d, f, u)
  BY <1>2, <1>3, <1>5, <1>6, <1>7, <1>8 DEF Adds
<1> QED BY <1>9 DEF u

\* Both nodes forget what was not signed for.
LEMMA AddsDropped ==
    ASSUME NEW c, NEW d, NEW f, NEW g, NEW q, Adds(c, d, q), Matched(c, d), DropView(c, f), DropView(d, g),
           \A p \in Payments : InSt(d, p) = "RemoteAnnounced" => OutSt(c, p) = "LocalAnnounced"
    PROVE  Adds(f, g, <<>>)
<1>0. /\ c.nextId \in Nat /\ d.nextCpId \in Nat /\ g.nextCpId \in Nat /\ g.nextCpId <= d.nextCpId
      /\ f.nextId = c.nextId /\ d.nextCpId <= c.nextId
  BY DEF Matched, DropView, Adds
<1>1. ASSUME NEW p \in Payments
      PROVE  /\ OutSt(f, p) = "none" <=> OutSt(c, p) = "none"
             /\ OutSt(f, p) = "LocalAnnounced" <=> OutSt(c, p) = "LocalAnnounced"
             /\ OutSt(c, p) # "none" => OutId(f, p) = OutId(c, p)
             /\ InSt(g, p) = "none" <=> InSt(d, p) \in {"none", "RemoteAnnounced"}
             /\ InSt(g, p) # "RemoteAnnounced"
  BY DEF DropView, IdsKept
<1>2. ASSUME NEW p \in Payments, InSt(d, p) = "RemoteAnnounced"
      PROVE  OutSt(c, p) = "LocalAnnounced" /\ OutId(c, p) = InId(d, p) /\ InId(d, p) \in g.nextCpId .. d.nextCpId - 1
  BY <1>2 DEF DropView, Matched
<1>3. ASSUME NEW i \in g.nextCpId .. d.nextCpId - 1
      PROVE  \E p \in Payments : InSt(d, p) = "RemoteAnnounced" /\ OutSt(c, p) = "LocalAnnounced" /\ OutId(c, p) = i
  BY <1>2 DEF DropView
<1>4. ASSUME NEW i \in g.nextCpId .. f.nextId - 1 PROVE \E p \in Payments : OutSt(f, p) # "none" /\ OutId(f, p) = i
  <2>1. CASE i < d.nextCpId
    <3>1. i \in g.nextCpId .. d.nextCpId - 1
      BY <1>0, <2>1
    <3>2. PICK p \in Payments : OutSt(c, p) = "LocalAnnounced" /\ OutId(c, p) = i
      BY <1>3, <3>1
    <3> QED BY <1>1, <3>2
  <2>2. CASE i >= d.nextCpId
    <3>1. i \in d.nextCpId .. c.nextId - 1
      BY <1>0, <2>2
    <3>2. PICK p \in Payments : OutSt(c, p) # "none" /\ OutId(c, p) = i
      BY <3>1 DEF Adds
    <3> QED BY <1>1, <3>2
  <2> QED BY <1>0, <2>1, <2>2
<1>5. ASSUME NEW p \in Payments, OutSt(f, p) # "none"
      PROVE  OutId(f, p) >= g.nextCpId <=> OutSt(f, p) = "LocalAnnounced" /\ InSt(g, p) = "none"
  <2>0. OutSt(c, p) # "none" /\ OutId(f, p) = OutId(c, p) /\ OutId(c, p) \in Nat
    BY <1>1, <1>5 DEF Matched
  <2>1. CASE OutId(c, p) >= d.nextCpId
    <3>1. OutSt(c, p) = "LocalAnnounced" /\ InSt(d, p) = "none"
      BY <2>0, <2>1 DEF Adds
    <3> QED BY <1>0, <1>1, <2>0, <2>1, <3>1
  <2>2. CASE OutId(c, p) < d.nextCpId /\ OutId(c, p) >= g.nextCpId
    <3>1. OutId(c, p) \in g.nextCpId .. d.nextCpId - 1
      BY <1>0, <2>0, <2>2
    <3>2. PICK o \in Payments : InSt(d, o) = "RemoteAnnounced" /\ OutSt(c, o) = "LocalAnnounced" /\ OutId(c, o) = OutId(c, p)
      BY <1>3, <3>1
    <3>3. o = p
      BY <2>0, <3>2 DEF Matched
    <3> QED BY <1>1, <2>0, <2>2, <3>2, <3>3
  <2>3. CASE OutId(c, p) < g.nextCpId
    <3>1. ~(OutSt(c, p) = "LocalAnnounced" /\ InSt(d, p) = "none")
      BY <1>0, <2>0, <2>3 DEF Adds
    <3>2. InSt(d, p) # "RemoteAnnounced"
      BY <1>0, <1>2, <2>0, <2>3
    <3> QED BY <1>0, <1>1, <2>0, <2>3, <3>1, <3>2
  <2> QED BY <1>0, <2>0, <2>1, <2>2, <2>3
<1>6. g.nextCpId <= f.nextId
  BY <1>0
<1>7. Rising(<<>>) /\ ~Has(<<>>, {"cs"}) /\ \A id : ~Carries(<<>>, {"add"}, id)
  BY EmptyHas, EmptyOrder
<1> QED BY <1>1, <1>4, <1>5, <1>6, <1>7 DEF Adds

\* A commitment update is sent, for the first time or again.
LEMMA AddsResent ==
    ASSUME NEW n, NEW c, NEW d, NEW q \in Seq(Messages), Adds(c, d, q), Matched(c, d), Viewed(c.out),
           \A h \in c.out : h.pay \in Payments,
           NEW raa, NEW cs, NEW s, Resent(n, c, raa, cs, s), cs => ~Has(q, {"cs"}),
           cs => \A p \in Payments : OutSt(c, p) = "LocalAnnounced" => InSt(d, p) \in {"none", "RemoteAnnounced"}
    PROVE  Adds(c, d, q \o s)
<1>0. /\ c.nextId \in Nat /\ d.nextCpId \in Nat /\ s \in Seq(Messages)
  BY DEF Matched, Resent
<1>1. \A id : Carries(q \o s, {"add"}, id) <=> Carries(q, {"add"}, id) \/ Carries(s, {"add"}, id)
  BY <1>0, CatHas
<1>2. Has(q \o s, {"cs"}) <=> Has(q, {"cs"}) \/ Has(s, {"cs"})
  BY <1>0, CatHas
<1>3. CASE ~cs
  <2>1. ~Has(s, {"cs"}) /\ ~Has(s, {"add"}) /\ \A id : ~Carries(s, {"add"}, id)
    BY <1>3 DEF Resent, Has, Upd
  <2>2. Rising(q \o s)
    BY <1>0, <2>1, CatOrder DEF Adds, Resent
  <2> QED BY <1>1, <1>2, <2>1, <2>2 DEF Adds
<1>4. CASE cs
  <2>1. ~Has(q, {"cs"}) /\ Has(s, {"cs"})
    BY <1>4 DEF Resent
  <2>2. ~\E p \in Payments : InSt(d, p) = "RemoteAnnounced"
    BY <2>1 DEF Adds
  <2>3. \A id \in Nat : ~Carries(q, {"add"}, id)
    BY <2>1 DEF Adds
  <2>4. ~Has(q, {"add"})
    <3>1. \A i \in 1 .. Len(q) : q[i].t = "add" => q[i].id \in Nat
      <4>1. \A i \in 1 .. Len(q) : q[i] \in Messages
        OBVIOUS
      <4> QED BY <4>1 DEF Messages, Closings
    <3> QED BY <2>3, <3>1 DEF Has, Carries
  <2>5. Rising(q \o s)
    BY <1>0, <2>4, CatOrder DEF Adds, Resent
  <2>6. ASSUME NEW id \in Nat PROVE Carries(q \o s, {"add"}, id) <=> d.nextCpId <= id /\ id < c.nextId
    <3>1. Carries(q \o s, {"add"}, id) <=> \E h \in c.out : h.st = "LocalAnnounced" /\ h.id = id
      BY <1>1, <1>4, <2>3 DEF Resent
    <3>2. ASSUME NEW h \in c.out, h.st = "LocalAnnounced", h.id = id PROVE d.nextCpId <= id /\ id < c.nextId
      <4>1. OutSt(c, h.pay) = "LocalAnnounced" /\ OutId(c, h.pay) = id /\ h.pay \in Payments
        BY <3>2, ViewOf DEF OutSt, OutId
      <4>2. InSt(d, h.pay) = "none"
        BY <1>4, <2>2, <4>1
      <4>3. OutId(c, h.pay) >= d.nextCpId /\ OutId(c, h.pay) \in 0 .. c.nextId - 1
        BY <4>1, <4>2 DEF Adds, Matched
      <4> QED BY <1>0, <4>1, <4>3
    <3>3. ASSUME d.nextCpId <= id, id < c.nextId PROVE \E h \in c.out : h.st = "LocalAnnounced" /\ h.id = id
      <4>1. id \in d.nextCpId .. c.nextId - 1
        BY <1>0, <3>3
      <4>2. PICK p \in Payments : OutSt(c, p) # "none" /\ OutId(c, p) = id
        BY <4>1 DEF Adds
      <4>3. OutSt(c, p) = "LocalAnnounced"
        BY <1>0, <3>3, <4>2 DEF Adds
      <4>4. \E h \in c.out : h.pay = p /\ h.st = OutSt(c, p) /\ h.id = OutId(c, p)
        BY <4>2, ViewOf DEF OutSt, OutId
      <4> QED BY <4>2, <4>3, <4>4
    <3> QED BY <3>1, <3>2, <3>3
  <2> QED BY <1>2, <2>1, <2>2, <2>5, <2>6 DEF Adds
<1> QED BY <1>3, <1>4

-----------------------------------------------------------------------------

\* What the removals depend on is as it was, on the payee's side, on the payer's.
AlikeGone(c, f) == \A p \in Payments :
    /\ InSt(f, p) = "LocalRemoved" <=> InSt(c, p) = "LocalRemoved"
    /\ InSt(c, p) = "LocalRemoved" => InId(f, p) = InId(c, p)

\* What the removals depend on is as it was, on the payer's side.
AlikeHeld(d, g) == \A p \in Payments :
    /\ OutSt(g, p) = "Committed" <=> OutSt(d, p) = "Committed"
    /\ OutSt(g, p) = "RemoteRemoved" <=> OutSt(d, p) = "RemoteRemoved"

\* The removals are those they were.
LEMMA RemsStay ==
    ASSUME NEW c, NEW d, NEW f, NEW g, NEW q, NEW v, Rems(c, d, q), AlikeGone(c, f), AlikeHeld(d, g), SameRems(q, v)
    PROVE  Rems(f, g, v)
<1>1. ASSUME NEW id \in Nat, Carries(v, Rem, id)
      PROVE  \E p \in Payments : InId(f, p) = id /\ InSt(f, p) = "LocalRemoved" /\ OutSt(g, p) = "Committed"
  <2>1. Carries(q, Rem, id)
    BY <1>1 DEF SameRems
  <2>2. PICK p \in Payments : InId(c, p) = id /\ InSt(c, p) = "LocalRemoved" /\ OutSt(d, p) = "Committed"
    BY <2>1 DEF Rems
  <2> QED BY <2>2 DEF AlikeGone, AlikeHeld
<1>2. Has(v, {"cs"}) => \A p \in Payments :
            InSt(f, p) = "LocalRemoved" /\ OutSt(g, p) = "Committed" => Carries(v, Rem, InId(f, p))
  BY DEF Rems, AlikeGone, AlikeHeld, SameRems
<1>3. (\E p \in Payments : OutSt(g, p) = "RemoteRemoved") => Has(v, {"cs"})
  BY DEF Rems, AlikeHeld, SameRems
<1>4. Distinct(v, Rem)
  BY DEF Rems, SameRems
<1> QED BY <1>1, <1>2, <1>3, <1>4 DEF Rems

\* Steps that leave what the removals depend on as it was.
LEMMA AlikeRems ==
    ASSUME NEW c, NEW f
    PROVE  /\ SameView(c, f) => AlikeGone(c, f) /\ AlikeHeld(c, f)
           /\ BuildView(c, f) => AlikeHeld(c, f)
           /\ \A b, tx : AcceptView(c, f, b, tx) => AlikeGone(c, f)
           /\ \A p : AddView(c, f, p) => AlikeGone(c, f) /\ AlikeHeld(c, f)
           /\ \A p : RemView(c, f, p) => AlikeGone(c, f)
<1>1. SameView(c, f) => AlikeGone(c, f) /\ AlikeHeld(c, f)
  BY DEF SameView, IdsKept, AlikeGone, AlikeHeld
<1>2. BuildView(c, f) => AlikeHeld(c, f)
  BY DEF BuildView, OutBuilt, NewOut, AlikeHeld
<1>3. ASSUME NEW b, NEW tx, AcceptView(c, f, b, tx) PROVE AlikeGone(c, f)
  <2>1. IdsKept(c, f)
    BY <1>3 DEF AcceptView
  <2>2. ASSUME NEW p \in Payments PROVE InSt(f, p) = "LocalRemoved" <=> InSt(c, p) = "LocalRemoved"
    <3>1. InSt(f, p) = (IF b = "build" THEN InBuilt(InAccepted(InSt(c, p))) ELSE InAccepted(InSt(c, p)))
      BY <1>3 DEF AcceptView
    <3> QED BY <3>1 DEF InBuilt, InAccepted
  <2> QED BY <2>1, <2>2 DEF AlikeGone, IdsKept
<1>4. ASSUME NEW p, AddView(c, f, p) PROVE AlikeGone(c, f) /\ AlikeHeld(c, f)
  BY <1>4 DEF AddView, IdsKept, AlikeGone, AlikeHeld
<1>5. ASSUME NEW p, RemView(c, f, p) PROVE AlikeGone(c, f)
  BY <1>5 DEF RemView, IdsKept, AlikeGone
<1> QED BY <1>1, <1>2, <1>3, <1>4, <1>5

\* The payee has nothing under way: whatever it does, no removal is in the queue.
LEMMA RemsQuiet ==
    ASSUME NEW c, NEW d, NEW f, NEW q, Rems(c, d, q), ~Has(q, {"cs"}), ~Has(q, Upd)
    PROVE  Rems(f, d, q)
<1>1. \A id : ~Carries(q, Rem, id)
  BY DEF Has, Carries, Upd, Rem
<1> QED BY <1>1 DEF Rems

\* The payer accepts a commitment_signed, and with it every removal that was on its way.
LEMMA RemsAccepted ==
    ASSUME NEW c, NEW d, NEW f, NEW r, Rems(d, c, r), NEW b, NEW tx, AcceptView(c, f, b, tx),
           NEW u, ~Has(u, {"cs"}), ~Has(u, Upd)
    PROVE  Rems(d, f, u)
<1>1. \A id : ~Carries(u, Rem, id)
  BY DEF Has, Carries, Upd, Rem
<1>2. Distinct(u, Rem)
  BY DEF Has, Distinct, Upd, Rem
<1>3. ASSUME NEW p \in Payments PROVE OutSt(f, p) # "RemoteRemoved"
  <2>1. OutSt(f, p) = (IF b = "build" THEN OutBuilt(OutAccepted(OutSt(c, p))) ELSE OutAccepted(OutSt(c, p)))
    BY DEF AcceptView
  <2> QED BY <2>1 DEF OutBuilt, OutAccepted
<1> QED BY <1>1, <1>2, <1>3 DEF Rems

\* The payer accepts a revocation.
LEMMA RemsAnswered ==
    ASSUME NEW c, NEW d, NEW f, NEW r, Rems(d, c, r), NEW b, RevokeView(c, f, b), NEW u, SameRems(r, u),
           \A p \in Payments : OutSt(c, p) = "LocalAnnounced" => InSt(d, p) # "LocalRemoved"
    PROVE  Rems(d, f, u)
<1>1. ASSUME NEW p \in Payments
      PROVE  /\ OutSt(c, p) = "Committed" => OutSt(f, p) = "Committed"
             /\ OutSt(f, p) = "Committed" => OutSt(c, p) \in {"Committed", "LocalAnnounced"}
             /\ OutSt(f, p) = "RemoteRemoved" => OutSt(c, p) = "RemoteRemoved"
  BY DEF RevokeView, OutBuilt, OutRevoked, NewOut
<1>2. ASSUME NEW id \in Nat, Carries(u, Rem, id)
      PROVE  \E p \in Payments : InId(d, p) = id /\ InSt(d, p) = "LocalRemoved" /\ OutSt(f, p) = "Committed"
  <2>1. Carries(r, Rem, id)
    BY <1>2 DEF SameRems
  <2>2. PICK p \in Payments : InId(d, p) = id /\ InSt(d, p) = "LocalRemoved" /\ OutSt(c, p) = "Committed"
    BY <2>1 DEF Rems
  <2> QED BY <1>1, <2>2
<1>3. Has(u, {"cs"}) => \A p \in Payments :
            InSt(d, p) = "LocalRemoved" /\ OutSt(f, p) = "Committed" => Carries(u, Rem, InId(d, p))
  BY <1>1 DEF Rems, SameRems
<1>4. (\E p \in Payments : OutSt(f, p) = "RemoteRemoved") => Has(u, {"cs"})
  BY <1>1 DEF Rems, SameRems
<1>5. Distinct(u, Rem)
  BY DEF Rems, SameRems
<1> QED BY <1>2, <1>3, <1>4, <1>5 DEF Rems

\* The payer takes in a removal.
LEMMA RemsTaken ==
    ASSUME NEW c, NEW d, NEW f, NEW r \in Seq(Messages), Rems(d, c, r), Matched(c, d), r # <<>>, Head(r).t \in Rem,
           Has(r, {"cs"}), NEW p, RemView(c, f, p), InSt(d, p) = "LocalRemoved", InId(d, p) = Head(r).id
    PROVE  Rems(d, f, Tail(r))
<1> DEFINE u == Tail(r)
           m == Head(r)
<1>0. p \in Payments
  BY DEF RemView
<1>1. Has(u, {"cs"})
  BY TailHas DEF Rem
<1>2. Distinct(u, Rem) /\ ~Carries(u, Rem, m.id)
  BY TailOrder DEF Rems
<1>3. \A id : Carries(r, Rem, id) <=> id = m.id \/ Carries(u, Rem, id)
  BY TailHas
<1> HIDE DEF u, m
<1>4. m.id = InId(d, p)
  BY DEF m
<1>5. ASSUME NEW o \in Payments, o # p PROVE OutSt(f, o) = OutSt(c, o)
  BY <1>5 DEF RemView
<1>6. ASSUME NEW id \in Nat, Carries(u, Rem, id)
      PROVE  \E o \in Payments : InId(d, o) = id /\ InSt(d, o) = "LocalRemoved" /\ OutSt(f, o) = "Committed"
  <2>1. PICK o \in Payments : InId(d, o) = id /\ InSt(d, o) = "LocalRemoved" /\ OutSt(c, o) = "Committed"
    BY <1>3, <1>6 DEF Rems
  <2>2. o # p
    BY <1>2, <1>4, <1>6, <2>1
  <2> QED BY <1>5, <2>1, <2>2
<1>7. ASSUME NEW o \in Payments, InSt(d, o) = "LocalRemoved", OutSt(f, o) = "Committed" PROVE Carries(u, Rem, InId(d, o))
  <2>1. o # p
    BY <1>7 DEF RemView
  <2>2. Carries(r, Rem, InId(d, o))
    BY <1>5, <1>7, <2>1 DEF Rems
  <2>3. InId(d, o) # InId(d, p)
    BY <1>0, <1>7, <2>1 DEF Matched
  <2> QED BY <1>3, <1>4, <2>2, <2>3
<1>8. Rems(d, f, u)
  BY <1>1, <1>2, <1>6, <1>7 DEF Rems
<1> QED BY <1>8 DEF u

\* A lost connection carries no removal, and the payer has forgotten those it took in.
LEMMA RemsDropped ==
    ASSUME NEW f, NEW d, NEW g, DropView(d, g)
    PROVE  Rems(f, g, <<>>)
<1>1. \A p \in Payments : OutSt(g, p) # "RemoteRemoved"
  BY DEF DropView
<1>2. Distinct(<<>>, Rem) /\ ~Has(<<>>, {"cs"}) /\ \A id : ~Carries(<<>>, Rem, id)
  BY EmptyHas, EmptyOrder
<1> QED BY <1>1, <1>2 DEF Rems

\* The removals of a commitment update that is sent, for the first time or again.
LEMMA RemsResent ==
    ASSUME NEW n, NEW c, NEW d, NEW q \in Seq(Messages), Rems(c, d, q), Viewed(c.inb), Line(c, q),
           \A h \in c.inb : h.pay \in Payments,
           NEW raa, NEW cs, NEW s, Resent(n, c, raa, cs, s), cs => ~Has(q, {"cs"}),
           cs => \A p \in Payments : InSt(c, p) = "LocalRemoved" => OutSt(d, p) \in {"Committed", "RemoteRemoved"}
    PROVE  Rems(c, d, q \o s)
<1>0. s \in Seq(Messages)
  BY DEF Resent
<1>1. \A id : Carries(q \o s, Rem, id) <=> Carries(q, Rem, id) \/ Carries(s, Rem, id)
  BY <1>0, CatHas
<1>2. Has(q \o s, {"cs"}) <=> Has(q, {"cs"}) \/ Has(s, {"cs"})
  BY <1>0, CatHas
<1>3. CASE ~cs
  <2>1. ~Has(s, {"cs"}) /\ ~Has(s, Rem) /\ \A id : ~Carries(s, Rem, id)
    BY <1>3 DEF Resent, Has, Upd, Rem
  <2>2. Distinct(q \o s, Rem)
    BY <1>0, <2>1, CatOrder DEF Rems, Resent
  <2> QED BY <1>1, <1>2, <2>1, <2>2 DEF Rems
<1>4. CASE cs
  <2>1. ~Has(q, {"cs"}) /\ Has(s, {"cs"})
    BY <1>4 DEF Resent
  <2>2. ~\E p \in Payments : OutSt(d, p) = "RemoteRemoved"
    BY <2>1 DEF Rems
  <2>3. ~Has(q, Upd)
    BY <2>1 DEF Line
  <2>4. ~Has(q, Rem) /\ \A id : ~Carries(q, Rem, id)
    BY <2>3 DEF Has, Carries, Upd, Rem
  <2>5. Distinct(q \o s, Rem)
    BY <1>0, <2>4, CatOrder DEF Rems, Resent
  <2>6. \A id : Carries(q \o s, Rem, id) <=> \E h \in c.inb : h.st = "LocalRemoved" /\ h.id = id
    BY <1>1, <1>4, <2>4 DEF Resent
  <2>7. ASSUME NEW id \in Nat, Carries(q \o s, Rem, id)
        PROVE  \E p \in Payments : InId(c, p) = id /\ InSt(c, p) = "LocalRemoved" /\ OutSt(d, p) = "Committed"
    <3>1. PICK h \in c.inb : h.st = "LocalRemoved" /\ h.id = id
      BY <2>6, <2>7
    <3>2. InSt(c, h.pay) = "LocalRemoved" /\ InId(c, h.pay) = id /\ h.pay \in Payments
      BY <3>1, ViewOf DEF InSt, InId
    <3> QED BY <1>4, <2>2, <3>2
  <2>8. ASSUME NEW p \in Payments, InSt(c, p) = "LocalRemoved" PROVE Carries(q \o s, Rem, InId(c, p))
    <3>1. \E h \in c.inb : h.pay = p /\ h.st = InSt(c, p) /\ h.id = InId(c, p)
      BY <2>8, ViewOf DEF InSt, InId
    <3> QED BY <2>6, <2>8, <3>1
  <2> QED BY <1>2, <2>1, <2>2, <2>5, <2>7, <2>8 DEF Rems
<1> QED BY <1>3, <1>4

-----------------------------------------------------------------------------
(* One direction of the dance: building, accepting, revoking.              *)

\* What holds of the HTLCs that c's node offers, d's has taken in and q carries; P: the payments of c's node.
Half(c, d, q, P) ==
    /\ Adds(c, d, q) /\ Rems(c, d, q) /\ Numbers(c, d)
    /\ \A p \in Payments : PairOf(c, d, p)
    /\ \A p \in P : OutputsOf(c, d, p)

\* The two channels and the queues between them agree.
Agreed(c, d, q, r, k, P, O) ==
    Link(c, d, q, k) /\ Link(d, c, r, k) /\ Half(c, d, q, P) /\ Half(d, c, r, O)

\* What the types and the ids of the two channels contribute.
Fits(c, d, P, O) ==
    /\ Counted(c) /\ Counted(d) /\ Matched(c, d) /\ Matched(d, c)
    /\ P \subseteq Payments /\ O \subseteq Payments
    /\ \A p \in P : Paid(c, d, p)
    /\ \A p \in O : Paid(d, c, p)

\* Agreement is symmetric.
LEMMA AgreedSwaps == \A c, d, q, r, k, P, O : Agreed(c, d, q, r, k, P, O) <=> Agreed(d, c, r, q, k, O, P)
  BY DEF Agreed

\* A step outside the commitment protocol keeps the agreement.
LEMMA AgreedSteady ==
    ASSUME NEW c, NEW d, NEW f, NEW q \in Seq(Messages), NEW r \in Seq(Messages), NEW k, NEW P, NEW O,
           Agreed(c, d, q, r, k, P, O), P \subseteq Payments, O \subseteq Payments, Steady(c, f), SameView(c, f),
           NEW s \in Seq(Messages), \A T : Has(s, T) => T \cap Aside # {}, s = <<>> \/ ~c.disc,
           NEW u, \/ u = r
                  \/ r # <<>> /\ Head(r).t \in Aside /\ u = Tail(r)
    PROVE  Agreed(f, d, q \o s, u, k, P, O)
<1>1. Link(f, d, q \o s, k)
  BY LinkSteadyOut DEF Agreed
<1>2. Link(d, f, u, k)
  <2>1. \/ u = r
        \/ r # <<>> /\ Head(r).t \in Upd \cup Aside /\ u = Tail(r)
    OBVIOUS
  <2> QED BY <2>1, LinkSteadyIn DEF Agreed
<1>3. AlikeOut(c, f) /\ AlikeIn(c, f) /\ AlikeGone(c, f) /\ AlikeHeld(c, f)
  BY AlikeSteps, AlikeRems
<1>4. AlikeIn(d, d) /\ AlikeOut(d, d) /\ AlikeGone(d, d) /\ AlikeHeld(d, d)
  BY DEF AlikeIn, AlikeOut, AlikeGone, AlikeHeld
<1>5. SameAdds(q, q \o s) /\ SameRems(q, q \o s)
  BY SameAside
<1>6. SameAdds(r, u) /\ SameRems(r, u)
  <2>1. CASE u = r
    BY <2>1, SameSelf
  <2>2. CASE r # <<>> /\ Head(r).t \in Aside /\ u = Tail(r)
    BY <2>2, SameTail DEF Aside
  <2> QED BY <2>1, <2>2
<1>7. Adds(f, d, q \o s)
  BY <1>3, <1>4, <1>5, AddsStay DEF Agreed, Half
<1>8. Adds(d, f, u)
  BY <1>3, <1>4, <1>6, AddsStay DEF Agreed, Half
<1>9. Rems(f, d, q \o s)
  BY <1>3, <1>4, <1>5, RemsStay DEF Agreed, Half
<1>10. Rems(d, f, u)
  BY <1>3, <1>4, <1>6, RemsStay DEF Agreed, Half
<1>11. f.txs = c.txs
  BY DEF SameView
<1>12. Numbers(f, d) /\ Numbers(d, f)
  BY <1>11, NumbersKept DEF Agreed, Half
<1>13. \A p \in Payments : PairOf(f, d, p) /\ PairOf(d, f, p)
  BY PairSame DEF Agreed, Half
<1>14. \A p \in P : OutputsOf(f, d, p)
  BY OutputsSame DEF Agreed, Half
<1>15. \A p \in O : OutputsOf(d, f, p)
  BY OutputsSame DEF Agreed, Half
<1> QED BY <1>1, <1>2, <1>7, <1>8, <1>9, <1>10, <1>12, <1>13, <1>14, <1>15 DEF Agreed, Half

\* A commitment that is built keeps the agreement.
LEMMA AgreedBuilds ==
    ASSUME NEW c, NEW d, NEW f, NEW q, NEW r, NEW k, NEW P, NEW O,
           Agreed(c, d, q, r, k, P, O), Fits(c, d, P, O), Builds(c, f), BuildView(c, f), f.nextId \in Nat
    PROVE  Agreed(f, d, q, r, k, P, O)
<1>0. /\ Counted(c) /\ Counted(d) /\ Turns(c, d) /\ Turns(d, c) /\ Link(c, d, q, k) /\ Link(d, c, r, k)
      /\ P \subseteq Payments /\ O \subseteq Payments /\ Matched(c, d)
  BY DEF Agreed, Fits, Link
<1>1. Link(f, d, q, k) /\ Link(d, f, r, k)
  BY <1>0, LinkBuilds
<1>2. ~OwesCs(c, d)
  BY <1>0, OwedBuilds
<1>3. ~Has(q, {"cs"}) /\ ~Has(q, Upd)
  BY <1>2 DEF Agreed, Link, Pending, Line
<1>4. \A p \in Payments : OutSt(c, p) = "none" => InSt(d, p) = "none"
  BY DEF Agreed, Half, PairOf, Pair
<1>5. Adds(f, d, q)
  BY <1>0, <1>3, <1>4, AddsBuilt DEF Agreed, Half
<1>6. AlikeIn(c, f) /\ AlikeHeld(c, f) /\ AlikeOut(d, d) /\ AlikeGone(d, d)
  BY AlikeSteps, AlikeRems DEF AlikeOut, AlikeGone
<1>7. SameAdds(r, r) /\ SameRems(r, r)
  BY SameSelf
<1>8. Adds(d, f, r)
  BY <1>6, <1>7, AddsStay DEF Agreed, Half
<1>9. Rems(d, f, r)
  BY <1>6, <1>7, RemsStay DEF Agreed, Half
<1>10. Rems(f, d, q)
  BY <1>3, RemsQuiet DEF Agreed, Half
<1>11. f.txs = c.txs
  BY DEF BuildView
<1>12. Numbers(f, d) /\ Numbers(d, f)
  BY <1>0, <1>11, NumbersMoved DEF Agreed, Half
<1>13. \A p \in Payments : PairOf(f, d, p) /\ PairOf(d, f, p)
  BY <1>0, PairBuild DEF Agreed, Half
<1>14. \A p \in P : OutputsOf(f, d, p)
  BY <1>0, OutputsBuild DEF Agreed, Half
<1>15. \A p \in O : OutputsOf(d, f, p)
  BY <1>0, OutputsBuild DEF Agreed, Half
<1> QED BY <1>1, <1>5, <1>8, <1>9, <1>10, <1>12, <1>13, <1>14, <1>15 DEF Agreed, Half

\* When a commitment_signed is next, every addition and removal it covers has arrived.
LEMMA AllArrived ==
    ASSUME NEW c, NEW d, NEW q, NEW r \in Seq(Messages), NEW k, NEW P, NEW O, Agreed(c, d, q, r, k, P, O),
           Fits(c, d, P, O), r # <<>>, Head(r).t = "cs", NEW p \in Payments
    PROVE  /\ InSt(c, p) = "none" => OutSt(d, p) # "LocalAnnounced"
           /\ InSt(d, p) = "LocalRemoved" => OutSt(c, p) # "Committed"
<1>1. Link(d, c, r, k)
  BY DEF Agreed
<1>2. ~Has(r, Upd)
  BY <1>1, LinkHead
<1>3. Has(r, {"cs"})
  BY TailHas
<1>4. \A id : ~Carries(r, {"add"}, id) /\ ~Carries(r, Rem, id)
  BY <1>2 DEF Has, Carries, Upd, Rem
<1>5. ASSUME InSt(c, p) = "none", OutSt(d, p) = "LocalAnnounced" PROVE FALSE
  <2>1. OutId(d, p) >= c.nextCpId
    BY <1>5 DEF Agreed, Half, Adds
  <2>2. OutId(d, p) \in 0 .. d.nextId - 1 /\ d.nextId \in Nat
    BY <1>5 DEF Fits, Matched
  <2>3. Carries(r, {"add"}, OutId(d, p))
    BY <1>3, <2>1, <2>2 DEF Agreed, Half, Adds
  <2> QED BY <1>4, <2>3
<1>6. ASSUME InSt(d, p) = "LocalRemoved", OutSt(c, p) = "Committed" PROVE FALSE
  BY <1>3, <1>4, <1>6 DEF Agreed, Half, Rems
<1> QED BY <1>5, <1>6

\* A commitment_signed that is accepted keeps the agreement.
LEMMA AgreedAccepts ==
    ASSUME NEW c, NEW d, NEW f, NEW q, NEW r \in Seq(Messages), NEW k, NEW P, NEW O,
           Agreed(c, d, q, r, k, P, O), Fits(c, d, P, O), r # <<>>, Head(r).t = "cs",
           NEW b, NEW tx, Accepts(c, f, b), AcceptView(c, f, b, tx)
    PROVE  Agreed(f, d, q, Tail(r), k, P, O)
<1> DEFINE u == Tail(r)
<1>0. /\ Counted(c) /\ Counted(d) /\ Turns(c, d) /\ Turns(d, c) /\ Link(c, d, q, k) /\ Link(d, c, r, k)
      /\ P \subseteq Payments /\ O \subseteq Payments /\ Matched(d, c)
  BY DEF Agreed, Fits, Link
<1>1. Link(f, d, q, k) /\ Link(d, f, u, k)
  BY <1>0, LinkAccepts
<1>2. OwesCs(d, c) /\ ~(RaaFirst(d) /\ OwesRaa(d, c))
  BY <1>0, LinkHead
<1>3. ~Has(u, {"cs"}) /\ ~Has(u, Upd)
  BY <1>0, LinkTaken
<1>4. \A p \in Payments : /\ InSt(c, p) = "none" => OutSt(d, p) # "LocalAnnounced"
                          /\ InSt(d, p) = "LocalRemoved" => OutSt(c, p) # "Committed"
  BY AllArrived
<1>5. Rising(r) => Rising(u)
  BY TailOrder
<1> HIDE DEF u
<1>6. Adds(d, f, u)
  BY <1>0, <1>3, <1>4, <1>5, AddsAccepted DEF Agreed, Half
<1>7. Rems(d, f, u)
  BY <1>3, RemsAccepted DEF Agreed, Half
<1>8. AlikeOut(c, f) /\ AlikeGone(c, f) /\ AlikeIn(d, d) /\ AlikeHeld(d, d)
  BY AlikeSteps, AlikeRems DEF AlikeIn, AlikeHeld
<1>9. SameAdds(q, q) /\ SameRems(q, q)
  BY SameSelf
<1>10. Adds(f, d, q)
  BY <1>8, <1>9, AddsStay DEF Agreed, Half
<1>11. Rems(f, d, q)
  BY <1>8, <1>9, RemsStay DEF Agreed, Half
<1>12. Numbers(f, d) /\ Numbers(d, f)
  <2>1. f.txs = [prev |-> c.txs.cur, cur |-> tx] /\ tx.num = c.holderNum
    BY DEF AcceptView
  <2>2. (Numbers(c, d) => Numbers(f, d)) /\ (Numbers(d, c) => Numbers(d, f))
    BY <1>0, <1>2, <2>1, NumbersMoved
  <2> QED BY <2>2 DEF Agreed, Half
<1>13. ASSUME NEW p \in Payments PROVE PairOf(f, d, p) /\ PairOf(d, f, p)
  <2>1. PairOf(c, d, p) /\ PairOf(d, c, p)
    BY DEF Agreed, Half
  <2> QED BY <1>0, <1>2, <1>4, <2>1, PairAccept
<1>14. ASSUME NEW p \in P PROVE OutputsOf(f, d, p)
  <2>1. PairOf(c, d, p) /\ PairOf(d, c, p) /\ OutputsOf(c, d, p) /\ Paid(c, d, p)
    BY <1>0 DEF Agreed, Half, Fits
  <2> QED BY <1>0, <1>2, <2>1, OutputsAccept
<1>15. ASSUME NEW p \in O PROVE OutputsOf(d, f, p)
  <2>1. PairOf(c, d, p) /\ PairOf(d, c, p) /\ OutputsOf(d, c, p) /\ Paid(d, c, p)
    BY <1>0 DEF Agreed, Half, Fits
  <2> QED BY <1>0, <1>2, <2>1, OutputsAccept
<1>16. Agreed(f, d, q, u, k, P, O)
  BY <1>1, <1>6, <1>7, <1>10, <1>11, <1>12, <1>13, <1>14, <1>15 DEF Agreed, Half
<1> QED BY <1>16 DEF u

\* A revoke_and_ack that is accepted keeps the agreement.
LEMMA AgreedRevokes ==
    ASSUME NEW c, NEW d, NEW f, NEW q, NEW r \in Seq(Messages), NEW k, NEW P, NEW O,
           Agreed(c, d, q, r, k, P, O), Fits(c, d, P, O), r # <<>>, Head(r).t = "raa",
           NEW b, Revokes(c, f, b), RevokeView(c, f, b), f.nextId \in Nat
    PROVE  Agreed(f, d, q, Tail(r), k, P, O)
<1> DEFINE u == Tail(r)
<1>0. /\ Counted(c) /\ Counted(d) /\ Turns(c, d) /\ Turns(d, c) /\ Link(c, d, q, k) /\ Link(d, c, r, k)
      /\ P \subseteq Payments /\ O \subseteq Payments /\ Matched(c, d)
  BY DEF Agreed, Fits, Link
<1>1. Link(f, d, q, k) /\ Link(d, f, u, k)
  BY <1>0, LinkRevokes
<1>2. OwesRaa(d, c) /\ ~(~RaaFirst(d) /\ OwesCs(d, c))
  BY <1>0, LinkHead
<1>3. ~OwesCs(c, d)
  BY <1>0, <1>2, OwedRevokes
<1>4. ~Has(q, {"cs"}) /\ ~Has(q, Upd)
  BY <1>3 DEF Agreed, Link, Pending, Line
<1>5. SameAdds(r, u) /\ SameRems(r, u)
  BY SameTail
<1> HIDE DEF u
<1>6. ASSUME NEW p \in Payments
      PROVE  /\ OutSt(c, p) = "none" => InSt(d, p) = "none"
             /\ OutSt(c, p) = "LocalAnnounced" => InSt(d, p) # "none"
             /\ InSt(c, p) = "LocalRemoved" => OutSt(d, p) # "LocalAnnounced"
             /\ OutSt(c, p) = "LocalAnnounced" => InSt(d, p) # "LocalRemoved"
  <2>1. PairOf(c, d, p) /\ PairOf(d, c, p)
    BY DEF Agreed, Half
  <2> QED BY <1>3, <2>1 DEF PairOf, Pair
<1>7. Adds(f, d, q)
  BY <1>0, <1>4, <1>6, AddsRevoked DEF Agreed, Half
<1>8. Adds(d, f, u)
  BY <1>5, <1>6, AddsAnswered DEF Agreed, Half
<1>9. Rems(f, d, q)
  BY <1>4, RemsQuiet DEF Agreed, Half
<1>10. Rems(d, f, u)
  BY <1>5, <1>6, RemsAnswered DEF Agreed, Half
<1>11. f.txs = c.txs
  BY DEF RevokeView
<1>12. Numbers(f, d) /\ Numbers(d, f)
  BY <1>0, <1>2, <1>11, NumbersMoved DEF Agreed, Half
<1>13. ASSUME NEW p \in Payments PROVE PairOf(f, d, p) /\ PairOf(d, f, p)
  <2>1. PairOf(c, d, p) /\ PairOf(d, c, p)
    BY DEF Agreed, Half
  <2> QED BY <1>0, <1>2, <2>1, PairRevoke
<1>14. \A p \in P : OutputsOf(f, d, p)
  BY <1>0, <1>2, OutputsRevoke DEF Agreed, Half
<1>15. \A p \in O : OutputsOf(d, f, p)
  BY <1>0, <1>2, OutputsRevoke DEF Agreed, Half
<1>16. Agreed(f, d, q, u, k, P, O)
  BY <1>1, <1>7, <1>8, <1>9, <1>10, <1>12, <1>13, <1>14, <1>15 DEF Agreed, Half
<1> QED BY <1>16 DEF u

-----------------------------------------------------------------------------
(* One direction of the dance: updates, restarts, lost connections.        *)

\* An addition that is taken in keeps the agreement.
LEMMA AgreedTakes ==
    ASSUME NEW c, NEW d, NEW f, NEW q \in Seq(Messages), NEW r \in Seq(Messages), NEW k, NEW P, NEW O,
           Agreed(c, d, q, r, k, P, O), Fits(c, d, P, O), r # <<>>, Head(r).t = "add", Steady(c, f),
           NEW p, AddView(c, f, p), OutSt(d, p) # "none", OutId(d, p) = c.nextCpId
    PROVE  Agreed(f, d, q, Tail(r), k, P, O)
<1> DEFINE u == Tail(r)
<1>0. /\ P \subseteq Payments /\ O \subseteq Payments /\ Matched(d, c) /\ p \in Payments
      /\ Link(c, d, q, k) /\ Link(d, c, r, k) /\ Adds(d, c, r) /\ u = Tail(r)
  BY DEF Agreed, Fits, Half, AddView
<1>1. Link(f, d, q, k)
  <2>1. \A T : Has(<<>>, T) => T \cap Aside # {}
    BY EmptyHas
  <2>2. <<>> \in Seq(Messages) /\ q \o <<>> = q
    OBVIOUS
  <2>3. Link(f, d, q \o <<>>, k)
    BY <1>0, <2>1, <2>2, LinkSteadyOut
  <2> QED BY <2>2, <2>3
<1>2. Link(d, f, u, k)
  <2>1. \/ u = r
        \/ r # <<>> /\ Head(r).t \in Upd \cup Aside /\ u = Tail(r)
    BY DEF Upd
  <2> QED BY <1>0, <2>1, LinkSteadyIn
<1>3. Has(r, {"cs"}) /\ OutSt(d, p) = "LocalAnnounced"
  BY <1>0, AddsHead
<1>4. OwesCs(d, c)
  BY <1>0, <1>3 DEF Link, Pending
<1>5. Adds(d, f, u)
  BY <1>0, AddsTaken
<1>6. AlikeOut(c, f) /\ AlikeGone(c, f) /\ AlikeHeld(c, f)
  BY AlikeSteps, AlikeRems
<1>7. AlikeIn(d, d) /\ AlikeGone(d, d) /\ AlikeHeld(d, d)
  BY DEF AlikeIn, AlikeGone, AlikeHeld
<1>8. SameAdds(q, q) /\ SameRems(q, q)
  BY SameSelf
<1>9. SameRems(r, u)
  BY SameTail
<1>10. Adds(f, d, q)
  BY <1>6, <1>7, <1>8, AddsStay DEF Agreed, Half
<1>11. Rems(f, d, q)
  BY <1>6, <1>7, <1>8, RemsStay DEF Agreed, Half
<1>12. Rems(d, f, u)
  BY <1>6, <1>7, <1>9, RemsStay DEF Agreed, Half
<1>13. Numbers(f, d) /\ Numbers(d, f)
  <2>1. f.txs = c.txs
    BY DEF AddView
  <2> QED BY <2>1, NumbersKept DEF Agreed, Half
<1>14. ASSUME NEW o \in Payments PROVE PairOf(f, d, o) /\ PairOf(d, f, o)
  <2>1. PairOf(c, d, o) /\ PairOf(d, c, o)
    BY DEF Agreed, Half
  <2> QED BY <1>3, <1>4, <2>1, PairAdd
<1>15. \A o \in P : OutputsOf(f, d, o)
  BY <1>0, OutputsAdd DEF Agreed, Half
<1>16. \A o \in O : OutputsOf(d, f, o)
  BY <1>0, OutputsAdd DEF Agreed, Half
<1> HIDE DEF u
<1>17. Agreed(f, d, q, u, k, P, O)
  BY <1>1, <1>2, <1>5, <1>10, <1>11, <1>12, <1>13, <1>14, <1>15, <1>16 DEF Agreed, Half
<1> QED BY <1>17 DEF u

\* A removal that is taken in keeps the agreement.
LEMMA AgreedRemoves ==
    ASSUME NEW c, NEW d, NEW f, NEW q \in Seq(Messages), NEW r \in Seq(Messages), NEW k, NEW P, NEW O,
           Agreed(c, d, q, r, k, P, O), Fits(c, d, P, O), r # <<>>, Head(r).t \in Rem, Steady(c, f),
           NEW p, RemView(c, f, p), InSt(d, p) = "LocalRemoved", InId(d, p) = Head(r).id
    PROVE  Agreed(f, d, q, Tail(r), k, P, O)
<1> DEFINE u == Tail(r)
<1>0. /\ P \subseteq Payments /\ O \subseteq Payments /\ Matched(c, d) /\ p \in Payments
      /\ Link(c, d, q, k) /\ Link(d, c, r, k) /\ Rems(d, c, r) /\ u = Tail(r)
      /\ Head(r).t \in {"fulfil", "fail"}
  BY DEF Agreed, Fits, Half, RemView, Rem
<1>1. Link(f, d, q, k)
  <2>1. \A T : Has(<<>>, T) => T \cap Aside # {}
    BY EmptyHas
  <2>2. <<>> \in Seq(Messages) /\ q \o <<>> = q
    OBVIOUS
  <2>3. Link(f, d, q \o <<>>, k)
    BY <1>0, <2>1, <2>2, LinkSteadyOut
  <2> QED BY <2>2, <2>3
<1>2. Link(d, f, u, k)
  <2>1. \/ u = r
        \/ r # <<>> /\ Head(r).t \in Upd \cup Aside /\ u = Tail(r)
    BY <1>0 DEF Upd
  <2> QED BY <1>0, <2>1, LinkSteadyIn
<1>3. Has(r, {"cs"})
  <2>1. Has(r, Upd)
    BY <1>0, TailHas DEF Upd
  <2> QED BY <1>0, <2>1 DEF Link, Line
<1>5. Rems(d, f, u)
  BY <1>0, <1>3, RemsTaken
<1>6. AlikeOut(c, f) /\ AlikeIn(c, f) /\ AlikeGone(c, f)
  BY AlikeSteps, AlikeRems
<1>7. AlikeIn(d, d) /\ AlikeOut(d, d) /\ AlikeHeld(d, d)
  BY DEF AlikeIn, AlikeOut, AlikeHeld
<1>8. SameAdds(q, q) /\ SameRems(q, q)
  BY SameSelf
<1>9. SameAdds(r, u)
  BY <1>0, SameTail
<1>10. Adds(f, d, q)
  BY <1>6, <1>7, <1>8, AddsStay DEF Agreed, Half
<1>11. Rems(f, d, q)
  BY <1>6, <1>7, <1>8, RemsStay DEF Agreed, Half
<1>12. Adds(d, f, u)
  BY <1>6, <1>7, <1>9, AddsStay DEF Agreed, Half
<1>13. Numbers(f, d) /\ Numbers(d, f)
  <2>1. f.txs = c.txs
    BY DEF RemView
  <2> QED BY <2>1, NumbersKept DEF Agreed, Half
<1>14. ASSUME NEW o \in Payments PROVE PairOf(f, d, o) /\ PairOf(d, f, o)
  <2>1. PairOf(c, d, o) /\ PairOf(d, c, o)
    BY DEF Agreed, Half
  <2> QED BY <2>1, PairRem
<1>15. \A o \in P : OutputsOf(f, d, o)
  BY <1>0, OutputsRem DEF Agreed, Half
<1>16. \A o \in O : OutputsOf(d, f, o)
  BY <1>0, OutputsRem DEF Agreed, Half
<1> HIDE DEF u
<1>17. Agreed(f, d, q, u, k, P, O)
  BY <1>1, <1>2, <1>5, <1>10, <1>11, <1>12, <1>13, <1>14, <1>15, <1>16 DEF Agreed, Half
<1> QED BY <1>17 DEF u

\* The HTLCs of c and f are the same, and HTLCs are told apart by payment.
SameHtlcs(c, f) ==
    /\ f.inb = c.inb /\ f.out = c.out /\ f.nextId = c.nextId /\ f.nextCpId = c.nextCpId /\ f.txs = c.txs

\* HTLCs are told apart by their payments.
Held(c) ==
    /\ Viewed(c.inb) /\ Viewed(c.out)
    /\ \A h \in c.inb \cup c.out : h.pay \in Payments

\* The same HTLCs give the same view.
LEMMA SameHtlcsView ==
    ASSUME NEW c, NEW f, SameHtlcs(c, f), c.nextId \in Nat
    PROVE  SameView(c, f) /\ (Held(c) => Held(f)) /\ \A d : Matched(c, d) => Matched(f, d)
<1>1. \A p : OutSt(f, p) = OutSt(c, p) /\ InSt(f, p) = InSt(c, p) /\ OutId(f, p) = OutId(c, p) /\ InId(f, p) = InId(c, p)
  BY DEF SameHtlcs, OutSt, InSt, OutId, InId
<1>2. \A i : i \notin c.nextId .. f.nextId - 1
  BY DEF SameHtlcs
<1>3. c.nextId <= f.nextId
  BY DEF SameHtlcs
<1>4. SameView(c, f)
  BY <1>1, <1>2, <1>3 DEF SameView, IdsKept, SameHtlcs
<1>5. Held(c) => Held(f)
  BY DEF Held, SameHtlcs
<1>6. \A d : Matched(c, d) => Matched(f, d)
  BY <1>1 DEF Matched, SameHtlcs
<1> QED BY <1>4, <1>5, <1>6

\* What a commitment update holds when it is owed.
LEMMA OwedHtlcs ==
    ASSUME NEW c, NEW d, NEW P, NEW q, Counted(c), Counted(d), Turns(c, d), Half(c, d, q, P), OwesCs(c, d),
           \A p \in Payments : PairOf(d, c, p)
    PROVE  /\ \A p \in Payments : OutSt(c, p) = "LocalAnnounced" => InSt(d, p) \in {"none", "RemoteAnnounced"}
           /\ \A p \in Payments : InSt(c, p) = "LocalRemoved" => OutSt(d, p) \in {"Committed", "RemoteRemoved"}
<1>1. ~OwesRaa(d, c)
  BY WhoseTurn
<1>2. \A p \in Payments : PairOf(c, d, p)
  BY DEF Half
<1>3. \A p \in Payments : OutSt(c, p) = "LocalAnnounced" => InSt(d, p) \in {"none", "RemoteAnnounced"}
  BY <1>1, <1>2 DEF PairOf, Pair
<1>4. \A p \in Payments : InSt(c, p) = "LocalRemoved" => OutSt(d, p) \in {"Committed", "RemoteRemoved"}
  BY <1>1 DEF PairOf, Pair
<1> QED BY <1>3, <1>4

\* Monitor updates that become durable keep the agreement: what they held back is sent.
LEMMA AgreedRestores ==
    ASSUME NEW n, NEW c, NEW d, NEW f, NEW q \in Seq(Messages), NEW r, NEW k, NEW P, NEW O,
           Agreed(c, d, q, r, k, P, O), Fits(c, d, P, O), Held(c), Restores(c, f), SameHtlcs(c, f),
           NEW s, LateSent(n, c, s)
    PROVE  Agreed(f, d, q \o s, r, k, P, O)
<1>0. /\ Counted(c) /\ Counted(d) /\ Turns(c, d) /\ Turns(d, c) /\ Link(c, d, q, k) /\ Link(d, c, r, k)
      /\ P \subseteq Payments /\ O \subseteq Payments /\ Matched(c, d) /\ SameView(c, f)
      /\ Adds(c, d, q) /\ Rems(c, d, q) /\ Half(c, d, q, P) /\ \A p \in Payments : PairOf(d, c, p)
  BY SameHtlcsView DEF Agreed, Fits, Link, Half, Matched
<1>1. Link(f, d, q \o s, k) /\ Link(d, f, r, k)
  BY <1>0, LinkRestores
<1>2. Adds(c, d, q \o s) /\ Rems(c, d, q \o s)
  <2>1. CASE c.disc
    <3>1. q \o s = q
      BY <2>1 DEF LateSent
    <3> QED BY <1>0, <3>1
  <2>2. CASE ~c.disc
    <3>1. Resent(n, c, c.pendRaa, c.pendCs, s)
      BY <2>2 DEF LateSent
    <3>2. c.pendCs => OwesCs(c, d) /\ ~Has(q, {"cs"})
      BY <1>0 DEF Link, Pending
    <3>3. c.pendCs => /\ \A p \in Payments : OutSt(c, p) = "LocalAnnounced" => InSt(d, p) \in {"none", "RemoteAnnounced"}
                      /\ \A p \in Payments : InSt(c, p) = "LocalRemoved" => OutSt(d, p) \in {"Committed", "RemoteRemoved"}
      BY <1>0, <3>2, OwedHtlcs
    <3>4. /\ Viewed(c.out) /\ Viewed(c.inb) /\ (\A h \in c.out : h.pay \in Payments) /\ \A h \in c.inb : h.pay \in Payments
      BY DEF Held
    <3>5. Adds(c, d, q \o s)
      BY <1>0, <3>1, <3>2, <3>3, <3>4, AddsResent
    <3>6. Rems(c, d, q \o s)
      BY <1>0, <3>1, <3>2, <3>3, <3>4, RemsResent DEF Link
    <3> QED BY <3>5, <3>6
  <2> QED BY <2>1, <2>2
<1>3. AlikeOut(c, f) /\ AlikeIn(c, f) /\ AlikeGone(c, f) /\ AlikeHeld(c, f)
  BY <1>0, AlikeSteps, AlikeRems
<1>4. AlikeIn(d, d) /\ AlikeOut(d, d) /\ AlikeGone(d, d) /\ AlikeHeld(d, d)
  BY DEF AlikeIn, AlikeOut, AlikeGone, AlikeHeld
<1>5. SameAdds(q \o s, q \o s) /\ SameRems(q \o s, q \o s) /\ SameAdds(r, r) /\ SameRems(r, r)
  BY SameSelf
<1>7. Adds(f, d, q \o s)
  BY <1>2, <1>3, <1>4, <1>5, AddsStay
<1>8. Adds(d, f, r)
  BY <1>3, <1>4, <1>5, AddsStay DEF Agreed, Half
<1>9. Rems(f, d, q \o s)
  BY <1>2, <1>3, <1>4, <1>5, RemsStay
<1>10. Rems(d, f, r)
  BY <1>3, <1>4, <1>5, RemsStay DEF Agreed, Half
<1>11. f.txs = c.txs
  BY DEF SameHtlcs
<1>12. Numbers(f, d) /\ Numbers(d, f)
  BY <1>11, NumbersKept DEF Agreed, Half
<1>13. \A p \in Payments : PairOf(f, d, p) /\ PairOf(d, f, p)
  BY <1>0, PairSame DEF Agreed, Half
<1>14. \A p \in P : OutputsOf(f, d, p)
  BY <1>0, OutputsSame DEF Agreed, Half
<1>15. \A p \in O : OutputsOf(d, f, p)
  BY <1>0, OutputsSame DEF Agreed, Half
<1> QED BY <1>1, <1>7, <1>8, <1>9, <1>10, <1>12, <1>13, <1>14, <1>15 DEF Agreed, Half

\* Taking the channel up again keeps the agreement: exactly what is missing is resent.
LEMMA AgreedTakesUp ==
    ASSUME NEW n, NEW c, NEW d, NEW f, NEW q \in Seq(Messages), NEW r \in Seq(Messages), NEW k, NEW P, NEW O,
           Agreed(c, d, q, r, k, P, O), Fits(c, d, P, O), Held(c), SameHtlcs(c, f),
           r # <<>>, Head(r).t = "reestablish", c.monBusy \in BOOLEAN,
           NEW raa \in BOOLEAN, NEW cs \in BOOLEAN, raa <=> OwesRaa(c, d), cs <=> OwesCs(c, d),
           TakesUp(c, f, raa, cs),
           NEW s \in Seq(Messages), \A T : Has(s, T) => T \cap Aside # {},
           NEW v, Resent(n, f, raa /\ ~c.monBusy, cs /\ ~c.monBusy, v)
    PROVE  Agreed(f, d, q \o (s \o v), Tail(r), k, P, O)
<1> DEFINE u == Tail(r)
           w == q \o s
           x == cs /\ ~c.monBusy
           y == raa /\ ~c.monBusy
<1>0. /\ Counted(c) /\ Counted(d) /\ Turns(c, d) /\ Turns(d, c) /\ Link(c, d, q, k) /\ Link(d, c, r, k)
      /\ P \subseteq Payments /\ O \subseteq Payments /\ Matched(c, d) /\ SameView(c, f) /\ Held(f) /\ Matched(f, d)
      /\ Half(c, d, q, P) /\ \A p \in Payments : PairOf(d, c, p)
  <2>1. Matched(c, d) /\ c.nextId \in Nat
    BY DEF Fits, Matched
  <2>2. SameView(c, f) /\ Held(f) /\ Matched(f, d)
    BY <2>1, SameHtlcsView
  <2> QED BY <2>1, <2>2 DEF Agreed, Fits, Link, Half
<1>1. Link(f, d, q \o (s \o v), k) /\ Link(d, f, u, k)
  BY <1>0, LinkTakesUp
<1>2. v \in Seq(Messages) /\ w \in Seq(Messages) /\ w \o v = q \o (s \o v)
  BY DEF Resent
<1>3. AlikeOut(c, f) /\ AlikeIn(c, f) /\ AlikeGone(c, f) /\ AlikeHeld(c, f)
  BY <1>0, AlikeSteps, AlikeRems
<1>4. AlikeIn(d, d) /\ AlikeOut(d, d) /\ AlikeGone(d, d) /\ AlikeHeld(d, d)
  BY DEF AlikeIn, AlikeOut, AlikeGone, AlikeHeld
<1>5. SameAdds(q, w) /\ SameRems(q, w) /\ SameAdds(r, u) /\ SameRems(r, u)
  BY SameAside, SameTail
<1>6. c.disc /\ \A i \in 1 .. Len(q) : q[i].t = "reestablish"
  <2>1. c.disc
    BY DEF TakesUp
  <2> QED BY <1>0, <2>1 DEF Link, Connected
<1>7. ~Has(q, {"cs"}) /\ ~Has(q, Upd)
  BY <1>6 DEF Has, Upd
<1>8. ~Has(w, {"cs"}) /\ ~Has(w, Upd)
  <2>1. ~Has(s, {"cs"}) /\ ~Has(s, Upd)
    BY DEF Aside, Upd
  <2> QED BY <1>7, <2>1, CatHas
<1> HIDE DEF u, w
<1>9. Adds(f, d, w)
  BY <1>3, <1>4, <1>5, AddsStay DEF Agreed, Half
<1>10. Rems(f, d, w)
  BY <1>3, <1>4, <1>5, RemsStay DEF Agreed, Half
<1>11. x => /\ \A p \in Payments : OutSt(f, p) = "LocalAnnounced" => InSt(d, p) \in {"none", "RemoteAnnounced"}
            /\ \A p \in Payments : InSt(f, p) = "LocalRemoved" => OutSt(d, p) \in {"Committed", "RemoteRemoved"}
  <2>1. x => /\ \A p \in Payments : OutSt(c, p) = "LocalAnnounced" => InSt(d, p) \in {"none", "RemoteAnnounced"}
             /\ \A p \in Payments : InSt(c, p) = "LocalRemoved" => OutSt(d, p) \in {"Committed", "RemoteRemoved"}
    BY <1>0, OwedHtlcs
  <2> QED BY <1>0, <2>1 DEF SameView
<1>12. /\ Viewed(f.out) /\ Viewed(f.inb) /\ (\A h \in f.out : h.pay \in Payments) /\ \A h \in f.inb : h.pay \in Payments
  BY <1>0 DEF Held
<1>13. Resent(n, f, y, x, v)
  OBVIOUS
<1> HIDE DEF x, y
<1>14. Adds(f, d, w \o v)
  <2>1. /\ x => ~Has(w, {"cs"})
        /\ x => \A p \in Payments : OutSt(f, p) = "LocalAnnounced" => InSt(d, p) \in {"none", "RemoteAnnounced"}
        /\ Matched(f, d) /\ Viewed(f.out) /\ \A h \in f.out : h.pay \in Payments
    BY <1>0, <1>8, <1>11, <1>12
  <2> QED BY ONLY <1>2, <1>9, <1>13, <2>1, AddsResent
<1>15. Rems(f, d, w \o v)
  <2>1. ~Has(w, Rem)
    BY <1>8 DEF Has, Upd, Rem
  <2>2. \A id : ~Carries(w, Rem, id)
    BY <2>1 DEF Has, Carries
  <2>3. \A p \in Payments : OutSt(d, p) # "RemoteRemoved"
    BY <1>8, <1>10 DEF Rems
  <2>4. \A id : Carries(w \o v, Rem, id) <=> Carries(v, Rem, id)
    BY <1>2, <2>2, CatHas
  <2>5. Has(w \o v, {"cs"}) <=> Has(v, {"cs"})
    BY <1>2, <1>8, CatHas
  <2>6. Distinct(w \o v, Rem)
    BY <1>2, <1>10, <2>1, CatOrder DEF Rems, Resent
  <2>7. \A id : Carries(v, Rem, id) <=> x /\ \E g \in f.inb : g.st = "LocalRemoved" /\ g.id = id
    BY <1>13 DEF Resent
  <2>8. Has(v, {"cs"}) <=> x
    BY <1>13 DEF Resent
  <2>9. ASSUME NEW id \in Nat, Carries(w \o v, Rem, id)
        PROVE  \E p \in Payments : InId(f, p) = id /\ InSt(f, p) = "LocalRemoved" /\ OutSt(d, p) = "Committed"
    <3>1. PICK h \in f.inb : h.st = "LocalRemoved" /\ h.id = id /\ x
      BY <2>4, <2>7, <2>9
    <3>2. InSt(f, h.pay) = "LocalRemoved" /\ InId(f, h.pay) = id /\ h.pay \in Payments
      BY <1>12, <3>1, ViewOf DEF InSt, InId
    <3> QED BY <1>11, <2>3, <3>1, <3>2
  <2>10. ASSUME x, NEW p \in Payments, InSt(f, p) = "LocalRemoved" PROVE Carries(w \o v, Rem, InId(f, p))
    <3>1. \E h \in f.inb : h.pay = p /\ h.st = InSt(f, p) /\ h.id = InId(f, p)
      BY <1>12, <2>10, ViewOf DEF InSt, InId
    <3> QED BY <2>4, <2>7, <2>10, <3>1
  <2> QED BY <2>3, <2>5, <2>6, <2>8, <2>9, <2>10 DEF Rems
<1>16. Adds(d, f, u)
  BY <1>3, <1>4, <1>5, AddsStay DEF Agreed, Half
<1>17. Rems(d, f, u)
  BY <1>3, <1>4, <1>5, RemsStay DEF Agreed, Half
<1>18. f.txs = c.txs
  BY DEF SameHtlcs
<1>19. Numbers(f, d) /\ Numbers(d, f)
  BY <1>18, NumbersKept DEF Agreed, Half
<1>20. \A p \in Payments : PairOf(f, d, p) /\ PairOf(d, f, p)
  BY <1>0, PairSame DEF Agreed, Half
<1>21. \A p \in P : OutputsOf(f, d, p)
  BY <1>0, OutputsSame DEF Agreed, Half
<1>22. \A p \in O : OutputsOf(d, f, p)
  BY <1>0, OutputsSame DEF Agreed, Half
<1>23. Agreed(f, d, q \o (s \o v), u, k, P, O)
  BY <1>1, <1>2, <1>14, <1>15, <1>16, <1>17, <1>19, <1>20, <1>21, <1>22 DEF Agreed, Half
<1> QED BY <1>23 DEF u

\* A lost connection, for the HTLCs of one direction.
LEMMA HalfDrops ==
    ASSUME NEW c, NEW d, NEW f, NEW g, NEW q, NEW P, Half(c, d, q, P), Matched(c, d), P \subseteq Payments,
           Drops(c, f), Drops(d, g), DropView(c, f), DropView(d, g)
    PROVE  Half(f, g, <<>>, P)
<1>1. \A p \in Payments : InSt(d, p) = "RemoteAnnounced" => OutSt(c, p) = "LocalAnnounced"
  BY DEF Half, PairOf, Pair
<1>2. Adds(f, g, <<>>)
  BY <1>1, AddsDropped DEF Half
<1>3. Rems(f, g, <<>>)
  BY RemsDropped
<1>4. Numbers(f, d)
  BY NumbersKept DEF Half, DropView
<1>5. Numbers(f, g)
  BY <1>4, NumbersKept DEF DropView
<1>6. \A p \in Payments : PairOf(f, g, p)
  BY PairDrop DEF Half
<1>7. \A p \in P : OutputsOf(f, g, p)
  BY OutputsDrop DEF Half
<1> QED BY <1>2, <1>3, <1>5, <1>6, <1>7 DEF Half

\* A lost connection keeps the agreement.
LEMMA AgreedDrops ==
    ASSUME NEW c, NEW d, NEW f, NEW g, NEW q, NEW r, NEW k, NEW j, NEW P, NEW O,
           Agreed(c, d, q, r, k, P, O), Fits(c, d, P, O), j # "up",
           Drops(c, f), Drops(d, g), DropView(c, f), DropView(d, g)
    PROVE  Agreed(f, g, <<>>, <<>>, j, P, O)
<1>1. Link(f, g, <<>>, j)
  BY LinkDrops DEF Agreed
<1>2. Link(g, f, <<>>, j)
  BY LinkDrops DEF Agreed
<1>3. Half(f, g, <<>>, P)
  BY HalfDrops DEF Agreed, Fits
<1>4. Half(g, f, <<>>, O)
  BY HalfDrops DEF Agreed, Fits
<1> QED BY <1>1, <1>2, <1>3, <1>4 DEF Agreed

\* A new connection keeps the agreement.
LEMMA AgreedMet ==
    ASSUME NEW c \in Channel, NEW d \in Channel, NEW q, NEW r, NEW k, NEW j, NEW P, NEW O,
           Agreed(c, d, q, r, k, P, O), k # "up", j = "up"
    PROVE  Agreed(c, d, <<get_channel_reestablish(c)>>, <<get_channel_reestablish(d)>>, j, P, O)
<1> DEFINE v == <<get_channel_reestablish(c)>>
           w == <<get_channel_reestablish(d)>>
<1>0. q = <<>> /\ r = <<>> /\ c.disc /\ d.disc
  BY DEF Agreed, Link, Connected
<1>1. Link(c, d, v, j)
  BY <1>0, LinkMet DEF Agreed
<1>2. Link(d, c, w, j)
  BY <1>0, LinkMet DEF Agreed
<1>3. get_channel_reestablish(c) \in Messages /\ get_channel_reestablish(d) \in Messages
  BY DEF Channel, get_channel_reestablish, Messages
<1>4. get_channel_reestablish(c).t = "reestablish" /\ get_channel_reestablish(d).t = "reestablish"
  BY DEF get_channel_reestablish
<1>5. SameAdds(<<>>, v) /\ SameRems(<<>>, v)
  BY <1>3, <1>4, EmptyHas, SingleFacts DEF SameAdds, SameRems, Rem
<1>6. SameAdds(<<>>, w) /\ SameRems(<<>>, w)
  BY <1>3, <1>4, EmptyHas, SingleFacts DEF SameAdds, SameRems, Rem
<1>7. /\ AlikeIn(d, d) /\ AlikeOut(d, d) /\ AlikeGone(d, d) /\ AlikeHeld(d, d)
      /\ AlikeIn(c, c) /\ AlikeOut(c, c) /\ AlikeGone(c, c) /\ AlikeHeld(c, c)
  BY DEF AlikeIn, AlikeOut, AlikeGone, AlikeHeld
<1> HIDE DEF v, w
<1>8. Adds(c, d, v)
  BY <1>0, <1>5, <1>7, AddsStay DEF Agreed, Half
<1>9. Rems(c, d, v)
  BY <1>0, <1>5, <1>7, RemsStay DEF Agreed, Half
<1>10. Adds(d, c, w)
  BY <1>0, <1>6, <1>7, AddsStay DEF Agreed, Half
<1>11. Rems(d, c, w)
  BY <1>0, <1>6, <1>7, RemsStay DEF Agreed, Half
<1>12. Agreed(c, d, v, w, j, P, O)
  BY <1>1, <1>2, <1>8, <1>9, <1>10, <1>11 DEF Agreed, Half
<1> QED BY <1>12 DEF v, w

===============================================================================
