---------------------------- MODULE HotWalletProofs ----------------------------
(***************************************************************************)
(* Proofs about the hot wallet, for every set of calls, requests and       *)
(* coins: a request served again on evidence is paid once, the wallet has  *)
(* one user at a time, and kept coins are not spent again from the cache.  *)
(***************************************************************************)
EXTENDS HotWallet, FiniteSetTheorems, WellFoundedInduction, TLAPS

\* Functions over the payments, and calls that have not ended have no answer.
Shape ==
    /\ pc \in [Payments -> Phases]
    /\ answer \in [Payments -> Answers]
    /\ \A t \in Payments : pc[t] # "done" => answer[t] = "none"

\* A transaction past the barrier has left no evidence behind, and a withdrawal
\* reaches a node, or the network, only past the barrier.
Barrier ==
    /\ \A w \in Withdrawals :
         w \in logged => pc[w] # "idle" /\ answer[w] # "not_attempted"
    /\ \A w \in Withdrawals : pc[w] \in {"held", "sent"} => w \in logged
    /\ \A w \in Withdrawals : w \in posted \cup OnNetwork => w \in logged
    /\ ldk \subseteq Fundings

\* Of two calls for one request that were made, one has ended with evidence.
OneOpen ==
    \A w, x \in Withdrawals :
        /\ w # x /\ RequestOf[w] = RequestOf[x]
        /\ pc[w] # "idle" /\ pc[x] # "idle"
        => answer[w] = "not_attempted" \/ answer[x] = "not_attempted"

PaidInv == Shape /\ Barrier /\ OneOpen

\* The invariant holds initially.
LEMMA PaidInit == Init => PaidInv
  BY DEF Init, PaidInv, Shape, Barrier, OneOpen, Phases, Answers, OnNetwork, Payments

\* The invariant excludes two transactions of one request on the network.
LEMMA PaidImplies == PaidInv => PaidOnce
  BY DEF PaidInv, Barrier, OneOpen, PaidOnce

\* Every step keeps the invariant.
LEMMA PaidStep == PaidInv /\ [Next]_vars => PaidInv'
<1> SUFFICES ASSUME PaidInv, [Next]_vars PROVE PaidInv'
  OBVIOUS
<1> USE HotWalletAssumption DEF PaidInv, Shape, Barrier, OneOpen, Phases, Answers,
        OnNetwork, Payments, network
<1>1. ASSUME NEW t \in Payments, Open(t) PROVE PaidInv'
  BY <1>1 DEF Open, MayStart, To
<1>2. ASSUME NEW t \in Payments, OpenTimesOut(t) PROVE PaidInv'
  BY <1>2 DEF OpenTimesOut, MayStart, Return, Failure, Evidence
<1>3. ASSUME NEW t \in Payments, SyncWithdrawal(t) PROVE PaidInv'
  <2>1. /\ t \in Withdrawals /\ pc[t] = "opened"
        /\ UNCHANGED <<logged, posted, ldk, mempool, chain>>
    BY <1>3 DEF SyncWithdrawal, Holds
  <2>2. To(t, "synced") \/ Return(t, Evidence(t))
    BY <1>3 DEF SyncWithdrawal
  <2>3. QED
    BY <2>1, <2>2 DEF To, Return, Evidence
<1>4. ASSUME NEW t \in Payments, SyncOrUseCached(t) PROVE PaidInv'
  <2>1. /\ t \in Payments \ Withdrawals /\ pc[t] = "opened"
        /\ UNCHANGED <<logged, posted, ldk, mempool, chain>>
    BY <1>4 DEF SyncOrUseCached, Holds
  <2>2. To(t, "synced") \/ To(t, "idle") \/ Return(t, "unknown")
    BY <1>4 DEF SyncOrUseCached
  <2>3. QED
    BY <2>1, <2>2 DEF To, Return
<1>5. ASSUME NEW t \in Payments, BuildWithdrawal(t) PROVE PaidInv'
  <2>1. /\ t \in Withdrawals /\ pc[t] = "synced"
        /\ UNCHANGED <<logged, posted, ldk, mempool, chain>>
    BY <1>5 DEF BuildWithdrawal, Holds
  <2>2. To(t, "signed") \/ Return(t, Evidence(t))
    BY <1>5 DEF BuildWithdrawal
  <2>3. QED
    BY <2>1, <2>2 DEF To, Return, Evidence
<1>6. ASSUME NEW t \in Payments, BroadcastRefused(t) PROVE PaidInv'
  BY <1>6 DEF BroadcastRefused, Holds, Return, Evidence
<1>7. ASSUME NEW t \in Payments, Hold(t) PROVE PaidInv'
  <2>1. /\ t \in Withdrawals /\ pc[t] = "signed" /\ logged' = logged \cup {t}
        /\ UNCHANGED <<posted, ldk, mempool, chain>>
    BY <1>7 DEF Hold, Holds
  <2>2. To(t, "held") \/ Return(t, "unknown")
    BY <1>7, <2>1 DEF Hold, Evidence
  <2>3. Shape' /\ Barrier'
    BY <2>1, <2>2 DEF To, Return
  <2>4. OneOpen'
    BY <2>1, <2>2 DEF To, Return
  <2>5. QED
    BY <2>3, <2>4
<1>8. ASSUME NEW t \in Payments, Send(t) PROVE PaidInv'
  BY <1>8 DEF Send, Holds, To, Return, Evidence
<1>9. ASSUME NEW t \in Payments, Answered(t) PROVE PaidInv'
  BY <1>9 DEF Answered, Holds, Return, Evidence
<1>10. ASSUME NEW t \in Payments, BuildRgbTransfer(t) PROVE PaidInv'
  <2>1. /\ t \in RgbTransfers /\ pc[t] = "synced"
        /\ UNCHANGED <<logged, posted, ldk, mempool, chain>>
    BY <1>10 DEF BuildRgbTransfer, Holds
  <2>2. To(t, "signed") \/ Return(t, "unknown")
    BY <1>10 DEF BuildRgbTransfer
  <2>3. QED
    BY <2>1, <2>2 DEF To, Return
<1>11. ASSUME NEW t \in Payments, BroadcastRgbTransfer(t) PROVE PaidInv'
  BY <1>11 DEF BroadcastRgbTransfer, Holds, To
<1>12. ASSUME NEW t \in Payments, CommitRgbTransfer(t) PROVE PaidInv'
  BY <1>12 DEF CommitRgbTransfer, Holds, Return
<1>13. ASSUME NEW t \in Payments, BuildFunding(t) PROVE PaidInv'
  BY <1>13 DEF BuildFunding, Holds, To, Return
<1>14. ASSUME NEW t \in Payments, SubmitFunding(t) PROVE PaidInv'
  BY <1>14 DEF SubmitFunding, To, Return
<1>15. ASSUME NEW t \in Payments, RecordFunding(t) PROVE PaidInv'
  BY <1>15 DEF RecordFunding
<1>16. ASSUME NEW t \in Payments, LdkBroadcast(t) PROVE PaidInv'
  BY <1>16 DEF LdkBroadcast, calls
<1>17. ASSUME NEW t \in Payments, NodeAccepts(t) PROVE PaidInv'
  BY <1>17 DEF NodeAccepts, calls
<1>18. ASSUME NEW t \in Payments, NodeDrops(t) PROVE PaidInv'
  BY <1>18 DEF NodeDrops, calls
<1>19. ASSUME NEW t \in Payments, Confirms(t) PROVE PaidInv'
  BY <1>19 DEF Confirms, calls
<1>20. ASSUME SyncUtxos PROVE PaidInv'
  BY <1>20 DEF SyncUtxos, calls
<1>21. ASSUME Crash PROVE PaidInv'
  BY <1>21 DEF Crash
<1>22. ASSUME UNCHANGED vars PROVE PaidInv'
  BY <1>22 DEF vars
<1>23. QED
  BY <1>1, <1>2, <1>3, <1>4, <1>5, <1>6, <1>7, <1>8, <1>9, <1>10, <1>11, <1>12, <1>13, <1>14, <1>15, <1>16, <1>17, <1>18, <1>19, <1>20, <1>21, <1>22 DEF Next

\* A customer is paid once: whatever calls are made for a request on the
\* evidence of withdrawal_attempt.rs, at most one of their transactions is ever
\* on the network.
THEOREM RequestsPaidOnce == Spec => []PaidOnce
<1>1. Init => PaidInv
  BY PaidInit
<1>2. PaidInv /\ [Next]_vars => PaidInv'
  BY PaidStep
<1>3. PaidInv => PaidOnce
  BY PaidImplies
<1>4. QED
  BY <1>1, <1>2, <1>3, PTL DEF Spec

-----------------------------------------------------------------------------
(* The canonical view.                                                     *)

\* Of the transactions in any set the wallet has seen, one is seen last.
Ordered(v) ==
    \A T \in SUBSET v.seen : T # {} => \E t \in T : \A u \in T : <<t, u>> \notin v.later

\* What it means that the seen transactions in S that count are those in C.
Counting(v, S, C) ==
    /\ C \subseteq S
    /\ \A t \in S : t \in C <=>
          /\ \A u \in v.conf : ~Conflict(t, u)
          /\ \A u \in C : <<t, u>> \in v.later => ~Conflict(t, u)

\* The seen transactions outside R are the last ones and can be decided.
Decided(v, R) ==
    /\ \A t \in v.seen \ R, u \in v.seen : <<t, u>> \in v.later => u \notin R
    /\ \E C : Counting(v, v.seen \ R, C)

\* Going back from the last seen, every transaction of a finite wallet gets
\* its verdict: the canonical view is well defined.
LEMMA CountingExists ==
    ASSUME NEW v, Ordered(v), IsFiniteSet(v.seen),
           v.later \subseteq v.seen \X v.seen
    PROVE  \E C : Counting(v, v.seen, C)
<1> DEFINE Rest == {R \in SUBSET v.seen : Decided(v, R)}
<1>1. Decided(v, v.seen)
  <2>1. Counting(v, v.seen \ v.seen, {})
    BY DEF Counting
  <2> QED BY <2>1 DEF Decided
<1>2. IsWellFoundedOn(StrictSubsetOrdering(v.seen), SUBSET v.seen)
  BY FS_StrictSubsetOrderingWellFounded, FS_FiniteSubsetsOfFinite
<1>3. PICK R \in Rest : \A Q \in Rest : <<Q, R>> \notin StrictSubsetOrdering(v.seen)
  <2>1. Rest # {} /\ Rest \subseteq SUBSET v.seen
    BY <1>1
  <2> HIDE DEF Rest
  <2> QED BY <1>2, <2>1, WFMin
<1>4. CASE R = {}
  <2>1. v.seen \ R = v.seen
    BY <1>4
  <2> QED BY <1>3, <2>1 DEF Decided
<1>5. CASE R # {}
  <2>1. R \in SUBSET v.seen /\ Decided(v, R)
    BY <1>3
  <2>2. PICK t \in R : \A u \in R : <<t, u>> \notin v.later
    BY <1>5, <2>1 DEF Ordered
  <2>3. PICK C : Counting(v, v.seen \ R, C)
    BY <2>1 DEF Decided
  <2> DEFINE good == /\ \A u \in v.conf : ~Conflict(t, u)
                     /\ \A u \in C : <<t, u>> \in v.later => ~Conflict(t, u)
             D == IF good THEN C \cup {t} ELSE C
  <2>4. \A x \in v.seen \ R : <<x, t>> \notin v.later
    BY <2>1, <2>2 DEF Decided
  <2>5. t \notin C /\ <<t, t>> \notin v.later
    BY <2>2, <2>3 DEF Counting
  <2>6. Counting(v, v.seen \ (R \ {t}), D)
    <3>1. v.seen \ (R \ {t}) = (v.seen \ R) \cup {t}
      BY <2>1, <2>2
    <3>2. D \subseteq (v.seen \ R) \cup {t}
      BY <2>3 DEF Counting
    <3>3. ASSUME NEW x \in v.seen \ R
          PROVE  x \in D <=> /\ \A u \in v.conf : ~Conflict(x, u)
                             /\ \A u \in D : <<x, u>> \in v.later => ~Conflict(x, u)
      <4>1. x \in D <=> x \in C
        BY <2>2, <3>3
      <4>2. (\A u \in D : <<x, u>> \in v.later => ~Conflict(x, u))
              <=> (\A u \in C : <<x, u>> \in v.later => ~Conflict(x, u))
        BY <2>4, <3>3
      <4> QED BY <2>3, <3>3, <4>1, <4>2 DEF Counting
    <3>4. t \in D <=> /\ \A u \in v.conf : ~Conflict(t, u)
                      /\ \A u \in D : <<t, u>> \in v.later => ~Conflict(t, u)
      BY <2>5
    <3> HIDE DEF D
    <3> QED BY <3>1, <3>2, <3>3, <3>4 DEF Counting
  <2>7. R \ {t} \in Rest
    <3>1. \A x \in v.seen \ (R \ {t}), u \in v.seen : <<x, u>> \in v.later => u \notin R \ {t}
      BY <2>1, <2>2 DEF Decided
    <3> QED BY <2>1, <2>6, <3>1 DEF Decided
  <2>8. <<R \ {t}, R>> \in StrictSubsetOrdering(v.seen)
    BY <2>1, <2>2 DEF StrictSubsetOrdering
  <2> QED BY <1>3, <2>7, <2>8
<1> QED BY <1>4, <1>5

\* What the wallet has seen confirmed counts, and what it has seen and does not
\* count conflicts with something else it has seen.
LEMMA CanonicalView ==
    ASSUME NEW v, Ordered(v), IsFiniteSet(v.seen), v.later \subseteq v.seen \X v.seen
    PROVE  /\ v.conf \subseteq Canonical(v)
           /\ Canonical(v) \subseteq v.conf \cup v.seen
           /\ \A t \in v.seen \ Canonical(v) : \E u \in v.seen \cup v.conf : Conflict(t, u)
<1> DEFINE P(C) == \A t \in v.seen : t \in C <=>
                      /\ \A u \in v.conf : ~Conflict(t, u)
                      /\ \A u \in C : <<t, u>> \in v.later => ~Conflict(t, u)
           C0 == CHOOSE C \in SUBSET v.seen : P(C)
<1>1. \E C \in SUBSET v.seen : P(C)
  BY CountingExists DEF Counting
<1>2. C0 \in SUBSET v.seen /\ P(C0)
  BY <1>1
<1>3. Canonical(v) = v.conf \cup C0
  BY DEF Canonical
<1> HIDE DEF C0
<1> QED BY <1>2, <1>3

-----------------------------------------------------------------------------
(* The wallet's invariant.                                                 *)

\* One call holds the lock, and only while it has a wallet open.
CallsOK ==
    /\ pc \in [Payments -> Phases] /\ answer \in [Payments -> Answers]
    /\ lock \in Payments \cup {None}
    /\ \A t \in Payments :
         lock = t <=> pc[t] \in {"opened", "synced", "signed", "held", "sent"}
    /\ marker \in BOOLEAN

\* A persisted view lists a transaction once, and can be decided.
ViewOK(v) ==
    /\ v \in Views
    /\ v.later \subseteq v.seen \X v.seen
    /\ v.seen \cap v.conf = {}
    /\ IsFiniteSet(v.seen)
    /\ Ordered(v)

\* Transactions the network holds do not conflict; one whose inputs are still
\* to be chosen is not known to anyone.
NetworkOK ==
    /\ inputs \in [Payments -> SUBSET Outpoints]
    /\ UNION {logged, posted, ldk, OnNetwork, missed} \subseteq Payments
    /\ mempool \cap chain = {}
    /\ IsFiniteSet(mempool)
    /\ \A t \in OnNetwork, u \in OnNetwork : ~Conflict(t, u)
    /\ \A t \in Payments : pc[t] \in {"idle", "opened", "synced"} =>
          t \notin logged \cup posted \cup ldk \cup mempool \cup chain

\* What the wallet was told to keep it lists until a sync finds it missing.
Remembered ==
    /\ ldk \subseteq Fundings
    /\ \A w \in Withdrawals : pc[w] \in {"held", "sent"} \/ w \in posted =>
          w \in store.seen \cup store.conf \cup missed
    /\ \A f \in Fundings : answer[f] = "ok" => f \in store.seen \cup store.conf \cup missed

WalletInv == CallsOK /\ ViewOK(store) /\ NetworkOK /\ Remembered

\* A view stays decidable when a transaction becomes the last seen, and lists
\* it from then on.
LEMMA ViewAfterSeen ==
    ASSUME NEW v, ViewOK(v), NEW t \in Payments
    PROVE  /\ ViewOK(Seen(v, t))
           /\ Seen(v, t).conf = v.conf
           /\ Seen(v, t).seen \cup v.conf = v.seen \cup v.conf \cup {t}
<1>1. CASE t \in v.conf
  BY <1>1 DEF Seen
<1>2. CASE t \notin v.conf
  <2> DEFINE w == Seen(v, t)
  <2>1. /\ v.seen \subseteq Payments /\ v.conf \subseteq Payments
        /\ v.later \subseteq v.seen \X v.seen
        /\ v = [seen |-> v.seen, later |-> v.later, conf |-> v.conf]
    BY DEF ViewOK, Views
  <2>2. w = [seen |-> v.seen \cup {t},
             later |-> {p \in v.later : p[1] # t} \cup ((v.seen \ {t}) \X {t}),
             conf |-> v.conf]
    BY <1>2, <2>1 DEF Seen
  <2> HIDE DEF w
  <2>3. /\ w.seen = v.seen \cup {t} /\ w.conf = v.conf
        /\ w.later = {p \in v.later : p[1] # t} \cup ((v.seen \ {t}) \X {t})
    BY <2>2
  <2>4. w.later \subseteq w.seen \X w.seen
    BY <2>1, <2>3
  <2>5. w \in Views
    <3>1. w.later \in SUBSET (Payments \X Payments)
      BY <2>1, <2>3, <2>4
    <3> QED BY <2>1, <2>2, <2>3, <3>1 DEF Views
  <2>6. w.seen \cap w.conf = {}
    BY <1>2, <2>3 DEF ViewOK
  <2>7. IsFiniteSet(w.seen)
    BY <2>3, FS_AddElement DEF ViewOK
  <2>8. Ordered(w)
    <3> SUFFICES ASSUME NEW T \in SUBSET w.seen, T # {}
                 PROVE  \E x \in T : \A u \in T : <<x, u>> \notin w.later
      BY DEF Ordered
    <3>1. CASE t \in T
      <4>1. \A u : <<t, u>> \notin w.later
        BY <2>3
      <4> QED BY <3>1, <4>1
    <3>2. CASE t \notin T
      <4>1. PICK x \in T : \A u \in T : <<x, u>> \notin v.later
        BY <2>3, <3>2 DEF ViewOK, Ordered
      <4>2. \A u \in T : <<x, u>> \notin w.later
        BY <2>3, <3>2, <4>1
      <4> QED BY <4>2
    <3> QED BY <3>1, <3>2
  <2> QED BY <2>3, <2>4, <2>5, <2>6, <2>7, <2>8 DEF ViewOK, w
<1> QED BY <1>1, <1>2

\* A sync leaves a decidable view, forgets only what it reports missing, and
\* reports only what the wallet listed.
LEMMA ViewAfterSync ==
    ASSUME ViewOK(store), NetworkOK, Sync
    PROVE  /\ ViewOK(store)'
           /\ store.seen \cup store.conf \cup missed
                \subseteq store'.seen \cup store'.conf \cup missed'
           /\ missed' \subseteq Payments
<1> DEFINE counts == Canonical(store)
           stale == store.seen \ (OnNetwork \cup counts)
<1>1. /\ store' = [conf |-> chain, seen |-> stale \cup mempool,
                   later |-> (store.later \cap (stale \X stale)) \cup (stale \X mempool)]
      /\ missed' = missed \cup (counts \ OnNetwork)
  BY DEF Sync
<1>2. store.conf \subseteq counts /\ counts \subseteq store.conf \cup store.seen
  BY CanonicalView DEF ViewOK
<1>3. stale \subseteq store.seen /\ stale \cap OnNetwork = {}
  OBVIOUS
<1>4. store.seen \subseteq stale \cup OnNetwork \cup counts
  OBVIOUS
<1> HIDE DEF counts, stale
<1>5. /\ store'.conf = chain /\ store'.seen = stale \cup mempool
      /\ store'.later = (store.later \cap (stale \X stale)) \cup (stale \X mempool)
  BY <1>1
<1>6. /\ store.seen \subseteq Payments /\ store.conf \subseteq Payments
      /\ mempool \subseteq Payments /\ chain \subseteq Payments /\ missed \subseteq Payments
  BY DEF ViewOK, Views, NetworkOK, OnNetwork
<1>7. store'.later \subseteq store'.seen \X store'.seen
  BY <1>5
<1>8. store' \in Views
  <2>1. store'.later \in SUBSET (Payments \X Payments)
    BY <1>3, <1>5, <1>6
  <2> QED BY <1>1, <1>3, <1>5, <1>6, <2>1 DEF Views
<1>9. store'.seen \cap store'.conf = {}
  BY <1>3, <1>5 DEF NetworkOK, OnNetwork
<1>10. IsFiniteSet(store'.seen)
  <2>1. IsFiniteSet(stale)
    BY <1>3, FS_Subset DEF ViewOK
  <2>2. IsFiniteSet(mempool)
    BY DEF NetworkOK
  <2>3. IsFiniteSet(stale \cup mempool)
    BY <2>1, <2>2, FS_Union
  <2> QED BY <1>5, <2>3
<1>11. Ordered(store')
  <2> SUFFICES ASSUME NEW T \in SUBSET store'.seen, T # {}
               PROVE  \E x \in T : \A u \in T : <<x, u>> \notin store'.later
    BY DEF Ordered
  <2>1. ASSUME NEW t \in T, t \in mempool
        PROVE  \E x \in T : \A u \in T : <<x, u>> \notin store'.later
    <3>1. \A u : <<t, u>> \notin store'.later
      BY <1>3, <1>5, <2>1 DEF OnNetwork
    <3> QED BY <3>1
  <2>2. CASE T \cap mempool = {}
    <3>1. PICK x \in T : \A u \in T : <<x, u>> \notin store.later
      BY <1>3, <1>5, <2>2 DEF ViewOK, Ordered
    <3>2. \A u \in T : <<x, u>> \notin store'.later
      BY <1>5, <2>2, <3>1
    <3> QED BY <3>2
  <2> QED BY <2>1, <2>2
<1>12. ViewOK(store)'
  BY <1>7, <1>8, <1>9, <1>10, <1>11 DEF ViewOK, Ordered, Views, Payments
<1>13. store.seen \cup store.conf \cup missed
         \subseteq store'.seen \cup store'.conf \cup missed'
  BY <1>1, <1>2, <1>4, <1>5 DEF OnNetwork
<1> QED BY <1>1, <1>2, <1>6, <1>12, <1>13

\* Every step keeps the lock with the one call that has a wallet open.
LEMMA CallsStep == CallsOK /\ [Next]_vars => CallsOK'
<1> SUFFICES ASSUME CallsOK, [Next]_vars PROVE CallsOK'
  OBVIOUS
<1> USE HotWalletAssumption DEF CallsOK, Phases, Answers
<1>1. ASSUME NEW t \in Payments, Open(t) PROVE CallsOK'
  BY <1>1 DEF Open, MayStart, To
<1>2. ASSUME NEW t \in Payments, OpenTimesOut(t) PROVE CallsOK'
  BY <1>2 DEF OpenTimesOut, MayStart, Return, Failure, Evidence
<1>3. ASSUME NEW t \in Payments, SyncWithdrawal(t) PROVE CallsOK'
  BY <1>3 DEF SyncWithdrawal, Holds, To, Return, Evidence
<1>4. ASSUME NEW t \in Payments, SyncOrUseCached(t) PROVE CallsOK'
  BY <1>4 DEF SyncOrUseCached, Holds, To, Return
<1>5. ASSUME NEW t \in Payments, BuildWithdrawal(t) PROVE CallsOK'
  BY <1>5 DEF BuildWithdrawal, Holds, To, Return, Evidence
<1>6. ASSUME NEW t \in Payments, BroadcastRefused(t) PROVE CallsOK'
  BY <1>6 DEF BroadcastRefused, Holds, Return, Evidence
<1>7. ASSUME NEW t \in Payments, Hold(t) PROVE CallsOK'
  BY <1>7 DEF Hold, Holds, To, Return, Evidence
<1>8. ASSUME NEW t \in Payments, Send(t) PROVE CallsOK'
  BY <1>8 DEF Send, Holds, To, Return, Evidence
<1>9. ASSUME NEW t \in Payments, Answered(t) PROVE CallsOK'
  BY <1>9 DEF Answered, Holds, Return, Evidence
<1>10. ASSUME NEW t \in Payments, BuildRgbTransfer(t) PROVE CallsOK'
  BY <1>10 DEF BuildRgbTransfer, Holds, To, Return
<1>11. ASSUME NEW t \in Payments, BroadcastRgbTransfer(t) PROVE CallsOK'
  BY <1>11 DEF BroadcastRgbTransfer, Holds, To
<1>12. ASSUME NEW t \in Payments, CommitRgbTransfer(t) PROVE CallsOK'
  BY <1>12 DEF CommitRgbTransfer, Holds, Return
<1>13. ASSUME NEW t \in Payments, BuildFunding(t) PROVE CallsOK'
  BY <1>13 DEF BuildFunding, Holds, To, Return
<1>14. ASSUME NEW t \in Payments, SubmitFunding(t) PROVE CallsOK'
  BY <1>14 DEF SubmitFunding, To, Return
<1>15. ASSUME NEW t \in Payments, RecordFunding(t) PROVE CallsOK'
  BY <1>15 DEF RecordFunding
<1>16. ASSUME NEW t \in Payments, LdkBroadcast(t) PROVE CallsOK'
  BY <1>16 DEF LdkBroadcast, calls
<1>17. ASSUME NEW t \in Payments, NodeAccepts(t) PROVE CallsOK'
  BY <1>17 DEF NodeAccepts, calls
<1>18. ASSUME NEW t \in Payments, NodeDrops(t) PROVE CallsOK'
  BY <1>18 DEF NodeDrops, calls
<1>19. ASSUME NEW t \in Payments, Confirms(t) PROVE CallsOK'
  BY <1>19 DEF Confirms, calls
<1>20. ASSUME SyncUtxos PROVE CallsOK'
  BY <1>20 DEF SyncUtxos, calls
<1>21. ASSUME Crash PROVE CallsOK'
  BY <1>21 DEF Crash
<1>22. ASSUME UNCHANGED vars PROVE CallsOK'
  BY <1>22 DEF vars
<1> QED
  BY <1>1, <1>2, <1>3, <1>4, <1>5, <1>6, <1>7, <1>8, <1>9, <1>10, <1>11,
     <1>12, <1>13, <1>14, <1>15, <1>16, <1>17, <1>18, <1>19, <1>20, <1>21,
     <1>22 DEF Next

\* Every step leaves a view that can be decided.
LEMMA ViewStep == ViewOK(store) /\ NetworkOK /\ [Next]_vars => ViewOK(store)'
<1> SUFFICES ASSUME ViewOK(store), NetworkOK, [Next]_vars PROVE ViewOK(store)'
  OBVIOUS
<1>1. ASSUME NEW t \in Payments, Open(t) PROVE ViewOK(store)'
  BY <1>1 DEF Open, ViewOK, Ordered, Views, Payments
<1>2. ASSUME NEW t \in Payments, OpenTimesOut(t) PROVE ViewOK(store)'
  BY <1>2 DEF OpenTimesOut, ViewOK, Ordered, Views, Payments
<1>3. ASSUME NEW t \in Payments, SyncWithdrawal(t) PROVE ViewOK(store)'
  <2>1. Sync \/ UNCHANGED store
    BY <1>3 DEF SyncWithdrawal
  <2> QED BY <2>1, ViewAfterSync DEF ViewOK, Ordered, Views, Payments
<1>4. ASSUME NEW t \in Payments, SyncOrUseCached(t) PROVE ViewOK(store)'
  <2>1. Sync \/ UNCHANGED store
    BY <1>4 DEF SyncOrUseCached
  <2> QED BY <2>1, ViewAfterSync DEF ViewOK, Ordered, Views, Payments
<1>5. ASSUME NEW t \in Payments, BuildWithdrawal(t) PROVE ViewOK(store)'
  BY <1>5 DEF BuildWithdrawal, ViewOK, Ordered, Views, Payments
<1>6. ASSUME NEW t \in Payments, BroadcastRefused(t) PROVE ViewOK(store)'
  BY <1>6 DEF BroadcastRefused, ViewOK, Ordered, Views, Payments
<1>7. ASSUME NEW t \in Payments, Hold(t) PROVE ViewOK(store)'
  <2>1. store' = Seen(store, t) \/ UNCHANGED store
    BY <1>7 DEF Hold
  <2>2. ViewOK(Seen(store, t))
    BY ViewAfterSeen
  <2> QED BY <2>1, <2>2 DEF ViewOK, Ordered, Views, Payments
<1>8. ASSUME NEW t \in Payments, Send(t) PROVE ViewOK(store)'
  BY <1>8 DEF Send, ViewOK, Ordered, Views, Payments
<1>9. ASSUME NEW t \in Payments, Answered(t) PROVE ViewOK(store)'
  BY <1>9 DEF Answered, ViewOK, Ordered, Views, Payments
<1>10. ASSUME NEW t \in Payments, BuildRgbTransfer(t) PROVE ViewOK(store)'
  BY <1>10 DEF BuildRgbTransfer, ViewOK, Ordered, Views, Payments
<1>11. ASSUME NEW t \in Payments, BroadcastRgbTransfer(t) PROVE ViewOK(store)'
  BY <1>11 DEF BroadcastRgbTransfer, ViewOK, Ordered, Views, Payments
<1>12. ASSUME NEW t \in Payments, CommitRgbTransfer(t) PROVE ViewOK(store)'
  BY <1>12 DEF CommitRgbTransfer, ViewOK, Ordered, Views, Payments
<1>13. ASSUME NEW t \in Payments, BuildFunding(t) PROVE ViewOK(store)'
  BY <1>13 DEF BuildFunding, ViewOK, Ordered, Views, Payments
<1>14. ASSUME NEW t \in Payments, SubmitFunding(t) PROVE ViewOK(store)'
  BY <1>14 DEF SubmitFunding, ViewOK, Ordered, Views, Payments
<1>15. ASSUME NEW t \in Payments, RecordFunding(t) PROVE ViewOK(store)'
  <2>1. store' = Seen(store, t) \/ UNCHANGED store
    BY <1>15 DEF RecordFunding
  <2>2. ViewOK(Seen(store, t))
    BY ViewAfterSeen
  <2> QED BY <2>1, <2>2 DEF ViewOK, Ordered, Views, Payments
<1>16. ASSUME NEW t \in Payments, LdkBroadcast(t) PROVE ViewOK(store)'
  BY <1>16 DEF LdkBroadcast, ViewOK, Ordered, Views, Payments
<1>17. ASSUME NEW t \in Payments, NodeAccepts(t) PROVE ViewOK(store)'
  BY <1>17 DEF NodeAccepts, ViewOK, Ordered, Views, Payments
<1>18. ASSUME NEW t \in Payments, NodeDrops(t) PROVE ViewOK(store)'
  BY <1>18 DEF NodeDrops, ViewOK, Ordered, Views, Payments
<1>19. ASSUME NEW t \in Payments, Confirms(t) PROVE ViewOK(store)'
  BY <1>19 DEF Confirms, ViewOK, Ordered, Views, Payments
<1>20. ASSUME SyncUtxos PROVE ViewOK(store)'
  BY <1>20, ViewAfterSync DEF SyncUtxos
<1>21. ASSUME Crash PROVE ViewOK(store)'
  BY <1>21 DEF Crash, ViewOK, Ordered, Views, Payments
<1>22. ASSUME UNCHANGED vars PROVE ViewOK(store)'
  BY <1>22 DEF vars, ViewOK, Ordered, Views, Payments
<1> QED
  BY <1>1, <1>2, <1>3, <1>4, <1>5, <1>6, <1>7, <1>8, <1>9, <1>10, <1>11,
     <1>12, <1>13, <1>14, <1>15, <1>16, <1>17, <1>18, <1>19, <1>20, <1>21,
     <1>22 DEF Next

\* A payment is built on the wallet's coins and on the change of payments it
\* lists, and on nothing that a listed payment which counts spends.
LEMMA UnspentKnown ==
    ASSUME ViewOK(store)
    PROVE  /\ Unspent(store) \subseteq Outpoints
           /\ \A k \in Canonical(store) : Unspent(store) \cap inputs[k] = {}
<1>1. Canonical(store) \subseteq Payments
  BY CanonicalView DEF ViewOK, Views
<1> QED BY <1>1 DEF Unspent, Outpoints

\* The steps that choose a payment's inputs choose them among the unspent coins
\* of the wallet; no other step changes inputs.
LEMMA ChosenInputs ==
    ASSUME [Next]_vars
    PROVE  \/ UNCHANGED inputs
           \/ \E t \in Payments, coins \in SUBSET Unspent(store) :
                /\ pc[t] = "synced"
                /\ inputs' = [inputs EXCEPT ![t] = coins]
<1>1. ASSUME NEW t \in Payments, Open(t) PROVE \/ UNCHANGED inputs
       \/ \E x \in Payments, coins \in SUBSET Unspent(store) :
            /\ pc[x] = "synced" /\ inputs' = [inputs EXCEPT ![x] = coins]
  BY <1>1 DEF Open
<1>2. ASSUME NEW t \in Payments, OpenTimesOut(t) PROVE \/ UNCHANGED inputs
       \/ \E x \in Payments, coins \in SUBSET Unspent(store) :
            /\ pc[x] = "synced" /\ inputs' = [inputs EXCEPT ![x] = coins]
  BY <1>2 DEF OpenTimesOut
<1>3. ASSUME NEW t \in Payments, SyncWithdrawal(t) PROVE \/ UNCHANGED inputs
       \/ \E x \in Payments, coins \in SUBSET Unspent(store) :
            /\ pc[x] = "synced" /\ inputs' = [inputs EXCEPT ![x] = coins]
  BY <1>3 DEF SyncWithdrawal
<1>4. ASSUME NEW t \in Payments, SyncOrUseCached(t) PROVE \/ UNCHANGED inputs
       \/ \E x \in Payments, coins \in SUBSET Unspent(store) :
            /\ pc[x] = "synced" /\ inputs' = [inputs EXCEPT ![x] = coins]
  BY <1>4 DEF SyncOrUseCached
<1>5. ASSUME NEW t \in Payments, BuildWithdrawal(t) PROVE \/ UNCHANGED inputs
       \/ \E x \in Payments, coins \in SUBSET Unspent(store) :
            /\ pc[x] = "synced" /\ inputs' = [inputs EXCEPT ![x] = coins]
  BY <1>5 DEF BuildWithdrawal, Holds, Pick, ConfirmedUnspent
<1>6. ASSUME NEW t \in Payments, BroadcastRefused(t) PROVE \/ UNCHANGED inputs
       \/ \E x \in Payments, coins \in SUBSET Unspent(store) :
            /\ pc[x] = "synced" /\ inputs' = [inputs EXCEPT ![x] = coins]
  BY <1>6 DEF BroadcastRefused
<1>7. ASSUME NEW t \in Payments, Hold(t) PROVE \/ UNCHANGED inputs
       \/ \E x \in Payments, coins \in SUBSET Unspent(store) :
            /\ pc[x] = "synced" /\ inputs' = [inputs EXCEPT ![x] = coins]
  BY <1>7 DEF Hold
<1>8. ASSUME NEW t \in Payments, Send(t) PROVE \/ UNCHANGED inputs
       \/ \E x \in Payments, coins \in SUBSET Unspent(store) :
            /\ pc[x] = "synced" /\ inputs' = [inputs EXCEPT ![x] = coins]
  BY <1>8 DEF Send
<1>9. ASSUME NEW t \in Payments, Answered(t) PROVE \/ UNCHANGED inputs
       \/ \E x \in Payments, coins \in SUBSET Unspent(store) :
            /\ pc[x] = "synced" /\ inputs' = [inputs EXCEPT ![x] = coins]
  BY <1>9 DEF Answered
<1>10. ASSUME NEW t \in Payments, BuildRgbTransfer(t) PROVE \/ UNCHANGED inputs
       \/ \E x \in Payments, coins \in SUBSET Unspent(store) :
            /\ pc[x] = "synced" /\ inputs' = [inputs EXCEPT ![x] = coins]
  BY <1>10 DEF BuildRgbTransfer, Holds, Pick, ConfirmedUnspent
<1>11. ASSUME NEW t \in Payments, BroadcastRgbTransfer(t) PROVE \/ UNCHANGED inputs
       \/ \E x \in Payments, coins \in SUBSET Unspent(store) :
            /\ pc[x] = "synced" /\ inputs' = [inputs EXCEPT ![x] = coins]
  BY <1>11 DEF BroadcastRgbTransfer
<1>12. ASSUME NEW t \in Payments, CommitRgbTransfer(t) PROVE \/ UNCHANGED inputs
       \/ \E x \in Payments, coins \in SUBSET Unspent(store) :
            /\ pc[x] = "synced" /\ inputs' = [inputs EXCEPT ![x] = coins]
  BY <1>12 DEF CommitRgbTransfer
<1>13. ASSUME NEW t \in Payments, BuildFunding(t) PROVE \/ UNCHANGED inputs
       \/ \E x \in Payments, coins \in SUBSET Unspent(store) :
            /\ pc[x] = "synced" /\ inputs' = [inputs EXCEPT ![x] = coins]
  BY <1>13 DEF BuildFunding, Holds, Pick
<1>14. ASSUME NEW t \in Payments, SubmitFunding(t) PROVE \/ UNCHANGED inputs
       \/ \E x \in Payments, coins \in SUBSET Unspent(store) :
            /\ pc[x] = "synced" /\ inputs' = [inputs EXCEPT ![x] = coins]
  BY <1>14 DEF SubmitFunding
<1>15. ASSUME NEW t \in Payments, RecordFunding(t) PROVE \/ UNCHANGED inputs
       \/ \E x \in Payments, coins \in SUBSET Unspent(store) :
            /\ pc[x] = "synced" /\ inputs' = [inputs EXCEPT ![x] = coins]
  BY <1>15 DEF RecordFunding
<1>16. ASSUME NEW t \in Payments, LdkBroadcast(t) PROVE \/ UNCHANGED inputs
       \/ \E x \in Payments, coins \in SUBSET Unspent(store) :
            /\ pc[x] = "synced" /\ inputs' = [inputs EXCEPT ![x] = coins]
  BY <1>16 DEF LdkBroadcast
<1>17. ASSUME NEW t \in Payments, NodeAccepts(t) PROVE \/ UNCHANGED inputs
       \/ \E x \in Payments, coins \in SUBSET Unspent(store) :
            /\ pc[x] = "synced" /\ inputs' = [inputs EXCEPT ![x] = coins]
  BY <1>17 DEF NodeAccepts
<1>18. ASSUME NEW t \in Payments, NodeDrops(t) PROVE \/ UNCHANGED inputs
       \/ \E x \in Payments, coins \in SUBSET Unspent(store) :
            /\ pc[x] = "synced" /\ inputs' = [inputs EXCEPT ![x] = coins]
  BY <1>18 DEF NodeDrops
<1>19. ASSUME NEW t \in Payments, Confirms(t) PROVE \/ UNCHANGED inputs
       \/ \E x \in Payments, coins \in SUBSET Unspent(store) :
            /\ pc[x] = "synced" /\ inputs' = [inputs EXCEPT ![x] = coins]
  BY <1>19 DEF Confirms
<1>20. ASSUME SyncUtxos PROVE \/ UNCHANGED inputs
       \/ \E x \in Payments, coins \in SUBSET Unspent(store) :
            /\ pc[x] = "synced" /\ inputs' = [inputs EXCEPT ![x] = coins]
  BY <1>20 DEF SyncUtxos
<1>21. ASSUME Crash PROVE \/ UNCHANGED inputs
       \/ \E x \in Payments, coins \in SUBSET Unspent(store) :
            /\ pc[x] = "synced" /\ inputs' = [inputs EXCEPT ![x] = coins]
  BY <1>21 DEF Crash
<1>22. ASSUME UNCHANGED vars PROVE \/ UNCHANGED inputs
       \/ \E x \in Payments, coins \in SUBSET Unspent(store) :
            /\ pc[x] = "synced" /\ inputs' = [inputs EXCEPT ![x] = coins]
  BY <1>22 DEF vars
<1> QED
  BY <1>1, <1>2, <1>3, <1>4, <1>5, <1>6, <1>7, <1>8, <1>9, <1>10, <1>11,
     <1>12, <1>13, <1>14, <1>15, <1>16, <1>17, <1>18, <1>19, <1>20, <1>21,
     <1>22 DEF Next

\* Every step keeps the network free of conflicts.
LEMMA NetworkStep == CallsOK /\ ViewOK(store) /\ NetworkOK /\ [Next]_vars => NetworkOK'
<1> SUFFICES ASSUME CallsOK, ViewOK(store), NetworkOK, [Next]_vars PROVE NetworkOK'
  OBVIOUS
<1> USE HotWalletAssumption DEF CallsOK, NetworkOK, OnNetwork, Conflict, Phases
<1>1. ASSUME NEW t \in Payments, Open(t) PROVE NetworkOK'
  BY <1>1 DEF Open, MayStart, To, network
<1>2. ASSUME NEW t \in Payments, OpenTimesOut(t) PROVE NetworkOK'
  BY <1>2 DEF OpenTimesOut, MayStart, Return, Failure, Evidence, network
<1>3. ASSUME NEW t \in Payments, SyncWithdrawal(t) PROVE NetworkOK'
  <2>1. /\ t \notin logged \cup posted \cup ldk \cup mempool \cup chain
        /\ UNCHANGED <<inputs, logged, posted, ldk, mempool, chain>>
        /\ \A u \in Payments : u # t => pc'[u] = pc[u]
    BY <1>3 DEF SyncWithdrawal, Holds, To, Return, Evidence, network
  <2>2. missed' \subseteq Payments
    BY <1>3, ViewAfterSync DEF SyncWithdrawal
  <2> QED BY <2>1, <2>2
<1>4. ASSUME NEW t \in Payments, SyncOrUseCached(t) PROVE NetworkOK'
  <2>1. /\ t \notin logged \cup posted \cup ldk \cup mempool \cup chain
        /\ UNCHANGED <<inputs, logged, posted, ldk, mempool, chain>>
        /\ \A u \in Payments : u # t => pc'[u] = pc[u]
    BY <1>4 DEF SyncOrUseCached, Holds, To, Return, network
  <2>2. missed' \subseteq Payments
    BY <1>4, ViewAfterSync DEF SyncOrUseCached
  <2> QED BY <2>1, <2>2
<1>5. ASSUME NEW t \in Payments, BuildWithdrawal(t) PROVE NetworkOK'
  <2>1. /\ pc[t] = "synced" /\ UNCHANGED <<missed, logged, posted, ldk, mempool, chain>>
        /\ \A u \in Payments : u # t => pc'[u] = pc[u]
    BY <1>5 DEF BuildWithdrawal, Holds, To, Return, Evidence, network
  <2>2. \/ UNCHANGED inputs
        \/ \E coins \in SUBSET Outpoints : inputs' = [inputs EXCEPT ![t] = coins]
    BY <1>5, UnspentKnown DEF BuildWithdrawal, Pick, ConfirmedUnspent
  <2>3. pc'[t] \notin {"idle", "opened", "synced"}
    BY <1>5 DEF BuildWithdrawal, Holds, To, Return, Evidence
  <2> QED BY <2>1, <2>2, <2>3
<1>6. ASSUME NEW t \in Payments, BroadcastRefused(t) PROVE NetworkOK'
  BY <1>6 DEF BroadcastRefused, Holds, Return, Evidence, network
<1>7. ASSUME NEW t \in Payments, Hold(t) PROVE NetworkOK'
  <2>1. /\ logged' = logged \cup {t}
        /\ UNCHANGED <<inputs, posted, ldk, mempool, chain, missed>>
        /\ \A u \in Payments : u # t => pc'[u] = pc[u]
    BY <1>7 DEF Hold, To, Return
  <2>2. pc'[t] \in {"held", "done"}
    BY <1>7 DEF Hold, To, Return
  <2> QED BY <2>1, <2>2
<1>8. ASSUME NEW t \in Payments, Send(t) PROVE NetworkOK'
  BY <1>8 DEF Send, Holds, To, Return, Evidence, network
<1>9. ASSUME NEW t \in Payments, Answered(t) PROVE NetworkOK'
  BY <1>9 DEF Answered, Holds, Return, Evidence, network
<1>10. ASSUME NEW t \in Payments, BuildRgbTransfer(t) PROVE NetworkOK'
  <2>1. /\ pc[t] = "synced" /\ UNCHANGED <<missed, logged, posted, ldk, mempool, chain>>
        /\ \A u \in Payments : u # t => pc'[u] = pc[u]
    BY <1>10 DEF BuildRgbTransfer, Holds, To, Return, network
  <2>2. \/ UNCHANGED inputs
        \/ \E coins \in SUBSET Outpoints : inputs' = [inputs EXCEPT ![t] = coins]
    BY <1>10, UnspentKnown DEF BuildRgbTransfer, Pick, ConfirmedUnspent
  <2>3. pc'[t] \notin {"idle", "opened", "synced"}
    BY <1>10 DEF BuildRgbTransfer, Holds, To, Return
  <2> QED BY <2>1, <2>2, <2>3
<1>11. ASSUME NEW t \in Payments, BroadcastRgbTransfer(t) PROVE NetworkOK'
  BY <1>11 DEF BroadcastRgbTransfer, Holds, To, network
<1>12. ASSUME NEW t \in Payments, CommitRgbTransfer(t) PROVE NetworkOK'
  BY <1>12 DEF CommitRgbTransfer, Holds, Return, network
<1>13. ASSUME NEW t \in Payments, BuildFunding(t) PROVE NetworkOK'
  <2>1. /\ pc[t] = "synced" /\ UNCHANGED <<missed, logged, posted, ldk, mempool, chain>>
        /\ \A u \in Payments : u # t => pc'[u] = pc[u]
    BY <1>13 DEF BuildFunding, Holds, To, Return, network
  <2>2. \/ UNCHANGED inputs
        \/ \E coins \in SUBSET Outpoints : inputs' = [inputs EXCEPT ![t] = coins]
    BY <1>13, UnspentKnown DEF BuildFunding, Pick
  <2>3. pc'[t] \notin {"idle", "opened", "synced"}
    BY <1>13 DEF BuildFunding, Holds, To, Return
  <2> QED BY <2>1, <2>2, <2>3
<1>14. ASSUME NEW t \in Payments, SubmitFunding(t) PROVE NetworkOK'
  BY <1>14 DEF SubmitFunding, To, Return, network
<1>15. ASSUME NEW t \in Payments, RecordFunding(t) PROVE NetworkOK'
  BY <1>15 DEF RecordFunding, network
<1>16. ASSUME NEW t \in Payments, LdkBroadcast(t) PROVE NetworkOK'
  BY <1>16 DEF LdkBroadcast, calls, network
<1>17. ASSUME NEW t \in Payments, NodeAccepts(t) PROVE NetworkOK'
  <2> DEFINE out == {u \in mempool : Conflict(t, u)}
  <2>1. /\ mempool' = (mempool \ out) \cup {t}
        /\ UNCHANGED <<pc, inputs, logged, posted, ldk, chain, missed>>
        /\ t \in (posted \cup logged) \ (mempool \cup chain)
        /\ \A u \in chain : ~Conflict(t, u)
    BY <1>17 DEF NodeAccepts, calls
  <2>2. IsFiniteSet(mempool')
    <3>1. IsFiniteSet(mempool \ out)
      BY FS_Subset
    <3>2. IsFiniteSet((mempool \ out) \cup {t})
      BY <3>1, FS_AddElement
    <3> QED BY <2>1, <3>2
  <2> QED BY <2>1, <2>2
<1>18. ASSUME NEW t \in Payments, NodeDrops(t) PROVE NetworkOK'
  <2>1. IsFiniteSet(mempool')
    BY <1>18, FS_Subset DEF NodeDrops
  <2> QED BY <1>18, <2>1 DEF NodeDrops, calls
<1>19. ASSUME NEW t \in Payments, Confirms(t) PROVE NetworkOK'
  <2>1. IsFiniteSet(mempool')
    BY <1>19, FS_Subset DEF Confirms
  <2> QED BY <1>19, <2>1 DEF Confirms, calls
<1>20. ASSUME SyncUtxos PROVE NetworkOK'
  <2>1. missed' \subseteq Payments
    BY <1>20, ViewAfterSync DEF SyncUtxos
  <2> QED BY <1>20, <2>1 DEF SyncUtxos, calls, network
<1>21. ASSUME Crash PROVE NetworkOK'
  BY <1>21 DEF Crash, network
<1>22. ASSUME UNCHANGED vars PROVE NetworkOK'
  BY <1>22 DEF vars
<1> QED
  BY <1>1, <1>2, <1>3, <1>4, <1>5, <1>6, <1>7, <1>8, <1>9, <1>10, <1>11,
     <1>12, <1>13, <1>14, <1>15, <1>16, <1>17, <1>18, <1>19, <1>20, <1>21,
     <1>22 DEF Next

\* Every step keeps in the store what it was told to keep, until a sync finds
\* it missing.
LEMMA RememberedStep == WalletInv /\ [Next]_vars => Remembered'
<1> SUFFICES ASSUME CallsOK, ViewOK(store), NetworkOK, Remembered, [Next]_vars
             PROVE  Remembered'
  BY DEF WalletInv
<1> USE HotWalletAssumption DEF CallsOK, Remembered, Payments, Phases, Answers
<1>1. ASSUME NEW t \in Payments, Open(t) PROVE Remembered'
  BY <1>1 DEF Open, MayStart, To, network
<1>2. ASSUME NEW t \in Payments, OpenTimesOut(t) PROVE Remembered'
  BY <1>2 DEF OpenTimesOut, MayStart, Return, Failure, Evidence, network
<1>3. ASSUME NEW t \in Payments, SyncWithdrawal(t) PROVE Remembered'
  <2>1. /\ UNCHANGED <<posted, ldk>>
        /\ \A u \in Payments : pc'[u] \in {"held", "sent"} => pc[u] \in {"held", "sent"}
        /\ \A u \in Fundings : answer'[u] = "ok" => answer[u] = "ok"
    BY <1>3 DEF SyncWithdrawal, Holds, To, Return, Evidence, network
  <2>2. store.seen \cup store.conf \cup missed
          \subseteq store'.seen \cup store'.conf \cup missed'
    BY <1>3, ViewAfterSync DEF SyncWithdrawal
  <2> QED BY <2>1, <2>2
<1>4. ASSUME NEW t \in Payments, SyncOrUseCached(t) PROVE Remembered'
  <2>1. /\ UNCHANGED <<posted, ldk>>
        /\ \A u \in Payments : pc'[u] \in {"held", "sent"} => pc[u] \in {"held", "sent"}
        /\ \A u \in Fundings : answer'[u] = "ok" => answer[u] = "ok"
    BY <1>4 DEF SyncOrUseCached, Holds, To, Return, network
  <2>2. store.seen \cup store.conf \cup missed
          \subseteq store'.seen \cup store'.conf \cup missed'
    BY <1>4, ViewAfterSync DEF SyncOrUseCached
  <2> QED BY <2>1, <2>2
<1>5. ASSUME NEW t \in Payments, BuildWithdrawal(t) PROVE Remembered'
  BY <1>5 DEF BuildWithdrawal, Holds, To, Return, Evidence, network
<1>6. ASSUME NEW t \in Payments, BroadcastRefused(t) PROVE Remembered'
  BY <1>6 DEF BroadcastRefused, Holds, Return, Evidence, network
<1>7. ASSUME NEW t \in Payments, Hold(t) PROVE Remembered'
  <2>1. /\ Seen(store, t).conf = store.conf
        /\ Seen(store, t).seen \cup store.conf = store.seen \cup store.conf \cup {t}
    BY ViewAfterSeen
  <2>2. /\ UNCHANGED <<posted, ldk, missed>> /\ t \in Withdrawals
        /\ \A u \in Payments : u # t => pc'[u] = pc[u] /\ answer'[u] = answer[u]
    BY <1>7 DEF Hold, Holds, To, Return, Evidence, network
  <2>3. \/ store' = Seen(store, t) /\ pc'[t] \in Phases /\ answer'[t] \in Answers
        \/ UNCHANGED store /\ pc'[t] = "done" /\ answer'[t] # "ok"
    BY <1>7 DEF Hold, Holds, To, Return, Evidence
  <2> QED BY <2>1, <2>2, <2>3
<1>8. ASSUME NEW t \in Payments, Send(t) PROVE Remembered'
  BY <1>8 DEF Send, Holds, To, Return, Evidence, network
<1>9. ASSUME NEW t \in Payments, Answered(t) PROVE Remembered'
  BY <1>9 DEF Answered, Holds, Return, Evidence, network
<1>10. ASSUME NEW t \in Payments, BuildRgbTransfer(t) PROVE Remembered'
  BY <1>10 DEF BuildRgbTransfer, Holds, To, Return, network
<1>11. ASSUME NEW t \in Payments, BroadcastRgbTransfer(t) PROVE Remembered'
  BY <1>11 DEF BroadcastRgbTransfer, Holds, To, network
<1>12. ASSUME NEW t \in Payments, CommitRgbTransfer(t) PROVE Remembered'
  BY <1>12 DEF CommitRgbTransfer, Holds, Return, network
<1>13. ASSUME NEW t \in Payments, BuildFunding(t) PROVE Remembered'
  BY <1>13 DEF BuildFunding, Holds, To, Return, network
<1>14. ASSUME NEW t \in Payments, SubmitFunding(t) PROVE Remembered'
  BY <1>14 DEF SubmitFunding, To, Return, network
<1>15. ASSUME NEW t \in Payments, RecordFunding(t) PROVE Remembered'
  <2>1. /\ Seen(store, t).conf = store.conf
        /\ Seen(store, t).seen \cup store.conf = store.seen \cup store.conf \cup {t}
    BY ViewAfterSeen
  <2>2. /\ UNCHANGED <<posted, ldk, missed>> /\ t \in Fundings
        /\ \A u \in Payments : u # t => pc'[u] = pc[u] /\ answer'[u] = answer[u]
    BY <1>15 DEF RecordFunding, network
  <2>3. \/ store' = Seen(store, t) /\ pc'[t] \in Phases /\ answer'[t] \in Answers
        \/ UNCHANGED store /\ pc'[t] = "done" /\ answer'[t] # "ok"
    BY <1>15 DEF RecordFunding
  <2> QED BY <2>1, <2>2, <2>3
<1>16. ASSUME NEW t \in Payments, LdkBroadcast(t) PROVE Remembered'
  BY <1>16 DEF LdkBroadcast, calls, network
<1>17. ASSUME NEW t \in Payments, NodeAccepts(t) PROVE Remembered'
  BY <1>17 DEF NodeAccepts, calls, network
<1>18. ASSUME NEW t \in Payments, NodeDrops(t) PROVE Remembered'
  BY <1>18 DEF NodeDrops, calls, network
<1>19. ASSUME NEW t \in Payments, Confirms(t) PROVE Remembered'
  BY <1>19 DEF Confirms, calls, network
<1>20. ASSUME SyncUtxos PROVE Remembered'
  <2>1. /\ UNCHANGED <<posted, ldk>>
        /\ \A u \in Payments : pc'[u] \in {"held", "sent"} => pc[u] \in {"held", "sent"}
        /\ \A u \in Fundings : answer'[u] = "ok" => answer[u] = "ok"
    BY <1>20 DEF SyncUtxos, calls, network
  <2>2. store.seen \cup store.conf \cup missed
          \subseteq store'.seen \cup store'.conf \cup missed'
    BY <1>20, ViewAfterSync DEF SyncUtxos
  <2> QED BY <2>1, <2>2
<1>21. ASSUME Crash PROVE Remembered'
  BY <1>21 DEF Crash, network
<1>22. ASSUME UNCHANGED vars PROVE Remembered'
  BY <1>22 DEF vars
<1> QED
  BY <1>1, <1>2, <1>3, <1>4, <1>5, <1>6, <1>7, <1>8, <1>9, <1>10, <1>11,
     <1>12, <1>13, <1>14, <1>15, <1>16, <1>17, <1>18, <1>19, <1>20, <1>21,
     <1>22 DEF Next

\* The invariant holds initially.
LEMMA WalletInit == Init => WalletInv
<1> SUFFICES ASSUME Init PROVE WalletInv
  OBVIOUS
<1>1. CallsOK
  BY HotWalletAssumption DEF Init, CallsOK, Phases, Answers
<1>2. ViewOK(store)
  BY FS_EmptySet DEF Init, ViewOK, Views, Ordered
<1>3. NetworkOK
  BY FS_EmptySet DEF Init, NetworkOK, OnNetwork
<1>4. Remembered
  BY DEF Init, Remembered, Payments
<1> QED BY <1>1, <1>2, <1>3, <1>4 DEF WalletInv

\* Every step keeps the invariant.
LEMMA WalletStep == WalletInv /\ [Next]_vars => WalletInv'
  BY CallsStep, ViewStep, NetworkStep, RememberedStep DEF WalletInv

\* The hot wallet's types hold: one call has the wallet open, a view lists a
\* transaction once, and the network never holds two spends of one coin.
THEOREM HotWalletTypeCorrect == Spec => []TypeOK
<1>1. WalletInv => TypeOK
  BY DEF WalletInv, CallsOK, ViewOK, NetworkOK, TypeOK
<1> QED
  BY <1>1, WalletInit, WalletStep, PTL DEF Spec

\* A coin of a kept transaction is chosen again only after a sync found the
\* transaction missing or the wallet saw another spend of one of its coins.
LEMMA ChoiceAvoidsKept ==
    ASSUME WalletInv, [Next]_vars,
           NEW t \in Payments, NEW k \in Payments,
           inputs[t] = {}, Kept(k), inputs'[t] \cap inputs[k] # {}
    PROVE  k \in missed \/ Displaced(k)
<1>1. PICK x \in Payments, coins \in SUBSET Unspent(store) :
         inputs' = [inputs EXCEPT ![x] = coins]
  BY ChosenInputs
<1>2. t = x /\ inputs'[t] = coins
  BY <1>1 DEF WalletInv, NetworkOK
<1>3. k \in store.seen \cup store.conf \cup missed
  BY DEF WalletInv, Remembered, Kept
<1>4. k \notin Canonical(store)
  BY <1>2, UnspentKnown DEF WalletInv
<1>5. /\ store.conf \subseteq Canonical(store)
      /\ k \in store.seen \ Canonical(store)
           => \E u \in store.seen \cup store.conf : Conflict(k, u)
  BY CanonicalView DEF WalletInv, ViewOK
<1> QED BY <1>3, <1>4, <1>5 DEF Displaced

\* No payment is built on a coin of a kept transaction, whatever its broadcast
\* answered and whether the sync was skipped, failed or followed a restart,
\* until a sync has found it missing or the wallet has seen a conflicting spend.
THEOREM KeptCoinsNotReused == Spec => KeptUntilAbsent
<1>1. WalletInv /\ [Next]_vars =>
        [\A t, k \in Payments :
            /\ inputs[t] = {} /\ Kept(k)
            /\ inputs'[t] \cap inputs[k] # {}
            => k \in missed \/ Displaced(k)]_vars
  BY ChoiceAvoidsKept
<1> QED
  BY <1>1, WalletInit, WalletStep, PTL DEF Spec, KeptUntilAbsent

=============================================================================
