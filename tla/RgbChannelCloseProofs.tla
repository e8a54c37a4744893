----------------------- MODULE RgbChannelCloseProofs --------------------------
(*****************************************************************************)
(* The two nodes of RgbChannel agree on how the channel ends. Until a node   *)
(* closes it, both users are told of what is not under way any more          *)
(* (Polite) and only a node with nothing left to do offers to close          *)
(* (Parting); from then on nothing is left of any payment on either side     *)
(* (Settled). With the dance of RgbChannelDanceProofs this makes the         *)
(* safety of the payments, and the agreement on the balances, hold to the    *)
(* end of the channel. As long as no user closes it the two build the same   *)
(* commitment from their two views, and no signature, assertion,             *)
(* revocation or id ever gives the channel up to the chain.                  *)
(*****************************************************************************)
EXTENDS RgbChannelDanceProofs

-----------------------------------------------------------------------------
(* A channel with nothing left to do.                                      *)

\* Nothing is left to do for a channel that both sides have shut down.
Tidy(c) ==
    /\ c.localShut /\ c.remoteShut
    /\ c.inb = {} /\ c.out = {} /\ c.cell = <<>> /\ c.pendFails = {} /\ c.pendAdds = {}

\* A holder commitment of f is the one c had, or it pays no HTLC.
CleanerTxs(c, f) ==
    f.txs = c.txs \/ (f.txs.prev = c.txs.cur /\ f.txs.cur.htlcs = {})

\* A tidy channel stays tidy and keeps its balance.
Rests(c, f) ==
    /\ Tidy(f) /\ f.toSelf = c.toSelf /\ f.cpNum >= c.cpNum /\ CleanerTxs(c, f)

\* The fields that decide whether a channel is tidy, its balance and its commitments.
SameTidy(c, f) ==
    /\ (f.localShut <=> c.localShut) /\ (f.remoteShut <=> c.remoteShut)
    /\ f.inb = c.inb /\ f.out = c.out /\ f.cell = c.cell /\ f.pendFails = c.pendFails /\ f.pendAdds = c.pendAdds
    /\ f.toSelf = c.toSelf /\ f.cpNum = c.cpNum /\ f.txs = c.txs

\* A channel that keeps them.
LEMMA RestsSame ==
    ASSUME NEW c \in Channel, Tidy(c), NEW f, SameTidy(c, f)
    PROVE  Rests(c, f)
  BY DEF Rests, Tidy, CleanerTxs, Channel, SameTidy

\* Changes of the other fields.
LEMMA RestsOnes ==
    ASSUME NEW c \in Channel, Tidy(c)
    PROVE  /\ Rests(c, c)
           /\ \A why : Rests(c, Ends(c, why))
           /\ \A x : Rests(c, [c EXCEPT !.feeSent = x])
           /\ \A x : Rests(c, [c EXCEPT !.pendClosing = x])
           /\ \A x, y : Rests(c, [c EXCEPT !.feeSent = x, !.fate = y])
           /\ \A raa, cs : Rests(c, monitor_updating_paused(c, raa, cs))
           /\ \A x, y : Rests(c, [c EXCEPT !.disc = FALSE, !.pendRaa = x, !.pendCs = y])
           /\ Rests(c, [c EXCEPT !.monBusy = FALSE, !.pendRaa = FALSE, !.pendCs = FALSE,
                                 !.pendAdds = {}, !.pendFails = {}])
  <1>1. SameTidy(c, c)
    BY DEF SameTidy
  <1>2. \A why : SameTidy(c, Ends(c, why))
    BY DEF SameTidy, Channel, Ends
  <1>3. \A x : SameTidy(c, [c EXCEPT !.feeSent = x])
    BY DEF SameTidy, Channel
  <1>4. \A x : SameTidy(c, [c EXCEPT !.pendClosing = x])
    BY DEF SameTidy, Channel
  <1>5. \A x, y : SameTidy(c, [c EXCEPT !.feeSent = x, !.fate = y])
    BY DEF SameTidy, Channel
  <1>6. \A raa, cs : SameTidy(c, monitor_updating_paused(c, raa, cs))
    BY DEF SameTidy, Channel, monitor_updating_paused
  <1>7. \A x, y : SameTidy(c, [c EXCEPT !.disc = FALSE, !.pendRaa = x, !.pendCs = y])
    BY DEF SameTidy, Channel
  <1>8. SameTidy(c, [c EXCEPT !.monBusy = FALSE, !.pendRaa = FALSE, !.pendCs = FALSE,
                              !.pendAdds = {}, !.pendFails = {}])
    <2> DEFINE f == [c EXCEPT !.monBusy = FALSE, !.pendRaa = FALSE, !.pendCs = FALSE,
                              !.pendAdds = {}, !.pendFails = {}]
    <2>1. /\ f.localShut = c.localShut /\ f.remoteShut = c.remoteShut
          /\ f.inb = c.inb /\ f.out = c.out /\ f.cell = c.cell
          /\ f.toSelf = c.toSelf /\ f.cpNum = c.cpNum /\ f.txs = c.txs
      BY DEF Channel
    <2>2. f.pendFails = {} /\ f.pendAdds = {}
      BY DEF Channel
    <2>3. c.pendFails = {} /\ c.pendAdds = {}
      BY DEF Tidy
    <2> HIDE DEF f
    <2>4. SameTidy(c, f)
      BY <2>1, <2>2, <2>3 DEF SameTidy
    <2> QED
      BY <2>4 DEF f
  <1> QED
    BY <1>1, <1>2, <1>3, <1>4, <1>5, <1>6, <1>7, <1>8, RestsSame

\* Two steps of a tidy channel that keep its commitments.
LEMMA RestsAgain ==
    ASSUME NEW c \in Channel, NEW e \in Channel, NEW f, Rests(c, e), Rests(e, f), e.txs = c.txs \/ f.txs = e.txs,
           f.cpNum \in Int
    PROVE  Rests(c, f)
  BY DEF Rests, CleanerTxs, Channel

\* An empty holding cell has no additions to give up.
LEMMA WithoutNothing == WithoutAdds(<<>>) = <<>>
  <1>1. <<>> \in Seq(Updates) /\ Len(<<>>) = 0
    OBVIOUS
  <1>2. PICK a : a[0] = <<>> /\ WithoutAdds(<<>>) = a[Len(<<>>)]
    BY <1>1, WithoutChain
  <1> QED
    BY <1>1, <1>2

\* The holding cell is empty.
NothingHeld(c) == c.cell = <<>>

\* Nothing was freed, and nothing given up.
Unfreed(c, e) == e = [c |-> c, failed |-> {}, did |-> FALSE]

\* Freeing an empty holding cell does nothing.
LEMMA FreeNothing ==
    ASSUME NEW n, NEW c \in Channel, NothingHeld(c), NEW tight,
           NEW e, e = maybe_free_holding_cell_htlcs(n, c, tight)
    PROVE  Unfreed(c, e)
  <1>1. CASE can_generate_new_commitment(c)
    <2>1. PICK a : FreeRun(n, c, tight, a)
      BY FreeChain
    <2>2. Len(c.cell) = 0
      BY DEF NothingHeld
    <2>3. a[0] = FreeBase(c) /\ free_holding_cell_htlcs(n, c, tight) =
            IF a[0].did THEN [a[0] EXCEPT !.c = BuildAndPause(n, @)] ELSE a[0]
      BY <2>1, <2>2 DEF FreeRun
    <2>4. FreeBase(c) = [c |-> c, failed |-> {}, did |-> FALSE]
      BY DEF FreeBase, Channel, NothingHeld
    <2>5. e = [c |-> c, failed |-> {}, did |-> FALSE]
      BY <1>1, <2>3, <2>4 DEF maybe_free_holding_cell_htlcs
    <2> QED
      BY <2>5 DEF Unfreed
  <1>2. CASE ~can_generate_new_commitment(c)
    BY <1>2 DEF maybe_free_holding_cell_htlcs, Unfreed
  <1> QED
    BY <1>1, <1>2

\* No HTLCs, no amount.
LEMMA NoAmount == SumAmounts({}) = 0
  <1>1. SumAmounts({}) = Worth({h.pay : h \in {}})
    BY SumAmountsIsWorth, FS_EmptySet
  <1>2. {h.pay : h \in {}} = {}
    OBVIOUS
  <1> QED
    BY <1>1, <1>2, WorthAdds

\* A revocation that reaches a tidy channel.
LEMMA TidyRevoked ==
    ASSUME NEW n \in Nodes, NEW c, NEW I \in [Payments -> Int], NEW S,
           NEW L \in SUBSET Payments, NEW C \in SUBSET Payments, NEW R \in SUBSET Payments,
           NodeOK(n, c, I, S, L, C, R), IdsUnique(I), Tidy(c), NEW d, d = ApplyRevocation(c)
    PROVE  Rests(c, d) /\ d.txs = c.txs /\ d \in Channel
  <1>1. Gone(c) = {} /\ Resolved(c) = {} /\ Arrived(c) = {} /\ Success({}) = {}
    BY DEF Gone, Resolved, Arrived, Success, Tidy
  <1>2. /\ d \in Channel
        /\ MovedOn(c.inb \ Gone(c), d.inb, TRUE) /\ MovedOn(c.out \ Resolved(c), d.out, FALSE)
        /\ d.toSelf = c.toSelf + SumAmounts(Success(Gone(c))) - SumAmounts(Success(Resolved(c)))
        /\ d.pendAdds = c.pendAdds \cup {h.pay : h \in Arrived(c)}
        /\ d.pendFails = c.pendFails \cup {h.pay : h \in Resolved(c) \ Success(Resolved(c))}
    BY RevokedFields
  <1>3. Orderly(n, c) /\ c \in Channel
    BY NodeOrderly DEF Orderly
  <1>4. RevokedTo(c, d)
    BY <1>3, RevocationView
  <1>5. d.toSelf = c.toSelf
    <2>1. c.toSelf + 0 - 0 = c.toSelf
      BY <1>3 DEF Channel
    <2> QED
      BY <1>1, <1>2, <2>1, NoAmount
  <1>6. d.inb = {} /\ d.out = {}
    BY <1>2 DEF MovedOn, Tidy
  <1>7. d.pendAdds = {} /\ d.pendFails = {}
    BY <1>1, <1>2 DEF Tidy
  <1>8. /\ (d.localShut <=> c.localShut) /\ (d.remoteShut <=> c.remoteShut)
        /\ d.cell = c.cell /\ d.cpNum = c.cpNum + 1 /\ d.txs = c.txs
    BY <1>4 DEF RevokedTo
  <1>9. c.cpNum + 1 >= c.cpNum
    BY <1>3 DEF Channel
  <1> QED
    BY <1>2, <1>5, <1>6, <1>7, <1>8, <1>9 DEF Rests, Tidy, CleanerTxs

\* revoke_and_ack of a tidy channel, after the revocation was applied.
LEMMA TidyPaused ==
    ASSUME NEW n, NEW c \in Channel, Tidy(c), NEW d \in Channel, Rests(c, d), d.txs = c.txs, d = ApplyRevocation(c), NEW tight,
           NEW e, e = maybe_free_holding_cell_htlcs(n, d, tight), NEW r, r = revoke_and_ack(n, c, tight)
    PROVE  Rests(c, r.c) /\ r.failed = {}
  <1>1. Tidy(d)
    BY DEF Rests
  <1>2. NothingHeld(d)
    BY <1>1 DEF Tidy, NothingHeld
  <1>9. Unfreed(d, e)
    BY <1>2, FreeNothing
  <1>3. e.c = d /\ e.did = FALSE /\ e = [c |-> d, failed |-> {}, did |-> FALSE]
    BY <1>9 DEF Unfreed
  <1>4. ~RequireCommitment(c)
    BY DEF RequireCommitment, Tidy
  <1>5. r = [e EXCEPT !.c = monitor_updating_paused(@, FALSE, FALSE)]
    BY <1>3, <1>4 DEF revoke_and_ack
  <1>6. r.c = monitor_updating_paused(d, FALSE, FALSE) /\ r.failed = {}
    BY <1>3, <1>5
  <1>7. Rests(d, monitor_updating_paused(d, FALSE, FALSE))
    BY <1>1, RestsOnes
  <1>8. monitor_updating_paused(d, FALSE, FALSE).cpNum \in Int
    BY DEF monitor_updating_paused, Channel
  <1> QED
    BY <1>6, <1>7, <1>8, RestsAgain

\* revoke_and_ack of a tidy channel.
LEMMA TidyRevokes ==
    ASSUME NEW n \in Nodes, NEW c, NEW I \in [Payments -> Int], NEW S,
           NEW L \in SUBSET Payments, NEW C \in SUBSET Payments, NEW R \in SUBSET Payments,
           NodeOK(n, c, I, S, L, C, R), IdsUnique(I), c \in Channel, Tidy(c), NEW tight, NEW r, r = revoke_and_ack(n, c, tight)
    PROVE  Rests(c, r.c) /\ r.failed = {}
  <1>1. \A d : d = ApplyRevocation(c) => Rests(c, d) /\ d.txs = c.txs /\ d \in Channel
    BY TidyRevoked
  <1> QED
    BY <1>1, TidyPaused

\* commitment_signed of a tidy channel.
LEMMA TidySigned ==
    ASSUME NEW n, NEW c \in Channel, Tidy(c), NEW num, NEW tx, tx = build_commitment_transaction(n, c, num, FALSE),
           NEW f, f = commitment_signed_update_monitor(n, c, tx)
    PROVE  Rests(c, f)
  <1>1. tx.htlcs = {}
    BY DEF build_commitment_transaction, Tidy
  <1>2. ~NeedsCommitment(c)
    BY DEF NeedsCommitment, Tidy
  <1> DEFINE d == SignedFirst(c, tx)
  <1>3. f = monitor_updating_paused(d, TRUE, FALSE)
    BY <1>2, SignedSplit
  <1>4. Promote(c.inb, "RemoteAnnounced", "AwaitingRemoteRevokeToAnnounce") = {}
        /\ Promote(c.out, "RemoteRemoved", "AwaitingRemoteRevokeToRemove") = {}
    BY DEF Promote, Tidy
  <1>5. /\ d.localShut = c.localShut /\ d.remoteShut = c.remoteShut /\ d.inb = {} /\ d.out = {}
        /\ d.cell = c.cell /\ d.pendFails = c.pendFails /\ d.pendAdds = c.pendAdds
        /\ d.toSelf = c.toSelf /\ d.cpNum = c.cpNum /\ d.txs = [prev |-> c.txs.cur, cur |-> tx]
    BY <1>4 DEF SignedFirst, Channel
  <1>6. DOMAIN d = DOMAIN c
    BY DEF SignedFirst
  <1>7. /\ f.localShut = d.localShut /\ f.remoteShut = d.remoteShut /\ f.inb = d.inb /\ f.out = d.out
        /\ f.cell = d.cell /\ f.pendFails = d.pendFails /\ f.pendAdds = d.pendAdds
        /\ f.toSelf = d.toSelf /\ f.cpNum = d.cpNum /\ f.txs = d.txs
    BY <1>3, <1>6 DEF monitor_updating_paused, Channel, SignedFirst
  <1>8. c.cpNum >= c.cpNum
    BY DEF Channel
  <1>9. f.txs.prev = c.txs.cur /\ f.txs.cur.htlcs = {}
    <2>1. f.txs = [prev |-> c.txs.cur, cur |-> tx]
      BY <1>5, <1>7
    <2> QED
      BY ONLY <1>1, <2>1
  <1>10. /\ f.localShut /\ f.remoteShut /\ f.inb = {} /\ f.out = {} /\ f.cell = <<>>
         /\ f.pendFails = {} /\ f.pendAdds = {} /\ f.toSelf = c.toSelf /\ f.cpNum >= c.cpNum
    BY <1>5, <1>7, <1>8 DEF Tidy
  <1> HIDE DEF d
  <1> QED
    BY <1>9, <1>10 DEF Rests, Tidy, CleanerTxs

\* A closing fee is answered.
LEMMA TidyAnswers ==
    ASSUME NEW n, NEW c \in Channel, Tidy(c), NEW m, NEW fee
    PROVE  Rests(c, AnswerClosing(n, c, m, fee).c)
  BY RestsOnes DEF AnswerClosing

-----------------------------------------------------------------------------
(* The steps of a node whose channel is tidy.                              *)

\* What the payers were told is not taken back.
ToldGrows == \A p \in Payments : told[p] \subseteq told'[p]

\* Telling adds to it.
LEMMA TellsGrow ==
    /\ told' = told => ToldGrows
    /\ \A G, o : Tells(G, o) => ToldGrows
  BY DEF ToldGrows, Tells

\* A node with a tidy channel moves: it stays tidy, and nobody starts or is handed a payment.
Settling(n) ==
    /\ Rests(ch[n], ch'[n]) /\ \E f : Becomes(n, f)
    /\ claimable' = claimable /\ started' = started /\ ToldGrows

\* The channel of the node that moves.
LEMMA BecomesIs ==
    ASSUME NEW I, Before(I), NEW n \in Nodes, NEW f, Becomes(n, f)
    PROVE  /\ ch'[n] = f /\ \A m \in Nodes : m # n => ch'[m] = ch[m]
           /\ ch'[Peer(n)] = ch[Peer(n)]
  <1>1. ch = [m \in Nodes |-> ch[m]]
    BY DEF Before, Decision
  <1> QED
    BY <1>1, PeerFacts DEF Becomes

\* A tidy channel that rests in a step.
LEMMA Settle ==
    ASSUME NEW I, Before(I), NEW n \in Nodes, NEW f, Becomes(n, f), Rests(ch[n], f),
           claimable' = claimable, started' = started, ToldGrows
    PROVE  Settling(n)
  BY BecomesIs DEF Settling

\* Messages that a tidy channel takes.
LEMMA TidyReceives ==
    ASSUME NEW I, Before(I), NEW n \in Nodes, Tidy(ch[n]), Receive(n), ~MessageAfterClose(n)
    PROVE  Settling(n)
  <1> DEFINE c == ch[n]
  <1>1. /\ NodeOK(n, c, I, started, claimable, claimed, refused) /\ c \in Channel
        /\ I \in [Payments -> Int] /\ IdsUnique(I)
        /\ claimable \in SUBSET Payments /\ claimed \in SUBSET Payments /\ refused \in SUBSET Payments
    BY NodeFacts DEF Before
  <1>2. Rests(c, c) /\ \A why : Rests(c, Ends(c, why))
    BY <1>1, RestsOnes
  <1>3. CASE UpdateAddHtlc(n)
    <2>1. c.remoteShut
      BY DEF Tidy
    <2>2. Becomes(n, Ends(c, "add_after_shutdown")) /\ UNCHANGED payVars
      BY <1>3, <2>1 DEF UpdateAddHtlc
    <2> QED
      BY <1>2, <2>2, Settle, TellsGrow DEF payVars
  <1>4. ASSUME NEW id, NEW o PROVE RemoteRemove(c, id, o) = Ends(c, "removed_twice")
    BY DEF RemoteRemove, Tidy
  <1>5. CASE UpdateFulfillHtlc(n)
    <2>1. PICK f : Becomes(n, f) /\ (f = Ends(c, "reestablish") \/ f = RemoteRemove(c, Head(net[n]).id, "fulfil"))
      BY <1>5 DEF UpdateFulfillHtlc
    <2>2. Rests(c, f)
      BY <1>2, <1>4, <2>1
    <2>3. ToldGrows /\ claimable' = claimable /\ started' = started
      BY <1>5, TellsGrow DEF UpdateFulfillHtlc
    <2> QED
      BY <2>1, <2>2, <2>3, Settle
  <1>6. CASE UpdateFailHtlc(n)
    <2>1. PICK f : Becomes(n, f) /\ (f = Ends(c, "reestablish") \/ f = RemoteRemove(c, Head(net[n]).id, "fail"))
      BY <1>6 DEF UpdateFailHtlc
    <2>2. Rests(c, f)
      BY <1>2, <1>4, <2>1
    <2>3. ToldGrows /\ claimable' = claimable /\ started' = started
      BY <1>6, TellsGrow DEF UpdateFailHtlc, payVars
    <2> QED
      BY <2>1, <2>2, <2>3, Settle
  <1>7. CASE CommitmentSigned(n)
    <2> DEFINE tx == build_commitment_transaction(n, c, c.holderNum, FALSE)
    <2>1. PICK f : Becomes(n, f) /\ ((\E why : f = Ends(c, why)) \/ f = commitment_signed_update_monitor(n, c, tx))
      BY <1>7 DEF CommitmentSigned
    <2>2. Rests(c, commitment_signed_update_monitor(n, c, tx))
      BY <1>1, TidySigned
    <2>3. Rests(c, f)
      BY <1>2, <2>1, <2>2
    <2>4. ToldGrows /\ claimable' = claimable /\ started' = started
      BY <1>7, TellsGrow DEF CommitmentSigned, payVars
    <2> QED
      BY <2>1, <2>3, <2>4, Settle
  <1>8. CASE RevokeAndAck(n)
    <2>1. PICK f : Becomes(n, f) /\ ((\E why : f = Ends(c, why)) \/ \E tight : f = revoke_and_ack(n, c, tight).c)
      BY <1>8 DEF RevokeAndAck
    <2>2. \A tight : Rests(c, revoke_and_ack(n, c, tight).c)
      BY <1>1, TidyRevokes
    <2>3. Rests(c, f)
      BY <1>2, <2>1, <2>2
    <2>4. ToldGrows /\ claimable' = claimable /\ started' = started
      BY <1>8, TellsGrow DEF RevokeAndAck
    <2> QED
      BY <2>1, <2>3, <2>4, Settle
  <1>9. CASE ChannelReestablish(n)
    <2>1. PICK f : Becomes(n, f) /\ \/ \E why : f = Ends(c, why)
                                    \/ \E x, y : f = [c EXCEPT !.disc = FALSE, !.pendRaa = x, !.pendCs = y]
      <3> DEFINE m == Head(net[n])
                 d == [c EXCEPT !.disc = FALSE,
                            !.pendRaa = @ \/ ((m.nextRemote + 1 = c.holderNum - 1) /\ c.monBusy),
                            !.pendCs = @ \/ ((m.nextLocal + 1 = c.cpNum + (IF c.awaitRaa THEN 1 ELSE 0)) /\ c.monBusy)]
      <3>1. Becomes(n, Ends(c, ReestablishError(c, m))) \/ Becomes(n, d)
        BY <1>9 DEF ChannelReestablish
      <3>2. \E x, y : d = [c EXCEPT !.disc = FALSE, !.pendRaa = x, !.pendCs = y]
        OBVIOUS
      <3> HIDE DEF d
      <3> QED
        BY <3>1, <3>2
    <2>2. \A x, y : Rests(c, [c EXCEPT !.disc = FALSE, !.pendRaa = x, !.pendCs = y])
      BY <1>1, RestsOnes
    <2>3. Rests(c, f)
      <3>1. CASE \E why : f = Ends(c, why)
        BY <1>2, <3>1
      <3>2. CASE \E x, y : f = [c EXCEPT !.disc = FALSE, !.pendRaa = x, !.pendCs = y]
        <4>1. PICK x, y : f = [c EXCEPT !.disc = FALSE, !.pendRaa = x, !.pendCs = y]
          BY <3>2
        <4>2. Rests(c, [c EXCEPT !.disc = FALSE, !.pendRaa = x, !.pendCs = y])
          BY <2>2
        <4> QED
          BY <4>1, <4>2
      <3> QED
        BY <2>1, <3>1, <3>2
    <2>4. ToldGrows /\ claimable' = claimable /\ started' = started
      BY <1>9, TellsGrow DEF ChannelReestablish, payVars
    <2> QED
      BY <2>1, <2>3, <2>4, Settle
  <1>10. CASE ShutdownReceived(n)
    <2>1. PICK f : Becomes(n, f) /\ \/ \E why : f = Ends(c, why)
                                    \/ f = [c EXCEPT !.remoteShut = TRUE, !.localShut = TRUE, !.cell = WithoutAdds(@)]
      BY <1>10 DEF ShutdownReceived
    <2>2. ASSUME f = [c EXCEPT !.remoteShut = TRUE, !.localShut = TRUE, !.cell = WithoutAdds(@)]
          PROVE  Rests(c, f)
      <3>1. WithoutAdds(c.cell) = <<>> /\ c.cell = <<>> /\ c.localShut /\ c.remoteShut
        BY WithoutNothing DEF Tidy
      <3>2. /\ f.localShut /\ f.remoteShut
            /\ f.inb = c.inb /\ f.out = c.out /\ f.cell = WithoutAdds(c.cell) /\ f.pendFails = c.pendFails /\ f.pendAdds = c.pendAdds
            /\ f.toSelf = c.toSelf /\ f.cpNum = c.cpNum /\ f.txs = c.txs
        BY <1>1, <2>2 DEF Channel
      <3>3. SameTidy(c, f)
        BY <3>1, <3>2 DEF SameTidy
      <3> QED
        BY <1>1, <3>3, RestsSame
    <2>3. Rests(c, f)
      BY <1>2, <2>1, <2>2
    <2>4. ToldGrows /\ claimable' = claimable /\ started' = started
      BY <1>10, TellsGrow DEF ShutdownReceived
    <2> QED
      BY <2>1, <2>3, <2>4, Settle
  <1>11. CASE ClosingSigned(n)
    <2>1. PICK f : Becomes(n, f) /\ \/ \E why : f = Ends(c, why)
                                    \/ \E x : f = [c EXCEPT !.pendClosing = x]
                                    \/ \E m, fee : f = AnswerClosing(n, c, m, fee).c
      BY <1>11 DEF ClosingSigned
    <2>2. /\ \A x : Rests(c, [c EXCEPT !.pendClosing = x])
          /\ \A m, fee : Rests(c, AnswerClosing(n, c, m, fee).c)
      BY <1>1, RestsOnes, TidyAnswers
    <2>3. Rests(c, f)
      BY <1>2, <2>1, <2>2
    <2>4. ToldGrows /\ claimable' = claimable /\ started' = started
      BY <1>11, TellsGrow DEF ClosingSigned, payVars
    <2> QED
      BY <2>1, <2>3, <2>4, Settle
  <1> QED
    BY <1>3, <1>5, <1>6, <1>7, <1>8, <1>9, <1>10, <1>11 DEF Receive

\* What the manager and the user do with a tidy channel.
LEMMA TidyManages ==
    ASSUME NEW I, Before(I), NEW n \in Nodes, Tidy(ch[n]), Manager(n) \/ User(n)
    PROVE  Settling(n)
  <1> DEFINE c == ch[n]
  <1>1. c \in Channel
    BY NodeFacts DEF Before
  <1>2. CASE MonitorRestored(n)
    <2> DEFINE f == [c EXCEPT !.monBusy = FALSE, !.pendRaa = FALSE, !.pendCs = FALSE,
                              !.pendAdds = {}, !.pendFails = {}]
    <2>1. Becomes(n, f)
      BY <1>2 DEF MonitorRestored
    <2>2. Rests(c, f)
      BY <1>1, RestsOnes
    <2>3. ToldGrows /\ claimable' = claimable /\ started' = started
      BY <1>2, TellsGrow DEF MonitorRestored, Tidy
    <2> HIDE DEF f
    <2> QED
      BY <2>1, <2>2, <2>3, Settle
  <1>3. ~FreeHoldingCells(n)
    BY DEF FreeHoldingCells, Tidy
  <1>4. CASE ProposeClosing(n)
    <2>1. Becomes(n, [c EXCEPT !.feeSent = 1])
      BY <1>4 DEF ProposeClosing
    <2>2. Rests(c, [c EXCEPT !.feeSent = 1])
      BY <1>1, RestsOnes
    <2>3. ToldGrows /\ claimable' = claimable /\ started' = started
      BY <1>4, TellsGrow DEF ProposeClosing, payVars
    <2> QED
      BY <2>1, <2>2, <2>3, Settle
  <1>5. CASE AnswerDeferredClosing(n)
    <2> DEFINE e == [c EXCEPT !.pendClosing = NoClosing]
    <2>1. PICK m, fee : Becomes(n, AnswerClosing(n, e, m, fee).c)
      BY <1>5 DEF AnswerDeferredClosing
    <2>2. Rests(c, e) /\ e \in Channel /\ e.txs = c.txs
      BY <1>1, RestsOnes DEF Channel
    <2>3. Tidy(e)
      BY <2>2 DEF Rests
    <2> DEFINE f == AnswerClosing(n, e, m, fee).c
    <2>4. Rests(e, f)
      <3> HIDE DEF e
      <3> QED
        BY <2>2, <2>3, TidyAnswers
    <2>5. f.cpNum \in Int
      <3>1. e.cpNum \in Int /\ Ends(e, "closing_signature").cpNum = e.cpNum /\ Ends(e, "closed").cpNum = e.cpNum
            /\ \A x, y : [e EXCEPT !.feeSent = x, !.fate = y].cpNum = e.cpNum
        BY <2>2 DEF Channel, Ends
      <3> HIDE DEF e
      <3> QED
        BY <3>1 DEF AnswerClosing
    <2>6. Rests(c, f)
      <3> HIDE DEF e, f
      <3> QED
        BY <1>1, <2>2, <2>4, <2>5, RestsAgain
    <2>7. ToldGrows /\ claimable' = claimable /\ started' = started
      BY <1>5, TellsGrow DEF AnswerDeferredClosing, payVars
    <2> HIDE DEF f
    <2> QED
      BY <2>1, <2>6, <2>7, Settle DEF f
  <1>6. ASSUME NEW p, SendPayment(n, p) PROVE FALSE
    BY <1>6 DEF SendPayment, SendRefused, Tidy
  <1>7. ASSUME NEW p, ClaimFunds(n, p) PROVE FALSE
    BY <1>7 DEF ClaimFunds, Tidy
  <1>8. ASSUME NEW p, FailBackwards(n, p) PROVE FALSE
    BY <1>8 DEF FailBackwards, Tidy
  <1>9. ~CloseChannel(n)
    BY DEF CloseChannel, Tidy
  <1> QED
    BY <1>2, <1>3, <1>4, <1>5, <1>6, <1>7, <1>8, <1>9 DEF Manager, User

\* A tidy channel whose connection is lost.
LEMMA TidyDrops ==
    ASSUME NEW c \in Channel, Tidy(c)
    PROVE  Rests(c, remove_uncommitted_htlcs_and_mark_paused(c))
  <1> DEFINE f == remove_uncommitted_htlcs_and_mark_paused(c)
  <1>1. CASE c.disc
    BY <1>1, RestsOnes DEF remove_uncommitted_htlcs_and_mark_paused, UncommittedRemoved
  <1>2. CASE ~c.disc
    <2>1. /\ f.localShut = c.localShut /\ f.remoteShut = c.remoteShut
          /\ f.cell = c.cell /\ f.pendFails = c.pendFails /\ f.pendAdds = c.pendAdds
          /\ f.toSelf = c.toSelf /\ f.cpNum = c.cpNum /\ f.txs = c.txs
      BY <1>2 DEF remove_uncommitted_htlcs_and_mark_paused, UncommittedRemoved, Channel
    <2>2. f.inb = c.inb /\ f.out = c.out
      <3>1. f.inb = c.inb \ {h \in c.inb : h.st = "RemoteAnnounced"}
            /\ f.out = {IF h.st = "RemoteRemoved" THEN [h EXCEPT !.st = "Committed", !.out = "none"] ELSE h : h \in c.out}
        BY <1>2 DEF remove_uncommitted_htlcs_and_mark_paused, UncommittedRemoved, Channel
      <3> HIDE DEF f
      <3> QED
        BY <3>1 DEF Tidy
    <2> HIDE DEF f
    <2>3. SameTidy(c, f)
      BY <2>1, <2>2 DEF SameTidy
    <2> QED
      BY <2>3, RestsSame DEF f
  <1> QED
    BY <1>1, <1>2

-----------------------------------------------------------------------------
(* A settled channel stays settled.                                        *)

\* No commitment of n's node that d's has not seen revoked pays an HTLC of d's.
Clean(n, c, d) ==
    /\ c.txs.cur.htlcs = {}
    /\ c.txs.prev.num >= d.cpNum - 1 => \A p \in c.txs.prev.htlcs : PayFrom[p] = n

\* Both channels are tidy, no commitment pays an HTLC, nothing can be claimed and every payer was told.
Settled(K, L, S, T) ==
    /\ \A n \in Nodes : Tidy(K[n]) /\ Clean(n, K[n], K[Peer(n)])
    /\ L = {} /\ \A p \in S : T[p] # {}

\* What a node of a settled channel does keeps the commitments clean.
LEMMA CleanStays ==
    ASSUME NEW n, NEW c \in Channel, NEW d \in Channel, NEW f, NEW g, Rests(c, f) \/ f = c, Rests(d, g) \/ g = d, Clean(n, c, d),
           f.cpNum \in Int, g.cpNum \in Int
    PROVE  Clean(n, f, g)
  <1>1. CleanerTxs(c, f) /\ g.cpNum >= d.cpNum
    <2>1. d.cpNum \in Int
      BY DEF Channel
    <2> QED
      BY <2>1 DEF Rests, CleanerTxs
  <1>2. \A x \in Int : x >= g.cpNum - 1 => x >= d.cpNum - 1
    <2>1. d.cpNum \in Int
      BY DEF Channel
    <2>2. \A i, j, x \in Int : i >= j /\ x >= i - 1 => x >= j - 1
      OBVIOUS
    <2> QED
      BY <1>1, <2>1, <2>2
  <1>3. c.txs.prev.num \in Int
    BY DEF Channel, Txs
  <1>4. CASE f.txs = c.txs
    BY <1>2, <1>3, <1>4 DEF Clean
  <1>5. CASE f.txs.prev = c.txs.cur /\ f.txs.cur.htlcs = {}
    BY <1>5 DEF Clean
  <1> QED
    BY <1>1, <1>4, <1>5 DEF CleanerTxs

\* A settled channel stays settled.
LEMMA SettledKept ==
    ASSUME NEW I, Before(I), NEW J, Then(J), Settled(ch, claimable, started, told),
           \A n \in Nodes : Rests(ch[n], ch'[n]) \/ ch'[n] = ch[n],
           claimable' = claimable, started' = started, ToldGrows
    PROVE  Settled(ch', claimable', started', told')
  <1>1. ASSUME NEW n \in Nodes PROVE ch[n] \in Channel /\ ch'[n] \in Channel
    BY NodeFacts DEF Before, Then
  <1>2. ASSUME NEW n \in Nodes PROVE Tidy(ch'[n])
    BY <1>2 DEF Rests, Settled
  <1>3. ASSUME NEW n \in Nodes PROVE Clean(n, ch'[n], ch'[Peer(n)])
    <2>1. Peer(n) \in Nodes
      BY PeerFacts
    <2>2. Clean(n, ch[n], ch[Peer(n)])
      BY DEF Settled
    <2>3. ch'[n].cpNum \in Int /\ ch'[Peer(n)].cpNum \in Int
      BY <1>1, <2>1 DEF Channel
    <2>4. /\ ch[n] \in Channel /\ ch[Peer(n)] \in Channel
          /\ Rests(ch[n], ch'[n]) \/ ch'[n] = ch[n]
          /\ Rests(ch[Peer(n)], ch'[Peer(n)]) \/ ch'[Peer(n)] = ch[Peer(n)]
      BY <1>1, <2>1
    <2> QED
      BY <2>2, <2>3, <2>4, CleanStays
  <1>4. started \subseteq Payments
    BY DEF Before, Decision
  <1>5. \A p \in started' : told'[p] # {}
    BY <1>4 DEF Settled, ToldGrows
  <1> QED
    BY <1>2, <1>3, <1>5 DEF Settled

\* Every step keeps it.
LEMMA SettledStays ==
    ASSUME NEW I, Before(I), NEW J, Then(J), Settled(ch, claimable, started, told), Next
    PROVE  Settled(ch', claimable', started', told')
  <1>1. ch = [m \in Nodes |-> ch[m]]
    BY DEF Before, Decision
  <1>2. CASE Disconnect
    <2>1. ASSUME NEW n \in Nodes PROVE Rests(ch[n], ch'[n]) \/ ch'[n] = ch[n]
      <3>1. ch'[n] = remove_uncommitted_htlcs_and_mark_paused(ch[n]) \/ ch'[n] = ch[n]
        BY <1>2 DEF Disconnect
      <3>2. ch[n] \in Channel
        BY NodeFacts DEF Before
      <3>3. Tidy(ch[n])
        BY DEF Settled
      <3> QED
        BY <3>1, <3>2, <3>3, TidyDrops
    <2>2. claimable' = claimable /\ started' = started /\ ToldGrows
      BY <1>2, TellsGrow DEF Disconnect, payVars
    <2> QED
      BY <2>1, <2>2, SettledKept
  <1>3. CASE ch' = ch /\ UNCHANGED payVars
    <2>1. claimable' = claimable /\ started' = started /\ ToldGrows
      BY <1>3, TellsGrow DEF payVars
    <2> QED
      BY <1>3, <2>1, SettledKept
  <1>4. ASSUME NEW n \in Nodes, Receive(n) \/ Manager(n) \/ User(n), ~MessageAfterClose(n)
        PROVE  Settled(ch', claimable', started', told')
    <2>1. Tidy(ch[n])
      BY DEF Settled
    <2>2. Settling(n)
      BY <1>4, <2>1, TidyReceives, TidyManages
    <2>3. \A m \in Nodes : m # n => ch'[m] = ch[m]
      BY <2>2, BecomesIs DEF Settling
    <2> QED
      BY <2>2, <2>3, SettledKept DEF Settling
  <1> QED
    BY <1>2, <1>3, <1>4 DEF Next, Reconnect, MessageAfterClose

\* A settled channel is as safe as one in step.
LEMMA SettledSafe ==
    ASSUME NEW K, NEW L, NEW S, NEW T, Settled(K, L, S, T)
    PROVE  LockedIn(K, L) /\ GoneFrom(K, T)
  <1>1. LockedIn(K, L)
    BY DEF Settled, LockedIn
  <1>2. ASSUME NEW p \in Payments
        PROVE  /\ p \notin K[PayFrom[p]].txs.cur.htlcs
               /\ p \notin K[PayTo(p)].txs.cur.htlcs
               /\ K[PayTo(p)].txs.prev.num >= K[PayFrom[p]].cpNum - 1 => p \notin K[PayTo(p)].txs.prev.htlcs
    <2>1. PayFrom[p] \in Nodes /\ PayTo(p) \in Nodes /\ Peer(PayTo(p)) = PayFrom[p]
      BY PeerFacts DEF PayTo
    <2>2. Clean(PayFrom[p], K[PayFrom[p]], K[Peer(PayFrom[p])]) /\ Clean(PayTo(p), K[PayTo(p)], K[PayFrom[p]])
          /\ PayFrom[p] # PayTo(p)
      BY <2>1, PeerFacts DEF Settled
    <2> QED
      BY <2>2 DEF Clean
  <1>3. GoneFrom(K, T)
    BY <1>2 DEF GoneFrom
  <1> QED
    BY <1>1, <1>3

\* The balances of two nodes with nothing under way add up.
LEMMA SplitsAgree ==
    ASSUME NEW I, Before(I), NEW n \in Nodes, NEW m \in Nodes, m = Peer(n),
           Balance(n, ch[n], claimed), Balance(m, ch[m], claimed),
           ch[n].inb = {}, ch[n].out = {}, ch[m].inb = {}, ch[m].out = {}
    PROVE  ch[n].toSelf + ch[m].toSelf = Funding /\ Split(n, ch[n]) = Split(m, ch[m])
  <1> DEFINE A == {p \in claimed : PayTo(p) = n}
             B == {p \in claimed : PayFrom[p] = n}
  <1>1. /\ claimed \subseteq Payments /\ IsFiniteSet(claimed)
        /\ \A X : X \subseteq claimed => X \subseteq Payments /\ IsFiniteSet(X)
    BY ClaimedFacts DEF Before
  <1>2. m # n /\ Peer(m) = n /\ \A p \in Payments : (PayTo(p) = n <=> PayFrom[p] = m) /\ (PayTo(p) = m <=> PayFrom[p] = n)
    BY PeerFacts
  <1>3. CreditedTo(n, ch[n], claimed) = A /\ DebitedTo(n, ch[n], claimed) = B
    BY DEF CreditedTo, DebitedTo, Pays
  <1>4. CreditedTo(m, ch[m], claimed) = B /\ DebitedTo(m, ch[m], claimed) = A
    BY <1>1, <1>2 DEF CreditedTo, DebitedTo, Pays
  <1>5. Worth(A) \in Int /\ Worth(B) \in Int
    <2>1. A \subseteq claimed /\ B \subseteq claimed
      OBVIOUS
    <2> HIDE DEF A, B
    <2> QED
      BY <1>1, <2>1, WorthAdds
  <1> HIDE DEF A, B
  <1>6. /\ ch[n].toSelf = Start(n) + Worth(A) - Worth(B)
        /\ ch[m].toSelf = Start(m) + Worth(B) - Worth(A)
    BY <1>3, <1>4 DEF Balance
  <1>7. Start(n) + Start(m) = Funding /\ Start(n) \in Int /\ Start(m) \in Int /\ Funding \in Int
    BY <1>2, ChannelAssumption DEF Start, Nodes, Peer
  <1>8. ch[n].toSelf + ch[m].toSelf = Funding /\ ch[n].toSelf \in Int /\ ch[m].toSelf \in Int
    BY <1>5, <1>6, <1>7
  <1>9. Funding - ch[n].toSelf = ch[m].toSelf /\ Funding - ch[m].toSelf = ch[n].toSelf
    BY <1>7, <1>8
  <1>10. \A x \in Nodes : x = n \/ x = m
    BY <1>2, PeerFacts
  <1>11. Split(n, ch[n]) = Split(m, ch[m])
    BY <1>2, <1>9, <1>10 DEF Split
  <1> QED
    BY <1>8, <1>11

\* A settled channel agrees on the split.
LEMMA SettledAgrees ==
    ASSUME NEW I, Before(I), \A n \in Nodes : Balance(n, ch[n], claimed), Settled(ch, claimable, started, told)
    PROVE  CloseAgrees
  <1>1. Opener \in Nodes /\ Acceptor \in Nodes /\ Acceptor = Peer(Opener)
    BY DEF Nodes, Peer
  <1>2. \A n \in Nodes : ch[n].inb = {} /\ ch[n].out = {} /\ ch[n].cell = <<>>
    BY DEF Settled, Tidy
  <1>3. Split(Opener, ch[Opener]) = Split(Acceptor, ch[Acceptor])
    BY <1>1, <1>2, SplitsAgree
  <1>4. \A p \in started : told[p] # {}
    BY DEF Settled
  <1> QED
    BY <1>2, <1>3, <1>4 DEF CloseAgrees

-----------------------------------------------------------------------------
(* What a node owes its user.                                              *)

\* A node that has sent its shutdown has given up the additions that waited, and what a monitor update holds back
\* is forgotten when it is durable.
Modest(c) ==
    /\ c.localShut => AddsIn(c) = {}
    /\ ~c.monBusy => c.pendFails = {} /\ c.pendAdds = {}

\* p waits to be offered, is offered, or its failure waits to be reported.
Underway(c, p) == p \in AddsIn(c) \/ OutSt(c, p) # "none" \/ p \in c.pendFails

\* The user of n's node was told of what is not under way any more.
Heard(n, c, S, T) == \A p \in S : PayFrom[p] = n => Underway(c, p) \/ T[p] # {}

\* The user was told of a claimed payment when its HTLC was removed.
Sure(c, C, T) == \A p \in C : OutSt(c, p) \in Removing => T[p] # {}

\* What n's node owes its user before the channel is closed.
Polite(n, c, S, C, T) == Modest(c) /\ Heard(n, c, S, T) /\ Sure(c, C, T)

\* A step from c to f keeps it.
ModestStep(c, f) == Modest(c) => Modest(f)

\* Payments under way stay so, or the user is told.
HeardStep(c, f, T2) == \A p \in Payments : Underway(c, p) => Underway(f, p) \/ T2[p] # {}

\* HTLCs are not removed without telling the user.
SureStep(c, f, C2, T2) == \A p \in C2 : OutSt(f, p) \in Removing => OutSt(c, p) \in Removing \/ T2[p] # {}

\* All three.
PoliteStep(c, f, C2, T2) == ModestStep(c, f) /\ HeardStep(c, f, T2) /\ SureStep(c, f, C2, T2)

\* A payment that was not decided on is not being removed.
LEMMA UndecidedStays ==
    ASSUME NEW I, Before(I), NEW n \in Nodes, NEW p \in Payments, p \notin claimed, p \notin refused
    PROVE  OutSt(ch[n], p) \notin Removing
  <1>1. NodeOK(n, ch[n], I, started, claimable, claimed, refused) /\ I \in [Payments -> Int] /\ IdsUnique(I)
        /\ claimable \in SUBSET Payments /\ claimed \in SUBSET Payments /\ refused \in SUBSET Payments
    BY NodeFacts DEF Before
  <1>4. OutsAre(n, ch[n], I)
    BY <1>1, NodeSides
  <1>2. OutSt(ch[n], p) # "none" => \E h \in ch[n].out : h.pay = p /\ h.st = OutSt(ch[n], p)
    BY <1>4 DEF OutsAre
  <1>3. \A h \in ch[n].out : h.st \in Removing => Decided(h, claimed, refused)
    BY <1>1 DEF NodeOK, OutOK, Removing
  <1> QED
    BY <1>2, <1>3 DEF Decided, Removing

\* The node that moves stays polite.
LEMMA MoverPolite ==
    ASSUME NEW I, Before(I), NEW n \in Nodes, NEW c, c = ch[n], Polite(n, c, started, claimed, told), ToldGrows,
           NEW f, PoliteStep(c, f, claimed', told'), claimed' \subseteq Payments,
           \A p \in claimed' : p \in claimed \/ p \in claimable,
           \A p \in started' : p \in started \/ (p \in Payments /\ Underway(f, p))
    PROVE  Polite(n, f, started', claimed', told')
  <1>1. started \subseteq Payments /\ claimed \subseteq Payments
    BY DEF Before, Decision, DecidedOK
  <1>2. Modest(f)
    BY DEF Polite, PoliteStep, ModestStep
  <1>3. \A p \in Payments : told[p] # {} => told'[p] # {}
    BY DEF ToldGrows
  <1>4. Heard(n, f, started', told')
    BY <1>1, <1>3 DEF Polite, Heard, PoliteStep, HeardStep
  <1>5. \A p \in claimed' : p \notin claimed => OutSt(c, p) \notin Removing
    <2>1. claimable \cap claimed = {} /\ claimable \cap refused = {}
      BY DEF Before, Decision, DecidedOK
    <2> QED
      BY <2>1, UndecidedStays
  <1>6. Sure(f, claimed', told')
    BY <1>3, <1>5 DEF Polite, Sure, PoliteStep, SureStep
  <1> QED
    BY <1>2, <1>4, <1>6 DEF Polite

\* So does its peer, whose channel stays as it is.
LEMMA PeerPolite ==
    ASSUME NEW I, Before(I), NEW m \in Nodes, Polite(m, ch[m], started, claimed, told), ToldGrows,
           claimed' \subseteq Payments, \A p \in claimed' : p \in claimed \/ p \in claimable,
           \A p \in started' : p \in started \/ PayFrom[p] # m
    PROVE  Polite(m, ch[m], started', claimed', told')
  <1>1. started \subseteq Payments /\ claimed \subseteq Payments
    BY DEF Before, Decision, DecidedOK
  <1>3. \A p \in Payments : told[p] # {} => told'[p] # {}
    BY DEF ToldGrows
  <1>4. Heard(m, ch[m], started', told')
    BY <1>1, <1>3 DEF Polite, Heard
  <1>5. \A p \in claimed' : p \notin claimed => OutSt(ch[m], p) \notin Removing
    <2>1. claimable \cap claimed = {} /\ claimable \cap refused = {}
      BY DEF Before, Decision, DecidedOK
    <2> QED
      BY <2>1, UndecidedStays
  <1>6. Sure(ch[m], claimed', told')
    BY <1>3, <1>5 DEF Polite, Sure
  <1> QED
    BY <1>4, <1>6 DEF Polite

\* A step that leaves what is under way alone.
LEMMA StillPolite ==
    ASSUME NEW c, NEW f, f.out = c.out, f.cell = c.cell, f.pendFails = c.pendFails, f.pendAdds = c.pendAdds,
           f.localShut <=> c.localShut, c.monBusy => f.monBusy, NEW C2, NEW T2
    PROVE  PoliteStep(c, f, C2, T2)
  <1>1. AddsIn(f) = AddsIn(c) /\ \A p : OutSt(f, p) = OutSt(c, p)
    BY DEF AddsIn, CellAdds, OutSt
  <1> QED
    BY <1>1 DEF PoliteStep, ModestStep, Modest, HeardStep, Underway, SureStep

\* The same, with HTLCs that move on.
LEMMA OnwardPolite ==
    ASSUME NEW c, NEW f, \A p \in Payments : OutSt(c, p) # "none" => OutSt(f, p) # "none",
           NEW C2, C2 \subseteq Payments, NEW T2,
           \A p \in C2 : OutSt(f, p) \in Removing => OutSt(c, p) \in Removing \/ T2[p] # {},
           f.cell = c.cell, f.pendFails = c.pendFails, f.pendAdds = c.pendAdds,
           f.localShut <=> c.localShut, c.monBusy => f.monBusy
    PROVE  PoliteStep(c, f, C2, T2)
  <1>1. AddsIn(f) = AddsIn(c)
    BY DEF AddsIn, CellAdds
  <1> QED
    BY <1>1 DEF PoliteStep, ModestStep, Modest, HeardStep, Underway, SureStep

-----------------------------------------------------------------------------
(* Steps that keep what the users are owed.                                *)

\* Payments are started by n, and claimed out of those handed on.
Books(n, f) ==
    /\ ToldGrows /\ claimed' \subseteq Payments /\ \A p \in claimed' : p \in claimed \/ p \in claimable
    /\ \A p \in started' : p \in started \/ (p \in Payments /\ PayFrom[p] = n /\ Underway(f, p))

\* n's node takes a step and stays polite.
Civil(n) == \E f : Becomes(n, f) /\ PoliteStep(ch[n], f, claimed', told') /\ Books(n, f)

\* n's node is done with the channel.
Over(n) == \E f : Becomes(n, f) /\ f.fate # "open"

\* A civil step keeps both nodes polite.
LEMMA CivilPolite ==
    ASSUME NEW I, Before(I), NEW n \in Nodes, Civil(n), \A m \in Nodes : Polite(m, ch[m], started, claimed, told)
    PROVE  \A m \in Nodes : Polite(m, ch'[m], started', claimed', told')
  <1>1. PICK f : Becomes(n, f) /\ PoliteStep(ch[n], f, claimed', told') /\ Books(n, f)
    BY DEF Civil
  <1>2. ch'[n] = f /\ \A m \in Nodes : m # n => ch'[m] = ch[m]
    BY <1>1, BecomesIs
  <1>3. /\ ToldGrows /\ claimed' \subseteq Payments /\ \A p \in claimed' : p \in claimed \/ p \in claimable
        /\ \A p \in started' : p \in started \/ (p \in Payments /\ PayFrom[p] = n /\ Underway(f, p))
    BY <1>1 DEF Books
  <1>4. Polite(n, f, started', claimed', told')
    <2>1. \A p \in started' : p \in started \/ (p \in Payments /\ Underway(f, p))
      BY <1>3
    <2> QED
      BY <1>1, <1>3, <2>1, MoverPolite
  <1>5. ASSUME NEW m \in Nodes, m # n PROVE Polite(m, ch[m], started', claimed', told')
    <2>1. \A p \in started' : p \in started \/ PayFrom[p] # m
      BY <1>3, <1>5
    <2> QED
      BY <1>3, <2>1, PeerPolite
  <1> QED
    BY <1>2, <1>4, <1>5

\* A step that starts and decides nothing.
LEMMA PlainBooks ==
    ASSUME NEW I, Before(I), NEW n, NEW f, started' = started, claimed' = claimed, ToldGrows
    PROVE  Books(n, f)
  <1>1. claimed \subseteq Payments
    BY DEF Before, Decision, DecidedOK
  <1> QED
    BY <1>1 DEF Books

\* The same, and the user hears nothing.
LEMMA SilentBooks ==
    ASSUME NEW I, Before(I), NEW n, NEW f, UNCHANGED payVars
    PROVE  Books(n, f)
  <1>1. started' = started /\ claimed' = claimed /\ ToldGrows
    BY TellsGrow DEF payVars
  <1> QED
    BY <1>1, PlainBooks

\* What leaves the payments under way alone.
Inert(c, f) ==
    /\ f.out = c.out /\ f.cell = c.cell /\ f.pendFails = c.pendFails /\ f.pendAdds = c.pendAdds
    /\ (f.localShut <=> c.localShut) /\ (c.monBusy => f.monBusy)

\* A step that changes nothing of what is under way.
LEMMA InertCivil ==
    ASSUME NEW I, Before(I), NEW n, NEW f, Becomes(n, f), Inert(ch[n], f), UNCHANGED payVars
    PROVE  Civil(n)
  <1>1. PoliteStep(ch[n], f, claimed', told')
    BY StillPolite DEF Inert
  <1> QED
    BY <1>1, SilentBooks DEF Civil

\* A channel that ends.
LEMMA EndsOver ==
    ASSUME NEW n, NEW c \in Channel, NEW why, why # "open", Becomes(n, Ends(c, why))
    PROVE  Over(n)
  <1>1. Ends(c, why).fate = why
    BY EndedQuiet
  <1> QED
    BY <1>1 DEF Over

\* update_add_htlc
LEMMA AddCivil ==
    ASSUME NEW I, Before(I), NEW n \in Nodes, UpdateAddHtlc(n)
    PROVE  Civil(n) \/ Over(n)
  <1> DEFINE c == ch[n]
             f == Received(c, Head(net[n]).id, Head(net[n]).pay)
  <1>1. c \in Channel
    BY NodeFacts DEF Before
  <1>2. (\E why \in {"add_after_shutdown", "reestablish", "htlc_id"} : Becomes(n, Ends(c, why))) \/ Becomes(n, f)
    BY DEF UpdateAddHtlc, Received
  <1>3. Inert(c, f)
    BY <1>1 DEF Inert, Received, Channel
  <1>4. UNCHANGED payVars
    BY DEF UpdateAddHtlc
  <1> HIDE DEF f
  <1> QED
    BY <1>1, <1>2, <1>3, <1>4, InertCivil, EndsOver

\* channel_reestablish
LEMMA ReestablishCivil ==
    ASSUME NEW I, Before(I), NEW n \in Nodes, ChannelReestablish(n)
    PROVE  Civil(n) \/ Over(n)
  <1> DEFINE c == ch[n]
  <1>1. c \in Channel
    BY NodeFacts DEF Before
  <1>2. \/ \E why : why # "open" /\ Becomes(n, Ends(c, why))
        \/ \E x, y : Becomes(n, [c EXCEPT !.disc = FALSE, !.pendRaa = x, !.pendCs = y])
    BY DEF ChannelReestablish
  <1>3. \A x, y : Inert(c, [c EXCEPT !.disc = FALSE, !.pendRaa = x, !.pendCs = y])
    BY <1>1 DEF Inert, Channel
  <1>4. UNCHANGED payVars
    BY DEF ChannelReestablish
  <1> QED
    BY <1>1, <1>2, <1>3, <1>4, InertCivil, EndsOver

\* maybe_propose_closing_signed
LEMMA ProposeCivil ==
    ASSUME NEW I, Before(I), NEW n \in Nodes, ProposeClosing(n)
    PROVE  Civil(n)
  <1> DEFINE c == ch[n]
  <1>1. c \in Channel
    BY NodeFacts DEF Before
  <1>2. Becomes(n, [c EXCEPT !.feeSent = 1]) /\ UNCHANGED payVars
    BY DEF ProposeClosing
  <1>3. Inert(c, [c EXCEPT !.feeSent = 1])
    BY <1>1 DEF Inert, Channel
  <1> QED
    BY <1>2, <1>3, InertCivil

\* A closing fee is answered.
LEMMA AnswerCivil ==
    ASSUME NEW I, Before(I), NEW n \in Nodes, NEW e \in Channel, Inert(ch[n], e), NEW m, NEW fee,
           NEW a, a = AnswerClosing(n, e, m, fee), Becomes(n, a.c), UNCHANGED payVars
    PROVE  Civil(n) \/ Over(n)
  <1>1. \/ \E why : why # "open" /\ a.c = Ends(e, why)
        \/ \E x, y : a.c = [e EXCEPT !.feeSent = x, !.fate = y]
    BY DEF AnswerClosing
  <1>2. ASSUME NEW x, NEW y PROVE Inert(ch[n], [e EXCEPT !.feeSent = x, !.fate = y])
    BY DEF Inert, Channel
  <1> QED
    BY <1>1, <1>2, InertCivil, EndsOver

\* closing_signed
LEMMA ClosingCivil ==
    ASSUME NEW I, Before(I), NEW n \in Nodes, ClosingSigned(n)
    PROVE  Civil(n) \/ Over(n)
  <1> DEFINE c == ch[n]
             m == Head(net[n])
  <1>1. c \in Channel
    BY NodeFacts DEF Before
  <1>2. \/ Becomes(n, Ends(c, "closing_order"))
        \/ Becomes(n, [c EXCEPT !.pendClosing = m])
        \/ \E fee : Becomes(n, AnswerClosing(n, c, m, fee).c)
    BY DEF ClosingSigned
  <1>3. Inert(c, [c EXCEPT !.pendClosing = m]) /\ Inert(c, c)
    BY <1>1 DEF Inert, Channel
  <1>4. UNCHANGED payVars
    BY DEF ClosingSigned
  <1>5. CASE Becomes(n, Ends(c, "closing_order"))
    BY <1>1, <1>5, EndsOver
  <1>6. CASE Becomes(n, [c EXCEPT !.pendClosing = m])
    BY <1>3, <1>4, <1>6, InertCivil
  <1>7. ASSUME NEW fee, Becomes(n, AnswerClosing(n, c, m, fee).c) PROVE Civil(n) \/ Over(n)
    BY <1>1, <1>3, <1>4, <1>7, AnswerCivil
  <1> QED
    BY <1>2, <1>5, <1>6, <1>7

\* A deferred closing_signed is answered.
LEMMA DeferredCivil ==
    ASSUME NEW I, Before(I), NEW n \in Nodes, AnswerDeferredClosing(n)
    PROVE  Civil(n) \/ Over(n)
  <1> DEFINE c == ch[n]
             e == [c EXCEPT !.pendClosing = NoClosing]
             m == c.pendClosing
  <1>1. c \in Channel
    BY NodeFacts DEF Before
  <1>2. e \in Channel /\ Inert(c, e)
    BY <1>1 DEF Inert, Channel
  <1>3. PICK fee : Becomes(n, AnswerClosing(n, e, m, fee).c)
    BY DEF AnswerDeferredClosing
  <1>4. UNCHANGED payVars
    BY DEF AnswerDeferredClosing
  <1> HIDE DEF e
  <1> QED
    BY <1>2, <1>3, <1>4, AnswerCivil

-----------------------------------------------------------------------------
(* monitor_updating_restored, send_payment and the other calls of the user. *)

\* The user is told of the payments G.
LEMMA ToldNow ==
    ASSUME NEW G, NEW o, Tells(G, o)
    PROVE  ToldGrows /\ \A p \in Payments : p \in G => told'[p] # {}
  <1>1. ToldGrows
    BY TellsGrow
  <1>2. \A p \in Payments : p \in G => o \in told'[p]
    BY DEF Tells
  <1> QED
    BY <1>1, <1>2

\* monitor_updating_restored
LEMMA RestoredCivil ==
    ASSUME NEW I, Before(I), NEW n \in Nodes, MonitorRestored(n)
    PROVE  Civil(n)
  <1> DEFINE c == ch[n]
             f == [c EXCEPT !.monBusy = FALSE, !.pendRaa = FALSE, !.pendCs = FALSE, !.pendAdds = {}, !.pendFails = {}]
  <1>1. c \in Channel
    BY NodeFacts DEF Before
  <1>2. Becomes(n, f) /\ Tells(c.pendFails, "failed") /\ started' = started /\ claimed' = claimed
    BY DEF MonitorRestored
  <1>3. f.out = c.out /\ f.cell = c.cell /\ f.pendFails = {} /\ f.pendAdds = {} /\ (f.localShut <=> c.localShut)
    BY <1>1 DEF Channel
  <1> HIDE DEF f
  <1>4. AddsIn(f) = AddsIn(c) /\ \A p : OutSt(f, p) = OutSt(c, p)
    BY <1>3 DEF AddsIn, CellAdds, OutSt
  <1>5. ToldGrows /\ \A p \in Payments : p \in c.pendFails => told'[p] # {}
    BY <1>2, ToldNow
  <1>6. ModestStep(c, f)
    BY <1>3, <1>4 DEF ModestStep, Modest
  <1>7. HeardStep(c, f, told')
    BY <1>4, <1>5 DEF HeardStep, Underway
  <1>8. SureStep(c, f, claimed', told')
    BY <1>4 DEF SureStep
  <1>9. Books(n, f)
    BY <1>2, <1>5, PlainBooks
  <1> QED
    BY <1>2, <1>6, <1>7, <1>8, <1>9 DEF Civil, PoliteStep

\* The additions that wait are given up.
LEMMA EmptyCivil ==
    ASSUME NEW I, Before(I), NEW n \in Nodes, NEW f \in Channel, Becomes(n, f), f.cell = WithoutAdds(ch[n].cell),
           SameBooks([ch[n] EXCEPT !.cell = WithoutAdds(@)], f), f.monBusy <=> ch[n].monBusy,
           Tells(AddsIn(ch[n]), "failed"), started' = started, claimed' = claimed
    PROVE  Civil(n)
  <1> DEFINE c == ch[n]
  <1>1. NodeOK(n, c, I, started, claimable, claimed, refused) /\ c \in Channel
    BY NodeFacts DEF Before
  <1>2. /\ f.inb = c.inb /\ f.out = c.out /\ f.toSelf = c.toSelf /\ f.nextId = c.nextId
        /\ f.nextCpId = c.nextCpId /\ f.pendAdds = c.pendAdds /\ f.pendFails = c.pendFails
    BY <1>1 DEF SameBooks, Channel
  <1>3. AddsIn(f) = {}
    BY <1>1, <1>2, EmptiedKeeps
  <1>4. \A p : OutSt(f, p) = OutSt(c, p)
    BY <1>2 DEF OutSt
  <1>5. ToldGrows /\ \A p \in Payments : p \in AddsIn(c) => told'[p] # {}
    BY ToldNow
  <1>6. ModestStep(c, f)
    BY <1>2, <1>3 DEF ModestStep, Modest
  <1>7. HeardStep(c, f, told')
    BY <1>2, <1>4, <1>5 DEF HeardStep, Underway
  <1>8. SureStep(c, f, claimed', told')
    BY <1>4 DEF SureStep
  <1>9. Books(n, f)
    BY <1>5, PlainBooks
  <1> QED
    BY <1>6, <1>7, <1>8, <1>9 DEF Civil, PoliteStep

\* close_channel
LEMMA CloseCivil ==
    ASSUME NEW I, Before(I), NEW n \in Nodes, CloseChannel(n)
    PROVE  Civil(n)
  <1> DEFINE c == ch[n]
             f == [c EXCEPT !.localShut = TRUE, !.cell = WithoutAdds(@)]
  <1>1. NodeOK(n, c, I, started, claimable, claimed, refused) /\ c \in Channel
    BY NodeFacts DEF Before
  <1>2. WithoutAdds(c.cell) \in Seq(Updates)
    BY <1>1, CellTyped
  <1>3. f \in Channel /\ f.cell = WithoutAdds(c.cell) /\ SameBooks([c EXCEPT !.cell = WithoutAdds(@)], f) /\ (f.monBusy <=> c.monBusy)
    BY <1>1, <1>2 DEF Channel, SameBooks
  <1>4. Becomes(n, f) /\ Tells(AddsIn(c), "failed") /\ started' = started /\ claimed' = claimed
    BY DEF CloseChannel
  <1> HIDE DEF f
  <1> QED
    BY <1>3, <1>4, EmptyCivil

\* shutdown
LEMMA ShutdownCivil ==
    ASSUME NEW I, Before(I), NEW n \in Nodes, ShutdownReceived(n)
    PROVE  Civil(n) \/ Over(n)
  <1> DEFINE c == ch[n]
             f == [c EXCEPT !.remoteShut = TRUE, !.localShut = TRUE, !.cell = WithoutAdds(@)]
  <1>1. NodeOK(n, c, I, started, claimable, claimed, refused) /\ c \in Channel
    BY NodeFacts DEF Before
  <1>2. WithoutAdds(c.cell) \in Seq(Updates)
    BY <1>1, CellTyped
  <1>3. f \in Channel /\ f.cell = WithoutAdds(c.cell) /\ SameBooks([c EXCEPT !.cell = WithoutAdds(@)], f) /\ (f.monBusy <=> c.monBusy)
    BY <1>1, <1>2 DEF Channel, SameBooks
  <1>4. \/ \E why : why # "open" /\ Becomes(n, Ends(c, why))
        \/ Becomes(n, f) /\ Tells(AddsIn(c), "failed") /\ started' = started /\ claimed' = claimed
    BY DEF ShutdownReceived
  <1> HIDE DEF f
  <1> QED
    BY <1>1, <1>3, <1>4, EmptyCivil, EndsOver

\* The additions that wait after one more update was put into the holding cell.
LEMMA AppendAdds ==
    ASSUME NEW c \in Channel, NEW u, NEW f, f.cell = Append(c.cell, u)
    PROVE  /\ u.op # "add" => AddsIn(f) = AddsIn(c)
           /\ u.op = "add" => AddsIn(f) = AddsIn(c) \cup {u.pay}
  <1>1. c.cell \in Seq(Updates)
    BY DEF Channel
  <1>2. ToSet(f.cell) = ToSet(c.cell) \cup {u}
    BY <1>1 DEF ToSet
  <1> QED
    BY <1>2 DEF AddsIn, CellAdds

\* A removal is put into the holding cell.
LEMMA WaitsPolite ==
    ASSUME NEW c \in Channel, NEW u, u.op # "add", NEW f, f.cell = Append(c.cell, u), f.out = c.out,
           f.pendFails = c.pendFails, f.pendAdds = c.pendAdds, f.localShut <=> c.localShut, c.monBusy => f.monBusy, NEW C2, NEW T2
    PROVE  PoliteStep(c, f, C2, T2)
  <1>1. AddsIn(f) = AddsIn(c) /\ \A p : OutSt(f, p) = OutSt(c, p)
    BY AppendAdds DEF OutSt
  <1> QED
    BY <1>1 DEF PoliteStep, ModestStep, Modest, HeardStep, Underway, SureStep

\* fail_htlc_backwards
LEMMA RefuseCivil ==
    ASSUME NEW I, Before(I), NEW n \in Nodes, NEW p, FailBackwards(n, p)
    PROVE  Civil(n)
  <1> DEFINE c == ch[n]
             W(u) == [c EXCEPT !.cell = Append(@, u)]
  <1>1. c \in Channel
    BY NodeFacts DEF Before
  <1>2. PICK id : Becomes(n, c) \/ Becomes(n, W([op |-> "fail", id |-> id]))
    BY DEF FailBackwards
  <1>3. started' = started /\ claimed' = claimed /\ ToldGrows
    BY TellsGrow DEF FailBackwards
  <1>4. ASSUME NEW f, PoliteStep(c, f, claimed', told'), Becomes(n, f) PROVE Civil(n)
    BY <1>3, <1>4, PlainBooks DEF Civil
  <1>5. PoliteStep(c, c, claimed', told')
    BY StillPolite
  <1>6. PoliteStep(c, W([op |-> "fail", id |-> id]), claimed', told')
    <2>1. PICK u : u = [op |-> "fail", id |-> id]
      OBVIOUS
    <2>2. u.op # "add"
      BY <2>1
    <2>3. W(u).cell = Append(c.cell, u) /\ W(u).out = c.out /\ W(u).pendFails = c.pendFails /\ W(u).pendAdds = c.pendAdds
          /\ (W(u).localShut <=> c.localShut) /\ (c.monBusy => W(u).monBusy)
      BY <1>1 DEF Channel
    <2> HIDE DEF W
    <2>4. PoliteStep(c, W(u), claimed', told')
      BY <1>1, <2>2, <2>3, WaitsPolite
    <2> QED
      BY <2>1, <2>4
  <1> HIDE DEF W
  <1> QED
    BY <1>2, <1>4, <1>5, <1>6

-----------------------------------------------------------------------------
(* The holding cell and what waits in it.                                  *)

\* Two polite steps in a row.
LEMMA PoliteAgain ==
    ASSUME NEW c, NEW e, NEW f, NEW C2, NEW T2
    PROVE  /\ HeardStep(c, e, T2) /\ HeardStep(e, f, T2) => HeardStep(c, f, T2)
           /\ SureStep(c, e, C2, T2) /\ SureStep(e, f, C2, T2) => SureStep(c, f, C2, T2)
           /\ PoliteStep(c, e, C2, T2) /\ PoliteStep(e, f, C2, T2) => PoliteStep(c, f, C2, T2)
  <1>1. HeardStep(c, e, T2) /\ HeardStep(e, f, T2) => HeardStep(c, f, T2)
    BY DEF HeardStep
  <1>2. SureStep(c, e, C2, T2) /\ SureStep(e, f, C2, T2) => SureStep(c, f, C2, T2)
    BY DEF SureStep
  <1>3. ModestStep(c, e) /\ ModestStep(e, f) => ModestStep(c, f)
    BY DEF ModestStep
  <1> QED
    BY <1>1, <1>2, <1>3 DEF PoliteStep

\* What holds the payments that wait is left alone.
Passive(c, f) ==
    /\ f.cell = c.cell /\ f.pendFails = c.pendFails /\ f.pendAdds = c.pendAdds
    /\ (f.localShut <=> c.localShut) /\ (c.monBusy => f.monBusy)

\* HTLCs that move on while the rest is left alone.
LEMMA PassivePolite ==
    ASSUME NEW c, NEW f, Passive(c, f), NEW C2, C2 \subseteq Payments, NEW T2,
           \A p \in Payments : OutSt(c, p) # "none" => OutSt(f, p) # "none",
           \A p \in C2 : OutSt(f, p) \in Removing => OutSt(c, p) \in Removing \/ T2[p] # {}
    PROVE  PoliteStep(c, f, C2, T2)
  BY OnwardPolite DEF Passive

\* The commitment that is built, and the monitor update.
LEMMA PassiveOnes ==
    ASSUME NEW n, NEW c \in Channel
    PROVE  /\ Passive(c, build_commitment_no_status_check(n, c))
           /\ \A raa, cs : Passive(c, monitor_updating_paused(c, raa, cs))
           /\ \A tx : Passive(c, SignedFirst(c, tx))
  <1>1. Passive(c, build_commitment_no_status_check(n, c))
    BY DEF Passive, build_commitment_no_status_check, Ends, Channel
  <1>2. \A raa, cs : Passive(c, monitor_updating_paused(c, raa, cs))
    BY DEF Passive, monitor_updating_paused, Channel
  <1>3. \A tx : Passive(c, SignedFirst(c, tx))
    BY DEF Passive, SignedFirst, Channel
  <1> QED
    BY <1>1, <1>2, <1>3

\* A commitment is built.
LEMMA BuildPolite ==
    ASSUME NEW n, NEW e \in Channel, Held(e), NEW f, f = BuildAndPause(n, e), NEW C2, C2 \subseteq Payments, NEW T2
    PROVE  PoliteStep(e, f, C2, T2)
  <1>1. BuiltFrom(e, f)
    BY BuiltFields
  <1>2. Passive(e, f) /\ f.inb = Promote(e.inb, "AwaitingRemoteRevokeToAnnounce", "AwaitingAnnouncedRemoteRevoke")
        /\ f.out = Promote(e.out, "AwaitingRemoteRevokeToRemove", "AwaitingRemovedRemoteRevoke")
        /\ f.nextId = e.nextId /\ f.nextCpId = e.nextCpId /\ f.txs = e.txs
        /\ f.pendAdds = e.pendAdds /\ f.pendFails = e.pendFails
    BY <1>1 DEF BuiltFrom, Passive
  <1>3. Promoted(e, f)
    BY <1>2, HtlcsPromoted
  <1>4. \A p \in Payments : OutSt(f, p) = OutBuilt(OutSt(e, p))
    BY <1>3 DEF Promoted
  <1>5. /\ \A p \in Payments : OutSt(e, p) # "none" => OutSt(f, p) # "none"
        /\ \A p \in Payments : OutSt(f, p) \in Removing => OutSt(e, p) \in Removing
    BY <1>4 DEF OutBuilt, Removing
  <1> QED
    BY <1>2, <1>5, PassivePolite

\* claim_funds
LEMMA ClaimCivil ==
    ASSUME NEW I, Before(I), InStep, NEW n \in Nodes, NEW p \in Payments, ClaimFunds(n, p)
    PROVE  Civil(n)
  <1> DEFINE c == ch[n]
             W(u) == monitor_updating_paused([c EXCEPT !.cell = Append(@, u)], FALSE, FALSE)
  <1>1. c \in Channel /\ Orderly(n, c)
    <2>1. Sound(n, I)
      BY Facts, PeerFacts
    <2> QED
      BY <2>1 DEF Sound
  <1>2. PICK h \in c.inb : h.pay = p /\
           IF can_generate_new_commitment(c)
           THEN Becomes(n, BuildAndPause(n, LocalRemove(c, h.id, "fulfil")))
           ELSE Becomes(n, W([op |-> "claim", id |-> h.id]))
    BY DEF ClaimFunds
  <1>3. started' = started /\ claimed' = claimed \cup {p} /\ ToldGrows /\ p \in claimable /\ PayTo(p) = n
    BY TellsGrow DEF ClaimFunds
  <1>4. claimed \subseteq Payments
    BY DEF Before, Decision, DecidedOK
  <1>5. ASSUME NEW f PROVE Books(n, f)
    BY <1>3, <1>4 DEF Books
  <1>6. ASSUME NEW f, PoliteStep(c, f, claimed', told'), Becomes(n, f) PROVE Civil(n)
    BY <1>5, <1>6 DEF Civil
  <1>7. claimed' \subseteq Payments
    BY <1>3, <1>4
  <1>8. CASE can_generate_new_commitment(c)
    <2> DEFINE e == LocalRemove(c, h.id, "fulfil")
    <2>1. h.st = "Committed"
      BY <1>2, <1>3, UndecidedIs
    <2>2. e \in Channel /\ Held(e)
      <3>1. Held(c) /\ IdsOnce(c.inb)
        BY <1>1 DEF Orderly
      <3> QED
        BY <1>1, <2>1, <3>1, ResolveSetsOff
    <2>3. Inert(c, e)
      BY <1>1 DEF Inert, LocalRemove, Channel
    <2> HIDE DEF e
    <2>4. PoliteStep(c, e, claimed', told')
      BY <2>3, StillPolite DEF Inert
    <2>5. PoliteStep(e, BuildAndPause(n, e), claimed', told')
      BY <1>7, <2>2, BuildPolite
    <2>6. PoliteStep(c, BuildAndPause(n, e), claimed', told')
      BY <2>4, <2>5, PoliteAgain
    <2>7. Becomes(n, BuildAndPause(n, e))
      BY <1>2, <1>8 DEF e
    <2> QED
      BY <1>6, <2>6, <2>7
  <1>9. CASE ~can_generate_new_commitment(c)
    <2>1. PICK u : u = [op |-> "claim", id |-> h.id]
      OBVIOUS
    <2>2. u.op # "add"
      BY <2>1
    <2>3. W(u).cell = Append(c.cell, u) /\ W(u).out = c.out /\ W(u).pendFails = c.pendFails /\ W(u).pendAdds = c.pendAdds
          /\ (W(u).localShut <=> c.localShut) /\ (c.monBusy => W(u).monBusy)
      BY <1>1 DEF Channel, monitor_updating_paused
    <2>5. Becomes(n, W(u))
      BY <1>2, <1>9, <2>1
    <2> HIDE DEF W
    <2>4. PoliteStep(c, W(u), claimed', told')
      BY <1>1, <2>2, <2>3, WaitsPolite
    <2> QED
      BY <1>6, <2>4, <2>5
  <1> QED
    BY <1>8, <1>9

\* send_payment
LEMMA SendCivil ==
    ASSUME NEW I, Before(I), InStep, NEW n \in Nodes, NEW p \in Payments, SendPayment(n, p)
    PROVE  Civil(n)
  <1> DEFINE c == ch[n]
             e == PlaceHtlc(c, p)
  <1>1. c \in Channel /\ Orderly(n, c)
    <2>1. Sound(n, I)
      BY Facts, PeerFacts
    <2> QED
      BY <2>1 DEF Sound
  <1>2. /\ Becomes(n, IF can_generate_new_commitment(c) THEN BuildAndPause(n, e) ELSE e)
        /\ started' = started \cup {p} /\ claimed' = claimed /\ ToldGrows /\ PayFrom[p] = n
        /\ p \notin started /\ ~c.localShut
    BY TellsGrow DEF SendPayment, SendRefused
  <1>3. claimed \subseteq Payments
    BY DEF Before, Decision, DecidedOK
  <1>4. ASSUME NEW f, Underway(f, p) PROVE Books(n, f)
    BY <1>2, <1>3, <1>4 DEF Books
  <1>5. CASE can_generate_new_commitment(c)
    <2>1. OutSt(c, p) = "none" /\ Held(c)
      BY <1>1, <1>2, UnsentIsNone DEF Orderly
    <2>2. /\ e \in Channel /\ Held(e) /\ SetOff(c, e, {p}) /\ SameTurn(c, e)
          /\ NewOut(c, e, p) /\ e.cell = c.cell
      BY <1>1, <1>5, <2>1, PlaceSetsOff
    <2> HIDE DEF e
    <2>3. Passive(c, e)
      BY <2>2 DEF SetOff, SameTurn, Passive
    <2>4. \A q \in Payments : OutSt(e, q) = OutSt(c, q) \/ (OutSt(c, q) = "none" /\ OutSt(e, q) = "LocalAnnounced")
      BY <2>2 DEF SetOff, NewOut
    <2>5. PoliteStep(c, e, claimed', told')
      BY <1>2, <1>3, <2>3, <2>4, PassivePolite DEF Removing
    <2>6. PICK f : f = BuildAndPause(n, e)
      OBVIOUS
    <2>7. PoliteStep(e, f, claimed', told')
      BY <1>2, <1>3, <2>2, <2>6, BuildPolite
    <2>8. Underway(f, p)
      <3>1. HeardStep(e, f, [q \in Payments |-> {}])
        BY <2>2, <2>6, BuildPolite DEF PoliteStep
      <3>2. OutSt(e, p) # "none"
        BY <2>2 DEF NewOut
      <3> QED
        BY <3>1, <3>2 DEF HeardStep, Underway
    <2>9. PoliteStep(c, f, claimed', told') /\ Becomes(n, f) /\ Books(n, f)
      BY <1>2, <1>4, <1>5, <2>5, <2>6, <2>7, <2>8, PoliteAgain
    <2> QED
      BY <2>9 DEF Civil
  <1>6. CASE ~can_generate_new_commitment(c)
    <2>1. PICK u : u = [op |-> "add", pay |-> p]
      OBVIOUS
    <2>2. e = [c EXCEPT !.cell = Append(@, u)]
      BY <1>6, <2>1 DEF PlaceHtlc
    <2>3. e.cell = Append(c.cell, u) /\ e.out = c.out /\ e.pendFails = c.pendFails /\ e.pendAdds = c.pendAdds
          /\ (e.localShut <=> c.localShut) /\ (c.monBusy => e.monBusy)
      BY <1>1, <2>2 DEF Channel
    <2>4. Becomes(n, e)
      BY <1>2, <1>6
    <2> HIDE DEF e
    <2>5. AddsIn(e) = AddsIn(c) \cup {p} /\ \A q : OutSt(e, q) = OutSt(c, q)
      <3>1. u.op = "add" /\ u.pay = p
        BY <2>1
      <3> QED
        BY <1>1, <2>3, <3>1, AppendAdds DEF OutSt
    <2>6. PoliteStep(c, e, claimed', told')
      BY <1>2, <2>3, <2>5 DEF PoliteStep, ModestStep, Modest, HeardStep, Underway, SureStep
    <2>7. Books(n, e)
      BY <1>4, <2>5 DEF Underway
    <2> QED
      BY <2>4, <2>6, <2>7 DEF Civil
  <1> QED
    BY <1>5, <1>6

-----------------------------------------------------------------------------
(* HTLCs that are added and removed.                                       *)

\* The removal of an HTLC does not end the channel.
LEMMA RemovedStays ==
    ASSUME NEW c \in Channel, NEW h \in c.out, h.st = "Committed", NEW o, NEW f, f = RemoteRemove(c, h.id, o)
    PROVE  Passive(c, f) /\ f.fate = c.fate
  <1>1. f = [c EXCEPT !.out = {IF g.id = h.id THEN [g EXCEPT !.st = "RemoteRemoved", !.out = o] ELSE g : g \in @}]
    BY DEF RemoteRemove
  <1> QED
    BY <1>1 DEF Passive, Channel

\* The removal of an HTLC that its payer has committed to.
LEMMA RemovedPolite ==
    ASSUME NEW n, NEW c, Orderly(n, c), NEW h \in c.out, h.st = "Committed", NEW o, NEW f, f = RemoteRemove(c, h.id, o),
           NEW C2, C2 \subseteq Payments, NEW T2, h.pay \in C2 => T2[h.pay] # {}
    PROVE  PoliteStep(c, f, C2, T2)
  <1>1. c \in Channel
    BY DEF Orderly
  <1>2. RemView(c, f, h.pay)
    BY RemEffect
  <1>4. Passive(c, f)
    BY <1>1, RemovedStays
  <1>5. \A p \in Payments : OutSt(c, p) # "none" => OutSt(f, p) # "none"
    BY <1>2 DEF RemView
  <1>6. \A p \in C2 : OutSt(f, p) \in Removing => OutSt(c, p) \in Removing \/ T2[p] # {}
    BY <1>2 DEF RemView
  <1> QED
    BY <1>4, <1>5, <1>6, PassivePolite

\* update_fulfill_htlc
LEMMA FulfillCivil ==
    ASSUME NEW I, Before(I), InStep, NEW n \in Nodes, UpdateFulfillHtlc(n)
    PROVE  Civil(n)
  <1> DEFINE c == ch[n]
             id == Head(net[n]).id
             f == RemoteRemove(c, id, "fulfil")
  <1>1. Orderly(n, c)
    BY Facts, PeerFacts DEF Sound
  <1>2. Incoming(n, "fulfil")
    BY DEF UpdateFulfillHtlc
  <1>3. ~c.disc /\ \E h \in c.out : h.st = "Committed" /\ h.id = id /\ h.pay \in Payments
    BY <1>2, RemNext, PeerFacts DEF Rem
  <1>4. PICK h \in c.out : h.st = "Committed" /\ h.id = id /\ h.pay \in Payments
    BY <1>3
  <1>5. claimed \subseteq Payments
    BY DEF Before, Decision, DecidedOK
  <1>6. Becomes(n, f) /\ started' = started /\ claimed' = claimed
        /\ Tells(IF f.fate = "open" /\ ~c.disc THEN PaysOf(c, id) ELSE {}, "sent")
    BY <1>3 DEF UpdateFulfillHtlc
  <1> HIDE DEF f
  <1>7. f.fate = c.fate
    <2>1. c \in Channel
      BY <1>1 DEF Orderly
    <2> QED
      BY <1>4, <2>1, RemovedStays DEF f
  <1>8. c.fate = "open"
    BY <1>2 DEF Incoming, Open
  <1>9. Tells(PaysOf(c, id), "sent")
    BY <1>3, <1>6, <1>7, <1>8
  <1>10. h.pay \in PaysOf(c, id)
    BY <1>4 DEF PaysOf
  <1>11. ToldGrows /\ told'[h.pay] # {}
    BY <1>4, <1>9, <1>10, ToldNow
  <1>12. PoliteStep(c, f, claimed', told')
    BY <1>1, <1>4, <1>5, <1>6, <1>11, RemovedPolite DEF f
  <1>13. Books(n, f)
    BY <1>6, <1>11, PlainBooks
  <1> QED
    BY <1>6, <1>12, <1>13 DEF Civil

\* update_fail_htlc
LEMMA FailCivil ==
    ASSUME NEW I, Before(I), InStep, NEW n \in Nodes, UpdateFailHtlc(n)
    PROVE  Civil(n)
  <1> DEFINE c == ch[n]
             id == Head(net[n]).id
             f == RemoteRemove(c, id, "fail")
  <1>1. Orderly(n, c) /\ NodeOK(n, c, I, started, claimable, claimed, refused)
    BY Facts, PeerFacts DEF Sound
  <1>2. Incoming(n, "fail")
    BY DEF UpdateFailHtlc
  <1>3. ~c.disc /\ \E h \in c.out : h.st = "Committed" /\ h.id = id /\ h.pay \in Payments
    BY <1>2, RemNext, PeerFacts DEF Rem
  <1>4. PICK h \in c.out : h.st = "Committed" /\ h.id = id /\ h.pay \in Payments
    BY <1>3
  <1>5. claimed \subseteq Payments /\ claimed \cap refused = {} /\ refused \subseteq Payments
    BY DEF Before, Decision, DecidedOK
  <1>6. Becomes(n, f) /\ UNCHANGED payVars
    BY <1>3 DEF UpdateFailHtlc
  <1>7. h.pay \notin claimed
    <2>1. \E p \in refused : PayFrom[p] = n /\ I[p] = id
      BY <1>2, IncomingFacts, MessageFacts
    <2>2. PayFrom[h.pay] = n /\ h.id = I[h.pay]
      BY <1>1, <1>4 DEF NodeOK, OutOK
    <2>3. IdsUnique(I) /\ I \in [Payments -> Int]
      BY NodeFacts DEF Before
    <2>4. id # -1
      <3>1. h.id \in Nat
        BY <1>1, <1>4 DEF Orderly, OutHtlcs
      <3> QED
        BY <1>4, <3>1
    <2> QED
      BY <1>4, <1>5, <2>1, <2>2, <2>3, <2>4 DEF IdsUnique
  <1>8. claimed' = claimed
    BY <1>6 DEF payVars
  <1> HIDE DEF f
  <1>9. PoliteStep(c, f, claimed', told')
    BY <1>1, <1>4, <1>5, <1>7, <1>8, RemovedPolite DEF f
  <1>10. Books(n, f)
    BY <1>6, SilentBooks
  <1> QED
    BY <1>6, <1>9, <1>10 DEF Civil

\* commitment_signed
LEMMA SignedCivil ==
    ASSUME NEW I, Before(I), InStep, NEW n \in Nodes, CommitmentSigned(n)
    PROVE  Civil(n) \/ Over(n)
  <1> DEFINE c == ch[n]
             tx == build_commitment_transaction(n, c, c.holderNum, FALSE)
             f == commitment_signed_update_monitor(n, c, tx)
  <1>1. Orderly(n, c) /\ c \in Channel
    BY Facts, PeerFacts DEF Sound
  <1>2. \/ \E why : why # "open" /\ Becomes(n, Ends(c, why))
        \/ ~c.disc /\ Becomes(n, f)
    BY DEF CommitmentSigned
  <1>3. UNCHANGED payVars
    BY DEF CommitmentSigned
  <1>4. tx \in Txs /\ Verifies(n, c, c.holderNum, tx)
    <2>1. c.holderNum \in Nat
      BY <1>1 DEF Channel
    <2> QED
      BY <1>1, <2>1, TxTyped DEF Orderly, Verifies
  <1>5. claimed' \subseteq Payments
    BY <1>3 DEF payVars, Before, Decision, DecidedOK
  <1> HIDE DEF tx
  <1>6. Passive(c, f)
    <2> DEFINE d == SignedFirst(c, tx)
               b == NeedsCommitment(c) /\ ~c.awaitRaa
               e == IF b THEN build_commitment_no_status_check(n, d) ELSE d
    <2>1. d \in Channel
      BY <1>1, <1>4, SignedFields
    <2>2. Passive(c, d)
      BY <1>1, PassiveOnes
    <2> HIDE DEF d
    <2>3. Passive(d, e)
      <3>1. Passive(d, d)
        BY DEF Passive
      <3> QED
        BY <2>1, <3>1, PassiveOnes
    <2>4. f = monitor_updating_paused(e, TRUE, b)
      BY SignedSplit DEF d
    <2>5. e \in Channel
      <3>1. d.inb \subseteq InHtlcs /\ d.out \subseteq OutHtlcs
        BY <2>1 DEF Channel
      <3>2. build_commitment_no_status_check(n, d) \in Channel
        <4>1. NodeOK(n, c, I, started, claimable, claimed, refused) /\ I \in [Payments -> Int]
              /\ claimable \in SUBSET Payments /\ claimed \in SUBSET Payments /\ refused \in SUBSET Payments
          BY NodeFacts DEF Before
        <4>2. NodeOK(n, d, I, started, claimable, claimed, refused)
          <5>1. SignedFrom(c, d, tx)
            BY <1>1, <1>4, SignedFields DEF d
          <5>2. d.toSelf = c.toSelf
            BY <1>1 DEF d, SignedFirst, Channel
          <5> QED
            BY <2>1, <4>1, <5>1, <5>2, PromoteKeeps DEF SignedFrom, Arriving, Removing
        <4>3. NodeOK(n, build_commitment_no_status_check(n, d), I, started, claimable, claimed, refused)
          BY <4>1, <4>2, BuildKeeps
        <4> QED
          BY <4>3 DEF NodeOK
      <3> QED
        BY <2>1, <3>2
    <2>6. Passive(e, f)
      <3> HIDE DEF e, b
      <3> QED
        BY <2>4, <2>5, PassiveOnes
    <2> QED
      BY <2>2, <2>3, <2>6 DEF Passive
  <1> HIDE DEF f
  <1>7. CASE ~c.disc /\ Becomes(n, f)
    <2>1. PICK b : AcceptView(c, f, b, tx)
      BY <1>1, <1>4, <1>7, AcceptEffect DEF f
    <2>2. \A p \in Payments : \/ OutSt(f, p) = OutAccepted(OutSt(c, p))
                              \/ OutSt(f, p) = OutBuilt(OutAccepted(OutSt(c, p)))
      BY <2>1 DEF AcceptView
    <2>3. \A p \in Payments : OutSt(c, p) # "none" => OutSt(f, p) # "none"
      BY <2>2 DEF OutAccepted, OutBuilt
    <2>4. \A p \in Payments : OutSt(f, p) \in Removing => OutSt(c, p) \in Removing
      BY <2>2 DEF OutAccepted, OutBuilt, Removing
    <2>5. PoliteStep(c, f, claimed', told')
      BY <1>5, <1>6, <2>3, <2>4, PassivePolite
    <2>6. Books(n, f)
      BY <1>3, SilentBooks
    <2> QED
      BY <1>7, <2>5, <2>6 DEF Civil
  <1> QED
    BY <1>1, <1>2, <1>7, EndsOver

-----------------------------------------------------------------------------
(* commitment_signed, and the payments that are offered.                   *)

\* The payments that are offered.
LEMMA PaysSt ==
    ASSUME NEW c, Held(c)
    PROVE  \A p : p \in Pays(c.out) <=> OutSt(c, p) # "none"
  <1>1. OncePaid(c.out) /\ \A h \in c.out : h.st # "none"
    BY DEF Held, Viewed
  <1>2. ASSUME NEW p PROVE p \in Pays(c.out) <=> OutSt(c, p) # "none"
    <2>1. CASE \E h \in c.out : h.pay = p
      <3>1. (CHOOSE h \in c.out : h.pay = p) \in c.out
        BY <2>1
      <3>2. OutSt(c, p) # "none"
        BY <1>1, <2>1, <3>1 DEF OutSt, StOf
      <3> QED
        BY <2>1, <3>2 DEF Pays
    <2>2. CASE ~\E h \in c.out : h.pay = p
      BY <2>2 DEF OutSt, StOf, Pays
    <2> QED
      BY <2>1, <2>2
  <1> QED
    BY <1>2

\* What freeing the holding cell leaves.
FreedFields(c, f) ==
    /\ f.pendFails = c.pendFails /\ f.pendAdds = c.pendAdds /\ (f.localShut <=> c.localShut) /\ (c.monBusy => f.monBusy)
    /\ f \in Channel /\ Held(f)
    /\ \A p \in Payments : OutSt(f, p) \in Removing => OutSt(c, p) \in Removing

\* The fields of a channel whose holding cell was freed.
LEMMA FreedLeaves ==
    ASSUME NEW n \in Nodes, NEW c, NEW I \in [Payments -> Int], NEW S,
           NEW L \in SUBSET Payments, NEW C \in SUBSET Payments, NEW R \in SUBSET Payments,
           NodeOK(n, c, I, S, L, C, R), IdsUnique(I), CellReady(c), NEW tight,
           NEW e \in Accs, e = maybe_free_holding_cell_htlcs(n, c, tight),
           NEW J \in [Payments -> Int], IdsUnique(J), NodeOK(n, e.c, J, S, L, C, R)
    PROVE  FreedFields(c, e.c)
  <1>1. Orderly(n, c) /\ Orderly(n, e.c)
    BY NodeOrderly
  <1>2. e.c \in Channel /\ Held(e.c) /\ c \in Channel /\ Held(c) /\ IdsOnce(c.inb)
    BY <1>1 DEF Orderly
  <1>3. CASE ~can_generate_new_commitment(c)
    <2>1. e.c = c
      BY <1>3 DEF maybe_free_holding_cell_htlcs
    <2> QED
      BY <1>2, <2>1 DEF FreedFields
  <1>4. CASE can_generate_new_commitment(c)
    <2>1. e = free_holding_cell_htlcs(n, c, tight)
      BY <1>4 DEF maybe_free_holding_cell_htlcs
    <2>2. PICK x : /\ Emptied(c, x, Len(c.cell))
                   /\ e.did => e.c = BuildAndPause(n, x)
                   /\ ~e.did => e.c = x /\ SameHtlcs(c, x)
      BY <1>2, <1>4, <2>1, FreeEmpties
    <2>3. x \in Channel /\ Held(x) /\ SetOff(c, x, FirstAdds(c.cell, Len(c.cell))) /\ SameTurn(c, x)
      BY <2>2 DEF Emptied
    <2>4. /\ x.pendFails = c.pendFails /\ x.pendAdds = c.pendAdds /\ (x.localShut <=> c.localShut) /\ (c.monBusy => x.monBusy)
      BY <2>3 DEF SetOff, SameTurn
    <2>5. \A p \in Payments : OutSt(x, p) = OutSt(c, p) \/ OutSt(x, p) = "LocalAnnounced"
      BY <2>3 DEF SetOff, NewOut
    <2>6. CASE e.c = BuildAndPause(n, x)
      <3> DEFINE T2 == [q \in Payments |-> {}]
      <3>1. PoliteStep(x, e.c, Payments, T2)
        BY <2>3, <2>6, BuildPolite
      <3>2. \A p \in Payments : OutSt(e.c, p) \in Removing => OutSt(x, p) \in Removing
        BY <3>1 DEF PoliteStep, SureStep
      <3>3. BuiltFrom(x, e.c)
        BY <2>3, <2>6, BuiltFields
      <3>4. /\ e.c.pendFails = x.pendFails /\ e.c.pendAdds = x.pendAdds
            /\ (e.c.localShut <=> x.localShut) /\ e.c.monBusy
        BY <3>3 DEF BuiltFrom
      <3> QED
        BY <1>2, <2>4, <2>5, <3>2, <3>4 DEF FreedFields, Removing
    <2>7. CASE e.c = x
      BY <1>2, <2>4, <2>5, <2>7 DEF FreedFields, Removing
    <2> QED
      BY <2>2, <2>6, <2>7 DEF Accs
  <1> QED
    BY <1>3, <1>4

\* Freeing the holding cell: what waited is placed or the user is told.
LEMMA FreedPolite ==
    ASSUME NEW n \in Nodes, NEW c, NEW e, NEW I, NEW J, NEW S, NEW L, NEW C, NEW R, NodeOK(n, c, I, S, L, C, R), Held(c),
           FreedTo(n, c, e, I, J, S, L, C, R), FreedFields(c, e.c),
           NEW C2, C2 \subseteq Payments, NEW T2, \A p \in e.failed : T2[p] # {}
    PROVE  PoliteStep(c, e.c, C2, T2) /\ AddsIn(e.c) \subseteq AddsIn(c)
  <1> DEFINE f == e.c
  <1>1. /\ AddsIn(f) \subseteq AddsIn(c)
        /\ Pays(f.out) = (Pays(c.out) \ {}) \cup ((AddsIn(c) \ AddsIn(f)) \ e.failed)
    BY DEF FreedTo, Moves
  <1>2. /\ f.pendFails = c.pendFails /\ f.pendAdds = c.pendAdds /\ (f.localShut <=> c.localShut) /\ (c.monBusy => f.monBusy)
        /\ Held(f) /\ \A p \in Payments : OutSt(f, p) \in Removing => OutSt(c, p) \in Removing
    BY DEF FreedFields
  <1>3. (\A p : p \in Pays(c.out) <=> OutSt(c, p) # "none") /\ (\A p : p \in Pays(f.out) <=> OutSt(f, p) # "none")
    BY <1>2, PaysSt
  <1> HIDE DEF f
  <1>4. HeardStep(c, f, T2)
    BY <1>1, <1>2, <1>3 DEF HeardStep, Underway
  <1>5. ModestStep(c, f)
    BY <1>1, <1>2 DEF ModestStep, Modest
  <1>6. SureStep(c, f, C2, T2)
    BY <1>2 DEF SureStep
  <1> QED
    BY <1>1, <1>4, <1>5, <1>6 DEF PoliteStep, f

\* check_free_holding_cells
LEMMA FreeCivil ==
    ASSUME NEW I, Before(I), InStep, NEW n \in Nodes, FreeHoldingCells(n)
    PROVE  Civil(n)
  <1> DEFINE c == ch[n]
  <1>1. /\ NodeOK(n, c, I, started, claimable, claimed, refused)
        /\ I \in [Payments -> Int] /\ IdsUnique(I)
        /\ claimable \in SUBSET Payments /\ claimed \in SUBSET Payments /\ refused \in SUBSET Payments
        /\ \A q \in claimable \cup claimed \cup refused : I[q] # -1
        /\ \A p \in Payments : I[p] # -1 => I[p] >= 0 /\ p \in started /\ (PayFrom[p] = n => I[p] < c.nextId)
    BY NodeFacts DEF Before
  <1>2. Orderly(n, c) /\ CellReady(c)
    BY Facts, PeerFacts DEF Sound
  <1>3. Held(c)
    BY <1>2 DEF Orderly
  <1>4. PICK tight, e : /\ e = maybe_free_holding_cell_htlcs(n, c, tight)
                        /\ Becomes(n, e.c) /\ Tells(e.failed, "failed") /\ started' = started /\ claimed' = claimed
    BY DEF FreeHoldingCells
  <1>5. e \in Accs /\ \E J : FreedTo(n, c, e, I, J, started, claimable, claimed, refused)
    BY <1>1, <1>4, MaybeFreeKeeps
  <1>6. PICK J : FreedTo(n, c, e, I, J, started, claimable, claimed, refused)
    BY <1>5
  <1>7. NodeOK(n, e.c, J, started, claimable, claimed, refused) /\ J \in [Payments -> Int] /\ IdsUnique(J)
        /\ \A p \in e.failed : p \in Payments
    BY <1>6 DEF FreedTo, IdsGrow
  <1>8. FreedFields(c, e.c)
    BY <1>1, <1>2, <1>4, <1>5, <1>7, FreedLeaves
  <1>9. ToldGrows /\ \A p \in e.failed : told'[p] # {}
    BY <1>4, <1>7, ToldNow
  <1>10. claimed' \subseteq Payments
    BY <1>1, <1>4
  <1>11. PoliteStep(c, e.c, claimed', told')
    BY <1>1, <1>3, <1>6, <1>8, <1>9, <1>10, FreedPolite
  <1>12. Books(n, e.c)
    BY <1>4, <1>9, PlainBooks
  <1> QED
    BY <1>4, <1>11, <1>12 DEF Civil

-----------------------------------------------------------------------------
(* revoke_and_ack and the failures it reports.                             *)

\* What a revocation does to what is under way: the failures wait to be reported.
LEMMA AppliedPolite ==
    ASSUME NEW n \in Nodes, NEW c, NEW I \in [Payments -> Int], NEW S,
           NEW L \in SUBSET Payments, NEW C \in SUBSET Payments, NEW R \in SUBSET Payments,
           NodeOK(n, c, I, S, L, C, R), IdsUnique(I), CellReady(c), NEW x, x = ApplyRevocation(c),
           NEW T, Sure(c, C, T), NEW T2, \A p \in Payments : T[p] \subseteq T2[p]
    PROVE  /\ HeardStep(c, x, T2) /\ SureStep(c, x, C, T2) /\ AddsIn(x) = AddsIn(c)
           /\ (x.localShut <=> c.localShut)
  <1>1. RevokedTo(c, x)
    BY ReadyRevoked
  <1>2. x.pendFails = c.pendFails \cup {h.pay : h \in Resolved(c) \ Success(Resolved(c))}
    BY RevokedFields
  <1>3. OutsAre(n, c, I)
    BY NodeSides
  <1>4. \A h \in c.out : h.st \notin {"LocalAnnounced", "Committed"} => Decided(h, C, R)
    BY DEF NodeOK, OutOK
  <1>5. x.cell = c.cell /\ (x.localShut <=> c.localShut)
        /\ \A p \in Payments : OutSt(x, p) = OutRevoked(OutSt(c, p))
    BY <1>1 DEF RevokedTo
  <1>6. AddsIn(x) = AddsIn(c)
    BY <1>5 DEF AddsIn, CellAdds
  <1>7. ASSUME NEW p \in Payments, OutSt(c, p) = "AwaitingRemovedRemoteRevoke"
        PROVE  p \in x.pendFails \/ T2[p] # {}
    <2>1. PICK h \in c.out : h.pay = p /\ h.st = "AwaitingRemovedRemoteRevoke"
      BY <1>3, <1>7 DEF OutsAre
    <2>2. h \in Resolved(c)
      BY <2>1 DEF Resolved
    <2>3. CASE h.out = "fulfil" /\ p \in C
      <3>1. T[p] # {}
        BY <1>7, <2>3 DEF Sure, Removing
      <3> QED
        BY <3>1
    <2>4. CASE h.out = "fail"
      BY <1>2, <2>1, <2>2, <2>4 DEF Success
    <2> QED
      BY <1>4, <2>1, <2>3, <2>4 DEF Decided
  <1>8. HeardStep(c, x, T2)
    <2> SUFFICES ASSUME NEW p \in Payments, Underway(c, p)
                 PROVE  Underway(x, p) \/ T2[p] # {}
      BY DEF HeardStep
    <2>1. CASE p \in AddsIn(c) \/ p \in c.pendFails
      BY <2>1, <1>2, <1>6 DEF Underway
    <2>2. CASE OutSt(c, p) = "AwaitingRemovedRemoteRevoke"
      BY <2>2, <1>7 DEF Underway
    <2>3. CASE OutSt(c, p) # "none" /\ OutSt(c, p) # "AwaitingRemovedRemoteRevoke"
      <3>1. OutSt(x, p) # "none"
        BY <2>3, <1>5 DEF OutRevoked
      <3> QED
        BY <3>1 DEF Underway
    <2> QED
      BY <2>1, <2>2, <2>3 DEF Underway
  <1>9. SureStep(c, x, C, T2)
    <2>1. \A p \in Payments : OutSt(x, p) \in Removing => OutSt(c, p) \in Removing
      BY <1>5 DEF OutRevoked, Removing
    <2> QED
      BY <2>1 DEF SureStep
  <1> QED
    BY <1>5, <1>6, <1>8, <1>9

\* r returns the channel of e, in which a commitment is built or a monitor update is started.
Returned(n, e, r) ==
    /\ r.failed = e.failed
    /\ r.c = e.c \/ r.c = BuildAndPause(n, e.c) \/ r.c = monitor_updating_paused(e.c, FALSE, FALSE)

\* The channel that revoke_and_ack returns.
LEMMA RevokeReturns ==
    ASSUME NEW n, NEW c, NEW tight, NEW e \in Accs, e = maybe_free_holding_cell_htlcs(n, ApplyRevocation(c), tight),
           NEW r, r = revoke_and_ack(n, c, tight)
    PROVE  Returned(n, e, r)
  <1> DEFINE b == BuildAndPause(n, e.c)
             q == monitor_updating_paused(e.c, FALSE, FALSE)
  <1>1. r = CASE e.did -> e
            [] ~e.did /\ RequireCommitment(c) -> [e EXCEPT !.c = b]
            [] ~e.did /\ ~RequireCommitment(c) -> [e EXCEPT !.c = q]
    BY DEF revoke_and_ack
  <1> HIDE DEF b, q
  <1>2. e.did \in BOOLEAN
    BY DEF Accs
  <1>3. /\ [e EXCEPT !.c = b].c = b /\ [e EXCEPT !.c = q].c = q
        /\ [e EXCEPT !.c = b].failed = e.failed /\ [e EXCEPT !.c = q].failed = e.failed
    BY DEF Accs
  <1>4. r.failed = e.failed /\ (r.c = e.c \/ r.c = b \/ r.c = q)
    BY <1>1, <1>2, <1>3
  <1> QED
    BY <1>4 DEF b, q, Returned

\* revoke_and_ack
LEMMA RevokeCivil ==
    ASSUME NEW I, Before(I), InStep, NEW n \in Nodes, Sure(ch[n], claimed, told), RevokeAndAck(n)
    PROVE  Civil(n) \/ Over(n)
  <1> DEFINE c == ch[n]
             x == ApplyRevocation(c)
  <1>1. /\ NodeOK(n, c, I, started, claimable, claimed, refused)
        /\ I \in [Payments -> Int] /\ IdsUnique(I) /\ c \in Channel
        /\ claimable \in SUBSET Payments /\ claimed \in SUBSET Payments /\ refused \in SUBSET Payments
        /\ \A q \in claimable \cup claimed \cup refused : I[q] # -1
        /\ \A p \in Payments : I[p] # -1 => I[p] >= 0 /\ p \in started /\ (PayFrom[p] = n => I[p] < c.nextId)
    BY NodeFacts DEF Before
  <1>2. CASE RevokeError(c, Head(net[n])) # "open"
    <2>1. Becomes(n, Ends(c, RevokeError(c, Head(net[n]))))
      BY <1>2 DEF RevokeAndAck
    <2> QED
      BY <1>1, <1>2, <2>1, EndsOver
  <1>3. CASE RevokeError(c, Head(net[n])) = "open"
    <2>1. PICK tight, r : /\ r = revoke_and_ack(n, c, tight)
                          /\ Becomes(n, r.c) /\ Tells(r.failed, "failed") /\ started' = started /\ claimed' = claimed
      BY <1>3 DEF RevokeAndAck
    <2>2. Orderly(n, c) /\ CellReady(c)
      BY Facts, PeerFacts DEF Sound
    <2>3. CellReady(x) /\ Orderly(n, x) /\ RevokedTo(c, x)
      BY <1>1, <2>2, ReadyRevoked
    <2>4. NodeOK(n, x, I, started, claimable, claimed, refused)
      BY <1>1, RevokedKeeps
    <2>5. x.nextId = c.nextId /\ Held(x)
      BY <2>3 DEF RevokedTo, Orderly
    <2>6. PICK e : e = maybe_free_holding_cell_htlcs(n, x, tight)
      OBVIOUS
    <2> HIDE DEF x
    <2>7. e \in Accs /\ \E J : FreedTo(n, x, e, I, J, started, claimable, claimed, refused)
      BY <1>1, <2>4, <2>5, <2>6, MaybeFreeKeeps
    <2>8. PICK J : FreedTo(n, x, e, I, J, started, claimable, claimed, refused)
      BY <2>7
    <2>9. NodeOK(n, e.c, J, started, claimable, claimed, refused) /\ J \in [Payments -> Int] /\ IdsUnique(J)
          /\ \A p \in e.failed : p \in Payments
      BY <2>8 DEF FreedTo, IdsGrow
    <2>10. FreedFields(x, e.c)
      BY <1>1, <2>3, <2>4, <2>6, <2>7, <2>9, FreedLeaves
    <2>11. e.c \in Channel /\ Held(e.c) /\ (e.c.localShut <=> x.localShut)
      BY <2>10 DEF FreedFields
    <2>12. r.failed = e.failed /\ (r.c = e.c \/ r.c = BuildAndPause(n, e.c) \/ r.c = monitor_updating_paused(e.c, FALSE, FALSE))
      <3>1. Returned(n, e, r)
        BY <2>1, <2>6, <2>7, RevokeReturns DEF x
      <3> QED
        BY <3>1 DEF Returned
    <2>13. ToldGrows /\ \A p \in e.failed : told'[p] # {}
      BY <2>1, <2>9, <2>12, ToldNow
    <2>14. claimed' \subseteq Payments
      BY <1>1, <2>1
    <2>15. PoliteStep(x, e.c, claimed', told') /\ AddsIn(e.c) \subseteq AddsIn(x)
      BY <2>4, <2>5, <2>8, <2>10, <2>13, <2>14, FreedPolite
    <2>16. PoliteStep(e.c, r.c, claimed', told') /\ r.c.cell = e.c.cell /\ (r.c.localShut <=> e.c.localShut)
      <3>1. CASE r.c = e.c
        <4>1. PoliteStep(e.c, e.c, claimed', told')
          BY StillPolite
        <4> QED
          BY <3>1, <4>1
      <3>2. CASE r.c = BuildAndPause(n, e.c)
        <4>1. PoliteStep(e.c, r.c, claimed', told')
          BY <3>2, <2>11, <2>14, BuildPolite
        <4>2. BuiltFrom(e.c, r.c)
          BY <3>2, <2>11, BuiltFields
        <4>4. Passive(e.c, r.c)
          BY <4>2 DEF BuiltFrom, Passive
        <4> QED
          BY <4>1, <4>4 DEF Passive
      <3>3. CASE r.c = monitor_updating_paused(e.c, FALSE, FALSE)
        <4>1. Passive(e.c, r.c)
          BY <3>3, <2>11, PassiveOnes
        <4>2. r.c.out = e.c.out
          BY <3>3, <2>11 DEF monitor_updating_paused, Channel
        <4>3. PoliteStep(e.c, r.c, claimed', told')
          BY <4>1, <4>2, StillPolite DEF Passive
        <4> QED
          BY <4>1, <4>3 DEF Passive
      <3> QED
        BY <2>12, <3>1, <3>2, <3>3
    <2>17. HeardStep(c, x, told') /\ SureStep(c, x, claimed', told') /\ AddsIn(x) = AddsIn(c) /\ (x.localShut <=> c.localShut)
      BY <1>1, <2>1, <2>2, <2>13, AppliedPolite DEF x, ToldGrows
    <2>18. HeardStep(c, r.c, told')
      BY <2>15, <2>16, <2>17, PoliteAgain DEF PoliteStep
    <2>19. SureStep(c, r.c, claimed', told')
      BY <2>15, <2>16, <2>17, PoliteAgain DEF PoliteStep
    <2>20. r.c.monBusy
      <3>1. ~c.disc /\ c.awaitRaa
        BY <1>3 DEF RevokeError
      <3>2. \E b : Revokes(c, r.c, b) /\ RevokeView(c, r.c, b)
        BY <1>1, <2>1, <2>2, <2>6, <2>7, <3>1, RevokeEffect DEF x
      <3> QED
        BY <3>2 DEF Revokes
    <2>21. AddsIn(r.c) \subseteq AddsIn(c) /\ (r.c.localShut <=> c.localShut)
      <3>1. AddsIn(r.c) = AddsIn(e.c)
        BY <2>16 DEF AddsIn, CellAdds
      <3> QED
        BY <3>1, <2>11, <2>15, <2>16, <2>17
    <2>22. ModestStep(c, r.c)
      BY <2>20, <2>21 DEF ModestStep, Modest
    <2>23. Books(n, r.c)
      BY <2>1, <2>13, PlainBooks
    <2> QED
      BY <2>1, <2>18, <2>19, <2>22, <2>23 DEF Civil, PoliteStep
  <1> QED
    BY <1>2, <1>3

-----------------------------------------------------------------------------
(* Both users, at every step of an open channel.                           *)

\* Both nodes owe their users nothing that they have not under way.
AllPolite == \A m \in Nodes : Polite(m, ch[m], started, claimed, told)

\* A node of an open channel takes a step.
LEMMA NodeCivil ==
    ASSUME NEW I, Before(I), InStep, NEW n \in Nodes, ch[n].fate = "open", Sure(ch[n], claimed, told),
           Receive(n) \/ Manager(n) \/ User(n)
    PROVE  Civil(n) \/ Over(n)
  <1>1. CASE UpdateAddHtlc(n)
    BY <1>1, AddCivil
  <1>2. CASE UpdateFulfillHtlc(n)
    BY <1>2, FulfillCivil
  <1>3. CASE UpdateFailHtlc(n)
    BY <1>3, FailCivil
  <1>4. CASE CommitmentSigned(n)
    BY <1>4, SignedCivil
  <1>5. CASE RevokeAndAck(n)
    BY <1>5, RevokeCivil
  <1>6. CASE ChannelReestablish(n)
    BY <1>6, ReestablishCivil
  <1>7. CASE ShutdownReceived(n)
    BY <1>7, ShutdownCivil
  <1>8. CASE ClosingSigned(n)
    BY <1>8, ClosingCivil
  <1>9. CASE MessageAfterClose(n)
    BY <1>9 DEF MessageAfterClose
  <1>10. CASE MonitorRestored(n)
    BY <1>10, RestoredCivil
  <1>11. CASE FreeHoldingCells(n)
    BY <1>11, FreeCivil
  <1>12. CASE ProposeClosing(n)
    BY <1>12, ProposeCivil
  <1>13. CASE AnswerDeferredClosing(n)
    BY <1>13, DeferredCivil
  <1>14. CASE \E p \in Payments : SendPayment(n, p)
    BY <1>14, SendCivil
  <1>15. CASE \E p \in Payments : ClaimFunds(n, p)
    BY <1>15, ClaimCivil
  <1>16. CASE \E p \in Payments : FailBackwards(n, p)
    BY <1>16, RefuseCivil
  <1>17. CASE CloseChannel(n)
    BY <1>17, CloseCivil
  <1> QED
    BY <1>1, <1>2, <1>3, <1>4, <1>5, <1>6, <1>7, <1>8, <1>9, <1>10, <1>11, <1>12, <1>13, <1>14, <1>15, <1>16, <1>17
       DEF Receive, Manager, User

\* A connection that is lost leaves what is under way alone.
LEMMA DropPolite ==
    ASSUME NEW c \in Channel, NEW f, f = remove_uncommitted_htlcs_and_mark_paused(c), DropView(c, f), Drops(c, f),
           NEW C2, C2 \subseteq Payments, NEW T2
    PROVE  PoliteStep(c, f, C2, T2)
  <1>1. /\ f.cell = c.cell /\ f.pendFails = c.pendFails /\ f.pendAdds = c.pendAdds /\ (f.localShut <=> c.localShut)
    <2>1. CASE c.disc
      BY <2>1 DEF remove_uncommitted_htlcs_and_mark_paused, UncommittedRemoved
    <2>2. CASE ~c.disc
      BY <2>2 DEF remove_uncommitted_htlcs_and_mark_paused, UncommittedRemoved, Channel
    <2> QED
      BY <2>1, <2>2
  <1>2. Passive(c, f)
    BY <1>1 DEF Passive, Drops
  <1>3. \A p \in Payments : OutSt(f, p) = IF OutSt(c, p) = "RemoteRemoved" THEN "Committed" ELSE OutSt(c, p)
    BY DEF DropView
  <1>4. \A p \in Payments : OutSt(c, p) # "none" => OutSt(f, p) # "none"
    BY <1>3
  <1>5. \A p \in C2 : OutSt(f, p) \in Removing => OutSt(c, p) \in Removing \/ T2[p] # {}
    BY <1>3 DEF Removing
  <1> QED
    BY <1>2, <1>4, <1>5, PassivePolite

\* The connection is lost.
LEMMA DisconnectPolite ==
    ASSUME NEW I, Before(I), InStep, BothOpen, AllPolite, Disconnect
    PROVE  AllPolite'
  <1>1. /\ \A n \in Nodes : ch'[n] = remove_uncommitted_htlcs_and_mark_paused(ch[n])
        /\ claimed' = claimed /\ told' = told /\ started' = started
    BY DEF Disconnect, BothOpen, payVars
  <1>2. ASSUME NEW n \in Nodes
        PROVE  Polite(n, ch'[n], started', claimed', told')
    <2> DEFINE c == ch[n]
               f == ch'[n]
    <2>1. Sound(n, I)
      BY PeerFacts, Facts
    <2>2. /\ NodeOK(n, c, I, started, claimable, claimed, refused) /\ c \in Channel
          /\ I \in [Payments -> Int] /\ IdsUnique(I)
          /\ claimable \in SUBSET Payments /\ claimed \in SUBSET Payments /\ refused \in SUBSET Payments
          /\ Forgot(c)
      BY <2>1 DEF Sound
    <2>3. f = remove_uncommitted_htlcs_and_mark_paused(c) /\ c = ch[n]
      BY <1>1
    <2>4. Polite(n, c, started, claimed, told)
      BY DEF AllPolite
    <2> HIDE DEF c, f
    <2>5. Drops(c, f) /\ DropView(c, f)
      BY <2>2, <2>3, DropEffect
    <2>6. PoliteStep(c, f, claimed', told')
      BY <1>1, <2>2, <2>3, <2>5, DropPolite
    <2>7. ToldGrows
      BY <1>1, TellsGrow
    <2>8. Polite(n, f, started', claimed', told')
      BY <1>1, <2>2, <2>3, <2>4, <2>6, <2>7, MoverPolite
    <2> QED
      BY <2>8 DEF f
  <1> QED
    BY <1>2 DEF AllPolite

\* At the start nothing is owed.
LEMMA InitPolite == Init => AllPolite
  <1> SUFFICES ASSUME Init, NEW n \in Nodes
               PROVE  Polite(n, ch[n], started, claimed, told)
    BY DEF AllPolite
  <1>1. /\ ch[n].cell = <<>> /\ ch[n].pendFails = {} /\ ch[n].pendAdds = {} /\ ~ch[n].localShut /\ started = {} /\ claimed = {}
    BY DEF Init
  <1> QED
    BY <1>1 DEF Polite, Modest, Heard, Sure

\* Every step of an open channel leaves both nodes polite, or ends the channel.
LEMMA NextPolite ==
    ASSUME NEW I, Before(I), InStep, BothOpen, AllPolite, Next, BothOpen'
    PROVE  AllPolite'
  <1>1. CASE Disconnect
    BY <1>1, DisconnectPolite
  <1>2. CASE Reconnect
    <2>1. ch' = ch /\ started' = started /\ claimed' = claimed /\ told' = told
      BY <1>2 DEF Reconnect, payVars
    <2> QED
      BY <2>1 DEF AllPolite
  <1>3. CASE \E n \in Nodes : Receive(n) \/ Manager(n) \/ User(n)
    <2>1. PICK n \in Nodes : Receive(n) \/ Manager(n) \/ User(n)
      BY <1>3
    <2>2. Sure(ch[n], claimed, told) /\ ch[n].fate = "open"
      BY DEF AllPolite, Polite, BothOpen
    <2>3. Civil(n) \/ Over(n)
      BY <2>1, <2>2, NodeCivil
    <2>4. ~Over(n)
      <3>1. ASSUME NEW f, Becomes(n, f)
            PROVE  f.fate = "open"
        BY <3>1, BecomesIs DEF BothOpen
      <3> QED
        BY <3>1 DEF Over
    <2>5. \A m \in Nodes : Polite(m, ch'[m], started', claimed', told')
      BY <2>3, <2>4, CivilPolite DEF AllPolite
    <2> QED
      BY <2>5 DEF AllPolite
  <1> QED
    BY <1>1, <1>2, <1>3 DEF Next

-----------------------------------------------------------------------------
(* Steps that do not end the channel by agreement.                         *)

\* f has the fields of a channel that say how it ends.
Ending(f) == "pendClosing" \in DOMAIN f /\ "fate" \in DOMAIN f

\* The channel is not closed by agreement, and no proposal to close it is put aside.
Unclosed(c, f) ==
    /\ Ending(f) /\ f.pendClosing \in {c.pendClosing, NoClosing}
    /\ f.fate = c.fate \/ f.fate \in Errors

\* A channel has these fields.
LEMMA EndingChannel ==
    ASSUME NEW c \in Channel
    PROVE  Ending(c) /\ Unclosed(c, c)
  BY DEF Ending, Unclosed, Channel

\* Two such steps in a row.
LEMMA UnclosedAgain ==
    ASSUME NEW c, NEW e, NEW f, Unclosed(c, e), Unclosed(e, f)
    PROVE  Unclosed(c, f)
  BY DEF Unclosed

\* The pieces of the channel's methods.
LEMMA UnclosedOnes ==
    ASSUME NEW c, Ending(c)
    PROVE  /\ \A why \in Errors : Unclosed(c, Ends(c, why))
           /\ \A raa, cs : Unclosed(c, monitor_updating_paused(c, raa, cs))
           /\ \A id, o : Unclosed(c, LocalRemove(c, id, o))
           /\ \A id, o : Unclosed(c, RemoteRemove(c, id, o))
           /\ \A p : Unclosed(c, PlaceHtlc(c, p))
           /\ \A x : Unclosed(c, [c EXCEPT !.cell = x])
           /\ \A x : Unclosed(c, SignedFirst(c, x))
           /\ Unclosed(c, UncommittedRemoved(c))
           /\ Unclosed(c, ApplyRevocation(c))
  <1>1. \A why \in Errors : Unclosed(c, Ends(c, why))
    BY DEF Unclosed, Ending, Ends
  <1>2. \A raa, cs : Unclosed(c, monitor_updating_paused(c, raa, cs))
    BY DEF Unclosed, Ending, monitor_updating_paused
  <1>3. \A id, o : Unclosed(c, LocalRemove(c, id, o))
    BY DEF Unclosed, Ending, LocalRemove
  <1>4. \A id, o : Unclosed(c, RemoteRemove(c, id, o))
    <2> TAKE id, o
    <2> DEFINE S == {IF h.id = id THEN [h EXCEPT !.st = "RemoteRemoved", !.out = o] ELSE h : h \in c.out}
    <2>1. RemoteRemove(c, id, o) = [c EXCEPT !.out = S] \/ RemoteRemove(c, id, o) = Ends(c, "removed_twice")
      BY DEF RemoteRemove
    <2> HIDE DEF S
    <2>2. Unclosed(c, [c EXCEPT !.out = S])
      BY DEF Unclosed, Ending
    <2>3. "removed_twice" \in Errors
      BY DEF Errors
    <2> QED
      BY <1>1, <2>1, <2>2, <2>3
  <1>5. \A p : Unclosed(c, PlaceHtlc(c, p))
    BY DEF Unclosed, Ending, PlaceHtlc
  <1>6. \A x : Unclosed(c, [c EXCEPT !.cell = x])
    BY DEF Unclosed, Ending
  <1>7. \A x : Unclosed(c, SignedFirst(c, x))
    BY DEF Unclosed, Ending, SignedFirst
  <1>8. Unclosed(c, UncommittedRemoved(c))
    BY DEF Unclosed, Ending, UncommittedRemoved
  <1>9. Unclosed(c, ApplyRevocation(c))
    <2>1. ApplyRevocation(c) = RevocationApplied(c)
      BY DEF ApplyRevocation
    <2> QED
      BY <2>1 DEF Unclosed, Ending, RevocationApplied
  <1> QED
    BY <1>1, <1>2, <1>3, <1>4, <1>5, <1>6, <1>7, <1>8, <1>9

-----------------------------------------------------------------------------
(* Commitments, the holding cell and revocations do not.                   *)

\* A commitment that is built does not close the channel.
LEMMA UnclosedBuild ==
    ASSUME NEW n, NEW c, Ending(c)
    PROVE  Unclosed(c, build_commitment_no_status_check(n, c)) /\ Unclosed(c, BuildAndPause(n, c))
  <1> DEFINE x == Promote(c.inb, "AwaitingRemoteRevokeToAnnounce", "AwaitingAnnouncedRemoteRevoke")
             y == Promote(c.out, "AwaitingRemoteRevokeToRemove", "AwaitingRemovedRemoteRevoke")
             d == [c EXCEPT !.inb = x, !.out = y, !.order = "RevokeAndACKFirst", !.awaitRaa = TRUE]
             b == build_commitment_no_status_check(n, c)
  <1>1. b = d \/ b = Ends(d, "assert")
    BY DEF build_commitment_no_status_check
  <1> HIDE DEF b, x, y
  <1>2. Unclosed(c, d) /\ Ending(d)
    BY DEF Unclosed, Ending
  <1> HIDE DEF d
  <1>3. Unclosed(c, b)
    <2>1. Unclosed(d, Ends(d, "assert"))
      BY <1>2, UnclosedOnes DEF Errors
    <2> QED
      BY <1>1, <1>2, <2>1, UnclosedAgain
  <1>4. Unclosed(b, monitor_updating_paused(b, FALSE, TRUE))
    BY <1>3, UnclosedOnes DEF Unclosed
  <1>5. Unclosed(c, monitor_updating_paused(b, FALSE, TRUE))
    BY <1>3, <1>4, UnclosedAgain
  <1> QED
    BY <1>3, <1>5 DEF b, BuildAndPause

\* A commitment that is accepted does not close the channel.
LEMMA UnclosedSigned ==
    ASSUME NEW n, NEW c, Ending(c), NEW tx
    PROVE  Unclosed(c, commitment_signed_update_monitor(n, c, tx))
  <1> DEFINE d == SignedFirst(c, tx)
             b == NeedsCommitment(c) /\ ~c.awaitRaa
             e == IF b THEN build_commitment_no_status_check(n, d) ELSE d
  <1>1. commitment_signed_update_monitor(n, c, tx) = monitor_updating_paused(e, TRUE, b)
    BY SignedSplit
  <1>2. Unclosed(c, d)
    BY UnclosedOnes
  <1> HIDE DEF d, b
  <1>3. Ending(d)
    BY <1>2 DEF Unclosed
  <1>4. Unclosed(c, build_commitment_no_status_check(n, d))
    BY <1>2, <1>3, UnclosedBuild, UnclosedAgain
  <1>5. Unclosed(c, e)
    BY <1>2, <1>4
  <1> HIDE DEF e
  <1>6. Unclosed(e, monitor_updating_paused(e, TRUE, b))
    BY <1>5, UnclosedOnes DEF Unclosed
  <1> QED
    BY <1>1, <1>5, <1>6, UnclosedAgain

\* Neither does a holding cell that is freed.
LEMMA UnclosedFree ==
    ASSUME NEW n, NEW c, Orderly(n, c), CellReady(c), NEW tight, NEW e \in Accs, e = maybe_free_holding_cell_htlcs(n, c, tight)
    PROVE  Unclosed(c, e.c)
  <1>1. c \in Channel /\ Held(c) /\ IdsOnce(c.inb)
    BY DEF Orderly
  <1>2. CASE ~can_generate_new_commitment(c)
    <2>1. e.c = c
      BY <1>2 DEF maybe_free_holding_cell_htlcs
    <2> QED
      BY <1>1, <2>1, EndingChannel
  <1>3. CASE can_generate_new_commitment(c)
    <2>1. e = free_holding_cell_htlcs(n, c, tight)
      BY <1>3 DEF maybe_free_holding_cell_htlcs
    <2>2. PICK x : /\ Emptied(c, x, Len(c.cell))
                   /\ e.did => e.c = BuildAndPause(n, x)
                   /\ ~e.did => e.c = x /\ SameHtlcs(c, x)
      BY <1>1, <1>3, <2>1, FreeEmpties
    <2>3. x \in Channel /\ SameTurn(c, x) /\ x.fate = c.fate
      BY <2>2 DEF Emptied
    <2>4. Ending(x)
      BY <2>3, EndingChannel
    <2>5. Unclosed(c, x)
      BY <2>3, <2>4 DEF Unclosed, SameTurn
    <2>6. Unclosed(c, BuildAndPause(n, x))
      BY <2>4, <2>5, UnclosedBuild, UnclosedAgain
    <2> QED
      BY <2>2, <2>5, <2>6 DEF Accs
  <1> QED
    BY <1>2, <1>3

\* Neither does a revocation.
LEMMA UnclosedRevoke ==
    ASSUME NEW n \in Nodes, NEW c, NEW I \in [Payments -> Int], NEW S,
           NEW L \in SUBSET Payments, NEW C \in SUBSET Payments, NEW R \in SUBSET Payments,
           NodeOK(n, c, I, S, L, C, R), IdsUnique(I), CellReady(c), NEW tight,
           NEW e \in Accs, e = maybe_free_holding_cell_htlcs(n, ApplyRevocation(c), tight),
           NEW r, r = revoke_and_ack(n, c, tight)
    PROVE  Unclosed(c, r.c)
  <1> DEFINE x == ApplyRevocation(c)
  <1>1. CellReady(x) /\ Orderly(n, x)
    BY ReadyRevoked
  <1>2. Unclosed(c, x)
    <2>1. c \in Channel
      BY DEF NodeOK
    <2> QED
      BY <2>1, EndingChannel, UnclosedOnes
  <1>3. e = maybe_free_holding_cell_htlcs(n, x, tight)
    OBVIOUS
  <1>4. Returned(n, e, r)
    BY RevokeReturns
  <1> HIDE DEF x
  <1>5. Unclosed(x, e.c)
    BY <1>1, <1>3, UnclosedFree
  <1>6. Unclosed(c, e.c) /\ Ending(e.c)
    BY <1>2, <1>5, UnclosedAgain DEF Unclosed
  <1>7. Unclosed(e.c, BuildAndPause(n, e.c)) /\ Unclosed(e.c, monitor_updating_paused(e.c, FALSE, FALSE))
    BY <1>6, UnclosedBuild, UnclosedOnes
  <1>8. Unclosed(c, BuildAndPause(n, e.c)) /\ Unclosed(c, monitor_updating_paused(e.c, FALSE, FALSE))
    BY <1>6, <1>7, UnclosedAgain
  <1> QED
    BY <1>4, <1>6, <1>8 DEF Returned

-----------------------------------------------------------------------------
(* Messages that have nothing to do with closing fees.                     *)

\* No closing_signed is on its way that was not before.
NoOffer == \A m \in Nodes : Has(net'[m], {"closing"}) => Has(net[m], {"closing"})

\* n's node takes a step that has nothing to do with closing fees.
Plain(n) == NoOffer /\ \E f : Becomes(n, f) /\ Unclosed(ch[n], f)

\* What leaves the queues alone, appends to one, or answers a message.
LEMMA NoOffers ==
    ASSUME NEW I, Before(I), NEW n \in Nodes
    PROVE  /\ net' = net => NoOffer
           /\ \A s \in Seq(Messages) : Sends(n, s) /\ ~Has(s, {"closing"}) => NoOffer
           /\ \A s \in Seq(Messages) : net[n] # <<>> /\ Replies(n, s) /\ ~Has(s, {"closing"}) => NoOffer
  <1>1. net \in [Nodes -> Seq(Messages)] /\ Peer(n) \in Nodes /\ Peer(n) # n
    <2>1. \A x \in Nodes : net[x] \in Seq(Messages)
      <3> TAKE x \in Nodes
      <3>1. net[x] \in Seq(Deliverable(x, I, claimed, refused))
        BY DEF Before, Decision
      <3>2. Deliverable(x, I, claimed, refused) \subseteq Messages
        BY DEF Deliverable
      <3> HIDE DEF Deliverable
      <3> QED
        BY <3>1, <3>2
    <2>2. NetOK(net, I, claimed, refused)
      BY NodeFacts DEF Before
    <2> QED
      BY <2>1, <2>2, PeerFacts DEF NetOK
  <1>2. ASSUME NEW s \in Seq(Messages), Sends(n, s), ~Has(s, {"closing"})
        PROVE  NoOffer
    <2>1. net'[Peer(n)] = net[Peer(n)] \o s /\ \A m \in Nodes : m # Peer(n) => net'[m] = net[m]
      BY <1>1, <1>2 DEF Sends
    <2>2. Has(net[Peer(n)] \o s, {"closing"}) => Has(net[Peer(n)], {"closing"})
      BY <1>1, <1>2, CatHas
    <2> QED
      BY <2>1, <2>2 DEF NoOffer
  <1>3. ASSUME NEW s \in Seq(Messages), net[n] # <<>>, Replies(n, s), ~Has(s, {"closing"})
        PROVE  NoOffer
    <2>1. /\ net'[Peer(n)] = net[Peer(n)] \o s /\ net'[n] = Tail(net[n])
          /\ \A m \in Nodes : m = n \/ m = Peer(n)
      BY <1>1, <1>3, PeerFacts DEF Replies
    <2>2. Has(net[Peer(n)] \o s, {"closing"}) => Has(net[Peer(n)], {"closing"})
      BY <1>1, <1>3, CatHas
    <2>3. Has(Tail(net[n]), {"closing"}) => Has(net[n], {"closing"})
      BY <1>1, <1>3, TailHas
    <2> QED
      BY <2>1, <2>2, <2>3 DEF NoOffer
  <1> QED
    BY <1>2, <1>3 DEF NoOffer

\* Nothing is sent, or a shutdown.
LEMMA NoClosingIn ==
    /\ <<>> \in Seq(Messages) /\ ~Has(<<>>, {"closing"})
    /\ <<[t |-> "shutdown"]>> \in Seq(Messages) /\ ~Has(<<[t |-> "shutdown"]>>, {"closing"})
  <1>1. [t |-> "shutdown"] \in Messages
    BY DEF Messages
  <1>2. <<[t |-> "shutdown"]>> \in Seq(Messages)
    BY <1>1
  <1> QED
    BY <1>2 DEF Has

\* Updates of the peer.
LEMMA UpdatePlain ==
    ASSUME NEW I, Before(I), NEW n \in Nodes, UpdateAddHtlc(n) \/ UpdateFulfillHtlc(n) \/ UpdateFailHtlc(n)
    PROVE  Plain(n)
  <1> DEFINE c == ch[n]
  <1>1. Ending(c)
    BY NodeFacts, EndingChannel DEF Before
  <1>2. net[n] # <<>> /\ Replies(n, <<>>)
    BY DEF UpdateAddHtlc, UpdateFulfillHtlc, UpdateFailHtlc, Incoming
  <1>3. NoOffer
    BY <1>2, NoOffers, NoClosingIn
  <1>4. {"add_after_shutdown", "reestablish", "htlc_id"} \subseteq Errors
    BY DEF Errors
  <1>5. \A why \in Errors : Unclosed(c, Ends(c, why))
    BY <1>1, UnclosedOnes
  <1>6. CASE UpdateAddHtlc(n)
    <2>1. PICK x, y : \/ \E why \in Errors : Becomes(n, Ends(c, why))
                      \/ Becomes(n, [c EXCEPT !.nextCpId = x, !.inb = y])
      BY <1>4, <1>6 DEF UpdateAddHtlc
    <2>2. Unclosed(c, [c EXCEPT !.nextCpId = x, !.inb = y])
      BY <1>1 DEF Unclosed, Ending
    <2> QED
      BY <1>3, <1>5, <2>1, <2>2 DEF Plain
  <1>7. CASE UpdateFulfillHtlc(n) \/ UpdateFailHtlc(n)
    <2>1. PICK id, o : Becomes(n, Ends(c, "reestablish")) \/ Becomes(n, RemoteRemove(c, id, o))
      BY <1>7 DEF UpdateFulfillHtlc, UpdateFailHtlc
    <2>2. Unclosed(c, RemoteRemove(c, id, o))
      BY <1>1, UnclosedOnes
    <2> QED
      BY <1>3, <1>4, <1>5, <2>1, <2>2 DEF Plain
  <1> QED
    BY <1>6, <1>7

\* commitment_signed and revoke_and_ack
LEMMA CommitPlain ==
    ASSUME NEW I, Before(I), InStep, NEW n \in Nodes, CommitmentSigned(n) \/ RevokeAndAck(n)
    PROVE  Plain(n)
  <1> DEFINE c == ch[n]
  <1>1. Ending(c)
    BY NodeFacts, EndingChannel DEF Before
  <1>2. net[n] # <<>> /\ Replies(n, <<>>)
    BY DEF CommitmentSigned, RevokeAndAck, Incoming
  <1>3. NoOffer
    BY <1>2, NoOffers, NoClosingIn
  <1>4. {"assert", "signature", "reestablish", "update_while_closing", "revocation"} \subseteq Errors
    BY DEF Errors
  <1>5. \A why \in Errors : Unclosed(c, Ends(c, why))
    BY <1>1, UnclosedOnes
  <1>6. CASE CommitmentSigned(n)
    <2>1. PICK tx : \/ \E why \in Errors : Becomes(n, Ends(c, why))
                    \/ Becomes(n, commitment_signed_update_monitor(n, c, tx))
      BY <1>4, <1>6 DEF CommitmentSigned
    <2>2. Unclosed(c, commitment_signed_update_monitor(n, c, tx))
      BY <1>1, UnclosedSigned
    <2> QED
      BY <1>3, <1>5, <2>1, <2>2 DEF Plain
  <1>7. CASE RevokeAndAck(n)
    <2>1. CASE RevokeError(c, Head(net[n])) # "open"
      <3>1. Becomes(n, Ends(c, RevokeError(c, Head(net[n]))))
        BY <1>7, <2>1 DEF RevokeAndAck
      <3>2. RevokeError(c, Head(net[n])) \in Errors
        BY <1>4, <2>1 DEF RevokeError
      <3> QED
        BY <1>3, <1>5, <3>1, <3>2 DEF Plain
    <2>2. CASE RevokeError(c, Head(net[n])) = "open"
      <3>1. PICK tight, r : r = revoke_and_ack(n, c, tight) /\ Becomes(n, r.c)
        BY <1>7, <2>2 DEF RevokeAndAck
      <3>2. /\ NodeOK(n, c, I, started, claimable, claimed, refused)
            /\ I \in [Payments -> Int] /\ IdsUnique(I) /\ c \in Channel
            /\ claimable \in SUBSET Payments /\ claimed \in SUBSET Payments /\ refused \in SUBSET Payments
            /\ \A q \in claimable \cup claimed \cup refused : I[q] # -1
            /\ \A p \in Payments : I[p] # -1 => I[p] >= 0 /\ p \in started /\ (PayFrom[p] = n => I[p] < c.nextId)
        BY NodeFacts DEF Before
      <3>3. CellReady(c)
        BY Facts, PeerFacts DEF Sound
      <3>4. PICK x : x = ApplyRevocation(c)
        OBVIOUS
      <3>5. NodeOK(n, x, I, started, claimable, claimed, refused) /\ x.nextId = c.nextId
        BY <3>2, <3>3, <3>4, RevokedKeeps, ReadyRevoked DEF RevokedTo
      <3>6. PICK e : e = maybe_free_holding_cell_htlcs(n, x, tight)
        OBVIOUS
      <3>7. e \in Accs
        BY <3>2, <3>5, <3>6, MaybeFreeKeeps
      <3>8. Unclosed(c, r.c)
        BY <3>1, <3>2, <3>3, <3>4, <3>6, <3>7, UnclosedRevoke
      <3> QED
        BY <1>3, <3>1, <3>8 DEF Plain
    <2> QED
      BY <2>1, <2>2
  <1> QED
    BY <1>6, <1>7

-----------------------------------------------------------------------------
(* Calls that have nothing to do with closing fees.                        *)

\* channel_reestablish
LEMMA ReestablishPlain ==
    ASSUME NEW I, Before(I), NEW J, Then(J), NEW n \in Nodes, ChannelReestablish(n)
    PROVE  Plain(n)
  <1> DEFINE c == ch[n]
             x == Head(net[n])
             raa == x.nextRemote + 1 = c.holderNum - 1
             cs == x.nextLocal + 1 = c.cpNum + (IF c.awaitRaa THEN 1 ELSE 0)
             f == [c EXCEPT !.disc = FALSE, !.pendRaa = @ \/ (raa /\ c.monBusy), !.pendCs = @ \/ (cs /\ c.monBusy)]
             s == get_outbound_shutdown(f)
             y == raa /\ ~c.monBusy
             z == cs /\ ~c.monBusy
             v == Resumption(n, f, y, z)
  <1>1. c \in Channel /\ Ending(c)
    BY NodeFacts, EndingChannel DEF Before
  <1>2. net[n] # <<>>
    BY DEF ChannelReestablish, Incoming
  <1>3. CASE ReestablishError(c, x) # "open"
    <2>1. Becomes(n, Ends(c, ReestablishError(c, x))) /\ Replies(n, <<>>)
      BY <1>3 DEF ChannelReestablish
    <2>2. ReestablishError(c, x) \in Errors
      BY <1>3 DEF ReestablishError, Errors
    <2>3. Unclosed(c, Ends(c, ReestablishError(c, x)))
      BY <1>1, <2>2, UnclosedOnes
    <2>4. NoOffer
      BY <1>2, <2>1, NoOffers, NoClosingIn
    <2> QED
      BY <2>1, <2>3, <2>4 DEF Plain
  <1>4. CASE ReestablishError(c, x) = "open"
    <2>1. Becomes(n, f) /\ Replies(n, s \o v)
      BY <1>4 DEF ChannelReestablish
    <2>2. Unclosed(c, f)
      <3> HIDE DEF raa, cs
      <3> QED
        BY <1>1 DEF Unclosed, Ending
    <2>3. s \in Seq(Messages) /\ ~Has(s, {"closing"})
      BY NoClosingIn DEF get_outbound_shutdown
    <2>4. v \in Seq(Messages) /\ ~Has(v, {"closing"})
      <3>1. Decision(J, ch', net', started', claimable', claimed', refused', told') /\ ch'[n] = f
        BY <2>1, <1>1 DEF Then, Becomes, Before, Decision
      <3>2. /\ NodeOK(n, f, J, started', claimable', claimed', refused') /\ J \in [Payments -> Int] /\ IdsUnique(J)
            /\ claimable' \in SUBSET Payments /\ claimed' \in SUBSET Payments /\ refused' \in SUBSET Payments
        BY <3>1, NodeFacts
      <3>3. y \in BOOLEAN /\ z \in BOOLEAN
        OBVIOUS
      <3>4. Resent(n, f, y, z, Resumption(n, f, y, z))
        <4> HIDE DEF f, y, z
        <4> QED
          BY <3>2, <3>3, ResumptionResent
      <3>5. Resent(n, f, y, z, v)
        BY <3>4
      <3> HIDE DEF v, f, y, z
      <3> QED
        BY <3>5 DEF Resent, Has
    <2> HIDE DEF s, v, f
    <2>5. s \o v \in Seq(Messages) /\ ~Has(s \o v, {"closing"})
      BY <2>3, <2>4, CatHas
    <2>6. NoOffer
      BY <1>2, <2>1, <2>5, NoOffers
    <2> QED
      BY <2>1, <2>2, <2>6 DEF Plain
  <1> QED
    BY <1>3, <1>4

\* monitor_updating_restored
LEMMA RestoredPlain ==
    ASSUME NEW I, Before(I), NEW n \in Nodes, MonitorRestored(n)
    PROVE  Plain(n)
  <1> DEFINE c == ch[n]
             f == [c EXCEPT !.monBusy = FALSE, !.pendRaa = FALSE,
                            !.pendCs = FALSE, !.pendAdds = {}, !.pendFails = {}]
             s == IF c.disc THEN <<>> ELSE Resumption(n, c, c.pendRaa, c.pendCs)
  <1>1. c \in Channel /\ Ending(c)
    BY NodeFacts, EndingChannel DEF Before
  <1>2. Becomes(n, f) /\ Sends(n, s)
    BY DEF MonitorRestored
  <1>3. Unclosed(c, f)
    BY <1>1 DEF Unclosed, Ending
  <1>4. s \in Seq(Messages) /\ ~Has(s, {"closing"})
    <2>1. /\ NodeOK(n, c, I, started, claimable, claimed, refused)
          /\ I \in [Payments -> Int] /\ IdsUnique(I)
          /\ claimable \in SUBSET Payments /\ claimed \in SUBSET Payments /\ refused \in SUBSET Payments
      BY NodeFacts DEF Before
    <2> DEFINE raa == c.pendRaa
               cs == c.pendCs
               v == Resumption(n, c, raa, cs)
    <2>2. raa \in BOOLEAN /\ cs \in BOOLEAN
      BY <1>1 DEF Channel
    <2>3. Resent(n, c, raa, cs, v)
      <3> HIDE DEF c, raa, cs
      <3> QED
        BY <2>1, <2>2, ResumptionResent
    <2>4. v \in Seq(Messages) /\ ~Has(v, {"closing"})
      <3> HIDE DEF v, c, raa, cs
      <3> QED
        BY <2>3 DEF Resent, Has
    <2> QED
      BY <2>4, NoClosingIn
  <1>5. NoOffer
    <2> HIDE DEF s
    <2> QED
      BY <1>2, <1>4, NoOffers
  <1> QED
    BY <1>2, <1>3, <1>5 DEF Plain

\* shutdown and close_channel
LEMMA ShutdownPlain ==
    ASSUME NEW I, Before(I), NEW n \in Nodes, ShutdownReceived(n) \/ CloseChannel(n)
    PROVE  Plain(n)
  <1> DEFINE c == ch[n]
  <1>1. Ending(c)
    BY NodeFacts, EndingChannel DEF Before
  <1>2. NoOffer
    <2>1. CASE ShutdownReceived(n)
      <3>1. net[n] # <<>> /\ (Replies(n, <<>>) \/ Replies(n, <<[t |-> "shutdown"]>>))
        BY <2>1 DEF ShutdownReceived, Incoming
      <3> QED
        BY <3>1, NoOffers, NoClosingIn
    <2>2. CASE CloseChannel(n)
      <3>1. Sends(n, <<[t |-> "shutdown"]>>)
        BY <2>2 DEF CloseChannel
      <3> QED
        BY <3>1, NoOffers, NoClosingIn
    <2> QED
      BY <2>1, <2>2
  <1>3. \E x : \/ Becomes(n, Ends(c, "reestablish")) \/ Becomes(n, Ends(c, "shutdown_with_adds"))
               \/ Becomes(n, [c EXCEPT !.remoteShut = TRUE, !.localShut = TRUE, !.cell = x])
               \/ Becomes(n, [c EXCEPT !.localShut = TRUE, !.cell = x])
    BY DEF ShutdownReceived, CloseChannel
  <1>4. /\ Unclosed(c, Ends(c, "reestablish")) /\ Unclosed(c, Ends(c, "shutdown_with_adds"))
    BY <1>1, UnclosedOnes DEF Errors
  <1>5. \A x : /\ Unclosed(c, [c EXCEPT !.remoteShut = TRUE, !.localShut = TRUE, !.cell = x])
               /\ Unclosed(c, [c EXCEPT !.localShut = TRUE, !.cell = x])
    BY <1>1 DEF Unclosed, Ending
  <1> QED
    BY <1>2, <1>3, <1>4, <1>5 DEF Plain

\* send_payment, claim_funds and fail_htlc_backwards
LEMMA UserPlain ==
    ASSUME NEW I, Before(I), NEW n \in Nodes, NEW p \in Payments,
           SendPayment(n, p) \/ ClaimFunds(n, p) \/ FailBackwards(n, p)
    PROVE  Plain(n)
  <1> DEFINE c == ch[n]
  <1>1. Ending(c) /\ Unclosed(c, c)
    BY NodeFacts, EndingChannel DEF Before
  <1>2. net' = net
    BY DEF SendPayment, ClaimFunds, FailBackwards
  <1>3. NoOffer
    BY <1>2, NoOffers
  <1>4. CASE SendPayment(n, p)
    <2> DEFINE e == PlaceHtlc(c, p)
    <2>1. Becomes(n, BuildAndPause(n, e)) \/ Becomes(n, e)
      BY <1>4 DEF SendPayment
    <2>2. Unclosed(c, e)
      BY <1>1, UnclosedOnes
    <2> HIDE DEF e
    <2>3. Unclosed(c, BuildAndPause(n, e))
      BY <2>2, UnclosedBuild, UnclosedAgain DEF Unclosed
    <2> QED
      BY <1>3, <2>1, <2>2, <2>3 DEF Plain
  <1>5. CASE ClaimFunds(n, p)
    <2>1. PICK id, x : \/ Becomes(n, BuildAndPause(n, LocalRemove(c, id, "fulfil")))
                       \/ Becomes(n, monitor_updating_paused([c EXCEPT !.cell = x], FALSE, FALSE))
      BY <1>5 DEF ClaimFunds
    <2>2. PICK e, g : e = LocalRemove(c, id, "fulfil") /\ g = [c EXCEPT !.cell = x]
      OBVIOUS
    <2>3. Unclosed(c, e) /\ Unclosed(c, g)
      BY <1>1, <2>2, UnclosedOnes
    <2>4. Unclosed(c, BuildAndPause(n, e))
      BY <2>3, UnclosedBuild, UnclosedAgain DEF Unclosed
    <2>5. Unclosed(c, monitor_updating_paused(g, FALSE, FALSE))
      BY <2>3, UnclosedOnes, UnclosedAgain DEF Unclosed
    <2> QED
      BY <1>3, <2>1, <2>2, <2>4, <2>5 DEF Plain
  <1>6. CASE FailBackwards(n, p)
    <2>1. \E x : Becomes(n, c) \/ Becomes(n, [c EXCEPT !.cell = x])
      BY <1>6 DEF FailBackwards
    <2>2. \A x : Unclosed(c, [c EXCEPT !.cell = x])
      BY <1>1, UnclosedOnes
    <2> QED
      BY <1>1, <1>3, <2>1, <2>2 DEF Plain
  <1> QED
    BY <1>4, <1>5, <1>6

\* check_free_holding_cells
LEMMA FreePlain ==
    ASSUME NEW I, Before(I), InStep, NEW n \in Nodes, FreeHoldingCells(n)
    PROVE  Plain(n)
  <1> DEFINE c == ch[n]
  <1>1. /\ NodeOK(n, c, I, started, claimable, claimed, refused)
        /\ I \in [Payments -> Int] /\ IdsUnique(I)
        /\ claimable \in SUBSET Payments /\ claimed \in SUBSET Payments /\ refused \in SUBSET Payments
        /\ \A q \in claimable \cup claimed \cup refused : I[q] # -1
        /\ \A p \in Payments : I[p] # -1 => I[p] >= 0 /\ p \in started /\ (PayFrom[p] = n => I[p] < c.nextId)
    BY NodeFacts DEF Before
  <1>2. Orderly(n, c) /\ CellReady(c)
    BY Facts, PeerFacts DEF Sound
  <1>3. PICK tight, e : e = maybe_free_holding_cell_htlcs(n, c, tight) /\ Becomes(n, e.c) /\ net' = net
    BY DEF FreeHoldingCells
  <1>4. e \in Accs
    BY <1>1, <1>3, MaybeFreeKeeps
  <1>5. Unclosed(c, e.c)
    BY <1>2, <1>3, <1>4, UnclosedFree
  <1>6. NoOffer
    BY <1>3, NoOffers
  <1> QED
    BY <1>3, <1>5, <1>6 DEF Plain

-----------------------------------------------------------------------------
(* Closing fees are offered, and accepted, when nothing is left to do.     *)

\* While a closing_signed is on its way to n's node, or put aside by it, the node that sent it is tidy.
Parting(n, K, N) ==
    Has(N[n], {"closing"}) \/ K[n].pendClosing # NoClosing => Tidy(K[Peer(n)])

\* n's node offers to close, and closes, only when that is due.
Careful(n) ==
    /\ \E f : Becomes(n, f)
    /\ Has(net'[Peer(n)], {"closing"}) => Has(net[Peer(n)], {"closing"}) \/ Tidy(ch[n])
    /\ Has(net'[n], {"closing"}) \/ ch'[n].pendClosing # NoClosing
            => Has(net[n], {"closing"}) \/ ch[n].pendClosing # NoClosing
    /\ ch'[n].fate = "closed" => Tidy(ch[n]) /\ Tidy(ch[Peer(n)])

\* A channel without HTLCs that is shut down on both sides and waits for nothing is tidy.
LEMMA ReadyIsTidy ==
    ASSUME NEW c \in Channel, Queued(c), Modest(c), c.inb = {}, c.out = {}, c.localShut, c.remoteShut, ~c.monBusy
    PROVE  Tidy(c)
  <1>1. c.cell \in Seq(Updates)
    BY DEF Channel
  <1>2. AddsIn(c) = {} /\ c.pendFails = {} /\ c.pendAdds = {}
    BY DEF Modest
  <1>3. ~\E i \in 1 .. Len(c.cell) : c.cell[i].op # "add"
    BY DEF Queued
  <1>4. ~\E i \in 1 .. Len(c.cell) : c.cell[i].op = "add"
    <2> SUFFICES ASSUME NEW i \in 1 .. Len(c.cell), c.cell[i].op = "add"
                 PROVE  FALSE
      OBVIOUS
    <2>1. c.cell[i] \in CellAdds(c)
      BY <1>1 DEF CellAdds, ToSet
    <2>2. c.cell[i].pay \in AddsIn(c)
      BY <2>1 DEF AddsIn
    <2> QED
      BY <1>2, <2>2
  <1>5. Len(c.cell) \in Nat /\ ~(1 \in 1 .. Len(c.cell))
    BY <1>1, <1>3, <1>4
  <1>6. c.cell = <<>>
    BY <1>1, <1>5
  <1> QED
    BY <1>2, <1>6 DEF Tidy

\* A step that has nothing to do with closing fees.
LEMMA PlainCareful ==
    ASSUME NEW I, Before(I), NEW n \in Nodes, ch[n].fate = "open", Plain(n)
    PROVE  Careful(n)
  <1>1. PICK f : Becomes(n, f) /\ Unclosed(ch[n], f)
    BY DEF Plain
  <1>2. ch'[n] = f
    BY <1>1, BecomesIs
  <1>3. ch'[n].fate # "closed"
    BY <1>1, <1>2 DEF Unclosed, Errors
  <1>4. ch'[n].pendClosing # NoClosing => ch[n].pendClosing # NoClosing
    BY <1>1, <1>2 DEF Unclosed
  <1>5. NoOffer /\ Peer(n) \in Nodes
    BY PeerFacts DEF Plain
  <1> QED
    BY <1>1, <1>3, <1>4, <1>5 DEF Careful, NoOffer

\* maybe_propose_closing_signed
LEMMA ProposeCareful ==
    ASSUME NEW I, Before(I), InStep, AllPolite, NEW n \in Nodes, ProposeClosing(n)
    PROVE  Careful(n)
  <1> DEFINE c == ch[n]
  <1>1. c \in Channel /\ Queued(c)
    BY Facts, PeerFacts DEF Sound
  <1>2. Modest(c)
    BY DEF AllPolite, Polite
  <1>3. /\ closing_negotiation_ready(c) /\ Becomes(n, [c EXCEPT !.feeSent = 1])
        /\ \E s : Sends(n, s)
        /\ c.fate = "open"
    BY DEF ProposeClosing, Open
  <1>4. Tidy(c)
    BY <1>1, <1>2, <1>3, ReadyIsTidy DEF closing_negotiation_ready
  <1>5. ch'[n].pendClosing = c.pendClosing /\ ch'[n].fate = "open"
    <2>1. ch'[n] = [c EXCEPT !.feeSent = 1]
      BY <1>3, BecomesIs
    <2> QED
      BY <1>1, <1>3, <2>1 DEF Channel
  <1>6. net'[n] = net[n]
    <2>1. NetOK(net, I, claimed, refused)
      BY NodeFacts DEF Before
    <2> QED
      BY <1>3, <2>1, PeerFacts DEF Sends, NetOK
  <1> QED
    BY <1>3, <1>4, <1>5, <1>6 DEF Careful

\* closing_signed
LEMMA ClosingCareful ==
    ASSUME NEW I, Before(I), InStep, AllPolite, NEW n \in Nodes, Parting(n, ch, net), ClosingSigned(n)
    PROVE  Careful(n)
  <1> DEFINE c == ch[n]
  <1>1. c \in Channel /\ Queued(c) /\ net[n] \in Seq(Messages)
    BY Facts, PeerFacts DEF Sound, Linked
  <1>2. Modest(c)
    BY DEF AllPolite, Polite
  <1>3. net[n] # <<>> /\ Head(net[n]).t = "closing" /\ c.fate = "open"
    BY DEF ClosingSigned, Incoming, Open
  <1>4. Has(net[n], {"closing"})
    BY <1>1, <1>3, TailHas
  <1>5. Tidy(ch[Peer(n)])
    BY <1>4 DEF Parting
  <1>6. CASE ~ClosingError(n, c) /\ ~c.monBusy
    <2>1. Tidy(c)
      BY <1>1, <1>2, <1>6, ReadyIsTidy DEF ClosingError
    <2>2. \E f : Becomes(n, f)
      BY <1>6 DEF ClosingSigned
    <2> QED
      BY <1>4, <1>5, <2>1, <2>2 DEF Careful
  <1>7. CASE ClosingError(n, c) \/ c.monBusy
    <2>1. Replies(n, <<>>) /\ \/ Becomes(n, Ends(c, "closing_order"))
                              \/ \E m : Becomes(n, [c EXCEPT !.pendClosing = m])
      BY <1>7 DEF ClosingSigned
    <2>2. NoOffer
      BY <1>3, <2>1, NoOffers, NoClosingIn
    <2>3. PICK f : Becomes(n, f) /\ f.fate # "closed"
      <3>1. Ends(c, "closing_order").fate # "closed"
        BY <1>1 DEF Ends, Channel
      <3>2. \A m : [c EXCEPT !.pendClosing = m].fate # "closed"
        BY <1>1, <1>3 DEF Channel
      <3> QED
        BY <2>1, <3>1, <3>2
    <2>4. ch'[n].fate # "closed"
      BY <2>3, BecomesIs
    <2> QED
      BY <1>4, <2>2, <2>3, <2>4, PeerFacts DEF Careful, NoOffer
  <1> QED
    BY <1>6, <1>7

\* A closing_signed that was put aside is answered.
LEMMA DeferredCareful ==
    ASSUME NEW I, Before(I), InStep, AllPolite, NEW n \in Nodes, Parting(n, ch, net), AnswerDeferredClosing(n)
    PROVE  Careful(n)
  <1> DEFINE c == ch[n]
             e == [c EXCEPT !.pendClosing = NoClosing]
  <1>1. c \in Channel /\ Queued(c)
    BY Facts, PeerFacts DEF Sound
  <1>2. Modest(c)
    BY DEF AllPolite, Polite
  <1>3. closing_negotiation_ready(e) /\ c.pendClosing # NoClosing /\ \E f : Becomes(n, f)
    BY DEF AnswerDeferredClosing
  <1>4. closing_negotiation_ready(c)
    BY <1>1, <1>3 DEF closing_negotiation_ready, Channel
  <1>5. Tidy(c)
    BY <1>1, <1>2, <1>4, ReadyIsTidy DEF closing_negotiation_ready
  <1>6. Tidy(ch[Peer(n)])
    BY <1>3 DEF Parting
  <1> QED
    BY <1>3, <1>5, <1>6 DEF Careful

\* Whatever a node of an open channel does.
LEMMA NodeCareful ==
    ASSUME NEW I, Before(I), InStep, AllPolite, NEW J, Then(J), NEW n \in Nodes, ch[n].fate = "open", Parting(n, ch, net),
           Receive(n) \/ Manager(n) \/ User(n)
    PROVE  Careful(n)
  <1>1. CASE UpdateAddHtlc(n) \/ UpdateFulfillHtlc(n) \/ UpdateFailHtlc(n)
    BY <1>1, UpdatePlain, PlainCareful
  <1>2. CASE CommitmentSigned(n) \/ RevokeAndAck(n)
    BY <1>2, CommitPlain, PlainCareful
  <1>3. CASE ChannelReestablish(n)
    BY <1>3, ReestablishPlain, PlainCareful
  <1>4. CASE ShutdownReceived(n) \/ CloseChannel(n)
    BY <1>4, ShutdownPlain, PlainCareful
  <1>5. CASE ClosingSigned(n)
    BY <1>5, ClosingCareful
  <1>6. CASE MessageAfterClose(n)
    BY <1>6 DEF MessageAfterClose
  <1>7. CASE MonitorRestored(n)
    BY <1>7, RestoredPlain, PlainCareful
  <1>8. CASE FreeHoldingCells(n)
    BY <1>8, FreePlain, PlainCareful
  <1>9. CASE ProposeClosing(n)
    BY <1>9, ProposeCareful
  <1>10. CASE AnswerDeferredClosing(n)
    BY <1>10, DeferredCareful
  <1>11. CASE \E p \in Payments : SendPayment(n, p) \/ ClaimFunds(n, p) \/ FailBackwards(n, p)
    BY <1>11, UserPlain, PlainCareful
  <1> QED
    BY <1>1, <1>2, <1>3, <1>4, <1>5, <1>6, <1>7, <1>8, <1>9, <1>10, <1>11 DEF Receive, Manager, User

-----------------------------------------------------------------------------
(* Who offers to close is tidy; who closes leaves both settled.            *)

\* Who offers to close is tidy.
AllParting == \A n \in Nodes : Parting(n, ch, net)

\* A node of an open channel moves.
LEMMA NodeParting ==
    ASSUME NEW I, Before(I), NEW n \in Nodes, ch[n].fate = "open", Careful(n), AllParting,
           Receive(n) \/ Manager(n) \/ User(n)
    PROVE  AllParting'
  <1> DEFINE m == Peer(n)
  <1>1. m \in Nodes /\ Peer(m) = n /\ \A x \in Nodes : x = n \/ x = m
    BY PeerFacts
  <1>2. ch'[m] = ch[m]
    BY BecomesIs DEF Careful
  <1>3. Tidy(ch[n]) => Tidy(ch'[n])
    <2> SUFFICES ASSUME Tidy(ch[n]) PROVE Tidy(ch'[n])
      OBVIOUS
    <2>1. ~MessageAfterClose(n)
      BY DEF MessageAfterClose
    <2>2. Settling(n)
      BY <2>1, TidyReceives, TidyManages
    <2> QED
      BY <2>2 DEF Settling, Rests
  <1>4. Parting(n, ch', net')
    BY <1>1, <1>2 DEF AllParting, Parting, Careful
  <1>5. Parting(m, ch', net')
    BY <1>1, <1>2, <1>3 DEF AllParting, Parting, Careful
  <1>6. \A x \in Nodes : Parting(x, ch', net')
    BY <1>1, <1>4, <1>5
  <1> QED
    BY <1>6 DEF AllParting, Parting

\* The connection is lost or made again.
LEMMA LinkParting ==
    ASSUME NEW I, Before(I), BothOpen, AllParting, Disconnect \/ Reconnect
    PROVE  AllParting'
  <1>1. ASSUME NEW n \in Nodes
        PROVE  Parting(n, ch', net')
    <2>1. Peer(n) \in Nodes
      BY PeerFacts
    <2>2. CASE Disconnect
      <3>1. /\ ch'[n] = UncommittedRemoved(ch[n]) /\ net'[n] = <<>>
            /\ ch'[Peer(n)] = remove_uncommitted_htlcs_and_mark_paused(ch[Peer(n)])
        BY <2>1, <2>2 DEF Disconnect, BothOpen, remove_uncommitted_htlcs_and_mark_paused
      <3>2. ch[n] \in Channel /\ ch[Peer(n)] \in Channel
        BY <2>1, NodeFacts DEF Before
      <3>3. ch'[n].pendClosing # NoClosing => ch[n].pendClosing # NoClosing
        BY <3>1, <3>2, EndingChannel, UnclosedOnes DEF Unclosed
      <3>4. Tidy(ch[Peer(n)]) => Tidy(ch'[Peer(n)])
        BY <3>1, <3>2, TidyDrops DEF Rests
      <3>5. ~Has(net'[n], {"closing"})
        BY <3>1, EmptyHas
      <3> QED
        BY <3>3, <3>4, <3>5 DEF AllParting, Parting
    <2>3. CASE Reconnect
      <3>1. ch' = ch /\ net'[n] = <<get_channel_reestablish(ch[Peer(n)])>>
        BY <2>1, <2>3 DEF Reconnect, BothOpen
      <3>2. ~Has(net'[n], {"closing"})
        BY <3>1 DEF Has, get_channel_reestablish
      <3> QED
        BY <3>1, <3>2 DEF AllParting, Parting
    <2> QED
      BY <2>2, <2>3
  <1> QED
    BY <1>1 DEF AllParting, Parting

\* Nobody has offered to close at the start.
LEMMA InitParting == Init => AllParting
  <1> SUFFICES ASSUME Init, NEW n \in Nodes PROVE Parting(n, ch, net)
    BY DEF AllParting
  <1>1. ch[n].pendClosing = NoClosing /\ net[n] = <<>>
    BY DEF Init
  <1> QED
    BY <1>1, EmptyHas DEF Parting

\* Two tidy channels are settled.
LEMMA TidySettled ==
    ASSUME NEW I, Before(I), InStep, AllPolite, \A n \in Nodes : Tidy(ch[n])
    PROVE  Settled(ch, claimable, started, told)
  <1>1. \A n \in Nodes : \A p : OutSt(ch[n], p) = "none" /\ InSt(ch[n], p) = "none"
    BY DEF Tidy, OutSt, InSt, StOf
  <1>2. claimable \subseteq Payments /\ started \subseteq Payments
    BY DEF Before, Decision, DecidedOK, IdsOK
  <1>3. ASSUME NEW n \in Nodes
        PROVE  Clean(n, ch[n], ch[Peer(n)])
    <2> DEFINE c == ch[n]
               m == Peer(n)
               d == ch[m]
    <2>1. m \in Nodes /\ Peer(m) = n /\ \A x \in Nodes : x = n \/ x = m
      BY PeerFacts
    <2>2. Linked(n, m) /\ c \in Channel
      BY <2>1, Facts DEF Sound
    <2>3. /\ Counted(c) /\ Counted(d) /\ Turns(d, c) /\ Numbers(c, d)
          /\ \A p \in From(n) : OutputsOf(c, d, p)
          /\ \A p \in From(m) : OutputsOf(d, c, p)
      BY <2>2 DEF Linked, Agreed, Link, Half, Fits
    <2>4. \A p \in Payments : p \in From(n) \/ p \in From(m)
      BY <2>1, ChannelAssumption DEF From
    <2>5. c.txs.cur.htlcs \subseteq Payments /\ c.txs.prev.htlcs \subseteq Payments
      BY <2>2 DEF Channel, Txs
    <2>6. \A p : OutSt(c, p) = "none" /\ OutSt(d, p) = "none"
      BY <1>1, <2>1
    <2>7. \A p \in From(n) : PayFrom[p] = n
      BY DEF From
    <2>8. Clean(n, c, d)
      <3> HIDE DEF c, d, m
      <3>1. c.txs.cur.htlcs = {}
        BY <2>3, <2>4, <2>5, <2>6 DEF OutputsOf
      <3>2. ASSUME c.txs.prev.num >= d.cpNum - 1, NEW p \in c.txs.prev.htlcs
            PROVE  PayFrom[p] = n
        <4>1. OwesRaa(c, d)
          BY <2>3, <3>1, <3>2, StillValid
        <4>2. p \notin From(m)
          BY <2>3, <2>6, <3>2, <4>1 DEF OutputsOf
        <4> QED
          BY <2>4, <2>5, <2>7, <3>2, <4>2
      <3> QED
        BY <3>1, <3>2 DEF Clean
    <2> QED
      BY <2>8
  <1>4. claimable = {}
    <2>1. \A n \in Nodes : HandedOn(n, ch[n], claimable)
      BY DEF InStep, Danced, Known
    <2>2. \A p \in Payments : PayTo(p) \in Nodes
      BY PeerFacts, ChannelAssumption DEF PayTo
    <2> QED
      BY <1>1, <1>2, <2>1, <2>2 DEF HandedOn
  <1>5. ASSUME NEW p \in started
        PROVE  told[p] # {}
    <2> DEFINE n == PayFrom[p]
    <2>1. n \in Nodes
      BY <1>2, ChannelAssumption
    <2>2. Heard(n, ch[n], started, told)
      BY <2>1 DEF AllPolite, Polite
    <2>3. Underway(ch[n], p) \/ told[p] # {}
      BY <2>2 DEF Heard
    <2>4. ~Underway(ch[n], p)
      <3>1. ch[n].cell = <<>> /\ ch[n].pendFails = {}
        BY <2>1 DEF Tidy
      <3>2. AddsIn(ch[n]) = {}
        BY <3>1 DEF AddsIn, CellAdds, ToSet
      <3> QED
        BY <1>1, <2>1, <3>1, <3>2 DEF Underway
    <2> QED
      BY <2>3, <2>4
  <1> QED
    BY <1>3, <1>4, <1>5 DEF Settled

\* A node that closes the channel finds it settled.
LEMMA ClosesSettled ==
    ASSUME NEW I, Before(I), NEW J, Then(J), InStep, BothOpen, AllPolite, AllParting, Next, ~NotClosed'
    PROVE  Settled(ch', claimable', started', told')
  <1>1. PICK n \in Nodes : ch'[n].fate = "closed"
    BY DEF NotClosed
  <1>2. ch[n].fate = "open"
    BY DEF BothOpen
  <1>3. ~Reconnect
    BY <1>1, <1>2 DEF Reconnect
  <1>4. ~Disconnect
    <2> SUFFICES ASSUME Disconnect PROVE FALSE
      OBVIOUS
    <2>1. ch'[n] = UncommittedRemoved(ch[n]) /\ ch[n] \in Channel
      BY <1>2, NodeFacts DEF Disconnect, remove_uncommitted_htlcs_and_mark_paused, Before
    <2>2. Unclosed(ch[n], ch'[n])
      BY <2>1, EndingChannel, UnclosedOnes
    <2> QED
      BY <1>1, <1>2, <2>2 DEF Unclosed, Errors
  <1>5. PICK m \in Nodes : Receive(m) \/ Manager(m) \/ User(m)
    BY <1>3, <1>4 DEF Next
  <1>6. Careful(m)
    BY <1>5, NodeCareful DEF BothOpen, AllParting
  <1>7. m = n
    BY <1>1, <1>2, <1>6, BecomesIs DEF Careful
  <1>8. \A x \in Nodes : Tidy(ch[x])
    BY <1>1, <1>6, <1>7, PeerFacts DEF Careful
  <1>9. Settled(ch, claimable, started, told)
    BY <1>8, TidySettled
  <1> QED
    BY <1>9, SettledStays

-----------------------------------------------------------------------------
(* The theorems.                                                           *)

\* Both channels are settled.
AllSettled == Settled(ch, claimable, started, told)

\* The inductive invariant: in step until a node closes, settled from then on.
CloseInv ==
    /\ DanceInv /\ BalanceInv
    /\ BothOpen => AllPolite /\ AllParting
    /\ ~NotClosed => AllSettled

\* The invariant holds at the start.
LEMMA InitClose == Init => CloseInv
  <1> SUFFICES ASSUME Init PROVE CloseInv
    OBVIOUS
  <1>1. NotClosed
    BY DEF NotClosed, Init
  <1> QED
    BY <1>1, InitDance, InitBalance, InitPolite, InitParting DEF CloseInv

\* A step keeps the invariant.
LEMMA NextClose ==
    ASSUME CloseInv, Next
    PROVE  CloseInv'
  <1>1. PICK I : Before(I)
    BY DEF CloseInv, DanceInv, DecisionInv, Before
  <1>2. DanceInv'
    BY NextDance DEF CloseInv
  <1>3. BalanceInv'
    BY NextBalance DEF CloseInv
  <1>4. PICK J : Then(J)
    BY <1>2 DEF DanceInv, DecisionInv, Then
  <1>5. OffChain
    BY NextOffChain
  <1>6. CASE BothOpen
    <2>1. InStep /\ AllPolite /\ AllParting
      BY <1>6 DEF CloseInv, DanceInv
    <2>2. BothOpen' => AllPolite'
      BY <1>1, <1>6, <2>1, NextPolite
    <2>3. BothOpen' => AllParting'
      <3>1. CASE Disconnect \/ Reconnect
        BY <1>1, <1>6, <2>1, <3>1, LinkParting
      <3>2. CASE \E n \in Nodes : Receive(n) \/ Manager(n) \/ User(n)
        <4>1. PICK n \in Nodes : Receive(n) \/ Manager(n) \/ User(n)
          BY <3>2
        <4>2. ch[n].fate = "open" /\ Parting(n, ch, net)
          BY <1>6, <2>1 DEF BothOpen, AllParting
        <4>3. Careful(n)
          BY <1>1, <1>4, <2>1, <4>1, <4>2, NodeCareful
        <4> QED
          BY <1>1, <2>1, <4>1, <4>2, <4>3, NodeParting
      <3> QED
        BY <3>1, <3>2 DEF Next
    <2>4. ~NotClosed' => AllSettled'
      <3> SUFFICES ASSUME ~NotClosed' PROVE AllSettled'
        OBVIOUS
      <3>1. Settled(ch', claimable', started', told')
        BY <1>1, <1>4, <1>6, <2>1, ClosesSettled
      <3> QED
        BY <3>1 DEF AllSettled, Settled
    <2> QED
      BY <1>2, <1>3, <2>2, <2>3, <2>4 DEF CloseInv
  <1>7. CASE ~BothOpen
    <2>1. ~NotClosed
      BY <1>5, <1>7 DEF OffChain, BothOpen, NotClosed
    <2>2. Settled(ch', claimable', started', told')
      BY <1>1, <1>4, <2>1, SettledStays DEF CloseInv, AllSettled
    <2>3. ~NotClosed'
      BY <1>1, <2>1, ClosedStays
    <2>4. ~BothOpen'
      BY <2>3 DEF BothOpen, NotClosed
    <2>5. AllSettled'
      BY <2>2 DEF AllSettled, Settled
    <2> QED
      BY <1>2, <1>3, <2>4, <2>5 DEF CloseInv
  <1> QED
    BY <1>6, <1>7

\* A step that changes nothing keeps it.
LEMMA StutterClose ==
    ASSUME CloseInv, UNCHANGED vars
    PROVE  CloseInv'
  <1>1. BalanceInv'
    BY NextBalance DEF CloseInv
  <1>2. /\ ch' = ch /\ net' = net /\ conn' = conn /\ started' = started /\ claimable' = claimable
        /\ claimed' = claimed /\ told' = told
    BY DEF vars, payVars
  <1>3. DecisionInv'
    BY <1>1 DEF BalanceInv
  <1>4. /\ InStep' <=> InStep
        /\ BothOpen' <=> BothOpen
        /\ NotClosed' <=> NotClosed
    BY <1>2 DEF InStep, Wire, BothOpen, NotClosed
  <1>5. LockedIn(ch, claimable)' <=> LockedIn(ch, claimable)
    BY <1>2 DEF LockedIn
  <1>6. GoneFrom(ch, told)' <=> GoneFrom(ch, told)
    BY <1>2 DEF GoneFrom
  <1>7. (AllPolite' <=> AllPolite) /\ (AllParting' <=> AllParting)
    BY <1>2 DEF AllPolite, AllParting
  <1>8. AllSettled' <=> AllSettled
    BY <1>2 DEF AllSettled
  <1>9. DanceInv'
    BY <1>3, <1>4, <1>5, <1>6 DEF CloseInv, DanceInv
  <1> QED
    BY <1>1, <1>4, <1>7, <1>8, <1>9 DEF CloseInv

\* What the invariant says of the commitments.
LEMMA CloseIsSafe ==
    ASSUME CloseInv
    PROVE  LockedIn(ch, claimable) /\ GoneFrom(ch, told) /\ claimable \subseteq Payments
  <1>1. claimable \subseteq Payments
    BY DEF CloseInv, DanceInv, DecisionInv, Decision, DecidedOK
  <1>2. CASE NotClosed
    BY <1>1, <1>2 DEF CloseInv, DanceInv
  <1>3. CASE ~NotClosed
    BY <1>1, <1>3, SettledSafe DEF CloseInv, AllSettled
  <1> QED
    BY <1>2, <1>3

\* A payment is handed to the payee's user (monitor_updating_restored) only when it is
\* an output of every commitment that can still confirm, whatever was lost, resent or
\* held back, and until the end of the channel.
THEOREM ClaimableLocked == Spec => []ClaimableIsLocked
  <1>1. CloseInv /\ [Next]_vars => CloseInv'
    BY NextClose, StutterClose
  <1>2. CloseInv => ClaimableIsLocked
    BY CloseIsSafe, LockedIs
  <1> QED
    BY <1>1, <1>2, InitClose, PTL DEF Spec

\* A payment is reported to the payer as failed only when no commitment that can still
\* confirm pays it (revoke_and_ack puts it aside, monitor_updating_restored reports it,
\* and close_channel and free_holding_cell_htlcs report what was never offered).
THEOREM FailedGone == Spec => []FailedIsGone
  <1>1. CloseInv /\ [Next]_vars => CloseInv'
    BY NextClose, StutterClose
  <1>2. CloseInv => FailedIsGone
    BY CloseIsSafe, GoneIs
  <1> QED
    BY <1>1, <1>2, InitClose, PTL DEF Spec

\* A node that signs the closing transaction away does so when both nodes are done: they
\* see the same split, no HTLC and no update is left, and every payer was told
\* (closing_signed and maybe_propose_closing_signed).
THEOREM ClosingAgrees == Spec => []CloseAgrees
  <1>1. CloseInv /\ [Next]_vars => CloseInv'
    BY NextClose, StutterClose
  <1>2. CloseInv => CloseAgrees
    <2> SUFFICES ASSUME CloseInv PROVE CloseAgrees
      OBVIOUS
    <2>1. PICK I : Before(I)
      BY DEF CloseInv, DanceInv, DecisionInv, Before
    <2>2. CASE NotClosed
      BY <2>2 DEF NotClosed, CloseAgrees
    <2>3. CASE ~NotClosed
      BY <2>1, <2>3, SettledAgrees DEF CloseInv, BalanceInv, AllSettled
    <2> QED
      BY <2>2, <2>3
  <1> QED
    BY <1>1, <1>2, InitClose, PTL DEF Spec

-----------------------------------------------------------------------------
(* The HTLCs and the sums a commitment is built from.                      *)

\* The HTLCs that a commitment for the peer pays to c's node, and those it pays for c's node.
LocalIns(c) == {p \in Payments : InSt(c, p) \in {"AwaitingAnnouncedRemoteRevoke", "Committed"}}
LocalOuts(c) == {p \in Payments : OutSt(c, p) \notin {"none", "AwaitingRemovedRemoteRevoke"}}

\* Those of a commitment of c's own.
RemoteIns(c) == {p \in Payments : InSt(c, p) # "none"}
RemoteOuts(c) == {p \in Payments : OutSt(c, p) = "Committed"}

\* The claimed payments whose HTLCs a commitment for the peer leaves out, before they are gone.
LocalGain(c, C) == {p \in C : InSt(c, p) = "LocalRemoved"}
LocalLoss(c, C) == {p \in C : OutSt(c, p) = "AwaitingRemovedRemoteRevoke"}

\* Those that a commitment of c's own leaves out.
RemoteLoss(c, C) == {p \in C : OutSt(c, p) \in Removing}

\* The payments of the HTLCs in some states.
LEMMA PaysSelected ==
    ASSUME NEW S, Viewed(S), \A h \in S : h.pay \in Payments, NEW T, "none" \notin T,
           NEW X, X = {h \in S : h.st \in T}
    PROVE  Pays(X) = {p \in Payments : StOf(S, p) \in T}
  <1>1. /\ \A h \in S : StOf(S, h.pay) = h.st
        /\ \A p : StOf(S, p) # "none" => \E h \in S : h.pay = p /\ h.st = StOf(S, p)
    BY ViewOf
  <1>2. ASSUME NEW p \in Payments, StOf(S, p) \in T PROVE p \in Pays(X)
    BY <1>1, <1>2 DEF Pays
  <1>3. ASSUME NEW p \in Pays(X) PROVE p \in Payments /\ StOf(S, p) \in T
    BY <1>1 DEF Pays
  <1> QED
    BY <1>2, <1>3

\* The amounts of a channel's HTLCs are those of their payments.
LEMMA SumsAreWorth ==
    ASSUME NEW n, NEW c, Orderly(n, c)
    PROVE  /\ \A X : X \subseteq c.inb \/ X \subseteq c.out => SumAmounts(X) = Worth(Pays(X))
           /\ \A X : X \subseteq c.inb \/ X \subseteq c.out => IsFiniteSet(Pays(X)) /\ Pays(X) \subseteq Payments
  <1>1. /\ OncePaid(c.inb) /\ OncePaid(c.out) /\ IsFiniteSet(c.inb) /\ IsFiniteSet(c.out)
        /\ \A h \in c.inb \cup c.out : h.pay \in Payments
    BY DEF Orderly, Held, Viewed
  <1>5. ASSUME NEW X, IsFiniteSet(X) PROVE IsFiniteSet(Pays(X))
    <2> DEFINE r == [h \in X |-> h.pay]
    <2>1. IsFiniteSet({r[h] : h \in X})
      BY <1>5, ImageFinite
    <2>2. {r[h] : h \in X} = Pays(X)
      BY DEF Pays
    <2> QED
      BY <2>1, <2>2
  <1>2. ASSUME NEW X, X \subseteq c.inb \/ X \subseteq c.out
        PROVE  SumAmounts(X) = Worth(Pays(X)) /\ IsFiniteSet(Pays(X)) /\ Pays(X) \subseteq Payments
    <2>1. IsFiniteSet(X)
      BY <1>1, <1>2, FS_Subset
    <2>2. (\A h \in X : h.pay \in Payments) /\ \A g, h \in X : g.pay = h.pay => g = h
      BY <1>1, <1>2 DEF OncePaid
    <2>3. IsFiniteSet(Pays(X))
      BY <2>1, <1>5
    <2> QED
      BY <2>1, <2>2, <2>3, SumAmountsIsWorth DEF Pays
  <1> QED
    BY <1>2

-----------------------------------------------------------------------------
(* A commitment, by the node that built it.                                *)

\* A commitment transaction, by what n's node has before HTLCs and the HTLCs on both sides.
TxOf(n, num, x, o, i) ==
    [num |-> num,
     bal |-> [m \in Nodes |-> IF m = n THEN x - Worth(o) ELSE Funding - x - Worth(i)],
     htlcs |-> i \cup o]

\* What n's node has before HTLCs in a commitment for the peer, and in one of its own.
LocalBefore(c, C) == c.toSelf + Worth(LocalGain(c, C)) - Worth(LocalLoss(c, C))
RemoteBefore(c, C) == c.toSelf - Worth(RemoteLoss(c, C))

\* The HTLCs that are fulfilled are those of the claimed payments.
LEMMA Fulfilled ==
    ASSUME NEW n \in Nodes, NEW c, NEW I \in [Payments -> Int], NEW S,
           NEW L \in SUBSET Payments, NEW C \in SUBSET Payments, NEW R \in SUBSET Payments,
           NodeOK(n, c, I, S, L, C, R), IdsUnique(I), C \cap R = {}
    PROVE  /\ \A h \in c.inb : h.out = "fulfil" <=> h.st = "LocalRemoved" /\ h.pay \in C
           /\ \A h \in c.out : h.out = "fulfil" <=> h.st \in Removing /\ h.pay \in C
  <1>1. c.inb \subseteq InHtlcs /\ c.out \subseteq OutHtlcs
    BY NodeOrderly DEF Orderly
  <1>2. \A h \in c.inb : /\ h.st = "LocalRemoved" => Decided(h, C, R)
                         /\ h.st # "LocalRemoved" => h.out = "none"
    BY DEF NodeOK, InOK
  <1>3. \A h \in c.out : /\ h.st \in {"LocalAnnounced", "Committed"} => h.out = "none"
                         /\ h.st \notin {"LocalAnnounced", "Committed"} => Decided(h, C, R)
    BY DEF NodeOK, OutOK
  <1>4. \A h \in c.out : h.st \in Removing <=> h.st \notin {"LocalAnnounced", "Committed"}
    BY <1>1 DEF OutHtlcs, OutStates, Removing
  <1>5. \A h \in c.inb : h.out = "fulfil" <=> h.st = "LocalRemoved" /\ h.pay \in C
    BY <1>2 DEF Decided
  <1>6. \A h \in c.out : h.out = "fulfil" <=> h.st \in Removing /\ h.pay \in C
    BY <1>3, <1>4 DEF Decided
  <1> QED
    BY <1>5, <1>6

\* The payments of fulfilled HTLCs in some states.
LEMMA PaysClaimed ==
    ASSUME NEW S, Viewed(S), \A h \in S : h.pay \in Payments, NEW T, "none" \notin T, NEW C \in SUBSET Payments,
           NEW X, X = {h \in S : h.st \in T /\ h.pay \in C}
    PROVE  Pays(X) = {p \in C : StOf(S, p) \in T}
  <1>1. /\ \A h \in S : StOf(S, h.pay) = h.st
        /\ \A p : StOf(S, p) # "none" => \E h \in S : h.pay = p /\ h.st = StOf(S, p)
    BY ViewOf
  <1>2. ASSUME NEW p \in C, StOf(S, p) \in T PROVE p \in Pays(X)
    BY <1>1, <1>2 DEF Pays
  <1>3. ASSUME NEW p \in Pays(X) PROVE p \in C /\ StOf(S, p) \in T
    BY <1>1 DEF Pays
  <1> QED
    BY <1>2, <1>3

\* The transaction a node builds for its peer pays these.
LocalTxIs(n, c, C, num) ==
    /\ BalanceBeforeHtlcs(c, TRUE) = LocalBefore(c, C)
    /\ build_commitment_transaction(n, c, num, TRUE)
         = TxOf(n, num, LocalBefore(c, C), LocalOuts(c), LocalIns(c))

\* The transaction a node builds to verify the peer's signature pays these.
OwnTxIs(n, c, C, num) ==
    /\ BalanceBeforeHtlcs(c, FALSE) = RemoteBefore(c, C)
    /\ build_commitment_transaction(n, c, num, FALSE)
         = TxOf(n, num, RemoteBefore(c, C), RemoteOuts(c), RemoteIns(c))

\* The transaction a node builds for its peer.
LEMMA LocalTx ==
    ASSUME NEW n \in Nodes, NEW c, NEW I \in [Payments -> Int], NEW S,
           NEW L \in SUBSET Payments, NEW C \in SUBSET Payments, NEW R \in SUBSET Payments,
           NodeOK(n, c, I, S, L, C, R), IdsUnique(I), C \cap R = {}, NEW num
    PROVE  LocalTxIs(n, c, C, num)
  <1> DEFINE ins == {h \in c.inb : InIncluded(h, TRUE)}
             outs == {h \in c.out : OutIncluded(h, TRUE)}
             gain == {h \in c.inb : ~InIncluded(h, TRUE) /\ h.out = "fulfil"}
             loss == {h \in c.out : ~OutIncluded(h, TRUE) /\ h.out = "fulfil"}
  <1>1. Orderly(n, c)
    BY NodeOrderly
  <1>2. /\ Viewed(c.inb) /\ Viewed(c.out) /\ c.out \subseteq OutHtlcs
        /\ \A h \in c.inb : h.pay \in Payments
        /\ \A h \in c.out : h.pay \in Payments
    BY <1>1 DEF Orderly, Held
  <1>3. /\ \A h \in c.inb : h.out = "fulfil" <=> h.st = "LocalRemoved" /\ h.pay \in C
        /\ \A h \in c.out : h.out = "fulfil" <=> h.st \in Removing /\ h.pay \in C
    BY Fulfilled
  <1>4. Pays(ins) = LocalIns(c)
    <2> DEFINE T == {"AwaitingAnnouncedRemoteRevoke", "Committed"}
    <2>1. ins = {h \in c.inb : h.st \in T} /\ "none" \notin T
      BY DEF InIncluded
    <2>2. Pays(ins) = {p \in Payments : StOf(c.inb, p) \in T}
      <3> HIDE DEF ins, T
      <3> QED
        BY <1>2, <2>1, PaysSelected
    <2> QED
      BY <2>2 DEF LocalIns, InSt
  <1>5. Pays(outs) = LocalOuts(c)
    <2> DEFINE T == OutStates \ {"AwaitingRemovedRemoteRevoke"}
    <2>1. outs = {h \in c.out : h.st \in T}
      BY <1>2 DEF OutIncluded, OutHtlcs, OutStates
    <2>2. "none" \notin T
      BY DEF OutStates
    <2>3. Pays(outs) = {p \in Payments : StOf(c.out, p) \in T}
      <3> HIDE DEF T, outs
      <3> QED
        BY <1>2, <2>1, <2>2, PaysSelected
    <2>4. \A p : StOf(c.out, p) \in OutStates \cup {"none"}
      BY <1>2, ViewOf DEF OutHtlcs
    <2> QED
      BY <2>3, <2>4 DEF LocalOuts, OutSt, OutStates
  <1>6. Pays(gain) = LocalGain(c, C)
    <2> DEFINE T == {"LocalRemoved"}
    <2>1. gain = {h \in c.inb : h.st \in T /\ h.pay \in C} /\ "none" \notin T
      BY <1>3 DEF InIncluded
    <2>2. Pays(gain) = {p \in C : StOf(c.inb, p) \in T}
      <3> HIDE DEF gain, T
      <3> QED
        BY <1>2, <2>1, PaysClaimed
    <2> QED
      BY <2>2 DEF LocalGain, InSt
  <1>7. Pays(loss) = LocalLoss(c, C)
    <2> DEFINE T == {"AwaitingRemovedRemoteRevoke"}
    <2>1. loss = {h \in c.out : h.st \in T /\ h.pay \in C} /\ "none" \notin T
      BY <1>3 DEF OutIncluded, Removing
    <2>2. Pays(loss) = {p \in C : StOf(c.out, p) \in T}
      <3> HIDE DEF loss, T
      <3> QED
        BY <1>2, <2>1, PaysClaimed
    <2> QED
      BY <2>2 DEF LocalLoss, OutSt
  <1>8. /\ SumAmounts(ins) = Worth(LocalIns(c)) /\ SumAmounts(outs) = Worth(LocalOuts(c))
        /\ SumAmounts(gain) = Worth(LocalGain(c, C)) /\ SumAmounts(loss) = Worth(LocalLoss(c, C))
    BY <1>1, <1>4, <1>5, <1>6, <1>7, SumsAreWorth
  <1>9. BalanceBeforeHtlcs(c, TRUE) = LocalBefore(c, C)
    BY <1>8 DEF BalanceBeforeHtlcs, LocalBefore
  <1>10. {h.pay : h \in ins \cup outs} = LocalIns(c) \cup LocalOuts(c)
    BY <1>4, <1>5 DEF Pays
  <1> QED
    BY <1>8, <1>9, <1>10 DEF build_commitment_transaction, TxOf, LocalTxIs

\* The transaction a node builds to verify the peer's signature.
LEMMA OwnTx ==
    ASSUME NEW n \in Nodes, NEW c, NEW I \in [Payments -> Int], NEW S,
           NEW L \in SUBSET Payments, NEW C \in SUBSET Payments, NEW R \in SUBSET Payments,
           NodeOK(n, c, I, S, L, C, R), IdsUnique(I), C \cap R = {}, NEW num
    PROVE  OwnTxIs(n, c, C, num)
  <1> DEFINE ins == {h \in c.inb : InIncluded(h, FALSE)}
             outs == {h \in c.out : OutIncluded(h, FALSE)}
             gain == {h \in c.inb : ~InIncluded(h, FALSE) /\ h.out = "fulfil"}
             loss == {h \in c.out : ~OutIncluded(h, FALSE) /\ h.out = "fulfil"}
  <1>1. Orderly(n, c)
    BY NodeOrderly
  <1>2. /\ Viewed(c.inb) /\ Viewed(c.out) /\ c.inb \subseteq InHtlcs
        /\ \A h \in c.inb : h.pay \in Payments
        /\ \A h \in c.out : h.pay \in Payments
    BY <1>1 DEF Orderly, Held
  <1>3. \A h \in c.out : h.out = "fulfil" <=> h.st \in Removing /\ h.pay \in C
    BY Fulfilled
  <1>4. Pays(ins) = RemoteIns(c)
    <2>1. ins = {h \in c.inb : h.st \in InStates}
      BY <1>2 DEF InIncluded, InHtlcs
    <2>2. "none" \notin InStates
      BY DEF InStates
    <2>3. Pays(ins) = {p \in Payments : StOf(c.inb, p) \in InStates}
      <3> HIDE DEF ins
      <3> QED
        BY <1>2, <2>1, <2>2, PaysSelected
    <2>4. \A p : StOf(c.inb, p) \in InStates \cup {"none"}
      BY <1>2, ViewOf DEF InHtlcs
    <2> QED
      BY <2>2, <2>3, <2>4 DEF RemoteIns, InSt
  <1>5. Pays(outs) = RemoteOuts(c)
    <2> DEFINE T == {"Committed"}
    <2>1. outs = {h \in c.out : h.st \in T} /\ "none" \notin T
      BY DEF OutIncluded
    <2>2. Pays(outs) = {p \in Payments : StOf(c.out, p) \in T}
      <3> HIDE DEF outs, T
      <3> QED
        BY <1>2, <2>1, PaysSelected
    <2> QED
      BY <2>2 DEF RemoteOuts, OutSt
  <1>6. gain = {}
    BY DEF InIncluded
  <1>7. Pays(loss) = RemoteLoss(c, C)
    <2>1. loss = {h \in c.out : h.st \in Removing /\ h.pay \in C}
      BY <1>3 DEF OutIncluded, Removing
    <2>2. "none" \notin Removing
      BY DEF Removing
    <2>3. Pays(loss) = {p \in C : StOf(c.out, p) \in Removing}
      <3> HIDE DEF loss
      <3> QED
        BY <1>2, <2>1, <2>2, PaysClaimed
    <2> QED
      BY <2>3 DEF RemoteLoss, OutSt
  <1>8. /\ SumAmounts(ins) = Worth(RemoteIns(c)) /\ SumAmounts(outs) = Worth(RemoteOuts(c))
        /\ SumAmounts(gain) = 0 /\ SumAmounts(loss) = Worth(RemoteLoss(c, C))
    <2>1. SumAmounts(gain) = Worth(Pays(gain))
      BY <1>1, SumsAreWorth
    <2>2. Pays(gain) = {}
      BY <1>6 DEF Pays
    <2> QED
      BY <1>1, <1>4, <1>5, <1>7, <2>1, <2>2, SumsAreWorth, WorthAdds
  <1>9. BalanceBeforeHtlcs(c, FALSE) = RemoteBefore(c, C)
    <2>1. c.toSelf \in Int
      BY <1>1 DEF Orderly, Channel
    <2>2. SumAmounts(gain) \in Int /\ SumAmounts(loss) \in Int
      BY <1>1, SumsTyped DEF Orderly
    <2> DEFINE g == SumAmounts(gain)
               l == SumAmounts(loss)
               b == BalanceBeforeHtlcs(c, FALSE)
    <2>3. b = c.toSelf + g - l
      BY DEF BalanceBeforeHtlcs
    <2>4. g = 0 /\ l \in Int /\ l = Worth(RemoteLoss(c, C))
      BY <1>8, <2>2
    <2> SUFFICES b = RemoteBefore(c, C)
      OBVIOUS
    <2> HIDE DEF g, l, b
    <2> QED
      BY <2>1, <2>3, <2>4 DEF RemoteBefore
  <1>10. {h.pay : h \in ins \cup outs} = RemoteIns(c) \cup RemoteOuts(c)
    BY <1>4, <1>5 DEF Pays
  <1> QED
    BY <1>8, <1>9, <1>10 DEF build_commitment_transaction, TxOf, OwnTxIs

-----------------------------------------------------------------------------
(* Both nodes see the same HTLCs in a commitment.                          *)

\* When a commitment_signed is next, both nodes see the same HTLCs in it: d's node sent it, c's verifies it.
LEMMA SidesAgree ==
    ASSUME NEW c, NEW d, NEW q, NEW r \in Seq(Messages), NEW k, NEW P, NEW O, Agreed(c, d, q, r, k, P, O),
           Fits(c, d, P, O), r # <<>>, Head(r).t = "cs"
    PROVE  RemoteOuts(c) = LocalIns(d) /\ RemoteIns(c) = LocalOuts(d)
  <1>1. /\ Counted(c) /\ Counted(d) /\ Turns(c, d) /\ Turns(d, c) /\ Link(d, c, r, k)
        /\ \A p \in Payments : PairOf(c, d, p) /\ PairOf(d, c, p)
    BY DEF Agreed, Fits, Link, Half
  <1>2. OwesCs(d, c) /\ ~(RaaFirst(d) /\ OwesRaa(d, c))
    BY <1>1, LinkHead
  <1>3. ~OwesRaa(c, d)
    BY <1>1, <1>2, WhoseTurn
  <1>4. ASSUME NEW p \in Payments
        PROVE  /\ OutSt(c, p) = "Committed" <=> InSt(d, p) \in {"AwaitingAnnouncedRemoteRevoke", "Committed"}
               /\ InSt(c, p) # "none" <=> OutSt(d, p) \notin {"none", "AwaitingRemovedRemoteRevoke"}
    <2>1. /\ InSt(c, p) = "none" => OutSt(d, p) # "LocalAnnounced"
          /\ InSt(d, p) = "LocalRemoved" => OutSt(c, p) # "Committed"
      BY AllArrived
    <2>2. Pair(OutSt(c, p), InSt(d, p), OwesCs(c, d), OwesRaa(c, d), RaaFirst(c), OwesCs(d, c), OwesRaa(d, c), RaaFirst(d))
      BY <1>1 DEF PairOf
    <2>3. Pair(OutSt(d, p), InSt(c, p), OwesCs(d, c), OwesRaa(d, c), RaaFirst(d), OwesCs(c, d), OwesRaa(c, d), RaaFirst(c))
      BY <1>1 DEF PairOf
    <2>4. OutSt(c, p) = "Committed" <=> InSt(d, p) \in {"AwaitingAnnouncedRemoteRevoke", "Committed"}
      BY <1>2, <1>3, <2>1, <2>2 DEF Pair
    <2>5. InSt(c, p) # "none" <=> OutSt(d, p) \notin {"none", "AwaitingRemovedRemoteRevoke"}
      BY <1>2, <1>3, <2>1, <2>3 DEF Pair
    <2> QED
      BY <2>4, <2>5
  <1>5. RemoteOuts(c) = LocalIns(d)
    BY <1>4 DEF RemoteOuts, LocalIns
  <1>6. RemoteIns(c) = LocalOuts(d)
    BY <1>4 DEF RemoteIns, LocalOuts
  <1> QED
    BY <1>5, <1>6
-----------------------------------------------------------------------------

\* The claimed payments that a commitment for the peer counts as received by n, and as paid by n.
LocalCr(n, c, C) == {p \in C : PayTo(p) = n /\ InSt(c, p) \in {"none", "LocalRemoved"}}
LocalDb(n, c, C) == {p \in C : PayFrom[p] = n /\ OutSt(c, p) \in {"none", "AwaitingRemovedRemoteRevoke"}}

\* Those of a commitment of n's own.
RemoteCr(n, c, C) == {p \in C : PayTo(p) = n /\ InSt(c, p) = "none"}
RemoteDb(n, c, C) == {p \in C : PayFrom[p] = n /\ OutSt(c, p) \in {"none"} \cup Removing}

\* What n's node has before HTLCs, by the claimed payments.
LEMMA BeforeIs ==
    ASSUME NEW n \in Nodes, NEW c, NEW I \in [Payments -> Int], NEW S,
           NEW L \in SUBSET Payments, NEW C \in SUBSET Payments, NEW R \in SUBSET Payments,
           NodeOK(n, c, I, S, L, C, R), IdsUnique(I), IsFiniteSet(C), Balance(n, c, C)
    PROVE  /\ LocalBefore(c, C) = Start(n) + Worth(LocalCr(n, c, C)) - Worth(LocalDb(n, c, C))
           /\ RemoteBefore(c, C) = Start(n) + Worth(RemoteCr(n, c, C)) - Worth(RemoteDb(n, c, C))
           /\ \A X : X \subseteq C => Worth(X) \in Int
           /\ Start(n) \in Int
  <1>1. \A X : X \subseteq C => X \subseteq Payments /\ IsFiniteSet(X) /\ Worth(X) \in Int
    BY FS_Subset, WorthAdds
  <1>2. OutsAre(n, c, I) /\ InsAre(n, c, I) /\ Orderly(n, c)
    BY NodeSides, NodeOrderly
  <1>3. /\ \A p \in C : p \in Pays(c.inb) <=> InSt(c, p) # "none"
        /\ \A p \in C : p \in Pays(c.out) <=> OutSt(c, p) # "none"
    BY <1>2 DEF Pays, OutsAre, InsAre
  <1>4. /\ CreditedTo(n, c, C) = RemoteCr(n, c, C)
        /\ DebitedTo(n, c, C) = {p \in C : PayFrom[p] = n /\ OutSt(c, p) = "none"}
    BY <1>3 DEF CreditedTo, DebitedTo, RemoteCr
  <1>5. /\ \A p \in C : InSt(c, p) = "LocalRemoved" => PayTo(p) = n
        /\ \A p \in C : OutSt(c, p) \in Removing => PayFrom[p] = n
    BY <1>2 DEF OutsAre, InsAre, Removing
  <1> DEFINE A == RemoteCr(n, c, C)
             B == {p \in C : PayFrom[p] = n /\ OutSt(c, p) = "none"}
             G == LocalGain(c, C)
             H == LocalLoss(c, C)
             E == RemoteLoss(c, C)
  <1>6. LocalCr(n, c, C) = A \cup G /\ A \cap G = {} /\ A \subseteq C /\ G \subseteq C
    BY <1>5 DEF LocalCr, RemoteCr, LocalGain
  <1>7. LocalDb(n, c, C) = B \cup H /\ B \cap H = {} /\ B \subseteq C /\ H \subseteq C
    BY <1>5 DEF LocalDb, LocalLoss, Removing
  <1>8. RemoteDb(n, c, C) = B \cup E /\ B \cap E = {} /\ E \subseteq C
    BY <1>5 DEF RemoteDb, RemoteLoss, Removing
  <1>9. Start(n) \in Int
    BY ChannelAssumption DEF Start
  <1>10. c.toSelf = Start(n) + Worth(A) - Worth(B)
    BY <1>4 DEF Balance
  <1> HIDE DEF A, B, G, H, E
  <1>11. /\ Worth(LocalCr(n, c, C)) = Worth(A) + Worth(G) /\ Worth(LocalDb(n, c, C)) = Worth(B) + Worth(H)
         /\ Worth(RemoteDb(n, c, C)) = Worth(B) + Worth(E)
         /\ Worth(A) \in Int /\ Worth(B) \in Int /\ Worth(G) \in Int /\ Worth(H) \in Int /\ Worth(E) \in Int
    BY <1>1, <1>6, <1>7, <1>8, WorthAdds
  <1>12. LocalBefore(c, C) = c.toSelf + Worth(G) - Worth(H)
    BY DEF LocalBefore, G, H
  <1>13. RemoteBefore(c, C) = c.toSelf - Worth(E)
    BY DEF RemoteBefore, E
  <1>14. RemoteCr(n, c, C) = A
    BY DEF A
  <1> QED
    BY <1>1, <1>9, <1>10, <1>11, <1>12, <1>13, <1>14

-----------------------------------------------------------------------------
(* What is known of a state.                                               *)

\* Amounts are positive: more payments are worth more.
LEMMA WorthGrows ==
    /\ \A X : X \subseteq Payments /\ IsFiniteSet(X) => Worth(X) >= 0
    /\ \A X, Y : X \subseteq Y /\ Y \subseteq Payments /\ IsFiniteSet(Y) => Worth(X) <= Worth(Y)
  <1>1. ASSUME NEW S, S \subseteq Payments, IsFiniteSet(S)
        PROVE  Worth(S) >= 0
    <2> DEFINE Bad == {s \in SUBSET S : ~(Worth(s) >= 0)}
    <2> SUFFICES ASSUME Bad # {} PROVE FALSE
      BY <1>1
    <2>1. PICK s \in Bad : \A t \in Bad : ~(t \subseteq s /\ t # s)
      <3>1. Bad \subseteq SUBSET S
        OBVIOUS
      <3> HIDE DEF Bad
      <3> QED
        BY <1>1, <3>1, SmallestSubset
    <2>2. s \subseteq Payments /\ IsFiniteSet(s) /\ s # {} /\ s \subseteq S
      <3>1. s \subseteq S /\ ~(Worth(s) >= 0)
        OBVIOUS
      <3>2. Worth({}) = 0 /\ 0 >= 0
        BY WorthAdds
      <3>3. s # {}
        BY <3>1, <3>2
      <3> QED
        BY <1>1, <3>1, <3>3, FS_Subset
    <2>3. PICK x : x \in s
      BY <2>2
    <2>4. /\ s \ {x} \subseteq Payments /\ IsFiniteSet(s \ {x}) /\ {x} \subseteq Payments /\ IsFiniteSet({x})
          /\ (s \ {x}) \cap {x} = {} /\ (s \ {x}) \cup {x} = s /\ x \in Payments
      BY <2>2, <2>3, FS_Subset, FS_Singleton
    <2>5. Worth(s) = Worth(s \ {x}) + Worth({x}) /\ Worth({x}) = Amount[x] /\ Worth(s \ {x}) \in Int
      <3> DEFINE t == s \ {x}
                 y == {x}
      <3>1. t \subseteq Payments /\ IsFiniteSet(t) /\ y \subseteq Payments /\ IsFiniteSet(y) /\ t \cap y = {} /\ t \cup y = s
        BY <2>4
      <3>2. Worth(y) = Amount[x]
        BY <2>4, WorthAdds
      <3> HIDE DEF t, y
      <3>3. Worth(s) = Worth(t) + Worth(y) /\ Worth(t) \in Int
        BY <3>1, WorthAdds
      <3> QED
        BY <3>2, <3>3 DEF t, y
    <2>6. Worth(s \ {x}) >= 0
      BY <2>1, <2>2, <2>3
    <2>7. Amount[x] \in Nat
      BY <2>4, ChannelAssumption
    <2> QED
      BY <2>1, <2>5, <2>6, <2>7
  <1>2. ASSUME NEW X, NEW Y, X \subseteq Y, Y \subseteq Payments, IsFiniteSet(Y)
        PROVE  Worth(X) <= Worth(Y)
    <2> DEFINE Z == Y \ X
    <2>1. /\ X \subseteq Payments /\ IsFiniteSet(X) /\ Z \subseteq Payments /\ IsFiniteSet(Z)
          /\ X \cap Z = {} /\ X \cup Z = Y
      BY <1>2, FS_Subset
    <2> HIDE DEF Z
    <2>2. Worth(Y) = Worth(X) + Worth(Z) /\ Worth(X) \in Int /\ Worth(Z) \in Int
      BY <2>1, WorthAdds
    <2>3. Worth(Z) >= 0
      BY <1>1, <2>1
    <2> QED
      BY <2>2, <2>3
  <1> QED
    BY <1>1, <1>2

\* What is known of a state: the ledger of ids explains it, the two nodes are in step, the balances are right.
Standing(I, K, N, S, L, C, R, T, k) ==
    /\ Decision(I, K, N, S, L, C, R, T) /\ Danced(K, N, k, L, T)
    /\ \A n \in Nodes : Balance(n, K[n], C) /\ AvailableRgb(K[n]) >= 0

\* A payment that is claimed has arrived, and its payer knows.
LEMMA ClaimedArrived ==
    ASSUME NEW I, NEW K, NEW N, NEW S, NEW L, NEW C, NEW R, NEW T, NEW k, Standing(I, K, N, S, L, C, R, T, k),
           NEW n \in Nodes, NEW m \in Nodes, m = Peer(n), NEW p \in C, PayFrom[p] = n
    PROVE  /\ OutSt(K[n], p) # "LocalAnnounced" /\ InSt(K[m], p) \notin Arriving
  <1> DEFINE c == K[n]
             d == K[m]
  <1>1. /\ NodeOK(n, c, I, S, L, C, R) /\ NodeOK(m, d, I, S, L, C, R) /\ I \in [Payments -> Int] /\ IdsUnique(I)
        /\ L \in SUBSET Payments /\ C \in SUBSET Payments /\ R \in SUBSET Payments /\ p \in Payments /\ d \in Channel
    BY NodeFacts DEF Standing
  <1>2. Agreed(c, d, N[m], N[n], k, From(n), From(m))
    BY DEF Standing, Danced, Agree
  <1>3. Adds(c, d, N[m]) /\ PairOf(c, d, p)
    BY <1>1, <1>2 DEF Agreed, Half
  <1>4. PayTo(p) = m
    BY <1>1, PeerFacts
  <1> HIDE DEF c, d
  <1>5. OutsAre(n, c, I) /\ InsAre(m, d, I)
    BY <1>1, NodeSides
  <1>6. InSt(d, p) \notin Arriving
    <2> SUFFICES ASSUME InSt(d, p) \in Arriving PROVE FALSE
      OBVIOUS
    <2>1. \E h \in d.inb : h.pay = p /\ h.st \in Arriving
      BY <1>1, <1>5 DEF InsAre, Arriving
    <2> QED
      BY <1>1, <2>1 DEF NodeOK, InOK
  <1>7. OutSt(c, p) # "LocalAnnounced"
    <2> SUFFICES ASSUME OutSt(c, p) = "LocalAnnounced" PROVE FALSE
      OBVIOUS
    <2>1. InSt(d, p) = "none"
      BY <1>3, <1>6 DEF PairOf, Pair, Arriving
    <2>2. OutId(c, p) >= d.nextCpId /\ OutId(c, p) = I[p] /\ I[p] \in Nat
      BY <1>1, <1>3, <1>5, <2>1 DEF Adds, OutsAre
    <2>3. PICK x \in Nat : SeenOK(m, d, I, L, C, R, x)
      BY <1>1 DEF NodeOK
    <2>4. I[p] < x /\ x <= d.nextCpId /\ d.nextCpId \in Nat
      BY <1>1, <1>4, <2>3 DEF SeenOK, Channel
    <2> QED
      BY <2>2, <2>4
  <1> QED
    BY <1>6, <1>7 DEF c, d

-----------------------------------------------------------------------------
(* Both nodes build the same commitment.                                   *)

\* The two nodes see the same claimed payments in the commitment that is next: m's sent it, n's verifies it.
LEMMA ClaimsAgree ==
    ASSUME NEW I, NEW K, NEW N, NEW S, NEW L, NEW C, NEW R, NEW T, NEW k, Standing(I, K, N, S, L, C, R, T, k),
           NEW n \in Nodes, NEW m \in Nodes, m = Peer(n), N[n] # <<>>, Head(N[n]).t = "cs"
    PROVE  /\ RemoteOuts(K[n]) = LocalIns(K[m]) /\ RemoteIns(K[n]) = LocalOuts(K[m])
           /\ RemoteDb(n, K[n], C) = LocalCr(m, K[m], C) /\ RemoteCr(n, K[n], C) = LocalDb(m, K[m], C)
           /\ K[n].holderNum = K[m].cpNum
  <1> DEFINE c == K[n]
             d == K[m]
  <1>1. /\ NodeOK(n, c, I, S, L, C, R) /\ NodeOK(m, d, I, S, L, C, R) /\ I \in [Payments -> Int] /\ IdsUnique(I)
        /\ L \in SUBSET Payments /\ C \in SUBSET Payments /\ R \in SUBSET Payments
    BY NodeFacts DEF Standing
  <1>2. Agreed(c, d, N[m], N[n], k, From(n), From(m)) /\ Fits(c, d, From(n), From(m)) /\ N[n] \in Seq(Messages)
    <2>1. Decision(I, K, N, S, L, C, R, T) /\ Agree(n, K, N, k)
      BY DEF Standing, Danced
    <2>2. Fits(K[n], K[m], From(n), From(m))
      BY <2>1, DecisionFits
    <2>3. N[n] \in Seq(Deliverable(n, I, C, R))
      BY <2>1 DEF Decision
    <2>4. Deliverable(n, I, C, R) \subseteq Messages
      BY DEF Deliverable
    <2> QED
      BY <2>1, <2>2, <2>3, <2>4 DEF Agree
  <1>3. /\ \A p \in C : PayFrom[p] = n => OutSt(c, p) # "LocalAnnounced" /\ InSt(d, p) \notin Arriving
    BY ClaimedArrived
  <1>4. \A p \in C : PayTo(p) = m <=> PayFrom[p] = n
    BY <1>1, PeerFacts
  <1>5. \A p \in C : PayTo(p) = n <=> PayFrom[p] = m
    BY <1>1, PeerFacts
  <1> HIDE DEF c, d
  <1>6. RemoteOuts(c) = LocalIns(d) /\ RemoteIns(c) = LocalOuts(d)
    BY <1>2, SidesAgree
  <1>7. Link(d, c, N[n], k)
    BY <1>2 DEF Agreed
  <1>8. c.holderNum = d.cpNum
    <2> DEFINE r == N[n]
    <2>1. Link(d, c, r, k) /\ r \in Seq(Messages) /\ r # <<>> /\ Head(r).t = "cs"
      BY <1>2, <1>7
    <2> HIDE DEF r
    <2> QED
      BY <2>1, LinkHead DEF OwesCs
  <1>9. OutsAre(n, c, I) /\ InsAre(m, d, I)
    BY <1>1, NodeSides
  <1>10. ASSUME NEW p \in C, PayFrom[p] = n
         PROVE  OutSt(c, p) \in {"none"} \cup Removing <=> InSt(d, p) \in {"none", "LocalRemoved"}
    <2>1. OutSt(c, p) = "Committed" <=> InSt(d, p) \in {"AwaitingAnnouncedRemoteRevoke", "Committed"}
      <3>1. p \in Payments
        BY <1>1
      <3>2. p \in RemoteOuts(c) <=> p \in LocalIns(d)
        BY <1>6
      <3> QED
        BY <3>1, <3>2 DEF RemoteOuts, LocalIns
    <2>2. OutSt(c, p) \in {"none"} \cup OutStates /\ InSt(d, p) \in {"none"} \cup InStates
      BY <1>1, <1>9 DEF OutsAre, InsAre
    <2>3. OutSt(c, p) # "LocalAnnounced" /\ InSt(d, p) \notin Arriving
      BY <1>3, <1>10
    <2> QED
      BY <2>1, <2>2, <2>3 DEF Removing, Arriving, OutStates, InStates
  <1>11. ASSUME NEW p \in C
         PROVE  InSt(c, p) = "none" <=> OutSt(d, p) \in {"none", "AwaitingRemovedRemoteRevoke"}
    <2>1. p \in RemoteIns(c) <=> p \in LocalOuts(d)
      BY <1>6
    <2>2. p \in Payments
      BY <1>1
    <2> QED
      BY <2>1, <2>2 DEF RemoteIns, LocalOuts
  <1>12. RemoteDb(n, c, C) = LocalCr(m, d, C)
    BY <1>4, <1>10 DEF RemoteDb, LocalCr
  <1>13. RemoteCr(n, c, C) = LocalDb(m, d, C)
    BY <1>5, <1>11 DEF RemoteCr, LocalDb
  <1> QED
    BY <1>6, <1>8, <1>12, <1>13 DEF c, d

\* The two nodes share the channel's funds.
LEMMA StartsAdd ==
    ASSUME NEW n \in Nodes, NEW m \in Nodes, m = Peer(n)
    PROVE  Start(n) + Start(m) = Funding /\ Funding \in Int /\ n # m /\ Nodes = {n, m}
  BY ChannelAssumption DEF Nodes, Peer, Start

\* The transaction that d's node m builds for its peer is the one that n rebuilds from c.
SameTxs(n, c, m, d) ==
    /\ \A num : build_commitment_transaction(n, c, num, FALSE) = build_commitment_transaction(m, d, num, TRUE)
    /\ BalanceBeforeHtlcs(c, FALSE) = Funding - BalanceBeforeHtlcs(d, TRUE)
    /\ BalanceBeforeHtlcs(d, TRUE) \in Int

\* The transaction that m's node signed is the one that n's rebuilds.
LEMMA TxsAgree ==
    ASSUME NEW I, NEW K, NEW N, NEW S, NEW L, NEW C, NEW R, NEW T, NEW k, Standing(I, K, N, S, L, C, R, T, k),
           NEW n \in Nodes, NEW m \in Nodes, m = Peer(n), N[n] # <<>>, Head(N[n]).t = "cs"
    PROVE  SameTxs(n, K[n], m, K[m]) /\ K[n].holderNum = K[m].cpNum
  <1> DEFINE c == K[n]
             d == K[m]
  <1>1. /\ NodeOK(n, c, I, S, L, C, R) /\ NodeOK(m, d, I, S, L, C, R) /\ I \in [Payments -> Int] /\ IdsUnique(I)
        /\ L \in SUBSET Payments /\ C \in SUBSET Payments /\ R \in SUBSET Payments /\ C \cap R = {} /\ c \in Channel /\ d \in Channel
    BY NodeFacts DEF Standing
  <1>2. IsFiniteSet(C) /\ Balance(n, c, C) /\ Balance(m, d, C)
    <2>1. Decision(I, K, N, S, L, C, R, T)
      BY DEF Standing
    <2>2. IsFiniteSet(C)
      BY <2>1, ClaimedFacts
    <2> QED
      BY <2>2 DEF Standing
  <1>3. /\ RemoteOuts(c) = LocalIns(d) /\ RemoteIns(c) = LocalOuts(d)
        /\ RemoteDb(n, c, C) = LocalCr(m, d, C) /\ RemoteCr(n, c, C) = LocalDb(m, d, C)
        /\ c.holderNum = d.cpNum
    BY ClaimsAgree
  <1> HIDE DEF c, d
  <1>4. /\ RemoteBefore(c, C) = Start(n) + Worth(RemoteCr(n, c, C)) - Worth(RemoteDb(n, c, C))
        /\ LocalBefore(d, C) = Start(m) + Worth(LocalCr(m, d, C)) - Worth(LocalDb(m, d, C))
        /\ \A X : X \subseteq C => Worth(X) \in Int
        /\ Start(n) \in Int /\ Start(m) \in Int
    BY <1>1, <1>2, BeforeIs
  <1>5. LocalCr(m, d, C) \subseteq C /\ LocalDb(m, d, C) \subseteq C
    BY DEF LocalCr, LocalDb
  <1>6. Start(n) + Start(m) = Funding /\ Funding \in Int /\ n # m /\ Nodes = {n, m}
    BY StartsAdd
  <1> DEFINE x == RemoteBefore(c, C)
             y == LocalBefore(d, C)
             a == Worth(LocalCr(m, d, C))
             b == Worth(LocalDb(m, d, C))
  <1>7. a \in Int /\ b \in Int
    BY <1>4, <1>5
  <1>8. x = Start(n) + b - a /\ y = Start(m) + a - b
    BY <1>3, <1>4
  <1>9. x = Funding - y /\ y = Funding - x /\ x \in Int /\ y \in Int
    <2> HIDE DEF a, b, x, y
    <2> QED
      BY <1>4, <1>6, <1>7, <1>8
  <1>14. \A num : OwnTxIs(n, c, C, num)
    BY <1>1, OwnTx
  <1>15. \A num : LocalTxIs(m, d, C, num)
    BY <1>1, LocalTx
  <1>10. BalanceBeforeHtlcs(c, FALSE) = x /\ BalanceBeforeHtlcs(d, TRUE) = y
    BY <1>14, <1>15 DEF OwnTxIs, LocalTxIs
  <1> HIDE DEF x, y
  <1>11. ASSUME NEW num
         PROVE  build_commitment_transaction(n, c, num, FALSE) = build_commitment_transaction(m, d, num, TRUE)
    <2>1. build_commitment_transaction(n, c, num, FALSE) = TxOf(n, num, x, RemoteOuts(c), RemoteIns(c))
      BY <1>14 DEF x, OwnTxIs
    <2>2. build_commitment_transaction(m, d, num, TRUE) = TxOf(m, num, y, LocalOuts(d), LocalIns(d))
      BY <1>15 DEF y, LocalTxIs
    <2>3. /\ Worth(LocalOuts(d)) \in Int /\ Worth(LocalIns(d)) \in Int
      <3>1. IsFiniteSet(Pays(d.inb)) /\ IsFiniteSet(Pays(d.out)) /\ InsAre(m, d, I) /\ OutsAre(m, d, I)
        <4>1. Orderly(m, d)
          BY <1>1, NodeOrderly
        <4>2. IsFiniteSet(Pays(d.inb)) /\ IsFiniteSet(Pays(d.out))
          BY <4>1, SumsAreWorth
        <4> QED
          BY <1>1, <4>2, NodeSides
      <3>2. LocalIns(d) \subseteq Pays(d.inb) /\ LocalOuts(d) \subseteq Pays(d.out)
        BY <3>1 DEF LocalIns, LocalOuts, Pays, InsAre, OutsAre
      <3>3. LocalIns(d) \subseteq Payments /\ LocalOuts(d) \subseteq Payments
        BY DEF LocalIns, LocalOuts
      <3> QED
        BY <3>1, <3>2, <3>3, FS_Subset, WorthAdds
    <2> DEFINE o == LocalOuts(d)
               i == LocalIns(d)
    <2>4. TxOf(n, num, x, i, o) = TxOf(m, num, y, o, i)
      <3> HIDE DEF o, i
      <3>1. Worth(o) \in Int /\ Worth(i) \in Int
        BY <2>3 DEF o, i
      <3>2. [z \in Nodes |-> IF z = n THEN x - Worth(i) ELSE Funding - x - Worth(o)]
             = [z \in Nodes |-> IF z = m THEN y - Worth(o) ELSE Funding - y - Worth(i)]
        BY <1>6, <1>9, <3>1
      <3> QED
        BY <3>2 DEF TxOf
    <2> QED
      BY <1>3, <2>1, <2>2, <2>4
  <1>12. SameTxs(n, c, m, d)
    BY <1>9, <1>10, <1>11 DEF SameTxs
  <1> QED
    BY <1>3, <1>12 DEF c, d

-----------------------------------------------------------------------------
(* The assertions of build_commitment_transaction hold.                    *)

\* The assertions of build_commitment_transaction hold of a commitment for the peer.
AssertsLocal(n, c) == BuildAsserts(n, c, TRUE)

\* They hold of a commitment of n's own.
AssertsOwn(n, c) == BuildAsserts(n, c, FALSE)

\* The assertions, by what the two sides have left.
LEMMA AssertsAre ==
    ASSUME NEW n \in Nodes, NEW m \in Nodes, m = Peer(n), NEW c, NEW C, LocalTxIs(n, c, C, 0),
           NEW x, x = LocalBefore(c, C), NEW o, o = Worth(LocalOuts(c)), NEW i, i = Worth(LocalIns(c)),
           x \in Int, o \in Int, i \in Int, o >= 0, i >= 0,
           x - o >= 0, Funding - x - i >= 0
    PROVE  AssertsLocal(n, c)
  <1>1. n # m /\ Nodes = {n, m} /\ Funding \in Int
    BY StartsAdd
  <1> DEFINE b == BalanceBeforeHtlcs(c, TRUE)
             tx == build_commitment_transaction(n, c, 0, TRUE)
  <1>2. b = x /\ tx = TxOf(n, 0, x, LocalOuts(c), LocalIns(c))
    BY DEF LocalTxIs
  <1>3. b \in 0 .. Funding
    <2> HIDE DEF b
    <2> QED
      BY <1>1, <1>2
  <1>4. tx.bal = [z \in Nodes |-> IF z = n THEN x - o ELSE Funding - x - i]
    <2> HIDE DEF tx, b
    <2> QED
      BY <1>2 DEF TxOf
  <1>5. \A z \in Nodes : tx.bal[z] >= 0
    <2> HIDE DEF tx
    <2> QED
      BY <1>1, <1>4
  <1> QED
    BY <1>3, <1>5 DEF AssertsLocal, BuildAsserts

\* A node can afford the commitment it builds for its peer.
LEMMA Affordable ==
    ASSUME NEW I, NEW K, NEW N, NEW S, NEW L, NEW C, NEW R, NEW T, NEW k, Standing(I, K, N, S, L, C, R, T, k),
           NEW n \in Nodes, NEW m \in Nodes, m = Peer(n), OwesCs(K[n], K[m])
    PROVE  AssertsLocal(n, K[n])
  <1> DEFINE c == K[n]
             d == K[m]
  <1>1. /\ NodeOK(n, c, I, S, L, C, R) /\ NodeOK(m, d, I, S, L, C, R) /\ I \in [Payments -> Int] /\ IdsUnique(I)
        /\ L \in SUBSET Payments /\ C \in SUBSET Payments /\ R \in SUBSET Payments /\ C \cap R = {} /\ c \in Channel /\ d \in Channel
    BY NodeFacts DEF Standing
  <1>2. /\ IsFiniteSet(C) /\ Balance(n, c, C) /\ Balance(m, d, C)
        /\ AvailableRgb(c) >= 0 /\ AvailableRgb(d) >= 0 /\ OwesCs(c, d)
    <2>1. Decision(I, K, N, S, L, C, R, T)
      BY DEF Standing
    <2>2. IsFiniteSet(C)
      BY <2>1, ClaimedFacts
    <2> QED
      BY <2>2 DEF Standing
  <1>3. \A p \in C : PayFrom[p] = n => OutSt(c, p) # "LocalAnnounced" /\ InSt(d, p) \notin Arriving
    BY ClaimedArrived
  <1>4. /\ Turns(c, d) /\ Counted(c) /\ Counted(d) /\ (\A p \in Payments : PairOf(c, d, p)) /\ (\A p \in Payments : PairOf(d, c, p))
    <2>1. Decision(I, K, N, S, L, C, R, T) /\ Agreed(c, d, N[m], N[n], k, From(n), From(m))
      BY DEF Standing, Danced, Agree
    <2>2. Fits(c, d, From(n), From(m))
      BY <2>1, DecisionFits
    <2> QED
      BY <2>1, <2>2 DEF Agreed, Half, Link, Fits
  <1> HIDE DEF c, d
  <1>5. ~OwesRaa(d, c)
    BY <1>2, <1>4, WhoseTurn
  <1>6. /\ OutsAre(n, c, I) /\ InsAre(n, c, I) /\ OutsAre(m, d, I) /\ InsAre(m, d, I) /\ Orderly(n, c) /\ Orderly(m, d)
    BY <1>1, NodeSides, NodeOrderly
  <1>7. /\ IsFiniteSet(Pays(c.out)) /\ Pays(c.out) \subseteq Payments /\ IsFiniteSet(Pays(c.inb)) /\ Pays(c.inb) \subseteq Payments
        /\ IsFiniteSet(Pays(d.out)) /\ Pays(d.out) \subseteq Payments
    BY <1>6, SumsAreWorth
  <1>8. /\ \A p \in Payments : p \in Pays(c.out) <=> OutSt(c, p) # "none"
        /\ \A p \in Payments : p \in Pays(c.inb) <=> InSt(c, p) # "none"
        /\ \A p \in Payments : p \in Pays(d.out) <=> OutSt(d, p) # "none"
        /\ \A p \in Payments : p \in Pays(d.inb) <=> InSt(d, p) # "none"
    BY <1>6 DEF Pays, OutsAre, InsAre
  <1>9. /\ AvailableRgb(c) = c.toSelf - Worth(Pays(c.out)) - Worth(AddsIn(c)) /\ AvailableRgb(c) \in Int
        /\ AvailableRgb(d) = d.toSelf - Worth(Pays(d.out)) - Worth(AddsIn(d)) /\ AvailableRgb(d) \in Int
    BY <1>1, AvailableIs
  <1>10. /\ Worth(AddsIn(c)) >= 0 /\ Worth(AddsIn(d)) >= 0 /\ Worth(AddsIn(c)) \in Int /\ Worth(AddsIn(d)) \in Int
    <2>1. /\ AddsIn(c) \subseteq Payments /\ IsFiniteSet(AddsIn(c))
          /\ AddsIn(d) \subseteq Payments /\ IsFiniteSet(AddsIn(d))
      BY <1>1, CellAddsFacts DEF AddsIn
    <2> QED
      BY <2>1, WorthGrows, WorthAdds
  \* what n's node has left
  <1>11. LocalBefore(c, C) - Worth(LocalOuts(c)) >= 0 /\ LocalBefore(c, C) \in Int
    <2> DEFINE G == LocalGain(c, C)
               H == LocalLoss(c, C)
               O == LocalOuts(c)
    <2>1. H \cup O \subseteq Pays(c.out) /\ H \cap O = {} /\ G \subseteq Pays(c.inb)
      BY <1>1, <1>8 DEF LocalGain, LocalLoss, LocalOuts
    <2>2. c.toSelf \in Int
      BY <1>1 DEF Channel
    <2>6. LocalBefore(c, C) = c.toSelf + Worth(G) - Worth(H)
      BY DEF LocalBefore
    <2> HIDE DEF G, H, O
    <2>3. /\ Worth(G) >= 0 /\ Worth(G) \in Int /\ Worth(H) \in Int /\ Worth(O) \in Int
          /\ Worth(H \cup O) = Worth(H) + Worth(O)
      <3>1. /\ H \subseteq Payments /\ IsFiniteSet(H) /\ O \subseteq Payments /\ IsFiniteSet(O) /\ G \subseteq Payments /\ IsFiniteSet(G)
        BY <1>7, <2>1, FS_Subset
      <3> QED
        BY <2>1, <3>1, WorthAdds, WorthGrows
    <2>4. Worth(H \cup O) <= Worth(Pays(c.out)) /\ Worth(Pays(c.out)) \in Int
      BY <1>7, <2>1, WorthGrows, WorthAdds
    <2>5. LocalBefore(c, C) - Worth(O) >= 0 /\ LocalBefore(c, C) \in Int
      BY <1>2, <1>9, <1>10, <2>2, <2>3, <2>4, <2>6
    <2> QED
      BY <2>5 DEF O
  \* what its peer has left
  <1>12. Funding - LocalBefore(c, C) - Worth(LocalIns(c)) >= 0
    <2> DEFINE A == LocalCr(n, c, C)
               B == LocalDb(n, c, C)
               G == LocalIns(c)
               X == CreditedTo(m, d, C)
               Y == DebitedTo(m, d, C)
               O == Pays(d.out)
    <2>1. /\ LocalBefore(c, C) = Start(n) + Worth(A) - Worth(B) /\ Start(n) \in Int
      BY <1>1, <1>2, BeforeIs
    <2>2. d.toSelf = Start(m) + Worth(X) - Worth(Y)
      BY <1>2 DEF Balance
    <2>3. Start(n) + Start(m) = Funding /\ Funding \in Int
      BY StartsAdd
    <2>9. Start(m) \in Int
      BY ChannelAssumption DEF Start
    <2>4. X \subseteq B
      <3> SUFFICES ASSUME NEW p \in C, PayTo(p) = m, InSt(d, p) = "none"
                   PROVE  PayFrom[p] = n /\ OutSt(c, p) \in {"none", "AwaitingRemovedRemoteRevoke"}
        BY <1>1, <1>8 DEF CreditedTo, LocalDb
      <3>1. PayFrom[p] = n /\ p \in Payments
        BY <1>1, PeerFacts
      <3>2. PairOf(c, d, p) /\ OutSt(c, p) # "LocalAnnounced"
        BY <1>3, <1>4, <3>1
      <3> QED
        BY <1>5, <3>1, <3>2 DEF PairOf, Pair
    <2>5. A \cup G \subseteq Y \cup O /\ A \cap G = {}
      <3>1. \A p \in C : PayTo(p) = n => PayFrom[p] = m
        BY <1>1, PeerFacts
      <3>2. A \subseteq Y \cup O
        BY <1>1, <1>8, <3>1 DEF LocalCr, DebitedTo
      <3>3. ASSUME NEW p \in G PROVE p \in O
        <4>1. p \in Payments /\ PairOf(d, c, p) /\ InSt(c, p) \in {"AwaitingAnnouncedRemoteRevoke", "Committed"}
          BY <1>4 DEF LocalIns
        <4>2. OutSt(d, p) # "none"
          BY <4>1 DEF PairOf, Pair
        <4> QED
          BY <1>8, <4>1, <4>2
      <3>4. A \cap G = {}
        BY DEF LocalCr, LocalIns
      <3> QED
        BY <3>2, <3>3, <3>4
    <2>6. /\ A \subseteq C /\ B \subseteq C /\ X \subseteq C /\ Y \subseteq C /\ G \subseteq Pays(c.inb) /\ Y \cap O = {}
      <3>1. G \subseteq Pays(c.inb)
        BY <1>8 DEF LocalIns
      <3> QED
        BY <3>1 DEF LocalCr, LocalDb, CreditedTo, DebitedTo
    <2>8. O \subseteq Payments /\ IsFiniteSet(O)
      BY <1>7
    <2>10. Worth(O) = Worth(Pays(d.out))
      OBVIOUS
    <2> HIDE DEF A, B, G, X, Y, O
    <2>7. /\ A \subseteq Payments /\ IsFiniteSet(A) /\ B \subseteq Payments /\ IsFiniteSet(B) /\ G \subseteq Payments /\ IsFiniteSet(G)
          /\ X \subseteq Payments /\ IsFiniteSet(X) /\ Y \subseteq Payments /\ IsFiniteSet(Y)
      BY <1>1, <1>2, <1>7, <2>6, FS_Subset
    <2>11. /\ Worth(A) \in Int /\ Worth(B) \in Int /\ Worth(G) \in Int /\ Worth(X) \in Int /\ Worth(Y) \in Int /\ Worth(O) \in Int
           /\ Worth(A \cup G) = Worth(A) + Worth(G) /\ Worth(Y \cup O) = Worth(Y) + Worth(O)
      BY <2>5, <2>6, <2>7, <2>8, WorthAdds
    <2>12. Worth(X) <= Worth(B)
      BY <2>4, <2>7, WorthGrows
    <2>13. Worth(A \cup G) <= Worth(Y \cup O)
      <3>1. IsFiniteSet(Y \cup O) /\ Y \cup O \subseteq Payments
        BY <2>7, <2>8, FS_Union
      <3> QED
        BY <2>5, <3>1, WorthGrows
    <2>14. d.toSelf - Worth(O) >= 0
      <3>1. d.toSelf \in Int
        BY <1>1 DEF Channel
      <3> QED
        BY <1>2, <1>9, <1>10, <2>10, <2>11, <3>1
    <2> DEFINE lb == LocalBefore(c, C)
    <2>15. lb = Start(n) + Worth(A) - Worth(B)
      BY <2>1
    <2>16. Funding - lb - Worth(G) >= 0
      <3> HIDE DEF lb
      <3> QED
        BY <2>1, <2>2, <2>3, <2>9, <2>11, <2>12, <2>13, <2>14, <2>15
    <2> QED
      BY <2>16 DEF G
  <1>13. /\ Worth(LocalOuts(c)) \in Int /\ Worth(LocalOuts(c)) >= 0 /\ Worth(LocalIns(c)) \in Int /\ Worth(LocalIns(c)) >= 0
    <2>1. LocalOuts(c) \subseteq Pays(c.out) /\ LocalIns(c) \subseteq Pays(c.inb)
      BY <1>8 DEF LocalOuts, LocalIns
    <2>2. /\ LocalOuts(c) \subseteq Payments /\ IsFiniteSet(LocalOuts(c)) /\ LocalIns(c) \subseteq Payments /\ IsFiniteSet(LocalIns(c))
      BY <1>7, <2>1, FS_Subset
    <2> QED
      BY <2>2, WorthGrows, WorthAdds
  <1>14. LocalTxIs(n, c, C, 0)
    BY <1>1, LocalTx
  <1>15. AssertsLocal(n, c)
    BY <1>11, <1>12, <1>13, <1>14, AssertsAre
  <1> QED
    BY <1>15 DEF c

\* A node finds the commitment affordable that it is sent.
LEMMA Verifiable ==
    ASSUME NEW I, NEW K, NEW N, NEW S, NEW L, NEW C, NEW R, NEW T, NEW k, Standing(I, K, N, S, L, C, R, T, k),
           NEW n \in Nodes, NEW m \in Nodes, m = Peer(n), N[n] # <<>>, Head(N[n]).t = "cs"
    PROVE  AssertsOwn(n, K[n])
  <1>1. m \in Nodes /\ Peer(m) = n
    BY PeerFacts
  <1>2. OwesCs(K[m], K[n])
    <2> DEFINE r == N[n]
               c == K[n]
               d == K[m]
    <2>1. Link(d, c, r, k)
      BY DEF Standing, Danced, Agree, Agreed
    <2>2. r \in Seq(Deliverable(n, I, C, R))
      BY DEF Standing, Decision
    <2>3. r # <<>> /\ Head(r).t = "cs"
      OBVIOUS
    <2> HIDE DEF r, c, d
    <2>4. OwesCs(d, c)
      BY <2>1, <2>2, <2>3, LinkHead
    <2> QED
      BY <2>4 DEF c, d
  <1>3. AssertsLocal(m, K[m])
    BY <1>1, <1>2, Affordable
  <1> DEFINE tx == build_commitment_transaction(n, K[n], 0, FALSE)
             ty == build_commitment_transaction(m, K[m], 0, TRUE)
             x == BalanceBeforeHtlcs(K[n], FALSE)
             y == BalanceBeforeHtlcs(K[m], TRUE)
  <1>4. tx = ty /\ x = Funding - y /\ y \in Int
    <2>1. SameTxs(n, K[n], m, K[m])
      BY TxsAgree
    <2> QED
      BY <2>1 DEF SameTxs
  <1>5. y \in 0 .. Funding /\ \A z \in Nodes : ty.bal[z] >= 0
    BY <1>3 DEF AssertsLocal, BuildAsserts
  <1>6. Funding \in Int
    BY ChannelAssumption
  <1>7. x \in 0 .. Funding /\ \A z \in Nodes : tx.bal[z] >= 0
    <2> HIDE DEF tx, ty, x, y
    <2> QED
      BY <1>4, <1>5, <1>6
  <1> QED
    BY <1>7 DEF AssertsOwn, BuildAsserts

-----------------------------------------------------------------------------
(* Neither node offers more than it has.                                   *)

\* Neither node has offered more than it has.
Money == \A n \in Nodes : AvailableRgb(ch[n]) >= 0

\* A step of the ledger does not make a node spend more than it has.
LEMMA SpendsOnly ==
    ASSUME NEW st, NEW se, NEW sp, NEW st2, NEW se2, NEW sp2, IdealNext(st, se, sp, st2, se2, sp2),
           sp \in [Nodes -> Int], \A n \in Nodes : sp[n] >= 0,
           NEW S, IsFiniteSet(S), S \subseteq Payments, \A p \in Payments : p \notin S => st[p] = "idle"
    PROVE  \A n \in Nodes : sp2[n] >= 0
  <1>a. Amount \in [Payments -> Nat \ {0}] /\ PayFrom \in [Payments -> Nodes] BY ChannelAssumption
  <1>1. ASSUME NEW p \in Payments, IdealOffer(p, st, se, sp, st2, se2, sp2)
        PROVE  \A n \in Nodes : sp2[n] >= 0
    <2>1. Amount[p] \in Int /\ PayFrom[p] \in Nodes BY <1>a
    <2>2. Amount[p] <= sp[PayFrom[p]] /\ sp2 = [sp EXCEPT ![PayFrom[p]] = @ - Amount[p]] BY <1>1 DEF IdealOffer
    <2> QED BY <2>1, <2>2
  <1>2. ASSUME NEW p \in Payments, IdealClaim(p, st, se, sp, st2, se2, sp2)
        PROVE  \A n \in Nodes : sp2[n] >= 0
    BY <1>2 DEF IdealClaim
  <1>3. ASSUME NEW n \in Nodes, NEW cr \in SUBSET Payments, NEW re \in SUBSET Payments,
               IdealSettle(n, cr, re, st, se, sp, st2, se2, sp2)
        PROVE  \A x \in Nodes : sp2[x] >= 0
    <2>1. cr \cup re \subseteq S BY <1>3 DEF IdealSettle
    <2>2. IsFiniteSet(cr \cup re) BY <2>1, FS_Subset
    <2> DEFINE w == Worth(cr \cup re)
    <2>3. w >= 0 BY <2>2, WorthGrows
    <2>4. w \in Int BY <2>2, WorthAdds
    <2>5. sp2 = [sp EXCEPT ![n] = @ + w] BY <1>3 DEF IdealSettle
    <2> HIDE DEF w
    <2> QED BY <2>3, <2>4, <2>5
  <1> QED BY <1>1, <1>2, <1>3 DEF IdealNext

\* At the start each node has what it put in.
LEMMA InitMoney == Init => Money
  <1> SUFFICES ASSUME Init, NEW n \in Nodes PROVE AvailableRgb(ch[n]) >= 0 BY DEF Money
  <1>1. PICK I : Decision(I, ch, net, started, claimable, claimed, refused, told) BY InitDecision DEF DecisionInv
  <1> DEFINE c == ch[n]
  <1>2. NodeOK(n, c, I, started, claimable, claimed, refused) BY <1>1 DEF Decision
  <1>3. c.out = {} /\ c.cell = <<>> /\ c.toSelf = Start(n) BY DEF Init
  <1>4. Start(n) \in Int /\ Start(n) >= 0 BY ChannelAssumption DEF Start
  <1>5. Pays(c.out) = {} /\ AddsIn(c) = {} BY <1>3 DEF Pays, AddsIn, CellAdds, ToSet
  <1>6. AvailableRgb(c) = c.toSelf - Worth(Pays(c.out)) - Worth(AddsIn(c))
    <2> HIDE DEF c
    <2> QED BY <1>2, AvailableIs
  <1>7. AvailableRgb(c) = Start(n) - 0 - 0 BY <1>3, <1>5, <1>6, WorthAdds
  <1> HIDE DEF c
  <1>8. AvailableRgb(c) >= 0 BY <1>4, <1>7
  <1> QED BY <1>8 DEF c

\* No step makes a node offer more than it has (send_htlc, free_holding_cell_htlcs).
LEMMA NextMoney ==
    ASSUME NEW I, Before(I), Money, Next
    PROVE  Money'
  <1> DEFINE st == StatusMap(ch, started, claimed)
             se == SettledSet(ch, started, claimed)
             sp == SpendMap(ch)
             st2 == StatusMap(ch', started', claimed')
             se2 == SettledSet(ch', started', claimed')
             sp2 == SpendMap(ch')
  <1>1. IdealNext(st, se, sp, st2, se2, sp2) BY NextStep, LedgerIdeal DEF Before, Stepped
  <1>2. sp \in [Nodes -> Int] /\ \A n \in Nodes : sp[n] >= 0
    <2>1. \A n \in Nodes : AvailableRgb(ch[n]) \in Int
      <3> TAKE n \in Nodes
      <3>1. NodeOK(n, ch[n], I, started, claimable, claimed, refused) BY DEF Before, Decision
      <3> QED BY <3>1, AvailableIs
    <2>2. \A n \in Nodes : sp[n] = AvailableRgb(ch[n]) BY DEF SpendMap
    <2> QED BY <2>1, <2>2 DEF SpendMap, Money
  <1>3. IsFiniteSet(started) /\ started \subseteq Payments BY DEF Before, Decision, IdsOK
  <1>4. \A p \in Payments : p \notin started => st[p] = "idle" BY DEF StatusMap, StatusOf
  <1>5. \A n \in Nodes : sp2[n] >= 0
    <2> HIDE DEF st, se, sp, st2, se2, sp2
    <2> QED BY <1>1, <1>2, <1>3, <1>4, SpendsOnly
  <1> QED BY <1>5 DEF SpendMap, Money

-----------------------------------------------------------------------------
(* A commitment that is built does not end the channel.                    *)

\* The channel stays open, or a commitment for the peer was built that fails an assertion.
Honest(n, f) == f.fate = "open" \/ (f.pendCs /\ ~AssertsLocal(n, f))

\* The assertions see the HTLCs and the balance only.
LEMMA AssertsSame ==
    ASSUME NEW n, NEW c, NEW d, d.inb = c.inb, d.out = c.out, d.toSelf = c.toSelf
    PROVE  AssertsLocal(n, d) <=> AssertsLocal(n, c)
  <1>1. BalanceBeforeHtlcs(d, TRUE) = BalanceBeforeHtlcs(c, TRUE) BY DEF BalanceBeforeHtlcs
  <1>2. build_commitment_transaction(n, d, 0, TRUE) = build_commitment_transaction(n, c, 0, TRUE)
    BY <1>1 DEF build_commitment_transaction
  <1> QED BY <1>1, <1>2 DEF AssertsLocal, BuildAsserts

\* A channel that is given up for an assertion keeps its HTLCs.
LEMMA AssertBuilt ==
    ASSUME NEW n, NEW c \in Channel, c.fate = "open", NEW raa, NEW g, g = build_commitment_no_status_check(n, c),
           NEW f, f = monitor_updating_paused(g, raa, TRUE)
    PROVE  Honest(n, f)
  <1> DEFINE d == [c EXCEPT
            !.inb = Promote(@, "AwaitingRemoteRevokeToAnnounce", "AwaitingAnnouncedRemoteRevoke"),
            !.out = Promote(@, "AwaitingRemoteRevokeToRemove", "AwaitingRemovedRemoteRevoke"),
            !.order = "RevokeAndACKFirst",
            !.awaitRaa = TRUE]
  <1>1. g = IF AssertsLocal(n, d) THEN d ELSE Ends(d, "assert") BY DEF build_commitment_no_status_check, AssertsLocal
  <1>2. DOMAIN d = DOMAIN c /\ d.fate = "open" BY DEF Channel
  <1>3. {"inb", "out", "toSelf", "fate", "pendCs", "pendRaa", "monBusy"} \subseteq DOMAIN d BY <1>2 DEF Channel
  <1> HIDE DEF d
  <1>4. g.inb = d.inb /\ g.out = d.out /\ g.toSelf = d.toSelf /\ DOMAIN g = DOMAIN d
    BY <1>1, <1>3 DEF Ends
  <1>5. f.inb = g.inb /\ f.out = g.out /\ f.toSelf = g.toSelf /\ f.pendCs /\ f.fate = g.fate
    BY <1>3, <1>4 DEF monitor_updating_paused
  <1>6. CASE AssertsLocal(n, d) BY <1>6, <1>1, <1>2, <1>5 DEF Honest
  <1>7. CASE ~AssertsLocal(n, d)
    <2>1. ~AssertsLocal(n, f) BY <1>7, <1>4, <1>5, AssertsSame
    <2> QED BY <2>1, <1>5 DEF Honest
  <1> QED BY <1>6, <1>7

\* BuildAndPause
LEMMA BuildHonest ==
    ASSUME NEW n, NEW e \in Channel, e.fate = "open", NEW f, f = BuildAndPause(n, e)
    PROVE  Honest(n, f)
  BY AssertBuilt DEF BuildAndPause

\* free_holding_cell_htlcs
LEMMA FreeHonest ==
    ASSUME NEW n, NEW c, Orderly(n, c), CellReady(c), c.fate = "open",
           NEW tight, NEW e, e = maybe_free_holding_cell_htlcs(n, c, tight)
    PROVE  Honest(n, e.c) /\ (~e.did => e.c.fate = "open")
  <1>1. CASE can_generate_new_commitment(c)
    <2>1. e = free_holding_cell_htlcs(n, c, tight) BY <1>1 DEF maybe_free_holding_cell_htlcs
    <2>2. PICK x : /\ Emptied(c, x, Len(c.cell))
                   /\ e.did => e.c = BuildAndPause(n, x)
                   /\ ~e.did => e.c = x /\ SameHtlcs(c, x)
      BY <2>1, <1>1, FreeEmpties DEF Orderly
    <2>3. x \in Channel /\ x.fate = "open" BY <2>2 DEF Emptied
    <2>4. CASE e.did BY <2>4, <2>2, <2>3, BuildHonest
    <2>5. CASE ~e.did BY <2>5, <2>2, <2>3 DEF Honest
    <2> QED BY <2>4, <2>5
  <1>2. CASE ~can_generate_new_commitment(c)
    <2>1. e.c = c BY <1>2 DEF maybe_free_holding_cell_htlcs
    <2> QED BY <2>1 DEF Honest
  <1> QED BY <1>1, <1>2

\* revoke_and_ack
LEMMA RevokeHonest ==
    ASSUME NEW n \in Nodes, NEW c, NEW I \in [Payments -> Int], NEW S,
           NEW L \in SUBSET Payments, NEW C \in SUBSET Payments, NEW R \in SUBSET Payments,
           NodeOK(n, c, I, S, L, C, R), IdsUnique(I), CellReady(c), c.fate = "open",
           NEW tight, NEW e \in Accs, e = maybe_free_holding_cell_htlcs(n, ApplyRevocation(c), tight),
           NEW r, r = revoke_and_ack(n, c, tight)
    PROVE  Honest(n, r.c)
  <1> DEFINE x == ApplyRevocation(c)
  <1>1. CellReady(x) /\ Orderly(n, x) /\ RevokedTo(c, x) BY ReadyRevoked
  <1>2. x.fate = "open" BY <1>1 DEF RevokedTo
  <1>3. e = maybe_free_holding_cell_htlcs(n, x, tight) OBVIOUS
  <1>4. Honest(n, e.c) /\ (~e.did => e.c.fate = "open")
    <2> HIDE DEF x
    <2> QED BY <1>1, <1>2, <1>3, FreeHonest
  <1>5. e.c \in Channel /\ e.did \in BOOLEAN /\ DOMAIN e = {"c", "failed", "did"} BY DEF Accs
  <1>6. \/ e.did /\ r = e
        \/ ~e.did /\ r = [e EXCEPT !.c = BuildAndPause(n, @)]
        \/ ~e.did /\ r = [e EXCEPT !.c = monitor_updating_paused(@, FALSE, FALSE)]
    BY <1>5 DEF revoke_and_ack
  <1>7. CASE e.did /\ r = e BY <1>7, <1>4
  <1>8. CASE ~e.did /\ r = [e EXCEPT !.c = BuildAndPause(n, @)]
    <2>1. r.c = BuildAndPause(n, e.c) BY <1>8, <1>5
    <2> QED BY <2>1, <1>8, <1>4, <1>5, BuildHonest
  <1>9. CASE ~e.did /\ r = [e EXCEPT !.c = monitor_updating_paused(@, FALSE, FALSE)]
    <2>1. r.c = monitor_updating_paused(e.c, FALSE, FALSE) BY <1>9, <1>5
    <2>2. r.c.fate = e.c.fate BY <2>1, <1>5, PausedKeeps
    <2> QED BY <2>2, <1>9, <1>4 DEF Honest
  <1> QED BY <1>6, <1>7, <1>8, <1>9

\* commitment_signed_update_monitor
LEMMA SignedHonest ==
    ASSUME NEW n, NEW c, Orderly(n, c), NEW tx \in Txs, c.fate = "open",
           NEW f, f = commitment_signed_update_monitor(n, c, tx)
    PROVE  Honest(n, f)
  <1> DEFINE d == SignedFirst(c, tx)
             commit == NeedsCommitment(c) /\ ~c.awaitRaa
  <1>1. d \in Channel /\ d.fate = "open" BY SignedFields DEF SignedFrom
  <1>2. f = monitor_updating_paused(IF commit THEN build_commitment_no_status_check(n, d) ELSE d, TRUE, commit)
    BY SignedSplit
  <1>3. CASE commit
    <2>1. f = monitor_updating_paused(build_commitment_no_status_check(n, d), TRUE, TRUE) BY <1>2, <1>3
    <2> HIDE DEF d, commit
    <2> QED BY <2>1, <1>1, AssertBuilt
  <1>4. CASE ~commit
    <2>1. f = monitor_updating_paused(d, TRUE, FALSE) BY <1>2, <1>4
    <2> HIDE DEF d, commit
    <2>2. f.fate = d.fate BY <2>1, <1>1, PausedKeeps
    <2> QED BY <2>2, <1>1 DEF Honest
  <1> QED BY <1>3, <1>4

\* A node that is in step with its peer builds no commitment that fails an assertion.
LEMMA HonestOpen ==
    ASSUME NEW I, NEW K, NEW N, NEW S, NEW L, NEW C, NEW R, NEW T, NEW k, Standing(I, K, N, S, L, C, R, T, k),
           NEW n \in Nodes, Honest(n, K[n])
    PROVE  K[n].fate = "open"
  <1> DEFINE m == Peer(n)
  <1>1. m \in Nodes BY DEF Peer, Nodes
  <1>2. Agree(n, K, N, k) BY DEF Standing, Danced
  <1>3. K[n].pendCs => OwesCs(K[n], K[m]) BY <1>2 DEF Agree, Agreed, Link, Pending
  <1>4. K[n].pendCs => AssertsLocal(n, K[n]) BY <1>1, <1>3, Affordable
  <1> QED BY <1>4 DEF Honest

-----------------------------------------------------------------------------
(* Steps that leave every signature good.                                  *)

\* The commitment n would sign for its peer now.
LocalTxNow(n, c) == build_commitment_transaction(n, c, c.cpNum, TRUE)

\* Every commitment_signed on its way signs what its sender would sign again.
AllSigned == \A n \in Nodes : Signed(net[Peer(n)], LocalTxNow(n, ch[n]))

\* Neither node has begun to close.
Unshut == \A n \in Nodes : ~ch[n].localShut /\ ~ch[n].remoteShut /\ ~Has(net[n], Aside)

\* The step does not begin to close.
Discreet(c, f) == (f.localShut <=> c.localShut) /\ (f.remoteShut <=> c.remoteShut)

\* The commitment for the peer sees HTLCs, balance and counter only.
LEMMA SameTxNow ==
    ASSUME NEW n, NEW c, NEW d, d.inb = c.inb, d.out = c.out, d.toSelf = c.toSelf, d.cpNum = c.cpNum
    PROVE  LocalTxNow(n, d) = LocalTxNow(n, c)
  <1>1. BalanceBeforeHtlcs(d, TRUE) = BalanceBeforeHtlcs(c, TRUE) BY DEF BalanceBeforeHtlcs
  <1> QED BY <1>1 DEF LocalTxNow, build_commitment_transaction

\* The peer's updates do not touch the commitment for the peer before they are both signed for.
SameLocal(c, f) ==
    /\ f.toSelf = c.toSelf /\ f.cpNum = c.cpNum
    /\ \A p \in Payments :
        /\ InSt(f, p) \in {"AwaitingAnnouncedRemoteRevoke", "Committed"}
                <=> InSt(c, p) \in {"AwaitingAnnouncedRemoteRevoke", "Committed"}
        /\ InSt(f, p) = "LocalRemoved" <=> InSt(c, p) = "LocalRemoved"
        /\ OutSt(f, p) \in {"none", "AwaitingRemovedRemoteRevoke"}
                <=> OutSt(c, p) \in {"none", "AwaitingRemovedRemoteRevoke"}
        /\ OutSt(f, p) = "AwaitingRemovedRemoteRevoke" <=> OutSt(c, p) = "AwaitingRemovedRemoteRevoke"

\* The same commitment for the peer.
LEMMA SameLocalTx ==
    ASSUME NEW n \in Nodes, NEW C \in SUBSET Payments, NEW R \in SUBSET Payments, C \cap R = {},
           NEW c, NEW I \in [Payments -> Int], NEW S, NEW L \in SUBSET Payments,
           NodeOK(n, c, I, S, L, C, R), IdsUnique(I),
           NEW f, NEW J \in [Payments -> Int], NEW S2, NEW L2 \in SUBSET Payments,
           NodeOK(n, f, J, S2, L2, C, R), IdsUnique(J), SameLocal(c, f)
    PROVE  LocalTxNow(n, f) = LocalTxNow(n, c)
  <1> DEFINE num == c.cpNum
  <1>1. f.cpNum = num BY DEF SameLocal
  <1> HIDE DEF num
  <1>2. LocalTxIs(n, c, C, num) BY LocalTx
  <1>3. LocalTxIs(n, f, C, num) BY LocalTx
  <1>4. LocalIns(f) = LocalIns(c) /\ LocalOuts(f) = LocalOuts(c) BY DEF SameLocal, LocalIns, LocalOuts
  <1>5. LocalGain(f, C) = LocalGain(c, C) /\ LocalLoss(f, C) = LocalLoss(c, C) BY DEF SameLocal, LocalGain, LocalLoss
  <1>6. LocalBefore(f, C) = LocalBefore(c, C) BY <1>5 DEF LocalBefore, SameLocal
  <1>7. build_commitment_transaction(n, f, num, TRUE) = build_commitment_transaction(n, c, num, TRUE)
    BY <1>2, <1>3, <1>4, <1>6 DEF LocalTxIs
  <1> QED BY <1>1, <1>7 DEF LocalTxNow, num

\* A step of n: the two are still in step, and nothing about it forces the channel to be closed.
Onward(n) ==
    /\ StillInStep
    /\ \E f, s : /\ Becomes(n, f) /\ Honest(n, f) /\ Discreet(ch[n], f)
                 /\ s \in Seq(Messages) /\ ~Has(s, Aside) /\ net'[Peer(n)] = net[Peer(n)] \o s
                 /\ net'[n] = net[n] \/ (net[n] # <<>> /\ net'[n] = Tail(net[n]))
                 /\ Signed(net'[Peer(n)], LocalTxNow(n, f))

\* A commitment that is held back, or not owed, is not on its way.
LEMMA HeldSigned ==
    ASSUME NEW I, Before(I), StillInStep, NEW n \in Nodes, NEW m \in Nodes, m = Peer(n), NEW f, Becomes(n, f),
           f.pendCs \/ ~OwesCs(f, ch[m]), NEW tx
    PROVE  Signed(net'[m], tx)
  <1>1. ch'[n] = f /\ ch'[m] = ch[m] BY BecomesIs
  <1>2. Agree(n, ch', net', Wire) BY DEF StillInStep, Danced
  <1>3. Link(f, ch[m], net'[m], Wire) BY <1>1, <1>2 DEF Agree, Agreed
  <1>4. ~Has(net'[m], {"cs"}) BY <1>3 DEF Link, Pending
  <1> QED BY <1>4 DEF Has, Signed

\* A step that sends nothing.
LEMMA SilentOnward ==
    ASSUME NEW I, Before(I), InStep, AllSigned, StillInStep, NEW n \in Nodes, NEW m \in Nodes, m = Peer(n),
           NEW f, Becomes(n, f), Honest(n, f), Discreet(ch[n], f), net'[m] = net[m],
           net'[n] = net[n] \/ (net[n] # <<>> /\ net'[n] = Tail(net[n])),
           f.pendCs \/ ~OwesCs(f, ch[m]) \/ LocalTxNow(n, f) = LocalTxNow(n, ch[n])
    PROVE  Onward(n)
  <1>1. net[m] \in Seq(Messages) BY Facts DEF Linked
  <1>2. <<>> \in Seq(Messages) /\ ~Has(<<>>, Aside) /\ net'[m] = net[m] \o <<>> BY <1>1 DEF Has
  <1>3. Signed(net'[m], LocalTxNow(n, f))
    <2>1. CASE f.pendCs \/ ~OwesCs(f, ch[m]) BY <2>1, HeldSigned
    <2>2. CASE LocalTxNow(n, f) = LocalTxNow(n, ch[n]) BY <2>2 DEF AllSigned
    <2> QED BY <2>1, <2>2
  <1> QED BY <1>2, <1>3 DEF Onward

-----------------------------------------------------------------------------
(* Nobody closes: update_add_htlc, update_fulfill_htlc, update_fail_htlc.  *)

\* What is known before a step as long as nobody closes.
Calm(I) ==
    /\ Before(I) /\ InStep /\ AllSigned /\ Unshut /\ BothOpen
    /\ Standing(I, ch, net, started, claimable, claimed, refused, told, Wire)

\* A channel that goes on was not given up.
LEMMA NotLost ==
    ASSUME NEW I, Before(I), NEW n \in Nodes, NEW f, Becomes(n, f),
           f.fate = "open" \/ f.holderNum # ch[n].holderNum \/ f.cpNum # ch[n].cpNum
    PROVE  ~Lost(n)
  <1>1. ch[n] \in Channel BY NodeFacts DEF Before
  <1>2. ch'[n] = f BY BecomesIs
  <1>3. ASSUME NEW why \in Causes, Becomes(n, Ends(ch[n], why)) PROVE FALSE
    <2>1. f = Ends(ch[n], why) BY <1>2, <1>3, BecomesIs
    <2>2. f.fate = why /\ f.holderNum = ch[n].holderNum /\ f.cpNum = ch[n].cpNum BY <1>1, <2>1 DEF Ends, Channel
    <2>3. why # "open" BY DEF Causes
    <2> QED BY <2>2, <2>3
  <1> QED BY <1>3 DEF Lost

\* The same commitment for the peer after a step that decides about no payment.
LEMMA StepSameTx ==
    ASSUME NEW I, Before(I), NEW J, Then(J), NEW n \in Nodes, NEW f, Becomes(n, f), SameLocal(ch[n], f),
           claimed' = claimed, refused' = refused
    PROVE  LocalTxNow(n, f) = LocalTxNow(n, ch[n])
  <1> DEFINE c == ch[n]
  <1>1. /\ NodeOK(n, c, I, started, claimable, claimed, refused) /\ I \in [Payments -> Int] /\ IdsUnique(I)
        /\ claimable \in SUBSET Payments /\ claimed \in SUBSET Payments /\ refused \in SUBSET Payments
        /\ claimed \cap refused = {}
    BY NodeFacts DEF Before
  <1>2. Decision(J, ch', net', started', claimable', claimed', refused', told') /\ ch'[n] = f BY BecomesIs DEF Then
  <1>3. /\ NodeOK(n, f, J, started', claimable', claimed', refused') /\ J \in [Payments -> Int] /\ IdsUnique(J)
        /\ claimable' \in SUBSET Payments
    BY <1>2, NodeFacts
  <1>4. NodeOK(n, f, J, started', claimable', claimed, refused) BY <1>3
  <1>5. SameLocal(c, f) OBVIOUS
  <1> HIDE DEF c
  <1>6. LocalTxNow(n, f) = LocalTxNow(n, c) BY <1>1, <1>3, <1>4, <1>5, SameLocalTx
  <1> QED BY <1>6 DEF c

\* update_add_htlc
LEMMA AddOnward ==
    ASSUME NEW I, Calm(I), NEW J, Then(J), NEW n \in Nodes, UpdateAddHtlc(n)
    PROVE  Onward(n)
  <1> DEFINE c == ch[n]
             msg == Head(net[n])
             m == Peer(n)
             d == ch[m]
  <1>0. Before(I) /\ InStep /\ AllSigned /\ c.fate = "open" /\ ~c.remoteShut BY DEF Calm, BothOpen, Unshut
  <1>1. m \in Nodes /\ m = Peer(n) BY PeerFacts
  <1>2. Sound(n, I) /\ Linked(n, m) BY <1>0, <1>1, Facts
  <1>3. Incoming(n, "add") /\ Replies(n, <<>>) /\ UNCHANGED <<conn, drops, payVars>> BY DEF UpdateAddHtlc
  <1>4. net[n] # <<>> /\ msg.t = "add" /\ msg \in Deliverable(n, I, claimed, refused) BY <1>0, <1>3, IncomingFacts
  <1>5. msg.pay \in Payments /\ PayTo(msg.pay) = n /\ I[msg.pay] = msg.id /\ msg.id \in Nat BY <1>0, <1>4, MessageFacts
  <1>6. /\ Link(d, c, net[n], Wire) /\ Adds(d, c, net[n]) /\ Matched(d, c) BY <1>2 DEF Linked, Agreed, Half, Fits
  <1>7. ~c.disc BY <1>2, <1>4, <1>6, LinkHead DEF Linked
  <1>8. /\ msg.id = c.nextCpId
        /\ \A p \in Payments : OutSt(d, p) # "none" /\ OutId(d, p) = c.nextCpId
              => OutSt(d, p) = "LocalAnnounced" /\ InSt(c, p) = "none"
        /\ \E p \in Payments : OutSt(d, p) # "none" /\ OutId(d, p) = c.nextCpId
    BY <1>2, <1>4, <1>6, AddsHead DEF Linked
  <1> DEFINE p == msg.pay
             f == Received(c, c.nextCpId, p)
  <1>9. Becomes(n, f) BY <1>0, <1>7, <1>8 DEF UpdateAddHtlc, Received
  <1>10. InSt(c, p) = "none" /\ p \in Payments
    <2>1. PICK q \in Payments : OutSt(d, q) # "none" /\ OutId(d, q) = c.nextCpId BY <1>8
    <2>2. /\ Sound(m, I) /\ n = Peer(m)
      <3>1. n = Peer(m) BY PeerFacts
      <3> QED BY <1>0, <1>1, <3>1, Facts
    <2>3. OutsAre(m, d, I) BY <1>1, <2>2, NodeSides DEF Sound
    <2>4. PayFrom[q] = m /\ I[q] = c.nextCpId /\ I[q] \in Nat BY <2>1, <2>3 DEF OutsAre
    <2>5. PayFrom[p] = m BY <1>5, PeerFacts
    <2>6. I[q] = I[p] /\ I[q] # -1 BY <2>4, <1>8, <1>5
    <2>7. q = p BY <2>4, <2>5, <2>6, <1>2, <1>5 DEF Sound, IdsUnique
    <2> QED BY <2>1, <2>7, <1>8
  <1>11. f.fate = "open" /\ Discreet(c, f) /\ f.toSelf = c.toSelf /\ f.cpNum = c.cpNum
    BY <1>0, <1>2 DEF Received, Channel, Sound, Discreet
  <1> HIDE DEF f, p
  <1>12. AddView(c, f, p)
    <2>1. Orderly(n, c) BY <1>2 DEF Sound
    <2> HIDE DEF c
    <2> QED BY <1>10, <2>1, AddEffect DEF f
  <1>13. SameLocal(c, f) BY <1>11, <1>12 DEF AddView, SameLocal
  <1>14. LocalTxNow(n, f) = LocalTxNow(n, c) BY <1>0, <1>3, <1>9, <1>13, StepSameTx DEF payVars
  <1>15. StillInStep BY <1>0, <1>9, <1>11, AddInStep, NotLost
  <1>16. net'[m] = net[m] /\ net'[n] = Tail(net[n]) BY <1>0, <1>1, <1>3, NoAnswer
  <1>17. Honest(n, f) BY <1>11 DEF Honest
  <1> HIDE DEF m
  <1> QED BY <1>0, <1>1, <1>4, <1>9, <1>11, <1>14, <1>15, <1>16, <1>17, SilentOnward

\* update_fulfill_htlc, update_fail_htlc
LEMMA RemOnward ==
    ASSUME NEW I, Calm(I), NEW J, Then(J), NEW n \in Nodes, NEW t \in Rem, Incoming(n, t), StillInStep,
           Becomes(n, IF ch[n].disc THEN Ends(ch[n], "reestablish") ELSE RemoteRemove(ch[n], Head(net[n]).id, t)),
           Replies(n, <<>>), claimed' = claimed, refused' = refused
    PROVE  Onward(n)
  <1> DEFINE c == ch[n]
             m == Peer(n)
             f == RemoteRemove(c, Head(net[n]).id, t)
  <1>0. Before(I) /\ InStep /\ AllSigned /\ c.fate = "open" BY DEF Calm, BothOpen
  <1>1. m \in Nodes /\ m = Peer(n) BY PeerFacts
  <1>2. Sound(n, I) BY <1>0, <1>1, Facts
  <1>4. net[n] # <<>> BY <1>0, IncomingFacts
  <1>5. ~c.disc BY <1>0, <1>1, RemNext
  <1>6. PICK h \in c.out : h.st = "Committed" /\ h.id = Head(net[n]).id BY <1>0, <1>1, RemNext
  <1>7. f = RemoteRemove(c, h.id, t) /\ Becomes(n, f) BY <1>5, <1>6
  <1> HIDE DEF f
  <1>8. c \in Channel /\ Orderly(n, c) BY <1>2 DEF Sound
  <1>9. RemView(c, f, h.pay)
    <2> HIDE DEF c
    <2> QED BY <1>6, <1>7, <1>8, RemEffect
  <1>10. f.fate = "open" /\ Discreet(c, f) /\ f.toSelf = c.toSelf /\ f.cpNum = c.cpNum
    <2> HIDE DEF c
    <2>1. f = [c EXCEPT !.out = {IF g.id = h.id THEN [g EXCEPT !.st = "RemoteRemoved", !.out = t] ELSE g : g \in @}]
      BY <1>6, <1>7 DEF RemoteRemove
    <2> QED BY <1>0, <1>8, <2>1 DEF Discreet, Channel
  <1>13. SameLocal(c, f) BY <1>10, <1>9 DEF RemView, SameLocal
  <1>14. LocalTxNow(n, f) = LocalTxNow(n, c) BY <1>0, <1>7, <1>13, StepSameTx
  <1>16. net'[m] = net[m] /\ net'[n] = Tail(net[n]) BY <1>0, <1>1, NoAnswer
  <1>17. Honest(n, f) BY <1>10 DEF Honest
  <1> HIDE DEF m
  <1> QED BY <1>0, <1>1, <1>4, <1>7, <1>10, <1>14, <1>16, <1>17, SilentOnward

\* update_fulfill_htlc
LEMMA FulfillOnward ==
    ASSUME NEW I, Calm(I), NEW J, Then(J), NEW n \in Nodes, UpdateFulfillHtlc(n)
    PROVE  Onward(n)
  <1>1. Incoming(n, "fulfil") /\ Replies(n, <<>>) /\ "fulfil" \in Rem /\ claimed' = claimed /\ refused' = refused
    BY DEF UpdateFulfillHtlc, Rem
  <1>2. StillInStep BY FulfillInStep DEF Calm
  <1>3. Becomes(n, IF ch[n].disc THEN Ends(ch[n], "reestablish") ELSE RemoteRemove(ch[n], Head(net[n]).id, "fulfil"))
    BY DEF UpdateFulfillHtlc
  <1> QED BY <1>1, <1>2, <1>3, RemOnward

\* update_fail_htlc
LEMMA FailOnward ==
    ASSUME NEW I, Calm(I), NEW J, Then(J), NEW n \in Nodes, UpdateFailHtlc(n)
    PROVE  Onward(n)
  <1>1. Incoming(n, "fail") /\ Replies(n, <<>>) /\ "fail" \in Rem /\ claimed' = claimed /\ refused' = refused
    BY DEF UpdateFailHtlc, Rem, payVars
  <1>2. StillInStep BY FailInStep DEF Calm
  <1>3. Becomes(n, IF ch[n].disc THEN Ends(ch[n], "reestablish") ELSE RemoteRemove(ch[n], Head(net[n]).id, "fail"))
    BY DEF UpdateFailHtlc
  <1> QED BY <1>1, <1>2, <1>3, RemOnward

-----------------------------------------------------------------------------
(* Nobody closes: commitment_signed.                                       *)

\* What accepting a commitment leaves alone.
LEMMA SignedLeaves ==
    ASSUME NEW n, NEW c, Orderly(n, c), NEW tx \in Txs, NEW f, f = commitment_signed_update_monitor(n, c, tx)
    PROVE  Discreet(c, f) /\ f.toSelf = c.toSelf
  <1> DEFINE d == SignedFirst(c, tx)
             b == NeedsCommitment(c) /\ ~c.awaitRaa
             e == IF b THEN build_commitment_no_status_check(n, d) ELSE d
             x == Promote(d.inb, "AwaitingRemoteRevokeToAnnounce", "AwaitingAnnouncedRemoteRevoke")
             y == Promote(d.out, "AwaitingRemoteRevokeToRemove", "AwaitingRemovedRemoteRevoke")
             g == [d EXCEPT !.inb = x, !.out = y, !.order = "RevokeAndACKFirst", !.awaitRaa = TRUE]
  <1>1. f = monitor_updating_paused(e, TRUE, b) BY SignedSplit
  <1>2. d \in Channel BY SignedFields
  <1>3. Discreet(c, d) /\ d.toSelf = c.toSelf BY DEF SignedFirst, Orderly, Channel, Discreet
  <1>4. e = d \/ e = g \/ e = Ends(g, "assert") BY DEF build_commitment_no_status_check
  <1> HIDE DEF d, b, e, x, y
  <1>5. /\ {"localShut", "remoteShut", "toSelf"} \subseteq DOMAIN d BY <1>2 DEF Channel
  <1>6. /\ e.localShut = d.localShut /\ e.remoteShut = d.remoteShut /\ e.toSelf = d.toSelf
        /\ {"localShut", "remoteShut", "toSelf"} \subseteq DOMAIN e
    BY <1>4, <1>5 DEF Ends
  <1>7. f.localShut = e.localShut /\ f.remoteShut = e.remoteShut /\ f.toSelf = e.toSelf
    BY <1>1, <1>6 DEF monitor_updating_paused
  <1> QED BY <1>3, <1>6, <1>7 DEF Discreet

\* commitment_signed: the transaction that was signed is the one that is rebuilt.
LEMMA SignedVerifies ==
    ASSUME NEW I, Calm(I), NEW n \in Nodes, Incoming(n, "cs")
    PROVE  /\ ~ch[n].disc /\ AssertsOwn(n, ch[n])
           /\ Verifies(n, ch[n], ch[n].holderNum, Head(net[n]).tx) /\ Head(net[n]).tx \in Txs
  <1> DEFINE c == ch[n]
             m == Peer(n)
             d == ch[m]
             r == net[n]
  <1>0. Before(I) /\ InStep /\ AllSigned BY DEF Calm
  <1>1. m \in Nodes /\ m = Peer(n) /\ n = Peer(m) BY PeerFacts
  <1>2. Sound(n, I) /\ Linked(n, m) BY <1>0, <1>1, Facts
  <1>3. r # <<>> /\ Head(r).t = "cs" /\ Head(r) \in Deliverable(n, I, claimed, refused) BY <1>0, IncomingFacts
  <1>4. Link(d, c, r, Wire) /\ r \in Seq(Messages) BY <1>2 DEF Linked, Agreed
  <1>5. ~c.disc
    <2> HIDE DEF r, c, d
    <2> QED BY <1>3, <1>4, LinkHead
  <1>6. Standing(I, ch, net, started, claimable, claimed, refused, told, Wire) BY DEF Calm
  <1>7. AssertsOwn(n, ch[n]) BY <1>1, <1>3, <1>6, Verifiable
  <1>8. SameTxs(n, ch[n], m, ch[m]) /\ ch[n].holderNum = ch[m].cpNum BY <1>1, <1>3, <1>6, TxsAgree
  <1>9. Signed(r, LocalTxNow(m, d)) BY <1>0, <1>1 DEF AllSigned
  <1>10. Head(r).tx = LocalTxNow(m, d)
    <2> DEFINE tx == LocalTxNow(m, d)
    <2>1. Signed(r, tx) BY <1>9
    <2> HIDE DEF r, tx
    <2>2. Head(r).tx = tx BY <1>3, <1>4, <2>1, TailOrder
    <2> QED BY <2>2 DEF tx
  <1>11. LocalTxNow(m, d) = build_commitment_transaction(n, c, c.holderNum, FALSE) BY <1>8 DEF LocalTxNow, SameTxs
  <1>12. Verifies(n, c, c.holderNum, Head(r).tx) BY <1>10, <1>11 DEF Verifies
  <1>13. Head(r).tx \in Txs
    <2> DEFINE x == Head(r)
    <2>1. x \in Messages /\ x.t = "cs" BY <1>3 DEF Deliverable
    <2> HIDE DEF x
    <2>2. x \in [t : {"cs"}, tx : Txs] BY <2>1 DEF Messages, Closings
    <2>3. x.tx \in Txs
      <3> HIDE DEF Txs
      <3> QED BY <2>2
    <2> QED BY <2>3 DEF x
  <1> QED BY <1>5, <1>7, <1>12, <1>13

\* commitment_signed
LEMMA SignedOnward ==
    ASSUME NEW I, Calm(I), NEW J, Then(J), NEW n \in Nodes, CommitmentSigned(n)
    PROVE  Onward(n)
  <1> DEFINE c == ch[n]
             m == Peer(n)
             tx == Head(net[n]).tx
             f == commitment_signed_update_monitor(n, c, tx)
  <1>0. Before(I) /\ InStep /\ AllSigned /\ c.fate = "open" /\ ~c.localShut BY DEF Calm, BothOpen, Unshut
  <1>1. m \in Nodes /\ m = Peer(n) BY PeerFacts
  <1>2. Sound(n, I) BY <1>0, <1>1, Facts
  <1>3. Incoming(n, "cs") /\ Replies(n, <<>>) /\ UNCHANGED <<conn, drops, payVars>> BY DEF CommitmentSigned
  <1>4. net[n] # <<>> BY <1>0, <1>3, IncomingFacts
  <1>5. ~c.disc /\ AssertsOwn(n, c) /\ Verifies(n, c, c.holderNum, tx) /\ tx \in Txs BY <1>3, SignedVerifies
  <1>6. ~ClosingStarted(c) BY <1>0 DEF ClosingStarted
  <1>7. BuildAsserts(n, c, FALSE) /\ tx = build_commitment_transaction(n, c, c.holderNum, FALSE)
    BY <1>5 DEF AssertsOwn, Verifies
  <1>8. Becomes(n, f) BY <1>5, <1>6, <1>7 DEF CommitmentSigned
  <1>9. Orderly(n, c) BY <1>2 DEF Sound
  <1>9a. f = commitment_signed_update_monitor(n, c, tx) OBVIOUS
  <1> HIDE DEF f, tx
  <1>10. Honest(n, f) /\ Discreet(c, f) /\ f.toSelf = c.toSelf
    <2> HIDE DEF c
    <2> QED BY <1>0, <1>5, <1>9, <1>9a, SignedHonest, SignedLeaves
  <1>11. PICK b : Accepts(c, f, b) /\ AcceptView(c, f, b, tx)
    <2> HIDE DEF c
    <2> QED BY <1>5, <1>9, <1>9a, AcceptEffect
  <1>12. StillInStep
    <2>1. f.holderNum # c.holderNum BY <1>9, <1>11 DEF Accepts, Orderly, Channel
    <2> QED BY <1>0, <1>8, <2>1, SignedInStep, NotLost
  <1>13. f.pendCs \/ LocalTxNow(n, f) = LocalTxNow(n, c)
    <2>1. CASE b = "build" BY <2>1, <1>11 DEF Accepts
    <2>2. CASE b # "build"
      <3>1. SameLocal(c, f) BY <2>2, <1>10, <1>11 DEF Accepts, AcceptView, SameLocal, OutAccepted, InAccepted
      <3> QED BY <3>1, <1>0, <1>3, <1>8, StepSameTx DEF payVars
    <2> QED BY <2>1, <2>2
  <1>14. net'[m] = net[m] /\ net'[n] = Tail(net[n]) BY <1>0, <1>1, <1>3, NoAnswer
  <1> HIDE DEF m
  <1> QED BY <1>0, <1>1, <1>4, <1>8, <1>10, <1>12, <1>13, <1>14, SilentOnward

-----------------------------------------------------------------------------
(* Nobody closes: revoke_and_ack, check_free_holding_cells.                *)

\* Freeing the holding cell does not begin to close.
LEMMA FreeDiscreet ==
    ASSUME NEW n, NEW c, Orderly(n, c), CellReady(c), NEW tight, NEW e, e = maybe_free_holding_cell_htlcs(n, c, tight)
    PROVE  Discreet(c, e.c)
  <1>1. CASE ~can_generate_new_commitment(c)
    <2>1. e.c = c BY <1>1 DEF maybe_free_holding_cell_htlcs
    <2> QED BY <2>1 DEF Discreet
  <1>2. CASE can_generate_new_commitment(c)
    <2>1. e = free_holding_cell_htlcs(n, c, tight) BY <1>2 DEF maybe_free_holding_cell_htlcs
    <2>2. PICK x : /\ Emptied(c, x, Len(c.cell))
                   /\ e.did => e.c = BuildAndPause(n, x)
                   /\ ~e.did => e.c = x /\ SameHtlcs(c, x)
      BY <1>2, <2>1, FreeEmpties DEF Orderly
    <2>3. x \in Channel /\ SameTurn(c, x) BY <2>2 DEF Emptied
    <2>4. BuiltFrom(x, BuildAndPause(n, x)) BY <2>3, BuiltFields
    <2>5. Discreet(c, x) /\ Discreet(c, BuildAndPause(n, x)) BY <2>3, <2>4 DEF SameTurn, BuiltFrom, Discreet
    <2> QED BY <2>2, <2>5
  <1> QED BY <1>1, <1>2

\* Neither does a revocation.
LEMMA RevokeDiscreet ==
    ASSUME NEW n \in Nodes, NEW c, NEW I \in [Payments -> Int], NEW S,
           NEW L \in SUBSET Payments, NEW C \in SUBSET Payments, NEW R \in SUBSET Payments,
           NodeOK(n, c, I, S, L, C, R), IdsUnique(I), CellReady(c), NEW tight,
           NEW e \in Accs, e = maybe_free_holding_cell_htlcs(n, ApplyRevocation(c), tight),
           NEW r, r = revoke_and_ack(n, c, tight)
    PROVE  Discreet(c, r.c)
  <1> DEFINE x == ApplyRevocation(c)
  <1>1. CellReady(x) /\ Orderly(n, x) /\ RevokedTo(c, x) BY ReadyRevoked
  <1>2. Discreet(c, x) BY <1>1 DEF RevokedTo, Discreet
  <1>3. e = maybe_free_holding_cell_htlcs(n, x, tight) OBVIOUS
  <1>4. Returned(n, e, r) BY RevokeReturns
  <1> HIDE DEF x
  <1>5. Discreet(x, e.c) BY <1>1, <1>3, FreeDiscreet
  <1>6. e.c \in Channel BY DEF Accs
  <1>7. BuiltFrom(e.c, BuildAndPause(n, e.c)) BY <1>6, BuiltFields
  <1>8. Discreet(e.c, monitor_updating_paused(e.c, FALSE, FALSE)) BY <1>6 DEF monitor_updating_paused, Channel, Discreet
  <1> QED BY <1>2, <1>4, <1>5, <1>7, <1>8 DEF Returned, Discreet, BuiltFrom

\* revoke_and_ack
LEMMA RevokeOnward ==
    ASSUME NEW I, Calm(I), NEW J, Then(J), NEW n \in Nodes, RevokeAndAck(n)
    PROVE  Onward(n)
  <1> DEFINE c == ch[n]
             m == Peer(n)
             d == ch[m]
             r == net[n]
  <1>0. Before(I) /\ InStep /\ AllSigned /\ c.fate = "open" /\ ~c.localShut BY DEF Calm, BothOpen, Unshut
  <1>1. m \in Nodes /\ m = Peer(n) BY PeerFacts
  <1>2. Sound(n, I) /\ Linked(n, m) BY <1>0, <1>1, Facts
  <1>3. Incoming(n, "raa") /\ Replies(n, <<>>) BY DEF RevokeAndAck
  <1>4. r # <<>> /\ Head(r).t = "raa" BY <1>0, <1>3, IncomingFacts
  <1>5. /\ Link(d, c, r, Wire) /\ Link(c, d, net[m], Wire) /\ r \in Seq(Messages) /\ Counted(c) /\ Counted(d)
        /\ Turns(c, d) /\ Turns(d, c)
    BY <1>2 DEF Linked, Agreed, Fits, Link
  <1>6. ~c.disc /\ OwesRaa(d, c) /\ Head(r).num = d.holderNum - 2
    <2> HIDE DEF r, c, d
    <2>1. Head(r).t = "raa" => /\ OwesRaa(d, c) /\ ~(~RaaFirst(d) /\ OwesCs(d, c))
                               /\ Head(r).num = d.holderNum - 2
      BY <1>4, <1>5, LinkHead
    <2>2. Head(r).t # "reestablish" => Wire = "up" /\ ~c.disc /\ ~d.disc BY <1>4, <1>5, LinkHead
    <2> QED BY <2>1, <2>2, <1>4
  <1>7. c.awaitRaa /\ Head(r).num = c.cpNum - 1
    <2> HIDE DEF r, c, d
    <2>1. d.holderNum = c.cpNum + 1 /\ c.awaitRaa BY <1>5, <1>6 DEF OwesRaa, Turns, Counted
    <2>2. d.holderNum - 2 = c.cpNum - 1 BY <1>5, <2>1 DEF Counted
    <2> QED BY <1>6, <2>1, <2>2
  <1>8. RevokeError(c, Head(r)) = "open" BY <1>0, <1>6, <1>7 DEF RevokeError, ClosingStarted
  <1>9. PICK tight : Becomes(n, revoke_and_ack(n, c, tight).c) BY <1>8 DEF RevokeAndAck
  <1> DEFINE e == maybe_free_holding_cell_htlcs(n, ApplyRevocation(c), tight)
             g == revoke_and_ack(n, c, tight)
             f == g.c
  <1>10. e \in Accs BY <1>0, RevokeFails
  <1>11. /\ NodeOK(n, c, I, started, claimable, claimed, refused)
         /\ I \in [Payments -> Int] /\ IdsUnique(I)
         /\ claimable \in SUBSET Payments /\ claimed \in SUBSET Payments /\ refused \in SUBSET Payments
         /\ CellReady(c)
    BY <1>2 DEF Sound
  <1>12. /\ e = maybe_free_holding_cell_htlcs(n, ApplyRevocation(c), tight)
         /\ g = revoke_and_ack(n, c, tight) /\ f = g.c /\ Becomes(n, f) /\ f = revoke_and_ack(n, c, tight).c
         /\ maybe_free_holding_cell_htlcs(n, ApplyRevocation(c), tight) \in Accs
    BY <1>9, <1>10
  <1> HIDE DEF e, f, g
  <1>13. Honest(n, f) /\ Discreet(c, f)
    <2> HIDE DEF c
    <2>1. Honest(n, g.c) BY <1>0, <1>10, <1>11, <1>12, RevokeHonest
    <2>2. Discreet(c, g.c) BY <1>10, <1>11, <1>12, RevokeDiscreet
    <2> QED BY <2>1, <2>2, <1>12
  <1>14. PICK b : Revokes(c, f, b)
    <2> HIDE DEF c
    <2>1. \E b : Revokes(c, f, b) /\ RevokeView(c, f, b) BY <1>6, <1>7, <1>11, <1>12, RevokeEffect
    <2> QED BY <2>1
  <1>15. f.pendCs \/ ~OwesCs(f, d)
    <2> HIDE DEF c, d
    <2>1. OwesCs(f, d) <=> b = "build" BY <1>5, <1>6, <1>14, OwedRevokes
    <2> QED BY <2>1, <1>14 DEF Revokes
  <1>16. StillInStep
    <2>1. f.cpNum # c.cpNum BY <1>5, <1>14 DEF Revokes, Counted
    <2> QED BY <1>0, <1>12, <2>1, RevokeInStep, NotLost
  <1>17. net'[m] = net[m] /\ net'[n] = Tail(r) BY <1>0, <1>1, <1>3, NoAnswer
  <1> HIDE DEF m
  <1> QED BY <1>0, <1>1, <1>4, <1>12, <1>13, <1>15, <1>16, <1>17, SilentOnward

\* check_free_holding_cells
LEMMA FreeOnward ==
    ASSUME NEW I, Calm(I), NEW J, Then(J), NEW n \in Nodes, FreeHoldingCells(n)
    PROVE  Onward(n)
  <1> DEFINE c == ch[n]
             m == Peer(n)
  <1>0. Before(I) /\ InStep /\ AllSigned /\ c.fate = "open" BY DEF Calm, BothOpen
  <1>1. m \in Nodes /\ m = Peer(n) BY PeerFacts
  <1>2. Sound(n, I) BY <1>0, <1>1, Facts
  <1>3. can_generate_new_commitment(c) /\ net' = net BY DEF FreeHoldingCells
  <1>4. PICK tight : Becomes(n, maybe_free_holding_cell_htlcs(n, c, tight).c) BY DEF FreeHoldingCells
  <1> DEFINE e == maybe_free_holding_cell_htlcs(n, c, tight)
             f == e.c
  <1>5. e = maybe_free_holding_cell_htlcs(n, c, tight) /\ e = free_holding_cell_htlcs(n, c, tight) /\ f = e.c
    BY <1>3 DEF maybe_free_holding_cell_htlcs
  <1>6. Becomes(n, f) BY <1>4
  <1> HIDE DEF e, f
  <1>7. Orderly(n, c) /\ CellReady(c) BY <1>2 DEF Sound
  <1>8. Honest(n, f) /\ Discreet(c, f)
    <2> HIDE DEF c
    <2> QED BY <1>0, <1>5, <1>7, FreeHonest, FreeDiscreet
  <1>9. Builds(c, f) \/ (SameTurn(c, f) /\ SameHtlcs(c, f))
    <2> HIDE DEF c
    <2> QED BY <1>3, <1>5, <1>7, FreeEffect
  <1>10. f.pendCs \/ LocalTxNow(n, f) = LocalTxNow(n, c)
    <2>1. CASE Builds(c, f) BY <2>1 DEF Builds
    <2>2. CASE SameTurn(c, f) /\ SameHtlcs(c, f) BY <2>2, SameTxNow DEF SameTurn, SameHtlcs
    <2> QED BY <1>9, <2>1, <2>2
  <1>11. StillInStep BY <1>0, FreeInStep
  <1>12. net'[m] = net[m] /\ net'[n] = net[n] BY <1>3
  <1> HIDE DEF m
  <1> QED BY <1>0, <1>1, <1>6, <1>8, <1>10, <1>11, <1>12, SilentOnward

-----------------------------------------------------------------------------
(* Nobody closes: send_payment, claim_funds, fail_htlc_backwards.          *)

\* A commitment is built at once.
LEMMA BuildOnward ==
    ASSUME NEW I, Calm(I), StillInStep, NEW n \in Nodes, NEW e \in Channel, e.fate = "open", SameTurn(ch[n], e),
           Becomes(n, BuildAndPause(n, e)), net' = net
    PROVE  Onward(n)
  <1> DEFINE m == Peer(n)
             f == BuildAndPause(n, e)
  <1>1. m \in Nodes /\ m = Peer(n) BY PeerFacts
  <1>2. BuiltFrom(e, f) BY BuiltFields
  <1>3. f.pendCs /\ Discreet(ch[n], f) BY <1>2 DEF BuiltFrom, SameTurn, Discreet
  <1>4. f = BuildAndPause(n, e) OBVIOUS
  <1> HIDE DEF f, m
  <1>5. Honest(n, f) BY <1>4, BuildHonest
  <1>6. Before(I) /\ InStep /\ AllSigned BY DEF Calm
  <1>7. net'[m] = net[m] /\ net'[n] = net[n] BY DEF Calm
  <1>8. Becomes(n, f) BY <1>4
  <1> QED BY <1>1, <1>3, <1>5, <1>6, <1>7, <1>8, SilentOnward

\* Only the holding cell and the monitor change.
LEMMA RestOnward ==
    ASSUME NEW I, Calm(I), StillInStep, NEW n \in Nodes, NEW f, Becomes(n, f), net' = net,
           NEW x, f = [ch[n] EXCEPT !.cell = x] \/ f = monitor_updating_paused([ch[n] EXCEPT !.cell = x], FALSE, FALSE)
                  \/ f = ch[n]
    PROVE  Onward(n)
  <1> DEFINE m == Peer(n)
             c == ch[n]
  <1>1. m \in Nodes /\ m = Peer(n) BY PeerFacts
  <1>2. Before(I) /\ InStep /\ AllSigned /\ c.fate = "open" BY DEF Calm, BothOpen
  <1>3. c \in Channel BY <1>2, NodeFacts DEF Before
  <1>4. Discreet(c, f) /\ f.fate = "open" /\ f.inb = c.inb /\ f.out = c.out /\ f.toSelf = c.toSelf /\ f.cpNum = c.cpNum
    <2> HIDE DEF c
    <2>1. f = [c EXCEPT !.cell = x] \/ f = monitor_updating_paused([c EXCEPT !.cell = x], FALSE, FALSE) \/ f = c BY DEF c
    <2>2. CASE f = [c EXCEPT !.cell = x] BY <1>2, <1>3, <2>2 DEF Discreet, Channel
    <2>3. CASE f = monitor_updating_paused([c EXCEPT !.cell = x], FALSE, FALSE)
      BY <1>2, <1>3, <2>3 DEF Discreet, Channel, monitor_updating_paused
    <2>4. CASE f = c BY <1>2, <2>4 DEF Discreet
    <2> QED BY <2>1, <2>2, <2>3, <2>4
  <1>5. LocalTxNow(n, f) = LocalTxNow(n, c) BY <1>4, SameTxNow
  <1>6. Honest(n, f) BY <1>4 DEF Honest
  <1>7. net'[m] = net[m] /\ net'[n] = net[n] BY DEF Calm
  <1> HIDE DEF m
  <1> QED BY <1>1, <1>2, <1>4, <1>5, <1>6, <1>7, SilentOnward

\* send_payment
LEMMA SendOnward ==
    ASSUME NEW I, Calm(I), NEW J, Then(J), NEW n \in Nodes, NEW p \in Payments, SendPayment(n, p)
    PROVE  Onward(n)
  <1> DEFINE c == ch[n]
             e == PlaceHtlc(c, p)
  <1>0. Before(I) /\ InStep /\ c.fate = "open" BY DEF Calm, BothOpen
  <1>1. StillInStep BY <1>0, SendInStep
  <1>2. net' = net /\ p \notin started /\ Becomes(n, IF can_generate_new_commitment(c) THEN BuildAndPause(n, e) ELSE e)
    BY DEF SendPayment
  <1>3. Orderly(n, c)
    <2>1. Sound(n, I) BY <1>0, PeerFacts, Facts
    <2> QED BY <2>1 DEF Sound
  <1>4. c \in Channel /\ Held(c) BY <1>3 DEF Orderly
  <1>5. CASE can_generate_new_commitment(c)
    <2>1. OutSt(c, p) = "none" BY <1>0, <1>2, UnsentIsNone
    <2>2. e = PlaceHtlc(c, p) /\ Becomes(n, BuildAndPause(n, e)) BY <1>2, <1>5
    <2> HIDE DEF e
    <2>3. e \in Channel /\ SameTurn(c, e) /\ e.fate = c.fate
      <3> HIDE DEF c
      <3> QED BY <1>4, <1>5, <2>1, <2>2, PlaceSetsOff
    <2> QED BY <1>0, <1>1, <1>2, <2>2, <2>3, BuildOnward
  <1>6. CASE ~can_generate_new_commitment(c)
    <2> DEFINE x == Append(c.cell, [op |-> "add", pay |-> p])
    <2>1. Becomes(n, e) /\ e = [c EXCEPT !.cell = x] BY <1>2, <1>6 DEF PlaceHtlc
    <2> HIDE DEF e, x
    <2> QED BY <1>1, <1>2, <2>1, RestOnward
  <1> QED BY <1>5, <1>6

\* claim_funds
LEMMA ClaimOnward ==
    ASSUME NEW I, Calm(I), NEW J, Then(J), NEW n \in Nodes, NEW p \in Payments, ClaimFunds(n, p)
    PROVE  Onward(n)
  <1> DEFINE c == ch[n]
  <1>0. Before(I) /\ InStep /\ c.fate = "open" BY DEF Calm, BothOpen
  <1>1. StillInStep BY <1>0, ClaimInStep
  <1>2. net' = net /\ PayTo(p) = n /\ p \in claimable BY DEF ClaimFunds
  <1>3. PICK h \in c.inb : h.pay = p /\
            IF can_generate_new_commitment(c)
            THEN Becomes(n, BuildAndPause(n, LocalRemove(c, h.id, "fulfil")))
            ELSE Becomes(n, monitor_updating_paused(
                    [c EXCEPT !.cell = Append(@, [op |-> "claim", id |-> h.id])], FALSE, FALSE))
    BY DEF ClaimFunds
  <1>4. Orderly(n, c)
    <2>1. Sound(n, I) BY <1>0, PeerFacts, Facts
    <2> QED BY <2>1 DEF Sound
  <1>5. c \in Channel /\ Held(c) /\ IdsOnce(c.inb) BY <1>4 DEF Orderly
  <1>6. CASE can_generate_new_commitment(c)
    <2> DEFINE e == LocalRemove(c, h.id, "fulfil")
    <2>1. h.st = "Committed" BY <1>0, <1>2, <1>3, UndecidedIs
    <2>2. e = LocalRemove(c, h.id, "fulfil") /\ Becomes(n, BuildAndPause(n, e)) BY <1>3, <1>6
    <2> HIDE DEF e
    <2>3. e \in Channel /\ SameTurn(c, e) /\ e.fate = c.fate
      <3> HIDE DEF c
      <3> QED BY <1>3, <1>5, <2>1, <2>2, ResolveSetsOff
    <2> QED BY <1>0, <1>1, <1>2, <2>2, <2>3, BuildOnward
  <1>7. CASE ~can_generate_new_commitment(c)
    <2> DEFINE x == Append(c.cell, [op |-> "claim", id |-> h.id])
               f == monitor_updating_paused([c EXCEPT !.cell = x], FALSE, FALSE)
    <2>1. Becomes(n, f) BY <1>3, <1>7
    <2>2. f = monitor_updating_paused([c EXCEPT !.cell = x], FALSE, FALSE) OBVIOUS
    <2> HIDE DEF f, x
    <2> QED BY <1>1, <1>2, <2>1, <2>2, RestOnward
  <1> QED BY <1>6, <1>7

\* fail_htlc_backwards
LEMMA RefuseOnward ==
    ASSUME NEW I, Calm(I), NEW J, Then(J), NEW n \in Nodes, NEW p \in Payments, FailBackwards(n, p)
    PROVE  Onward(n)
  <1> DEFINE c == ch[n]
  <1>0. Before(I) /\ InStep BY DEF Calm
  <1>1. StillInStep BY <1>0, RefuseInStep
  <1>2. net' = net BY DEF FailBackwards
  <1>3. PICK h \in c.inb : Becomes(n, IF h.st # "Committed" \/ CellResolves(c, h.id) THEN c
                                      ELSE [c EXCEPT !.cell = Append(@, [op |-> "fail", id |-> h.id])])
    BY DEF FailBackwards
  <1> DEFINE x == Append(c.cell, [op |-> "fail", id |-> h.id])
             f == [c EXCEPT !.cell = x]
  <1>4. Becomes(n, c) \/ Becomes(n, f) BY <1>3
  <1>5. f = [c EXCEPT !.cell = x] OBVIOUS
  <1> HIDE DEF f, x
  <1>6. CASE Becomes(n, c) BY <1>1, <1>2, <1>6, RestOnward
  <1>7. CASE Becomes(n, f) BY <1>1, <1>2, <1>5, <1>7, RestOnward
  <1> QED BY <1>4, <1>6, <1>7

-----------------------------------------------------------------------------
(* Nobody closes: monitor_updating_restored, channel_reestablish.          *)

\* A step that sends what is owed, and changes neither HTLCs nor balance.
LEMMA SendsOnward ==
    ASSUME NEW I, Calm(I), StillInStep, NEW n \in Nodes, NEW m \in Nodes, m = Peer(n),
           NEW f, Becomes(n, f), f.fate = "open", Discreet(ch[n], f), f.inb = ch[n].inb, f.out = ch[n].out,
           f.toSelf = ch[n].toSelf, f.cpNum = ch[n].cpNum,
           NEW s, s = <<>> \/ \E raa, cs : Resent(n, f, raa, cs, s), net'[m] = net[m] \o s,
           net'[n] = net[n] \/ (net[n] # <<>> /\ net'[n] = Tail(net[n]))
    PROVE  Onward(n)
  <1> DEFINE tx == LocalTxNow(n, f)
  <1>1. s \in Seq(Messages) /\ ~Has(s, Aside) /\ Signed(s, tx)
    <2>1. CASE s = <<>> BY <2>1 DEF Has, Signed
    <2>2. CASE \E raa, cs : Resent(n, f, raa, cs, s)
      <3>1. s \in Seq(Messages) /\ ~Has(s, {"reestablish", "shutdown", "closing"}) BY <2>2 DEF Resent
      <3>2. Signed(s, tx) BY <2>2 DEF Resent, LocalTxNow
      <3> QED BY <3>1, <3>2 DEF Has, Aside
    <2> QED BY <2>1, <2>2
  <1>2. tx = LocalTxNow(n, ch[n]) BY SameTxNow
  <1>3. Signed(net[m], tx) BY <1>2 DEF Calm, AllSigned
  <1>4. net[m] \in Seq(Messages)
    <2>1. Linked(n, m) BY Facts DEF Calm
    <2> QED BY <2>1 DEF Linked
  <1>5. Signed(net[m] \o s, tx)
    <2> DEFINE q == net[m]
    <2>1. q \in Seq(Messages) /\ Signed(q, tx) BY <1>3, <1>4
    <2> HIDE DEF q, tx
    <2>2. Signed(q \o s, tx) BY <1>1, <2>1, CatOrder
    <2> QED BY <2>2 DEF q
  <1>6. Honest(n, f) BY DEF Honest
  <1>7. Signed(net'[m], LocalTxNow(n, f)) BY <1>5
  <1> QED BY <1>1, <1>6, <1>7 DEF Onward

\* monitor_updating_restored
LEMMA RestoredOnward ==
    ASSUME NEW I, Calm(I), NEW J, Then(J), NEW n \in Nodes, MonitorRestored(n)
    PROVE  Onward(n)
  <1> DEFINE c == ch[n]
             m == Peer(n)
             f == [c EXCEPT !.monBusy = FALSE, !.pendRaa = FALSE,
                            !.pendCs = FALSE, !.pendAdds = {}, !.pendFails = {}]
             raa == c.pendRaa
             cs == c.pendCs
             s == IF c.disc THEN <<>> ELSE Resumption(n, c, raa, cs)
  <1>0. Before(I) /\ InStep /\ c.fate = "open" BY DEF Calm, BothOpen
  <1>1. m \in Nodes /\ m = Peer(n) BY PeerFacts
  <1>2. Becomes(n, f) /\ Sends(n, s) BY DEF MonitorRestored
  <1>3. /\ NodeOK(n, c, I, started, claimable, claimed, refused) /\ c \in Channel
        /\ I \in [Payments -> Int] /\ IdsUnique(I)
        /\ claimable \in SUBSET Payments /\ claimed \in SUBSET Payments /\ refused \in SUBSET Payments
    BY <1>0, NodeFacts DEF Before
  <1>4. /\ Discreet(c, f) /\ f.fate = "open" /\ f.inb = c.inb /\ f.out = c.out /\ f.toSelf = c.toSelf
        /\ f.cpNum = c.cpNum /\ f.holderNum = c.holderNum /\ f.order = c.order
    BY <1>0, <1>3 DEF Channel, Discreet
  <1>5. raa \in BOOLEAN /\ cs \in BOOLEAN BY <1>3 DEF Channel
  <1>6. Resent(n, c, raa, cs, Resumption(n, c, raa, cs))
    <2> HIDE DEF c, raa, cs
    <2> QED BY <1>3, <1>5, ResumptionResent
  <1>7. Resumption(n, f, raa, cs) = Resumption(n, c, raa, cs)
    <2>1. get_last_revoke_and_ack(f) = get_last_revoke_and_ack(c) BY <1>4 DEF get_last_revoke_and_ack
    <2>2. LocalTxNow(n, f) = LocalTxNow(n, c) BY <1>4, SameTxNow
    <2> HIDE DEF f, c, raa, cs
    <2>3. get_last_commitment_update_for_send(n, f) = get_last_commitment_update_for_send(n, c)
      BY <1>4, <2>2 DEF get_last_commitment_update_for_send, LocalTxNow
    <2> QED BY <1>4, <2>1, <2>3 DEF Resumption
  <1>8. s = <<>> \/ \E x, y : Resent(n, f, x, y, s)
    <2>1. Decision(J, ch', net', started', claimable', claimed', refused', told') /\ ch'[n] = f
      BY <1>0, <1>2, BecomesIs DEF Then
    <2>2. /\ NodeOK(n, f, J, started', claimable', claimed', refused') /\ J \in [Payments -> Int] /\ IdsUnique(J)
          /\ claimable' \in SUBSET Payments /\ claimed' \in SUBSET Payments /\ refused' \in SUBSET Payments
      BY <2>1, NodeFacts
    <2>3. Resent(n, f, raa, cs, Resumption(n, f, raa, cs))
      <3> HIDE DEF f, raa, cs
      <3> QED BY <2>2, <1>5, ResumptionResent
    <2>4. CASE c.disc BY <2>4
    <2>5. CASE ~c.disc
      <3>1. s = Resumption(n, f, raa, cs) BY <1>7, <2>5
      <3> HIDE DEF f, raa, cs, s
      <3> QED BY <2>3, <3>1
    <2> QED BY <2>4, <2>5
  <1>9. StillInStep BY <1>0, RestoredInStep
  <1> HIDE DEF f, s
  <1>10. net'[m] = net[m] \o s /\ net'[n] = net[n] BY <1>0, <1>1, <1>2, LinksAfter
  <1> HIDE DEF m
  <1> QED BY <1>1, <1>2, <1>4, <1>8, <1>9, <1>10, SendsOnward

\* channel_reestablish
LEMMA ReestablishOnward ==
    ASSUME NEW I, Calm(I), NEW J, Then(J), NEW n \in Nodes, ChannelReestablish(n)
    PROVE  Onward(n)
  <1> DEFINE c == ch[n]
             m == Peer(n)
             d == ch[m]
             r == net[n]
             x == Head(r)
             raa == x.nextRemote + 1 = c.holderNum - 1
             cs == x.nextLocal + 1 = c.cpNum + (IF c.awaitRaa THEN 1 ELSE 0)
             f == [c EXCEPT !.disc = FALSE, !.pendRaa = @ \/ (raa /\ c.monBusy), !.pendCs = @ \/ (cs /\ c.monBusy)]
             y == raa /\ ~c.monBusy
             z == cs /\ ~c.monBusy
             v == Resumption(n, f, y, z)
  <1>0. Before(I) /\ InStep /\ c.fate = "open" /\ ~c.localShut BY DEF Calm, BothOpen, Unshut
  <1>1. m \in Nodes /\ m = Peer(n) BY PeerFacts
  <1>2. Linked(n, m) BY <1>0, <1>1, Facts
  <1>3. c \in Channel /\ d \in Channel BY <1>0, <1>1, NodeFacts DEF Before
  <1>4. Incoming(n, "reestablish") BY DEF ChannelReestablish
  <1>5. r # <<>> /\ Head(r).t = "reestablish" BY <1>0, <1>4, IncomingFacts
  <1>6. /\ r \in Seq(Messages) /\ Link(d, c, r, Wire) /\ Numbers(d, c) /\ Turns(c, d) /\ Turns(d, c)
    BY <1>2 DEF Linked, Agreed, Half, Link
  <1>8. c.disc /\ x = get_channel_reestablish(d)
    <2> HIDE DEF c, d, r
    <2> QED BY <1>5, <1>6, LinkHead DEF x
  <1>10. ReestablishError(c, x) = "open"
    <2>2. d.holderNum >= 1 BY <1>3, <1>6, HasHolder
    <2> HIDE DEF c, d, x
    <2> QED BY <1>3, <1>6, <1>8, <2>2, ReestablishSays
  <1>11. Becomes(n, f) /\ Replies(n, get_outbound_shutdown(f) \o v) BY <1>10 DEF ChannelReestablish
  <1>12. y \in BOOLEAN /\ z \in BOOLEAN OBVIOUS
  <1>13. /\ Discreet(c, f) /\ f.fate = "open" /\ f.inb = c.inb /\ f.out = c.out /\ f.toSelf = c.toSelf
         /\ f.cpNum = c.cpNum /\ ~f.localShut
    <2> HIDE DEF raa, cs
    <2> QED BY <1>0, <1>3 DEF Channel, Discreet
  <1>14. Resent(n, f, y, z, v)
    <2>1. Decision(J, ch', net', started', claimable', claimed', refused', told') /\ ch'[n] = f
      BY <1>0, <1>11, BecomesIs DEF Then
    <2>2. /\ NodeOK(n, f, J, started', claimable', claimed', refused') /\ J \in [Payments -> Int] /\ IdsUnique(J)
          /\ claimable' \in SUBSET Payments /\ claimed' \in SUBSET Payments /\ refused' \in SUBSET Payments
      BY <2>1, NodeFacts
    <2> HIDE DEF f, y, z
    <2> QED BY <2>2, <1>12, ResumptionResent
  <1> HIDE DEF f, v, y, z
  <1>15. get_outbound_shutdown(f) \o v = v
    <2>1. v \in Seq(Messages) BY <1>14 DEF Resent
    <2>2. get_outbound_shutdown(f) = <<>> BY <1>13 DEF get_outbound_shutdown
    <2> QED BY <2>1, <2>2
  <1>16. net'[m] = net[m] \o v /\ net'[n] = Tail(r)
    <2>1. Replies(n, v) BY <1>11, <1>15
    <2> QED BY <1>0, <1>1, <2>1, LinksAfter
  <1>17. StillInStep BY <1>0, ReestablishInStep
  <1> HIDE DEF m
  <1> QED BY <1>1, <1>5, <1>11, <1>13, <1>14, <1>16, <1>17, SendsOnward

-----------------------------------------------------------------------------
(* Nobody closes: every step of a node.                                    *)

\* A node takes a step while nobody closes: the messages and calls of a shutdown do not occur.
LEMMA NodeOnward ==
    ASSUME Closers = {}, NEW I, Calm(I), NEW J, Then(J), NEW n \in Nodes, Receive(n) \/ Manager(n) \/ User(n)
    PROVE  Onward(n)
  <1>a. Before(I) /\ InStep /\ ch[n].fate = "open" /\ ~ch[n].localShut /\ ~Has(net[n], Aside)
    BY DEF Calm, BothOpen, Unshut
  <1>b. ch[n] \in Channel
    BY <1>a, NodeFacts DEF Before
  <1>c. ASSUME NEW t \in Aside, Incoming(n, t) PROVE FALSE
    <2> DEFINE q == net[n]
    <2>1. q \in Seq(Messages)
      BY <1>a, Facts, PeerFacts DEF Linked
    <2>2. q # <<>> /\ Head(q).t = t
      BY <1>a, <1>c, IncomingFacts
    <2>3. ~Has(q, Aside)
      BY <1>a
    <2> HIDE DEF q
    <2>4. Has(q, Aside)
      BY <2>1, <2>2, TailHas
    <2> QED
      BY <2>3, <2>4
  <1>1. CASE UpdateAddHtlc(n)
    BY <1>1, AddOnward
  <1>2. CASE UpdateFulfillHtlc(n)
    BY <1>2, FulfillOnward
  <1>3. CASE UpdateFailHtlc(n)
    BY <1>3, FailOnward
  <1>4. CASE CommitmentSigned(n)
    BY <1>4, SignedOnward
  <1>5. CASE RevokeAndAck(n)
    BY <1>5, RevokeOnward
  <1>6. CASE ChannelReestablish(n)
    BY <1>6, ReestablishOnward
  <1>7. ~ShutdownReceived(n)
    BY <1>c DEF ShutdownReceived, Aside
  <1>8. ~ClosingSigned(n)
    BY <1>c DEF ClosingSigned, Aside
  <1>9. ~MessageAfterClose(n)
    BY <1>a DEF MessageAfterClose
  <1>10. CASE MonitorRestored(n)
    BY <1>10, RestoredOnward
  <1>11. CASE FreeHoldingCells(n)
    BY <1>11, FreeOnward
  <1>12. ~ProposeClosing(n)
    BY <1>a DEF ProposeClosing, closing_negotiation_ready
  <1>13. ~AnswerDeferredClosing(n)
    <2>1. [ch[n] EXCEPT !.pendClosing = NoClosing].localShut = ch[n].localShut
      BY <1>b DEF Channel
    <2> QED
      BY <1>a, <2>1 DEF AnswerDeferredClosing, closing_negotiation_ready
  <1>14. CASE \E p \in Payments : SendPayment(n, p)
    BY <1>14, SendOnward
  <1>15. CASE \E p \in Payments : ClaimFunds(n, p)
    BY <1>15, ClaimOnward
  <1>16. CASE \E p \in Payments : FailBackwards(n, p)
    BY <1>16, RefuseOnward
  <1>17. ~CloseChannel(n)
    BY DEF CloseChannel
  <1> QED
    BY <1>1, <1>2, <1>3, <1>4, <1>5, <1>6, <1>7, <1>8, <1>9, <1>10, <1>11, <1>12, <1>13, <1>14, <1>15, <1>16, <1>17
       DEF Receive, Manager, User

\* After such a step the channel is open, nobody closes and every signature is still good.
LEMMA OnwardKeeps ==
    ASSUME NEW I, Calm(I), NEW J, Then(J), NEW n \in Nodes, Onward(n),
           \A x \in Nodes : Balance(x, ch'[x], claimed') /\ AvailableRgb(ch'[x]) >= 0
    PROVE  /\ \A x \in Nodes : ch'[x].fate = "open" /\ ~ch'[x].localShut /\ ~ch'[x].remoteShut /\ ~Has(net'[x], Aside)
           /\ \A x \in Nodes : Signed(net'[Peer(x)], LocalTxNow(x, ch'[x]))
  <1> DEFINE m == Peer(n)
             q == net[n]
             r == net[m]
  <1>a. Before(I) /\ InStep /\ AllSigned /\ Unshut /\ BothOpen
    BY DEF Calm
  <1>b. m \in Nodes /\ m # n /\ Peer(m) = n /\ \A x \in Nodes : x = n \/ x = m
    BY PeerFacts
  <1>c. q \in Seq(Messages) /\ r \in Seq(Messages)
    BY <1>a, <1>b, Facts DEF Linked
  <1>1. PICK f, s : /\ Becomes(n, f) /\ Honest(n, f) /\ Discreet(ch[n], f)
                    /\ s \in Seq(Messages) /\ ~Has(s, Aside) /\ net'[m] = r \o s
                    /\ net'[n] = q \/ (q # <<>> /\ net'[n] = Tail(q))
                    /\ Signed(net'[m], LocalTxNow(n, f))
    BY DEF Onward
  <1>2. ch'[n] = f /\ ch'[m] = ch[m]
    BY <1>a, <1>1, BecomesIs
  <1>3. ch'[n].fate = "open"
    <2>1. Standing(J, ch', net', started', claimable', claimed', refused', told', Wire)
      BY DEF Standing, Then, Onward, StillInStep
    <2>2. Honest(n, ch'[n])
      BY <1>1, <1>2
    <2> QED
      BY <2>1, <2>2, HonestOpen
  <1>4. ch'[m].fate = "open"
    BY <1>a, <1>b, <1>2 DEF BothOpen
  <1>5. ~ch'[n].localShut /\ ~ch'[n].remoteShut /\ ~ch'[m].localShut /\ ~ch'[m].remoteShut
    BY <1>a, <1>b, <1>1, <1>2 DEF Unshut, Discreet
  <1>6. ~Has(q, Aside) /\ ~Has(r, Aside) /\ Signed(q, LocalTxNow(m, ch[m]))
    BY <1>a, <1>b DEF Unshut, AllSigned
  <1> DEFINE tx == LocalTxNow(m, ch[m])
  <1>6a. Signed(q, tx)
    BY <1>6
  <1> HIDE DEF m, q, r, tx
  <1>7. ~Has(net'[n], Aside) /\ Signed(net'[n], tx)
    <2>1. CASE q # <<>> /\ net'[n] = Tail(q)
      <3>1. ~Has(Tail(q), Aside)
        BY <1>c, <1>6, <2>1, TailHas
      <3>2. Signed(Tail(q), tx)
        BY <1>c, <1>6a, <2>1, TailOrder
      <3> QED
        BY <2>1, <3>1, <3>2
    <2> QED
      BY <1>1, <1>6, <1>6a, <2>1
  <1>8. ~Has(net'[m], Aside)
    BY <1>c, <1>1, <1>6, CatHas
  <1>9. Signed(net'[n], LocalTxNow(m, ch'[m]))
    BY <1>2, <1>7 DEF tx
  <1>10. Signed(net'[m], LocalTxNow(n, ch'[n])) /\ Peer(n) = m
    BY <1>1, <1>2 DEF m
  <1>11. ASSUME NEW x \in Nodes PROVE ch'[x].fate = "open" /\ ~ch'[x].localShut /\ ~ch'[x].remoteShut /\ ~Has(net'[x], Aside)
    BY <1>b, <1>3, <1>4, <1>5, <1>7, <1>8
  <1>12. ASSUME NEW x \in Nodes PROVE Signed(net'[Peer(x)], LocalTxNow(x, ch'[x]))
    BY <1>b, <1>9, <1>10
  <1> QED
    BY <1>11, <1>12

-----------------------------------------------------------------------------
(* Nobody closes: the theorem.                                             *)

\* A lost connection leaves nothing on its way, a new one a channel_reestablish of each node.
LEMMA LinkKeeps ==
    ASSUME NEW I, Calm(I), Disconnect \/ Reconnect
    PROVE  /\ \A x \in Nodes : ch'[x].fate = "open" /\ ~ch'[x].localShut /\ ~ch'[x].remoteShut /\ ~Has(net'[x], Aside)
           /\ \A x \in Nodes : Signed(net'[Peer(x)], LocalTxNow(x, ch'[x]))
  <1>a. Before(I) /\ Unshut /\ BothOpen
    BY DEF Calm
  <1>1. CASE Disconnect
    <2>1. ASSUME NEW x \in Nodes PROVE ch'[x].fate = "open" /\ ~ch'[x].localShut /\ ~ch'[x].remoteShut /\ net'[x] = <<>>
      <3>1. ch[x] \in Channel
        BY <1>a, NodeFacts DEF Before
      <3>2. ch[x].fate = "open" /\ ~ch[x].localShut /\ ~ch[x].remoteShut
        BY <1>a DEF Unshut, BothOpen
      <3>3. ch'[x] = UncommittedRemoved(ch[x]) /\ net'[x] = <<>>
        BY <1>1, <3>2 DEF Disconnect, remove_uncommitted_htlcs_and_mark_paused
      <3>4. /\ UncommittedRemoved(ch[x]).fate = ch[x].fate
            /\ UncommittedRemoved(ch[x]).localShut = ch[x].localShut
            /\ UncommittedRemoved(ch[x]).remoteShut = ch[x].remoteShut
        BY <3>1 DEF UncommittedRemoved, Channel
      <3> QED
        BY <3>2, <3>3, <3>4
    <2>2. ASSUME NEW x \in Nodes, NEW tx PROVE ~Has(net'[x], Aside) /\ Signed(net'[x], tx)
      BY <2>1 DEF Has, Signed
    <2> QED
      BY <2>1, <2>2, PeerFacts
  <1>2. CASE Reconnect
    <2>1. ch' = ch
      BY <1>2 DEF Reconnect
    <2>2. ASSUME NEW x \in Nodes, NEW tx PROVE ~Has(net'[x], Aside) /\ Signed(net'[x], tx)
      <3>1. net'[x] = <<get_channel_reestablish(ch[Peer(x)])>>
        BY <1>a, <1>2, PeerFacts DEF Reconnect, BothOpen
      <3>2. get_channel_reestablish(ch[Peer(x)]).t = "reestablish"
        BY DEF get_channel_reestablish
      <3>3. \A i \in 1 .. Len(net'[x]) : net'[x][i].t = "reestablish"
        BY <3>1, <3>2
      <3> QED
        BY <3>3 DEF Has, Signed, Aside
    <2> QED
      BY <1>a, <2>1, <2>2, PeerFacts DEF Unshut, BothOpen
  <1> QED
    BY <1>1, <1>2

\* The inductive invariant: the channel is open, in step and solvent, nobody closes, and every signature on
\* its way is the one its sender would make now.
ForcedInv == BothOpen /\ DanceInv /\ BalanceInv /\ Money /\ Unshut /\ AllSigned

\* The invariant holds at the start.
LEMMA InitForced == Init => ForcedInv
  <1> SUFFICES ASSUME Init PROVE ForcedInv
    OBVIOUS
  <1>1. BothOpen
    BY DEF BothOpen, Init
  <1>2. \A x \in Nodes : net[x] = <<>> /\ ~ch[x].localShut /\ ~ch[x].remoteShut
    BY DEF Init
  <1>3. ASSUME NEW x \in Nodes, NEW tx PROVE ~Has(net[x], Aside) /\ Signed(net[x], tx)
    BY <1>2 DEF Has, Signed
  <1>4. Unshut /\ AllSigned
    BY <1>2, <1>3, PeerFacts DEF Unshut, AllSigned
  <1> QED
    BY <1>1, <1>4, InitDance, InitBalance, InitMoney DEF ForcedInv

\* A step keeps the invariant.
LEMMA NextForced ==
    ASSUME Closers = {}, ForcedInv, Next
    PROVE  ForcedInv'
  <1>1. PICK I : Before(I)
    BY DEF ForcedInv, DanceInv, DecisionInv, Before
  <1>2. DanceInv' /\ BalanceInv' /\ Money'
    BY <1>1, NextDance, NextBalance, NextMoney DEF ForcedInv
  <1>3. PICK J : Then(J)
    BY <1>2 DEF DanceInv, DecisionInv, Then
  <1>4. Calm(I)
    <2>1. InStep
      BY DEF ForcedInv, DanceInv
    <2>2. Standing(I, ch, net, started, claimable, claimed, refused, told, Wire)
      BY <1>1, <2>1 DEF Standing, Before, InStep, ForcedInv, BalanceInv, Money
    <2> QED
      BY <1>1, <2>1, <2>2 DEF Calm, ForcedInv
  <1>5. \A x \in Nodes : Balance(x, ch'[x], claimed') /\ AvailableRgb(ch'[x]) >= 0
    <2>1. \A x \in Nodes : Balance(x, ch[x], claimed)'
      BY <1>2 DEF BalanceInv
    <2>2. \A x \in Nodes : AvailableRgb(ch'[x]) >= 0
      BY <1>2 DEF Money, AvailableRgb
    <2> QED
      BY <2>1, <2>2
  <1>6. /\ \A x \in Nodes : ch'[x].fate = "open" /\ ~ch'[x].localShut /\ ~ch'[x].remoteShut /\ ~Has(net'[x], Aside)
        /\ \A x \in Nodes : Signed(net'[Peer(x)], LocalTxNow(x, ch'[x]))
    <2>1. CASE Disconnect \/ Reconnect
      BY <1>4, <2>1, LinkKeeps
    <2>2. ASSUME NEW n \in Nodes, Receive(n) \/ Manager(n) \/ User(n)
          PROVE  /\ \A x \in Nodes : /\ ch'[x].fate = "open" /\ ~ch'[x].localShut /\ ~ch'[x].remoteShut
                                     /\ ~Has(net'[x], Aside)
                 /\ \A x \in Nodes : Signed(net'[Peer(x)], LocalTxNow(x, ch'[x]))
      <3>1. Onward(n)
        BY <1>3, <1>4, <2>2, NodeOnward
      <3> QED
        BY <1>3, <1>4, <1>5, <3>1, OnwardKeeps
    <2> QED
      BY <2>1, <2>2 DEF Next
  <1>7. BothOpen'
    BY <1>6 DEF BothOpen
  <1>8. Unshut'
    BY <1>6 DEF Unshut, Has
  <1>9. AllSigned'
    <2>1. \A x \in Nodes : Signed(net[Peer(x)], LocalTxNow(x, ch[x]))'
      BY <1>6
    <2> QED
      BY <2>1 DEF AllSigned
  <1> QED
    BY <1>2, <1>7, <1>8, <1>9 DEF ForcedInv

\* A step that changes nothing keeps it.
LEMMA StutterForced ==
    ASSUME ForcedInv, UNCHANGED vars
    PROVE  ForcedInv'
  <1>1. BalanceInv'
    BY NextBalance DEF ForcedInv
  <1>2. /\ ch' = ch /\ net' = net /\ conn' = conn /\ started' = started /\ claimable' = claimable
        /\ claimed' = claimed /\ told' = told
    BY DEF vars, payVars
  <1>3. DecisionInv'
    BY <1>1 DEF BalanceInv
  <1>4. /\ InStep' <=> InStep
        /\ BothOpen' <=> BothOpen
        /\ NotClosed' <=> NotClosed
    BY <1>2 DEF InStep, Wire, BothOpen, NotClosed
  <1>5. LockedIn(ch, claimable)' <=> LockedIn(ch, claimable)
    BY <1>2 DEF LockedIn
  <1>6. GoneFrom(ch, told)' <=> GoneFrom(ch, told)
    BY <1>2 DEF GoneFrom
  <1>7. (Money' <=> Money) /\ (Unshut' <=> Unshut) /\ (AllSigned' <=> AllSigned)
    BY <1>2 DEF Money, Unshut, AllSigned
  <1>8. DanceInv'
    BY <1>3, <1>4, <1>5, <1>6 DEF ForcedInv, DanceInv
  <1> QED
    BY <1>1, <1>4, <1>7, <1>8 DEF ForcedInv

\* As long as no user asks for the channel to be closed, two correct nodes never give it up to the chain:
\* whatever is lost, delayed, resent or held back, each commitment_signed verifies against the receiver's own
\* view, the RGB assertions of build_commitment_transaction hold, every revoke_and_ack and every HTLC id is the
\* expected one, and channel_reestablish resends exactly what is missing.
THEOREM NoForcedClose == ASSUME Closers = {} PROVE Spec => []NeverForced
  <1>1. ForcedInv /\ [Next]_vars => ForcedInv'
    BY NextForced, StutterForced
  <1>2. ForcedInv => NeverForced
    BY DEF ForcedInv, BothOpen, NeverForced, OffChain
  <1> QED
    BY <1>1, <1>2, InitForced, PTL DEF Spec

===============================================================================
