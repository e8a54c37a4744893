------------------------------ MODULE RgbChannel ------------------------------
(***************************************************************************)
(* One funded RGB channel of ln-rgb-lightning between two correct nodes:   *)
(* the commitment protocol of ln/channel.rs as ln/channelmanager.rs drives *)
(* it, and the RGB balance the fork moves along with it.                   *)
(*                                                                         *)
(* A step is one call the manager makes into the channel: a message of the *)
(* peer, a user call, the completion of the monitor updates in flight, the *)
(* tick that frees the holding cell or proposes a closing fee.  Messages   *)
(* of one direction arrive in order; a disconnection loses what is in      *)
(* flight, and what each side forgets and retransmits is the point.        *)
(*                                                                         *)
(* A signature is the transaction it signs: the receiver rebuilds the      *)
(* commitment from its own state and the two must be equal.                *)
(*                                                                         *)
(* Left out: satoshi amounts (an HTLC waiting in the holding cell may be   *)
(* refused for them), fee updates (the console's estimator is constant),   *)
(* scripts and onions, routing over several channels, quiescence, splicing *)
(* and asynchronous signing, which the console never starts, and what      *)
(* happens on chain once a channel is forced closed.                       *)
(***************************************************************************)
EXTENDS Integers, Sequences, FiniteSets, FiniteSetsExt, SequencesExt

CONSTANTS
    Opener, Acceptor,   \* the funder of the channel and its peer
    Payments,           \* payments that may be sent, by payment hash
    PayFrom,            \* the node that pays
    Amount,             \* the RGB amount of each payment
    Funding,            \* funding_rgb
    Closers,            \* the nodes whose user may close the channel
    Fees,               \* closing fees the acceptor may answer with
    MaxDrops            \* bound: how often the connection is lost

Nodes == {Opener, Acceptor}
Peer(n) == IF n = Opener THEN Acceptor ELSE Opener
PayTo(p) == Peer(PayFrom[p])

ASSUME ChannelAssumption ==
    /\ Opener # Acceptor
    /\ PayFrom \in [Payments -> Nodes]
    /\ Amount \in [Payments -> Nat \ {0}]
    /\ Funding \in Nat /\ MaxDrops \in Nat
    /\ Closers \subseteq Nodes /\ Fees \subseteq Nat \ {0} /\ 1 \in Fees

VARIABLES
    ch,         \* [Nodes -> Channel], the FundedChannel of each node
    net,        \* net[n]: the messages on their way to n
    conn,       \* the two peers have a connection
    drops,      \* how often it was lost
    started,    \* payments whose send_payment reached the channel
    claimable,  \* payments handed to the payee's user
    claimed,    \* payments the payee's user claimed
    refused,    \* payments the payee's user failed back
    told        \* told[p]: the outcomes reported to the payer

vars == <<ch, net, conn, drops, started, claimable, claimed, refused, told>>
payVars == <<started, claimable, claimed, refused, told>>

InStates == {"RemoteAnnounced", "AwaitingRemoteRevokeToAnnounce",
             "AwaitingAnnouncedRemoteRevoke", "Committed", "LocalRemoved"}
OutStates == {"LocalAnnounced", "Committed", "RemoteRemoved",
              "AwaitingRemoteRevokeToRemove", "AwaitingRemovedRemoteRevoke"}
Outcomes == {"none", "fulfil", "fail"}

InHtlcs  == [id : Nat, pay : Payments, st : InStates, out : Outcomes]
OutHtlcs == [id : Nat, pay : Payments, st : OutStates, out : Outcomes]
Updates  == [op : {"add"}, pay : Payments] \cup [op : {"claim", "fail"}, id : Nat]
Txs      == [num : Nat, bal : [Nodes -> Int], htlcs : SUBSET Payments]
Closings == [t : {"closing"}, fee : Nat, split : [Nodes -> Int]]
NoClosing == [t |-> "none"]

(* Why a channel is over: closed by agreement, or forced by an error that  *)
(* an honest peer was never meant to trigger.                              *)
Errors == {"assert", "signature", "revocation", "unreachable", "htlc_id",
           "removed_twice", "reestablish", "add_after_shutdown",
           "shutdown_with_adds", "closing_order", "closing_signature",
           "update_while_closing", "fallen_behind", "forgotten"}

Channel ==
    [inb : SUBSET InHtlcs, out : SUBSET OutHtlcs,
     cell : Seq(Updates),                  \* holding_cell_htlc_updates
     toSelf : Int,                         \* rgb_context.to_self
     awaitRaa : BOOLEAN, monBusy : BOOLEAN, disc : BOOLEAN,
     pendRaa : BOOLEAN, pendCs : BOOLEAN,  \* monitor_pending_*
     pendAdds : SUBSET Payments, pendFails : SUBSET Payments,
     order : {"CommitmentFirst", "RevokeAndACKFirst"},
     nextId : Nat, nextCpId : Nat,
     holderNum : Nat, cpNum : Nat,         \* next commitments, counted upwards
     txs : [prev : Txs, cur : Txs],        \* the last two holder commitments
     expCs : BOOLEAN,                      \* expecting_peer_commitment_signed
     localShut : BOOLEAN, remoteShut : BOOLEAN,
     feeSent : Nat, pendClosing : Closings \cup {NoClosing},
     fate : {"open", "closed"} \cup Errors]

-----------------------------------------------------------------------------
(* The commitment transaction. *)

SumAmounts(S) == MapThenSumSet(LAMBDA h : Amount[h.pay], S)

\* InboundHTLCState::included_in_commitment(generated_by_local)
InIncluded(h, byUs) ==
    \/ h.st \in {"AwaitingAnnouncedRemoteRevoke", "Committed"}
    \/ ~byUs

\* OutboundHTLCState::included_in_commitment(generated_by_local)
OutIncluded(h, byUs) ==
    \/ h.st = "Committed"
    \/ byUs /\ h.st # "AwaitingRemovedRemoteRevoke"

(* holder_rgb_before_htlcs: to_self moved by the HTLCs that are fulfilled  *)
(* and no longer an output of this transaction.                            *)
BalanceBeforeHtlcs(c, byUs) ==
    c.toSelf
    + SumAmounts({h \in c.inb : ~InIncluded(h, byUs) /\ h.out = "fulfil"})
    - SumAmounts({h \in c.out : ~OutIncluded(h, byUs) /\ h.out = "fulfil"})

build_commitment_transaction(n, c, num, byUs) ==
    LET ins    == {h \in c.inb : InIncluded(h, byUs)}
        outs   == {h \in c.out : OutIncluded(h, byUs)}
        before == BalanceBeforeHtlcs(c, byUs)
    IN [num |-> num,
        bal |-> [m \in Nodes |-> IF m = n THEN before - SumAmounts(outs)
                                 ELSE Funding - before - SumAmounts(ins)],
        htlcs |-> {h.pay : h \in ins \cup outs}]

\* The four assertions of build_commitment_transaction on RGB balances.
BuildAsserts(n, c, byUs) ==
    /\ BalanceBeforeHtlcs(c, byUs) \in 0 .. Funding
    /\ \A m \in Nodes : build_commitment_transaction(n, c, 0, byUs).bal[m] >= 0

-----------------------------------------------------------------------------
(* Pieces of the channel's methods: each takes and returns a Channel. *)

can_generate_new_commitment(c) == ~c.awaitRaa /\ ~c.monBusy /\ ~c.disc

Ends(c, why) == [c EXCEPT !.fate = why]

monitor_updating_paused(c, raa, cs) ==
    [c EXCEPT !.monBusy = TRUE, !.pendRaa = @ \/ raa, !.pendCs = @ \/ cs]

\* Move every HTLC that is in state `from` to state `to`.
Promote(htlcs, from, to) ==
    {IF h.st = from THEN [h EXCEPT !.st = to] ELSE h : h \in htlcs}

build_commitment_no_status_check(n, c) ==
    LET d == [c EXCEPT
            !.inb = Promote(@, "AwaitingRemoteRevokeToAnnounce",
                               "AwaitingAnnouncedRemoteRevoke"),
            !.out = Promote(@, "AwaitingRemoteRevokeToRemove",
                               "AwaitingRemovedRemoteRevoke"),
            !.order = "RevokeAndACKFirst",
            !.awaitRaa = TRUE]
    IN IF BuildAsserts(n, d, TRUE) THEN d ELSE Ends(d, "assert")

BuildAndPause(n, c) ==
    monitor_updating_paused(build_commitment_no_status_check(n, c), FALSE, TRUE)

CellAdds(c) == {u \in ToSet(c.cell) : u.op = "add"}

\* available_rgb of send_htlc
AvailableRgb(c) == c.toSelf - SumAmounts(c.out) - SumAmounts(CellAdds(c))

\* faulty variant: payments under way are not counted against the balance
SendRefused_Settled(c, p) == c.localShut \/ c.remoteShut \/ Amount[p] > c.toSelf

\* send_htlc's refusals before it looks at the connection
SendRefused(c, p) == c.localShut \/ c.remoteShut \/ Amount[p] > AvailableRgb(c)

\* The end of send_htlc: straight out, or into the holding cell.
PlaceHtlc(c, p) ==
    IF can_generate_new_commitment(c)
    THEN [c EXCEPT !.out = @ \cup {[id |-> c.nextId, pay |-> p,
                                    st |-> "LocalAnnounced", out |-> "none"]},
                   !.nextId = @ + 1]
    ELSE [c EXCEPT !.cell = Append(@, [op |-> "add", pay |-> p])]

Resolvable(c, id) == \E h \in c.inb : h.id = id /\ h.st = "Committed"

LocalRemove(c, id, outcome) ==
    [c EXCEPT !.inb = {IF h.id = id
                       THEN [h EXCEPT !.st = "LocalRemoved", !.out = outcome]
                       ELSE h : h \in @}]

\* A fulfil or fail of the HTLC is already waiting in the holding cell.
CellResolves(c, id) == \E u \in ToSet(c.cell) : u.op # "add" /\ u.id = id

(* One update taken out of the holding cell.  tight: the additions that no *)
(* longer fit the satoshi limits.                                          *)
FreeUpdate(acc, u, tight) ==
    CASE u.op = "add" /\ (u.pay \in tight \/ SendRefused(acc.c, u.pay)) ->
            [acc EXCEPT !.failed = @ \cup {u.pay}]
      [] u.op = "add" /\ ~(u.pay \in tight \/ SendRefused(acc.c, u.pay)) ->
            [acc EXCEPT !.c = PlaceHtlc(@, u.pay), !.did = TRUE]
      [] u.op = "claim" /\ ~Resolvable(acc.c, u.id) ->
            [acc EXCEPT !.c = Ends(@, "unreachable")]
      [] u.op = "fail" /\ ~Resolvable(acc.c, u.id) -> acc
      [] u.op # "add" /\ Resolvable(acc.c, u.id) ->
            [acc EXCEPT !.did = TRUE,
                !.c = LocalRemove(@, u.id, IF u.op = "claim" THEN "fulfil"
                                                             ELSE "fail")]

free_holding_cell_htlcs(n, c, tight) ==
    LET step(acc, u) == FreeUpdate(acc, u, tight)
        freed == FoldLeft(step, [c |-> [c EXCEPT !.cell = <<>>],
                                 failed |-> {}, did |-> FALSE], c.cell)
    IN IF freed.did THEN [freed EXCEPT !.c = BuildAndPause(n, @)] ELSE freed

maybe_free_holding_cell_htlcs(n, c, tight) ==
    IF can_generate_new_commitment(c)
    THEN free_holding_cell_htlcs(n, c, tight)
    ELSE [c |-> c, failed |-> {}, did |-> FALSE]

-----------------------------------------------------------------------------
(* Messages a channel writes. *)

ById(S) ==
    CHOOSE q \in [1 .. Cardinality(S) -> S] :
        \A i, j \in 1 .. Cardinality(S) : i < j => q[i].id < q[j].id

get_last_revoke_and_ack(c) == <<[t |-> "raa", num |-> c.holderNum - 2]>>

get_last_commitment_update_for_send(n, c) ==
    LET adds  == ById({h \in c.out : h.st = "LocalAnnounced"})
        gone(o) == ById({h \in c.inb : h.st = "LocalRemoved" /\ h.out = o})
        removals(o) == [i \in DOMAIN gone(o) |-> [t |-> o, id |-> gone(o)[i].id]]
    IN [i \in DOMAIN adds |-> [t |-> "add", id |-> adds[i].id, pay |-> adds[i].pay]]
       \o removals("fulfil") \o removals("fail")
       \o <<[t |-> "cs", tx |-> build_commitment_transaction(n, c, c.cpNum, TRUE)]>>

\* faulty variant: the revocation is always resent first
Resumption_RevokeFirst(n, c, raa, cs) ==
    (IF raa THEN get_last_revoke_and_ack(c) ELSE <<>>)
    \o (IF cs THEN get_last_commitment_update_for_send(n, c) ELSE <<>>)

\* handle_channel_resumption: both answers in the channel's resend order.
Resumption(n, c, raa, cs) ==
    LET r == IF raa THEN get_last_revoke_and_ack(c) ELSE <<>>
        u == IF cs THEN get_last_commitment_update_for_send(n, c) ELSE <<>>
    IN IF c.order = "CommitmentFirst" THEN u \o r ELSE r \o u

get_outbound_shutdown(c) == IF c.localShut THEN <<[t |-> "shutdown"]>> ELSE <<>>

get_channel_reestablish(c) ==
    [t |-> "reestablish", nextLocal |-> c.holderNum, nextRemote |-> c.cpNum - 1]

Split(n, c) == [m \in Nodes |-> IF m = n THEN c.toSelf ELSE Funding - c.toSelf]

-----------------------------------------------------------------------------
Start(n) == IF n = Opener THEN Funding ELSE 0

InitialTx == [num |-> 0, bal |-> [n \in Nodes |-> Start(n)], htlcs |-> {}]

(* A channel after channel_ready, with the funding reference attached on   *)
(* both sides.                                                             *)
Init ==
    /\ ch = [n \in Nodes |->
        [inb |-> {}, out |-> {}, cell |-> <<>>, toSelf |-> Start(n),
         awaitRaa |-> FALSE, monBusy |-> FALSE, disc |-> FALSE,
         pendRaa |-> FALSE, pendCs |-> FALSE,
         pendAdds |-> {}, pendFails |-> {},
         order |-> "CommitmentFirst", nextId |-> 0, nextCpId |-> 0,
         holderNum |-> 1, cpNum |-> 1,
         txs |-> [prev |-> InitialTx, cur |-> InitialTx],
         expCs |-> FALSE, localShut |-> FALSE, remoteShut |-> FALSE,
         feeSent |-> 0, pendClosing |-> NoClosing, fate |-> "open"]]
    /\ net = [n \in Nodes |-> <<>>]
    /\ conn = TRUE /\ drops = 0
    /\ started = {} /\ claimable = {} /\ claimed = {} /\ refused = {}
    /\ told = [p \in Payments |-> {}]

\* No node has given the channel up to the chain.
OffChain == \A n \in Nodes : ch[n].fate \in {"open", "closed"}

Open(n) == OffChain /\ ch[n].fate = "open"

Becomes(n, c) == ch' = [ch EXCEPT ![n] = c]

Sends(n, msgs) == net' = [net EXCEPT ![Peer(n)] = @ \o msgs]

Tells(pays, outcome) ==
    told' = [p \in Payments |-> IF p \in pays THEN told[p] \cup {outcome}
                                ELSE told[p]]

-----------------------------------------------------------------------------
(* User calls. *)

(* send_rgb_spontaneous_payment, down to send_htlc_and_commit.  A channel  *)
(* that is not live, or whose RGB is not available, refuses and is left    *)
(* as it was.                                                              *)
SendPayment(n, p) ==
    LET c == ch[n]
        d == PlaceHtlc(c, p)
    IN /\ Open(n) /\ PayFrom[p] = n /\ p \notin started
       /\ ~c.disc /\ ~SendRefused(c, p)
       /\ Becomes(n, IF can_generate_new_commitment(c) THEN BuildAndPause(n, d)
                     ELSE d)
       /\ started' = started \cup {p}
       /\ UNCHANGED <<net, conn, drops, claimable, claimed, refused, told>>

(* claim_funds: get_update_fulfill_htlc_and_commit.  The monitor update    *)
(* with the preimage always starts; the commitment only when it may.       *)
ClaimFunds(n, p) ==
    LET c == ch[n]
    IN /\ Open(n) /\ PayTo(p) = n /\ p \in claimable
       /\ \E h \in c.inb : h.pay = p /\
            IF can_generate_new_commitment(c)
            THEN Becomes(n, BuildAndPause(n, LocalRemove(c, h.id, "fulfil")))
            ELSE Becomes(n, monitor_updating_paused(
                    [c EXCEPT !.cell = Append(@, [op |-> "claim", id |-> h.id])],
                    FALSE, FALSE))
       /\ claimable' = claimable \ {p} /\ claimed' = claimed \cup {p}
       /\ UNCHANGED <<net, conn, drops, started, refused, told>>

\* fail_htlc_backwards: queue_fail_htlc always goes through the holding cell.
FailBackwards(n, p) ==
    LET c == ch[n]
    IN /\ Open(n) /\ PayTo(p) = n /\ p \in claimable
       /\ \E h \in c.inb : h.pay = p /\
            Becomes(n, IF h.st # "Committed" \/ CellResolves(c, h.id) THEN c
                       ELSE [c EXCEPT !.cell =
                                Append(@, [op |-> "fail", id |-> h.id])])
       /\ claimable' = claimable \ {p} /\ refused' = refused \cup {p}
       /\ UNCHANGED <<net, conn, drops, started, claimed, told>>

WithoutAdds(cell) ==
    FoldLeft(LAMBDA kept, u : IF u.op = "add" THEN kept ELSE Append(kept, u),
             <<>>, cell)

AddsIn(c) == {u.pay : u \in CellAdds(c)}

\* faulty variant: the waiting additions are dropped without a word
CloseChannel_Forgets(n) ==
    LET c == ch[n]
    IN /\ Open(n) /\ n \in Closers
       /\ \A h \in c.out : h.st # "LocalAnnounced"
       /\ ~c.localShut /\ ~c.remoteShut /\ ~c.disc /\ ~c.monBusy
       /\ Becomes(n, [c EXCEPT !.localShut = TRUE, !.cell = WithoutAdds(@)])
       /\ Sends(n, <<[t |-> "shutdown"]>>)
       /\ UNCHANGED <<conn, drops, payVars>>

\* close_channel: get_shutdown, and the waiting additions are failed.
CloseChannel(n) ==
    LET c == ch[n]
    IN /\ Open(n) /\ n \in Closers
       /\ \A h \in c.out : h.st # "LocalAnnounced"
       /\ ~c.localShut /\ ~c.remoteShut /\ ~c.disc /\ ~c.monBusy
       /\ Becomes(n, [c EXCEPT !.localShut = TRUE, !.cell = WithoutAdds(@)])
       /\ Sends(n, <<[t |-> "shutdown"]>>)
       /\ Tells(AddsIn(c), "failed")
       /\ UNCHANGED <<conn, drops, started, claimable, claimed, refused>>

-----------------------------------------------------------------------------
(* The manager's own steps. *)

(* All monitor updates in flight are durable: monitor_updating_restored    *)
(* and handle_channel_resumption.  Only now do answers leave the node, are *)
(* failures reported and new HTLCs handed to the user.                     *)
MonitorRestored(n) ==
    LET c == ch[n]
    IN /\ Open(n) /\ c.monBusy
       /\ Becomes(n, [c EXCEPT !.monBusy = FALSE, !.pendRaa = FALSE,
                               !.pendCs = FALSE, !.pendAdds = {}, !.pendFails = {}])
       /\ Sends(n, IF c.disc THEN <<>> ELSE Resumption(n, c, c.pendRaa, c.pendCs))
       /\ claimable' = claimable \cup c.pendAdds
       /\ Tells(c.pendFails, "failed")
       /\ UNCHANGED <<conn, drops, started, claimed, refused>>

\* check_free_holding_cells
FreeHoldingCells(n) ==
    LET c == ch[n]
    IN /\ Open(n) /\ can_generate_new_commitment(c) /\ c.cell # <<>>
       /\ \E tight \in SUBSET AddsIn(c) :
            LET freed == maybe_free_holding_cell_htlcs(n, c, tight)
            IN Becomes(n, freed.c) /\ Tells(freed.failed, "failed")
       /\ UNCHANGED <<net, conn, drops, started, claimable, claimed, refused>>

-----------------------------------------------------------------------------
(* Messages from the peer.  The head of net[n] is consumed; `reply` goes   *)
(* out.  A node whose channel is gone answers with an error that closes    *)
(* nothing, which is a message dropped.                                    *)
Incoming(n, t) == Open(n) /\ net[n] # <<>> /\ Head(net[n]).t = t

Replies(n, msgs) ==
    net' = [net EXCEPT ![n] = Tail(@), ![Peer(n)] = @ \o msgs]

\* Both sides exchanged shutdown and a closing fee has been offered.
ClosingStarted(c) == c.localShut /\ c.remoteShut /\ c.feeSent # 0

UpdateAddHtlc(n) ==
    LET c == ch[n]
        m == Head(net[n])
    IN /\ Incoming(n, "add")
       /\ Becomes(n, CASE c.remoteShut -> Ends(c, "add_after_shutdown")
                       [] ~c.remoteShut /\ c.disc -> Ends(c, "reestablish")
                       [] ~c.remoteShut /\ ~c.disc /\ m.id # c.nextCpId ->
                            Ends(c, "htlc_id")
                       [] OTHER ->
                            [c EXCEPT !.nextCpId = @ + 1,
                              !.inb = @ \cup {[id |-> m.id, pay |-> m.pay,
                                    st |-> "RemoteAnnounced", out |-> "none"]}])
       /\ Replies(n, <<>>)
       /\ UNCHANGED <<conn, drops, payVars>>

\* mark_outbound_htlc_removed
RemoteRemove(c, id, outcome) ==
    IF \E h \in c.out : h.id = id /\ h.st = "Committed"
    THEN [c EXCEPT !.out = {IF h.id = id
                            THEN [h EXCEPT !.st = "RemoteRemoved", !.out = outcome]
                            ELSE h : h \in @}]
    ELSE Ends(c, "removed_twice")

PaysOf(c, id) == {h.pay : h \in {g \in c.out : g.id = id}}

\* update_fulfill_htlc: the payer learns of success at once.
UpdateFulfillHtlc(n) ==
    LET c == ch[n]
        d == RemoteRemove(c, Head(net[n]).id, "fulfil")
    IN /\ Incoming(n, "fulfil")
       /\ Becomes(n, IF c.disc THEN Ends(c, "reestablish") ELSE d)
       /\ Replies(n, <<>>)
       /\ Tells(IF d.fate = "open" /\ ~c.disc THEN PaysOf(c, Head(net[n]).id)
                ELSE {}, "sent")
       /\ UNCHANGED <<conn, drops, started, claimable, claimed, refused>>

\* faulty variant: the failure is reported as soon as the peer announces it
UpdateFailHtlc_Eager(n) ==
    LET c == ch[n]
    IN /\ Incoming(n, "fail")
       /\ Becomes(n, IF c.disc THEN Ends(c, "reestablish")
                     ELSE RemoteRemove(c, Head(net[n]).id, "fail"))
       /\ Replies(n, <<>>)
       /\ Tells(PaysOf(c, Head(net[n]).id), "failed")
       /\ UNCHANGED <<conn, drops, started, claimable, claimed, refused>>

UpdateFailHtlc(n) ==
    LET c == ch[n]
    IN /\ Incoming(n, "fail")
       /\ Becomes(n, IF c.disc THEN Ends(c, "reestablish")
                     ELSE RemoteRemove(c, Head(net[n]).id, "fail"))
       /\ Replies(n, <<>>)
       /\ UNCHANGED <<conn, drops, payVars>>

(* commitment_signed_update_monitor, once the signature is found good: it  *)
(* covers the announcements and removals of the peer, which now wait for   *)
(* the peer's revocation.                                                  *)
commitment_signed_update_monitor(n, c, tx) ==
    LET need == \/ \E h \in c.inb : h.st = "RemoteAnnounced"
                \/ \E h \in c.out : h.st = "RemoteRemoved"
        d == [c EXCEPT !.holderNum = @ + 1,
                !.txs = [prev |-> @.cur, cur |-> tx],
                !.inb = Promote(@, "RemoteAnnounced",
                                   "AwaitingRemoteRevokeToAnnounce"),
                !.out = Promote(@, "RemoteRemoved",
                                   "AwaitingRemoteRevokeToRemove"),
                !.expCs = FALSE, !.order = "CommitmentFirst"]
        commit == need /\ ~c.awaitRaa
    IN monitor_updating_paused(
            IF commit THEN build_commitment_no_status_check(n, d) ELSE d,
            TRUE, commit)

CommitmentSigned(n) ==
    LET c == ch[n]
        tx == build_commitment_transaction(n, c, c.holderNum, FALSE)
    IN /\ Incoming(n, "cs")
       /\ Becomes(n, CASE c.disc -> Ends(c, "reestablish")
                       [] ~c.disc /\ ClosingStarted(c) ->
                            Ends(c, "update_while_closing")
                       [] ~c.disc /\ ~ClosingStarted(c)
                                  /\ ~BuildAsserts(n, c, FALSE) -> Ends(c, "assert")
                       [] ~c.disc /\ ~ClosingStarted(c) /\ BuildAsserts(n, c, FALSE)
                                  /\ tx # Head(net[n]).tx -> Ends(c, "signature")
                       [] OTHER -> commitment_signed_update_monitor(n, c, tx))
       /\ Replies(n, <<>>)
       /\ UNCHANGED <<conn, drops, payVars>>

(* The state changes of revoke_and_ack up to the balance: everything that  *)
(* waited for this revocation moves on, and what was removed is gone.      *)
RevocationApplied(c) ==
    LET gone     == {h \in c.inb : h.st = "LocalRemoved"}
        resolved == {h \in c.out : h.st = "AwaitingRemovedRemoteRevoke"}
        success(S) == {h \in S : h.out = "fulfil"}
        arrived  == {h \in c.inb : h.st = "AwaitingAnnouncedRemoteRevoke"}
        sent     == {h \in c.out : h.st = "LocalAnnounced"}
    IN [c EXCEPT
        !.awaitRaa = FALSE, !.cpNum = @ + 1,
        !.toSelf = @ + SumAmounts(success(gone)) - SumAmounts(success(resolved)),
        !.inb = Promote(Promote(@ \ gone, "AwaitingAnnouncedRemoteRevoke", "Committed"),
                        "AwaitingRemoteRevokeToAnnounce",
                        "AwaitingAnnouncedRemoteRevoke"),
        !.out = Promote(Promote(@ \ resolved, "LocalAnnounced", "Committed"),
                        "AwaitingRemoteRevokeToRemove", "AwaitingRemovedRemoteRevoke"),
        !.expCs = @ \/ gone # {} \/ sent # {},
        !.pendAdds = @ \cup {h.pay : h \in arrived},
        !.pendFails = @ \cup {h.pay : h \in resolved \ success(resolved)}]

\* faulty variants: a failed HTLC is credited too; an HTLC is handed on one
\* revocation early
ApplyRevocation_AnyOutcome(c) ==
    LET failed == {h \in c.inb : h.st = "LocalRemoved" /\ h.out = "fail"}
    IN [RevocationApplied(c) EXCEPT !.toSelf = @ + SumAmounts(failed)]

ApplyRevocation_Early(c) ==
    LET early == {h \in c.inb : h.st = "AwaitingRemoteRevokeToAnnounce"}
    IN [RevocationApplied(c) EXCEPT !.pendAdds = @ \cup {h.pay : h \in early}]

ApplyRevocation(c) == RevocationApplied(c)

\* require_commitment: this revocation let something move that must be signed.
RequireCommitment(c) ==
    \/ \E h \in c.inb : h.st = "AwaitingRemoteRevokeToAnnounce"
    \/ \E h \in c.out : h.st = "AwaitingRemoteRevokeToRemove"

revoke_and_ack(n, c, tight) ==
    LET d == ApplyRevocation(c)
        freed == maybe_free_holding_cell_htlcs(n, d, tight)
    IN CASE freed.did -> freed
         [] ~freed.did /\ RequireCommitment(c) ->
                [freed EXCEPT !.c = BuildAndPause(n, @)]
         [] ~freed.did /\ ~RequireCommitment(c) ->
                [freed EXCEPT !.c = monitor_updating_paused(@, FALSE, FALSE)]

RevokeError(c, m) ==
    IF c.disc THEN "reestablish"
    ELSE IF ClosingStarted(c) THEN "update_while_closing"
    ELSE IF m.num # c.cpNum - 1 \/ ~c.awaitRaa THEN "revocation" ELSE "open"

RevokeAndAck(n) ==
    LET c == ch[n]
        error == RevokeError(c, Head(net[n]))
    IN /\ Incoming(n, "raa")
       /\ IF error # "open"
          THEN Becomes(n, Ends(c, error)) /\ UNCHANGED told
          ELSE \E tight \in SUBSET AddsIn(c) :
                LET freed == revoke_and_ack(n, c, tight)
                IN /\ tight # {} => can_generate_new_commitment(ApplyRevocation(c))
                   /\ Becomes(n, freed.c) /\ Tells(freed.failed, "failed")
       /\ Replies(n, <<>>)
       /\ UNCHANGED <<conn, drops, started, claimable, claimed, refused>>

-----------------------------------------------------------------------------
(* Disconnection and reestablishment. *)

UncommittedRemoved(c) ==
    LET dropped == {h \in c.inb : h.st = "RemoteAnnounced"}
    IN IF c.disc THEN c
       ELSE [c EXCEPT !.feeSent = 0, !.pendClosing = NoClosing,
                !.inb = @ \ dropped, !.nextCpId = @ - Cardinality(dropped),
                !.out = {IF h.st = "RemoteRemoved"
                         THEN [h EXCEPT !.st = "Committed", !.out = "none"]
                         ELSE h : h \in @},
                !.disc = TRUE]

\* faulty variants: every HTLC counted, ids kept, the holding cell emptied,
\* the closing fee remembered
remove_uncommitted_htlcs_and_mark_paused_CountsAll(c) ==
    [UncommittedRemoved(c) EXCEPT !.nextCpId = c.nextCpId - Cardinality(c.inb \cup c.out)]

remove_uncommitted_htlcs_and_mark_paused_KeepsIds(c) ==
    [UncommittedRemoved(c) EXCEPT !.nextCpId = c.nextCpId]

remove_uncommitted_htlcs_and_mark_paused_EmptiesCell(c) ==
    [UncommittedRemoved(c) EXCEPT !.cell = <<>>]

remove_uncommitted_htlcs_and_mark_paused_KeepsFee(c) ==
    [UncommittedRemoved(c) EXCEPT !.feeSent = c.feeSent]

remove_uncommitted_htlcs_and_mark_paused(c) == UncommittedRemoved(c)

\* faulty variant: additions not yet answered are given up
Disconnect_FailsAdds ==
    /\ OffChain /\ conn /\ drops < MaxDrops
    /\ conn' = FALSE /\ drops' = drops + 1
    /\ net' = [n \in Nodes |-> <<>>]
    /\ ch' = [n \in Nodes |->
                IF ch[n].fate = "open"
                THEN remove_uncommitted_htlcs_and_mark_paused(ch[n]) ELSE ch[n]]
    /\ Tells(UNION {{h.pay : h \in {g \in ch[n].out : g.st = "LocalAnnounced"}} :
                        n \in Nodes}, "failed")
    /\ UNCHANGED <<started, claimable, claimed, refused>>

Disconnect ==
    /\ OffChain /\ conn /\ drops < MaxDrops
    /\ conn' = FALSE /\ drops' = drops + 1
    /\ net' = [n \in Nodes |-> <<>>]
    /\ ch' = [n \in Nodes |->
                IF ch[n].fate = "open"
                THEN remove_uncommitted_htlcs_and_mark_paused(ch[n]) ELSE ch[n]]
    /\ UNCHANGED payVars

\* peer_connected on both sides: every open channel asks to be resumed.
Reconnect ==
    /\ OffChain /\ ~conn /\ conn' = TRUE
    /\ net' = [n \in Nodes |-> IF ch[Peer(n)].fate = "open"
                               THEN <<get_channel_reestablish(ch[Peer(n)])>>
                               ELSE <<>>]
    /\ UNCHANGED <<ch, drops, payVars>>

ReestablishError(c, m) ==
    LET ours == c.holderNum - 1
        next == c.cpNum + (IF c.awaitRaa THEN 1 ELSE 0)
    IN IF ~c.disc THEN "reestablish"
       ELSE IF m.nextLocal = 0 THEN "forgotten"
       ELSE IF m.nextRemote > ours THEN "fallen_behind"
       ELSE IF m.nextRemote \notin {ours - 1, ours} THEN "reestablish"
       ELSE IF m.nextLocal \notin {next - 1, next} THEN "reestablish" ELSE "open"

\* faulty variant: what a monitor update holds back is not remembered
ChannelReestablish_Forgets(n) ==
    LET c == ch[n]
        m == Head(net[n])
        needRaa == m.nextRemote + 1 = c.holderNum - 1
        needCs  == m.nextLocal + 1 = c.cpNum + (IF c.awaitRaa THEN 1 ELSE 0)
        d == [c EXCEPT !.disc = FALSE]
    IN /\ Incoming(n, "reestablish") /\ ReestablishError(c, m) = "open"
       /\ Becomes(n, d)
       /\ Replies(n, get_outbound_shutdown(d) \o
            Resumption(n, d, needRaa /\ ~c.monBusy, needCs /\ ~c.monBusy))
       /\ UNCHANGED <<conn, drops, payVars>>

(* channel_reestablish: from the two counters of the peer the node infers  *)
(* whether its last revocation and its last commitment arrived, and sends  *)
(* them again, or leaves that to the monitor update in flight.             *)
ChannelReestablish(n) ==
    LET c == ch[n]
        m == Head(net[n])
        needRaa == m.nextRemote + 1 = c.holderNum - 1
        needCs  == m.nextLocal + 1 = c.cpNum + (IF c.awaitRaa THEN 1 ELSE 0)
        d == [c EXCEPT !.disc = FALSE,
                       !.pendRaa = @ \/ (needRaa /\ c.monBusy),
                       !.pendCs = @ \/ (needCs /\ c.monBusy)]
    IN /\ Incoming(n, "reestablish")
       /\ IF ReestablishError(c, m) # "open"
          THEN Becomes(n, Ends(c, ReestablishError(c, m))) /\ Replies(n, <<>>)
          ELSE /\ Becomes(n, d)
               /\ Replies(n, get_outbound_shutdown(d) \o
                    Resumption(n, d, needRaa /\ ~c.monBusy, needCs /\ ~c.monBusy))
       /\ UNCHANGED <<conn, drops, payVars>>

(* A message for a channel that this node has closed.  A reestablish is    *)
(* answered with one that makes the peer force-close.                      *)
MessageAfterClose(n) ==
    /\ OffChain /\ ch[n].fate = "closed" /\ net[n] # <<>>
    /\ Replies(n, IF Head(net[n]).t = "reestablish"
                  THEN <<[t |-> "reestablish", nextLocal |-> 0, nextRemote |-> 0]>>
                  ELSE <<>>)
    /\ UNCHANGED <<ch, conn, drops, payVars>>

-----------------------------------------------------------------------------
(* Cooperative close. *)

ShutdownReceived(n) ==
    LET c == ch[n]
        bad == \E h \in c.inb : h.st = "RemoteAnnounced"
    IN /\ Incoming(n, "shutdown")
       /\ IF c.disc \/ bad
          THEN /\ Becomes(n, Ends(c, IF c.disc THEN "reestablish"
                                     ELSE "shutdown_with_adds"))
               /\ Replies(n, <<>>) /\ UNCHANGED told
          ELSE /\ Becomes(n, [c EXCEPT !.remoteShut = TRUE, !.localShut = TRUE,
                                       !.cell = WithoutAdds(@)])
               /\ Replies(n, IF c.localShut THEN <<>> ELSE <<[t |-> "shutdown"]>>)
               /\ Tells(AddsIn(c), "failed")
       /\ UNCHANGED <<conn, drops, started, claimable, claimed, refused>>

closing_negotiation_ready(c) ==
    /\ c.inb = {} /\ c.out = {}
    /\ c.localShut /\ c.remoteShut
    /\ ~c.awaitRaa /\ ~c.monBusy /\ ~c.disc

ClosingMsg(n, c, fee) == [t |-> "closing", fee |-> fee, split |-> Split(n, c)]

\* maybe_propose_closing_signed of the opener
ProposeClosing(n) ==
    LET c == ch[n]
    IN /\ Open(n) /\ n = Opener /\ conn
       /\ closing_negotiation_ready(c) /\ c.feeSent = 0 /\ ~c.expCs
       /\ Becomes(n, [c EXCEPT !.feeSent = 1])
       /\ Sends(n, <<ClosingMsg(n, c, 1)>>)
       /\ UNCHANGED <<conn, drops, payVars>>

(* What closing_signed does with a proposal of the peer that it may look   *)
(* at: finish if the fee is the one it last sent, agree to it (opener), or *)
(* answer with the fee it wants, which may be the same (acceptor).         *)
AnswerClosing(n, c, m, fee) ==
    IF m.split # Split(n, c) THEN [c |-> Ends(c, "closing_signature"), out |-> <<>>]
    ELSE IF c.feeSent = m.fee THEN [c |-> Ends(c, "closed"), out |-> <<>>]
    ELSE [c |-> [c EXCEPT !.feeSent = fee,
                          !.fate = IF fee = m.fee THEN "closed" ELSE "open"],
          out |-> <<ClosingMsg(n, c, fee)>>]

ClosingFees(n, m) == IF n = Opener THEN {m.fee} ELSE Fees

ClosingError(n, c) ==
    \/ ~(c.localShut /\ c.remoteShut)
    \/ c.disc
    \/ c.inb # {} \/ c.out # {}
    \/ n = Opener /\ c.feeSent = 0

ClosingSigned(n) ==
    LET c == ch[n]
        m == Head(net[n])
    IN /\ Incoming(n, "closing")
       /\ \/ /\ ClosingError(n, c)
             /\ Becomes(n, Ends(c, "closing_order")) /\ Replies(n, <<>>)
          \/ /\ ~ClosingError(n, c) /\ c.monBusy
             /\ Becomes(n, [c EXCEPT !.pendClosing = m]) /\ Replies(n, <<>>)
          \/ /\ ~ClosingError(n, c) /\ ~c.monBusy
             /\ \E fee \in ClosingFees(n, m) :
                    /\ Becomes(n, AnswerClosing(n, c, m, fee).c)
                    /\ Replies(n, AnswerClosing(n, c, m, fee).out)
       /\ UNCHANGED <<conn, drops, payVars>>

\* maybe_propose_closing_signed of the acceptor: the proposal it put aside.
AnswerDeferredClosing(n) ==
    LET c == [ch[n] EXCEPT !.pendClosing = NoClosing]
        m == ch[n].pendClosing
    IN /\ Open(n) /\ n = Acceptor /\ conn /\ m # NoClosing
       /\ closing_negotiation_ready(c) /\ c.feeSent = 0
       /\ \E fee \in ClosingFees(n, m) :
            /\ Becomes(n, AnswerClosing(n, c, m, fee).c)
            /\ Sends(n, AnswerClosing(n, c, m, fee).out)
       /\ UNCHANGED <<conn, drops, payVars>>

-----------------------------------------------------------------------------
Receive(n) ==
    \/ UpdateAddHtlc(n) \/ UpdateFulfillHtlc(n) \/ UpdateFailHtlc(n)
    \/ CommitmentSigned(n) \/ RevokeAndAck(n) \/ ChannelReestablish(n)
    \/ ShutdownReceived(n) \/ ClosingSigned(n) \/ MessageAfterClose(n)

Manager(n) ==
    \/ MonitorRestored(n) \/ FreeHoldingCells(n)
    \/ ProposeClosing(n) \/ AnswerDeferredClosing(n)

User(n) ==
    \/ \E p \in Payments : SendPayment(n, p) \/ ClaimFunds(n, p) \/ FailBackwards(n, p)
    \/ CloseChannel(n)

Next == (\E n \in Nodes : Receive(n) \/ Manager(n) \/ User(n)) \/ Disconnect \/ Reconnect

Spec == Init /\ [][Next]_vars

(* A connection that is lost is made again, messages that arrive are       *)
(* handled, monitor updates become durable, the timer ticks, and a payee   *)
(* is decided about: the console claims, and an HTLC about to expire is    *)
(* failed back.  Nobody has to send or close.                              *)
Fairness ==
    /\ WF_vars(Reconnect)
    /\ \A n \in Nodes :
        /\ WF_vars(Receive(n))
        /\ WF_vars(MonitorRestored(n)) /\ WF_vars(FreeHoldingCells(n))
        /\ WF_vars(ProposeClosing(n)) /\ WF_vars(AnswerDeferredClosing(n))
        /\ \A p \in Payments : WF_vars(ClaimFunds(n, p) \/ FailBackwards(n, p))

LiveSpec == Spec /\ Fairness

-----------------------------------------------------------------------------
(* Properties. *)

TypeOK ==
    /\ ch \in [Nodes -> Channel]
    /\ conn \in BOOLEAN /\ drops \in 0 .. MaxDrops
    /\ started \subseteq Payments /\ claimable \subseteq Payments
    /\ claimed \subseteq Payments /\ refused \subseteq Payments
    /\ told \in [Payments -> SUBSET {"sent", "failed"}]

(* Two correct nodes never give the channel up to the chain: whatever is   *)
(* lost, delayed or held back, each commitment_signed verifies against the *)
(* receiver's own view, the RGB assertions of build_commitment_transaction *)
(* hold, every revocation is the expected one, every HTLC id is the next,  *)
(* and reestablishment resends exactly what is missing.                    *)
NeverForced == OffChain

(* Closing keeps the two views equal as well: signatures, revocations, ids *)
(* and closing splits always match.  What can go wrong is order: an HTLC   *)
(* added, or a closing fee proposed, although the peer's shutdown reply    *)
(* overtook an HTLC of its own; or the last closing_signed lost, after     *)
(* which the node that is done denies the channel.                         *)
ForcedOnlyByOrder ==
    \A n \in Nodes : ch[n].fate \in
        {"open", "closed", "add_after_shutdown", "closing_order", "forgotten"}

(* to_self is the ledger of what was claimed: revoke_and_ack moves each    *)
(* amount once, on both sides, however often the fulfilment was resent.    *)
BalanceIsLedger ==
    \A n \in Nodes :
        LET held(S) == {h.pay : h \in S}
            total(S) == MapThenSumSet(LAMBDA p : Amount[p], S)
        IN ch[n].toSelf = Start(n)
            + total({p \in claimed : PayTo(p) = n /\ p \notin held(ch[n].inb)})
            - total({p \in claimed : PayFrom[p] = n /\ p \notin held(ch[n].out)})

\* The commitments of node m that node n has not seen revoked.
Unrevoked(m, n) ==
    {tx \in {ch[m].txs.prev, ch[m].txs.cur} : tx.num >= ch[n].cpNum - 1}

(* A payment is handed to the payee's user (monitor_updating_restored)     *)
(* only when it is an output of every commitment that can still confirm:   *)
(* the payee could lose the money by revealing the preimage any earlier.   *)
ClaimableIsLocked ==
    \A p \in claimable :
        LET n == PayTo(p)
        IN /\ p \in ch[n].txs.cur.htlcs
           /\ \A tx \in Unrevoked(Peer(n), n) : p \in tx.htlcs

(* A payment is reported failed only when no commitment that can still     *)
(* confirm pays it, neither the payer's own nor one the payee could        *)
(* broadcast; the payer pays twice if it retries any earlier.              *)
FailedIsGone ==
    \A p \in Payments : "failed" \in told[p] =>
        LET n == PayFrom[p]
        IN /\ p \notin ch[n].txs.cur.htlcs
           /\ \A tx \in Unrevoked(Peer(n), n) : p \notin tx.htlcs

(* The payer hears one outcome, and it is the payee's: sent only if it was *)
(* claimed, failed only if it was not and cannot be any more.              *)
OneOutcome ==
    \A p \in Payments :
        /\ told[p] # {"sent", "failed"}
        /\ "sent" \in told[p] => p \in claimed
        /\ "failed" \in told[p] => p \notin claimed \cup claimable

(* Once a node has signed the closing transaction away, both nodes see the *)
(* same split, it is the ledger of the claimed payments with none left     *)
(* under way, and every payer has been told.                               *)
CloseAgrees ==
    (\E n \in Nodes : ch[n].fate = "closed") =>
        /\ Split(Opener, ch[Opener]) = Split(Acceptor, ch[Acceptor])
        /\ \A n \in Nodes : ch[n].inb = {} /\ ch[n].out = {} /\ ch[n].cell = <<>>
        /\ \A p \in started : told[p] # {}

(* Neither node answers the peer's shutdown so early that an HTLC of its   *)
(* own reaches the peer afterwards.                                        *)
ShutdownAfterAdds == \A n \in Nodes : ch[n].fate # "add_after_shutdown"

(* Every payment that was sent comes to an outcome its payer hears of, as  *)
(* long as the channel stays off chain.                                    *)
EveryPaymentEnds ==
    \A p \in Payments : p \in started ~> (told[p] # {} \/ ~OffChain)

(* The commitment dance ends: with nobody sending, both sides run out of   *)
(* HTLCs, waiting updates and owed revocations, and agree on the balance.  *)
Idle(c) == c.inb = {} /\ c.out = {} /\ c.cell = <<>> /\ ~c.awaitRaa /\ ~c.monBusy

Quiesces ==
    <>[](OffChain => /\ \A n \in Nodes : Idle(ch[n]) \/ ch[n].fate = "closed"
                     /\ ch[Opener].toSelf + ch[Acceptor].toSelf = Funding)

(* A shutdown that was sent ends in a signed closing transaction on both   *)
(* sides: the fee negotiation is taken up again after a reconnection.      *)
CloseCompletes ==
    (\E n \in Nodes : ch[n].localShut)
        ~> (~OffChain \/ \A n \in Nodes : ch[n].fate = "closed")

-----------------------------------------------------------------------------
(* The ledger this channel implements. *)

LedgerStatus ==
    [p \in Payments |->
        IF p \notin started THEN "idle"
        ELSE IF p \in claimed THEN "claimed"
        ELSE IF \/ \E h \in ch[PayFrom[p]].out : h.pay = p
                \/ p \in AddsIn(ch[PayFrom[p]]) THEN "offered"
        ELSE "returned"]

Ledger == INSTANCE IdealChannel WITH
    Payer <- PayFrom, Payee <- [p \in Payments |-> PayTo(p)],
    Deposit <- [n \in Nodes |-> Start(n)],
    status <- LedgerStatus,
    settled <- {p \in Payments :
                  \/ LedgerStatus[p] = "returned"
                  \/ /\ p \in claimed
                     /\ \A h \in ch[PayTo(p)].inb : h.pay # p},
    spendable <- [n \in Nodes |-> AvailableRgb(ch[n])]

(* Every behaviour of the channel is a behaviour of the ledger: money is   *)
(* offered only when it is there, decided once, and spendable again once.  *)
ImplementsLedger == Ledger!Spec

=============================================================================
