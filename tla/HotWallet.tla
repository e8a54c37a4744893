------------------------------- MODULE HotWallet -------------------------------
(***************************************************************************)
(* The on-chain hot wallet of the console's LN node (zust-console,         *)
(* ln_rgb_btc_ln_backend.rs with local_wallet.rs, wallet_electrum_sync.rs  *)
(* and withdrawal_attempt.rs).  One BDK store is shared by BTC             *)
(* withdrawals, RGB withdrawals and channel fundings.  Each of them takes  *)
(* the store's write lock, synchronizes, picks coins and signs; they       *)
(* differ in when, and whether, the wallet is told that the coins are      *)
(* spent, and in what the caller learns when something fails.              *)
(*                                                                         *)
(* A payment is the transaction of one call.  Coins are the confirmed      *)
(* outputs the wallet starts with and, under the payment's own name, the   *)
(* change output a payment creates.  Amounts and fees are left out.        *)
(***************************************************************************)
EXTENDS FiniteSets, Naturals

CONSTANTS
    Withdrawals,   \* calls of transfer_l1_with_inputs_json, batch or single
    RequestOf,     \* [Withdrawals -> the customer's request the call serves]
    RgbTransfers,  \* calls of transfer_rgb_l1_json
    Fundings,      \* FundingGenerationReady events
    Coins,         \* confirmed outputs of the wallet
    RgbCoins,      \* those that carry the asset of the RGB transfers
    MaxCalls,      \* bound on the calls made in one behaviour
    None

Payments == Withdrawals \cup RgbTransfers \cup Fundings
Outpoints == Coins \cup Payments

ASSUME HotWalletAssumption ==
    /\ RgbCoins \subseteq Coins
    /\ None \notin Payments
    /\ Coins \cap Payments = {}
    /\ Withdrawals \cap (RgbTransfers \cup Fundings) = {}
    /\ RgbTransfers \cap Fundings = {}
    /\ MaxCalls \in Nat

VARIABLES
    pc,        \* where each call is
    answer,    \* what its caller can conclude: no answer leaves it unknown
    inputs,    \* the coins its transaction spends, {} before it is signed
    lock,      \* the call that holds the store's write lock
    store,     \* the wallet, always as persisted: what it has seen unconfirmed,
               \* which of those later than which others (last_seen; one sync
               \* sees all it sees at the same time), what it has seen confirmed
    marker,    \* the sync cache marker file names a recent sync
    logged,    \* withdrawals past the escape barrier, readable in the log
    posted,    \* transactions this process handed to a node
    ldk,       \* funding transactions accepted by the channel manager
    mempool,   \* what the network holds unconfirmed
    chain,     \* what is confirmed
    missed     \* history: transactions some sync found missing

vars == <<pc, answer, inputs, lock, store, marker, logged, posted, ldk,
          mempool, chain, missed>>
calls == <<pc, answer>>
network == <<logged, posted, ldk, mempool, chain>>

Conflict(t, u) == t # u /\ inputs[t] \cap inputs[u] # {}
OnNetwork == mempool \cup chain

\* bdk_chain's canonical view: a transaction seen unconfirmed counts unless a
\* confirmed one, or one seen later that counts, spends one of its inputs.
Canonical(v) ==
    v.conf \cup
    CHOOSE counts \in SUBSET v.seen :
        \A t \in v.seen : t \in counts <=>
            /\ \A u \in v.conf : ~Conflict(t, u)
            /\ \A u \in counts : <<t, u>> \in v.later => ~Conflict(t, u)

\* list_unspent, and the part of it that is confirmed.
Unspent(v) ==
    {o \in Coins \cup Canonical(v) : \A t \in Canonical(v) : o \notin inputs[t]}
ConfirmedUnspent(v) == Unspent(v) \cap (Coins \cup v.conf)

\* Mutant: a transaction the wallet has seen confirmed is listed again.
Seen_Again(v, t) ==
    [v EXCEPT !.seen = @ \cup {t},
              !.later = {p \in @ : p[1] # t} \cup ((v.seen \ {t}) \X {t})]

\* apply_unconfirmed_txs: t becomes the last seen.
Seen(v, t) ==
    IF t \in v.conf THEN v
    ELSE [v EXCEPT !.seen = @ \cup {t},
                   !.later = {p \in @ : p[1] # t} \cup ((v.seen \ {t}) \X {t})]

\* A sync with complete histories: what the network shows is seen now, and
\* what counted until now and is not shown any more is evicted.  The update is
\* persisted; one that cannot be is dropped with the wallet object.  Whatever
\* persists removes the sync marker first, also when persisting then fails.
Sync ==
    LET counts == Canonical(store)
        stale == store.seen \ (OnNetwork \cup counts)
    IN /\ store' = [conf |-> chain, seen |-> stale \cup mempool,
                    later |-> (store.later \cap (stale \X stale)) \cup (stale \X mempool)]
       /\ missed' = missed \cup (counts \ OnNetwork)

-----------------------------------------------------------------------------
(* The lock and the ways a call ends.                                      *)

Holds(t, phase) == lock = t /\ pc[t] = phase

To(t, phase) == pc' = [pc EXCEPT ![t] = phase] /\ UNCHANGED answer

\* The call returns, and the lock is dropped with its wallet object.
Return(t, a) ==
    /\ pc' = [pc EXCEPT ![t] = "done"]
    /\ answer' = [answer EXCEPT ![t] = a]
    /\ lock' = IF lock = t THEN None ELSE lock

\* Mutant: the barrier is raised with the network call, after the transaction
\* was logged and saved.
Evidence_Late(t) == IF t \in posted' THEN "unknown" ELSE "not_attempted"

\* withdrawal_attempt::run and failure: an error before the escape barrier is
\* evidence that nothing was broadcast, an error after it is not.
Evidence(t) == IF t \in logged' THEN "unknown" ELSE "not_attempted"

Failure(t) == IF t \in Withdrawals THEN Evidence(t) ELSE "unknown"

\* The caller serves a request again only on evidence that every earlier call
\* for it ended without a broadcast.
MayStart(t) ==
    /\ pc[t] = "idle"
    /\ Cardinality({u \in Payments : pc[u] # "idle"}) < MaxCalls
    /\ t \in Withdrawals =>
         \A u \in Withdrawals \ {t} :
            RequestOf[u] = RequestOf[t] => pc[u] = "idle" \/ answer[u] = "not_attempted"

\* open_l1_wallet: the write lock, waited for until a deadline, then the store.
Open(t) ==
    /\ MayStart(t)
    /\ lock = None
    /\ lock' = t
    /\ To(t, "opened")
    /\ UNCHANGED <<inputs, store, marker, missed, network>>

OpenTimesOut(t) ==
    /\ MayStart(t)
    /\ lock # None
    /\ UNCHANGED <<inputs, store, marker, missed, network>>
    /\ Return(t, Failure(t))

-----------------------------------------------------------------------------
(* Synchronization.                                                        *)

\* sync_wallet_cached: the sync is skipped while the marker is recent; the
\* marker is written after the update is persisted.
SyncWithdrawal(t) ==
    /\ t \in Withdrawals /\ Holds(t, "opened")
    /\ UNCHANGED <<inputs, network>>
    /\ \/ /\ marker
          /\ To(t, "synced")
          /\ UNCHANGED <<store, marker, missed, lock>>
       \/ /\ Sync
          /\ \/ marker' = TRUE /\ To(t, "synced") /\ UNCHANGED lock
             \/ marker' = FALSE /\ Return(t, Evidence(t))
       \/ /\ UNCHANGED <<store, missed>>
          /\ marker' \in {marker, FALSE}
          /\ Return(t, Evidence(t))

\* sync_l1_wallet_or_use_cached: a failed sync leaves the wallet as it was
\* loaded, or ends the attempt, which retry_transient_esplora may repeat for a
\* funding.
SyncOrUseCached(t) ==
    /\ t \notin Withdrawals /\ Holds(t, "opened")
    /\ UNCHANGED <<inputs, network>>
    /\ \/ Sync /\ marker' = FALSE /\ To(t, "synced") /\ UNCHANGED lock
       \/ To(t, "synced") /\ UNCHANGED <<store, marker, missed, lock>>
       \/ /\ UNCHANGED <<store, missed>>
          /\ marker' \in {marker, FALSE}
          /\ Return(t, "unknown")
       \/ /\ t \in Fundings
          /\ To(t, "idle")
          /\ lock' = None
          /\ UNCHANGED <<store, marker, missed>>

-----------------------------------------------------------------------------
(* BTC withdrawal: select, sign, escape, hold, send.                       *)

Pick(t, coins) == inputs' = [inputs EXCEPT ![t] = coins]

\* The selected outpoints must all be confirmed and available; build, sign and
\* persist.
BuildWithdrawal(t) ==
    /\ t \in Withdrawals /\ Holds(t, "synced")
    /\ UNCHANGED <<store, missed, network>>
    /\ marker' \in {marker, FALSE}
    /\ \/ \E coins \in (SUBSET ConfirmedUnspent(store)) \ {{}} :
            /\ Pick(t, coins)
            /\ To(t, "signed")
            /\ UNCHANGED lock
       \/ UNCHANGED inputs /\ Return(t, Evidence(t))

\* Before the barrier of broadcast_l1_withdrawal_tracked: the budget is spent
\* or the chain source is not Electrum.
BroadcastRefused(t) ==
    /\ t \in Withdrawals /\ Holds(t, "signed")
    /\ UNCHANGED <<inputs, store, marker, missed, network>>
    /\ Return(t, Evidence(t))

\* Mutant: the spent inputs are applied to the wallet object and not persisted.
Hold_Unsaved(t) ==
    /\ t \in Withdrawals /\ Holds(t, "signed")
    /\ logged' = logged \cup {t}
    /\ To(t, "held")
    /\ UNCHANGED <<inputs, lock, store, marker, posted, ldk, mempool, chain, missed>>

\* The barrier: the transaction is logged, then held in the store, with the
\* marker removed; saving it may fail.
Hold(t) ==
    /\ t \in Withdrawals /\ Holds(t, "signed")
    /\ logged' = logged \cup {t}
    /\ UNCHANGED <<inputs, posted, ldk, mempool, chain, missed>>
    /\ \/ /\ store' = Seen(store, t)
          /\ marker' = FALSE
          /\ To(t, "held")
          /\ UNCHANGED lock
       \/ /\ UNCHANGED store
          /\ marker' \in {marker, FALSE}
          /\ Return(t, Evidence(t))

\* The last budget check, then the broadcast call.
Send(t) ==
    /\ t \in Withdrawals /\ Holds(t, "held")
    /\ UNCHANGED <<inputs, store, marker, logged, ldk, mempool, chain, missed>>
    /\ \/ posted' = posted \cup {t} /\ To(t, "sent") /\ UNCHANGED lock
       \/ UNCHANGED posted /\ Return(t, Evidence(t))

\* The node's answer, or none: only the expected txid is a success.
Answered(t) ==
    /\ t \in Withdrawals /\ Holds(t, "sent")
    /\ UNCHANGED <<inputs, store, marker, missed, network>>
    /\ \/ t \in OnNetwork /\ Return(t, "ok")
       \/ Return(t, Evidence(t))

-----------------------------------------------------------------------------
(* RGB withdrawal: the wallet is not told, and commit follows broadcast.   *)

\* What list_assets shows an allocation on.
RgbBearing == RgbCoins \cup RgbTransfers

\* Confirmed coins with the asset, other coins of the wallet for the fee but
\* none that carries RGB; the daemon prepares the transfer.
BuildRgbTransfer(t) ==
    /\ t \in RgbTransfers /\ Holds(t, "synced")
    /\ UNCHANGED <<store, missed, network>>
    /\ marker' \in {marker, FALSE}
    /\ \/ \E rgb \in (SUBSET (RgbBearing \cap ConfirmedUnspent(store))) \ {{}},
             fee \in SUBSET (Unspent(store) \ RgbBearing) :
            /\ Pick(t, rgb \cup fee)
            /\ To(t, "signed")
            /\ UNCHANGED lock
       \/ UNCHANGED inputs /\ Return(t, "unknown")

BroadcastRgbTransfer(t) ==
    /\ t \in RgbTransfers /\ Holds(t, "signed")
    /\ posted' = posted \cup {t}
    /\ To(t, "sent")
    /\ UNCHANGED <<inputs, lock, store, marker, logged, ldk, mempool, chain,
                   missed>>

\* An error of the broadcast ends the call without commit_transfer, whether or
\* not the node has the transaction.
CommitRgbTransfer(t) ==
    /\ t \in RgbTransfers /\ Holds(t, "sent")
    /\ UNCHANGED <<inputs, store, marker, missed, network>>
    /\ \/ t \in OnNetwork /\ \E a \in {"ok", "unknown"} : Return(t, a)
       \/ Return(t, "unknown")

-----------------------------------------------------------------------------
(* Channel funding: built under the lock, recorded after it was submitted. *)

\* build_funding_transaction and build_rgb_funding_transaction: any unspent
\* coin may be selected.  The lock is released with the signed transaction.
BuildFunding(f) ==
    /\ f \in Fundings /\ Holds(f, "synced")
    /\ UNCHANGED <<store, missed, network>>
    /\ marker' \in {marker, FALSE}
    /\ \/ \E coins \in (SUBSET Unspent(store)) \ {{}} :
            /\ Pick(f, coins)
            /\ To(f, "built")
            /\ lock' = None
       \/ UNCHANGED inputs /\ Return(f, "unknown")

\* funding_transaction_generated.
SubmitFunding(f) ==
    /\ f \in Fundings /\ pc[f] = "built"
    /\ UNCHANGED <<inputs, store, marker, logged, posted, mempool, chain, missed>>
    /\ \/ ldk' = ldk \cup {f} /\ To(f, "submitted") /\ UNCHANGED lock
       \/ UNCHANGED ldk /\ Return(f, "unknown")

\* record_local_unconfirmed takes the lock again; it may time out or fail.
RecordFunding(f) ==
    /\ f \in Fundings /\ pc[f] = "submitted"
    /\ pc' = [pc EXCEPT ![f] = "done"]
    /\ \/ /\ lock = None
          /\ store' = Seen(store, f)
          /\ marker' = FALSE
          /\ answer' = [answer EXCEPT ![f] = "ok"]
       \/ /\ UNCHANGED <<store, marker>>
          /\ answer' = [answer EXCEPT ![f] = "unknown"]
    /\ UNCHANGED <<inputs, lock, missed, network>>

\* The peer's funding_signed arrives: the channel manager broadcasts, and
\* LnRgbBroadcaster only logs a failure.
LdkBroadcast(f) ==
    /\ f \in ldk \ posted
    /\ posted' = posted \cup {f}
    /\ UNCHANGED <<calls, inputs, lock, store, marker, logged, ldk, mempool, chain,
                   missed>>

-----------------------------------------------------------------------------
(* sync_l1_utxos_json, the network and the process.                        *)

\* A caller refreshes the wallet while no payment holds it.
SyncUtxos ==
    /\ lock = None
    /\ Sync
    /\ marker' = TRUE
    /\ UNCHANGED <<calls, inputs, lock, network>>

\* A node takes a transaction it was given, now or later, if its inputs exist
\* and are not spent in the chain; it may replace unconfirmed spends of them.
NodeAccepts(t) ==
    /\ t \in (posted \cup logged) \ OnNetwork
    /\ inputs[t] \cap Payments \subseteq OnNetwork
    /\ \A u \in chain : ~Conflict(t, u)
    /\ LET out == {u \in mempool : Conflict(t, u)}
       IN /\ \A u \in out, v \in mempool : u \notin inputs[v]
          /\ inputs[t] \cap out = {}
          /\ mempool' = (mempool \ out) \cup {t}
    /\ UNCHANGED <<calls, inputs, lock, store, marker, logged, posted, ldk,
                   chain, missed>>

NodeDrops(t) ==
    /\ t \in mempool
    /\ \A v \in mempool : t \notin inputs[v]
    /\ mempool' = mempool \ {t}
    /\ UNCHANGED <<calls, inputs, lock, store, marker, logged, posted, ldk,
                   chain, missed>>

Confirms(t) ==
    /\ t \in mempool
    /\ inputs[t] \cap Payments \subseteq chain
    /\ mempool' = mempool \ {t}
    /\ chain' = chain \cup {t}
    /\ UNCHANGED <<calls, inputs, lock, store, marker, logged, posted, ldk,
                   missed>>

\* The process stops, at any time and again: running calls never answer, the
\* store stays as persisted.
Crash ==
    /\ pc' = [t \in Payments |-> IF pc[t] = "idle" THEN "idle" ELSE "done"]
    /\ answer' = [t \in Payments |->
                    IF pc[t] \in {"idle", "done"} THEN answer[t] ELSE "unknown"]
    /\ lock' = None
    /\ UNCHANGED <<inputs, store, marker, missed, network>>

Init ==
    /\ pc = [t \in Payments |-> "idle"]
    /\ answer = [t \in Payments |-> "none"]
    /\ inputs = [t \in Payments |-> {}]
    /\ lock = None
    /\ store = [seen |-> {}, later |-> {}, conf |-> {}]
    /\ marker = FALSE
    /\ logged = {} /\ posted = {} /\ ldk = {}
    /\ mempool = {} /\ chain = {}
    /\ missed = {}

Next ==
    \/ \E t \in Payments :
        \/ Open(t) \/ OpenTimesOut(t) \/ SyncWithdrawal(t) \/ SyncOrUseCached(t)
        \/ BuildWithdrawal(t) \/ BroadcastRefused(t) \/ Hold(t) \/ Send(t)
        \/ Answered(t)
        \/ BuildRgbTransfer(t) \/ BroadcastRgbTransfer(t) \/ CommitRgbTransfer(t)
        \/ BuildFunding(t) \/ SubmitFunding(t) \/ RecordFunding(t)
        \/ LdkBroadcast(t)
        \/ NodeAccepts(t) \/ NodeDrops(t) \/ Confirms(t)
    \/ SyncUtxos
    \/ Crash

Spec == Init /\ [][Next]_vars
-----------------------------------------------------------------------------
(* Properties.                                                             *)

Phases == {"idle", "opened", "synced", "signed", "held", "sent", "built",
           "submitted", "done"}
Answers == {"none", "ok", "not_attempted", "unknown"}
Views == [seen : SUBSET Payments, later : SUBSET (Payments \X Payments),
          conf : SUBSET Payments]

\* The type invariant: a wallet lists a transaction as seen or as confirmed;
\* the lock is held by a call in progress and nothing else has a wallet open.
TypeOK ==
    /\ pc \in [Payments -> Phases] /\ answer \in [Payments -> Answers]
    /\ inputs \in [Payments -> SUBSET Outpoints]
    /\ lock \in Payments \cup {None}
    /\ \A t \in Payments :
         lock = t <=> pc[t] \in {"opened", "synced", "signed", "held", "sent"}
    /\ store \in Views
    /\ store.later \subseteq store.seen \X store.seen
    /\ store.seen \cap store.conf = {}
    /\ marker \in BOOLEAN
    /\ mempool \cap chain = {}
    /\ \A t \in OnNetwork, u \in OnNetwork : ~Conflict(t, u)
    /\ UNION {logged, posted, ldk, OnNetwork, missed} \subseteq Payments

\* A customer is paid once: a request that is served again on the evidence
\* "not_attempted" never has two transactions on the network, also when the
\* first was logged, its saving failed, its broadcast got no answer or the
\* process stopped (withdrawal_attempt.rs, broadcast_l1_withdrawal_tracked).
PaidOnce ==
    \A w, x \in Withdrawals \cap OnNetwork : RequestOf[w] = RequestOf[x] => w = x

\* The wallet has been told to keep the coins of t: a withdrawal is held before
\* it is sent, a funding is recorded after it was submitted.
Kept(t) ==
    \/ t \in Withdrawals \cap posted
    \/ t \in Fundings /\ answer[t] = "ok"

\* The wallet has seen another spend of a coin of t.
Displaced(t) == \E u \in store.seen \cup store.conf : Conflict(t, u)

\* No payment is built on a coin of a kept transaction, whatever its broadcast
\* answered and whether the sync is skipped, fails or follows a restart, until
\* a sync has found that transaction missing or the wallet has seen a
\* conflicting spend ("An ambiguous network result must not allow another local
\* payment to reuse these inputs from the cache").
KeptUntilAbsent ==
    [][\A t, k \in Payments :
        /\ inputs[t] = {} /\ Kept(k)
        /\ inputs'[t] \cap inputs[k] # {}
        => k \in missed \/ Displaced(k)]_vars

=============================================================================
