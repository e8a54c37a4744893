----------------------------- MODULE ExternalRgb -----------------------------
(***************************************************************************)
(* The external L1 RGB engine of rgb-service-daemon (external.rs): durable *)
(* send and receive operations that a client drives over HTTP and that one *)
(* background scanner advances against an RGB proxy and an Esplora chain   *)
(* server.                                                                 *)
(*                                                                         *)
(* Everything the engine commits to Fjall survives a crash (ops, reserved, *)
(* utxos, alloc, pend, legacy); the mutation lock, the record the holder   *)
(* works on and the place it has reached (lock, work, pc) do not.  A step  *)
(* is what happens between two points where a crash can leave a trace: one *)
(* committed transaction or one call to the proxy or the chain.  Every     *)
(* call may fail, and its effect may happen while its reply is lost.       *)
(*                                                                         *)
(* Left out as data: amounts and contracts, keys, signatures and PSBT      *)
(* contents, error texts.  Timers (next_retry_at, attempts) only delay a   *)
(* scan, so the scanner may take any eligible operation at any time.       *)
(***************************************************************************)
EXTENDS Naturals, FiniteSets

CONSTANTS
    Accounts,       \* account addresses
    Sends,          \* ids of send operations, digest(account/prepare/request)
    Receives,       \* ids of receive operations, digest(account/receive/request)
    AccountOf,      \* the account in the id's scope
    Coins,          \* confirmed outputs that exist from the start
    CoinOwner,      \* the account whose script each coin pays
    RgbCoins,       \* the coins that carry RGB allocations, already tracked
    PeerTxs,        \* carrier transactions built by other wallets
    PayeeOf,        \* the account a peer's carrier pays
    PeerSlots,      \* proxy recipient ids that belong to other wallets
    ForeignCoins,   \* coins the wallet may also spend without the daemon
    Queried,        \* accounts whose owner asks for assets and balances
    MaxOperations,  \* config.max_operations
    RequiredConfirmations,
    None

Ops == Sends \cup Receives
Txs == Sends \cup PeerTxs

Change(s) == <<"change", s>>     \* the change output of a send's carrier
Paid(t)   == <<"paid", t>>       \* the recipient output of a carrier
Outpoints == Coins \cup {Change(s) : s \in Sends} \cup {Paid(t) : t \in Txs}

WitnessSlot(a) == <<"witness", a>>   \* derives from the account's address
BlindSlot(r)   == <<"blind", r>>     \* a random concealed seal
Slots == PeerSlots \cup {WitnessSlot(a) : a \in Accounts}
                   \cup {BlindSlot(r) : r \in Receives}

ASSUME IdsAssumption ==
    /\ Sends \cap Receives = {} /\ Sends \cap PeerTxs = {}
    /\ None \notin Ops /\ None \notin Outpoints /\ None \notin Slots
    /\ AccountOf \in [Ops -> Accounts]

\* an invoice's recipient id derives from its own wallet's script or seal
ASSUME SlotsAssumption ==
    PeerSlots \cap ({WitnessSlot(a) : a \in Accounts} \cup {BlindSlot(r) : r \in Receives}) = {}

ASSUME CoinsAssumption ==
    /\ RgbCoins \subseteq Coins /\ ForeignCoins \subseteq Coins
    /\ CoinOwner \in [Coins -> Accounts] /\ PayeeOf \in [PeerTxs -> Accounts]
    /\ Coins \cap ({Change(s) : s \in Sends} \cup {Paid(t) : t \in Txs}) = {}

ASSUME LimitsAssumption ==
    /\ RequiredConfirmations \in Nat \ {0}
    /\ MaxOperations \in Nat
    /\ Queried \subseteq Accounts

(* What a proof is good for: a valid transfer to the invoice ("good"); no  *)
(* consignment, or one of another contract, output, seal or amount         *)
(* ("bad"); one that meets the invoice but that RGB validation refuses     *)
(* ("invalid"); an entry too large or with a field that does not decode    *)
(* ("unreadable"); a valid one whose entry lacks the output index that a   *)
(* witness receive needs ("no_vout").                                      *)
Proofs == [tx : Txs, kind : {"good", "bad", "invalid", "unreadable", "no_vout"}]
ProofOf(s) == [tx |-> s, kind |-> "good"]

ASSUME ProofsAssumption == None \notin Proofs

Answers == {"none", "ack", "nack"}

Statuses == {"absent", "preparing", "awaiting_signature", "delivering",
             "awaiting_transfer", "validating", "waiting_confirmations",
             "settled", "needs_review", "cancelled"}

Records ==
    [status     : Statuses,
     inputs     : SUBSET Outpoints,
     moves      : SUBSET Outpoints,   \* inputs whose allocations the fascia moves
     slot       : Slots \cup {None},  \* recipient_id
     signed     : BOOLEAN,            \* signed_hex is stored
     delivery   : {"not_started", "delivered", "validated"},
     broadcast  : {"not_started", "unknown", "broadcast", "confirmed"},
     ack        : Answers,
     proof      : Proofs \cup {None},
     outpoint   : Outpoints \cup {None},   \* receive_outpoint
     quarantine : BOOLEAN]

Absent == [status |-> "absent", inputs |-> {}, moves |-> {}, slot |-> None,
           signed |-> FALSE, delivery |-> "not_started",
           broadcast |-> "not_started", ack |-> "none", proof |-> None,
           outpoint |-> None, quarantine |-> FALSE]

Steps == {"idle", "finish", "upload", "save_delivered", "mark_unknown",
          "broadcast", "save_broadcast", "observe", "stage", "replay",
          "mark_promoted", "credit", "recheck", "fetch", "validate", "nack",
          "post_ack", "save_ack", "confirm", "accept", "save"}

VARIABLES
    ops,        \* external_rgb_operations_v1 with its artifacts
    reserved,   \* external_rgb_reservations_v1: outpoint -> operation
    utxos,      \* account_utxos: outpoint -> absent, unconfirmed, confirmed
    alloc,      \* outpoints on which the account's RGB stock has allocations
    pend,       \* staged sender fascia of a carrier and its pending status
    legacy,     \* accounts with records in prepared_transfers
    lock, work, pc,   \* the mutation lock's holder, its record, its place
    promoting,  \* staged carrier that a scan has replayed and not yet marked
    dirs,       \* pending_stock_dirs: accounts the recovery scan visits
    known,      \* outpoints an asset or balance query has listed
    slots, acks,      \* the proxy: stored consignment and answer of a slot
    seen, depth,      \* the chain: known carriers and their confirmations
    posted,     \* carriers the chain server took from this daemon
    foreign,    \* coins spent outside the daemon
    expired     \* operations whose invoice has expired

durable == <<ops, reserved, utxos, alloc, pend, legacy>>
holder  == <<lock, work, pc>>
recovery == <<promoting, dirs>>
proxy   == <<slots, acks>>
chain   == <<seen, depth, posted, foreign>>
vars    == <<durable, holder, recovery, known, proxy, chain, expired>>

-----------------------------------------------------------------------------
(* The chain as the engine reads it.                                       *)

OwnedBy(a, o) ==
    \/ o \in Coins /\ CoinOwner[o] = a
    \/ \E s \in Sends : o = Change(s) /\ AccountOf[s] = a
    \/ \E t \in PeerTxs : o = Paid(t) /\ PayeeOf[t] = a
    \/ \E s \in Sends : o = Paid(s) /\ ops[s].slot = WitnessSlot(a)

Spent(o) == o \in foreign \/ \E s \in seen \cap Sends : o \in ops[s].inputs

\* the chain server knows the output and no transaction that spends it
Created(o) == \A t \in Txs : o \in {Change(t), Paid(t)} => t \in seen
Spendable(o) == Created(o) /\ ~Spent(o)

\* confirmations(txid) >= required_confirmations
Deep(t) == depth[t] >= RequiredConfirmations

DeepOutput(o) == \A t \in Txs : o \in {Change(t), Paid(t)} => Deep(t)

owned_unspent(a, o) == OwnedBy(a, o) /\ ~Spent(o) /\ DeepOutput(o)

-----------------------------------------------------------------------------
(* Helpers of the handlers.                                                *)

Exists(x) == ops[x].status # "absent"
OpsOf(a) == {x \in Ops : Exists(x) /\ AccountOf[x] = a}

has_active_pending(a) == \E s \in Sends : AccountOf[s] = a /\ pend[s] = "staged"

\* faulty variant: prepared direct sends are not looked for
new_record_IgnoringLegacy(x) ==
    /\ lock = None
    /\ ~Exists(x)
    /\ Cardinality({y \in Ops : Exists(y)}) < MaxOperations
    /\ ~has_active_pending(AccountOf[x])

\* replay finds no earlier request and new_record's limits allow one
new_record(x) ==
    /\ lock = None
    /\ ~Exists(x)
    /\ Cardinality({y \in Ops : Exists(y)}) < MaxOperations
    /\ AccountOf[x] \notin legacy
    /\ ~has_active_pending(AccountOf[x])

\* faulty variant: the transaction does not look at earlier reservations
save_reserving_Blindly(x, rec) ==
    /\ reserved' = [o \in Outpoints |-> IF o \in rec.inputs THEN x ELSE reserved[o]]
    /\ ops' = [ops EXCEPT ![x] = rec]

\* save(.., reserve = true): every input is free or already this operation's
save_reserving(x, rec) ==
    /\ \A o \in rec.inputs : reserved[o] \in {None, x}
    /\ reserved' = [o \in Outpoints |-> IF o \in rec.inputs THEN x ELSE reserved[o]]
    /\ ops' = [ops EXCEPT ![x] = rec]

save(x, rec) == ops' = [ops EXCEPT ![x] = rec]

At(x, step) == lock = x /\ pc = step
Goto(step) == pc' = step /\ UNCHANGED lock
Release == lock' = None /\ pc' = "idle" /\ work' = Absent

\* the holder commits rec and goes on to step
SaveAndGo(x, rec, step) ==
    /\ save(x, rec)
    /\ work' = rec
    /\ Goto(step)
    /\ UNCHANGED <<reserved, utxos, alloc, pend, legacy>>

-----------------------------------------------------------------------------
(* Requests of clients.  Each holds the mutation lock while it runs.       *)

recipient(r, blind) ==
    IF blind = None THEN WitnessSlot(AccountOf[r]) ELSE BlindSlot(r)

\* /v1/external/receive, on a blind outpoint or (None) to the address
Receive(r, blind) ==
    LET a == AccountOf[r]
        rec == [Absent EXCEPT !.status = "awaiting_transfer",
                              !.slot = recipient(r, blind),
                              !.outpoint = blind,
                              !.inputs = {blind} \ {None}]
    IN /\ new_record(r)
       /\ blind # None => owned_unspent(a, blind) /\ blind \notin alloc
       /\ \A q \in OpsOf(a) \cap Receives : ops[q].slot # recipient(r, blind)
       /\ save_reserving(r, rec)
       /\ UNCHANGED <<utxos, alloc, pend, legacy, holder, recovery, known, proxy, chain, expired>>

\* the wallet holds an invoice for the slot
Invoiced(slot) ==
    \/ slot \in PeerSlots
    \/ \E r \in Receives : Exists(r) /\ ops[r].slot = slot

\* /v1/external/transfers/prepare up to its first save; finish_preparation follows
Prepare(s, inputs, slot) ==
    LET a == AccountOf[s]
        rec == [Absent EXCEPT !.status = "preparing", !.inputs = inputs, !.slot = slot]
    IN /\ new_record(s)
       /\ \A x \in OpsOf(a) : ~ops[x].quarantine
       /\ Invoiced(slot)
       /\ inputs # {}
       /\ \A o \in inputs : owned_unspent(a, o)
       /\ \A o \in inputs \cap alloc : utxos[o] = "confirmed"
       /\ save_reserving(s, rec)
       /\ lock' = s /\ work' = rec /\ pc' = "finish"
       /\ UNCHANGED <<utxos, alloc, pend, legacy, recovery, known, proxy, chain, expired>>

\* builds the RGB PSBT from the allocations the stock has on the inputs now
finish_preparation(s) ==
    LET moves == work.inputs \cap alloc
    IN /\ At(s, "finish")
       /\ \/ /\ moves # {}
             /\ SaveAndGo(s, [work EXCEPT !.status = "awaiting_signature",
                                          !.moves = moves,
                                          !.proof = ProofOf(s)], "save")
          \/ moves = {} /\ Goto("save") /\ UNCHANGED <<durable, work>>
       /\ UNCHANGED <<recovery, known, proxy, chain, expired>>

\* /v1/external/transfers/finalize with the wallet's signatures
Finalize(s) ==
    /\ lock = None
    /\ ops[s].status = "awaiting_signature"
    /\ s \notin expired
    /\ save(s, [ops[s] EXCEPT !.signed = TRUE, !.status = "delivering"])
    /\ UNCHANGED <<reserved, utxos, alloc, pend, legacy, holder, recovery, known, proxy, chain, expired>>

\* faulty variant: cancelling an invoice frees its blind outpoint
Cancel_Releasing(x) ==
    /\ lock = None
    /\ x \in Receives /\ Exists(x)
    /\ ops[x].proof = None
    /\ save(x, [ops[x] EXCEPT !.status = "cancelled"])
    /\ reserved' = [o \in Outpoints |-> IF reserved[o] = x THEN None ELSE reserved[o]]
    /\ UNCHANGED <<utxos, alloc, pend, legacy, holder, recovery, known, proxy, chain, expired>>

\* /v1/external/operations/cancel: never a send, never a detected payment
Cancel(x) ==
    /\ lock = None
    /\ x \in Receives /\ Exists(x)
    /\ ops[x].proof = None
    /\ save(x, [ops[x] EXCEPT !.status = "cancelled"])
    /\ UNCHANGED <<reserved, utxos, alloc, pend, legacy, holder, recovery, known, proxy, chain, expired>>

\* a direct send of an account the engine does not own yet
LegacyPrepare(a) ==
    /\ lock = None
    /\ OpsOf(a) = {}
    /\ legacy' = legacy \cup {a}
    /\ UNCHANGED <<ops, reserved, utxos, alloc, pend, holder, recovery, known, proxy, chain, expired>>

-----------------------------------------------------------------------------
(* The background scanner, one operation at a time under the same lock.    *)

\* faulty variant: delivery is left to a later scan
send_entry_Undelivered(rec) ==
    IF rec.status = "preparing" THEN "finish"
    ELSE IF ~rec.signed THEN "save"
    ELSE IF rec.broadcast # "broadcast" THEN "mark_unknown"
    ELSE "observe"

\* where advance_send and advance_receive pick an operation up
send_entry(rec) ==
    IF rec.status = "preparing" THEN "finish"
    ELSE IF ~rec.signed THEN "save"
    ELSE IF rec.delivery # "delivered" THEN "upload"
    ELSE IF rec.broadcast # "broadcast" THEN "mark_unknown"
    ELSE "observe"

receive_entry(rec) ==
    IF rec.proof = None THEN "fetch"
    ELSE IF rec.outpoint = None THEN "save"     \* "receive outpoint missing"
    ELSE IF rec.status = "validating" THEN "validate"
    ELSE IF rec.ack # "ack" THEN "post_ack"
    ELSE "confirm"

advance(x) ==
    IF ops[x].status = "settled" THEN "recheck"
    ELSE IF x \in Receives THEN receive_entry(ops[x]) ELSE send_entry(ops[x])

\* faulty variant: a cancelled invoice is no longer observed
Scannable_Open(x) ==
    ops[x].status \notin {"absent", "awaiting_signature", "needs_review", "cancelled"}

Scannable(x) == ops[x].status \notin {"absent", "awaiting_signature", "needs_review"}

\* scan_operations takes the lock, loads the record again and advances it
Scan(x) ==
    /\ lock = None /\ promoting = None
    /\ Scannable(x)
    /\ lock' = x /\ work' = ops[x] /\ pc' = advance(x)
    /\ UNCHANGED <<durable, recovery, known, proxy, chain, expired>>

\* whatever advance returned, scan_operations commits the record it worked on
ScanSave(x) ==
    /\ At(x, "save")
    /\ save(x, work)
    /\ Release
    /\ UNCHANGED <<reserved, utxos, alloc, pend, legacy, recovery, known, proxy, chain, expired>>

-----------------------------------------------------------------------------
(* advance_send                                                            *)

\* the proxy keeps a slot's first consignment
Stored(slot, p) == [slots EXCEPT ![slot] = IF @ = None THEN p ELSE @]

\* faulty variant: any answer of the proxy counts as delivery
upload_Trusting(s) ==
    /\ At(s, "upload")
    /\ slots' = Stored(work.slot, work.proof)
    /\ Goto("save_delivered")
    /\ UNCHANGED <<durable, work, recovery, known, acks, chain, expired>>

\* faulty variant: a refused upload is an error even if an earlier one got through
upload_Forgetful(s) ==
    /\ At(s, "upload")
    /\ slots' = Stored(work.slot, work.proof)
    /\ Goto(IF slots[work.slot] = None THEN "save_delivered" ELSE "save")
    /\ UNCHANGED <<durable, work, recovery, known, acks, chain, expired>>

\* consignment.post; a refusal is settled by comparing what the slot holds
upload(s) ==
    /\ At(s, "upload")
    /\ slots' = Stored(work.slot, work.proof)
    /\ Goto(IF slots'[work.slot] = work.proof THEN "save_delivered" ELSE "save")
    /\ UNCHANGED <<durable, work, recovery, known, acks, chain, expired>>

SaveDelivered(s) ==
    /\ At(s, "save_delivered")
    /\ SaveAndGo(s, [work EXCEPT !.delivery = "delivered"], "mark_unknown")
    /\ UNCHANGED <<recovery, known, proxy, chain, expired>>

MarkUnknown(s) ==
    /\ At(s, "mark_unknown")
    /\ SaveAndGo(s, [work EXCEPT !.broadcast = "unknown"], "broadcast")
    /\ UNCHANGED <<recovery, known, proxy, chain, expired>>

\* the chain server takes a transaction whose inputs exist and are unspent
Relayed(s) == s \in seen \/ \A o \in work.inputs : Spendable(o)

\* looks the txid up first, else posts the stored signed transaction
broadcast(s) ==
    /\ At(s, "broadcast")
    /\ \/ /\ Relayed(s)
          /\ seen' = seen \cup {s}
          /\ posted' = IF s \in seen THEN posted ELSE posted \cup {s}
          /\ Goto("save_broadcast")
          /\ UNCHANGED <<depth, foreign>>
       \/ ~Relayed(s) /\ Goto("save") /\ UNCHANGED chain
    /\ UNCHANGED <<durable, work, recovery, known, proxy, expired>>

SaveBroadcast(s) ==
    /\ At(s, "save_broadcast")
    /\ SaveAndGo(s, [work EXCEPT !.broadcast = "broadcast",
                                 !.status = "waiting_confirmations"], "observe")
    /\ UNCHANGED <<recovery, known, proxy, chain, expired>>

\* faulty variant: the change is credited before the stock has been promoted
Observe_Hasty(s) ==
    /\ At(s, "observe")
    /\ work' = [work EXCEPT !.ack = acks[work.slot]]
    /\ Goto(IF Deep(s) THEN "credit" ELSE "save")
    /\ UNCHANGED <<durable, recovery, known, proxy, chain, expired>>

\* ack.get, then confirmations
Observe(s) ==
    /\ At(s, "observe")
    /\ work' = [work EXCEPT !.ack = acks[work.slot]]
    /\ Goto(IF ~Deep(s) THEN "save"
            ELSE IF pend[s] = "confirmed" THEN "credit" ELSE "stage")
    /\ UNCHANGED <<durable, recovery, known, proxy, chain, expired>>

stage_sender_fascia(s) ==
    /\ At(s, "stage")
    /\ pend' = [pend EXCEPT ![s] = "staged"]
    /\ Goto("replay")
    /\ UNCHANGED <<ops, reserved, utxos, alloc, legacy, work, recovery, known, proxy, chain, expired>>

\* what scan_and_promote_confirmed_staged_rgb_stocks finds to promote
Promotable(a) == {t \in Sends : AccountOf[t] = a /\ pend[t] = "staged" /\ depth[t] > 0}

\* the stock has consumed the fascia of s: its change is there or was moved on
Consumed(s) == Change(s) \in alloc \/ \E t \in Sends : Change(s) \in ops[t].moves

\* both ways into the stock are idempotent: what a transition in it has spent
\* does not come back with a second consume or accept
Arriving(o) == {o} \ UNION {ops[s].moves : s \in {t \in Sends : Consumed(t)}}

\* consumes the fascia into the stock, then drops the staged operation
replay_pending(t) ==
    /\ alloc' = (alloc \ ops[t].moves) \cup Arriving(Change(t))
    /\ pend' = [pend EXCEPT ![t] = "none"]
    /\ promoting' = t
    /\ UNCHANGED <<ops, reserved, utxos, legacy, dirs>>

\* faulty variant: a status name that no reader of the keyspace knows
mark_promoted_Misnamed(t) ==
    /\ pend' = [pend EXCEPT ![t] = "promoted"]
    /\ UNCHANGED <<ops, reserved, alloc, legacy>>

mark_promoted(t) ==
    /\ pend' = [pend EXCEPT ![t] = "confirmed"]
    /\ UNCHANGED <<ops, reserved, alloc, legacy>>

\* the scan promotes every staged carrier of the account, not only this one
Promote(s) ==
    LET ready == Promotable(AccountOf[s])
    IN /\ At(s, "replay")
       /\ \/ \E t \in ready : replay_pending(t) /\ Goto("mark_promoted")
          \/ /\ ready = {}
             /\ Goto(IF pend[s] = "confirmed" THEN "credit" ELSE "save")
             /\ UNCHANGED <<durable, recovery>>
       /\ UNCHANGED <<work, known, proxy, chain, expired>>

MarkPromoted(s) ==
    /\ At(s, "mark_promoted")
    /\ mark_promoted(promoting)
    /\ promoting' = None
    /\ Goto("replay")
    /\ UNCHANGED <<utxos, work, dirs, known, proxy, chain, expired>>

OutpointOf(x, rec) == IF x \in Sends THEN Change(x) ELSE rec.outpoint

\* faulty variant: credit frees the inputs of a send as it does for a receive
credit_Freeing(x) ==
    /\ At(x, "credit")
    /\ utxos' = [o \in Outpoints |->
                    IF o = OutpointOf(x, work) THEN "confirmed"
                    ELSE IF o \in work.inputs THEN "absent" ELSE utxos[o]]
    /\ reserved' = [o \in Outpoints |-> IF o \in work.inputs THEN None ELSE reserved[o]]
    /\ save(x, [work EXCEPT !.status = "settled"])
    /\ work' = [work EXCEPT !.status = "settled"]
    /\ Goto("save")
    /\ UNCHANGED <<alloc, pend, legacy, recovery, known, proxy, chain, expired>>

\* one transaction: spent inputs out, the new output in, the record settled;
\* the verdict on a rejected payment is only in the holder's record yet
credit(x) ==
    /\ At(x, "credit")
    /\ utxos' = [o \in Outpoints |->
                    IF o = OutpointOf(x, work) THEN "confirmed"
                    ELSE IF o \in work.inputs THEN "absent" ELSE utxos[o]]
    /\ reserved' = [o \in Outpoints |->
                    IF x \in Receives /\ o \in work.inputs THEN None ELSE reserved[o]]
    /\ save(x, [work EXCEPT !.status = "settled"])
    /\ work' = IF x \in Receives
               THEN [work EXCEPT !.status = "settled", !.broadcast = "confirmed"]
               ELSE [work EXCEPT !.status = IF work.ack = "nack" THEN "needs_review"
                                                               ELSE "settled"]
    /\ Goto("save")
    /\ UNCHANGED <<alloc, pend, legacy, recovery, known, proxy, chain, expired>>

\* faulty variant: a reorganisation reopens the operation
Recheck_Reopening(x) ==
    /\ At(x, "recheck")
    /\ work' = IF Deep(work.proof.tx) THEN work
               ELSE [work EXCEPT !.status = "waiting_confirmations"]
    /\ Goto("save")
    /\ UNCHANGED <<durable, recovery, known, proxy, chain, expired>>

\* a settled operation whose carrier lost its confirmations freezes the account;
\* mark_utxo_unconfirmed commits before the record does
Recheck(x) ==
    LET o == OutpointOf(x, work) IN
    /\ At(x, "recheck")
    /\ Goto("save")
    /\ \/ Deep(work.proof.tx) /\ UNCHANGED <<work, utxos>>
       \/ /\ ~Deep(work.proof.tx)
          /\ work' = [work EXCEPT !.status = "needs_review", !.quarantine = TRUE]
          /\ utxos' = [utxos EXCEPT ![o] = IF @ = "absent" THEN @ ELSE "unconfirmed"]
    /\ UNCHANGED <<ops, reserved, alloc, pend, legacy, recovery, known, proxy, chain, expired>>

-----------------------------------------------------------------------------
(* advance_receive                                                         *)

IsBlind(rec) == rec.inputs # {}

\* the entries of the proxy that decode within the limits
Readable == {p \in Proofs : p.kind # "unreadable"}

\* faulty variant: whether the invoice still stands is not asked
Fetch_Late(r) ==
    LET p == slots[work.slot]
    IN /\ At(r, "fetch")
       /\ IF p \notin Readable \/ (~IsBlind(work) /\ p.kind = "no_vout")
          THEN Goto("save") /\ UNCHANGED <<durable, work>>
          ELSE SaveAndGo(r, [work EXCEPT !.proof = p, !.status = "validating",
                                !.outpoint = IF IsBlind(work) THEN @ ELSE Paid(p.tx)],
                         "validate")
       /\ UNCHANGED <<recovery, known, proxy, chain, expired>>

\* consignment.get; a payment of an expired or cancelled invoice goes to review,
\* an entry that cannot be read is an error and will be fetched again
Fetch(r) ==
    LET p == slots[work.slot]
        detected == [work EXCEPT !.proof = p,
                                 !.outpoint = IF IsBlind(work) THEN @ ELSE Paid(p.tx)]
        late == r \in expired \/ work.status = "cancelled"
    IN /\ At(r, "fetch")
       /\ \/ p \notin Readable /\ Goto("save") /\ UNCHANGED <<durable, work>>
          \/ /\ p \in Readable /\ ~IsBlind(work) /\ p.kind = "no_vout"
             /\ work' = [work EXCEPT !.proof = p]   \* "proxy vout missing"
             /\ Goto("save") /\ UNCHANGED durable
          \/ /\ p \in Readable /\ (IsBlind(work) \/ p.kind # "no_vout")
             /\ IF late
                THEN SaveAndGo(r, [detected EXCEPT !.status = "needs_review"], "save")
                ELSE SaveAndGo(r, [detected EXCEPT !.status = "validating"], "validate")
       /\ UNCHANGED <<recovery, known, proxy, chain, expired>>

\* RGB validation accepts the transfer, and its output is the invoice's
Accepted(rec) == rec.proof.kind \in {"good", "no_vout"}

\* the coin under a blind seal is still the account's
SealHolds(r, rec) == IsBlind(rec) => owned_unspent(AccountOf[r], rec.outpoint)

\* faulty variant: a resolver or chain error is answered like a wrong proof
Validate_Harsh(r) ==
    /\ At(r, "validate")
    /\ IF Accepted(work) /\ SealHolds(r, work)
       THEN SaveAndGo(r, [work EXCEPT !.status = "waiting_confirmations",
                                      !.delivery = "validated"], "post_ack")
       ELSE Goto("nack") /\ UNCHANGED <<durable, work>>
    /\ UNCHANGED <<recovery, known, proxy, chain, expired>>

\* the checks against the invoice, some before and some after the blind coin is
\* looked up; reject saves its verdict before the NACK, while a transfer that
\* preview_external_rgb_receive refuses is an error and will be validated again
Validate(r) ==
    /\ At(r, "validate")
    /\ \/ /\ work.proof.kind = "bad"
          /\ SaveAndGo(r, [work EXCEPT !.status = "needs_review"], "nack")
       \/ /\ Accepted(work) /\ SealHolds(r, work)
          /\ SaveAndGo(r, [work EXCEPT !.status = "waiting_confirmations",
                                       !.delivery = "validated"], "post_ack")
       \/ /\ work.proof.kind = "invalid" \/ ~SealHolds(r, work)
          /\ Goto("save") /\ UNCHANGED <<durable, work>>
    /\ UNCHANGED <<recovery, known, proxy, chain, expired>>

\* ack.post: the proxy keeps a slot's first answer
Answered(slot, value) == [acks EXCEPT ![slot] = IF @ = "none" THEN value ELSE @]

PostNack(r) ==
    /\ At(r, "nack")
    /\ acks' = Answered(work.slot, "nack")
    /\ Goto("save")
    /\ UNCHANGED <<durable, work, recovery, known, slots, chain, expired>>

\* ack.post true, then ack.get must read true
PostAck(r) ==
    /\ At(r, "post_ack")
    /\ acks' = Answered(work.slot, "ack")
    /\ Goto(IF acks'[work.slot] = "ack" THEN "save_ack" ELSE "save")
    /\ UNCHANGED <<durable, work, recovery, known, slots, chain, expired>>

SaveAck(r) ==
    /\ At(r, "save_ack")
    /\ SaveAndGo(r, [work EXCEPT !.ack = "ack"], "confirm")
    /\ UNCHANGED <<recovery, known, proxy, chain, expired>>

\* faulty variant: the output is credited without accepting its consignment
Confirm_Unaccepted(r) ==
    /\ At(r, "confirm")
    /\ Goto(IF Deep(work.proof.tx) THEN "credit" ELSE "save")
    /\ UNCHANGED <<durable, work, recovery, known, proxy, chain, expired>>

Confirm(r) ==
    /\ At(r, "confirm")
    /\ Goto(IF Deep(work.proof.tx) THEN "accept" ELSE "save")
    /\ UNCHANGED <<durable, work, recovery, known, proxy, chain, expired>>

\* stores the blind secret and accepts the consignment into the stock
Accept(r) ==
    /\ At(r, "accept")
    /\ alloc' = alloc \cup Arriving(work.outpoint)
    /\ Goto("credit")
    /\ UNCHANGED <<ops, reserved, utxos, pend, legacy, work, recovery, known, proxy, chain, expired>>

-----------------------------------------------------------------------------
(* Calls that go wrong.                                                    *)

\* an error before any effect: a refused call or no answer
CallFails(x) ==
    /\ lock = x
    /\ pc \in {"finish", "upload", "broadcast", "observe", "stage", "replay",
               "recheck", "fetch", "validate", "nack", "post_ack", "confirm", "accept"}
    /\ Goto("save")
    /\ UNCHANGED <<durable, work, recovery, known, proxy, chain, expired>>

\* the peer did what it was asked, but the reply, or the second of two calls,
\* is lost: advance returns an error and only what it stored in r is saved
ReplyLost(x) ==
    /\ lock = x
    /\ \/ /\ x \in Sends /\ pc = "upload"
          /\ slots' = Stored(work.slot, work.proof)
          /\ UNCHANGED <<work, acks, chain>>
       \/ /\ x \in Sends /\ pc = "broadcast" /\ Relayed(x)
          /\ seen' = seen \cup {x}
          /\ posted' = IF x \in seen THEN posted ELSE posted \cup {x}
          /\ UNCHANGED <<work, proxy, depth, foreign>>
       \/ /\ x \in Sends /\ pc = "observe"
          /\ work' = [work EXCEPT !.ack = acks[work.slot]]
          /\ UNCHANGED <<proxy, chain>>
       \/ /\ x \in Receives /\ pc = "post_ack"
          /\ acks' = Answered(work.slot, "ack")
          /\ UNCHANGED <<work, slots, chain>>
    /\ Goto("save")
    /\ UNCHANGED <<durable, recovery, known, expired>>

-----------------------------------------------------------------------------
(* scan_pending_rgb_stocks: between two engine scans, and without the      *)
(* mutation lock, the scanner thread promotes what a crash left staged.    *)

\* mark_account_utxos_confirmed_for_txids
mark_confirmed(a, txids) ==
    [o \in Outpoints |->
        IF /\ OwnedBy(a, o) /\ utxos[o] = "unconfirmed"
           /\ \E t \in txids : o \in {Change(t), Paid(t)}
        THEN "confirmed" ELSE utxos[o]]

RecoveryReplay(t) ==
    /\ lock = None /\ promoting = None
    /\ \E a \in dirs : t \in Promotable(a)
    /\ replay_pending(t)
    /\ UNCHANGED <<holder, known, proxy, chain, expired>>

RecoveryMark(t) ==
    /\ promoting = t /\ pc # "mark_promoted" /\ pend[t] = "none"
    /\ mark_promoted(t)
    /\ UNCHANGED <<utxos, holder, recovery, known, proxy, chain, expired>>

RecoveryTrack(t) ==
    /\ promoting = t /\ pc # "mark_promoted" /\ pend[t] = "confirmed"
    /\ utxos' = mark_confirmed(AccountOf[t], {t})
    /\ promoting' = None
    /\ UNCHANGED <<ops, reserved, alloc, pend, legacy, holder, dirs, known, proxy, chain, expired>>

\* a visited account with nothing staged is dropped until it is found again
Unregister(a) ==
    /\ lock = None /\ promoting = None
    /\ a \in dirs /\ ~has_active_pending(a)
    /\ dirs' = dirs \ {a}
    /\ UNCHANGED <<durable, holder, promoting, known, proxy, chain, expired>>

-----------------------------------------------------------------------------
(* Asset and balance queries: they take no lock and clean account_utxos.   *)

AccountUtxos(a, tracked) == {o \in Outpoints : OwnedBy(a, o) /\ tracked[o] # "absent"}

\* reconcile_account_utxo_confirmations, then filter_unspent_account_utxos
account_rgb20_utxos(a) ==
    LET promoted == {s \in Sends : AccountOf[s] = a /\ pend[s] = "confirmed"}
        tracked == mark_confirmed(a, promoted)
    IN [o \in Outpoints |->
           IF OwnedBy(a, o) /\ tracked[o] = "confirmed" /\ Spent(o)
           THEN "absent" ELSE tracked[o]]

QueryList(a) ==
    /\ a \in Queried
    /\ utxos' = account_rgb20_utxos(a)
    /\ known' = [known EXCEPT ![a] = AccountUtxos(a, utxos')]
    /\ UNCHANGED <<ops, reserved, alloc, pend, legacy, holder, recovery, proxy, chain, expired>>

\* list_assets and balance_breakdown drop what the stock has no allocation on
QueryClean(a) ==
    /\ known[a] # {}
    /\ utxos' = [o \in Outpoints |-> IF o \in known[a] \ alloc THEN "absent" ELSE utxos[o]]
    /\ known' = [known EXCEPT ![a] = {}]
    /\ UNCHANGED <<ops, reserved, alloc, pend, legacy, holder, recovery, proxy, chain, expired>>

-----------------------------------------------------------------------------
(* The environment: other wallets, the chain, time, and crashes.           *)

PeerPost(slot, p) ==
    /\ slots[slot] = None
    /\ p.tx \in PeerTxs
    /\ \A a \in Accounts :
          slot = WitnessSlot(a) /\ p.kind \notin {"bad", "unreadable"} => PayeeOf[p.tx] = a
    /\ slots' = [slots EXCEPT ![slot] = p]
    /\ UNCHANGED <<durable, holder, recovery, known, acks, chain, expired>>

PeerAnswer(slot, value) ==
    /\ slots[slot] # None /\ acks[slot] = "none"
    /\ acks' = [acks EXCEPT ![slot] = value]
    /\ UNCHANGED <<durable, holder, recovery, known, slots, chain, expired>>

\* a peer's carrier, or a PSBT the wallet was given and signed, is published
Publish(t) ==
    /\ t \notin seen
    /\ t \in Sends => ops[t].proof # None /\ \A o \in ops[t].inputs : Spendable(o)
    /\ seen' = seen \cup {t}
    /\ UNCHANGED <<durable, holder, recovery, known, proxy, depth, posted, foreign, expired>>

\* the carriers whose outputs carrier t spends
ParentsOf(t) ==
    IF t \in Sends
    THEN {u \in Txs : {Change(u), Paid(u)} \cap ops[t].inputs # {}}
    ELSE {}

Mine(t) ==
    /\ t \in seen /\ ~Deep(t)
    /\ \A u \in ParentsOf(t) : depth[u] > 0
    /\ depth' = [depth EXCEPT ![t] = @ + 1]
    /\ UNCHANGED <<durable, holder, recovery, known, proxy, seen, posted, foreign, expired>>

\* the blocks of T are replaced; T holds what spends an output of T
Reorg(T) ==
    /\ T # {} /\ \A t \in T : depth[t] > 0
    /\ \A t \in Txs : depth[t] > 0 /\ ParentsOf(t) \cap T # {} => t \in T
    /\ depth' = [t \in Txs |-> IF t \in T THEN 0 ELSE depth[t]]
    /\ UNCHANGED <<durable, holder, recovery, known, proxy, seen, posted, foreign, expired>>

\* an unconfirmed carrier that nothing spends leaves the mempool
Evict(t) ==
    /\ t \in seen /\ depth[t] = 0
    /\ \A u \in seen : t \notin ParentsOf(u)
    /\ seen' = seen \ {t}
    /\ UNCHANGED <<durable, holder, recovery, known, proxy, depth, posted, foreign, expired>>

ForeignSpend(o) ==
    /\ o \in ForeignCoins /\ ~Spent(o)
    /\ foreign' = foreign \cup {o}
    /\ UNCHANGED <<durable, holder, recovery, known, proxy, seen, depth, posted, expired>>

Expire(x) ==
    /\ Exists(x) /\ x \notin expired
    /\ expired' = expired \cup {x}
    /\ UNCHANGED <<durable, holder, recovery, known, proxy, chain>>

\* the process dies; what is not in Fjall is gone, and the restarted daemon
\* finds the accounts with staged operations again (discover_pending_stock_dirs)
Crash ==
    /\ Release
    /\ promoting' = None
    /\ dirs' = {a \in Accounts : has_active_pending(a)}
    /\ known' = [a \in Accounts |-> {}]
    /\ UNCHANGED <<durable, proxy, chain, expired>>

-----------------------------------------------------------------------------

Init ==
    /\ ops = [x \in Ops |-> Absent]
    /\ reserved = [o \in Outpoints |-> None]
    /\ utxos = [o \in Outpoints |-> IF o \in RgbCoins THEN "confirmed" ELSE "absent"]
    /\ alloc = RgbCoins
    /\ pend = [s \in Sends |-> "none"]
    /\ legacy = {}
    /\ lock = None /\ work = Absent /\ pc = "idle"
    /\ promoting = None /\ dirs = {}
    /\ known = [a \in Accounts |-> {}]
    /\ slots = [i \in Slots |-> None]
    /\ acks = [i \in Slots |-> "none"]
    /\ seen = {} /\ posted = {} /\ foreign = {} /\ expired = {}
    /\ depth = [t \in Txs |-> 0]

Client ==
    \/ \E r \in Receives, blind \in Outpoints \cup {None} : Receive(r, blind)
    \/ \E s \in Sends, inputs \in SUBSET Outpoints, slot \in Slots : Prepare(s, inputs, slot)
    \/ \E s \in Sends : Finalize(s)
    \/ \E x \in Ops : Cancel(x)
    \/ \E a \in Accounts : LegacyPrepare(a) \/ QueryList(a) \/ QueryClean(a)

SendStep(s) ==
    \/ finish_preparation(s) \/ upload(s) \/ SaveDelivered(s) \/ MarkUnknown(s)
    \/ broadcast(s) \/ SaveBroadcast(s) \/ Observe(s)
    \/ stage_sender_fascia(s) \/ Promote(s) \/ MarkPromoted(s)

ReceiveStep(r) ==
    \/ Fetch(r) \/ Validate(r) \/ PostNack(r) \/ PostAck(r) \/ SaveAck(r)
    \/ Confirm(r) \/ Accept(r)

\* what the holder of the lock does when its calls are answered
HolderStep(x) ==
    \/ x \in Sends /\ SendStep(x)
    \/ x \in Receives /\ ReceiveStep(x)
    \/ credit(x) \/ Recheck(x) \/ ScanSave(x)

RecoveryStep(s) == RecoveryReplay(s) \/ RecoveryMark(s) \/ RecoveryTrack(s)

World ==
    \/ \E slot \in Slots, p \in Proofs : PeerPost(slot, p)
    \/ \E slot \in PeerSlots, value \in {"ack", "nack"} : PeerAnswer(slot, value)
    \/ \E t \in Txs : Publish(t) \/ Mine(t)
    \/ \E x \in Ops : Expire(x)

Fault ==
    \/ Crash
    \/ \E x \in Ops : CallFails(x) \/ ReplyLost(x)
    \/ \E T \in SUBSET Txs : Reorg(T)
    \/ \E t \in Txs : Evict(t)
    \/ \E o \in ForeignCoins : ForeignSpend(o)

Next ==
    \/ Client
    \/ \E x \in Ops : Scan(x) \/ HolderStep(x)
    \/ \E s \in Sends : RecoveryStep(s)
    \/ \E a \in Accounts : Unregister(a)
    \/ World
    \/ Fault

Spec == Init /\ [][Next]_vars

\* The scanner thread never stops and serves operations in the order of their
\* retry times, so no eligible one is passed over for ever; the holder of the
\* lock runs on; a carrier the chain server knows gets its next confirmation.
\* Crashes, failing calls, reorganisations and evictions come to an end: from
\* some point on, a step that could be one of them is a step of the holder.
Fairness ==
    /\ \A x \in Ops : SF_vars(Scan(x)) /\ WF_vars(HolderStep(x))
    /\ \A s \in Sends : WF_vars(RecoveryStep(s))
    /\ \A t \in Txs : WF_vars(Mine(t))
    /\ <>[][Fault => \E x \in Ops : HolderStep(x)]_vars

FairSpec == Spec /\ Fairness

-----------------------------------------------------------------------------
(* Properties.                                                             *)

\* Every variable keeps its type: the keyspaces hold records, operation ids
\* and tracked outputs, and the holder of the lock is an operation or nobody.
TypeOK ==
    /\ ops \in [Ops -> Records]
    /\ reserved \in [Outpoints -> Ops \cup {None}]
    /\ utxos \in [Outpoints -> {"absent", "unconfirmed", "confirmed"}]
    /\ alloc \subseteq Outpoints
    /\ pend \in [Sends -> {"none", "staged", "confirmed"}]
    /\ legacy \subseteq Accounts
    /\ lock \in Ops \cup {None} /\ work \in Records /\ pc \in Steps
    /\ promoting \in Sends \cup {None} /\ dirs \subseteq Accounts
    /\ known \in [Accounts -> SUBSET Outpoints]
    /\ slots \in [Slots -> Proofs \cup {None}]
    /\ acks \in [Slots -> Answers]
    /\ seen \subseteq Txs /\ depth \in [Txs -> Nat]
    /\ posted \subseteq Sends /\ foreign \subseteq Coins /\ expired \subseteq Ops

\* A receive holds its blind outpoint until credit; a send holds its inputs
\* for ever, since the wallet may have signed the PSBT it was given.
Holds(x) == x \in Sends \/ ~(ops[x].status = "settled" \/ ops[x].quarantine)

\* Whatever the interleaving of requests, scans, failures and crashes, the
\* inputs of an operation that may still spend or fill them are reserved to it.
InputsReserved ==
    \A x \in Ops : Holds(x) => \A o \in ops[x].inputs : reserved[o] = x

\* No output is committed to two operations: two PSBTs handed to wallets never
\* conflict, and no send spends the output under another invoice's blind seal.
NoDoubleSpend ==
    \A x, y \in Ops : x # y /\ Holds(x) /\ Holds(y)
                        => ops[x].inputs \cap ops[y].inputs = {}

\* A carrier the daemon published is one whose signature is stored, whose
\* proof the recipient can fetch, and whose record admits it may be public,
\* also after a crash at any point: a lost record could lead to a second try
\* with another transaction, a missing proof to a payment nobody can accept.
ProvenBeforeBroadcast ==
    \A s \in posted : /\ ops[s].signed
                      /\ ops[s].delivery = "delivered"
                      /\ ops[s].broadcast # "not_started"
                      /\ slots[ops[s].slot] = ProofOf(s)

\* Two sends for one invoice are never both published by the daemon: the
\* proxy slot keeps one consignment and upload refuses the other operation.
OnePaymentPerInvoice ==
    \A s, t \in posted : ops[s].slot = ops[t].slot => s = t

\* The output of an operation is in account_utxos, or was, or is under review.
Credited(x) == ops[x].status \in {"settled", "needs_review"}

\* The operation x has brought the output o to the account's balance.
BroughtBy(x, o) == Credited(x) /\ o = OutpointOf(x, ops[x])

\* A tracked output of an account is backed by its stock: it carries an
\* allocation, or a send has moved it that credit has still to take off the
\* inputs of.  A crash between stock and credit leaves no unbacked balance.
\* Only an output that an operation brought may outlast the send that moved
\* it: its own credit can come later than that send's (see InputsSettled).
BalanceBacked ==
    \A o \in Outpoints : utxos[o] # "absent" =>
        \/ o \in alloc
        \/ \E s \in Sends :
              /\ o \in ops[s].moves
              /\ Credited(s) => \E x \in Ops : BroughtBy(x, o)

\* The payer reads ACK only for a payment whose proof passed every check and
\* is stored, and which review does not hold (short of a reorganisation); it
\* reads NACK only for a payment that is held for review.
AnswerMatchesRecord ==
    \A r \in Receives : Exists(r) =>
        /\ acks[ops[r].slot] = "ack" =>
              /\ ops[r].delivery = "validated"
              /\ ops[r].status = "needs_review" => ops[r].quarantine
        /\ acks[ops[r].slot] = "nack" => ops[r].status = "needs_review"

\* An account is never served by both protocols: direct sends do not consult
\* the engine's reservations, so neither may start where the other has begun.
LegacyExclusion == \A a \in legacy : OpsOf(a) = {}

\* Verdicts stand: review is left to an operator, a settled operation is only
\* ever frozen, a cancelled invoice is never credited by a late payment, and a
\* stored signature is never forgotten.
VerdictsStand ==
    [][\A x \in Ops :
        /\ ops[x].status = "needs_review" => ops'[x].status = "needs_review"
        /\ ops[x].status = "settled" => ops'[x].status \in {"settled", "needs_review"}
        /\ ops[x].status = "cancelled" => ops'[x].status \in {"cancelled", "needs_review"}
        /\ ops[x].signed => ops'[x].signed]_vars

\* Another consignment holds the slot, an input was spent elsewhere or lost its
\* own carrier, or the carrier was dropped after its broadcast was recorded.
SlotTaken(s) == Exists(s) /\ slots[ops[s].slot] \notin {None, ProofOf(s)}
InputLost(s) == \E o \in ops[s].inputs : o \in foreign \/ ~Created(o)
Dropped(s)   == ops[s].broadcast = "broadcast" /\ s \notin seen

\* A finalized payment ends: however often the process died and calls failed
\* before, it is settled or put under review, unless it lost its slot or an
\* input, or its carrier was dropped after the broadcast was recorded.
SendResolves ==
    \A s \in Sends :
        ops[s].signed ~> \/ ops[s].status \in {"settled", "needs_review"}
                         \/ SlotTaken(s) \/ InputLost(s) \/ Dropped(s)

Delivered(r) == Exists(r) /\ slots[ops[r].slot] # None

\* What was delivered can be read and is a valid transfer.
ValidDelivery(r) ==
    /\ Delivered(r)
    /\ slots[ops[r].slot].kind \notin {"invalid", "unreadable"}
    /\ slots[ops[r].slot].kind = "no_vout" => IsBlind(ops[r])

\* Its carrier is on the chain, and the coin under the blind seal unspent.
Payable(r) ==
    /\ Delivered(r)
    /\ slots[ops[r].slot].tx \in seen
    /\ \A o \in ops[r].inputs : ~Spent(o)

\* A delivered payment is not forgotten: once the slot of an invoice holds a
\* consignment that can be read and passes RGB validation, the invoice is
\* credited or, when the consignment is for something else or came too late,
\* put under review; unless the carrier is not on the chain, or the coin under
\* the blind seal is spent.
ReceiveResolves ==
    \A r \in Receives :
        ValidDelivery(r) ~> ops[r].status \in {"settled", "needs_review"} \/ ~Payable(r)

-----------------------------------------------------------------------------
(* What the documents and messages say, and the code does not do.          *)

\* A finalized payment whose slot and inputs are its own ends, also when the
\* carrier leaves the mempool: the outbox retries the same transaction.
EvictedSendResolves ==
    \A s \in Sends :
        ops[s].signed ~> \/ ops[s].status \in {"settled", "needs_review"}
                         \/ SlotTaken(s) \/ InputLost(s)

\* "Deterministic validation failures are not retried without end": what is
\* delivered for a payable invoice ends in a credit or a review, also when it
\* cannot be read or RGB validation refuses it.
InvalidIsReviewed ==
    \A r \in Receives :
        Delivered(r) ~> ops[r].status \in {"settled", "needs_review"} \/ ~Payable(r)

\* Each RGB output that another operation of the engine creates is moved by
\* the fascia of the send that spends it ("RGB input has not completed daemon
\* settlement" otherwise).
AllocationsMoved ==
    \A s \in Sends, x \in Ops :
        ops[s].proof # None /\ Exists(x) /\ OutpointOf(x, ops[x]) \in ops[s].inputs
            => OutpointOf(x, ops[x]) \in ops[s].moves

\* A send moves the output of another operation only after that one is
\* settled: "RGB input has not completed daemon settlement" otherwise.
InputsSettled ==
    \A s \in Sends, x \in Ops :
        OutpointOf(x, ops[x]) \in ops[s].moves => Credited(x)

\* A confirmed payment the peer rejected is under review, also after a crash.
RejectedIsReviewed ==
    \A s \in Sends : lock # s /\ ops[s].status = "settled" => ops[s].ack # "nack"

\* A preparing send, which has not returned a PSBT, can be cancelled.
PreparingCancellable ==
    \A s \in Sends : lock = None /\ ops[s].status = "preparing" => ENABLED Cancel(s)

\* A payment that reaches a cancelled invoice is under explicit review.
LatePaymentReviewed ==
    \A r \in Receives : ops[r].status = "cancelled" => ops[r].proof = None

\* Balance queries do not clean away what an open send has reserved.
ReservedInputsKept ==
    \A s \in Sends : ops[s].status \notin {"settled", "needs_review"}
        => \A o \in ops[s].moves : utxos[o] # "absent"

=============================================================================
