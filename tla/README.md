# Verification of rgb-service

`rgb-service` is a daemon that keeps RGB assets for Bitcoin accounts. Wallets
keep the keys: they hand the daemon an unsigned Bitcoin transaction (the
*carrier*), the daemon commits RGB state transitions to it, the wallet signs.
The repository also holds a *console*, a Lightning node with an on-chain hot
wallet, on a fork of LDK whose channels carry an RGB balance. This directory
holds TLA+ models of the daemon, of an RGB channel and of the hot wallet, the
TLC configurations that check them, and proofs checked by TLAPS. Paths below are
relative to `src/crates/`.

## 1. The system

### Components, their state and their operations

| component | source | state | operations |
| --- | --- | --- | --- |
| External RGB engine | `rgb-service-daemon/src/external.rs` | Fjall keyspaces: operations, artifacts, idempotency, reservations, accounts | Receive, Prepare, Finalize, Cancel, Refresh, Get, List over HTTP; a background scan that delivers, broadcasts, validates, acknowledges, confirms, credits and rechecks |
| Recovery scanner, promotion of staged RGB state | `rgb-service-daemon/src/main.rs` 2095-2210, `rgb-service-local/src/lib.rs` 237-399, 1483-1551, 1817-1867 | staged operations and pending statuses beside each account's stock; a set of directories to visit | stage, replay into the stock, mark confirmed, register and unregister |
| Account UTXO tracking and queries | `main.rs` 2218-2445, 3941-4211 | `account_utxos`: outpoint and confirmed flag per account | reconcile with promoted carriers, drop spent outputs, drop outputs without allocation |
| Direct-send transfers | `main.rs` 4213-4364 | `prepared_transfers`; what a commit stages in both accounts | prepare, commit, cancel |
| LN channel composition | `main.rs` 4402-4900 | channel records | open, update, close |
| Daemon RNA ledger, profiles | `main.rs` | credits per account | credit, debit |
| Stake redeem and import | `rgb-service-daemon/src/stake_import.rs` | import reports | offline import |
| Legacy API | `rgb-service-daemon/src/legacy.rs` | the same store | transfer/psbt, callback, cancel without the mutation lock; queries; stake and redeem endpoints |
| Local RGB store | `rgb-service-local/src/lib.rs` | stock per account, confirmation cache | issue, transfer, accept, resolve |
| HTTP API | `rgb-service-api/src` | none | authentication and dispatch |
| Coloring | `rgb-coloring/src` | none | pure construction of colored transactions |
| RGB channel | `ln-rgb-lightning/src/ln/channel.rs`, driven by `ln/channelmanager.rs`; `rgb.rs` | HTLCs with their states, the holding cell, the balances, commitment numbers, what a monitor update holds back | send, claim, fail back, close; a handler per peer message; completion of monitor updates; disconnection and reestablishment |
| Console LN hot wallet | `zust-console/src/ln_rgb_btc_ln_backend.rs`, `local_wallet.rs`, `wallet_electrum_sync.rs`, `withdrawal_attempt.rs` | one BDK store with a write lock, a sync marker file, the log | BTC withdrawal (single, batch), RGB withdrawal, channel funding, sync |
| Console channel opening | `ln_rgb_btc_ln_backend.rs` 2750-3110, 4231-4411 | funding bindings | fund, bind, confirm, attach, reconcile |
| Console deposit sweeps, modules | `zust-console/src/deposit_sweep_batch.rs`, `modules.rs` | none | planning, scripting bindings, HTTP |
| Vendored forks | the rest of `ln-rgb-lightning`, `rgb-aluvm`, `rgb-consensus`, `rgb-ops`, `rgb-schemas`, `rgb-api` | | third-party |

### How the parts interact

The `/v1` write handlers (issue, prepare, commit and cancel transfer, the
channel operations), the engine's requests and each single operation of the
engine's scan take one mutex, the *mutation lock* (`external_mutation`).
Queries and the recovery scan do not, and neither do the legacy handlers
(legacy.rs 1768-1963, 2338-2429, 2478-2492); the daemon refuses to start with
both the engine and the legacy API (main.rs:1963). One scanner thread
runs the recovery scan and the engine's scan in turn. The recovery scan
visits the directories in `pending_stock_dirs`, a set in memory that commits
add to, the scan removes from, and a restart rebuilds from the store. The engine talks to two
outside parties by HTTP, an RGB *proxy* that keeps one consignment and one
answer per recipient id (a *slot*), and an Esplora *chain server*; both calls
may fail, and either may have done its work when the reply is lost. The engine
writes two stores that no transaction spans: Fjall, and the account's RGB
stock. A direct commit writes two accounts, one transaction at a time.

In the console, LDK calls the RGB daemon to compose commitments, and asks the
backend for funding transactions by events. Payments of three kinds take coins
from one BDK store: each opens it under a write lock, synchronizes with an
Electrum or Esplora server, selects and signs, and hands the transaction to a
node itself (withdrawals) or to LDK (fundings). The two ends of a channel talk over an
ordered connection that may be lost with what is in flight; LDK lets an answer out only
when the channel monitor's update is durable.

### What is hard

A payment passes through six durable stages, and the process may die between
any two of them; a direct commit stages two accounts in turn while the scanner
promotes and unregisters them; a proxy or a chain server can do what it was asked and not
say so; blocks are replaced after an output was credited; queries delete
tracked outputs without the lock; two protocols (direct sends and the engine)
spend the same accounts. The properties that make the engine correct are: an
output is committed to one operation; nothing is published before its proof is
deliverable and its record says so; the tracked balance is backed by the
stock; the answer given to a payer agrees with the record; verdicts stand; what
was signed or delivered ends. For direct sends: what a commit answered for is
never lost on either side, is promoted once its carrier confirms, spends no
coin that another promoted transfer spends unless a reorganisation decides so, stays out of the engine's
accounts, and does not happen after a cancellation.

In a channel the two ends hold different views of one balance and revise them at
different messages; each may forget what the other has not committed to when
the connection drops, and must then repeat exactly what is missing, in the
order it was first sent, while its own disk may be late. It is correct when the
two never disagree so that one must go on chain, when RGB moves once per claimed payment
and when every payment ends. In the hot wallet, an error after a broadcast says
nothing: a customer must be paid once although calls are repeated, and coins of
a transaction that may be out must not be spent again. `PROJECT.json` lists each hazard at its line with
the properties that look for it.

## 2. Modules

| module | content |
| --- | --- |
| `ExternalRgb` | the engine, the proxy, the chain, the recovery scan and the queries that share its state; fairness; the properties |
| `MCExternalRgb` | the instances for TLC |
| `ExternalRgbProofs` | types, reservations and the exclusion of the two protocols; the life of a record: verdicts, publication, answers; the tracked balance and the stock |
| `DirectTransfer` | direct sends (`/v1` and legacy), the recovery scanner, the asset queries, the engine's claim of an account, the chain, restarts; fairness; the properties |
| `MCDirectTransfer` | the instances for TLC |
| `DirectTransferProofs` | its inductive invariant and theorems |
| `IdealChannel` | what a channel promises: a ledger of two balances and payments that are offered, claimed or returned |
| `RgbChannel` | the two ends of a channel, the connection, the users; fairness; the properties; the mapping to `IdealChannel` |
| `MCRgbChannel` | the instances for TLC |
| `RgbChannelLemmas` | what the folds of the community modules compute (sums over finite sets, folds over sequences); the inductive invariant of the ids and decisions, and what each piece of the channel's methods keeps |
| `RgbChannelProofs` | one lemma per action, the theorems on balances and outcomes, the refinement of `IdealChannel` |
| `RgbChannelDance` | the relations between the two nodes and the messages on their way, and what each kind of change does to them |
| `RgbChannelDanceProofs` | one lemma per action: an open channel keeps the two nodes in step |
| `RgbChannelCloseProofs` | what the users are owed, who may offer to close, and the theorems that hold to the end of the channel |
| `HotWallet` | the console's hot wallet, its callers, the node, crashes; the properties |
| `MCHotWallet` | the instance for TLC |
| `HotWalletProofs` | its inductive invariants and theorems |

`ExternalRgb` sees the recovery scan from the engine's side: the pending entries
are the engine's sends, and direct sends are one flag per account.
`DirectTransfer` sees the same loop from the side of direct sends, with the
registry, the sorted list of txids and every transaction of the replay, and
the engine is a set of accounts.

### `ExternalRgb`: state

| variable | in the code |
| --- | --- |
| `ops` | `external_rgb_operations_v1` and its artifacts (`Record`, external.rs:233) |
| `reserved` | `external_rgb_reservations_v1` |
| `utxos` | `account_utxos` (`TrackedUtxo.confirmed`) |
| `alloc` | the outputs on which the account's stock lists allocations |
| `pend` | staged fascia and pending status of a carrier (`put_pending_operation`, `put_pending_status`) |
| `legacy` | accounts with entries in `prepared_transfers` |
| `lock`, `work`, `pc` | who holds the mutation lock, the record it works on (`r`), the statement it has reached |
| `promoting`, `dirs` | where a promotion loop stands; `pending_stock_dirs` |
| `known` | the list of outputs a query has read and not yet cleaned |
| `slots`, `acks` | the proxy |
| `seen`, `depth`, `posted`, `foreign` | the chain: known carriers, confirmations, what this daemon posted, what was spent elsewhere |
| `expired` | operations past `expires_at` |

A record keeps the fields the control depends on: `status`, `inputs`, `slot`
(recipient_id), `signed` (signed_hex), `delivery`, `broadcast`, `ack`, `proof`,
`outpoint` (receive_outpoint), `quarantine`, and `moves`, the inputs whose
allocations the stored fascia spends. Amounts, contracts, keys, signatures and
PSBT bytes are left out. What the proxy holds for an invoice is

* *good*: a valid transfer to the invoice;
* *bad*: no consignment, or one of another contract, output, seal or amount;
  `reject` records the verdict and answers NACK;
* *invalid*: it meets the invoice, but `preview_external_rgb_receive` refuses it
  (rgb-service-local/src/lib.rs 1258-1275): an error, and the proof, already
  stored, is validated again at every later scan;
* *unreadable*: too large, or a field that does not decode (external.rs
  1458-1465): an error before anything is stored, and it is fetched again at
  every later scan;
* *no_vout*: valid, but the entry lacks the output index.

These errors are permanent (`Fetch`, `Validate`); those of a network call that may
succeed later are `CallFails`. A send's carrier is named by its operation: `Change(s)` is its
change output, `Paid(s)` the recipient's output.

### `ExternalRgb`: actions

One step is what happens between two points where a crash leaves a trace: one
committed transaction, or one call to a peer.

* Requests: `Receive`, `Prepare` followed by `finish_preparation`, `Finalize`,
  `Cancel`. `replay` (the idempotency key) is `~Exists(x)`: a repeated request
  returns the stored record and changes nothing. `Refresh` resets a retry time
  and `Get`/`List` only read, so they are stuttering steps here.
* Scan: `Scan` takes the lock, loads the record and enters where `advance`
  would; `ScanSave` is the save at the end of `scan_operations`, which happens
  after success and after every error.
* `advance_send`: `upload`, `SaveDelivered`, `MarkUnknown`, `broadcast`,
  `SaveBroadcast`, `Observe`, `stage_sender_fascia`, `Promote`,
  `MarkPromoted`, `credit`.
* `advance_receive`: `Fetch`, `Validate`, `PostNack`, `PostAck`, `SaveAck`,
  `Confirm`, `Accept`, `credit`. `Recheck` is the settled branch of `advance`.
* Failures: `CallFails` (no effect), `ReplyLost` (effect, no reply), `Crash`
  at any point, also when no request runs.
* Recovery scan: `RecoveryReplay`, `RecoveryMark`, `RecoveryTrack`,
  `Unregister`. A carrier is promoted when it has one confirmation, while the
  engine credits at `RequiredConfirmations`; both are modelled.
* Queries: `QueryList` reads and reconciles, `QueryClean` deletes from the list
  read earlier. They interleave with everything.
* Environment (external): `PeerPost`, `PeerAnswer`, `Publish`, `Mine`, `Reorg`,
  `Evict`, `ForeignSpend`, `Expire`. `Publish` of a send is the wallet
  broadcasting the PSBT it was given and signed, with or without `Finalize`.

Abstractions to know of. `finish_preparation` fails for "no allocation to move"
in the model and for more reasons in the code; all end in the same save, which
`CallFails` covers. The promotion loop takes staged carriers in any order. Retry times and
the batch of 32 are left out: the scanner may take any eligible operation. The
comparison of the confirmed carrier with the validated one
(external.rs:1593-1607) compares bodies bound to the same txid and is taken to
succeed. The proxy keeps the first consignment and the first answer of a slot,
which is what `upload` and the read-back of the acknowledgement assume. The
stock is idempotent (`Consumed`, `Arriving`): consuming a fascia or accepting a
consignment a second time brings back nothing that a transition in the stock
has spent, which is what the comment at external.rs:1612 relies on.

### `DirectTransfer`: state

| variable | in the code |
| --- | --- |
| `prepared` | `prepared_transfers` |
| `op`, `status` | `rgb_pending_ops`, `rgb_pending_status`, per account and txid |
| `stock` | per account, the transfers its RGB stock has consumed or accepted |
| `tracked` | `account_utxos`: the paid and the change output of a transfer, with the confirmed flag |
| `external` | accounts with operations of the engine |
| `dirs` | `pending_stock_dirs`, in memory |
| `lock`, `commit` | the holder of the mutation lock; where each commit handler stands |
| `scan` | the scanner: accounts left, account visited, txids left, txid being replayed, txids promoted |
| `query` | per account, a query with the outputs it listed and those it found allocations on |
| `chain`, `handed` | carriers unknown, in the mempool or confirmed; PSBTs a wallet holds |
| `committed`, `cancelled` | history: requests answered with success |
| `reorged` | history: carriers that were confirmed and lost it |
| `overtaken` | history: accounts staged after the scan's last look there, and not registered since |

A transfer is named by its carrier's txid, a number, because the scanner takes
txids in sorted order. It has one recipient, other than the sender.

### `DirectTransfer`: actions

* Handlers: `Prepare` (by `PrepareDirect` or `PrepareLegacy`), `Cancel`,
  `BeginCommit` (`CommitDirect` takes the lock, `CallbackLegacy` does not), then
  one step per transaction or registration: `stage_sender_fascia`,
  `RegisterSender`, `stage_receiver_transfer`, `RegisterReceiver`,
  `TrackReceiver`, and `ReplyCommitted`, or `broadcast_legacy_tx` and
  `apply_legacy_signed_tx`. `CommitFails` is an error at any of them: what was
  written stays and the client may repeat the request.
* Scanner: `ScanStart`, `VisitAccount` reads the list of txids, then for each
  `SkipTerminal`, `LookUnconfirmed`, or `Promote`, `RemoveReplayed`,
  `ConfirmReplayed` (three transactions); `VisitFails` is the `?` that gives the
  account up; `VisitEnds`, `MarkPromoted`, `stock_has_active_pending` and
  `unregister_pending_stock_dir` end the visit.
* Queries: `account_rgb20_utxos`, `list_rgb20_assets_for_utxos`, `CheckPending`
  (legacy only), `remove_account_utxos`, each on what the one before has read.
* `ExternalClaim` is the engine's first operation on an account (`new_record`).
* Environment (external): `WalletBroadcast`, `Evict`, `Mine`, `Reorg`; `Crash` loses
  what is in memory and rebuilds `dirs`.

Constants choose which transfers are legacy, may fail (`Flaky`), be evicted,
lose their confirmation (`Reorgable`), be cancelled, never validate (`Broken`), or are stored under another account
of the same descriptor (`Aliased`); `ReportedAs` are the flags a client may
give the paid output; `Forgetful` says whether the chain server denies
outputs of carriers it does not know.

Abstractions to know of. The scanner promotes at one confirmation
(rgb-service-local/src/lib.rs 1524-1538) and an answer may come from the
cache. `LookUnconfirmed` is possible although the carrier is confirmed, and
`ReportedConfirmed` remains true of a carrier that lost its confirmation: the
code keeps such an answer for ten minutes (1919), the model without limit.
A replay that fails for whatever reason, a receiver's validation that resolves the
carrier anew included, is `VisitFails`. At any time the chain confirms at most
one of two conflicting carriers; over time, after `Reorg`, each of them. No guard in the
daemon looks for that, and there is none in the model.

### `RgbChannel`: state

| variable | in the code |
| --- | --- |
| `ch[n]` | the `FundedChannel` of node n: `inb`, `out` (pending_inbound_htlcs, pending_outbound_htlcs with their states), `cell` (holding_cell_htlc_updates), `toSelf` (RgbContext.to_self), `awaitRaa`, `monBusy`, `disc`, `localShut`, `remoteShut` (flags of ChannelState), `pendRaa`, `pendCs`, `pendAdds`, `pendFails` (monitor_pending_*), `order` (resend_order), `nextId`, `nextCpId`, `holderNum`, `cpNum` (ids and commitment numbers, counted up from 0), `txs` (the commitments signed for this node), `expCs`, `feeSent`, `pendClosing`, and `fate`: open, closed, or the error that closed it |
| `net`, `conn`, `drops` | the messages under way to each node, in order; the connection; how often it was lost |
| `started`, `claimable`, `claimed`, `refused`, `told` | the users' view: what was sent, shown to the payee, decided, and reported to the payer (`PaymentSent`, `PaymentFailed`) |

A commitment is the record of its number, the balances and the HTLCs in it; a
signature is that record, and checking it is comparing it with the record the
receiver builds from its own state (`build_commitment_transaction`). So two
ends that disagree are found out, as in the code, by a bad signature, and the
asserts on the RGB sums (channel.rs 5585-5593) are a fate of their own.

### `RgbChannel`: actions

* Users: `SendPayment`, `ClaimFunds`, `FailBackwards`, `CloseChannel`.
* Messages: `UpdateAddHtlc`, `UpdateFulfillHtlc`, `UpdateFailHtlc`,
  `CommitmentSigned`, `RevokeAndAck`, `ChannelReestablish`, `ShutdownReceived`,
  `ClosingSigned`, and `MessageAfterClose` for a channel that is gone.
* The manager: `MonitorRestored` completes all updates in flight and lets out
  what they hold back; `FreeHoldingCells`, `ProposeClosing` and
  `AnswerDeferredClosing` are its timer.
* `Disconnect` loses what is in flight and runs
  `remove_uncommitted_htlcs_and_mark_paused` at both ends; `Reconnect` sends both
  reestablish messages. Noticing the loss at two moments adds nothing: a message
  from one connection is never delivered on the next.

Abstractions to know of. Satoshi limits may refuse an HTLC when it leaves the
holding cell (`tight`); there are no fee updates, since the console's fee
estimator is constant; `shutdown` needs no monitor update, since the console
commits to the script at opening. The console's persister is synchronous, and completion at
any later time covers that and the case LDK allows, in particular an update after a
revocation that waits for `PaymentSent` to be handled. A node restarts with a
current manager or not at all: an old one is the monitor's business, on chain.
An HTLC's payment is one hop, as `send_payment_along_path` demands for RGB.

### `HotWallet`: state and actions

| variable | in the code |
| --- | --- |
| `pc`, `answer` | where each call stands; what its caller can conclude (`ok`, `not_attempted`, `unknown`) |
| `inputs` | the coins a signed transaction spends |
| `lock`, `store`, `marker` | the BDK store's write lock; the store as persisted (what it has seen unconfirmed, `later`: which of those it saw later than which, and `conf`); `BDK_SYNC_CACHE_FILE` |
| `logged` | withdrawals past `before_signed_transaction_escape`, whose raw transaction is in the log |
| `posted`, `ldk` | handed to a node; accepted by `funding_transaction_generated` |
| `mempool`, `chain` | the network |
| `missed` | history: what some sync found gone |

* Withdrawal: `Open` or `OpenTimesOut`, `SyncWithdrawal`, `BuildWithdrawal`,
  `BroadcastRefused`, `Hold`, `Send`, `Answered`; every step has its failing branch, and
  `Evidence` says what the caller is told.
* RGB withdrawal: `SyncOrUseCached`, `BuildRgbTransfer`, `BroadcastRgbTransfer`,
  `CommitRgbTransfer`. The wallet is not told of the spend.
* Funding: `SyncOrUseCached`, `BuildFunding` (which frees the lock),
  `SubmitFunding`, `RecordFunding`, and `LdkBroadcast` when the peer has signed.
* `SyncUtxos`, `Crash`, and external: `NodeAccepts`, `NodeDrops`, `Confirms`.
  A logged transaction may reach the network although it was never posted.

A coin of the wallet is spent or not as BDK's canonical view has it (external): the
last seen of two conflicting transactions counts, a confirmed one always.
Reorganisations, servers that report incomplete histories (for which `sync`
evicts nothing) and descendants of an evicted transaction are left out. The
caller (external) repeats a request only on `not_attempted`, which is what
`withdrawal_attempt.rs` offers its evidence for.

## 3. Runs

The runs of `ExternalRgb` use one account (the reservations are global, and the only effect of
another account is a slot or an outpoint that the scan does not own).

| run | instance | result |
| --- | --- | --- |
| `sends` | two sends, an RGB coin and a plain coin that may be spent elsewhere, one peer invoice, direct sends, queries | passes, 765 000 states |
| `receives` | two invoices, one coin for a blind seal that may be spent elsewhere, one peer carrier with every kind of proof | passes, 3.2 million states |
| `send_live` | one send, a peer carrier that may take its slot, a coin that may be spent elsewhere, fairness | passes, 206 000 states |
| `receive_live` | one invoice, two required confirmations, every kind of proof, fairness | passes, 34 000 states |
| `rejected_settled` | one send | violated |
| `direct` | two direct sends of one coin from a to b, b may turn to the engine, one send may fail, be repeated, be evicted and be reorganised away | passes, 3.5 million states |
| `legacy` | one legacy transfer that may be cancelled, both kinds of query by the recipient, a forgetful chain server, one restart, fairness | passes, 348 000 states |
| `promoted` | two direct sends from a, the first to c, where it never validates, the other to b; the first may be evicted, fairness | passes, 126 000 states |
| `receipt_dropped` | one direct send, queries by the recipient | violated |
| `channel` | two payments there, one back out of what came, funding 4, two lost connections, nobody closes | passes, 106 000 states |
| `channel_close` | the same with funding 3, so that the RGB limit refuses a payment, either side may close with one of two fees, fairness | passes, 45 000 states |
| `hot_wallet` | two calls for one withdrawal request, one RGB withdrawal, one funding, at most three calls in all, two coins of which one carries RGB, any number of crashes | passes, 1.4 million states |

`MCSelfPay.cfg` is kept for use by hand: one account that pays its own invoice,
with `TypeOK`, `NoDoubleSpend` and `LegacyExclusion`; it passes with 555 000 states.

What the passing runs show:

* `InputsReserved`, `NoDoubleSpend`: whatever the interleaving, the inputs of an
  operation that may still spend or fill them are reserved to it and to it only.
* `ProvenBeforeBroadcast`: a carrier the daemon has posted has its signature
  stored, its proof in the recipient's slot and a record that admits it.
* `OnePaymentPerInvoice`: two sends for one invoice are never both posted.
* `BalanceBacked`: a tracked output carries an allocation in the stock, or was
  moved by a send that is not credited yet. Only an output that an operation of the
  engine itself brought may stay tracked longer, since its own credit can come
  after that send's (`InputsSettled`, Other divergences).
* `AnswerMatchesRecord`: the payer reads ACK only for a validated, stored
  payment and NACK only for one under review.
* `LegacyExclusion`: direct sends and the engine never share an account.
* `VerdictsStand`: needs_review is final, settled is only ever frozen, a
  cancelled invoice is never credited, a signature is never forgotten.
* `SendResolves`: what was signed ends as settled or under review, unless it lost
  its slot, an input or its carrier.
* `ReceiveResolves`: a consignment in an invoice's slot that can be read and passes RGB
  validation ends in a credit or, when it is for something else or came too late, in a review, unless
  its carrier is off the chain or the coin under the blind seal is spent. Of the
  others it says nothing, because the code retries them for ever (Other divergences).
* `CommittedNotLost`: both sides of a committed transfer are staged or in the
  stock, also between the transactions of a replay, when a commit is repeated
  after the scanner promoted it (`direct`), and after a restart (`legacy`).
* `NoConflictingPromotions`: nothing reserves the inputs of a direct send, and
  two of one coin may both be committed; two are promoted, in whichever accounts, only if one of
  the carriers lost a confirmation in a reorganisation. What happens then is under Other divergences.
* `EngineAccountsIdle`: an account of the engine has no direct send under way,
  neither as sender nor as the recipient of one prepared before it changed over.
* `CancelStands`: a transfer cancelled before anything was staged is not
  committed afterwards unless it is prepared again.
* `CommittedPromoted`: a committed transfer whose carrier stays confirmed is promoted in
  both accounts, through a restart (`legacy`), failed visits, another transfer of
  the same accounts and one that never validates in another account (`promoted`).
  Excepted is an account that a commit staged between the scanner's last look and
  its removal from the registry, and that no commit and no restart has registered
  since (`Forgotten`; Other divergences).
* `NeverForced`: without a close, no order of messages, lost connections and late
  disks makes an end give the channel up: no signature, id, commitment number or
  RGB assert ever fails.
* `ForcedOnlyByOrder`: with closes, only two orders of messages do (Other divergences). They
  show as three fates: when a shutdown overtakes additions, the peer refuses either the
  addition (`add_after_shutdown`) or the closing fee proposed before it is settled
  (`closing_order`); when the last `closing_signed` is lost, the channel is denied (`forgotten`).
* `BalanceIsLedger`: at every moment an end's RGB balance is its deposit plus and
  minus the claimed payments whose HTLC it no longer holds.
* `ClaimableIsLocked`, `FailedIsGone`: a payment is shown to the payee only when every
  commitment the payer could still publish contains it, and reported failed
  only when none the payee could still publish does.
* `OneOutcome`: the payer never hears both outcomes, nor one the payee did not
  decide.
* `CloseAgrees`: two ends that closed did so with the same balances, those of the ledger,
  and no payment is left without an outcome.
* `ImplementsLedger`: `RgbChannel` refines `IdealChannel`. A payment counts as
  offered when `send_htlc` takes it, as claimed when the payee's user claims it,
  and each end's settled and spendable balance follows in its own time; nothing
  is offered that the ledger does not cover.
* `EveryPaymentEnds`, `Quiesces`, `CloseCompletes`: a payment gets an outcome, all HTLCs
  and holding cells empty again, and a close that began on both sides ends.
* `PaidOnce`: of the transactions of all calls for one request at most one is ever
  on the network.
* `KeptUntilAbsent`: no payment is built on a coin of a withdrawal that was sent,
  or of a funding that was recorded, until a sync finds that transaction neither
  confirmed nor in the mempool, or the wallet has seen a conflicting one.

Bounds. Two operations are the least that conflict over an outpoint, a slot or
an account, and every property but the balance relates at most two. Two coins
let an operation take one, the other or both. One required confirmation makes
"confirmed" and "credited" coincide; `receive_live` uses two, so that a carrier
is promotable before it is deep enough. `MaxOperations` equals the number of
operation ids. `Mine` stops at `RequiredConfirmations`, the greatest depth any
guard tells apart. The operations of one kind are symmetric; symmetry is not
used in the liveness runs. In `DirectTransfer` two transfers are the least that
share a coin or an account, and one restart falls between any two
transactions. `direct` has no restart, which the runs would not finish with
beside reorganisations; `legacy` has one, its callback takes the same steps as
a commit, and the proofs cover any number of restarts in all combinations. In
`promoted` the two transfers share the sender's account, and the broken one is the first
in txid order and has a recipient of its own, so that its error comes before the other's turn. Its runs do not check deadlock: when every requested transfer is
done and no directory is registered, the daemon is idle. In `RgbChannel`
three payments are the least that let one wait in the holding cell while two
cross, and the second loss of the connection hits a reestablishment that the
first began. In `HotWallet` two calls for one request are the least that
can pay twice, and two coins let two transactions share one of them; `MaxCalls`
bounds the calls of a behaviour at three, since every property relates two. A wallet whose
calls are all made is idle, so deadlock is not checked there.

Fairness. The scanner thread loops for ever and serves operations in the order
of their retry times, so an operation that is eligible again and again is
served (`SF` of `Scan`); the lock's holder runs on (`WF`), as does the recovery
scan; known carriers get confirmations. Crashes, failing calls, reorganisations and
evictions come to an end: from some point on, every step that could be one of
them is a step of the holder. Nothing is assumed of clients or peers.
In `DirectTransfer`, the scanner's thread loops for ever (`WF` of `Scanner`; the
thread is started unless the scan interval is zero and the engine off), and the chain
server's true answer reaches the scanner again and again, cached answers expiring
(`SF` of `Answered`, per account and transfer). Nothing is assumed of the clients' commits,
of `Mine` or of the queries. In `RgbChannel`, the node reconnects its peers,
handles what arrives, completes its monitor updates and runs its timer
(`WF` each), and a payee's user decides: the console claims on
`PaymentClaimable`, and LDK fails back an HTLC that is about to expire.
The bound on lost connections is the assumption that they end. Nothing is
assumed of payers, and nobody has to close.

### Where code and documents disagree

Two runs state what a document or a message of the code says and find it
violated; `PROJECT.json` quotes the lines. More disagreements of this kind are in the list below.

1. `rejected_settled`: a crash after `credit` loses the review of a payment the
   peer rejected.
2. `receipt_dropped`: a query of the recipient between commit and promotion
   deletes the paid output, which holds no allocation yet, and nothing tracks it again.

### Other divergences

Met while modelling. The models behave this way; the properties named here are
defined in the modules and fail when added to a configuration; where a
configuration is named, it is kept here for that.

* A carrier dropped from the mempool after `broadcast_status` was saved is never
  posted again (external.rs:1391), although
  `src/docs/EXTERNAL-RGB-API.zh-CN.md:106` allows it to be sent again
  (`EvictedSendResolves`, `MCEvicted.cfg`).
* The confirmed, not yet promoted change of one send is accepted as a plain
  input of another, whose fascia does not move its tokens (external.rs:643;
  `AllocationsMoved`, `MCUnmoved.cfg`).
* Whether an input's operation has settled is asked when a send is prepared
  (external.rs:643), while `finish_preparation`, which picks the allocations the fascia
  moves, may be retried by the scanner after a crash or an error (804, 1365) and does not
  ask again. A send prepared on an output that carries nothing yet then moves
  what another operation brings to that output before that operation is credited; when
  its credit comes after the send's, the output is tracked although it is
  spent, until a query or a recheck drops it (`InputsSettled`, `MCLateCredit.cfg`).
* A commit that stages an account after the scanner looked for pending
  operations, and registers it before the scanner unregisters, is not visited
  again until another commit or a restart (main.rs:2196), although
  `src/docs/API.zh-CN.md:199` and `src/docs/TRANSFER.zh-CN.md:237` have the scanner
  promote what is staged by itself (`PromotedOnceConfirmed`, `MCUnregisterRace.cfg`).
* A consignment that RGB validation refuses, that is too large or that has a field
  which does not decode returns by `?` (external.rs 1458-1465, 1542-1550;
  rgb-service-local/src/lib.rs 1258-1275) like a network error: no review, no NACK,
  and another try at every later scan. `src/docs/EXTERNAL-RGB-API.zh-CN.md:91` has
  what is deterministically invalid recorded as refused and answered with a NACK, and
  line 131 says that deterministic validation failures are not retried without end
  (`InvalidIsReviewed`, `MCInvalid.cfg`).
* Two committed transfers of one coin are both promoted when a reorganisation
  replaces the block of the first, already promoted, by one with the second
  (rgb-service-local/src/lib.rs 1524-1548; a promotion is never taken back, and the
  cached answer lets the first be promoted even later; `PromotionsExclusive`, `MCReorganised.cfg`).
* `get_shutdown` refuses while additions are announced and not committed
  (channel.rs 13832-13838), but `shutdown` answers at once, although its comment
  (11032-11034) says such additions are impossible: an addition that waits for
  the monitor leaves after the shutdown message, and the peer force-closes
  (8154-8157; `ShutdownAfterAdds`, `MCShutdownOvertakes.cfg`).
* When the last `closing_signed` is lost, the end that sent it has closed and
  the other learns on reconnection that its channel is unknown and
  force-closes. The closing transaction is out by then, so no money is at stake.
  These are the two exceptions of `ForcedOnlyByOrder`.
* A comment in `internal_channel_reestablish` (channelmanager.rs 12612-12615) expects
  additions in the holding cell to be dropped on disconnection;
  `remove_uncommitted_htlcs_and_mark_paused` keeps them, and they leave later.
* A funding gives the wallet's lock back before `record_local_unconfirmed`. Another
  payment may select the same coins in between; recorded last, the funding
  displaces a held withdrawal and makes that withdrawal's other coins
  available again (`KeptUntilAbsent` without `Displaced`).
* An RGB withdrawal whose broadcast returns an error ends without
  `commit_transfer`, whether or not the node took the transaction
  (ln_rgb_btc_ln_backend.rs:1739), and the wallet is never told of its spend.

* A send that never returned a PSBT cannot be cancelled, since `Cancel` refuses every
  send (external.rs:786; `PreparingCancellable`).
* A cancelled invoice's payment without an output index is stored and never
  reviewed (`LatePaymentReviewed`).
* Balance queries remove the inputs of open sends (`ReservedInputsKept`).
* An operation that never validates ends the visit of its account by an error,
  so that the operations sorted after it are never promoted
  (lib.rs:1537; `CommittedPromoted` with a broken transfer of the same account).
* The legacy query looks for pending operations after it has listed the outputs
  (main.rs:3085): one promoted in between is deleted (`ReceiptTracked` with
  `LegacyQueriers`).
* `commit_transfer` does not track the sender's change (main.rs:4341), which
  `src/docs/API.zh-CN.md:201` promises (`ChangeTracked`).
* `cancel_transfer` answers "cancelled" and removes nothing (main.rs:4351);
  `src/README.md:535` says otherwise (`CancelStands` with a direct, cancellable transfer).
* The legacy cancel removes the record under the descriptor's own account, and misses one stored
  under another account of the same descriptor (legacy.rs:2484 against the comment at
  1783; `CancelStands` with `Aliased` not empty).

## 4. Proofs

`ExternalRgbProofs` proves, for every value of the constants that the named
assumptions allow (`IdsAssumption`: ids of different kinds are distinct;
`CoinsAssumption`; `LimitsAssumption`):

* `TypeCorrect`, `Spec => []TypeOK`;
* `ReservationsHold`, `Spec => []InputsReserved`;
* `DoubleSpendExcluded`, `Spec => []NoDoubleSpend`;
* `ProtocolsExclusive`, `Spec => []LegacyExclusion`.

`InputsReserved` is not inductive. The scanner works on a copy of the record,
and a step such as `credit` releases what the *copy* names; a state whose copy
has other inputs than the stored record, or in which a credited receive is
saved back as open, would break it. The inductive invariant is

    IInv == TypeOK /\ RecordsSound /\ HolderSound /\ InputsReserved

`RecordsSound` says what a stored record can look like (an absent one is empty,
a settled one has a proof, a blind receive's outpoint is its input), and
`HolderSound` that the holder's operation exists, that its copy has the stored
record's inputs and is sound, and that the copy and the stored record fit the
step reached (`Fits`): before `credit` neither is freed; at the last save, a
freed record is not saved back as open. One lemma per action keeps `Core`, one
per group of actions keeps the types, and `NextIInv` joins them.
`ProtocolsExclusive` then needs only that no step but `Receive` and `Prepare`
makes an absent record exist (`NoNewRecord`), and that those two look for the
other protocol under the lock.

Its second part proves, with `SlotsAssumption` (a recipient id of this
daemon derives from its own wallet's script or seal, so no peer has it) and
`ProofsAssumption` besides:

* `VerdictsNeverChange`, `Spec => VerdictsStand`, an action property;
* `PublishedIsProven`, `Spec => []ProvenBeforeBroadcast`;
* `InvoicePaidOnce`, `Spec => []OnePaymentPerInvoice`;
* `AnswersMatchRecords`, `Spec => []AnswerMatchesRecord`.

All four are about a record that is read, worked on in a copy and written back,
so what is inductive relates the copy to the stored record:

    RInv == StoredOK /\ HolderOK

`StoredOK` says what a record claims and can show (a delivered send is in its slot
of the proxy, a published one is delivered, a validated receive has a proof);
`HolderOK` says that the copy claims no more than it can show, that the copy only
*grows* from the stored record (`Grows`: verdicts, signature, proof, delivery),
and what has been established at each step of `advance_send` and
`advance_receive` (`Reached`). `VerdictsStand` is then `Grows` of one save.
`PostedMarked` (what was posted is marked in the stored record before) carries
the two properties of the chain, and `AInv` those of the proxy: an invoice has
its recipient id for itself, and nobody answers for an id before its invoice
exists. `RecordsHold` states `[](IInv /\ RInv)`.

Its third part proves `BalanceIsBacked`, `Spec => []BalanceBacked`, with

    BInv == StockFirst /\ BalanceBacked

`StockFirst` says that the stock is brought up to date before the credit: a fascia
whose status is confirmed, or that a promotion is about to mark, has been
consumed; the holder comes to `credit` only then; what was credited is not staged again.
The attempt to prove the plain form (tracked and moved means not credited) failed at
`finish_preparation`, and TLC then showed the behaviour: it is the divergence
`InputsSettled` above, and `BalanceBacked` names exactly the outputs it concerns. The
same attempt showed that the stock's idempotence had to be modelled (`Arriving`).

`DirectTransferProofs` proves, under `TransfersAssumption` and
`ConfigAssumption` (the engine and the legacy API exclude each other):

* `DirectTypeCorrect`, `Spec => []TypeOK`;
* `CommitsSurvive`, `Spec => []CommittedNotLost`;
* `PromotionsAgree`, `Spec => []NoConflictingPromotions`;
* `EngineExclusive`, `Spec => []EngineAccountsIdle`;
* `LegacyCancelStands`, `Spec => CancelStands` if the transfers that may be cancelled
  are legacy ones stored under the descriptor's own account. The hypothesis
  is the statement's limit in the code: the other two kinds of
  cancellation are the divergences listed above.

The first four rest on `DirectInvariantHolds`, `Spec => []IInv`, where

    IInv == TypeOK /\ StagingInv /\ ScanInv /\ ChainInv /\ LockInv /\ EngineAccountsIdle

`CommittedNotLost` alone is not inductive: `RemoveReplayed` drops the operation,
so `ScanInv` says that what a scan is about to remove is in the stock, and
`ReplyCommitted` adds to `committed`, so `StagingInv` says what a commit that
has reached a step has staged. `NoConflictingPromotions` needs `ChainInv`: a
stock holds only transfers that are confirmed or were until a reorganisation, and at
no time are two of one coin confirmed. The proof has `Reorg` as a step like any other,
so a conflict of two promoted transfers always comes from a reorganisation of one of the two.
`EngineAccountsIdle` needs `LockInv` (a direct commit under way holds the lock
and keeps the engine off both accounts) and, since `ExternalClaim` only sees that
every pending status is terminal, the last conjunct of `ScanInv`: a status
is "confirmed" only when the stock has the transfer. One lemma per conjunct,
with one step per action. `LegacyCancelStands` needs that a cancelled transfer
has no record (`CancelledGone`) and that a commit starts from a record only
(`RecordsKept`).

`HotWalletProofs` proves, under `HotWalletAssumption` (calls of different kinds and coins
are distinct):

* `RequestsPaidOnce`, `Spec => []PaidOnce`;
* `HotWalletTypeCorrect`, `Spec => []TypeOK`;
* `KeptCoinsNotReused`, `Spec => KeptUntilAbsent`, an action property.

The inductive invariant of the first is

    PaidInv == Shape /\ Barrier /\ OneOpen

`PaidOnce` speaks of the network, and no step that changes the network looks at
requests; what carries the argument is the evidence. `Barrier` says that a
withdrawal is on the network, posted or past `Hold` only if it is logged, and that a
logged one has not been answered `not_attempted`, now or ever: its answer is
`none` until it ends. `OneOpen` says that of two calls made for one request, one has
ended with `not_attempted`; `MayStart` keeps it. Together they leave at most one
logged call per request. `Shape` is the part of the types that this needs. The
proof has one step per action; those whose branches differ only in the wallet
first reduce them to "goes on" or "returns with this answer".

The other two rest on

    WalletInv == CallsOK /\ ViewOK(store) /\ NetworkOK /\ Remembered

`Remembered` says that a withdrawal which is held or was posted, and a funding that
was recorded, is listed by the persisted view until a sync reports it missing. That
is not enough, because coins are chosen by the canonical view: `CanonicalView`
shows that what is listed and does not count conflicts with something else
listed, which is `Displaced`. It rests on `CountingExists`: the view is well defined
for every finite wallet whose `later` has a last element in every set
(`Ordered`, kept by `ViewAfterSeen` and `ViewAfterSync`). That one is an
induction over a set, done with the well-foundedness of the strict subsets
(`WFMin`), whose statement quantifies over sets and needs no operator.
`NetworkOK` says that the network holds no two conflicting spends, which needs
that a transaction whose inputs are not chosen yet is not known to anyone.

`RgbChannelProofs` proves, under `ChannelAssumption` (two different nodes, amounts of at
least one, a bound on lost connections), for any set of payments:

* `LedgerRefined`, `Spec => ImplementsLedger`: the channel refines `IdealChannel`;
* `BalanceCorrect`, `Spec => []BalanceIsLedger`;
* `OutcomeCorrect`, `Spec => []OneOutcome`;
* `ChannelTypeCorrect`, `Spec => []TypeOK`.

None of them is inductive, and the reason is the id of an HTLC. The nodes name an HTLC by
a number that the payer gives, the payee takes back on a disconnection when it
had not committed to it, and the payer repeats. That the HTLC removed under a number is the
one that was decided needs that both nodes, the messages on their way and
both holding cells mean the same payment by it. The inductive invariant
therefore claims a ledger of ids that is no variable of the model:

    DecisionInv == (\E I : Decision(I, ch, net, ...)) /\ conn \in BOOLEAN /\ drops \in 0 .. MaxDrops

`I[p]` is the number under which `p` was placed, or -1. `IdsOK` says that numbers are
given once; `OutOK` that the payer keeps an HTLC until it is decided and
removes it only as decided; `InOK` the same of the payee, and that an HTLC on its way in
is known to no user; `SeenOK` that what the payee would forget on a disconnection
is exactly the tail of the numbers it has seen, so that the payer's
repetition starts at the number it expects; `CellOK` and `Deliverable` that a waiting update or
a message carries an outcome only if the payee decided it; `ToldOK` what the
payer's user has heard. `ChannelTypeCorrect` and `OutcomeCorrect` follow from it.

The lemma of each action (`UpdateAddStep` to `SendPaymentStep`) shows two things at once
(`After`): some ledger of ids explains the next state, and the step is a `LedgerStep`. That is
one of three: one node settles (`Moves`: HTLCs leave its sets, waiting
additions are placed or given up, `toSelf` moves by the claimed ones) while the other stands
still; one payment is offered out of what its payer can spend; one payment is claimed while
both nodes have it under way. `BalanceCorrect` is an induction over ledger steps, with
no action left in it. `LedgerRefined` maps each kind of step to `Settle`, `Offer` or
`Claim` of `IdealChannel` (`SettlesIdeal`, `OffersIdeal`, `ClaimsIdeal`).

The sums are `MapThenSumSet`, and the holding cell is freed with `FoldLeft`. `RgbChannelLemmas`
shows by well-founded induction what both compute (a sum over a disjoint
union is the sum of the sums; a fold over a sequence goes through it element by
element), without the induction theorems that take an operator.

The properties of the commitment transactions compare what the two nodes hold and what either
could broadcast, which `DecisionInv` leaves open. They are proved in two stages.

`RgbChannelDance` and `RgbChannelDanceProofs` prove `OpenChannelIsSafe`: until a node closes the channel by
agreement, `ClaimableIsLocked` and `FailedIsGone` hold. The inductive invariant is

    DanceInv == DecisionInv /\ (BothOpen => InStep) /\ (NotClosed => LockedIn(...) /\ GoneFrom(...))

`InStep` is a relation between the two channels and the two queues, stated once per direction
from a node `c` over its queue `q` to its peer `d`:

* `Link`: the commitment counters are at most one apart (`Turns`); a commitment or revocation that
  is owed is in the queue or held back by the monitor, never both and never lost unless the
  connection was (`Pending`); a queue starts with the `channel_reestablish` its receiver waits for
  (`Connected`), and holds at most one commitment, after the updates it covers, and one revocation, in
  the channel's resend order (`Line`);
* `Adds`, `Rems`: the updates in the queue are exactly those that one side has made and the
  other has not taken in, additions in the order of their ids;
* `Pair`: the twelve combinations in which the payer and the payee may have one HTLC, each with what is
  owed at that moment. The resend order matters: an HTLC that both have announced may wait
  for a revocation that comes before or after a commitment;
* `OutputsOf`: in which unrevoked commitments of either side the HTLC is an output.

Each relation was checked by TLC as an invariant of the runs `channel` and `channel_close` before it was
proved. The proof has one lemma per relation and kind of change (a message read, a message written, a
commitment built or accepted, a revocation, a lost connection), and one lemma per action that
puts them together (`AddInStep` to `ReestablishInStep`). They also show that of the errors that end a channel,
a wrong revocation, a wrong id, an HTLC removed twice, a failed reestablishment and the code marked
unreachable do not occur while both nodes are open: a node that gives up does so for one of `Causes`.

`RgbChannelCloseProofs` proves, with no hypothesis on who closes:

* `ClaimableLocked`, `Spec => []ClaimableIsLocked`;
* `FailedGone`, `Spec => []FailedIsGone`;
* `ClosingAgrees`, `Spec => []CloseAgrees`.

What has to be added is what holds when a node closes while its peer does not yet know:

    CloseInv == DanceInv /\ BalanceInv /\ (BothOpen => AllPolite /\ AllParting) /\ (~NotClosed => AllSettled)

`Polite` says that a payment which was started is still under way at its payer (in the holding cell,
offered, or failed and waiting for the monitor) or its user was told, which is not obvious for a shutdown,
which drops waiting additions, nor for a revocation, which drops HTLCs and reports them after the monitor update.
`Parting` says that while a `closing_signed` is on its way or put aside, its sender has no HTLC, no
waiting update and nothing held back. So when a node signs, both are empty: `AllSettled`. From then
on every step leaves it so (`Rests`). The equal splits follow from
`BalanceIsLedger` once no HTLC is left.

It also proves that two correct nodes do not give the channel up to the chain by themselves, under the
hypothesis that nobody closes (which is how the run `channel` is set up; with closes the property is false, see
`ForcedOnlyByOrder`):

* `NoForcedClose`, `ASSUME Closers = {} PROVE Spec => []NeverForced`.

`Causes` leaves two kinds of errors that `DanceInv` says nothing about: a signature that does not verify and an
assertion of `build_commitment_transaction` that fails. Both are about the contents of commitments:

    ForcedInv == BothOpen /\ DanceInv /\ BalanceInv /\ Money /\ Unshut /\ AllSigned

`AllSigned` says that a `commitment_signed` on its way signs what its sender would sign again now: nothing that
arrives before it, and nothing its sender may do until it is answered, changes that. `TxsAgree` then shows that
the commitment the sender builds for its peer is the one the receiver builds for itself when it verifies: the
twelve pairs of states say that both count the same HTLCs, and `BalanceIsLedger` on both sides that what is left is the
same split. `Money` says that no node has offered more than it has (kept by the ledger steps of `IdealChannel`), from
which the assertions follow. `Unshut` keeps the messages of a shutdown out.

Only model-checked: `ForcedOnlyByOrder` of `RgbChannel`, which needs to know which shutdowns may cross which
updates. And the liveness properties, since liveness under fairness is beyond the prover.

## 5. Plan

Done, in this order: the engine with its peers, its safety and liveness runs,
the reservations proof; direct sends with the recovery scanner, their runs and
proofs; the RGB channel and the ledger it implements, with the proof that it does; the hot
wallet and its proofs.
Next, most important first:

1. `ChannelOpen`: the opener's funding binding, `try_confirm_rgb_funding_refs`
   (which confirms a binding without asking the chain,
   ln_rgb_btc_ln_backend.rs 4231-4287), the acceptor's attachment in the maintenance poll
   (4289-4357), the reconciliation that can take `rgb_sweep_confirmed` back
   (4359-4411), events whose errors are only logged (2760-2765).
2. An abstract payment specification that `ExternalRgb` and `DirectTransfer` implement.
3. `ScanQueue`: retry times, back-off, the batch of 32, Refresh; no eligible
   operation starves.
4. The RNA ledger (credits under the lock, main.rs 3696-3823, against profiles
   created without it, 3552-3565) and the stake redeem endpoints (legacy.rs
   129-800, main.rs 2541-2810).
5. The confirmation cache and the consensus of several chain servers; the LN
   composition records with u64 sums; the deposit sweep planner.
6. A theorem: `ForcedOnlyByOrder` of `RgbChannel`, on top of `CloseInv` and `ForcedInv`: that a shutdown
   never arrives between an addition and the commitment that covers it, and what a node that
   is still open may receive from one that has closed.

## 6. Not modelled

RGB consensus, AluVM, schemas, PSBT contents, script and signature checks,
amounts in the daemon (a change in the stock is a set of outputs), HTTP,
authentication, the token catalog, the importers. Corruption of the
store is not modelled either: a committed transaction is read back as written.

Most lines of the tree are third-party code that this repository carries and
does not change in substance: of the fork of LDK, the router, onions, gossip,
wire messages, offers, splicing, the on-chain part of the channel monitor and
the tests; AluVM and the RGB libraries. They have specifications and tests of
their own. Of the fork only the channel is modelled, because it carries the RGB
balance. Left out there: an RGB daemon that is not available when a commitment
is composed (a panic, `chan_utils.rs:2079`), dust trimming, which looks at satoshis
only, and a peer that does not follow the protocol (`update_add_htlc` does not
compare an HTLC with the peer's RGB balance; the assert of the commitment does).
